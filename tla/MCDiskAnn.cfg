SPECIFICATION Spec
CONSTANTS
    N = 5
    R = 2
    LBuild = 2
    Alpha = 12
    Entry = 2
    L = 1
    Beam = 2
    K = 2
    Reranks = {0, 3}
    MaxSearches = 4
    Dot <- Line
    Starts <- AnyStart
    Tables <- Questions
INVARIANTS
    RecordsAreLists
    GreedyIsLoop
    FullAnswer
    
CHECK_DEADLOCK FALSE
