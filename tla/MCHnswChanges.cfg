SPECIFICATION Spec
CHECK_DEADLOCK FALSE
CONSTANTS
    N = 4
    MaxLevel = 1
    M = 2
    M0 = 4
    EfC = 4
    Ef = 2
    Draws <- Both
    Scores <- NearFar
    Masks <- Nested
    Batches <- Moves
    Filters <- SomeRows
    MaxProcs = 3
INVARIANTS
    AllReached
    EntryOnTop
    CutOff
    FullAnswer
    SameAnswers
