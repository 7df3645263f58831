SPECIFICATION Spec
CONSTANTS
    N = 4
    Dim = 2
    K = 2
    NList = 3
    MaxRuns = 3
    Nil = Nil
    Corpus <- SmallCorpus
    Updates <- UpdateFiles
    Masks <- DeleteFiles
    Filters <- FilterFiles
    Centers <- ThreeCenters
    Queries <- Asked
    Books <- Trained
INVARIANTS
    AnswersRight
PROPERTIES
    Implements
CHECK_DEADLOCK FALSE
