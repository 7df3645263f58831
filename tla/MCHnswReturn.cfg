SPECIFICATION Spec
CHECK_DEADLOCK FALSE
CONSTANTS
    N = 4
    MaxLevel = 1
    M = 2
    M0 = 4
    EfC = 4
    Ef = 4
    Draws <- Mixed
    Scores <- NearFar
    Masks <- LastRow
    Batches <- Moves
    Filters <- AllRows
    MaxProcs = 2
INVARIANTS
    NoReturn
