SPECIFICATION Spec
CHECK_DEADLOCK FALSE
CONSTANTS
    N = 6
    MaxLevel = 1
    M = 2
    M0 = 4
    EfC = 2
    Ef = 2
    Draws <- Flat
    Scores <- NearFar
    Masks <- NoMasks
    Batches <- NoMoves
    Filters <- AllRows
    MaxProcs = 1
INVARIANTS
    AllReached
    ProtectedKept
