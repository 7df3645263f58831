SPECIFICATION Spec
CONSTANTS
    CapN = 4
    N = 4
    MaxLevel = 1
    M = 2
    M0 = 4
    EfC = 4
    Ef = 2
    Chunk = 1
    Workers = {w1, w2}
    Inserter = ins
    Searchers = {}
    MaxRepair = 1
    Level <- LevelsRise
INVARIANTS
    NoLostEdge
    EntryIsTop
    OneLock
PROPERTIES
    AllInserted
