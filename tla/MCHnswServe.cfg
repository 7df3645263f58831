SPECIFICATION Spec
CONSTANTS
    CapN = 4
    N = 2
    MaxLevel = 2
    M = 2
    M0 = 4
    EfC = 1
    Ef = 2
    Chunk = 1
    Workers = {w1}
    Inserter = ins
    Searchers = {s1}
    MaxRepair = 0
    Level <- LevelsThree
INVARIANTS
    TypeOK
    QueryLayers
    NoDeadEnd
    NoShortResult
PROPERTIES
    QueryReturns
