SPECIFICATION Spec
CONSTANTS
    N = 4
    K = 3
    Iters = 2
    Scale = 12
    Values = {0, 1, 3, 8}
INVARIANTS
    NoClusterEmpty
PROPERTIES
    TakesWorst
    Descends
