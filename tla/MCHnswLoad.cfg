SPECIFICATION Spec
CONSTANTS
    N = 6
    MaxLevel = 1
    M = 2
    M0 = 4
    EfC = 3
    NBuild = 4
    Ef = 2
    K = 2
    Clients = 2
    Queries <- Pass
    Corpora <- Few
INVARIANTS
    ReadsAreRows
    SameAsBuild
    ShortOnlyAtNewRow
    
