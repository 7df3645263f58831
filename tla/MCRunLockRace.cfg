SPECIFICATION Spec
CONSTANTS
    Other = other
    Nobody = nobody
    Runs = {r1, r2}
    DryRuns = {}
    LongRuns = {}
    MaxKills = 0
    MaxGpu = 0
INVARIANTS
    Exclusive
CHECK_DEADLOCK FALSE
