SPECIFICATION Spec
CONSTANTS
    Other = other
    Nobody = nobody
    Runs = {r1, r2, r3}
    DryRuns = {r3}
    LongRuns = {r1}
    MaxKills = 1
    MaxGpu = 1

    
    
PROPERTIES
    
    LockReleased
CHECK_DEADLOCK FALSE
