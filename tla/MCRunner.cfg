CONSTANTS
    Row <- Row3
    Gone <- Gone2
    Renewed <- Renewed2
    Later <- Later2
    Queries <- Queries2
    Worker <- Worker2
    Rounds = 2
    Nil = Nil
    Part = Part
    Text = {ta, tb, tc}
    Requests = 5
    InvalidateAt = 3
    Capacity = 2
    Databases = {"pgvector", "qdrant", "milvus", "cache"}
    Repeat = 3
    P50 <- P50s
    MaxSessions = 2
SPECIFICATION Spec
CHECK_DEADLOCK FALSE
INVARIANTS
    SearchesCurrent
    Tombstones
    LoadCounts
    RestoreHolds
    MedianKept
    CacheHolds
PROPERTIES
    SessionEnds
