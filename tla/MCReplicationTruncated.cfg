\* Caches and databases keep few events, so peers recover from snapshots; a process dies.
SPECIFICATION Spec
CONSTANTS
    Node = {1, 2}
    Key = {1, 2}
    Value = {1, 2}
    Absent = 0
    Peers <- EveryOtherNode
    CanonicalOf <- NoDuplicates
    Skew <- SameClock
    CacheSize = 1
    DeltaLimit = 20
    MaxEvents = 2
    Creators <- AnyNode
    CrashNodes = {1}
    MaxEdits = 2
    MaxScans = 3
INVARIANTS RowsFollowTheirNewestEvent
CHECK_DEADLOCK FALSE
