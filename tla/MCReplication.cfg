\* A story of the first node and its duplicate of the second, edited by both.
SPECIFICATION FairSpec
CONSTANTS
    Node = {1, 2}
    Key = {1, 2}
    Value = {1, 2}
    Absent = 0
    Peers <- EveryOtherNode
    CanonicalOf <- TwoIsADuplicate
    Skew <- SameClock
    CacheSize = 20
    DeltaLimit = 20
    MaxEvents = 20
    Creators <- NodeOfSameNumber
    CrashNodes = {}
    MaxEdits = 3
    MaxScans = 6
INVARIANTS NoGapInHistory EventsComeFromChanges
PROPERTIES LastWriterWinsSpec NodesConverge 
CHECK_DEADLOCK FALSE
