\* Three stories, one of which waits for another, two at a time, and any one mishap.
SPECIFICATION LiveSpec
CONSTANTS
    s1 = s1
    s2 = s2
    s3 = s3
    None = None
    Story <- ThreeStories
    Later <- SecondLater
    Dependencies <- Chain
    Wanted <- JuniorWork
    MaxParallel = 2
    SeniorCapacity = 1
    MaxAgents = 8
    MaxDeaths = 1
    MaxFailures = 1
    MaxRejections = 1
    MaxClaims = 1
    MaxApprovals = 1
    MaxCommands = 1
    MaxCrashes = 1
    MaxInAll = 1
INVARIANTS  PlannedIsUnassigned WithinParallelLimit
PROPERTIES  StoriesAreMerged
