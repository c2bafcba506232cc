\* One story and its row; the crew's session may end, its spawn fail, the manager restart.
SPECIFICATION LiveSpec
CONSTANTS
    Story = {s1}
    Pr = {1}
    StoryOf <- OneStory
    DependsOn <- Independent
    QA = {1}
    NoOne = 0
    Claimants = {}
    RecheckMayFail = FALSE
    PendingPerAgent = 2
    MaxTimeouts = 1
    MaxRows = 1
    MaxVerdicts = 1
    MaxCompletes = 0
    MaxRestarts = 1
    MaxInAll = 2
    MaxDeaths = 1
    MaxSpawnFailures = 1
PROPERTIES MergedStoryRecovers 
