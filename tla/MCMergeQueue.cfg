SPECIFICATION Spec
CONSTANTS
    Story = {s1}
    Pr = {1}
    StoryOf <- OneStory
    DependsOn <- Independent
    QA = {1}
    NoOne = 0
    Claimants = {0}
    RecheckMayFail = FALSE
    MaxTimeouts = 1
    MaxRows = 2
    MaxVerdicts = 2
    MaxCompletes = 1
    MaxRestarts = 1
    MaxInAll = 2
INVARIANTS MergedIsMergedOnGitHub OneReviewAtATime
PROPERTY MergesFollowApproval
