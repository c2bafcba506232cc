\* Stories that are assigned, rejected and merged while Jira fails and people move issues.
SPECIFICATION FairSpec
CONSTANTS
    Story = {s1}
    Mapped <- UsualColumns
    MaxChanges = 4
    MaxMishaps = 1
INVARIANTS OneIssueForAStory
PROPERTIES  AssignedStoriesGetSubtasks
