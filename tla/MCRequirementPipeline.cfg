\* Handoff and sign-off, with a tech lead and a manager that may die.
SPECIFICATION FairSpec
CONSTANTS
    Story = {1, 2}
    Tester = {1, 2}
    Target = {"main", "custom"}
    MaxDeaths = 1
PROPERTIES HandoffCompletes SignOffStarts ResultsAreHandled
CHECK_DEADLOCK FALSE
