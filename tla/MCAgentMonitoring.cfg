SPECIFICATION MCSpec
CONSTANTS
    m1 = m1
    m2 = m2
    Agent = {1}
    Message = {m1, m2}
    To <- MCTo
    Screens <- MCScreens
    MaxNudges = 1
    HardReset = 1
    BranchKnown = TRUE
    MaxAborts = 1
    MaxRestarts = 1
INVARIANTS ReadMeansTold
PROPERTIES MessagesArrive QuestionsReachPeople StuckStoriesGetAttention
