\* The newcomer joins and leaves the cluster of the founder; both may die.
SPECIFICATION MemberSpec
CONSTANTS
    Node = {1, 2}
    None = 0
    ConfigPeers <- FounderAndNewcomer
    TimerNodes = {1, 2}
    RestartNodes = {1, 2}
    CatchUpNodes = {1}
    MaxTerm = 2
    Joiner = {2}
    Leaver = {2}
PROPERTIES StaleLeaderIsDeposed ElectionsEnd MembersFollow
CHECK_DEADLOCK FALSE
