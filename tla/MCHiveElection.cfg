\* Three nodes, two terms; a and b campaign, a may restart.
SPECIFICATION Spec
CONSTANTS
    Node = {a, b, c}
    None = None
    ConfigPeers <- EveryOtherNode
    TimerNodes = {a, b}
    RestartNodes = {a}
    CatchUpNodes = {}
    MaxTerm = 2
INVARIANTS  SplitLeadershipNeedsRevote
PROPERTIES TermAndVoteSurvive
CHECK_DEADLOCK FALSE
