SPECIFICATION TimelySpec
CONSTANTS
    n1 = n1
    n2 = n2
    n3 = n3
    Node = {n1, n2, n3}
    None = None
    Flaky <- NoLinks
    Stoppable = {}
    MaxTerm <- TwoTwice
    MaxLog = 1
    MaxHeartbeats = 1
SYMMETRY Rival12
INVARIANTS
    ElectionSafety
    OneLogPerTerm
    TimelyInv
    VoteOncePerTerm
PROPERTIES
    VotesFollowTheLog
    ElectsTermLeaders
CHECK_DEADLOCK FALSE
