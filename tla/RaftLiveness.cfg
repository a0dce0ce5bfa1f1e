SPECIFICATION FairSpec
CONSTANTS
    n1 = n1
    n2 = n2
    n3 = n3
    Node = {n1, n2, n3}
    None = None
    Flaky <- ToThird
    Stoppable = {n1}
    MaxTerm <- TwoOnce
    MaxLog = 0
    MaxHeartbeats = 1
PROPERTY
    LeaderBecomesKnown
CHECK_DEADLOCK FALSE
