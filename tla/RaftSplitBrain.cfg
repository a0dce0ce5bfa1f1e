SPECIFICATION Spec
CONSTANTS
    n1 = n1
    n2 = n2
    n3 = n3
    Node = {n1, n2, n3}
    None = None
    Flaky <- NoLinks
    Stoppable = {}
    MaxTerm <- TwoTwice
    MaxLog = 0
    MaxHeartbeats = 0
SYMMETRY Rival12
INVARIANT
    ElectionSafety
CHECK_DEADLOCK FALSE
