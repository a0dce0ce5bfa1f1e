SPECIFICATION Spec
CONSTANTS
    n1 = n1
    n2 = n2
    n3 = n3
    Node = {n1, n2, n3}
    Peers <- PeersOf
    NamesItself = {n2}
PROPERTIES
    LivePeersStayRecent
    DeadPeersGrowOld
CHECK_DEADLOCK FALSE
