SPECIFICATION Spec
CONSTANTS
    p1 = p1
    p2 = p2
    t = t
    c1 = c1
    c2 = c2
    None = None
    PeerList <- BothPeers
    Workload <- Workloads
    Type = {t}
    Call = {c1, c2}
    RecursionLimit = 2
INVARIANTS
    AnswersAreOwn
    RepeatedOnlyAfterGivingUp
PROPERTY
    CallsEnd
CHECK_DEADLOCK FALSE
