SPECIFICATION RestartSpec
CONSTANTS
    n1 = n1
    n2 = n2
    n3 = n3
    Node = {n1, n2}
    None = None
    Flaky <- OneWay
    Stoppable = {}
    MaxTerm <- ThreeAndOne
    MaxLog = 2
    MaxHeartbeats = 1
    MaxRestarts = 1
INVARIANTS
    TypeOK
    CountedVotesWereCast
    LeaderIdWasElected
    LogTermsOrdered
    CampaignerBacksItself
CHECK_DEADLOCK FALSE
