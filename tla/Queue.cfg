SPECIFICATION FairSpec
CONSTANTS
    orders = orders
    mails = mails
    audits = audits
    p1 = p1
    p2 = p2
    None = None
    Topic = {orders, mails, audits}
    Partition = {p1, p2}
    PartitionOf <- TwoShareOne
    MaxMessages = 3
    MaxTasks = 2
INVARIANTS
    TypeOK
    NothingIsLost
    OnePlace
    AckReachesItsTask
PROPERTIES
    DeliversAtLeastOnce
    EverythingSettles
