CONSTANTS
    MsgIds = {1, 2, 3}
    Clients = {1}
    MaxRetries = 1
    AckTimeout = 0
    MainCapacity = 1
    DlqCapacity = 1
    MaxTime = 0
    MaxTargets = 1
    Groups = {g1}
    NoGroup = NoGroup
    Requests <- OrdersAndDead
    MaxPublished = 2
    MaxWhenStopped = 1
SPECIFICATION FairBrokerSpec
INVARIANTS BrokerTypeOK NoneLost OneCopyInGroup 
PROPERTIES Resolves ShutdownEnds
CHECK_DEADLOCK FALSE
