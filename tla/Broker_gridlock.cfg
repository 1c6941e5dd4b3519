CONSTANTS
    MsgIds = {1, 2, 3}
    Clients = {1}
    MaxRetries = 1
    AckTimeout = 0
    MainCapacity = 1
    DlqCapacity = 1
    MaxTime = 0
    MaxTargets = 1
    Groups = {g1}
    NoGroup = NoGroup
    Requests <- OneGroup
    MaxPublished = 3
    MaxWhenStopped = 0
SPECIFICATION FairBrokerSpec
PROPERTIES DispatcherProceeds
CHECK_DEADLOCK FALSE
