CONSTANTS
    MsgIds = {1, 2}
    Clients = {1}
    MaxRetries = 2
    AckTimeout = 0
    MainCapacity = 3
    DlqCapacity = 2
    MaxTime = 0
    MaxTargets = 1
    Groups = {g1}
    NoGroup = NoGroup
    Requests <- OneGroup
    MaxPublished = 1
    MaxWhenStopped = 1
SPECIFICATION BrokerSpec
PROPERTIES CrashedDeliveryRepeated
CHECK_DEADLOCK FALSE
