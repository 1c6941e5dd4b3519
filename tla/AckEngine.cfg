CONSTANTS
    MsgIds = {1, 2}
    Clients = {1}
    MaxRetries = 1
    AckTimeout = 1
    MainCapacity = 1
    DlqCapacity = 1
    MaxTime = 2
    MaxTargets = 2
SPECIFICATION FairSpec
INVARIANTS TypeOK LockOwned HeapCovers RetryBound NoSilentLoss
PROPERTIES NoEarlyExpiry TimeoutFires
CHECK_DEADLOCK FALSE
