CONSTANTS
    MsgIds = {1, 2}
    Bodies = {b1, b2}
    Garbage = Garbage
    MaxRetries = 1
    MaxStops = 2
    MaxLog = 4
SPECIFICATION FairSpec
INVARIANTS TypeOK LogKept DurableKept
PROPERTIES RecordsReachDisk
CHECK_DEADLOCK FALSE
