CONSTANTS
    Producers = {p1, p2}
    Poppers = {c1}
    TryPoppers = {t1}
    Capacity = 2
    MaxItems = 3
SPECIFICATION FairSpec
INVARIANTS TypeOK WithinCapacity NoLostWakeup
PROPERTIES FifoSpec EveryItemTaken PushReturns
