\* One batch, room for every item, no faults: only the request context ends.
SPECIFICATION FairSpec
CONSTANTS
    b1 = b1
    Batches = {b1}
    Total = 2
    PoolSize = 2
    QueueSize = 2
    MaxFaults = 0
    MaxCrashes = 0
PROPERTY BatchEnds
CHECK_DEADLOCK FALSE
