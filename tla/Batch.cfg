\* One batch of two items, two workers, a queue of one, one failing statement, one crash.
SPECIFICATION FairSpec
CONSTANTS
    b1 = b1
    Batches = {b1}
    Total = 2
    PoolSize = 2
    QueueSize = 1
    MaxFaults = 1
    MaxCrashes = 1
INVARIANTS BatchInv CompletedIsTrue
PROPERTIES EndedStays ItemsLeavePool BatchEndsIfContextLives
CHECK_DEADLOCK FALSE
