\* One call of either kind; up to two iterations with up to two tool calls each;
\* one posted message, one failing statement.
SPECIFICATION FairSpec
CONSTANTS
    r1 = r1
    Calls = {r1}
    Requested = {0, 1, 3}
    DefaultIter = 1
    HardCap = 2
    MaxToolCalls = 2
    MaxPosted = 1
    MaxFaults = 1
INVARIANTS LoopInv
PROPERTIES EndedRunStays RunEndsIfContextLives
CHECK_DEADLOCK FALSE
