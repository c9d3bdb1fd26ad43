\* Three overlapping admin calls, one failing statement, one restart.
SPECIFICATION StoreSpec
CONSTANTS
    k1 = k1  k2 = k2  k3 = k3  o1 = o1  o2 = o2  o3 = o3
    Keys = {k1, k2, k3}
    Ops = {o1, o2, o3}
    NoKey = NoKey
    MaxFailures = 1
    MaxRestarts = 1
INVARIANTS DatabaseFirst ActiveKeysAccepted
CHECK_DEADLOCK FALSE
SYMMETRY Symmetry
