\* Three requests, limits of two seconds and three tokens per window of three seconds,
\* one failing command.
SPECIFICATION Spec
CONSTANTS
    r1 = r1  r2 = r2  r3 = r3
    Requests = {r1, r2, r3}
    RpmLimit = 2
    TpmLimit = 3
    Usages = {1, 2}
    Window = 3
    MaxTime = 4
    MaxFaults = 1
SYMMETRY Symmetry
INVARIANTS WindowInv RefusedForReason SecondsWithinLimit TokensCounted
CHECK_DEADLOCK FALSE
