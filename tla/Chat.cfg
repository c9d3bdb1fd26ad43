\* Two requests, two keys, two questions, one failing statement, one edit.
SPECIFICATION Spec
CONSTANTS
    r1 = r1  r2 = r2  a = a  b = b  x = x  y = y
    Requests = {r1, r2}
    Keys = {a, b}
    WithChain = {b}
    Questions = {x, y}
    Permitted <- PermittedAB
    Global = "plain"
    Rows = {"redact"}
    MaxBudget = 1
    Costs = {1, 2}
    MaxCost = 2
    Scale = 3
    MaxFaults = 1
    MaxEdits = 1
SYMMETRY Symmetry
INVARIANTS OvershootBounded Accounting RestrictionsHold RedactionHolds
CHECK_DEADLOCK FALSE
