SPECIFICATION Spec
CONSTANTS
    Orgs = {o1, o2}
    Teams = {t1}
    Users = {u1}
    Keys = {k1, k2}
    Ops = {p1, p2, p3}
    None = None
    MaxFaults = 1
SYMMETRY Symmetric
INVARIANTS TenantsInv OrgRemains AuditIsTrue
CHECK_DEADLOCK FALSE
