SPECIFICATION Spec
CONSTANTS
    Requests = {r1}
    Families = {f1}
    Tokens = {t1, t2}
    None = None
    RefreshLifetime = 4
    AccessLifetime = 2
    Leeway = 1
    MinTTL = 2
    MaxRequest = 3
    MaxTime = 6
SYMMETRY Symmetry
CONSTRAINT LoginFirst
CHECK_DEADLOCK FALSE
INVARIANTS
    RedeemedOnce
