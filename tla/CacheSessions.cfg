SPECIFICATION Spec
CONSTANTS
    Requests = {r1, r2}
    Families = {f1}
    Tokens = {t1, t2}
    None = None
    RefreshLifetime = 3
    AccessLifetime = 2
    Leeway = 1
    MinTTL = 2
    MaxRequest = 2
    MaxTime = 6
SYMMETRY Symmetry
CONSTRAINT LoginFirst
CHECK_DEADLOCK FALSE
INVARIANTS
    TypeOK
    RedeemedOnce
    OverNeverRedeems
    StrictRejectsRevoked
PROPERTIES
    ImplementsPort
