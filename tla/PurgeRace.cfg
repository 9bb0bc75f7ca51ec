SPECIFICATION Spec
CONSTANTS
    r1 = r1
    r2 = r2
    r3 = r3
    f1 = f1
    f2 = f2
    f3 = f3
    t1 = t1
    t2 = t2
    t3 = t3
    t4 = t4
    u1 = u1
    None = None
    Purger = purger
    Owner <- OneUser
    Users = {u1}
    Requests = {r1, r2}
    Families = {f1}
    Tokens = {t1, t2, t3}
    BurnOnReuse = TRUE
    AtomicRequests = FALSE
    ClaimRechecked = TRUE
    ReliableCache = FALSE
SYMMETRY Symmetry
INVARIANTS
    OutcomeIsClassified
