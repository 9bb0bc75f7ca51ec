SPECIFICATION Spec
CONSTANTS
    b1 = b1
    b2 = b2
    f1 = f1
    f2 = f2
    t1 = t1
    t2 = t2
    t3 = t3
    u1 = u1
    None = None
    Tabs = {b1, b2}
    Families = {f1}
    Tokens = {t1, t2, t3}
    Users = {u1}
    Owner <- OneUser
    MaxEvents = 0
    Strict = TRUE
    BurnOnReuse = TRUE
SYMMETRY Symmetry
INVARIANT NeverTakenForTheft
