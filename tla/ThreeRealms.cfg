CONSTANTS
    s1 = s1
    s2 = s2
    u1 = u1
    default = default
    staff = staff
    pocket = pocket
    none = none
    Realms <- ThreeSorts
    Policies = {default, staff}
    Sessions = {s1, s2}
    Users = {u1}
    Owner <- OneUser
    None = none
    Pocket = pocket
    CrossSite = TRUE
    Strict = TRUE
    MaxRefreshes = 2
    MaxEvents = 1
SYMMETRY Alike
CONSTRAINT AfterChanges
SPECIFICATION Spec
INVARIANTS
    TypeOK
    BoundViews
    RefusedIsDead
PROPERTIES
    NothingFromElsewhere
    HeaderSignOutIsReal
