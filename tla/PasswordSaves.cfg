SPECIFICATION Spec
CONSTANTS
    Requests = {r1, r2}
    Sessions = {s1, s2}
    Hashes = {h1, h2, h3}
    Passwords = {p1}
    None = None
SYMMETRY Symmetric
INVARIANTS
    TypeOK
    NewPasswordMeansRevoked
    UnchangedEndsNothing
