SPECIFICATION Spec
CONSTANTS
    Requests = {r1, r2}
    Sessions = {s1, s2}
    Hashes = {h1, h2, h3, h4}
    Passwords = {p1, p2}
    None = None
SYMMETRY Symmetric
INVARIANTS
    UntouchedMeansQuiet
