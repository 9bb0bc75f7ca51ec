SPECIFICATION Spec
CONSTANTS
    Requests = {r1, r2}
    Families = {f1}
    None = None
    Receivers = {named, partial}
    Nameless = {partial}
    Hook = hook
SYMMETRY Symmetric
INVARIANTS
    SentOnce
