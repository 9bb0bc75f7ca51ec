SPECIFICATION Spec
CONSTANTS
    Requests = {r1, r2}
    Families = {f1, f2}
    None = None
    Receivers = {named, partial}
    Nameless = {partial}
    Hook = hook
SYMMETRY Symmetric
CONSTRAINT OneByOne
INVARIANTS
    TypeOK
    AnsweredMeansDone
    RowsAreTrue
    AutocommitKeepsRows
