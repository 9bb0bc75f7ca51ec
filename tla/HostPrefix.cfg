SPECIFICATION Spec
CONSTANTS
    Configurations <- HostPrefix
    Successors <- OfTheSameSort
    Sessions = {s1}
    s1 = s1
    s2 = s2
    Strings <- AllStrings
    None = None
    Wrong = Wrong
    MaxRotations = 3
    MaxDeploys = 1
INVARIANTS
    SilenceMeansServed
