SPECIFICATION Spec
CONSTANTS
    Configurations <- AllSettings
    Successors <- OfTheSameSort
    Sessions = {s1, s2}
    s1 = s1
    s2 = s2
    Strings <- AllStrings
    None = None
    Wrong = Wrong
    MaxRotations = 3
    MaxDeploys = 3
CONSTRAINT SecondSession
INVARIANTS
    TypeOK
    SilenceMeansServed
    LogoutReachesTheSession
    LoopBroken
    SignedOutAnswersNothing
