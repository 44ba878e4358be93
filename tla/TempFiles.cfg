SPECIFICATION Spec
CONSTANTS
    None = None
    PrivateId = {f1}
    ImageId = {i1}
    Request = {r1, r2}
    TTL = 1
    MaxTime = 3
    MaxCrashes = 2
SYMMETRY Symmetric
INVARIANTS
    TypeOK
    GivenWholeAndFresh
    NothingOldSurvivesABoot
PROPERTY KeptUntilTransferred
CHECK_DEADLOCK FALSE
