SPECIFICATION Spec
CONSTANTS
    None = None
    a = a
    b = b
    m1 = m1
    m2 = m2
    m3 = m3
    Call = {a, b}
    Request <- MCRequest
    Granted <- MCGranted
    Settings <- MCSettings
    Configured <- MCConfigured
    SpecialUse <- MCSpecialUse
    InitialFolders <- MCFolders
    InitialMail <- MCMail
INVARIANTS
    TypeOK
    ExpungeOnlyNamed
    DraftKept
    NoMessageLost
    SentTwiceOnlyAfterFailure
PROPERTY EveryCallReturns
