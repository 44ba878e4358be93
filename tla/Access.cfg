SPECIFICATION Spec
CONSTANTS
    None = None
    ip1 = ip1
    ip2 = ip2
    a1 = a1
    a2 = a2
    k1 = k1
    r1 = r1
    r2 = r2
    r3 = r3
    InitialAccounts <- MCAccounts
    Request = {r1, r2, r3}
    Ask <- MCAsk
    IP = {ip1, ip2}
    Account = {a1, a2}
    RateLimit = 2
    Window = 1
    LoginAttempts = 2
    LockTime = 2
    Settings <- MCSettings
    ApiKey = {k1}
    KeyPermissions <- MCKeyPermissions
    TokenScope <- MCTokenScope
    MaxTime = 2
SYMMETRY Symmetric
INVARIANTS
    TypeOK
    RateBound
    LockFollowsFailures
    EffectsAreGranted
    EffectsAreLogged
    AtMostOneDefault
PROPERTY DefaultKept
CHECK_DEADLOCK FALSE
