SPECIFICATION Spec
CONSTANTS
    None = None
    a = a
    b = b
    m1 = m1
    m2 = m2
    m3 = m3
    Call = {a, b}
    Request <- MCDraftRequest
    Granted <- MCSendOnly
    Settings <- MCSwitchedOff
    Configured <- MCConfigured
    SpecialUse <- MCSpecialUse
    InitialFolders <- MCFolders
    InitialMail <- MCMail
INVARIANT SwitchStopsExpunge
