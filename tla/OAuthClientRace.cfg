\* Two requests overlap: does revoking a client end all its sessions?
CONSTANTS
    c1 = c1
    c2 = c2
    read = read
    offline = offline
    Client = {c1}
    Scope = {read, offline}
    OfflineAccess = offline
    AllowedScopes <- AllScopes
    Code = {k1}
    Session = {s1, s2}
    Token = {t1, t2}
    Jti = {j1}
    Forms = {"full"}
    Request = {r1, r2}
    CodeTTL = 1
    SessionTTL = 2
    AccessTTL = 1
    FormTTL = 1
    MaxTime = 0
    None = None
SPECIFICATION Spec
SYMMETRY Symmetry
INVARIANT
    RevokedClientHasNoLiveSession
