\* Requests served one at a time.  c2 has no offline_access; it may present
\* what belongs to c1.
CONSTANTS
    c1 = c1
    c2 = c2
    read = read
    offline = offline
    Client = {c1, c2}
    Scope = {read, offline}
    OfflineAccess = offline
    AllowedScopes <- OneWithoutOffline
    Code = {k1}
    Session = {s1, s2}
    Token = {t1, t2, t3}
    Jti = {j1}
    Forms = {"full", "noSecret", "noVerifier"}
    Request = {r1}
    CodeTTL = 1
    SessionTTL = 2
    AccessTTL = 1
    FormTTL = 1
    MaxTime = 1
    None = None
SPECIFICATION Spec
SYMMETRY Symmetry
INVARIANTS
    CodeSingleUse
    SingleUsableToken
    RevokedClientHasNoLiveSession
    NoSlidingExpiry
PROPERTIES
    ScopesNeverWiden
    ImplementsLifecycle
