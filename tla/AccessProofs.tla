---------------------------- MODULE AccessProofs ----------------------------
(***************************************************************************)
(* Who may do what, for any requests, credentials and accounts: the        *)
(* invariant says what a request carries from one await to the next        *)
(* (Sound), and what the tables are meanwhile.                             *)
(***************************************************************************)
EXTENDS Access, TLAPS, FiniteSetTheorems, SequenceTheorems,
        WellFoundedInduction

\* what the administrator gave a credential
GrantedTo(credential) ==
    CASE credential = "static" -> PERMISSIONS
      [] credential = "oauth"  -> TokenScope
      [] OTHER                 -> KeyPermissions[credential]

Allowed(q) == Permitted(ToolPermission[q.ask.tool], q.permissions, Settings)

\* what request r may carry
Sound(r, q) ==
    /\ q = [pc |-> q.pc, ask |-> q.ask, seen |-> q.seen,
            permissions |-> q.permissions, account |-> q.account,
            success |-> q.success]
    /\ q.pc # "idle" => q.ask \in Ask(r)
    /\ q.pc \in {"mcp", "stamp", "boundary", "call", "work", "get", "log"} =>
          q.ask.kind = "mcp"
    /\ q.pc \in {"admin", "admin_log"} => q.ask.kind = "admin"
    /\ q.pc = "commit" => q.ask.kind \in {"mcp", "admin"}
    /\ q.pc \in {"stamp", "boundary", "call", "work", "get", "commit"}
       /\ q.ask.kind = "mcp" => q.permissions = GrantedTo(q.ask.credential)
    /\ q.pc \in {"work", "get", "commit"} /\ q.ask.kind = "mcp" => Allowed(q)
    /\ q.pc = "commit" /\ q.ask.kind = "admin" => q.account = q.ask.account
    /\ q.pc = "commit" /\ q.ask.op = "update" => q.seen \in Row

RequestsOK ==
    /\ requests = [r \in Request |-> requests[r]]
    /\ \A r \in Request : Sound(r, requests[r])

TablesOK == /\ accounts \in [Account -> Row \cup {None}]
            /\ keys \subseteq ApiKey
            /\ AtMostOneDefault

Inv == RequestsOK /\ TablesOK

LEMMA InitInv == Init => Inv
<1> SUFFICES ASSUME Init PROVE Inv
  OBVIOUS
<1>1. \A r \in Request : Sound(r, Idle)
  BY DEF Sound, Idle, Bare
<1>2. RequestsOK
  BY <1>1 DEF Init, RequestsOK
<1>3. TablesOK
  BY AccessAssumption DEF Init, TablesOK, AtMostOneDefault, Defaults
<1> QED BY <1>2, <1>3 DEF Inv

LEMMA TablesFrame ==
    ASSUME Inv, UNCHANGED <<accounts, keys>> PROVE TablesOK'
  BY DEF Inv, TablesOK, AtMostOneDefault, Defaults

\* a request that ends, or goes on with what it carries
LEMMA GoesRecord ==
    ASSUME Inv, NEW r \in Request, NEW pc, Goes(r, pc)
    PROVE  /\ requests' = [q \in Request |-> requests'[q]]
           /\ \A q \in Request \ {r} : requests'[q] = requests[q]
           /\ pc \in Over => requests'[r] = Bare(pc, requests[r].ask)
           /\ pc \notin Over => requests'[r] = [requests[r] EXCEPT !.pc = pc]
  BY DEF Inv, RequestsOK, Goes

LEMMA OverIsSound ==
    ASSUME NEW r \in Request, NEW ask \in Ask(r), NEW pc \in Over
    PROVE  Sound(r, Bare(pc, ask))
<1> DEFINE q == [pc |-> pc, ask |-> ask, seen |-> None, permissions |-> {},
                 account |-> None, success |-> FALSE]
<1>1. Bare(pc, ask) = q
  BY DEF Bare
<1>2. q.pc = pc /\ q.ask = ask
  OBVIOUS
<1>3. q = [pc |-> q.pc, ask |-> q.ask, seen |-> q.seen,
           permissions |-> q.permissions, account |-> q.account,
           success |-> q.success]
  OBVIOUS
<1> HIDE DEF q
<1>4. Sound(r, q)
  BY <1>2, <1>3 DEF Sound, Over
<1> QED BY <1>1, <1>4

\* Goes from one place to another keeps what the second one relies on
LEMMA GoesIsSound ==
    ASSUME Inv, NEW r \in Request, NEW pc, Goes(r, pc), requests[r].pc # "idle",
           pc \in Over \cup {"boundary", "call", "log"},
           pc \in {"boundary", "call", "log"} => requests[r].ask.kind = "mcp",
           pc \in {"boundary", "call"} =>
              requests[r].permissions = GrantedTo(requests[r].ask.credential)
    PROVE  RequestsOK'
<1>1. Sound(r, requests[r])
  BY DEF Inv, RequestsOK
<1>2. Sound(r, requests'[r])
  <2>1. CASE pc \in Over
    <3>1. requests[r].ask \in Ask(r)
      BY <1>1 DEF Sound
    <3>2. requests'[r] = Bare(pc, requests[r].ask)
      BY <2>1, GoesRecord
    <3>3. Sound(r, Bare(pc, requests[r].ask))
      BY <2>1, <3>1, OverIsSound
    <3> QED BY <3>2, <3>3
  <2>2. CASE pc \notin Over
    <3>1. requests'[r] = [requests[r] EXCEPT !.pc = pc]
      BY <2>2, GoesRecord
    <3> DEFINE q == requests[r]
               n == requests'[r]
    <3>2. q = [pc |-> q.pc, ask |-> q.ask, seen |-> q.seen,
               permissions |-> q.permissions, account |-> q.account,
               success |-> q.success]
      BY <1>1 DEF Sound
    <3>3. n = [pc |-> pc, ask |-> q.ask, seen |-> q.seen,
               permissions |-> q.permissions, account |-> q.account,
               success |-> q.success]
      BY <3>1, <3>2
    <3> HIDE DEF n
    <3> QED BY <1>1, <2>2, <3>3 DEF Sound, n
  <2> QED BY <2>1, <2>2
<1> QED BY <1>2, GoesRecord DEF Inv, RequestsOK

\* a step of one request
LEMMA OneRequest ==
    ASSUME Inv, NEW r \in Request, NEW q,
           requests' = [requests EXCEPT ![r] = q], Sound(r, q)
    PROVE  RequestsOK'
  BY DEF Inv, RequestsOK

\* records changed in one field, and in several
Whole(q) == q = [pc |-> q.pc, ask |-> q.ask, seen |-> q.seen,
                 permissions |-> q.permissions, account |-> q.account,
                 success |-> q.success]

LEMMA OneField ==
    ASSUME NEW q, Whole(q), NEW v
    PROVE  /\ [q EXCEPT !.pc = v] =
                 [pc |-> v, ask |-> q.ask, seen |-> q.seen,
                  permissions |-> q.permissions, account |-> q.account,
                  success |-> q.success]
           /\ [q EXCEPT !.seen = v] =
                 [pc |-> q.pc, ask |-> q.ask, seen |-> v,
                  permissions |-> q.permissions, account |-> q.account,
                  success |-> q.success]
           /\ [q EXCEPT !.permissions = v] =
                 [pc |-> q.pc, ask |-> q.ask, seen |-> q.seen,
                  permissions |-> v, account |-> q.account,
                  success |-> q.success]
           /\ [q EXCEPT !.account = v] =
                 [pc |-> q.pc, ask |-> q.ask, seen |-> q.seen,
                  permissions |-> q.permissions, account |-> v,
                  success |-> q.success]
           /\ [q EXCEPT !.success = v] =
                 [pc |-> q.pc, ask |-> q.ask, seen |-> q.seen,
                  permissions |-> q.permissions, account |-> q.account,
                  success |-> v]
  BY DEF Whole

LEMMA PcAndSeen ==
    ASSUME NEW q, Whole(q), NEW pc, NEW seen
    PROVE  [q EXCEPT !.pc = pc, !.seen = seen] =
             [pc |-> pc, ask |-> q.ask, seen |-> seen,
              permissions |-> q.permissions, account |-> q.account,
              success |-> q.success]
<1> DEFINE m == [q EXCEPT !.pc = pc]
<1>1. Whole(m) /\ m.ask = q.ask /\ m.pc = pc /\ m.permissions = q.permissions
      /\ m.account = q.account /\ m.success = q.success
  BY OneField DEF Whole
<1> HIDE DEF m
<1>2. [q EXCEPT !.pc = pc, !.seen = seen] = [m EXCEPT !.seen = seen]
  BY DEF m
<1>3. [m EXCEPT !.seen = seen] =
        [pc |-> m.pc, ask |-> m.ask, seen |-> seen,
         permissions |-> m.permissions, account |-> m.account,
         success |-> m.success]
  BY <1>1, OneField
<1> QED BY <1>1, <1>2, <1>3

LEMMA PcAndAccount ==
    ASSUME NEW q, Whole(q), NEW account, NEW pc
    PROVE  [q EXCEPT !.account = account, !.pc = pc] =
             [pc |-> pc, ask |-> q.ask, seen |-> q.seen,
              permissions |-> q.permissions, account |-> account,
              success |-> q.success]
<1> DEFINE m == [q EXCEPT !.account = account]
<1>1. Whole(m) /\ m.ask = q.ask /\ m.account = account /\ m.seen = q.seen
      /\ m.permissions = q.permissions /\ m.success = q.success
  BY OneField DEF Whole
<1> HIDE DEF m
<1>2. [q EXCEPT !.account = account, !.pc = pc] = [m EXCEPT !.pc = pc]
  BY DEF m
<1>3. [m EXCEPT !.pc = pc] =
        [pc |-> pc, ask |-> m.ask, seen |-> m.seen,
         permissions |-> m.permissions, account |-> m.account,
         success |-> m.success]
  BY <1>1, OneField
<1> QED BY <1>1, <1>2, <1>3

LEMMA PcAndPermissions ==
    ASSUME NEW q, Whole(q), NEW permissions, NEW pc
    PROVE  [[q EXCEPT !.permissions = permissions] EXCEPT !.pc = pc] =
             [pc |-> pc, ask |-> q.ask, seen |-> q.seen,
              permissions |-> permissions, account |-> q.account,
              success |-> q.success]
<1> DEFINE m == [q EXCEPT !.permissions = permissions]
<1>1. Whole(m) /\ m.ask = q.ask /\ m.account = q.account /\ m.seen = q.seen
      /\ m.permissions = permissions /\ m.success = q.success
  BY OneField DEF Whole
<1> HIDE DEF m
<1>2. [m EXCEPT !.pc = pc] =
        [pc |-> pc, ask |-> m.ask, seen |-> m.seen,
         permissions |-> m.permissions, account |-> m.account,
         success |-> m.success]
  BY <1>1, OneField
<1> QED BY <1>1, <1>2 DEF m

LEMMA PcAndSuccess ==
    ASSUME NEW q, Whole(q), NEW success, NEW pc
    PROVE  [q EXCEPT !.success = success, !.pc = pc] =
             [pc |-> pc, ask |-> q.ask, seen |-> q.seen,
              permissions |-> q.permissions, account |-> q.account,
              success |-> success]
<1> DEFINE m == [q EXCEPT !.success = success]
<1>1. Whole(m) /\ m.ask = q.ask /\ m.account = q.account /\ m.seen = q.seen
      /\ m.permissions = q.permissions /\ m.success = success
  BY OneField DEF Whole
<1> HIDE DEF m
<1>2. [q EXCEPT !.success = success, !.pc = pc] = [m EXCEPT !.pc = pc]
  BY DEF m
<1>3. [m EXCEPT !.pc = pc] =
        [pc |-> pc, ask |-> m.ask, seen |-> m.seen,
         permissions |-> m.permissions, account |-> m.account,
         success |-> m.success]
  BY <1>1, OneField
<1> QED BY <1>1, <1>2, <1>3

Located(q, account, seen, pc) ==
    [q EXCEPT !.account = account, !.seen = seen, !.pc = pc]

LEMMA PcAccountAndSeen ==
    ASSUME NEW q, Whole(q), NEW account, NEW seen, NEW pc
    PROVE  Located(q, account, seen, pc) =
             [pc |-> pc, ask |-> q.ask, seen |-> seen,
              permissions |-> q.permissions, account |-> account,
              success |-> q.success]
<1> DEFINE n == [q EXCEPT !.account = account]
           m == [n EXCEPT !.seen = seen]
<1>1. Whole(n) /\ n.ask = q.ask /\ n.account = account
      /\ n.permissions = q.permissions /\ n.success = q.success
  BY OneField DEF Whole
<1> HIDE DEF n
<1>2. Whole(m) /\ m.ask = n.ask /\ m.account = n.account /\ m.seen = seen
      /\ m.permissions = n.permissions /\ m.success = n.success
  BY <1>1, OneField DEF Whole
<1> HIDE DEF m
<1>3. Located(q, account, seen, pc) = [m EXCEPT !.pc = pc]
  BY DEF Located, m, n
<1>4. [m EXCEPT !.pc = pc] =
        [pc |-> pc, ask |-> m.ask, seen |-> m.seen,
         permissions |-> m.permissions, account |-> m.account,
         success |-> m.success]
  BY <1>2, OneField
<1> QED BY <1>1, <1>2, <1>3, <1>4

LEMMA ArriveStep ==
    ASSUME Inv, NEW r \in Request, NEW ask \in Ask(r), Arrive(r, ask) PROVE Inv'
<1> DEFINE pc == IF /\ /\ Allows(ask.ip, RateLimit)
                       /\ ask.kind = "login" => Allows(LoginKey(ask.ip), LoginAttempts)
                    /\ HasSession(ask)
                 THEN ask.kind ELSE "refused"
           q == Bare(pc, ask)
<1>1. requests' = [requests EXCEPT ![r] = q] /\ UNCHANGED <<accounts, keys>>
  BY DEF Arrive
<1>2. pc \in {"login", "admin_login", "logout", "mcp", "admin", "refused"}
      /\ (pc # "refused" => ask.kind = pc)
  BY AskAssumption
<1> HIDE DEF pc
<1>3. q = [pc |-> pc, ask |-> ask, seen |-> None, permissions |-> {},
           account |-> None, success |-> FALSE]
  BY DEF Bare
<1> HIDE DEF q
<1>4. Sound(r, q)
  BY <1>2, <1>3 DEF Sound
<1> QED BY <1>1, <1>4, OneRequest, TablesFrame DEF Inv

LEMMA LoginStep == ASSUME Inv, NEW r \in Request, Login(r) PROVE Inv'
<1> DEFINE q == requests[r]
<1>0. Sound(r, q) /\ UNCHANGED <<accounts, keys>>
  BY DEF Inv, RequestsOK, Login, LoginRead, LoginCommit, AdminLogin, Logout
<1>1. CASE LoginRead(r)
  <2> DEFINE seen == [row |-> user, now |-> clock,
                      valid |-> Asked(r).good /\ user.lockedUntil <= clock]
             n == [pc |-> "login_commit", ask |-> q.ask, seen |-> seen,
                   permissions |-> q.permissions, account |-> q.account,
                   success |-> q.success]
  <2> HIDE DEF seen
  <2>1. requests' = [requests EXCEPT ![r].pc = "login_commit", ![r].seen = seen]
    BY <1>1 DEF LoginRead, seen
  <2>2. q.pc = "login" /\ q = [pc |-> q.pc, ask |-> q.ask, seen |-> q.seen,
                              permissions |-> q.permissions,
                              account |-> q.account, success |-> q.success]
    BY <1>0, <1>1 DEF LoginRead, At, Sound
  <2>3. DOMAIN requests = Request
    BY DEF Inv, RequestsOK
  <2>4. requests' = [requests EXCEPT
                       ![r] = [requests[r] EXCEPT !.pc = "login_commit", !.seen = seen]]
    BY <2>1, <2>3
  <2>5. requests' = [requests EXCEPT ![r] = n]
    BY <2>2, <2>4, PcAndSeen DEF Whole
  <2>6. Sound(r, n)
    BY <1>0, <2>2 DEF Sound
  <2> HIDE DEF n
  <2> QED BY <1>0, <2>5, <2>6, OneRequest, TablesFrame DEF Inv
<1>2. CASE LoginCommit(r) \/ AdminLogin(r) \/ Logout(r)
  <2>1. PICK pc \in Over : Goes(r, pc)
    BY <1>2 DEF LoginCommit, AdminLogin, Logout, Over
  <2>2. q.pc # "idle" /\ pc \notin {"boundary", "call", "log"}
    BY <1>2 DEF LoginCommit, AdminLogin, Logout, At, Over
  <2>3. RequestsOK'
    BY <2>1, <2>2, GoesIsSound
  <2> QED BY <1>0, <2>3, TablesFrame DEF Inv
<1> QED BY <1>1, <1>2 DEF Login

LEMMA McpStep == ASSUME Inv, NEW r \in Request, Mcp(r) PROVE Inv'
<1> DEFINE q == requests[r]
<1>0. /\ Sound(r, q) /\ Whole(q) /\ UNCHANGED <<accounts, keys>>
      /\ DOMAIN requests = Request /\ keys \subseteq ApiKey
  BY DEF Inv, RequestsOK, TablesOK, Sound, Whole, Mcp, Authenticate, Stamp, Call,
         Raise, Log, LogFails, Work, Boundary
<1>1. CASE Authenticate(r)
  <2> DEFINE permissions == PermissionsOf(q.ask.credential)
             pc == CASE permissions = {} -> "refused"
                     [] permissions # {} /\ q.ask.credential \in ApiKey -> "stamp"
                     [] OTHER -> "boundary"
             n == [pc |-> pc, ask |-> q.ask, seen |-> q.seen,
                   permissions |-> permissions, account |-> q.account,
                   success |-> q.success]
  <2>1. /\ pc \in {"refused", "stamp", "boundary"}
        /\ pc # "refused" => permissions # {}
    OBVIOUS
  <2>2. permissions # {} => permissions = GrantedTo(q.ask.credential)
    BY <1>0, AskAssumption DEF PermissionsOf, GrantedTo
  <2>3. /\ q.pc = "mcp"
        /\ requests' = [[requests EXCEPT ![r].permissions = permissions]
                          EXCEPT ![r].pc = pc]
    BY <1>1 DEF Authenticate, At, Asked, Context
  <2> HIDE DEF permissions, pc
  <2>4. requests' = [requests EXCEPT
                       ![r] = [[requests[r] EXCEPT !.permissions = permissions]
                                 EXCEPT !.pc = pc]]
    BY <1>0, <2>3
  <2>5. requests' = [requests EXCEPT ![r] = n]
    BY <1>0, <2>4, PcAndPermissions
  <2>6. Sound(r, n)
    BY <1>0, <2>1, <2>2, <2>3 DEF Sound
  <2> HIDE DEF n
  <2> QED BY <1>0, <2>5, <2>6, OneRequest, TablesFrame DEF Inv
<1>2. CASE Stamp(r) \/ \E parsed \in BOOLEAN : Boundary(r, parsed)
  <2>1. PICK pc \in {"refused", "boundary", "call"} : Goes(r, pc)
    BY <1>2 DEF Stamp, Boundary
  <2>2. q.pc \in {"stamp", "boundary"}
    BY <1>2 DEF Stamp, Boundary, At
  <2>3. q.ask.kind = "mcp" /\ q.permissions = GrantedTo(q.ask.credential)
    BY <1>0, <2>2 DEF Sound
  <2>4. RequestsOK'
    BY <2>1, <2>2, <2>3, GoesIsSound DEF Over
  <2> QED BY <1>0, <2>4, TablesFrame DEF Inv
<1>3. CASE Raise(r) \/ Log(r) \/ LogFails(r)
  <2>1. PICK pc \in {"done", "unlogged", "log"} : Goes(r, pc)
    BY <1>3 DEF Raise, Log, LogFails, Afterwards
  <2>2. q.pc \in {"work", "log"}
    BY <1>3 DEF Raise, Log, LogFails, At
  <2>3. q.ask.kind = "mcp"
    BY <1>0, <2>2 DEF Sound
  <2>4. RequestsOK'
    BY <2>1, <2>2, <2>3, GoesIsSound DEF Over
  <2> QED BY <1>0, <2>4, TablesFrame DEF Inv
<1>4. CASE Call(r)
  <2>1. PICK pc \in {"log", "done", "get", "work"}, account \in {Found(q.ask.account)} :
          /\ requests' = [requests EXCEPT ![r].account = account, ![r].pc = pc]
          /\ pc \in {"get", "work"} => Allowed(q)
    BY <1>4 DEF Call, Afterwards, Allowed, Asked
  <2> DEFINE n == [pc |-> pc, ask |-> q.ask, seen |-> q.seen,
                   permissions |-> q.permissions, account |-> account,
                   success |-> q.success]
  <2>2. q.pc = "call"
    BY <1>4 DEF Call, At
  <2>3. requests' = [requests EXCEPT
                       ![r] = [requests[r] EXCEPT !.account = account, !.pc = pc]]
    BY <1>0, <2>1
  <2>4. requests' = [requests EXCEPT ![r] = n]
    BY <1>0, <2>3, PcAndAccount
  <2>5. Sound(r, n)
    BY <1>0, <2>1, <2>2 DEF Sound, Allowed
  <2> HIDE DEF n
  <2> QED BY <1>0, <2>4, <2>5, OneRequest, TablesFrame DEF Inv
<1>5. ASSUME NEW success \in BOOLEAN, Work(r, success) PROVE Inv'
  <2>1. PICK pc \in {"log", "done"} :
          requests' = [requests EXCEPT ![r].success = success, ![r].pc = pc]
    BY <1>5 DEF Work, Afterwards
  <2> DEFINE n == [pc |-> pc, ask |-> q.ask, seen |-> q.seen,
                   permissions |-> q.permissions, account |-> q.account,
                   success |-> success]
  <2>2. q.pc = "work"
    BY <1>5 DEF Work, At
  <2>3. requests' = [requests EXCEPT
                       ![r] = [requests[r] EXCEPT !.success = success, !.pc = pc]]
    BY <1>0, <2>1
  <2>4. requests' = [requests EXCEPT ![r] = n]
    BY <1>0, <2>3, PcAndSuccess
  <2>5. Sound(r, n)
    BY <1>0, <2>1, <2>2 DEF Sound
  <2> HIDE DEF n
  <2> QED BY <1>0, <2>4, <2>5, OneRequest, TablesFrame DEF Inv
<1> QED BY <1>1, <1>2, <1>3, <1>4, <1>5 DEF Mcp

-----------------------------------------------------------------------------
(* The transactions of MailAccounts.                                       *)
Table == [Account -> Row \cup {None}]

\* at most one default in a table
Single(rows) == \A a, b \in Defaults(rows) : a = b

\* PATCH sets some of the columns
Patch == UNION {[columns -> BOOLEAN] : columns \in SUBSET {"enabled", "default"}}

LEMMA ClearedOK ==
    ASSUME accounts \in Table, NEW a \in Account
    PROVE  /\ Cleared(a) \in Table /\ Cleared(a)[a] = accounts[a]
           /\ Defaults(Cleared(a)) \subseteq {a}
           /\ Defaults(Cleared(a)) \subseteq Defaults(accounts)
<1>1. ASSUME NEW b \in Account
      PROVE  /\ Cleared(a)[b] \in Row \cup {None}
             /\ b # a => Cleared(a)[b] = None \/ ~Cleared(a)[b].default
             /\ b = a => Cleared(a)[b] = accounts[b]
  <2>1. accounts[b] \in Row \cup {None}
    BY DEF Table
  <2>2. CASE b # a /\ Exists(b)
    <3>1. accounts[b] \in Row
      BY <2>1, <2>2 DEF Exists
    <3>2. Cleared(a)[b] = [accounts[b] EXCEPT !.default = FALSE]
      BY <2>2 DEF Cleared
    <3> QED BY <2>2, <3>1, <3>2 DEF Row
  <2>3. CASE ~(b # a /\ Exists(b))
    BY <2>1, <2>3 DEF Cleared, Exists
  <2> QED BY <2>2, <2>3
<1>2. Cleared(a) = [b \in Account |-> Cleared(a)[b]]
  BY DEF Cleared
<1>3. Cleared(a) \in Table
  BY <1>1, <1>2 DEF Table
<1> QED BY <1>1, <1>3 DEF Defaults

LEMMA CreatedOK ==
    ASSUME accounts \in Table, Single(accounts), NEW a \in Account,
           NEW payload \in Row, ~Exists(a)
    PROVE  Created(a, payload) \in Table /\ Single(Created(a, payload))
<1> DEFINE rows == IF payload.default THEN Cleared(a) ELSE accounts
<1>1. rows \in Table /\ (payload.default => Defaults(rows) \subseteq {a})
      /\ Defaults(rows) \subseteq Defaults(accounts)
  BY ClearedOK
<1>2. Created(a, payload) = [rows EXCEPT ![a] = payload]
  BY DEF Created
<1> HIDE DEF rows
<1>3. [rows EXCEPT ![a] = payload] \in Table
  BY <1>1 DEF Table
<1>4. \A b \in Defaults([rows EXCEPT ![a] = payload]) :
         b \in Defaults(rows) \/ (b = a /\ payload.default)
  BY <1>1 DEF Defaults, Table
<1>5. CASE payload.default
  <2>1. \A b \in Defaults([rows EXCEPT ![a] = payload]) : b = a
    BY <1>1, <1>4, <1>5
  <2> QED BY <1>2, <1>3, <2>1 DEF Single
<1>6. CASE ~payload.default
  <2>1. \A b \in Defaults([rows EXCEPT ![a] = payload]) : b \in Defaults(accounts)
    BY <1>1, <1>4, <1>6
  <2> QED BY <1>2, <1>3, <2>1 DEF Single
<1> QED BY <1>5, <1>6

\* the row an UPDATE leaves
NewRow(row, seen, values, changed) ==
    [k \in DOMAIN seen |-> IF k \in changed THEN values[k] ELSE row[k]]

LEMMA FlushedRow ==
    ASSUME NEW row \in Row, NEW seen \in Row, NEW values \in Patch,
           NEW changed \in SUBSET DOMAIN values
    PROVE  /\ NewRow(row, seen, values, changed) \in Row
           /\ NewRow(row, seen, values, changed).default =
                IF "default" \in changed THEN values["default"] ELSE row.default
<1>1. DOMAIN seen = {"enabled", "default"}
  BY DEF Row
<1>2. \A k \in changed : values[k] \in BOOLEAN
  BY DEF Patch
<1> DEFINE new == NewRow(row, seen, values, changed)
<1>3. row["enabled"] \in BOOLEAN /\ row["default"] \in BOOLEAN
  BY DEF Row
<1>4. new = [k \in {"enabled", "default"} |-> new[k]]
  BY <1>1 DEF NewRow
<1>5. new["enabled"] \in BOOLEAN /\ new["default"] \in BOOLEAN
  BY <1>1, <1>2, <1>3 DEF NewRow
<1>6. new["default"] = IF "default" \in changed THEN values["default"] ELSE row["default"]
  BY <1>1 DEF NewRow
<1> HIDE DEF new
<1>7. new = [enabled |-> new["enabled"], default |-> new["default"]]
  BY <1>4
<1>8. new \in Row
  BY <1>5, <1>7 DEF Row
<1> QED BY <1>6, <1>8 DEF new

LEMMA UpdatedOK ==
    ASSUME accounts \in Table, Single(accounts), NEW a \in Account,
           NEW seen \in Row, NEW values \in Patch, Updated(a, seen, values) # None
    PROVE  Updated(a, seen, values) \in Table /\ Single(Updated(a, seen, values))
<1> DEFINE makes == "default" \in DOMAIN values /\ values["default"]
           rows == IF makes THEN Cleared(a) ELSE accounts
           changed == {k \in DOMAIN values : values[k] # seen[k]}
           new == NewRow(rows[a], seen, values, changed)
<1>1. /\ rows \in Table /\ rows[a] = accounts[a]
      /\ makes => Defaults(rows) \subseteq {a}
      /\ Defaults(rows) \subseteq Defaults(accounts)
  BY ClearedOK
<1>2. Updated(a, seen, values) = Flushed(rows, a, seen, values)
  BY DEF Updated
<1>3. ~makes /\ "default" \in changed => ~values["default"]
  OBVIOUS
<1> HIDE DEF makes, rows
<1>4. CASE changed = {}
  BY <1>1, <1>2, <1>4 DEF Flushed, Single
<1>5. CASE changed # {}
  <2>1. Exists(a) /\ Updated(a, seen, values) = [rows EXCEPT ![a] = new]
    BY <1>1, <1>2, <1>5 DEF Flushed, Table, NewRow
  <2>2. rows[a] \in Row
    BY <1>1, <2>1 DEF Exists, Table
  <2>3. new \in Row /\ new.default = IF "default" \in changed THEN values["default"]
                                    ELSE rows[a].default
    BY <2>2, FlushedRow
  <2> HIDE DEF new, changed
  <2>4. [rows EXCEPT ![a] = new] \in Table
    BY <1>1, <2>3 DEF Table
  <2>5. \A b \in Defaults([rows EXCEPT ![a] = new]) :
           \/ b \in Defaults(rows)
           \/ b = a /\ makes
    BY <1>1, <1>3, <2>1, <2>3 DEF Defaults, Table, Exists
  <2>6. CASE makes
    <3>1. \A b \in Defaults([rows EXCEPT ![a] = new]) : b = a
      BY <1>1, <2>5, <2>6
    <3> QED BY <2>1, <2>4, <3>1 DEF Single
  <2>7. CASE ~makes
    <3>1. \A b \in Defaults([rows EXCEPT ![a] = new]) : b \in Defaults(accounts)
      BY <1>1, <2>5, <2>7
    <3> QED BY <2>1, <2>4, <3>1 DEF Single
  <2> QED BY <2>6, <2>7
<1> QED BY <1>4, <1>5

LEMMA MadeDefaultOK ==
    ASSUME accounts \in Table, NEW a, NEW seen, MadeDefault(a, seen) # None
    PROVE  /\ MadeDefault(a, seen) \in Table /\ Single(MadeDefault(a, seen))
           /\ Exists(a)
<1>1. a \in Account /\ accounts[a] # None
      /\ MadeDefault(a, seen) = [Cleared(a) EXCEPT ![a].default = TRUE]
  BY DEF MadeDefault, Exists
<1>2. /\ Cleared(a) \in Table /\ Cleared(a)[a] = accounts[a] /\ accounts[a] \in Row
      /\ Defaults(Cleared(a)) \subseteq {a}
  BY <1>1, ClearedOK DEF Table
<1>3. [accounts[a] EXCEPT !.default = TRUE] \in Row
  BY <1>2 DEF Row
<1>4. MadeDefault(a, seen) = [Cleared(a) EXCEPT ![a] = [accounts[a] EXCEPT !.default = TRUE]]
  BY <1>1, <1>2 DEF Table
<1>5. MadeDefault(a, seen) \in Table
  BY <1>2, <1>3, <1>4 DEF Table
<1>6. \A b \in Defaults(MadeDefault(a, seen)) : b = a
  BY <1>2, <1>4 DEF Defaults, Table
<1> QED BY <1>1, <1>5, <1>6 DEF Single, Exists

LEMMA DeletedOK ==
    ASSUME accounts \in Table, Single(accounts), NEW a \in Account
    PROVE  Deleted(a) \in Table /\ Single(Deleted(a))
  BY DEF Deleted, Table, Single, Defaults

\* what a commit writes
LEMMA WrittenOK ==
    ASSUME Inv, NEW r \in Request, requests[r].pc = "commit",
           requests[r].ask.op \in AccountOp, Written(r) # None
    PROVE  Written(r) \in Table /\ Single(Written(r))
<1> DEFINE q == requests[r]
<1>1. /\ Sound(r, q) /\ q.ask \in Ask(r) /\ accounts \in Table /\ Single(accounts)
  BY DEF Inv, RequestsOK, TablesOK, Sound, Table, Single, AtMostOneDefault
<1>2. CASE q.ask.op = "set_default"
  <2>1. Written(r) = MadeDefault(q.account, q.seen)
    BY <1>2 DEF Written, Asked
  <2> QED BY <1>1, <2>1, MadeDefaultOK
<1>3. CASE q.ask.op # "set_default"
  <2>1. q.ask.kind = "admin"
    BY <1>1, <1>3, AskAssumption DEF Sound, AccountOp
  <2>2. q.account \in Account /\ q.account = q.ask.account
    BY <1>1, <2>1, AskAssumption DEF Sound, AccountOp
  <2>3. CASE q.ask.op = "create"
    <3>1. Written(r) = Created(q.account, q.ask.payload)
      BY <2>3 DEF Written, Asked
    <3>2. q.ask.payload \in Row
      BY <1>1, <2>1, <2>3, AskAssumption
    <3>3. ~Exists(q.account)
      BY <3>1 DEF Created
    <3> QED BY <1>1, <2>2, <3>1, <3>2, <3>3, CreatedOK
  <2>4. CASE q.ask.op = "update"
    <3>1. Written(r) = Updated(q.account, q.seen, q.ask.payload)
      BY <2>4 DEF Written, Asked
    <3>2. q.ask.payload \in Patch
      BY <1>1, <2>1, <2>4, AskAssumption DEF Patch
    <3>3. q.seen \in Row
      BY <1>1, <2>4 DEF Sound
    <3> QED BY <1>1, <2>2, <3>1, <3>2, <3>3, UpdatedOK
  <2>5. CASE q.ask.op = "delete"
    <3>1. Written(r) = Deleted(q.account)
      BY <2>5 DEF Written, Asked
    <3> QED BY <1>1, <2>2, <3>1, DeletedOK
  <2> QED BY <1>3, <2>3, <2>4, <2>5 DEF AccountOp
<1> QED BY <1>2, <1>3

LEMMA AdminStep == ASSUME Inv, NEW r \in Request, Admin(r) PROVE Inv'
<1> DEFINE q == requests[r]
<1>0. /\ Sound(r, q) /\ Whole(q) /\ DOMAIN requests = Request
      /\ accounts \in Table /\ Single(accounts)
  BY DEF Inv, RequestsOK, TablesOK, Sound, Whole, Table, Single, AtMostOneDefault
<1>1. CASE Get(r)
  <2>1. PICK pc \in {"commit", "log", "refused"},
               a \in {IF q.ask.kind = "mcp" THEN q.account ELSE q.ask.account} :
          /\ requests' = [requests EXCEPT ![r].account = a,
               ![r].seen = IF a = None THEN None ELSE accounts[a], ![r].pc = pc]
          /\ a = IF q.ask.kind = "mcp" THEN q.account ELSE q.ask.account
          /\ pc = "commit" /\ q.ask.op = "update" => Exists(a)
          /\ pc = "log" => q.ask.kind = "mcp"
          /\ q.pc \in {"get", "admin"} /\ UNCHANGED <<accounts, keys>>
    BY <1>1 DEF Get, Asked, At
  <2> DEFINE seen == IF a = None THEN None ELSE accounts[a]
             n == [pc |-> pc, ask |-> q.ask, seen |-> seen,
                   permissions |-> q.permissions, account |-> a,
                   success |-> q.success]
  <2>2. pc = "commit" /\ q.ask.op = "update" => seen \in Row
    BY <1>0, <2>1, AskAssumption DEF Exists, Table
  <2>3. requests' = [requests EXCEPT ![r].account = a, ![r].seen = seen, ![r].pc = pc]
    BY <2>1
  <2> HIDE DEF seen
  <2>4. requests' = [requests EXCEPT ![r] = Located(q, a, seen, pc)]
    BY <1>0, <2>3 DEF Located
  <2>5. requests' = [requests EXCEPT ![r] = n]
    <3>1. Located(q, a, seen, pc) = n
      BY <1>0, PcAccountAndSeen
    <3> HIDE DEF n
    <3> QED BY <2>4, <3>1
  <2>6. Sound(r, n)
    BY <1>0, <2>1, <2>2 DEF Sound, Allowed
  <2> HIDE DEF n
  <2> QED BY <2>1, <2>5, <2>6, OneRequest, TablesFrame DEF Inv
<1>2. ASSUME NEW success, NEW pc \in {"log", "admin_log", "refused"}, q.pc = "commit",
             pc = "log" => q.ask.kind = "mcp", pc = "admin_log" => q.ask.kind # "mcp",
             requests' = [requests EXCEPT ![r].success = success, ![r].pc = pc]
      PROVE  RequestsOK'
  <2> DEFINE n == [pc |-> pc, ask |-> q.ask, seen |-> q.seen,
                   permissions |-> q.permissions, account |-> q.account,
                   success |-> success]
  <2>1. requests' = [requests EXCEPT
                       ![r] = [requests[r] EXCEPT !.success = success, !.pc = pc]]
    BY <1>0, <1>2
  <2>2. requests' = [requests EXCEPT ![r] = n]
    BY <1>0, <2>1, PcAndSuccess
  <2>3. Sound(r, n)
    BY <1>0, <1>2 DEF Sound
  <2> HIDE DEF n
  <2> QED BY <2>2, <2>3, OneRequest
<1>3. CASE Commit(r)
  <2>1. q.pc = "commit" /\ q.ask.op \in AccountOp /\ UNCHANGED keys
    BY <1>3 DEF Commit, At, Asked
  <2>2. CASE Written(r) = None
    <3>1. /\ Goes(r, IF q.ask.kind = "mcp" THEN "log" ELSE "refused")
          /\ UNCHANGED accounts
      BY <1>3, <2>2 DEF Commit, Asked
    <3>2. RequestsOK'
      BY <2>1, <3>1, GoesIsSound DEF Over
    <3> QED BY <2>1, <3>1, <3>2, TablesFrame DEF Inv
  <2>3. CASE Written(r) # None
    <3> DEFINE pc == IF q.ask.kind = "mcp" THEN "log" ELSE "admin_log"
    <3>1. /\ accounts' = Written(r)
          /\ requests' = [requests EXCEPT ![r].success = TRUE, ![r].pc = pc]
      BY <1>3, <2>3 DEF Commit, Asked
    <3>2. /\ pc \in {"log", "admin_log", "refused"}
          /\ pc = "log" => q.ask.kind = "mcp"
          /\ pc = "admin_log" => q.ask.kind # "mcp"
      OBVIOUS
    <3> HIDE DEF pc
    <3>3. RequestsOK'
      BY <1>2, <2>1, <3>1, <3>2
    <3>4. Written(r) \in Table /\ Single(Written(r))
      BY <2>1, <2>3, WrittenOK
    <3>5. TablesOK'
      BY <2>1, <3>1, <3>4 DEF Inv, TablesOK, Table, Single, AtMostOneDefault, Defaults
    <3> QED BY <3>3, <3>5 DEF Inv
  <2> QED BY <2>2, <2>3
<1>4. CASE CommitKey(r)
  <2>1. PICK success \in BOOLEAN, pc \in {"admin_log", "refused"} :
          requests' = [requests EXCEPT ![r].success = success, ![r].pc = pc]
    BY <1>4 DEF CommitKey
  <2>2. q.pc = "commit" /\ q.ask.op \in {"add_key", "remove_key"} /\ UNCHANGED accounts
    BY <1>4 DEF CommitKey, At, Asked
  <2>3. q.ask.kind # "mcp"
    BY <1>0, <2>2, AskAssumption DEF Sound
  <2>4. RequestsOK'
    BY <1>2, <2>1, <2>2, <2>3
  <2>5. keys' \subseteq ApiKey
    <3>1. q.ask \in Ask(r) /\ q.ask.kind = "admin"
      BY <1>0, <2>2, <2>3 DEF Sound
    <3>2. q.ask.key \in ApiKey
      BY <2>2, <3>1, AskAssumption
    <3> QED BY <1>4, <3>2 DEF CommitKey, Asked, Inv, TablesOK
  <2>6. TablesOK'
    BY <2>2, <2>5 DEF Inv, TablesOK, AtMostOneDefault, Defaults
  <2> QED BY <2>4, <2>6 DEF Inv
<1>5. ASSUME NEW committed \in BOOLEAN, AdminLog(r, committed) PROVE Inv'
  <2>1. PICK pc \in {"done", "refused"} : Goes(r, pc)
    BY <1>5 DEF AdminLog
  <2>2. q.pc = "admin_log" /\ UNCHANGED <<accounts, keys>>
    BY <1>5 DEF AdminLog, At
  <2>3. RequestsOK'
    BY <2>1, <2>2, GoesIsSound DEF Over
  <2> QED BY <2>2, <2>3, TablesFrame DEF Inv
<1> QED BY <1>1, <1>3, <1>4, <1>5 DEF Admin

LEMMA StepInv == Inv /\ [Next]_vars => Inv'
<1> SUFFICES ASSUME Inv, [Next]_vars PROVE Inv'
  OBVIOUS
<1>1. CASE Tick \/ UNCHANGED vars
  <2>1. UNCHANGED <<requests, accounts, keys>>
    BY <1>1 DEF Tick, vars
  <2>2. RequestsOK'
    BY <2>1 DEF Inv, RequestsOK
  <2> QED BY <2>1, <2>2, TablesFrame DEF Inv
<1> QED BY <1>1, ArriveStep, LoginStep, McpStep, AdminStep DEF Next

-----------------------------------------------------------------------------
\* However many administrators and tools write the accounts at once, the
\* table never has two defaults.
THEOREM OneDefault == Spec => []AtMostOneDefault
<1>1. Inv => AtMostOneDefault
  BY DEF Inv, TablesOK
<1> QED BY <1>1, InitInv, StepInv, PTL DEF Spec

LEMMA GrantedStep == Inv /\ EffectsAreGranted /\ [Next]_vars => EffectsAreGranted'
<1> SUFFICES ASSUME Inv, EffectsAreGranted, [Next]_vars PROVE EffectsAreGranted'
  OBVIOUS
<1>1. CASE UNCHANGED performed
  BY <1>1 DEF EffectsAreGranted
<1>2. ASSUME NEW r \in Request, Performs(r),
             requests[r].pc \in {"work", "commit"}, requests[r].ask.kind = "mcp"
      PROVE  EffectsAreGranted'
  <2> DEFINE q == requests[r]
  <2>1. Permitted(ToolPermission[q.ask.tool], GrantedTo(q.ask.credential), Settings)
    BY <1>2 DEF Inv, RequestsOK, Sound, Allowed
  <2>2. performed' = performed \cup {[req |-> r, tool |-> q.ask.tool,
                                     credential |-> q.ask.credential]}
    BY <1>2 DEF Performs, Asked
  <2>3. \A p \in performed' :
           Permitted(ToolPermission[p.tool], GrantedTo(p.credential), Settings)
    BY <2>1, <2>2 DEF EffectsAreGranted, GrantedTo
  <2> QED BY <2>3 DEF EffectsAreGranted, GrantedTo
<1>3. ASSUME NEW r \in Request, NEW success \in BOOLEAN, Work(r, success)
      PROVE  EffectsAreGranted'
  <2>1. Performs(r) /\ requests[r].pc = "work"
    BY <1>3 DEF Work, At
  <2> QED BY <1>2, <2>1 DEF Inv, RequestsOK, Sound
<1>4. ASSUME NEW r \in Request, Commit(r), performed' # performed
      PROVE  EffectsAreGranted'
  BY <1>2, <1>4 DEF Commit, At, Asked
<1>5. ASSUME NEW r \in Request, Login(r) PROVE UNCHANGED performed
  BY <1>5 DEF Login, LoginRead, LoginCommit, AdminLogin, Logout
<1>6. ASSUME NEW r \in Request, Admin(r), ~Commit(r) PROVE UNCHANGED performed
  BY <1>6 DEF Admin, Get, CommitKey, AdminLog
<1>7. ASSUME NEW r \in Request, Mcp(r), ~\E success \in BOOLEAN : Work(r, success)
      PROVE  UNCHANGED performed
  BY <1>7 DEF Mcp, Authenticate, Stamp, Call, Raise, Log, LogFails, Boundary
<1>8. CASE Tick \/ UNCHANGED vars \/ \E r \in Request : \E ask \in Ask(r) : Arrive(r, ask)
  BY <1>1, <1>8 DEF Tick, vars, Arrive
<1> QED BY <1>1, <1>3, <1>4, <1>5, <1>6, <1>7, <1>8 DEF Next

\* Whatever runs at the same time, and whatever is done to the keys meanwhile,
\* a tool has its effect only under a permission its own credential holds.
THEOREM OnlyGrantedEffects == Spec => []EffectsAreGranted
<1>1. Init => EffectsAreGranted
  BY DEF Init, EffectsAreGranted
<1> QED BY <1>1, InitInv, StepInv, GrantedStep, PTL DEF Spec

-----------------------------------------------------------------------------
\* only LoginRead leads to the commit of a login
LEMMA NoneReads ==
    ASSUME Inv, NEW r \in Request, Mcp(r) \/ Admin(r)
    PROVE  /\ \A q \in Request \ {r} : requests'[q] = requests[q]
           /\ ~Reading(r)'
<1>0. DOMAIN requests = Request /\ Whole(requests[r])
  BY DEF Inv, RequestsOK, Sound, Whole
<1>1. ASSUME NEW pc, Goes(r, pc), pc # "login_commit"
      PROVE  /\ \A q \in Request \ {r} : requests'[q] = requests[q]
             /\ ~Reading(r)'
  <2>1. requests'[r].pc = pc
    <3>1. CASE pc \in Over
      <4>1. requests'[r] = Bare(pc, requests[r].ask)
        BY <1>1, <3>1, GoesRecord
      <4> QED BY <4>1 DEF Bare
    <3>2. CASE pc \notin Over
      <4>1. requests'[r] = [requests[r] EXCEPT !.pc = pc]
        BY <1>1, <3>2, GoesRecord
      <4> DEFINE q == requests[r]
      <4>2. [q EXCEPT !.pc = pc] = [pc |-> pc, ask |-> q.ask, seen |-> q.seen,
                                    permissions |-> q.permissions,
                                    account |-> q.account, success |-> q.success]
        BY <1>0, OneField
      <4> QED BY <4>1, <4>2
    <3> QED BY <3>1, <3>2
  <2> QED BY <1>1, <2>1, GoesRecord DEF Reading, At
<1>2. CASE Stamp(r) \/ (\E parsed \in BOOLEAN : Boundary(r, parsed)) \/ Raise(r)
           \/ Log(r) \/ LogFails(r) \/ \E committed \in BOOLEAN : AdminLog(r, committed)
  <2>1. PICK pc \in {"refused", "boundary", "call", "log", "done", "unlogged"} : Goes(r, pc)
    BY <1>2 DEF Stamp, Boundary, Raise, Log, LogFails, AdminLog, Afterwards
  <2> QED BY <1>1, <2>1
<1>3. CASE Authenticate(r)
  <2>1. PICK pc \in {"refused", "stamp", "boundary"},
               permissions \in {PermissionsOf(Asked(r).credential)} :
          requests' = [[requests EXCEPT ![r].permissions = permissions]
                          EXCEPT ![r].pc = pc]
    BY <1>3 DEF Authenticate, Context
  <2>2. requests'[r].pc = pc /\ \A q \in Request \ {r} : requests'[q] = requests[q]
    BY <1>0, <2>1 DEF Whole
  <2> QED BY <2>2 DEF Reading, At
<1>4. CASE Call(r)
  <2>1. PICK pc \in {"log", "done", "get", "work"},
               account \in {Found(Asked(r).account)} :
          requests' = [requests EXCEPT ![r].account = account, ![r].pc = pc]
    BY <1>4 DEF Call, Afterwards
  <2>2. requests'[r].pc = pc /\ \A q \in Request \ {r} : requests'[q] = requests[q]
    BY <1>0, <2>1 DEF Whole
  <2> QED BY <2>2 DEF Reading, At
<1>5. ASSUME NEW success, NEW pc \in {"log", "done", "admin_log", "refused"},
             requests' = [requests EXCEPT ![r].success = success, ![r].pc = pc]
      PROVE  /\ \A q \in Request \ {r} : requests'[q] = requests[q]
             /\ ~Reading(r)'
  <2>1. requests'[r].pc = pc /\ \A q \in Request \ {r} : requests'[q] = requests[q]
    BY <1>0, <1>5 DEF Whole
  <2> QED BY <2>1 DEF Reading, At
<1>6. CASE \E success \in BOOLEAN : Work(r, success)
  BY <1>5, <1>6 DEF Work, Afterwards
<1>7. CASE CommitKey(r)
  <2>1. PICK success \in BOOLEAN, pc \in {"admin_log", "refused"} :
          requests' = [requests EXCEPT ![r].success = success, ![r].pc = pc]
    BY <1>7 DEF CommitKey
  <2> QED BY <1>5, <2>1
<1>8. CASE Commit(r)
  <2>1. CASE Written(r) = None
    <3>1. PICK pc \in {"log", "refused"} : Goes(r, pc)
      BY <1>8, <2>1 DEF Commit
    <3> QED BY <1>1, <3>1
  <2>2. CASE Written(r) # None
    <3>1. PICK pc \in {"log", "admin_log"} :
            requests' = [requests EXCEPT ![r].success = TRUE, ![r].pc = pc]
      BY <1>8, <2>2 DEF Commit
    <3> QED BY <1>5, <3>1
  <2> QED BY <2>1, <2>2
<1>9. CASE Get(r)
  <2> DEFINE account == IF Asked(r).kind = "mcp" THEN requests[r].account
                        ELSE Asked(r).account
             seen == IF account = None THEN None ELSE accounts[account]
  <2>1. PICK pc \in {"commit", "log", "refused"} :
          requests' = [requests EXCEPT ![r].account = account, ![r].seen = seen,
                                       ![r].pc = pc]
    BY <1>9 DEF Get
  <2> HIDE DEF account, seen
  <2>2. requests' = [requests EXCEPT ![r] = Located(requests[r], account, seen, pc)]
    BY <1>0, <2>1 DEF Located
  <2>3. Located(requests[r], account, seen, pc).pc = pc
    BY <1>0, PcAccountAndSeen
  <2>4. requests'[r].pc = pc /\ \A q \in Request \ {r} : requests'[q] = requests[q]
    BY <1>0, <2>2, <2>3
  <2> QED BY <2>4 DEF Reading, At
<1> QED BY <1>2, <1>3, <1>4, <1>6, <1>7, <1>8, <1>9 DEF Mcp, Admin

\* while no two logins overlap, the one that read the row read it as it is
LockInv ==
    /\ guesses = [failures |-> guesses.failures, last |-> guesses.last,
                  tangled |-> guesses.tangled]
    /\ guesses.tangled \in BOOLEAN
    /\ ~guesses.tangled =>
          /\ user = [failed |-> user.failed, lockedUntil |-> user.lockedUntil]
          /\ user.failed \in Nat /\ user.failed = guesses.failures
          /\ guesses.failures >= LoginAttempts =>
                user.lockedUntil = guesses.last + LockTime
          /\ \A r \in Request : Reading(r) => requests[r].seen.row = user
          /\ \A r, q \in Request : Reading(r) /\ Reading(q) => r = q

LEMMA LockStep ==
    ASSUME LoginAttempts > 0 PROVE Inv /\ LockInv /\ [Next]_vars => LockInv'
<1> SUFFICES ASSUME Inv, LockInv, [Next]_vars PROVE LockInv'
  OBVIOUS
<1>1. ASSUME NEW r \in Request, \A q \in Request \ {r} : requests'[q] = requests[q],
             ~Reading(r)', UNCHANGED <<user, guesses>>
      PROVE  LockInv'
  BY <1>1 DEF LockInv, Reading, At
<1>2. ASSUME NEW r \in Request, Mcp(r) \/ Admin(r) PROVE LockInv'
  <2>1. UNCHANGED <<user, guesses>>
    BY <1>2 DEF Mcp, Authenticate, Stamp, Call, Raise, Log, LogFails, Work, Boundary,
                Admin, Get, Commit, CommitKey, AdminLog
  <2> QED BY <1>1, <1>2, <2>1, NoneReads
<1>3. ASSUME NEW r \in Request, NEW ask \in Ask(r), Arrive(r, ask) PROVE LockInv'
  <2>1. /\ UNCHANGED <<user, guesses>>
        /\ \E pc \in {ask.kind, "refused"} : requests' = [requests EXCEPT ![r] = Bare(pc, ask)]
    BY <1>3 DEF Arrive
  <2>2. ask.kind # "login_commit"
    BY AskAssumption
  <2>3. ~Reading(r)' /\ \A q \in Request \ {r} : requests'[q] = requests[q]
    BY <2>1, <2>2 DEF Inv, RequestsOK, Bare, Reading, At
  <2> QED BY <1>1, <2>1, <2>3
<1>4. ASSUME NEW r \in Request, NEW pc \in Over, Goes(r, pc)
      PROVE  ~Reading(r)' /\ \A q \in Request \ {r} : requests'[q] = requests[q]
  <2>1. requests'[r] = Bare(pc, requests[r].ask)
    BY <1>4, GoesRecord
  <2>2. requests'[r].pc = pc
    BY <2>1 DEF Bare
  <2>3. \A q \in Request \ {r} : requests'[q] = requests[q]
    BY <1>4, GoesRecord
  <2> QED BY <2>2, <2>3 DEF Reading, At, Over
<1>5. ASSUME NEW r \in Request, AdminLogin(r) \/ Logout(r) PROVE LockInv'
  <2>1. UNCHANGED <<user, guesses>> /\ \E pc \in Over : Goes(r, pc)
    BY <1>5 DEF AdminLogin, Logout, Over
  <2> QED BY <1>1, <1>4, <2>1
<1>6. ASSUME NEW r \in Request, LoginRead(r) PROVE LockInv'
  <2> DEFINE seen == [row |-> user, now |-> clock,
                      valid |-> Asked(r).good /\ user.lockedUntil <= clock]
  <2>1. /\ requests' = [requests EXCEPT ![r].pc = "login_commit", ![r].seen = seen]
        /\ guesses' = [guesses EXCEPT !.tangled = @ \/ \E q \in Request \ {r} : Reading(q)]
        /\ UNCHANGED user /\ seen.row = user
    BY <1>6 DEF LoginRead
  <2> HIDE DEF seen
  <2>2. DOMAIN requests = Request /\ Whole(requests[r])
    BY DEF Inv, RequestsOK, Sound, Whole
  <2>3. requests'[r].seen = seen /\ \A q \in Request \ {r} : requests'[q] = requests[q]
    BY <2>1, <2>2 DEF Whole
  <2>4. /\ guesses'.failures = guesses.failures /\ guesses'.last = guesses.last
        /\ guesses'.tangled = (guesses.tangled \/ \E q \in Request \ {r} : Reading(q))
        /\ guesses' = [failures |-> guesses'.failures, last |-> guesses'.last,
                       tangled |-> guesses'.tangled]
    BY <2>1 DEF LockInv
  <2>5. CASE guesses'.tangled
    BY <2>4, <2>5 DEF LockInv
  <2>6. CASE ~guesses'.tangled
    <3>1. ~guesses.tangled /\ \A q \in Request \ {r} : ~Reading(q)'
      BY <2>3, <2>4, <2>6 DEF Reading, At
    <3> QED BY <2>1, <2>3, <2>4, <3>1 DEF LockInv
  <2> QED BY <2>5, <2>6
<1>7. ASSUME NEW r \in Request, LoginCommit(r) PROVE LockInv'
  <2> DEFINE seen == requests[r].seen
             new == IF seen.valid THEN [failed |-> 0, lockedUntil |-> 0]
                    ELSE FailedRow(seen)
  <2>1. /\ Reading(r)
        /\ user' = [k \in DOMAIN user |->
                      IF new[k] # seen.row[k] THEN new[k] ELSE user[k]]
        /\ guesses' = [guesses EXCEPT !.failures = IF seen.valid THEN 0 ELSE @ + 1,
                                      !.last = seen.now]
        /\ \E pc \in Over : Goes(r, pc)
    BY <1>7 DEF LoginCommit, Reading, Over
  <2>2. /\ guesses'.failures = (IF seen.valid THEN 0 ELSE guesses.failures + 1)
        /\ guesses'.last = seen.now /\ guesses'.tangled = guesses.tangled
        /\ guesses' = [failures |-> guesses'.failures, last |-> guesses'.last,
                       tangled |-> guesses'.tangled]
    BY <2>1 DEF LockInv
  <2>3. CASE guesses.tangled
    BY <2>2, <2>3 DEF LockInv
  <2>4. CASE ~guesses.tangled
    <3>1. seen.row = user /\ \A q \in Request \ {r} : ~Reading(q)
      BY <2>1, <2>4 DEF LockInv
    <3>2. \A q \in Request : ~Reading(q)'
      BY <1>4, <2>1, <3>1 DEF Reading, At
    <3>3. new = [failed |-> new.failed, lockedUntil |-> new.lockedUntil]
      BY DEF FailedRow
    <3>4. user' = new
      <4>1. DOMAIN user = {"failed", "lockedUntil"}
        BY <2>4 DEF LockInv
      <4>2. user' = [k \in DOMAIN user |-> new[k]]
        BY <2>1, <3>1
      <4> HIDE DEF new
      <4> QED BY <3>3, <4>1, <4>2
    <3>5. CASE seen.valid
      <4>1. new.failed = 0
        BY <3>5
      <4> HIDE DEF new
      <4> QED BY <2>2, <3>2, <3>3, <3>4, <3>5, <4>1, AccessAssumption DEF LockInv
    <3>6. CASE ~seen.valid
      <4>1. new.failed = user.failed + 1
            /\ (new.failed >= LoginAttempts => new.lockedUntil = seen.now + LockTime)
        BY <3>1, <3>6 DEF FailedRow
      <4>2. user.failed \in Nat /\ user.failed = guesses.failures
        BY <2>4 DEF LockInv
      <4> HIDE DEF new
      <4> QED BY <2>2, <3>2, <3>3, <3>4, <3>6, <4>1, <4>2 DEF LockInv
    <3> QED BY <3>5, <3>6
  <2> QED BY <2>3, <2>4 DEF LockInv
<1>8. CASE Tick \/ UNCHANGED vars
  BY <1>8 DEF Tick, vars, LockInv, Reading, At
<1> QED BY <1>2, <1>3, <1>5, <1>6, <1>7, <1>8 DEF Next, Login

\* However guesses are spread over time and over the lock, the n-th failure in
\* a row counts as n and from the limit on each starts the lock again; only
\* overlapping logins can lose a count.  (A limit of 0 lets no login through.)
THEOREM EveryFailureCounts ==
    ASSUME LoginAttempts > 0 PROVE Spec => []LockFollowsFailures
<1>1. Init => LockInv
  BY AccessAssumption DEF Init, LockInv, Reading, At, Idle, Bare
<1>2. LockInv => LockFollowsFailures
  BY DEF LockInv, LockFollowsFailures
<1>3. Inv /\ LockInv /\ [Next]_vars => LockInv'
  BY LockStep
<1> QED BY <1>1, <1>2, <1>3, InitInv, StepInv, PTL DEF Spec

-----------------------------------------------------------------------------
\* how the accounts can lose their default
LosesDefault(r) ==
    /\ requests[r].pc = "commit" /\ requests'[r].pc # "commit"
    /\ \/ Asked(r).op = "delete"
       \/ /\ Asked(r).op = "update"
          /\ \/ "default" \in DOMAIN Asked(r).payload
                /\ ~Asked(r).payload["default"]
             \/ requests[r].seen # accounts[requests[r].account]

\* an update of the row that was read keeps a default, unless it is told not to
LEMMA UpdateKeepsDefault ==
    ASSUME accounts \in Table, NEW a \in Account, Exists(a), NEW values \in Patch,
           "default" \in DOMAIN values => values["default"],
           Defaults(accounts) # {}, Updated(a, accounts[a], values) # None
    PROVE  Defaults(Updated(a, accounts[a], values)) # {}
<1> DEFINE seen == accounts[a]
           makes == "default" \in DOMAIN values /\ values["default"]
           rows == IF makes THEN Cleared(a) ELSE accounts
           changed == {k \in DOMAIN values : values[k] # seen[k]}
           new == NewRow(rows[a], seen, values, changed)
<1>1. /\ rows \in Table /\ rows[a] = accounts[a] /\ accounts[a] \in Row
      /\ ~makes => rows = accounts
  BY ClearedOK DEF Exists, Table
<1>2. Updated(a, seen, values) = Flushed(rows, a, seen, values)
  BY DEF Updated
<1>3. "default" \in changed => makes /\ values["default"]
  OBVIOUS
<1>4. makes /\ "default" \notin changed => seen.default
  BY <1>1 DEF Row, Patch
<1> HIDE DEF makes, rows
<1>5. CASE changed = {}
  <2>1. Updated(a, seen, values) = rows
    BY <1>2, <1>5 DEF Flushed
  <2>2. CASE makes
    <3>1. a \in Defaults(rows)
      BY <1>1, <1>4, <1>5, <2>2 DEF Exists, Defaults
    <3> QED BY <2>1, <3>1
  <2>3. CASE ~makes
    BY <1>1, <2>1, <2>3
  <2> QED BY <2>2, <2>3
<1>6. CASE changed # {}
  <2>1. Updated(a, seen, values) = [rows EXCEPT ![a] = new]
    BY <1>1, <1>2, <1>6 DEF Flushed, Table, NewRow
  <2>2. new \in Row /\ new.default = IF "default" \in changed THEN values["default"]
                                    ELSE rows[a].default
    BY <1>1, FlushedRow
  <2> HIDE DEF new, changed
  <2>3. PICK b \in Account : accounts[b] # None /\ accounts[b].default
    BY DEF Defaults
  <2>4. CASE makes
    <3>1. new.default
      BY <1>1, <1>3, <1>4, <2>2, <2>4
    <3>2. new # None
      BY <2>2, AskAssumption
    <3>3. a \in Defaults([rows EXCEPT ![a] = new])
      BY <1>1, <3>1, <3>2 DEF Defaults, Table
    <3> QED BY <2>1, <3>3
  <2>5. CASE ~makes
    <3>1. new.default = accounts[a].default /\ new # None /\ rows = accounts
      BY <1>1, <1>3, <2>2, <2>5, AskAssumption
    <3>2. b \in Defaults([rows EXCEPT ![a] = new])
      BY <1>1, <2>3, <3>1 DEF Defaults, Table
    <3> QED BY <2>1, <3>2
  <2> QED BY <2>4, <2>5
<1> QED BY <1>5, <1>6

LEMMA DefaultStep ==
    ASSUME Inv, [Next]_vars, Defaults(accounts) # {}, Defaults(accounts)' = {}
    PROVE  \E r \in Request : LosesDefault(r)
<1>1. accounts' # accounts
  BY DEF Defaults
<1>2. PICK r \in Request : Commit(r)
  <2>1. ASSUME NEW r \in Request, Login(r) \/ Mcp(r) PROVE FALSE
    BY <1>1, <2>1 DEF Login, LoginRead, LoginCommit, AdminLogin, Logout, Mcp,
       Authenticate, Stamp, Call, Raise, Log, LogFails, Work, Boundary
  <2>2. ASSUME NEW r \in Request, Admin(r) PROVE Commit(r)
    BY <1>1, <2>2 DEF Admin, Get, CommitKey, AdminLog
  <2>3. ASSUME NEW r \in Request, NEW ask \in Ask(r), Arrive(r, ask) PROVE FALSE
    BY <1>1, <2>3 DEF Arrive
  <2>4. ~Tick /\ ~UNCHANGED vars
    BY <1>1 DEF Tick, vars
  <2> QED BY <2>1, <2>2, <2>3, <2>4 DEF Next
<1> DEFINE q == requests[r]
<1>3. /\ Sound(r, q) /\ Whole(q) /\ q.ask \in Ask(r) /\ q.pc = "commit"
      /\ accounts \in Table /\ DOMAIN requests = Request
  BY <1>2 DEF Inv, RequestsOK, TablesOK, Sound, Whole, Table, Commit, At
<1>4. /\ Written(r) # None /\ accounts' = Written(r) /\ q.ask.op \in AccountOp
      /\ \E pc \in {"log", "admin_log"} :
            requests' = [requests EXCEPT ![r].success = TRUE, ![r].pc = pc]
  BY <1>1, <1>2 DEF Commit, Asked
<1>5. requests'[r].pc # "commit"
  <2>1. PICK pc \in {"log", "admin_log"} :
          requests' = [requests EXCEPT ![r].success = TRUE, ![r].pc = pc]
    BY <1>4
  <2>2. requests'[r].pc = pc
    BY <1>3, <2>1 DEF Whole
  <2> QED BY <2>2
<1>6. Defaults(Written(r)) = {}
  BY <1>4 DEF Defaults
<1>7. CASE q.ask.op = "delete"
  BY <1>3, <1>5, <1>7 DEF LosesDefault, Asked
<1>8. CASE q.ask.op = "set_default"
  <2>1. Written(r) = MadeDefault(q.account, q.seen)
    BY <1>8 DEF Written, Asked
  <2>2. /\ q.account \in Account /\ accounts[q.account] # None
        /\ Written(r) = [Cleared(q.account) EXCEPT ![q.account].default = TRUE]
    BY <1>4, <2>1 DEF MadeDefault, Exists
  <2>3. /\ Cleared(q.account) \in Table /\ Cleared(q.account)[q.account] \in Row
    BY <1>3, <2>2, ClearedOK DEF Table
  <2> DEFINE row == [Cleared(q.account)[q.account] EXCEPT !.default = TRUE]
  <2>4. row \in Row /\ row.default
    BY <2>3 DEF Row
  <2>5. Written(r) = [Cleared(q.account) EXCEPT ![q.account] = row]
    BY <2>2, <2>3 DEF Table
  <2> HIDE DEF row
  <2>6. q.account \in Defaults(Written(r))
    <3>1. q.account \in DOMAIN Cleared(q.account)
      BY <2>2 DEF Cleared
    <3>2. Written(r)[q.account] = row
      BY <2>5, <3>1
    <3>3. row # None
      BY <2>4, AskAssumption
    <3> QED BY <2>2, <2>4, <3>2, <3>3 DEF Defaults
  <2> QED BY <1>6, <2>6
<1>9. CASE q.ask.op \in {"create", "update"}
  <2>1. /\ q.ask.kind = "admin" /\ q.account = q.ask.account /\ q.account \in Account
    BY <1>3, <1>9, AskAssumption DEF Sound
  <2>2. CASE q.ask.op = "create"
    <3> DEFINE payload == q.ask.payload
               rows == IF payload.default THEN Cleared(q.account) ELSE accounts
    <3>1. /\ payload \in Row /\ ~Exists(q.account)
          /\ Written(r) = [rows EXCEPT ![q.account] = payload]
      BY <1>3, <1>4, <2>1, <2>2, AskAssumption DEF Written, Created, Asked
    <3>2. PICK b \in Account : accounts[b] # None /\ accounts[b].default
      BY DEF Defaults
    <3>3. rows \in Table /\ (~payload.default => rows = accounts) /\ b # q.account
      BY <1>3, <2>1, <3>1, <3>2, ClearedOK DEF Exists
    <3> HIDE DEF rows, payload
    <3>4. CASE payload.default
      <4>1. q.account \in Defaults(Written(r))
        BY <2>1, <3>1, <3>3, <3>4, AskAssumption DEF Defaults, Table
      <4> QED BY <1>6, <4>1
    <3>5. CASE ~payload.default
      <4>1. b \in Defaults(Written(r))
        BY <2>1, <3>1, <3>2, <3>3, <3>5 DEF Defaults, Table
      <4> QED BY <1>6, <4>1
    <3> QED BY <3>4, <3>5
  <2>3. CASE q.ask.op = "update"
    <3>1. q.ask.payload \in Patch /\ q.seen \in Row
          /\ Written(r) = Updated(q.account, q.seen, q.ask.payload)
      BY <1>3, <2>1, <2>3, AskAssumption DEF Sound, Patch, Written, Asked
    <3>2. CASE \/ "default" \in DOMAIN q.ask.payload /\ ~q.ask.payload["default"]
               \/ q.seen # accounts[q.account]
      BY <1>3, <1>5, <2>3, <3>2 DEF LosesDefault, Asked
    <3>3. CASE /\ "default" \in DOMAIN q.ask.payload => q.ask.payload["default"]
               /\ q.seen = accounts[q.account]
      <4>1. Exists(q.account)
        BY <2>1, <3>1, <3>3, AskAssumption DEF Exists
      <4>2. Defaults(Updated(q.account, accounts[q.account], q.ask.payload)) # {}
        BY <1>3, <1>4, <2>1, <3>1, <3>3, <4>1, UpdateKeepsDefault
      <4> QED BY <1>6, <3>1, <3>3, <4>2
    <3> QED BY <3>2, <3>3
  <2> QED BY <1>9, <2>2, <2>3
<1> QED BY <1>4, <1>7, <1>8, <1>9 DEF AccountOp

\* No race of account operations takes the default away: it goes when somebody
\* asked for that, or by an update of a row that changed under it.
THEOREM DefaultIsKept == Spec => DefaultKept
<1>1. Inv /\ [Next]_vars =>
        [Defaults(accounts) # {} /\ Defaults(accounts)' = {} =>
           \E r \in Request :
              /\ requests[r].pc = "commit" /\ requests'[r].pc # "commit"
              /\ \/ Asked(r).op = "delete"
                 \/ /\ Asked(r).op = "update"
                    /\ \/ "default" \in DOMAIN Asked(r).payload
                          /\ ~Asked(r).payload["default"]
                       \/ requests[r].seen # accounts[requests[r].account]]_vars
  BY DefaultStep DEF LosesDefault
<1> QED BY <1>1, InitInv, StepInv, PTL DEF Spec, DefaultKept

-----------------------------------------------------------------------------
\* The limiter.  Its buckets keep the end of the history of what it let
\* through; what has left a bucket is older than the window.

Limit(k) == IF k \in IP THEN RateLimit ELSE LoginAttempts

\* the places of a history whose times lie in the window from t on
Inside(times, t) == {i \in DOMAIN times : times[i] \in t .. t + Window}

\* bucket b holds the end of history h, and the rest is too old at time now
Follows(b, h, now) ==
    /\ b \in Seq(0 .. now) /\ h \in Seq(0 .. now) /\ Len(b) <= Len(h)
    /\ \A i \in 1 .. Len(b) : b[i] = h[Len(h) - Len(b) + i]
    /\ \A i \in 1 .. Len(h) - Len(b) : h[i] < now - Window

RatesOK ==
    /\ clock \in 0 .. MaxTime
    /\ buckets = [k \in Bucket |-> buckets[k]]
    /\ admitted = [k \in Bucket |-> admitted[k]]
    /\ \A k \in Bucket : Follows(buckets[k], admitted[k], clock)
    /\ RateBound

\* the natural numbers are well founded
LEMMA LeastBy ==
    ASSUME NEW R, \A x, y \in Nat : x < y => <<x, y>> \in R,
           NEW S, S \subseteq Nat,
           \E x \in S : \A y \in S : ~ (<<y, x>> \in R)
    PROVE  \E n \in S : \A m \in S : n <= m
<1>1. PICK x \in S : \A y \in S : ~ (<<y, x>> \in R)
  OBVIOUS
<1>2. \A y \in S : ~ (y < x)
  BY <1>1
<1>3. \A y \in S : x <= y
  BY <1>2
<1> QED BY <1>3

LEMMA WellFounded ==
    ASSUME NEW R, IsWellFoundedOn(R, Nat), NEW S, S \subseteq Nat, S # {}
    PROVE  \E x \in S : \A y \in S : ~ (<<y, x>> \in R)
  BY WFMin, Zenon

LEMMA Least ==
    ASSUME NEW S, S \subseteq Nat, S # {} PROVE \E n \in S : \A m \in S : n <= m
<1>1. IsWellFoundedOn(OpToRel(<, Nat), Nat)
  BY NatLessThanWellFounded
<1>2. \A x, y \in Nat : x < y => <<x, y>> \in OpToRel(<, Nat)
  BY DEF OpToRel
<1>3. \E x \in S : \A y \in S : ~ (<<y, x>> \in OpToRel(<, Nat))
  BY <1>1, WellFounded, Zenon
<1> QED BY <1>2, <1>3, LeastBy, Zenon

\* what the loop leaves of a bucket
LEMMA TrimmedIsEnd ==
    ASSUME NEW k \in Bucket, buckets[k] \in Seq(0 .. clock), clock \in Nat
    PROVE  \E n \in 0 .. Len(buckets[k]) :
              /\ Trimmed(k) = SubSeq(buckets[k], n + 1, Len(buckets[k]))
              /\ \A i \in 1 .. n : buckets[k][i] < clock - Window
<1> DEFINE times == buckets[k]
           recent == {i \in DOMAIN times : times[i] >= clock - Window}
           first == CHOOSE i \in recent : \A j \in recent : i <= j
<1>1. DOMAIN times = 1 .. Len(times) /\ Len(times) \in Nat
  OBVIOUS
<1>2. CASE recent = {}
  <2>1. Trimmed(k) = <<>> /\ SubSeq(times, Len(times) + 1, Len(times)) = <<>>
    BY <1>1, <1>2 DEF Trimmed
  <2>2. \A i \in 1 .. Len(times) : times[i] < clock - Window
    <3> TAKE i \in 1 .. Len(times)
    <3>1. i \in DOMAIN times /\ i \notin recent
      BY <1>1, <1>2
    <3>2. times[i] \in 0 .. clock
      BY <3>1
    <3> QED BY <3>1, <3>2, AccessAssumption
  <2> QED BY <1>1, <2>1, <2>2
<1>3. CASE recent # {}
  <2>1. recent \subseteq Nat
    BY <1>1
  <2>2. \E i \in recent : \A j \in recent : i <= j
    <3> HIDE DEF recent
    <3> QED BY <1>3, <2>1, Least
  <2>3. first \in recent /\ \A j \in recent : first <= j
    <3> HIDE DEF recent
    <3> QED BY <2>2
  <2>4. Trimmed(k) = SubSeq(times, first, Len(times))
    BY <1>3 DEF Trimmed
  <2> HIDE DEF first
  <2>5. first \in 1 .. Len(times)
    BY <1>1, <2>3
  <2>6. \A i \in 1 .. first - 1 : times[i] < clock - Window
    <3> TAKE i \in 1 .. first - 1
    <3>1. i \in DOMAIN times /\ i \notin recent
      BY <1>1, <2>3, <2>5
    <3>2. times[i] \in 0 .. clock
      BY <3>1
    <3> QED BY <3>1, <3>2, AccessAssumption
  <2> DEFINE n == first - 1
  <2>7. n \in 0 .. Len(times) /\ first = n + 1
    BY <1>1, <2>5
  <2> QED BY <2>4, <2>6, <2>7
<1> QED BY <1>2, <1>3

\* a bucket that loses entries which are too old, and one that gains the time
LEMMA EndFollows ==
    ASSUME NEW now \in Nat, NEW b, NEW h, Follows(b, h, now),
           NEW n \in 0 .. Len(b), \A i \in 1 .. n : b[i] < now - Window
    PROVE  Follows(SubSeq(b, n + 1, Len(b)), h, now)
<1> DEFINE e == SubSeq(b, n + 1, Len(b))
<1>1. b \in Seq(0 .. now) /\ h \in Seq(0 .. now) /\ Len(b) \in Nat /\ Len(h) \in Nat
      /\ Len(b) <= Len(h)
  BY DEF Follows
<1>2. e \in Seq(0 .. now) /\ Len(e) = Len(b) - n
      /\ \A i \in 1 .. Len(b) - n : e[i] = b[n + i]
  <2>1. \A i \in n + 1 .. Len(b) : b[i] \in 0 .. now
    BY <1>1
  <2>2. Len(e) = Len(b) - n /\ \A i \in 1 .. Len(b) - n : e[i] = b[n + i]
    BY <1>1, AccessAssumption
  <2>3. e = [i \in 1 .. Len(b) - n |-> b[n + i]]
    BY <1>1
  <2> QED BY <1>1, <2>2, <2>3, IsASeq
<1> HIDE DEF e
<1> DEFINE m == Len(e)
           lb == Len(b)
           lh == Len(h)
<1>3. m = lb - n /\ lb \in Nat /\ lh \in Nat /\ lb <= lh /\ n \in 0 .. lb
  BY <1>1, <1>2
<1>4. \A i \in 1 .. lb : b[i] = h[lh - lb + i]
  BY DEF Follows
<1>5. \A i \in 1 .. lh - lb : h[i] < now - Window
  BY DEF Follows
<1>6. \A i \in 1 .. m : e[i] = b[n + i]
  BY <1>2, <1>3
<1> HIDE DEF m, lb, lh
<1>7. \A i \in 1 .. m : e[i] = h[lh - m + i]
  <2> TAKE i \in 1 .. m
  <2>1. n + i \in 1 .. lb /\ lh - lb + (n + i) = lh - m + i
    BY <1>3
  <2> QED BY <1>4, <1>6, <2>1
<1>8. \A i \in 1 .. lh - m : h[i] < now - Window
  <2> TAKE i \in 1 .. lh - m
  <2>1. CASE i <= lh - lb
    BY <1>3, <1>5, <2>1
  <2>2. CASE ~(i <= lh - lb)
    <3>1. i - (lh - lb) \in 1 .. n /\ i - (lh - lb) \in 1 .. lb
          /\ lh - lb + (i - (lh - lb)) = i
      BY <1>3, <2>2
    <3> QED BY <1>4, <3>1
  <2> QED BY <2>1, <2>2
<1>9. m <= lh
  BY <1>3
<1>10. /\ Len(e) <= Len(h)
       /\ \A i \in 1 .. Len(e) : e[i] = h[Len(h) - Len(e) + i]
       /\ \A i \in 1 .. Len(h) - Len(e) : h[i] < now - Window
  BY <1>7, <1>8, <1>9 DEF m, lh
<1>11. Follows(e, h, now)
  BY <1>1, <1>2, <1>10 DEF Follows
<1> QED BY <1>11 DEF e

LEMMA LaterFollows ==
    ASSUME NEW now \in Nat, NEW later \in Nat, now <= later,
           NEW b, NEW h, Follows(b, h, now)
    PROVE  Follows(b, h, later)
<1>1. 0 .. now \subseteq 0 .. later
  OBVIOUS
<1>2. b \in Seq(0 .. later) /\ h \in Seq(0 .. later)
  BY <1>1, SeqMonotonic DEF Follows
<1>3. h \in Seq(0 .. now) /\ Len(h) \in Nat /\ Len(b) \in Nat /\ Len(b) <= Len(h)
  BY DEF Follows
<1>4. ASSUME NEW i \in 1 .. Len(h) - Len(b) PROVE h[i] < later - Window
  <2>1. h[i] < now - Window
    BY DEF Follows
  <2>2. i \in 1 .. Len(h)
    BY <1>3
  <2>3. h[i] \in 0 .. now
    BY <1>3, <2>2, ElementOfSeq
  <2> QED BY <2>1, <2>3, AccessAssumption
<1> QED BY <1>2, <1>3, <1>4 DEF Follows

LEMMA AppendFollows ==
    ASSUME NEW now \in Nat, NEW b, NEW h, Follows(b, h, now)
    PROVE  Follows(Append(b, now), Append(h, now), now)
<1> DEFINE lb == Len(b)
           lh == Len(h)
           c == Append(b, now)
           g == Append(h, now)
<1>1. b \in Seq(0 .. now) /\ h \in Seq(0 .. now) /\ lb \in Nat /\ lh \in Nat
      /\ lb <= lh
  BY DEF Follows
<1>2. /\ c \in Seq(0 .. now) /\ Len(c) = lb + 1 /\ c[lb + 1] = now
      /\ \A i \in 1 .. lb : c[i] = b[i]
  BY <1>1
<1>3. /\ g \in Seq(0 .. now) /\ Len(g) = lh + 1 /\ g[lh + 1] = now
      /\ \A i \in 1 .. lh : g[i] = h[i]
  BY <1>1
<1>4. \A i \in 1 .. lb : b[i] = h[lh - lb + i]
  BY DEF Follows
<1>5. \A i \in 1 .. lh - lb : h[i] < now - Window
  BY DEF Follows
<1> HIDE DEF lb, lh, c, g
<1>6. \A i \in 1 .. lb + 1 : c[i] = g[lh + 1 - (lb + 1) + i]
  <2> TAKE i \in 1 .. lb + 1
  <2>1. CASE i = lb + 1
    <3>1. lh + 1 - (lb + 1) + i = lh + 1
      BY <1>1, <2>1
    <3> QED BY <1>2, <1>3, <2>1, <3>1
  <2>2. CASE i # lb + 1
    <3>1. i \in 1 .. lb /\ lh - lb + i \in 1 .. lh
          /\ lh + 1 - (lb + 1) + i = lh - lb + i
      BY <1>1, <2>2
    <3> QED BY <1>2, <1>3, <1>4, <3>1
  <2> QED BY <2>1, <2>2
<1>7. \A i \in 1 .. lh + 1 - (lb + 1) : g[i] < now - Window
  <2> TAKE i \in 1 .. lh + 1 - (lb + 1)
  <2>1. i \in 1 .. lh - lb /\ i \in 1 .. lh
    BY <1>1
  <2> QED BY <1>3, <1>5, <2>1
<1>8. PICK lc \in Nat, lg \in Nat : lc = lb + 1 /\ lg = lh + 1
  BY <1>1
<1>9. /\ Len(c) <= Len(g)
      /\ \A i \in 1 .. Len(c) : c[i] = g[Len(g) - Len(c) + i]
      /\ \A i \in 1 .. Len(g) - Len(c) : g[i] < now - Window
  <2>1. /\ lc <= lg
        /\ \A i \in 1 .. lc : c[i] = g[lg - lc + i]
        /\ \A i \in 1 .. lg - lc : g[i] < now - Window
    BY <1>1, <1>6, <1>7, <1>8
  <2>2. Len(c) = lc /\ Len(g) = lg
    BY <1>2, <1>3, <1>8
  <2> QED BY <2>1, <2>2
<1>10. Follows(c, g, now)
  BY <1>2, <1>3, <1>9 DEF Follows
<1> QED BY <1>10 DEF c, g

\* an admission below the limit keeps every window at the limit: what the
\* window of its time counts is still in the bucket
LEMMA AppendBounded ==
    ASSUME NEW now \in Nat, NEW b, NEW h, Follows(b, h, now), NEW limit \in Nat,
           Len(b) < limit, NEW t \in Nat, Cardinality(Inside(h, t)) <= limit
    PROVE  Cardinality(Inside(Append(h, now), t)) <= limit
<1> DEFINE lb == Len(b)
           lh == Len(h)
           g == Append(h, now)
<1>1. h \in Seq(0 .. now) /\ lb \in Nat /\ lh \in Nat /\ lb <= lh
  BY DEF Follows
<1>2. /\ DOMAIN g = 1 .. lh + 1 /\ g[lh + 1] = now
      /\ \A i \in 1 .. lh : g[i] = h[i]
  BY <1>1
<1>3. DOMAIN h = 1 .. lh /\ \A i \in 1 .. lh : h[i] \in 0 .. now
  BY <1>1
<1>4. \A i \in 1 .. lh - lb : h[i] < now - Window
  BY DEF Follows
<1>5. lb < limit
  OBVIOUS
<1>6. Window \in Nat
  BY AccessAssumption
<1> HIDE DEF lb, lh, g
<1>7. CASE now \notin t .. t + Window
  <2>1. Inside(g, t) \subseteq Inside(h, t)
    <3> SUFFICES ASSUME NEW i \in 1 .. lh + 1, g[i] \in t .. t + Window
                 PROVE  i \in 1 .. lh /\ h[i] \in t .. t + Window
      BY <1>2, <1>3 DEF Inside
    <3>1. i # lh + 1
      BY <1>2, <1>7
    <3>2. i \in 1 .. lh
      BY <1>1, <3>1
    <3> QED BY <1>2, <3>2
  <2>2. Inside(h, t) \subseteq Inside(g, t)
    <3> SUFFICES ASSUME NEW i \in 1 .. lh, h[i] \in t .. t + Window
                 PROVE  i \in 1 .. lh + 1 /\ g[i] \in t .. t + Window
      BY <1>2, <1>3 DEF Inside
    <3> QED BY <1>1, <1>2
  <2>3. Inside(g, t) = Inside(h, t)
    BY <2>1, <2>2
  <2> QED BY <2>3 DEF g
<1>8. CASE now \in t .. t + Window
  <2>1. Inside(g, t) \subseteq (lh - lb + 1) .. (lh + 1)
    <3> SUFFICES ASSUME NEW i \in 1 .. lh + 1, g[i] \in t .. t + Window,
                        ~(i \in (lh - lb + 1) .. (lh + 1))
                 PROVE  FALSE
      BY <1>2 DEF Inside
    <3>1. i \in 1 .. lh - lb /\ i \in 1 .. lh
      BY <1>1
    <3>2. h[i] < now - Window /\ h[i] \in t .. t + Window /\ h[i] \in Nat
      BY <1>2, <1>3, <1>4, <3>1
    <3> QED BY <1>6, <1>8, <3>2
  <2>2. /\ IsFiniteSet((lh - lb + 1) .. (lh + 1))
        /\ Cardinality((lh - lb + 1) .. (lh + 1)) = lb + 1
    <3>1. PICK x \in Int, y \in Int : x = lh - lb + 1 /\ y = lh + 1
      BY <1>1
    <3>2. ~(x > y) /\ y - x + 1 = lb + 1
      BY <1>1, <3>1
    <3>3. IsFiniteSet(x .. y) /\ Cardinality(x .. y) = lb + 1
      BY <3>2, FS_Interval
    <3> QED BY <3>1, <3>3
  <2>3. Cardinality(Inside(g, t)) <= lb + 1 /\ Cardinality(Inside(g, t)) \in Nat
    BY <2>1, <2>2, FS_Subset, FS_CardinalityType
  <2>4. Cardinality(Inside(g, t)) <= limit
    BY <1>1, <1>5, <2>3
  <2> QED BY <2>4 DEF g
<1> QED BY <1>7, <1>8

\* what one call of allow does to the bucket of its key and to its history
Answered(key, limit, b, h) ==
    \/ b = Trimmed(key) /\ h = admitted[key]
    \/ /\ Len(Trimmed(key)) < limit
       /\ b = Append(Trimmed(key), clock) /\ h = Append(admitted[key], clock)

LEMMA CountedOnce ==
    ASSUME NEW key \in Bucket, NEW limit, NEW b, NEW h,
           b = [k \in Bucket |-> b[k]], h = [k \in Bucket |-> h[k]],
           h[key] = admitted[key], NEW c, NEW g,
           c = Counted(b, key, limit), g = Noted(key, limit, h)
    PROVE  /\ c = [k \in Bucket |-> c[k]] /\ g = [k \in Bucket |-> g[k]]
           /\ \A k \in Bucket \ {key} : c[k] = b[k] /\ g[k] = h[k]
           /\ Answered(key, limit, c[key], g[key])
<1>1. PICK trimmed : trimmed = Trimmed(key)
  OBVIOUS
<1>2. CASE Len(trimmed) < limit
  <2>1. /\ c = [b EXCEPT ![key] = Append(trimmed, clock)]
        /\ g = [h EXCEPT ![key] = Append(h[key], clock)]
    BY <1>1, <1>2 DEF Counted, Noted, Allows
  <2> QED BY <1>1, <1>2, <2>1 DEF Answered
<1>3. CASE ~(Len(trimmed) < limit)
  <2>1. c = [b EXCEPT ![key] = trimmed] /\ g = h
    BY <1>1, <1>3 DEF Counted, Noted, Allows
  <2> QED BY <1>1, <2>1 DEF Answered
<1> QED BY <1>2, <1>3

LEMMA ArriveCounts ==
    ASSUME RatesOK, NEW r \in Request, NEW ask \in Ask(r), Arrive(r, ask)
    PROVE  /\ buckets' = [k \in Bucket |-> buckets'[k]]
           /\ admitted' = [k \in Bucket |-> admitted'[k]]
           /\ \A k \in Bucket :
                 \/ buckets'[k] = buckets[k] /\ admitted'[k] = admitted[k]
                 \/ Answered(k, Limit(k), buckets'[k], admitted'[k])
<1>1. ask.ip \in IP
  BY AskAssumption
<1>2. PICK ip \in Bucket, key \in Bucket :
         /\ ip = ask.ip /\ key = LoginKey(ask.ip) /\ ip # key
         /\ Limit(ip) = RateLimit /\ Limit(key) = LoginAttempts
  BY <1>1, AskAssumption DEF Bucket, Limit
<1>3. PICK b, h : b = Counted(buckets, ip, RateLimit) /\ h = Noted(ip, RateLimit, admitted)
  OBVIOUS
<1>4. PICK c, g : c = Counted(b, key, LoginAttempts) /\ g = Noted(key, LoginAttempts, h)
  OBVIOUS
<1>5. \/ buckets' = b /\ admitted' = h
      \/ buckets' = c /\ admitted' = g
  BY <1>2, <1>3, <1>4 DEF Arrive
<1>6. /\ b = [k \in Bucket |-> b[k]] /\ h = [k \in Bucket |-> h[k]]
      /\ \A k \in Bucket \ {ip} : b[k] = buckets[k] /\ h[k] = admitted[k]
      /\ Answered(ip, Limit(ip), b[ip], h[ip])
  BY <1>2, <1>3, CountedOnce DEF RatesOK
<1>7. h[key] = admitted[key]
  BY <1>2, <1>6
<1>8. /\ c = [k \in Bucket |-> c[k]] /\ g = [k \in Bucket |-> g[k]]
      /\ \A k \in Bucket \ {key} : c[k] = b[k] /\ g[k] = h[k]
      /\ Answered(key, Limit(key), c[key], g[key])
  BY <1>2, <1>4, <1>6, <1>7, CountedOnce
<1>9. CASE buckets' = b /\ admitted' = h
  BY <1>6, <1>9
<1>10. CASE buckets' = c /\ admitted' = g
  <2>1. \A k \in Bucket \ {ip, key} : c[k] = buckets[k] /\ g[k] = admitted[k]
    BY <1>6, <1>8
  <2>2. Answered(ip, Limit(ip), c[ip], g[ip])
    BY <1>2, <1>6, <1>8
  <2> QED BY <1>8, <1>10, <2>1, <2>2
<1> QED BY <1>5, <1>9, <1>10

LEMMA RatesStep == RatesOK /\ [Next]_vars => RatesOK'
<1> SUFFICES ASSUME RatesOK, [Next]_vars PROVE RatesOK'
  OBVIOUS
<1>1. CASE UNCHANGED <<clock, buckets, admitted>>
  BY <1>1 DEF RatesOK, RateBound
<1>2. CASE Tick
  <2>1. /\ clock' \in 0 .. MaxTime /\ clock' = clock + 1 /\ clock \in Nat
        /\ buckets' = buckets /\ admitted' = admitted
    BY <1>2, AccessAssumption DEF Tick, RatesOK
  <2>2. \A k \in Bucket : Follows(buckets[k], admitted[k], clock + 1)
    BY <2>1, LaterFollows DEF RatesOK
  <2>3. RateBound'
    BY <2>1 DEF RatesOK, RateBound
  <2> QED BY <2>1, <2>2, <2>3 DEF RatesOK
<1>3. ASSUME NEW r \in Request, NEW ask \in Ask(r), Arrive(r, ask) PROVE RatesOK'
  <2>1. clock' = clock /\ clock \in Nat /\ clock \in 0 .. MaxTime
    BY <1>3, AccessAssumption DEF Arrive, RatesOK
  <2>2. ASSUME NEW k \in Bucket
        PROVE  /\ Follows(buckets'[k], admitted'[k], clock)
               /\ \A t \in 0 .. MaxTime :
                     Cardinality(Inside(admitted'[k], t)) <= Limit(k)
    <3>1. /\ Follows(buckets[k], admitted[k], clock)
          /\ \A t \in 0 .. MaxTime : Cardinality(Inside(admitted[k], t)) <= Limit(k)
      BY DEF RatesOK, RateBound, Inside, Limit
    <3>2. Follows(Trimmed(k), admitted[k], clock)
      <4>1. PICK n \in 0 .. Len(buckets[k]) :
               /\ Trimmed(k) = SubSeq(buckets[k], n + 1, Len(buckets[k]))
               /\ \A i \in 1 .. n : buckets[k][i] < clock - Window
        BY <2>1, <3>1, TrimmedIsEnd DEF Follows
      <4> QED BY <2>1, <3>1, <4>1, EndFollows
    <3>3. CASE buckets'[k] = buckets[k] /\ admitted'[k] = admitted[k]
      BY <3>1, <3>3
    <3>4. CASE buckets'[k] = Trimmed(k) /\ admitted'[k] = admitted[k]
      BY <3>1, <3>2, <3>4
    <3>5. CASE /\ Len(Trimmed(k)) < Limit(k)
               /\ buckets'[k] = Append(Trimmed(k), clock)
               /\ admitted'[k] = Append(admitted[k], clock)
      <4>1. PICK b, h, limit : b = Trimmed(k) /\ h = admitted[k] /\ limit = Limit(k)
        OBVIOUS
      <4> limit \in Nat
        BY <4>1, AccessAssumption DEF Limit
      <4>2. Follows(Append(b, clock), Append(h, clock), clock)
        BY <2>1, <3>2, <4>1, AppendFollows
      <4>3. ASSUME NEW t \in 0 .. MaxTime
            PROVE  Cardinality(Inside(Append(h, clock), t)) <= limit
        BY <2>1, <3>1, <3>2, <3>5, <4>1, AppendBounded
      <4> QED BY <3>5, <4>1, <4>2, <4>3
    <3> QED BY <1>3, <3>3, <3>4, <3>5, ArriveCounts DEF Answered
  <2>3. RateBound'
    BY <2>2 DEF RateBound, Inside, Limit
  <2> QED BY <1>3, <2>1, <2>2, <2>3, ArriveCounts DEF RatesOK
<1>4. ASSUME NEW r \in Request, Login(r) \/ Mcp(r) \/ Admin(r)
      PROVE  UNCHANGED <<clock, buckets, admitted>>
  BY <1>4 DEF Login, LoginRead, LoginCommit, AdminLogin, Logout, Mcp, Authenticate,
              Stamp, Call, Raise, Log, LogFails, Work, Boundary, Admin, Get, Commit,
              CommitKey, AdminLog
<1>5. CASE UNCHANGED vars
  BY <1>1, <1>5 DEF vars
<1> QED BY <1>1, <1>2, <1>3, <1>4, <1>5 DEF Next

LEMMA InitRates == Init => RatesOK
<1> SUFFICES ASSUME Init PROVE RatesOK
  OBVIOUS
<1>1. /\ clock = 0 /\ buckets = [k \in Bucket |-> <<>>]
      /\ admitted = [k \in Bucket |-> <<>>] /\ 0 \in 0 .. MaxTime
  BY AccessAssumption DEF Init
<1>2. Follows(<<>>, <<>>, 0)
  <2>1. <<>> \in Seq(0 .. 0) /\ Len(<<>>) = 0
    BY EmptySeq
  <2> QED BY <2>1 DEF Follows
<1>3. RateBound
  <2>1. ASSUME NEW k \in Bucket, NEW t \in 0 .. MaxTime
        PROVE  Cardinality({i \in DOMAIN admitted[k] : admitted[k][i] \in t .. t + Window})
                  <= IF k \in IP THEN RateLimit ELSE LoginAttempts
    <3>1. {i \in DOMAIN admitted[k] : admitted[k][i] \in t .. t + Window} = {}
      <4>1. DOMAIN admitted[k] = {}
        BY <1>1, EmptySeq
      <4> QED BY <4>1
    <3>2. Cardinality({}) = 0
      BY FS_EmptySet
    <3> QED BY <3>1, <3>2, AccessAssumption
  <2> QED BY <2>1 DEF RateBound
<1> QED BY <1>1, <1>2, <1>3 DEF RatesOK

\* However the attempts fall, and whatever the limiter forgets, no closed
\* window ever sees more admissions than the limit: by address, and by login.
THEOREM RatesAreBounded == Spec => []RateBound
<1>1. RatesOK => RateBound
  BY DEF RatesOK
<1> QED BY <1>1, InitRates, RatesStep, PTL DEF Spec

-----------------------------------------------------------------------------
\* Types.  A login writes from the row as it was read: the rows that logins
\* carry are of the type of the row.

RowOK(row, now) ==
    /\ row = [failed |-> row.failed, lockedUntil |-> row.lockedUntil]
    /\ row.failed \in Nat /\ row.lockedUntil \in 0 .. now + LockTime

UserOK ==
    /\ clock \in Nat
    /\ RowOK(user, clock)
    /\ \A r \in Request : Reading(r) =>
          /\ RowOK(requests[r].seen.row, clock)
          /\ requests[r].seen.now \in 0 .. clock

LEMMA UserFrame ==
    ASSUME UserOK, NEW r \in Request, ~Reading(r)', UNCHANGED <<clock, user>>,
           \A q \in Request \ {r} : requests'[q] = requests[q]
    PROVE  UserOK'
  BY DEF UserOK, Reading, At

\* a failure adds one to the count it read and locks from the time it read
LEMMA FailedRowOK ==
    ASSUME NEW seen, NEW now \in Nat, RowOK(seen.row, now), seen.now \in 0 .. now
    PROVE  RowOK(FailedRow(seen), now)
<1> DEFINE n == seen.row.failed + 1
           until == IF n >= LoginAttempts THEN seen.now + LockTime
                    ELSE seen.row.lockedUntil
<1>1. FailedRow(seen) = [failed |-> n, lockedUntil |-> until]
  BY DEF FailedRow
<1>2. n \in Nat /\ until \in 0 .. now + LockTime
  BY AccessAssumption DEF RowOK
<1> HIDE DEF n, until
<1> QED BY <1>1, <1>2 DEF RowOK

LEMMA UserStep == Inv /\ UserOK /\ [Next]_vars => UserOK'
<1> SUFFICES ASSUME Inv, UserOK, [Next]_vars PROVE UserOK'
  OBVIOUS
<1>1. ASSUME NEW r \in Request, Mcp(r) \/ Admin(r) PROVE UserOK'
  <2>1. UNCHANGED <<clock, user>>
    BY <1>1 DEF Mcp, Authenticate, Stamp, Call, Raise, Log, LogFails, Work, Boundary,
                Admin, Get, Commit, CommitKey, AdminLog
  <2> QED BY <1>1, <2>1, NoneReads, UserFrame
<1>2. ASSUME NEW r \in Request, NEW ask \in Ask(r), Arrive(r, ask) PROVE UserOK'
  <2>1. PICK pc \in {ask.kind, "refused"} : requests' = [requests EXCEPT ![r] = Bare(pc, ask)]
    BY <1>2 DEF Arrive
  <2>2. pc # "login_commit" /\ UNCHANGED <<clock, user>>
    BY <1>2, AskAssumption DEF Arrive
  <2>3. ~Reading(r)' /\ \A q \in Request \ {r} : requests'[q] = requests[q]
    BY <2>1, <2>2 DEF Inv, RequestsOK, Bare, Reading, At
  <2> QED BY <2>2, <2>3, UserFrame
<1>3. ASSUME NEW r \in Request, NEW pc \in Over, Goes(r, pc)
      PROVE  ~Reading(r)' /\ \A q \in Request \ {r} : requests'[q] = requests[q]
  <2>0. requests'[r] = Bare(pc, requests[r].ask)
    BY <1>3, GoesRecord
  <2>1. requests'[r].pc = pc
    BY <2>0 DEF Bare
  <2>2. \A q \in Request \ {r} : requests'[q] = requests[q]
    BY <1>3, GoesRecord
  <2> QED BY <2>1, <2>2 DEF Reading, At, Over
<1>4. ASSUME NEW r \in Request, AdminLogin(r) \/ Logout(r) PROVE UserOK'
  <2>1. UNCHANGED <<clock, user>> /\ \E pc \in Over : Goes(r, pc)
    BY <1>4 DEF AdminLogin, Logout, Over
  <2> QED BY <1>3, <2>1, UserFrame
<1>5. ASSUME NEW r \in Request, LoginRead(r) PROVE UserOK'
  <2>1. PICK seen :
          /\ seen = [row |-> user, now |-> clock,
                     valid |-> Asked(r).good /\ user.lockedUntil <= clock]
          /\ requests' = [requests EXCEPT ![r].pc = "login_commit", ![r].seen = seen]
          /\ UNCHANGED <<clock, user>>
    BY <1>5 DEF LoginRead
  <2>2. seen.row = user /\ seen.now = clock
    BY <2>1
  <2>3. DOMAIN requests = Request /\ Whole(requests[r])
    BY DEF Inv, RequestsOK, Sound, Whole
  <2>4. requests'[r].seen = seen /\ \A q \in Request \ {r} : requests'[q] = requests[q]
    BY <2>1, <2>3 DEF Whole
  <2>5. RowOK(user, clock) /\ clock \in 0 .. clock
    BY DEF UserOK
  <2>6. ASSUME NEW q \in Request, Reading(q)'
        PROVE  RowOK(requests'[q].seen.row, clock) /\ requests'[q].seen.now \in 0 .. clock
    <3>1. CASE q = r
      BY <2>2, <2>4, <2>5, <3>1
    <3>2. CASE q # r
      BY <2>4, <2>6, <3>2 DEF UserOK, Reading, At
    <3> QED BY <3>1, <3>2
  <2> QED BY <2>1, <2>5, <2>6 DEF UserOK
<1>6. ASSUME NEW r \in Request, LoginCommit(r) PROVE UserOK'
  <2>1. PICK seen, new :
          /\ Reading(r) /\ seen = requests[r].seen
          /\ new = IF seen.valid THEN [failed |-> 0, lockedUntil |-> 0]
                   ELSE FailedRow(seen)
          /\ user' = [k \in DOMAIN user |->
                        IF new[k] # seen.row[k] THEN new[k] ELSE user[k]]
          /\ UNCHANGED clock /\ \E pc \in Over : Goes(r, pc)
    BY <1>6 DEF LoginCommit, Reading, Over
  <2>2. clock \in Nat /\ RowOK(seen.row, clock) /\ seen.now \in 0 .. clock
        /\ RowOK(user, clock)
    BY <2>1 DEF UserOK
  <2>3. RowOK(new, clock)
    <3>1. CASE seen.valid
      BY <2>1, <2>2, <3>1, AccessAssumption DEF RowOK
    <3>2. CASE ~seen.valid
      BY <2>1, <2>2, <3>2, FailedRowOK
    <3> QED BY <3>1, <3>2
  <2>4. RowOK(user', clock)
    <3>1. DOMAIN user = {"failed", "lockedUntil"}
      BY <2>2 DEF RowOK
    <3>2. /\ user' = [failed |-> user'.failed, lockedUntil |-> user'.lockedUntil]
          /\ user'.failed \in {new.failed, user.failed}
          /\ user'.lockedUntil \in {new.lockedUntil, user.lockedUntil}
      BY <2>1, <3>1
    <3> QED BY <2>2, <2>3, <3>2 DEF RowOK
  <2>5. ~Reading(r)' /\ \A q \in Request \ {r} : requests'[q] = requests[q]
    BY <1>3, <2>1
  <2> QED BY <2>1, <2>4, <2>5 DEF UserOK, Reading, At
<1>7. CASE UNCHANGED vars
  BY <1>7 DEF vars, UserOK, Reading, At
<1>8. CASE Tick
  <2>1. clock' = clock + 1 /\ UNCHANGED <<user, requests>> /\ clock \in Nat
    BY <1>8 DEF Tick, UserOK
  <2>2. \A row : RowOK(row, clock) => RowOK(row, clock + 1)
    BY <2>1, AccessAssumption DEF RowOK
  <2>3. 0 .. clock \subseteq 0 .. clock + 1
    BY <2>1
  <2> QED BY <2>1, <2>2, <2>3 DEF UserOK, Reading, At
<1> QED BY <1>1, <1>2, <1>4, <1>5, <1>6, <1>7, <1>8 DEF Next, Login

-----------------------------------------------------------------------------
\* Logged effects.  A request whose tool had its effect waits for its log or
\* is over; over and logged, its rows are there.

TraceOK ==
    /\ opLog \subseteq Request /\ audit \subseteq Request
    /\ \A p \in performed :
         /\ p.req \in Request /\ p.tool = requests[p.req].ask.tool
         /\ requests[p.req].pc \in {"log", "done", "unlogged"}
         /\ At(p.req, "done") =>
              /\ Executed(p.tool) => p.req \in opLog
              /\ p.tool \in SENSITIVE => p.req \in audit
    /\ \A r \in Request :
         At(r, "done") /\ Asked(r).kind = "admin" => r \in audit
    /\ \A r \in Request :
         requests[r].pc \in {"login", "login_commit", "admin_login", "logout"} =>
            Asked(r).kind # "admin"

MovesTo(r, pc) ==
    /\ requests'[r].pc = pc /\ requests'[r].ask = requests[r].ask
    /\ \A q \in Request \ {r} : requests'[q] = requests[q]

LEMMA GoesMoves ==
    ASSUME Inv, NEW r \in Request, NEW pc, Goes(r, pc) PROVE MovesTo(r, pc)
<1> DEFINE q == requests[r]
<1>0. \A p \in Request \ {r} : requests'[p] = requests[p]
  BY GoesRecord
<1>1. CASE pc \in Over
  <2>1. requests'[r] = Bare(pc, q.ask)
    BY <1>1, GoesRecord
  <2>2. requests'[r].pc = pc /\ requests'[r].ask = q.ask
    BY <2>1 DEF Bare
  <2> QED BY <1>0, <2>2 DEF MovesTo
<1>2. CASE pc \notin Over
  <2>1. requests'[r] = [q EXCEPT !.pc = pc]
    BY <1>2, GoesRecord
  <2>2. Whole(q)
    BY DEF Inv, RequestsOK, Sound, Whole
  <2>3. requests'[r] = [pc |-> pc, ask |-> q.ask, seen |-> q.seen,
                        permissions |-> q.permissions,
                        account |-> q.account, success |-> q.success]
    BY <2>1, <2>2, OneField
  <2>4. requests'[r].pc = pc /\ requests'[r].ask = q.ask
    BY <2>3
  <2> QED BY <1>0, <2>4 DEF MovesTo
<1> QED BY <1>1, <1>2

LEMMA SetsMoves ==
    ASSUME Inv, NEW r \in Request, NEW pc, NEW v,
           \/ requests' = [requests EXCEPT ![r].success = v, ![r].pc = pc]
           \/ requests' = [requests EXCEPT ![r].account = v, ![r].pc = pc]
           \/ requests' = [requests EXCEPT ![r].pc = pc, ![r].seen = v]
           \/ requests' = [[requests EXCEPT ![r].permissions = v] EXCEPT ![r].pc = pc]
    PROVE  MovesTo(r, pc)
<1>1. DOMAIN requests = Request /\ Whole(requests[r])
  BY DEF Inv, RequestsOK, Sound, Whole
<1> QED BY <1>1 DEF MovesTo, Whole

\* a request that has not had its effect moves on, and leaves no trace undone
LEMMA TraceFrame ==
    ASSUME Inv, TraceOK, NEW r \in Request, NEW pc, MovesTo(r, pc),
           requests[r].pc \notin {"log", "done", "unlogged"},
           opLog' = opLog, performed' = performed,
           audit' = audit \/ audit' = audit \cup {r},
           pc = "done" /\ Asked(r).kind = "admin" => r \in audit',
           pc \in {"login", "login_commit", "admin_login", "logout"} =>
              Asked(r).kind # "admin"
    PROVE  TraceOK'
  BY DEF TraceOK, MovesTo, At, Asked

LEMMA LoginTrace ==
    ASSUME Inv, TraceOK, NEW r \in Request, Login(r) PROVE TraceOK'
<1>1. UNCHANGED <<opLog, audit, performed>>
      /\ requests[r].pc \in {"login", "login_commit", "admin_login", "logout"}
  BY DEF Login, LoginRead, LoginCommit, AdminLogin, Logout, At
<1>2. Asked(r).kind # "admin"
  BY <1>1 DEF TraceOK
<1>3. \E pc : MovesTo(r, pc)
  <2>1. CASE LoginRead(r)
    <3>1. \E v : requests' = [requests EXCEPT ![r].pc = "login_commit", ![r].seen = v]
      BY <2>1 DEF LoginRead
    <3> QED BY <3>1, SetsMoves
  <2>2. CASE LoginCommit(r) \/ AdminLogin(r) \/ Logout(r)
    <3>1. \E pc \in {"done", "refused"} : Goes(r, pc)
      BY <2>2 DEF LoginCommit, AdminLogin, Logout
    <3> QED BY <3>1, GoesMoves
  <2> QED BY <2>1, <2>2 DEF Login
<1> QED BY <1>1, <1>2, <1>3, TraceFrame

\* a request whose tool has its effect goes to its log, if it has one
LEMMA PerformTrace ==
    ASSUME Inv, TraceOK, NEW r \in Request, NEW pc, MovesTo(r, pc), Performs(r),
           requests[r].pc \in {"work", "commit"}, Asked(r).kind = "mcp",
           \/ pc = "log"
           \/ pc = "done" /\ ~Executed(Asked(r).tool) /\ ~RunsUnderHA(Asked(r).tool),
           UNCHANGED <<opLog, audit>>
    PROVE  TraceOK'
<1> DEFINE new == [req |-> r, tool |-> Asked(r).tool, credential |-> Asked(r).credential]
<1>1. performed' = performed \cup {new} /\ new.req = r /\ new.tool = Asked(r).tool
  BY DEF Performs
<1> HIDE DEF new
<1>2. pc = "done" => ~Executed(Asked(r).tool) /\ Asked(r).tool \notin SENSITIVE
  BY SensitiveAreLogged
<1> QED BY <1>1, <1>2 DEF TraceOK, MovesTo, At, Asked

LEMMA McpTrace ==
    ASSUME Inv, TraceOK, NEW r \in Request, Mcp(r) PROVE TraceOK'
<1>0. Sound(r, requests[r])
  BY DEF Inv, RequestsOK
<1>1. CASE Authenticate(r) \/ Stamp(r) \/ Call(r) \/ Raise(r)
           \/ \E parsed \in BOOLEAN : Boundary(r, parsed)
  <2>1. UNCHANGED <<opLog, audit, performed>>
        /\ requests[r].pc \in {"mcp", "stamp", "boundary", "call", "work"}
    BY <1>1 DEF Authenticate, Stamp, Call, Raise, Boundary, At
  <2>2. Asked(r).kind = "mcp"
    BY <1>0, <2>1 DEF Sound, Asked
  <2>3. \E pc : MovesTo(r, pc)
    <3>1. CASE Stamp(r) \/ Raise(r) \/ \E parsed \in BOOLEAN : Boundary(r, parsed)
      <4>1. \E pc : Goes(r, pc)
        BY <3>1 DEF Stamp, Raise, Boundary
      <4> QED BY <4>1, GoesMoves
    <3>2. CASE Authenticate(r)
      <4>1. \E pc, v : requests' = [[requests EXCEPT ![r].permissions = v]
                                       EXCEPT ![r].pc = pc]
        <5>1. PICK pc \in {"refused", "stamp", "boundary"},
                   v \in {PermissionsOf(Asked(r).credential)} :
                 requests' = [[requests EXCEPT ![r].permissions = v] EXCEPT ![r].pc = pc]
          BY <3>2 DEF Authenticate, Context
        <5> QED BY <5>1
      <4> QED BY <4>1, SetsMoves
    <3>3. CASE Call(r)
      <4>1. \E pc, v : requests' = [requests EXCEPT ![r].account = v, ![r].pc = pc]
        BY <3>3 DEF Call
      <4> QED BY <4>1, SetsMoves
    <3> QED BY <1>1, <3>1, <3>2, <3>3
  <2> QED BY <2>1, <2>2, <2>3, TraceFrame
<1>2. ASSUME NEW success \in BOOLEAN, Work(r, success) PROVE TraceOK'
  <2>1. PICK pc : pc = Afterwards(Asked(r).tool)
    OBVIOUS
  <2>2. MovesTo(r, pc)
    BY <1>2, <2>1, SetsMoves DEF Work
  <2>3. /\ Performs(r) /\ requests[r].pc = "work" /\ UNCHANGED <<opLog, audit>>
    BY <1>2 DEF Work, At
  <2>4. Asked(r).kind = "mcp"
    BY <1>0, <2>3 DEF Sound, Asked
  <2>5. \/ pc = "log"
        \/ pc = "done" /\ ~Executed(Asked(r).tool) /\ ~RunsUnderHA(Asked(r).tool)
    BY <2>1 DEF Afterwards
  <2> QED BY <2>2, <2>3, <2>4, <2>5, PerformTrace
<1>3. CASE Log(r)
  <2>1. MovesTo(r, "done")
    BY <1>3, GoesMoves DEF Log
  <2>2. /\ requests[r].pc = "log" /\ performed' = performed
        /\ opLog' = IF Executed(Asked(r).tool) THEN opLog \cup {r} ELSE opLog
        /\ audit' = IF Audited(r) THEN audit \cup {r} ELSE audit
    BY <1>3 DEF Log, At
  <2>3. Asked(r).kind = "mcp"
    BY <1>0, <2>2 DEF Sound, Asked
  <2>4. Asked(r).tool \in SENSITIVE => r \in audit'
    BY <2>2 DEF Audited
  <2>5. Executed(Asked(r).tool) => r \in opLog'
    BY <2>2
  <2>6. /\ opLog \subseteq opLog' /\ opLog' \subseteq Request
        /\ audit \subseteq audit' /\ audit' \subseteq Request
    BY <2>2 DEF TraceOK
  <2> QED BY <2>1, <2>2, <2>3, <2>4, <2>5, <2>6 DEF TraceOK, MovesTo, At, Asked
<1>4. CASE LogFails(r)
  <2>1. MovesTo(r, "unlogged") /\ UNCHANGED <<opLog, audit, performed>>
    BY <1>4, GoesMoves DEF LogFails
  <2> QED BY <2>1 DEF TraceOK, MovesTo, At, Asked
<1> QED BY <1>1, <1>2, <1>3, <1>4 DEF Mcp

LEMMA AdminTrace ==
    ASSUME Inv, TraceOK, NEW r \in Request, Admin(r) PROVE TraceOK'
<1>0. Sound(r, requests[r])
  BY DEF Inv, RequestsOK
<1>1. CASE Get(r)
  <2>0. PICK account : account = IF Asked(r).kind = "mcp" THEN requests[r].account
                                 ELSE Asked(r).account
    OBVIOUS
  <2>1. PICK pc \in {"commit", "log", "refused"},
             seen \in {IF account = None THEN None ELSE accounts[account]} :
          requests' = [requests EXCEPT ![r].account = account, ![r].seen = seen,
                                       ![r].pc = pc]
    BY <1>1, <2>0 DEF Get
  <2>2. DOMAIN requests = Request /\ Whole(requests[r])
    BY DEF Inv, RequestsOK, Sound, Whole
  <2>3. requests' = [requests EXCEPT ![r] = Located(requests[r], account, seen, pc)]
    BY <2>1, <2>2 DEF Located
  <2>4. /\ Located(requests[r], account, seen, pc).pc = pc
        /\ Located(requests[r], account, seen, pc).ask = requests[r].ask
    BY <2>2, PcAccountAndSeen
  <2>5. MovesTo(r, pc)
    BY <2>2, <2>3, <2>4 DEF MovesTo
  <2>6. UNCHANGED <<opLog, audit, performed>> /\ requests[r].pc \in {"get", "admin"}
    BY <1>1 DEF Get, At
  <2> QED BY <2>1, <2>5, <2>6, TraceFrame
<1>2. CASE Commit(r)
  <2>1. requests[r].pc = "commit" /\ UNCHANGED <<opLog, audit>>
    BY <1>2 DEF Commit, At
  <2>2. CASE Written(r) = None
    <3>1. PICK pc \in {"log", "refused"} : Goes(r, pc)
      BY <1>2, <2>2 DEF Commit
    <3>2. performed' = performed
      BY <1>2, <2>2 DEF Commit
    <3> QED BY <2>1, <3>1, <3>2, GoesMoves, TraceFrame
  <2>3. CASE Written(r) # None
    <3>1. PICK pc : /\ pc = IF Asked(r).kind = "mcp" THEN "log" ELSE "admin_log"
                    /\ requests' = [requests EXCEPT ![r].success = TRUE, ![r].pc = pc]
      BY <1>2, <2>3 DEF Commit
    <3>2. MovesTo(r, pc)
      BY <3>1, SetsMoves
    <3>3. IF Asked(r).kind = "mcp" THEN Performs(r) ELSE UNCHANGED performed
      BY <1>2, <2>3 DEF Commit
    <3>4. CASE Asked(r).kind = "mcp"
      BY <2>1, <3>1, <3>2, <3>3, <3>4, PerformTrace
    <3>5. CASE Asked(r).kind # "mcp"
      BY <2>1, <3>1, <3>2, <3>3, <3>5, TraceFrame
    <3> QED BY <3>4, <3>5
  <2> QED BY <2>2, <2>3
<1>3. CASE CommitKey(r)
  <2>1. PICK success \in BOOLEAN, pc \in {"admin_log", "refused"} :
          requests' = [requests EXCEPT ![r].success = success, ![r].pc = pc]
    BY <1>3 DEF CommitKey
  <2>2. requests[r].pc = "commit" /\ UNCHANGED <<opLog, audit, performed>>
    BY <1>3 DEF CommitKey, At
  <2> QED BY <2>1, <2>2, SetsMoves, TraceFrame
<1>4. ASSUME NEW committed \in BOOLEAN, AdminLog(r, committed) PROVE TraceOK'
  <2>1. /\ requests[r].pc = "admin_log" /\ UNCHANGED <<opLog, performed>>
        /\ audit' = IF committed THEN audit \cup {r} ELSE audit
    BY <1>4 DEF AdminLog, At
  <2>2. PICK pc \in {"done", "refused"} : Goes(r, pc) /\ (pc = "done" => committed)
    BY <1>4 DEF AdminLog
  <2>3. MovesTo(r, pc)
    BY <2>2, GoesMoves
  <2>4. pc = "done" => r \in audit'
    BY <2>1, <2>2
  <2> QED BY <2>1, <2>2, <2>3, <2>4, TraceFrame
<1> QED BY <1>1, <1>2, <1>3, <1>4 DEF Admin

LEMMA ArriveTrace ==
    ASSUME Inv, TraceOK, NEW r \in Request, NEW ask \in Ask(r), Arrive(r, ask)
    PROVE  TraceOK'
<1>1. PICK pc \in {ask.kind, "refused"} : requests' = [requests EXCEPT ![r] = Bare(pc, ask)]
  BY DEF Arrive
<1>2. requests[r].pc = "idle" /\ UNCHANGED <<opLog, audit, performed>>
  BY DEF Arrive, At
<1>3. /\ requests'[r].pc = pc /\ requests'[r].ask = ask
      /\ \A q \in Request \ {r} : requests'[q] = requests[q]
  BY <1>1 DEF Inv, RequestsOK, Bare
<1>4. pc # "done" /\ (pc \in {"login", "login_commit", "admin_login", "logout"} =>
                         ask.kind # "admin")
  BY AskAssumption
<1> QED BY <1>2, <1>3, <1>4 DEF TraceOK, At, Asked

LEMMA TraceStep == Inv /\ TraceOK /\ [Next]_vars => TraceOK'
<1>1. ASSUME TraceOK, Tick \/ UNCHANGED vars PROVE TraceOK'
  BY <1>1 DEF Tick, vars, TraceOK, At, Asked
<1> QED BY <1>1, ArriveTrace, LoginTrace, McpTrace, AdminTrace DEF Next

LEMMA InitRest == Init => UserOK /\ TraceOK
<1> SUFFICES ASSUME Init PROVE UserOK /\ TraceOK
  OBVIOUS
<1>1. UserOK
  BY AccessAssumption DEF Init, UserOK, RowOK, Reading, At, Idle, Bare
<1>2. TraceOK
  BY DEF Init, TraceOK, At, Asked, Idle, Bare
<1> QED BY <1>1, <1>2

\* Whatever fails or is raised after it, an effect of a request that has been
\* answered has its row in the log its tool has, unless that log failed.
THEOREM EffectsLeaveATrace == Spec => []EffectsAreLogged
<1>1. TraceOK => EffectsAreLogged
  BY DEF TraceOK, EffectsAreLogged
<1> QED BY <1>1, InitInv, StepInv, InitRest, TraceStep, PTL DEF Spec

\* The tables, the row of the user, the limiter and the logs keep their types.
THEOREM TypeCorrect == Spec => []TypeOK
<1>1. Inv /\ RatesOK /\ UserOK /\ TraceOK => TypeOK
  <2> SUFFICES ASSUME Inv, RatesOK, UserOK, TraceOK PROVE TypeOK
    OBVIOUS
  <2>1. ASSUME NEW k \in Bucket, NEW i \in DOMAIN buckets[k]
        PROVE  buckets[k][i] \in 0 .. clock
    <3>1. buckets[k] \in Seq(0 .. clock)
      BY DEF RatesOK, Follows
    <3>2. buckets[k] \in [1 .. Len(buckets[k]) -> 0 .. clock]
      BY <3>1, LenProperties
    <3> QED BY <3>2
  <2> QED BY <2>1 DEF TypeOK, Inv, TablesOK, RatesOK, UserOK, RowOK, TraceOK
<1> QED BY <1>1, InitInv, StepInv, InitRates, RatesStep, InitRest, UserStep,
           TraceStep, PTL DEF Spec
=============================================================================
