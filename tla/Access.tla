-------------------------------- MODULE Access --------------------------------
(***************************************************************************)
(* From an HTTP request to a logged effect: the limiter and the MCP        *)
(* boundary of app/middleware.py, authenticate_mcp and the sliding window  *)
(* of app/auth.py, the two logins (app/oauth.py, app/routers/admin.py),    *)
(* execute and the wrappers of app/mcp_server.py, and the administration   *)
(* of accounts and API keys.                                               *)
(*                                                                         *)
(* One user, whose password a login has or has not; a request is used      *)
(* once.  Time is counted in parts of the limiter's window.  The code      *)
(* between two awaits is one step; a commit is a step of its own.          *)
(***************************************************************************)
EXTENDS Integers, Sequences, FiniteSets, Permissions, MailAccounts

CONSTANTS
    Request,        \* the requests of a behaviour
    Ask(_),         \* what each may ask (see the records of MCAccess)
    InitialAccounts, \* the tables of accounts to start from
    IP,
    RateLimit, Window,          \* rate_limit_per_minute, 60 s
    LoginAttempts, LockTime,    \* oauth_login_attempts, oauth_login_lock_minutes
    Settings,
    ApiKey, KeyPermissions,     \* the database keys that may exist
    TokenScope,                 \* the scopes of a valid access token
    MaxTime

\* the limiter's keys: every request has one by its address, a login another
LoginKey(ip) == <<"oauth-login", ip>>
Bucket == IP \cup {LoginKey(ip) : ip \in IP}

ASSUME AccessAssumption ==
    /\ {RateLimit, Window, LoginAttempts, LockTime, MaxTime} \subseteq Nat
    /\ Settings \in Setting
    /\ KeyPermissions \in [ApiKey -> SUBSET PERMISSIONS]
    /\ TokenScope \subseteq PERMISSIONS
    /\ InitialAccounts \subseteq [Account -> Row \cup {None}]
    /\ \A rows \in InitialAccounts : \A a, b \in Defaults(rows) : a = b

\* a tool that is called does one account operation at most; a route has the
\* name of an account in its path, and its body is validated; no address reads
\* as a login's key
ASSUME AskAssumption ==
    /\ {"static", "oauth"} \cap ApiKey = {} /\ None \notin Account \cup Row
    /\ IP \cap {LoginKey(ip) : ip \in IP} = {}
    /\ \A r \in Request : \A ask \in Ask(r) :
         /\ ask.ip \in IP
         /\ ask.kind \in {"login", "admin_login", "logout", "mcp", "admin"}
         /\ ask.kind = "mcp" => /\ ask.op \in {"set_default", "none"}
                               /\ ask.account \in Account \cup {None}
         /\ ask.kind = "admin" /\ ask.op \in {"add_key", "remove_key"} =>
               ask.key \in ApiKey
         /\ ask.kind = "admin" /\ ask.op \notin {"add_key", "remove_key"} =>
               /\ ask.account \in Account
               /\ ask.op = "create" => ask.payload \in Row
               /\ ask.op = "update" =>
                     ask.payload \in UNION {[columns -> BOOLEAN] :
                                     columns \in SUBSET {"enabled", "default"}}

VARIABLES
    clock,
    buckets,    \* the limiter: key -> times
    user,       \* the OAuthUser row: [failed, lockedUntil]
    keys,       \* the api_keys rows
    session,    \* the browser holds an administration session
    requests,   \* [pc, ask, seen, permissions, account, success]
    opLog,      \* OperationLog rows: the requests that have one
    audit,      \* AuditLog rows, and the lines of the Home Assistant wrapper
    admitted,   \* history: key -> the times the limiter let through
    performed,  \* history: [req, tool, credential] of the effects
    guesses     \* history: [failures, last, tangled] since the last success

vars == <<clock, buckets, user, keys, session, accounts, requests, opLog,
          audit, admitted, performed, guesses>>

-----------------------------------------------------------------------------
\* SlidingWindowLimiter.allow

\* entries strictly older than the window leave, up to the first that is not
Trimmed(key) ==
    LET times == buckets[key]
        recent == {i \in DOMAIN times : times[i] >= clock - Window}
        first == CHOOSE i \in recent : \A j \in recent : i <= j
    IN IF recent = {} THEN <<>> ELSE SubSeq(times, first, Len(times))

\* Mutant: one too many
AllowsOneMore(key, limit) == Len(Trimmed(key)) <= limit

Allows(key, limit) == Len(Trimmed(key)) < limit

\* the buckets after a call; a refused attempt is not counted
Counted(b, key, limit) ==
    [b EXCEPT ![key] = IF Allows(key, limit) THEN Append(Trimmed(key), clock)
                       ELSE Trimmed(key)]

Noted(key, limit, h) ==
    IF Allows(key, limit) THEN [h EXCEPT ![key] = Append(@, clock)] ELSE h

-----------------------------------------------------------------------------
\* a request that carries nothing but what it asked
Bare(pc, ask) == [pc |-> pc, ask |-> ask, seen |-> None, permissions |-> {},
                  account |-> None, success |-> FALSE]

Idle == Bare("idle", None)

Init ==
    /\ clock = 0
    /\ buckets = [k \in Bucket |-> <<>>] /\ admitted = [k \in Bucket |-> <<>>]
    /\ user = [failed |-> 0, lockedUntil |-> 0]
    /\ keys = ApiKey
    /\ session = TRUE
    /\ accounts \in InitialAccounts
    /\ requests = [r \in Request |-> Idle]
    /\ opLog = {} /\ audit = {} /\ performed = {}
    /\ guesses = [failures |-> 0, last |-> 0, tangled |-> FALSE]

Tick == /\ clock < MaxTime /\ clock' = clock + 1
        /\ UNCHANGED <<buckets, user, keys, session, accounts, requests, opLog,
                       audit, admitted, performed, guesses>>

Over == {"done", "refused", "unlogged"}

\* a request that is over keeps what it asked
Goes(r, pc) ==
    requests' = [requests EXCEPT ![r] =
        IF pc \in Over THEN Bare(pc, requests[r].ask)
        ELSE [@ EXCEPT !.pc = pc]]
At(r, pc) == requests[r].pc = pc
Asked(r) == requests[r].ask

\* the CSRF cookie and header, then require_admin
HasSession(ask) == ask.kind = "admin" => session

\* SecurityMiddleware.__call__: the limiter comes first, then the MCP
\* credential or the CSRF cookie; a login has a limiter of its own
Arrive(r, ask) ==
    /\ At(r, "idle")
    /\ LET limited == ask.kind = "login"
           key == LoginKey(ask.ip)
           passes == Allows(ask.ip, RateLimit)
           enters == passes /\ (limited => Allows(key, LoginAttempts))
       IN /\ buckets' = LET b == Counted(buckets, ask.ip, RateLimit)
                        IN IF passes /\ limited THEN Counted(b, key, LoginAttempts)
                           ELSE b
          /\ admitted' = LET h == Noted(ask.ip, RateLimit, admitted)
                         IN IF passes /\ limited THEN Noted(key, LoginAttempts, h)
                            ELSE h
          /\ requests' = [requests EXCEPT ![r] =
               Bare(IF enters /\ HasSession(ask) THEN ask.kind ELSE "refused", ask)]
    /\ UNCHANGED <<clock, user, keys, session, accounts, opLog, audit,
                   performed, guesses>>

-----------------------------------------------------------------------------
\* oauth_login

Reading(r) == At(r, "login_commit")

\* the row is read and judged at once; a locked account skips the password
LoginRead(r) ==
    /\ At(r, "login")
    /\ requests' = [requests EXCEPT ![r].pc = "login_commit", ![r].seen =
         [row |-> user, now |-> clock,
          valid |-> Asked(r).good /\ user.lockedUntil <= clock]]
    /\ guesses' = [guesses EXCEPT !.tangled = @ \/ \E q \in Request \ {r} : Reading(q)]
    /\ UNCHANGED <<clock, buckets, user, keys, session, accounts, opLog, audit,
                   admitted, performed>>

\* Mutant: a locked account's failures are not counted
FailedRowUnlessLocked(seen) ==
    IF seen.row.lockedUntil > seen.now THEN seen.row
    ELSE LET n == seen.row.failed + 1
         IN [failed |-> n,
             lockedUntil |-> IF n >= LoginAttempts THEN seen.now + LockTime
                             ELSE seen.row.lockedUntil]

\* Mutant: a failure lengthens the lock that runs
FailedRowLonger(seen) ==
    LET n == seen.row.failed + 1
    IN [failed |-> n,
        lockedUntil |-> IF n >= LoginAttempts
                        THEN LockTime + IF seen.row.lockedUntil > seen.now
                                        THEN seen.row.lockedUntil ELSE seen.now
                        ELSE seen.row.lockedUntil]

FailedRow(seen) ==
    LET n == seen.row.failed + 1
    IN [failed |-> n,
        lockedUntil |-> IF n >= LoginAttempts THEN seen.now + LockTime
                        ELSE seen.row.lockedUntil]

\* only the columns that differ from the row as it was read are written
LoginCommit(r) ==
    LET seen == requests[r].seen
        new == IF seen.valid THEN [failed |-> 0, lockedUntil |-> 0]
               ELSE FailedRow(seen)
    IN /\ At(r, "login_commit")
       /\ user' = [k \in DOMAIN user |->
                     IF new[k] # seen.row[k] THEN new[k] ELSE user[k]]
       /\ guesses' = [guesses EXCEPT !.failures = IF seen.valid THEN 0 ELSE @ + 1,
                                     !.last = seen.now]
       /\ Goes(r, IF seen.valid THEN "done" ELSE "refused")
       /\ UNCHANGED <<clock, buckets, keys, session, accounts, opLog, audit,
                      admitted, performed>>

\* admin.login: the same user and password, neither lock nor count
AdminLogin(r) ==
    /\ At(r, "admin_login")
    /\ session' = (session \/ Asked(r).good)
    /\ Goes(r, IF Asked(r).good THEN "done" ELSE "refused")
    /\ UNCHANGED <<clock, buckets, user, keys, accounts, opLog, audit, admitted,
                   performed, guesses>>

Logout(r) ==
    /\ At(r, "logout") /\ session' = FALSE /\ Goes(r, "done")
    /\ UNCHANGED <<clock, buckets, user, keys, accounts, opLog, audit, admitted,
                   performed, guesses>>

-----------------------------------------------------------------------------
\* The MCP boundary

\* what authenticate_mcp returns for a credential; {} when it refuses
PermissionsOf(credential) ==
    CASE credential = "static" -> PERMISSIONS
      [] credential = "oauth"  -> TokenScope
      [] credential \in keys   -> KeyPermissions[credential]
      [] OTHER                 -> {}

\* Mutant: one variable for the process
SharedContext(r, permissions) ==
    [q \in Request |-> [requests[q] EXCEPT !.permissions = permissions]]

\* current_permissions is a ContextVar: each request has its own
Context(r, permissions) == [requests EXCEPT ![r].permissions = permissions]

\* a database key's last_used_at is committed before it is accepted
Authenticate(r) ==
    LET credential == Asked(r).credential
        permissions == PermissionsOf(credential)
    IN /\ At(r, "mcp")
       /\ requests' = [Context(r, permissions) EXCEPT ![r].pc =
            CASE permissions = {} -> "refused"
              [] permissions # {} /\ credential \in ApiKey -> "stamp"
              [] OTHER -> "boundary"]
       /\ UNCHANGED <<clock, buckets, user, keys, session, accounts, opLog,
                      audit, admitted, performed, guesses>>

\* a key removed meanwhile: the UPDATE matches no row, and is refused
Stamp(r) ==
    /\ At(r, "stamp")
    /\ Goes(r, IF Asked(r).credential \in keys THEN "boundary" ELSE "refused")
    /\ UNCHANGED <<clock, buckets, user, keys, session, accounts, opLog, audit,
                   admitted, performed, guesses>>

\* insufficient_scope; a body that is not one call is left to the tool's check
Boundary(r, parsed) ==
    LET required == ToolPermission[Asked(r).tool]
    IN /\ At(r, "boundary")
       /\ Goes(r, IF parsed /\ {required, "admin"} \cap requests[r].permissions = {}
                  THEN "refused" ELSE "call")
       /\ UNCHANGED <<clock, buckets, user, keys, session, accounts, opLog,
                      audit, admitted, performed, guesses>>

\* these open a private file under no wrapper: no account, no log row
PrivateFileTool == {"mail_parse_ubl_temporary_file", "document_get_info",
                    "document_read_pdf", "document_read_pdf_all",
                    "document_render_pdf_page"}

\* the tools that run under execute
Executed(tool) ==
    tool \in (UNION {MailTools[p] : p \in DOMAIN MailTools}) \ PrivateFileTool
RunsUnderHA(tool) ==
    ToolPermission[tool] \in {"homeassistant.control", "homeassistant.admin",
                              "homeassistant.delete"}

\* of the tools as they are declared: none that is sensitive runs unlogged
ASSUME SensitiveAreLogged == \A t \in SENSITIVE : Executed(t) \/ RunsUnderHA(t)

\* where a tool that failed or ended goes: execute and the Home Assistant
\* wrapper log, the others only answer
Afterwards(tool) == IF Executed(tool) \/ RunsUnderHA(tool) THEN "log" ELSE "done"

\* require_permission, then service_for (the account, refused when disabled)
Call(r) ==
    LET ask == Asked(r)
        granted == Permitted(ToolPermission[ask.tool], requests[r].permissions,
                             Settings)
        account == Found(ask.account)
        loaded == ask.tool = "list_accounts" \/ ~Executed(ask.tool)
                  \/ (account # None /\ accounts[account].enabled)
    IN /\ At(r, "call")
       /\ requests' = [requests EXCEPT ![r].account = account, ![r].pc =
            IF ~granted \/ ~loaded THEN Afterwards(ask.tool)
            ELSE IF ask.tool = "set_default_account" THEN "get" ELSE "work"]
       /\ UNCHANGED <<clock, buckets, user, keys, session, accounts, opLog,
                      audit, admitted, performed, guesses>>

Performs(r) ==
    performed' = performed \cup {[req |-> r, tool |-> Asked(r).tool,
                                  credential |-> Asked(r).credential]}

\* the tool has its effect; it may still raise after it
Work(r, success) ==
    /\ At(r, "work")
    /\ Performs(r)
    /\ requests' = [requests EXCEPT ![r].success = success,
                                    ![r].pc = Afterwards(Asked(r).tool)]
    /\ UNCHANGED <<clock, buckets, user, keys, session, accounts, opLog, audit,
                   admitted, guesses>>

\* the tool raises before its effect
Raise(r) ==
    /\ At(r, "work")
    /\ Goes(r, Afterwards(Asked(r).tool))
    /\ UNCHANGED <<clock, buckets, user, keys, session, accounts, opLog, audit,
                   admitted, performed, guesses>>

\* Mutant: only what is known to have succeeded is audited
AuditedSuccess(r) == requests[r].success /\ Asked(r).tool \in SENSITIVE

Audited(r) == RunsUnderHA(Asked(r).tool) \/ Asked(r).tool \in SENSITIVE

\* the log's commit; its failure is swallowed
Log(r) ==
    /\ At(r, "log")
    /\ opLog' = IF Executed(Asked(r).tool) THEN opLog \cup {r} ELSE opLog
    /\ audit' = IF Audited(r) THEN audit \cup {r} ELSE audit
    /\ Goes(r, "done")
    /\ UNCHANGED <<clock, buckets, user, keys, session, accounts, admitted,
                   performed, guesses>>

LogFails(r) ==
    /\ At(r, "log") /\ Goes(r, "unlogged")
    /\ UNCHANGED <<clock, buckets, user, keys, session, accounts, opLog, audit,
                   admitted, performed, guesses>>

-----------------------------------------------------------------------------
\* The accounts and the keys, by the administration routes and by
\* set_default_account

\* AccountRepository.get, or create's look at the name
Get(r) ==
    LET ask == Asked(r)
        a == IF ask.kind = "mcp" THEN requests[r].account ELSE ask.account
        refused == CASE ask.op = "create" -> Exists(a)
                     [] ask.op = "set_default" -> ~Exists(a) \/ ~accounts[a].enabled
                     [] ask.op \in {"update", "delete"} -> ~Exists(a)
                     [] ask.op = "remove_key" -> ask.key \notin keys
                     [] OTHER -> FALSE
    IN /\ At(r, "get") \/ At(r, "admin")
       /\ requests' = [requests EXCEPT ![r].account = a,
            ![r].seen = IF a = None THEN None ELSE accounts[a],
            ![r].pc = IF ~refused THEN "commit"
                      ELSE IF ask.kind = "mcp" THEN "log" ELSE "refused"]
       /\ UNCHANGED <<clock, buckets, user, keys, session, accounts, opLog,
                      audit, admitted, performed, guesses>>

\* the accounts after the transaction
Written(r) ==
    LET ask == Asked(r)
        a == requests[r].account
        seen == requests[r].seen
    IN CASE ask.op = "create"      -> Created(a, ask.payload)
         [] ask.op = "update"      -> Updated(a, seen, ask.payload)
         [] ask.op = "delete"      -> Deleted(a)
         [] ask.op = "set_default" -> MadeDefault(a, seen)

AccountOp == {"create", "update", "delete", "set_default"}

Commit(r) ==
    LET ask == Asked(r)
        fails == IF ask.kind = "mcp" THEN "log" ELSE "refused"
    IN /\ At(r, "commit") /\ ask.op \in AccountOp
       /\ IF Written(r) = None
          THEN Goes(r, fails) /\ UNCHANGED <<accounts, performed>>
          ELSE /\ accounts' = Written(r)
               /\ IF ask.kind = "mcp" THEN Performs(r) ELSE UNCHANGED performed
               /\ requests' = [requests EXCEPT ![r].success = TRUE, ![r].pc =
                    IF ask.kind = "mcp" THEN "log" ELSE "admin_log"]
       /\ UNCHANGED <<clock, buckets, user, keys, session, opLog, audit,
                      admitted, guesses>>

\* add_key (a new row; the name is unique) and remove_key (removed already:
\* the DELETE matches no row, which is only a warning)
CommitKey(r) ==
    LET ask == Asked(r)
        done == ask.op = "add_key" => ask.key \notin keys
    IN /\ At(r, "commit") /\ ask.op \in {"add_key", "remove_key"}
       /\ keys' = IF ask.op = "add_key" THEN keys \cup {ask.key}
                  ELSE keys \ {ask.key}
       /\ requests' = [requests EXCEPT ![r].success = done,
                         ![r].pc = IF done THEN "admin_log" ELSE "refused"]
       /\ UNCHANGED <<clock, buckets, user, session, accounts, opLog, audit,
                      admitted, performed, guesses>>

\* the row is read again, then record_admin_audit: a commit of its own.  The
\* caller sees either fail
AdminLog(r, committed) ==
    /\ At(r, "admin_log")
    /\ audit' = IF committed THEN audit \cup {r} ELSE audit
    /\ Goes(r, IF committed THEN "done" ELSE "refused")
    /\ UNCHANGED <<clock, buckets, user, keys, session, accounts, opLog,
                   admitted, performed, guesses>>

-----------------------------------------------------------------------------
Login(r) == LoginRead(r) \/ LoginCommit(r) \/ AdminLogin(r) \/ Logout(r)

Mcp(r) == \/ Authenticate(r) \/ Stamp(r) \/ Call(r) \/ Raise(r) \/ Log(r)
          \/ LogFails(r)
          \/ \E success \in BOOLEAN : Work(r, success)
          \/ \E parsed \in BOOLEAN : Boundary(r, parsed)

Admin(r) == \/ Get(r) \/ Commit(r) \/ CommitKey(r)
            \/ \E committed \in BOOLEAN : AdminLog(r, committed)

Next == \/ Tick
        \/ \E r \in Request : \E ask \in Ask(r) : Arrive(r, ask)
        \/ \E r \in Request : Login(r) \/ Mcp(r) \/ Admin(r)

Spec == Init /\ [][Next]_vars

-----------------------------------------------------------------------------
TypeOK ==
    /\ clock \in 0 .. MaxTime
    /\ accounts \in [Account -> Row \cup {None}]
    /\ keys \subseteq ApiKey
    /\ user.failed \in Nat /\ user.lockedUntil \in 0 .. clock + LockTime
    /\ \A k \in Bucket : \A i \in DOMAIN buckets[k] : buckets[k][i] \in 0 .. clock
    /\ opLog \subseteq Request /\ audit \subseteq Request

\* In any closed window the limiter lets at most the limit through, per address
\* and per login, however the refused attempts fall.
RateBound ==
    \A k \in Bucket, t \in 0 .. MaxTime :
        Cardinality({i \in DOMAIN admitted[k] : admitted[k][i] \in t .. t + Window})
            <= IF k \in IP THEN RateLimit ELSE LoginAttempts

\* Unless two logins overlapped, the row counts the failures since the last
\* success and, from LoginAttempts on, every failure starts the lock anew: the
\* failures are counted while locked, and after the lock ends.
LockFollowsFailures ==
    ~guesses.tangled =>
        /\ user.failed = guesses.failures
        /\ guesses.failures >= LoginAttempts =>
             user.lockedUntil = guesses.last + LockTime

\* An effect is one its credential grants, under the switches, whichever other
\* requests the server handles meanwhile.
EffectsAreGranted ==
    \A p \in performed :
        LET granted == CASE p.credential = "static" -> PERMISSIONS
                         [] p.credential = "oauth"  -> TokenScope
                         [] OTHER -> KeyPermissions[p.credential]
        IN Permitted(ToolPermission[p.tool], granted, Settings)

\* A request that is over has left its trace: every effect of a tool that runs
\* under execute a log row, every sensitive effect (of Home Assistant too) and
\* every change by the administration an audit row, unless the log itself could
\* not be written.
EffectsAreLogged ==
    /\ \A p \in performed : At(p.req, "done") =>
         /\ Executed(p.tool) => p.req \in opLog
         /\ p.tool \in SENSITIVE => p.req \in audit
    /\ \A r \in Request :
         At(r, "done") /\ Asked(r).kind = "admin" => r \in audit

\* The default account is lost only when a request deletes it or takes the flag
\* off, or by an update whose row had changed since it was read.
DefaultKept ==
    [][Defaults(accounts) # {} /\ Defaults(accounts)' = {} =>
         \E r \in Request :
            /\ requests[r].pc = "commit" /\ requests'[r].pc # "commit"
            /\ \/ Asked(r).op = "delete"
               \/ /\ Asked(r).op = "update"
                  /\ \/ "default" \in DOMAIN Asked(r).payload
                        /\ ~Asked(r).payload["default"]
                     \/ requests[r].seen # accounts[requests[r].account]]_vars
=============================================================================
