----------------------------- MODULE OAuthToken -----------------------------
(***************************************************************************)
(* The OAuth authorization server of app/oauth.py with the two admin       *)
(* revocations of app/routers/admin.py: consent, code exchange, refresh    *)
(* rotation with reuse detection, revocation and access-token validation.  *)
(*                                                                         *)
(* The handlers are asyncio coroutines over one database.  Each action is  *)
(* the code between two awaits that touch the database: a SELECT reads the *)
(* latest committed rows, and everything a request wrote becomes visible   *)
(* at once at its commit (SQLite, the default, serialises the writers).    *)
(* The ORM writes only the columns a handler changed and never compares    *)
(* them with the database, so what a handler read earlier may be stale.    *)
(***************************************************************************)
EXTENDS Naturals

CONSTANTS
    Client,         \* registered clients (oauth_clients rows)
    Scope,          \* the scopes of SCOPES the instance distinguishes
    OfflineAccess,  \* the scope that asks for a refresh token
    AllowedScopes,  \* client -> the scopes it registered with
    Code, Session, Token, Jti,  \* pools of row identifiers (bounds)
    Forms,          \* which forms are submitted, a subset of Proof (bound)
    Request,        \* requests in flight at the same time (bound)
    CodeTTL, SessionTTL, AccessTTL, FormTTL, \* lifetimes, in clock ticks
    MaxTime,        \* last clock value (bound)
    None            \* NULL

ASSUME ConstantsAssumption ==
    /\ OfflineAccess \in Scope
    /\ AllowedScopes \in [Client -> SUBSET Scope]
    /\ Forms \subseteq {"full", "noSecret", "noVerifier"}
    /\ {CodeTTL, SessionTTL, AccessTTL, FormTTL, MaxTime} \subseteq Nat
    /\ Code \cap Token = {}
    /\ None \notin Client \cup Code \cup Session \cup Token \cup Jti

VARIABLES
    now,            \* the wall clock
    form,           \* the consent form of the browser (its signed request)
    clientRevoked,  \* clients with revoked_at set
    codes, sessions, tokens,   \* the three tables
    revokedJti,     \* oauth_revoked_tokens
    audit,          \* audit_logs, the events of this module
    held,           \* codes and refresh tokens a reply handed to the client
    access,         \* access tokens a reply handed to the client (signed JWTs)
    reqs            \* the coroutine of every request in flight

db   == <<clientRevoked, codes, sessions, tokens, revokedJti>>
vars == <<now, form, db, audit, held, access, reqs>>

NoForm    == [client |-> None, scopes |-> {}, at |-> 0]
NoCode    == [client |-> None, scopes |-> {}, expires |-> 0, used |-> FALSE]
NoSession == [client |-> None, code |-> None, scopes |-> {}, expires |-> 0,
              revoked |-> FALSE]
NoToken   == [session |-> None, family |-> None, expires |-> 0,
              used |-> FALSE, revoked |-> FALSE]
NoAccess  == [client |-> None, session |-> None, scopes |-> {}, expires |-> 0]

(***************************************************************************)
(* A coroutine.  Its fields are the form it was sent, and the values it    *)
(* read and still uses: sid, seen (session.scopes) and old (its token).    *)
(* scopes is what the reply will grant.  late is a history field: what the *)
(* request presents was already spent or revoked when the request began.   *)
(***************************************************************************)
Idle == [kind |-> "none", pc |-> "idle", client |-> None, code |-> None,
         token |-> None, jti |-> None, proof |-> "full", sid |-> None,
         scopes |-> {}, seen |-> {}, old |-> "fresh", minted |-> None,
         event |-> "none", late |-> FALSE]

Kind  == {"none", "decide", "exchange", "refresh", "revoke", "validate",
          "adminClient", "adminSession"}
Pc    == {"idle", "client", "code", "jti", "token", "session", "commit", "audit",
          "respond"}
Event == {"none", "consent.denied", "consent.granted", "token.issued",
          "token.refreshed", "reuse_detected", "session.revoked",
          "client.revoked"}
\* what of a form is right: all of it, not the client secret, not the PKCE
\* verifier, redirect URI or resource
Proof == {"full", "noSecret", "noVerifier"}

\* what the checks tell apart in a refresh token they read
TokenStatus == {"fresh", "used", "revoked"}
Status(t) == IF t.revoked THEN "revoked" ELSE IF t.used THEN "used" ELSE "fresh"

Row       == Client \cup Code \cup Session \cup Token \cup Jti \cup {None}
Time      == 0 .. (MaxTime + CodeTTL + SessionTTL + AccessTTL)
FormRow   == [client : Client \cup {None}, scopes : SUBSET Scope, at : Time]
CodeRow   == [client : Client \cup {None}, scopes : SUBSET Scope,
              expires : Time, used : BOOLEAN]
SessionRow == [client : Client \cup {None}, code : Code \cup {None},
               scopes : SUBSET Scope, expires : Time, revoked : BOOLEAN]
TokenRow  == [session : Session \cup {None}, family : Token \cup {None},
              expires : Time, used : BOOLEAN, revoked : BOOLEAN]
AccessRow == [client : Client \cup {None}, session : Session \cup {None},
              scopes : SUBSET Scope, expires : Time]
Coroutine == [kind : Kind, pc : Pc, client : Client \cup {None},
              code : Code \cup {None}, token : Token \cup {None},
              jti : Jti \cup {None}, proof : Proof,
              sid : Session \cup {None}, scopes : SUBSET Scope,
              seen : SUBSET Scope, old : TokenStatus,
              minted : Token \cup {None}, event : Event, late : BOOLEAN]

TypeOK ==
    /\ now \in 0 .. MaxTime
    /\ form \in FormRow
    /\ clientRevoked \subseteq Client
    /\ codes \in [Code -> CodeRow]
    /\ sessions \in [Session -> SessionRow]
    /\ tokens \in [Token -> TokenRow]
    /\ revokedJti \subseteq Jti
    /\ audit \subseteq [event : Event, row : Row]
    /\ held \subseteq Code \cup Token
    /\ access \in [Jti -> AccessRow]
    /\ reqs \in [Request -> Coroutine]

Init ==
    /\ now = 0
    /\ form = NoForm
    /\ clientRevoked = {}
    /\ codes = [k \in Code |-> NoCode]
    /\ sessions = [s \in Session |-> NoSession]
    /\ tokens = [t \in Token |-> NoToken]
    /\ revokedJti = {}
    /\ audit = {}
    /\ held = {}
    /\ access = [j \in Jti |-> NoAccess]
    /\ reqs = [r \in Request |-> Idle]

FreshCode    == {k \in Code : codes[k].client = None}
FreshSession == {s \in Session : sessions[s].client = None}
FreshToken   == {t \in Token : tokens[t].session = None}
FreshJti     == {j \in Jti : access[j].client = None}

At(r, kind, pc) == reqs[r].kind = kind /\ reqs[r].pc = pc
Goto(r, pc)     == reqs' = [reqs EXCEPT ![r].pc = pc]
\* return, or an error reply: the handler ends and hands nothing out
Finish(r)       == reqs' = [reqs EXCEPT ![r] = Idle]

\* Mutant: the reply is sent before the audit event is committed.
RespondAtOnce == "respond"
\* where a handler goes once its rows are committed
AfterCommit == "audit"

Tick ==
    /\ now < MaxTime
    /\ now' = now + 1
    /\ UNCHANGED <<form, db, audit, held, access, reqs>>

-----------------------------------------------------------------------------
(* Consent.                                                                *)

\* GET /oauth/authorize: the form carries a signed copy of the request.  One
\* form per browser: the page sets the one CSRF cookie the form must match,
\* so an older form is refused.  Bound: one form in a behaviour.
Authorize(c, S) ==
    /\ form = NoForm
    /\ c \notin clientRevoked
    /\ S \subseteq AllowedScopes[c]
    /\ form' = [client |-> c, scopes |-> S, at |-> now]
    /\ UNCHANGED <<now, db, audit, held, access, reqs>>

\* POST /oauth/authorize up to the read of the user.  The client is not
\* read again; the form may be submitted again for as long as it is valid.
SubmitDecision(r, allow) ==
    /\ reqs[r].pc = "idle"
    /\ form.client # None /\ now - form.at <= FormTTL
    /\ reqs' = [reqs EXCEPT ![r] =
          [Idle EXCEPT !.kind = "decide", !.client = form.client,
                       !.scopes = form.scopes,
                       !.pc = IF allow THEN "commit" ELSE AfterCommit,
                       !.event = IF allow THEN "consent.granted"
                                          ELSE "consent.denied"]]
    /\ UNCHANGED <<now, form, db, audit, held, access>>

CommitCode(r) ==
    /\ At(r, "decide", "commit")
    /\ \E k \in FreshCode :
          /\ codes' = [codes EXCEPT ![k] =
                [client |-> reqs[r].client, scopes |-> reqs[r].scopes,
                 expires |-> now + CodeTTL, used |-> FALSE]]
          /\ reqs' = [reqs EXCEPT ![r].code = k, ![r].pc = AfterCommit]
    /\ UNCHANGED <<now, form, clientRevoked, sessions, tokens, revokedJti,
                   audit, held, access>>

-----------------------------------------------------------------------------
(* POST /oauth/token and POST /oauth/revoke: client authentication.        *)

SubmitExchange(r, c, k, proof) ==
    /\ reqs[r].pc = "idle"
    /\ k \in held
    /\ reqs' = [reqs EXCEPT ![r] =
          [Idle EXCEPT !.kind = "exchange", !.pc = "client", !.client = c,
                       !.code = k, !.proof = proof,
                       !.late = c \in clientRevoked \/ codes[k].used]]
    /\ UNCHANGED <<now, form, db, audit, held, access>>

Dead(t) == \/ tokens[t].used \/ tokens[t].revoked
           \/ sessions[tokens[t].session].revoked

\* S is the scope parameter of the form
SubmitRefresh(r, c, t, S, proof) ==
    /\ reqs[r].pc = "idle"
    /\ t \in held
    /\ reqs' = [reqs EXCEPT ![r] =
          [Idle EXCEPT !.kind = "refresh", !.pc = "client", !.client = c,
                       !.token = t, !.scopes = S, !.proof = proof,
                       !.late = c \in clientRevoked \/ Dead(t)]]
    /\ UNCHANGED <<now, form, db, audit, held, access>>

SubmitRevoke(r, c, t, proof) ==
    /\ reqs[r].pc = "idle"
    /\ t \in held
    /\ reqs' = [reqs EXCEPT ![r] =
          [Idle EXCEPT !.kind = "revoke", !.pc = "client", !.client = c,
                       !.token = t, !.proof = proof]]
    /\ UNCHANGED <<now, form, db, audit, held, access>>

SubmitRevokeAccess(r, c, j, proof) ==
    /\ reqs[r].pc = "idle"
    /\ access[j].client # None
    /\ reqs' = [reqs EXCEPT ![r] =
          [Idle EXCEPT !.kind = "revoke", !.pc = "client", !.client = c,
                       !.jti = j, !.proof = proof]]
    /\ UNCHANGED <<now, form, db, audit, held, access>>

\* db.get(OAuthClient), then the secret
ClientAuth(r) ==
    LET q == reqs[r] IN
    /\ q.pc = "client"
    /\ IF q.client \in clientRevoked \/ q.proof = "noSecret"
       THEN Finish(r)
       ELSE Goto(r, IF q.kind = "exchange" THEN "code" ELSE "token")
    /\ UNCHANGED <<now, form, db, audit, held, access>>

-----------------------------------------------------------------------------
(* Authorization code exchange.                                            *)

\* Mutant: used_at is not looked at.
UsedCodeAccepted(q, k) ==
    k.client # q.client \/ k.expires <= now \/ q.proof = "noVerifier"
CodeRejected(q, k) ==
    \/ k.client # q.client \/ k.used \/ k.expires <= now
    \/ q.proof = "noVerifier"

ReadCode(r) ==
    LET q == reqs[r]  k == codes[q.code] IN
    /\ At(r, "exchange", "code")
    /\ IF CodeRejected(q, k)
       THEN Finish(r)
       ELSE reqs' = [reqs EXCEPT ![r].pc = "commit",
                                 ![r].scopes = k.scopes]
    /\ UNCHANGED <<now, form, db, audit, held, access>>

\* Mutant: the family is named by the session's identifier.
FamilyNamedBySession(t, s) ==
    [session |-> s, family |-> s, expires |-> now + SessionTTL,
     used |-> FALSE, revoked |-> FALSE]
\* the first token of a new family; the family is named by it
FirstToken(t, s) ==
    [session |-> s, family |-> t, expires |-> now + SessionTTL,
     used |-> FALSE, revoked |-> FALSE]

\* used_at, the session and, with offline_access, the first refresh token of
\* a new family, in one commit
CommitExchange(r) ==
    LET q == reqs[r] IN
    /\ At(r, "exchange", "commit")
    /\ codes' = [codes EXCEPT ![q.code].used = TRUE]
    /\ \E s \in FreshSession, t \in Token \cup {None} :
          /\ IF OfflineAccess \in q.scopes
             THEN /\ t \in FreshToken
                  /\ tokens' = [tokens EXCEPT ![t] = FirstToken(t, s)]
             ELSE /\ t = None
                  /\ UNCHANGED tokens
          /\ sessions' = [sessions EXCEPT ![s] =
                [client |-> q.client, code |-> q.code, scopes |-> q.scopes,
                 expires |-> now + SessionTTL, revoked |-> FALSE]]
          /\ reqs' = [reqs EXCEPT ![r].pc = AfterCommit, ![r].sid = s,
                         ![r].minted = t, ![r].event = "token.issued"]
    /\ UNCHANGED <<now, form, clientRevoked, revokedJti, audit, held, access>>

-----------------------------------------------------------------------------
(* Refresh.                                                                *)

\* SELECT the refresh token; /oauth/revoke makes the same lookup, and takes
\* what is no refresh token for an access token
ReadToken(r) ==
    LET q == reqs[r] IN
    /\ q.pc = "token"
    /\ IF q.token # None
       THEN reqs' = [reqs EXCEPT ![r].pc = "session",
                                 ![r].sid = tokens[q.token].session,
                                 ![r].old = Status(tokens[q.token])]
       ELSE IF access[q.jti].client = q.client /\ now < access[q.jti].expires
            THEN Goto(r, "commit")
            ELSE Finish(r)
    /\ UNCHANGED <<now, form, db, audit, held, access>>

\* Mutant: session.revoked_at is not looked at.
RevokedSessionAccepted(q, s) ==
    \/ s.client # q.client \/ s.expires <= now
    \/ q.old = "revoked" \/ tokens[q.token].expires <= now
    \/ q.old = "fresh" /\ ~(q.scopes \subseteq s.scopes)
\* Mutant: the requested scopes are not compared with the session's.
ScopesNotCompared(q, s) ==
    \/ s.client # q.client \/ s.revoked \/ s.expires <= now
    \/ q.old = "revoked" \/ tokens[q.token].expires <= now
RefreshRejected(q, s) ==
    \/ s.client # q.client \/ s.revoked \/ s.expires <= now
    \/ q.old = "revoked" \/ tokens[q.token].expires <= now
    \/ q.old = "fresh" /\ ~(q.scopes \subseteq s.scopes)

\* db.get(OAuthSession) and the checks.  A form without scope asks for all
\* the scopes the session has.
ReadSession(r) ==
    LET q == reqs[r]  s == sessions[q.sid] IN
    /\ At(r, "refresh", "session")
    /\ IF RefreshRejected(q, s)
       THEN Finish(r)
       ELSE reqs' = [reqs EXCEPT ![r].pc = "commit",
                        ![r].seen = s.scopes,
                        ![r].event = IF q.old = "used" THEN "reuse_detected"
                                                       ELSE "token.refreshed"]
    /\ UNCHANGED <<now, form, db, audit, held, access>>

\* Mutant: only the tokens are revoked, not their session.
SessionKept(s) == sessions
RevokeSession(s) == [sessions EXCEPT ![s].revoked = TRUE]

RevokeFamily(f) ==
    tokens' = [t \in Token |->
        IF tokens[t].family = f THEN [tokens[t] EXCEPT !.revoked = TRUE]
                                ELSE tokens[t]]

\* a used token came back: the session and the family are revoked
CommitReuse(r) ==
    LET q == reqs[r] IN
    /\ At(r, "refresh", "commit")
    /\ q.event = "reuse_detected"
    /\ sessions' = RevokeSession(q.sid)
    /\ RevokeFamily(tokens[q.token].family)
    /\ Goto(r, AfterCommit)
    /\ UNCHANGED <<now, form, clientRevoked, codes, revokedJti, audit, held,
                   access>>

\* Mutant: used_at of the old token is not set.
OldTokenKept(old, t) ==
    [tokens EXCEPT ![t] = [tokens[old] EXCEPT !.used = FALSE,
                                              !.revoked = FALSE]]
\* Mutant: the new token gets a full lifetime again.
FullLifetime(old, t) ==
    [tokens EXCEPT ![old].used = TRUE,
                   ![t] = [tokens[old] EXCEPT !.used = FALSE,
                              !.revoked = FALSE, !.expires = now + SessionTTL]]
Rotate(old, t) ==
    [tokens EXCEPT ![old].used = TRUE,
                   ![t] = [tokens[old] EXCEPT !.used = FALSE,
                                              !.revoked = FALSE]]

\* Mutant: every column of the row read earlier is written back.
WholeRowWritten(q) ==
    [sessions EXCEPT ![q.sid].scopes = q.scopes, ![q.sid].revoked = FALSE]
\* the ORM writes session.scopes only when they differ from those read
NarrowScopes(q) ==
    IF q.scopes = q.seen THEN sessions
    ELSE [sessions EXCEPT ![q.sid].scopes = q.scopes]

\* rotation: used_at of the old token, the new token of the family with the
\* old one's expiry, and session.scopes
CommitRefresh(r) ==
    LET q == reqs[r] IN
    /\ At(r, "refresh", "commit")
    /\ q.event = "token.refreshed"
    /\ \E t \in FreshToken :
          /\ tokens' = Rotate(q.token, t)
          /\ reqs' = [reqs EXCEPT ![r].pc = AfterCommit, ![r].minted = t]
    /\ sessions' = NarrowScopes(q)
    /\ UNCHANGED <<now, form, clientRevoked, codes, revokedJti, audit, held,
                   access>>

-----------------------------------------------------------------------------
(* Revocation, by the client and by the administrator.                     *)

ReadSessionToRevoke(r) ==
    LET q == reqs[r] IN
    /\ At(r, "revoke", "session")
    /\ IF sessions[q.sid].client = q.client
       THEN reqs' = [reqs EXCEPT ![r].pc = "commit",
                                 ![r].event = "session.revoked"]
       ELSE Finish(r)
    /\ UNCHANGED <<now, form, db, audit, held, access>>

CommitRevoke(r) ==
    LET q == reqs[r] IN
    /\ At(r, "revoke", "commit")
    /\ q.jti = None
    /\ sessions' = RevokeSession(q.sid)
    /\ RevokeFamily(tokens[q.token].family)
    /\ Goto(r, AfterCommit)
    /\ UNCHANGED <<now, form, clientRevoked, codes, revokedJti, audit, held,
                   access>>

\* an access token: its jti is stored and the reply sent, no audit event.  A
\* jti already stored violates the primary key, which the handler ignores.
CommitRevokeAccess(r) ==
    /\ At(r, "revoke", "commit")
    /\ reqs[r].jti # None
    /\ revokedJti' = revokedJti \cup {reqs[r].jti}
    /\ Finish(r)
    /\ UNCHANGED <<now, form, clientRevoked, codes, sessions, tokens, audit,
                   held, access>>

\* The two admin handlers up to the row they read first.  Their later SELECT
\* flushes the first write, so from there to the commit nobody else writes.
AdminRevokeClient(r, c) ==
    /\ reqs[r].pc = "idle"
    /\ reqs' = [reqs EXCEPT ![r] =
          [Idle EXCEPT !.kind = "adminClient", !.pc = "commit",
                       !.client = c, !.event = "client.revoked"]]
    /\ UNCHANGED <<now, form, db, audit, held, access>>

AdminRevokeSession(r, s) ==
    /\ reqs[r].pc = "idle"
    /\ sessions[s].client # None
    /\ reqs' = [reqs EXCEPT ![r] =
          [Idle EXCEPT !.kind = "adminSession", !.pc = "commit",
                       !.sid = s, !.event = "session.revoked"]]
    /\ UNCHANGED <<now, form, db, audit, held, access>>

\* Mutant: the client's sessions are left to expire.
SessionsKept(c) == sessions
RevokeSessionsOf(c) ==
    [s \in Session |->
        IF sessions[s].client = c
        THEN [sessions[s] EXCEPT !.revoked = TRUE] ELSE sessions[s]]

CommitAdminClient(r) ==
    LET c == reqs[r].client IN
    /\ At(r, "adminClient", "commit")
    /\ clientRevoked' = clientRevoked \cup {c}
    /\ sessions' = RevokeSessionsOf(c)
    /\ Goto(r, AfterCommit)
    /\ UNCHANGED <<now, form, codes, tokens, revokedJti, audit, held, access>>

CommitAdminSession(r) ==
    LET q == reqs[r] IN
    /\ At(r, "adminSession", "commit")
    /\ sessions' = RevokeSession(q.sid)
    /\ tokens' = [t \in Token |->
          IF tokens[t].session = q.sid
          THEN [tokens[t] EXCEPT !.revoked = TRUE] ELSE tokens[t]]
    /\ Goto(r, AfterCommit)
    /\ UNCHANGED <<now, form, clientRevoked, codes, revokedJti, audit, held,
                   access>>

-----------------------------------------------------------------------------
(* validate_access_token, for every MCP call and /oauth/userinfo.          *)

\* signature and exp are checked before the first await
PresentAccess(r, j) ==
    /\ reqs[r].pc = "idle"
    /\ access[j].client # None /\ now < access[j].expires
    /\ reqs' = [reqs EXCEPT ![r] =
          [Idle EXCEPT !.kind = "validate", !.pc = "jti", !.jti = j,
                       !.late = \/ j \in revokedJti
                                \/ sessions[access[j].session].revoked]]
    /\ UNCHANGED <<now, form, db, audit, held, access>>

CheckJti(r) ==
    LET q == reqs[r] IN
    /\ At(r, "validate", "jti")
    /\ IF q.jti \in revokedJti
       THEN Finish(r)
       ELSE reqs' = [reqs EXCEPT ![r].pc = "session",
                                 ![r].sid = access[q.jti].session]
    /\ UNCHANGED <<now, form, db, audit, held, access>>

\* last_used_at, the only column it writes, is left out; "respond" is the
\* call running with the scopes of the claims
CheckSession(r) ==
    LET s == sessions[reqs[r].sid] IN
    /\ At(r, "validate", "session")
    /\ IF s.revoked \/ s.expires <= now
       THEN Finish(r)
       ELSE reqs' = [reqs EXCEPT ![r].pc = "respond",
                        ![r].scopes = access[reqs[r].jti].scopes]
    /\ UNCHANGED <<now, form, db, audit, held, access>>

-----------------------------------------------------------------------------
(* The end of a handler.                                                   *)

\* the row an audit event is about
AuditRow(q) ==
    CASE q.event = "consent.granted" -> q.code
      [] q.event = "token.refreshed" -> q.minted
      [] OTHER                       -> q.sid

\* oauth_audit, record_admin_audit: a commit of its own.  Denials and
\* revocations are audited too; their rows, which hand nothing out, are not
\* followed.
Audit(r) ==
    LET q == reqs[r] IN
    /\ q.pc = "audit"
    /\ audit' = IF q.event \in {"consent.granted", "token.issued", "token.refreshed"}
                THEN audit \cup {[event |-> q.event, row |-> AuditRow(q)]}
                ELSE audit
    /\ Goto(r, "respond")
    /\ UNCHANGED <<now, form, db, held, access>>

\* the redirect with a code, or any reply without tokens
Respond(r) ==
    LET q == reqs[r] IN
    /\ q.pc = "respond"
    /\ q.event \notin {"token.issued", "token.refreshed"}
    /\ held' = IF q.event = "consent.granted" THEN held \cup {q.code} ELSE held
    /\ Finish(r)
    /\ UNCHANGED <<now, form, db, audit, access>>

\* _token_response: the access token is signed with the scopes of the session
\* as this handler has it in memory.  Bound: the pool Jti follows some of the
\* access tokens, whichever.
RespondTokens(r) ==
    LET q == reqs[r] IN
    /\ q.pc = "respond"
    /\ q.event \in {"token.issued", "token.refreshed"}
    /\ held' = held \cup ({q.minted} \ {None})
    /\ \/ \E j \in FreshJti :
             access' = [access EXCEPT ![j] =
                [client |-> q.client, session |-> q.sid, scopes |-> q.scopes,
                 expires |-> now + AccessTTL]]
       \/ UNCHANGED access
    /\ Finish(r)
    /\ UNCHANGED <<now, form, db, audit>>

\* An exception (a locked database, an unusable signing key), a restart of
\* the process or a lost reply: what is committed stays, nothing is handed
\* out.
Abandon(r) ==
    /\ reqs[r].pc # "idle"
    /\ Finish(r)
    /\ UNCHANGED <<now, form, db, audit, held, access>>

-----------------------------------------------------------------------------
Submit(r) ==
    \/ \E allow \in BOOLEAN : SubmitDecision(r, allow)
    \/ \E c \in Client, proof \in Forms :
          \/ \E k \in Code : SubmitExchange(r, c, k, proof)
          \/ \E t \in Token, S \in SUBSET Scope :
                SubmitRefresh(r, c, t, S, proof)
          \/ \E t \in Token : SubmitRevoke(r, c, t, proof)
          \/ \E j \in Jti : SubmitRevokeAccess(r, c, j, proof)
    \/ \E j \in Jti : PresentAccess(r, j)
    \/ \E c \in Client : AdminRevokeClient(r, c)
    \/ \E s \in Session : AdminRevokeSession(r, s)

Serve(r) ==
    \/ CommitCode(r)
    \/ ClientAuth(r) \/ ReadCode(r) \/ CommitExchange(r)
    \/ ReadToken(r) \/ ReadSession(r) \/ CommitReuse(r) \/ CommitRefresh(r)
    \/ ReadSessionToRevoke(r) \/ CommitRevoke(r) \/ CommitRevokeAccess(r)
    \/ CommitAdminClient(r) \/ CommitAdminSession(r)
    \/ CheckJti(r) \/ CheckSession(r)
    \/ Audit(r) \/ Respond(r) \/ RespondTokens(r)

Next ==
    \/ Tick
    \/ \E c \in Client, S \in SUBSET Scope : Authorize(c, S)
    \/ \E r \in Request : Submit(r) \/ Serve(r) \/ Abandon(r)

Spec == Init /\ [][Next]_vars

-----------------------------------------------------------------------------
(* Properties that hold however requests overlap.                          *)

Mints(q) == q.event \in {"token.issued", "token.refreshed"}

\* A request that begins after its code or refresh token was spent, or its
\* token, session or client was revoked, is never served: it reaches no
\* commit that mints tokens and no MCP call.
SpentBuysNothing ==
    \A r \in Request :
        reqs[r].late => /\ ~Mints(reqs[r])
                        /\ reqs[r].kind = "validate" =>
                              reqs[r].pc # "respond"

\* What a session or an access token grants was consented to for that
\* client, and was registered by it, whatever sequence of refreshes and
\* narrowings of scope led to it.
ScopesWithinConsent ==
    /\ \A s \in Session : sessions[s].client # None =>
          /\ sessions[s].client = codes[sessions[s].code].client
          /\ sessions[s].scopes \subseteq codes[sessions[s].code].scopes
          /\ sessions[s].scopes \subseteq AllowedScopes[sessions[s].client]
    /\ \A j \in Jti : access[j].client # None =>
          /\ access[j].client = sessions[access[j].session].client
          /\ access[j].scopes \subseteq codes[sessions[access[j].session].code].scopes

\* A reply that carries a code or tokens leaves only after the audit event
\* about them is committed, also when requests fail or the process restarts.
HandedOutIsAudited ==
    /\ \A k \in Code \cap held :
          [event |-> "consent.granted", row |-> k] \in audit
    /\ \A t \in Token \cap held :
          \/ [event |-> "token.refreshed", row |-> t] \in audit
          \/ /\ tokens[t].family = t
             /\ [event |-> "token.issued", row |-> tokens[t].session] \in audit
    /\ \A j \in Jti : access[j].client # None =>
          [event |-> "token.issued", row |-> access[j].session] \in audit

\* A revoked refresh token never belongs to a session that is still live,
\* so a token that a late refresh adds to a killed family is worthless.
FamilyDiesWithSession ==
    \A t, u \in Token :
        /\ tokens[t].session # None
        /\ tokens[t].family = tokens[u].family
        /\ tokens[t].revoked
        => sessions[tokens[u].session].revoked

\* Rotation never prolongs a grant: every token of a family expires when
\* its session does.
NoSlidingExpiry ==
    \A t \in Token : tokens[t].session # None =>
        tokens[t].expires = sessions[tokens[t].session].expires

OnlySpends ==
    /\ clientRevoked \subseteq clientRevoked'
    /\ revokedJti \subseteq revokedJti'
    /\ \A k \in Code : codes[k].client # None /\ codes[k].used => codes'[k].used
    /\ \A s \in Session : sessions[s].client # None =>
          /\ sessions[s].revoked => sessions'[s].revoked
          /\ sessions'[s].expires = sessions[s].expires
    /\ \A t \in Token : tokens[t].session # None =>
          /\ tokens[t].used => tokens'[t].used
          /\ tokens[t].revoked => tokens'[t].revoked
          /\ tokens'[t].family = tokens[t].family

\* used_at and revoked_at are never cleared, expiries never move and a token
\* stays in its family, although handlers write rows they read before others
\* changed them.
RowsAreFinal == [][OnlySpends]_vars

-----------------------------------------------------------------------------
(* Properties that hold when requests are served one at a time.            *)

\* OAUTH.md: an authorization code is for a single use.
CodeSingleUse ==
    \A s1, s2 \in Session :
        /\ sessions[s1].client # None /\ sessions[s2].client # None
        /\ sessions[s1].code = sessions[s2].code
        => s1 = s2

Usable(t) == /\ tokens[t].session # None
             /\ ~tokens[t].used /\ ~tokens[t].revoked
             /\ ~sessions[tokens[t].session].revoked

\* SECURITY.md: refresh tokens are for a single use; of a family, at most
\* one can still be refreshed.
SingleUsableToken ==
    \A t, u \in Token :
        Usable(t) /\ Usable(u) /\ tokens[t].family = tokens[u].family => t = u

\* OAUTH.md: the administrator revokes a client at once, and with it every
\* session it has.
RevokedClientHasNoLiveSession ==
    \A s \in Session :
        sessions[s].client \in clientRevoked => sessions[s].revoked

\* oauth.py: a refresh cannot expand the scopes of its session.
ScopesNeverWiden ==
    [][\A s \in Session : sessions[s].client # None =>
          sessions'[s].scopes \subseteq sessions[s].scopes]_vars

\* the tables as GrantLifecycle sees them
GrantCode == [k \in Code |->
    IF codes[k].client = None THEN "none"
    ELSE IF codes[k].used THEN "spent" ELSE "fresh"]
GrantSession == [s \in Session |->
    IF sessions[s].client = None THEN "none"
    ELSE IF sessions[s].revoked THEN "revoked" ELSE "live"]
GrantOwner == [t \in Token |-> {tokens[t].session} \ {None}]
GrantUsable == {t \in Token : Usable(t)}

Lifecycle == INSTANCE GrantLifecycle WITH
    code <- GrantCode, session <- GrantSession,
    owner <- GrantOwner, usable <- GrantUsable

\* Served one at a time, the requests implement the abstract lifecycle of a
\* grant: a code buys one session, a token one successor, a revoked session
\* nothing.
ImplementsLifecycle == Lifecycle!Spec
=============================================================================
