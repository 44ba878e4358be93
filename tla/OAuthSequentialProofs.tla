----------------------- MODULE OAuthSequentialProofs ------------------------
(* What holds when requests are served one at a time: the proofs.          *)
EXTENDS OAuthTokenProofs

(***************************************************************************)
(* Every theorem here assumes that at most one request is in flight; the   *)
(* races of OAuthCodeRace.cfg and OAuthClientRace.cfg show that none of    *)
(* them holds without.                                                     *)
(***************************************************************************)
OneAtATime == \A p, q \in Request : p = q

(***************************************************************************)
(* OneInv, inductive together with IInv and Fam.  A session has spent its  *)
(* code; and, as nobody else writes between a read and the commit, a       *)
(* coroutine that is past its checks would still pass them.                *)
(***************************************************************************)
CodesSpent == \A s \in Session : IsSession(s) => codes[sessions[s].code].used

Current(q) ==
    /\ q.kind = "exchange" /\ q.pc \in {"code", "commit"} =>
          q.client \notin clientRevoked
    /\ q.kind = "exchange" /\ q.pc = "commit" => ~codes[q.code].used
    /\ q.kind = "refresh" /\ q.pc = "session" =>
          q.old = Status(tokens[q.token])
    /\ q.kind = "refresh" /\ q.pc = "commit" /\ q.event = "token.refreshed" =>
          /\ Usable(q.token)
          /\ q.scopes \subseteq sessions[q.sid].scopes

OneInv == /\ CodesSpent /\ CodeSingleUse
       /\ SingleUsableToken
       /\ RevokedClientHasNoLiveSession
       /\ \A r \in Request : Current(reqs[r])

-----------------------------------------------------------------------------
(* Steps that write none of the tables the invariant is about.             *)

LEMMA OneInit == Init => OneInv
  <1> SUFFICES ASSUME Init PROVE OneInv
    OBVIOUS
  <1>1. /\ \A s \in Session : ~IsSession(s)
        /\ \A t \in Token : ~Usable(t)
        /\ clientRevoked = {}
    BY DEF Init, NoSession, NoToken, IsSession, Usable
  <1>2. Current(Idle)
    BY DEF Current, Idle
  <1>3. \A r \in Request : Current(reqs[r])
    BY <1>2 DEF Init
  <1> QED
    BY <1>1, <1>3 DEF OneInv, CodesSpent, CodeSingleUse, SingleUsableToken,
                      RevokedClientHasNoLiveSession, IsSession

\* only the one coroutine moves
LEMMA OnlyMoves ==
    ASSUME OneAtATime, OneInv, NEW r \in Request, NEW q, q = reqs'[r], Current(q),
           UNCHANGED <<clientRevoked, codes, sessions, tokens>>
    PROVE  OneInv'
  <1>1. CodesSpent' /\ CodeSingleUse' /\ SingleUsableToken'
        /\ RevokedClientHasNoLiveSession'
    BY DEF OneInv, CodesSpent, CodeSingleUse, SingleUsableToken, Usable,
           RevokedClientHasNoLiveSession, IsSession
  <1>2. Current(reqs[r])'
    BY DEF Current, Usable, Status
  <1>3. \A p \in Request : Current(reqs[p])'
    BY <1>2 DEF OneAtATime
  <1> QED BY <1>1, <1>3 DEF OneInv

\* a coroutine at one of these points has read nothing it still relies on
Settled(q) == \/ q.kind \notin {"exchange", "refresh"}
              \/ q.pc \notin {"code", "session", "commit"}

LEMMA SettledIsCurrent ==
    ASSUME NEW q, Settled(q)
    PROVE  Current(q)
  BY DEF Current, Settled

LEMMA SubmitCurrent ==
    ASSUME TypeOK, NEW r \in Request, Submit(r), NEW q, q = reqs'[r]
    PROVE  Current(q)
  <1>1. ASSUME NEW c \in Client, NEW proof \in Forms, NEW k \in Code,
               SubmitExchange(r, c, k, proof)
        PROVE  q.pc = "client"
    <2> DEFINE dead == c \in clientRevoked \/ codes[k].used
    <2>1. q = [Idle EXCEPT !.kind = "exchange", !.pc = "client", !.client = c,
                           !.code = k, !.proof = proof, !.late = dead]
      BY <1>1 DEF SubmitExchange, TypeOK
    <2> HIDE DEF dead
    <2> QED BY <2>1 DEF Idle
  <1>2. ASSUME NEW c \in Client, NEW proof \in Forms, NEW t \in Token,
               NEW S \in SUBSET Scope, SubmitRefresh(r, c, t, S, proof)
        PROVE  q.pc = "client"
    <2> DEFINE dead == c \in clientRevoked \/ Dead(t)
    <2>1. q = [Idle EXCEPT !.kind = "refresh", !.pc = "client", !.client = c,
                           !.token = t, !.scopes = S, !.proof = proof,
                           !.late = dead]
      BY <1>2 DEF SubmitRefresh, TypeOK
    <2> HIDE DEF dead
    <2> QED BY <2>1 DEF Idle
  <1>3. ASSUME NEW j \in Jti, PresentAccess(r, j)
        PROVE  q.pc = "jti"
    BY <1>3 DEF PresentAccess, TypeOK, Idle
  <1>4. ASSUME NEW allow \in BOOLEAN, SubmitDecision(r, allow)
        PROVE  q.kind = "decide"
    <2>1. \E a, b, c, d : q = [Idle EXCEPT !.kind = "decide", !.client = a,
                                  !.scopes = b, !.pc = c, !.event = d]
      BY <1>4 DEF SubmitDecision, TypeOK
    <2> QED BY <2>1 DEF Idle
  <1>5. ASSUME NEW c \in Client, NEW proof \in Forms,
               \/ \E t \in Token : SubmitRevoke(r, c, t, proof)
               \/ \E j \in Jti : SubmitRevokeAccess(r, c, j, proof)
        PROVE  q.kind = "revoke"
    <2>1. \E x : \/ q = [Idle EXCEPT !.kind = "revoke", !.pc = "client",
                            !.client = c, !.token = x, !.proof = proof]
                 \/ q = [Idle EXCEPT !.kind = "revoke", !.pc = "client",
                            !.client = c, !.jti = x, !.proof = proof]
      BY <1>5 DEF SubmitRevoke, SubmitRevokeAccess, TypeOK
    <2> QED BY <2>1 DEF Idle
  <1>6. ASSUME NEW c \in Client, AdminRevokeClient(r, c)
        PROVE  q.kind = "adminClient"
    BY <1>6 DEF AdminRevokeClient, TypeOK, Idle
  <1>7. ASSUME NEW s \in Session, AdminRevokeSession(r, s)
        PROVE  q.kind = "adminSession"
    BY <1>7 DEF AdminRevokeSession, TypeOK, Idle
  <1> QED
    BY <1>1, <1>2, <1>3, <1>4, <1>5, <1>6, <1>7, SettledIsCurrent DEF Submit, Settled

\* what a check lets pass holds when it has passed
LEMMA ReadCurrent ==
    ASSUME IInv, NEW r \in Request, NEW p \in Coroutine, p = reqs[r],
           Fits(p), Current(p), NEW q, q = reqs'[r], ~Finish(r),
           \/ ClientAuth(r) \/ ReadCode(r) \/ ReadToken(r) \/ ReadSession(r)
           \/ ReadSessionToRevoke(r) \/ CheckJti(r) \/ CheckSession(r)
           \/ Audit(r)
    PROVE  Current(q)
  <1>0. TypeOK
    BY DEF IInv
  <1>1. CASE ClientAuth(r)
    <2>1. /\ p.client \notin clientRevoked
          /\ q = [p EXCEPT !.pc = IF p.kind = "exchange" THEN "code" ELSE "token"]
      BY <1>0, <1>1 DEF ClientAuth, Goto, TypeOK
    <2>2. /\ q.client = p.client
          /\ q.pc \in {"code", "token"} /\ (q.kind = "refresh" => q.pc = "token")
      BY <2>1 DEF Coroutine
    <2> QED BY <2>1, <2>2 DEF Current
  <1>2. CASE ReadCode(r)
    <2>1. /\ p.kind = "exchange" /\ p.pc = "code" /\ ~codes[p.code].used
          /\ q = [p EXCEPT !.pc = "commit", !.scopes = codes[p.code].scopes]
      BY <1>0, <1>2 DEF ReadCode, At, CodeRejected, TypeOK
    <2>2. q.kind = "exchange" /\ q.client = p.client /\ q.code = p.code
      BY <2>1 DEF Coroutine
    <2> QED BY <2>1, <2>2 DEF Current
  <1>3. CASE ReadToken(r) /\ p.token # None
    <2>1. q = [p EXCEPT !.pc = "session", !.sid = tokens[p.token].session,
                        !.old = Status(tokens[p.token])]
      BY <1>0, <1>3 DEF ReadToken, TypeOK
    <2>2. /\ q.pc = "session" /\ q.old = Status(tokens[p.token])
          /\ q.token = p.token /\ q.kind = p.kind
      BY <2>1 DEF Coroutine
    <2>3. p.kind # "exchange"
      BY <1>3 DEF ReadToken, Fits
    <2> QED BY <2>2, <2>3 DEF Current
  <1>4. CASE ReadToken(r) /\ p.token = None
    <2>1. q = [p EXCEPT !.pc = "commit"] /\ p.pc = "token"
      BY <1>0, <1>4 DEF ReadToken, Goto, TypeOK
    <2>2. p.kind = "revoke"
      BY <1>4, <2>1, ConstantsAssumption DEF Fits, IsToken
    <2>3. q.kind = "revoke"
      BY <2>1, <2>2 DEF Coroutine
    <2> QED BY <2>3, SettledIsCurrent DEF Settled
  <1>5. CASE ReadSession(r)
    <2> DEFINE e == IF p.old = "used" THEN "reuse_detected"
                                      ELSE "token.refreshed"
    <2>1. /\ p.kind = "refresh" /\ p.pc = "session"
          /\ ~RefreshRejected(p, sessions[p.sid])
          /\ q = [p EXCEPT !.pc = "commit", !.seen = sessions[p.sid].scopes,
                           !.event = e]
      BY <1>0, <1>5 DEF ReadSession, At, TypeOK
    <2>2. /\ q.kind = "refresh" /\ q.token = p.token /\ q.sid = p.sid
          /\ q.scopes = p.scopes /\ q.event = e
      <3> HIDE DEF e
      <3> QED BY <2>1 DEF Coroutine
    <2>3. IsToken(p.token) /\ p.sid = tokens[p.token].session
      BY <2>1, ConstantsAssumption DEF Fits
    <2>4. p.old = Status(tokens[p.token])
      BY <2>1 DEF Current
    <2>5. e = "token.refreshed" => p.old = "fresh"
      BY <2>1 DEF RefreshRejected, Coroutine, TokenStatus
    <2>6. e = "token.refreshed" => /\ Usable(p.token)
                                   /\ p.scopes \subseteq sessions[p.sid].scopes
      BY <2>1, <2>3, <2>4, <2>5 DEF RefreshRejected, Usable, Status, IsToken
    <2> HIDE DEF e
    <2> QED BY <2>2, <2>6, <2>1 DEF Current, Coroutine
  <1>6. CASE ReadSessionToRevoke(r)
    <2>1. q = [p EXCEPT !.pc = "commit", !.event = "session.revoked"]
          /\ p.kind = "revoke"
      BY <1>0, <1>6 DEF ReadSessionToRevoke, At, TypeOK
    <2>2. q.kind = "revoke"
      BY <2>1 DEF Coroutine
    <2> QED BY <2>2, SettledIsCurrent DEF Settled
  <1>7. CASE CheckJti(r) \/ CheckSession(r)
    <2>1. p.kind = "validate"
      BY <1>7 DEF CheckJti, CheckSession, At
    <2>2. \/ q = [p EXCEPT !.pc = "session", !.sid = access[p.jti].session]
          \/ q = [p EXCEPT !.pc = "respond", !.scopes = access[p.jti].scopes]
      BY <1>0, <1>7 DEF CheckJti, CheckSession, TypeOK
    <2>3. q.kind = "validate"
      BY <2>1, <2>2 DEF Coroutine
    <2> QED BY <2>3, SettledIsCurrent DEF Settled
  <1>8. CASE Audit(r)
    <2>1. q = [p EXCEPT !.pc = "respond"]
      BY <1>0, <1>8 DEF Audit, Goto, TypeOK
    <2>2. q.pc = "respond"
      BY <2>1 DEF Coroutine
    <2> QED BY <2>2, SettledIsCurrent DEF Settled
  <1> QED BY <1>1, <1>2, <1>3, <1>4, <1>5, <1>6, <1>7, <1>8

-----------------------------------------------------------------------------
(* What the four commits do to the tables, row by row.                     *)

ExchangeEffect(p, k, s, T) ==
    /\ k = p.code /\ IsCode(k)
    /\ s \in Session /\ ~IsSession(s)
    /\ T \in SUBSET Token /\ \A t \in T : ~IsToken(t) /\ T = {t}
    /\ \A x \in Code : /\ codes'[x].client = codes[x].client
                       /\ x # k => codes'[x] = codes[x]
    /\ codes'[k].used
    /\ \A x \in Session : x # s => sessions'[x] = sessions[x]
    /\ sessions'[s].client = p.client /\ p.client \in Client
    /\ sessions'[s].code = k
    /\ sessions'[s].revoked = FALSE
    /\ \A x \in Token : x \notin T => tokens'[x] = tokens[x]
    /\ \A x \in T : /\ tokens'[x].session = s /\ tokens'[x].family = x
                    /\ ~tokens'[x].used /\ ~tokens'[x].revoked
    /\ UNCHANGED clientRevoked

LEMMA ExchangeHas ==
    ASSUME IInv, NEW r \in Request, CommitExchange(r),
           NEW p \in Coroutine, p = reqs[r], Fits(p)
    PROVE  \E k, s, T : ExchangeEffect(p, k, s, T)
  <1>0. TypeOK
    BY DEF IInv
  <1>1. p.kind = "exchange" /\ p.pc = "commit" /\ IsCode(p.code)
        /\ p.client = codes[p.code].client /\ p.client \in Client
    BY ConstantsAssumption DEF CommitExchange, At, Fits, IsCode, Coroutine
  <1>2. PICK s \in FreshSession, t \in Token \cup {None} :
           /\ sessions' = [sessions EXCEPT ![s] =
                 [client |-> p.client, code |-> p.code, scopes |-> p.scopes,
                  expires |-> now + SessionTTL, revoked |-> FALSE]]
           /\ \/ t \in FreshToken /\ tokens' = [tokens EXCEPT ![t] = FirstToken(t, s)]
              \/ t = None /\ tokens' = tokens
    BY DEF CommitExchange
  <1>3. s \in Session /\ ~IsSession(s)
    BY <1>2 DEF FreshSession, IsSession
  <1>4. /\ \A x \in Session : x # s => sessions'[x] = sessions[x]
        /\ sessions'[s].client = p.client /\ sessions'[s].code = p.code
        /\ sessions'[s].revoked = FALSE
    BY <1>0, <1>2, <1>3 DEF TypeOK
  <1>5. codes' = [codes EXCEPT ![p.code].used = TRUE]
    BY DEF CommitExchange
  <1>6. /\ \A x \in Code : /\ codes'[x].client = codes[x].client
                           /\ x # p.code => codes'[x] = codes[x]
        /\ codes'[p.code].used
    BY <1>0, <1>1, <1>5 DEF TypeOK, CodeRow, IsCode
  <1>7. PICK T \in SUBSET Token :
           /\ \A x \in T : ~IsToken(x) /\ T = {x}
           /\ \A x \in Token : x \notin T => tokens'[x] = tokens[x]
           /\ \A x \in T : tokens'[x] = FirstToken(x, s)
    <2>1. CASE t = None /\ tokens' = tokens
      <3>1. \A x \in Token : tokens'[x] = tokens[x]
        BY <2>1
      <3> WITNESS {} \in SUBSET Token
      <3> QED BY <3>1
    <2>2. CASE t \in FreshToken /\ tokens' = [tokens EXCEPT ![t] = FirstToken(t, s)]
      <3>1. t \in Token /\ ~IsToken(t)
        BY <2>2 DEF FreshToken, IsToken
      <3>2. /\ \A x \in Token : x # t => tokens'[x] = tokens[x]
            /\ tokens'[t] = FirstToken(t, s)
        BY <1>0, <2>2, <3>1 DEF TypeOK
      <3>3. {t} \in SUBSET Token
        BY <3>1
      <3> QED BY <3>1, <3>2, <3>3
    <2> QED BY <1>2, <2>1, <2>2
  <1>8. UNCHANGED clientRevoked
    BY DEF CommitExchange
  <1>9. \A x : /\ FirstToken(x, s).session = s /\ FirstToken(x, s).family = x
               /\ ~FirstToken(x, s).used /\ ~FirstToken(x, s).revoked
    BY DEF FirstToken
  <1>10. ExchangeEffect(p, p.code, s, T)
    BY <1>1, <1>3, <1>4, <1>6, <1>7, <1>8, <1>9 DEF ExchangeEffect
  <1> QED BY <1>10

RefreshEffect(p, u) ==
    /\ IsToken(p.token) /\ p.sid = tokens[p.token].session
    /\ u \in Token /\ ~IsToken(u)
    /\ tokens'[u].session = p.sid
    /\ tokens'[u].family = tokens[p.token].family
    /\ ~tokens'[u].used /\ ~tokens'[u].revoked
    /\ tokens'[p.token].used
    /\ \A x \in Token : x # u => /\ tokens'[x].session = tokens[x].session
                                 /\ tokens'[x].family = tokens[x].family
                                 /\ tokens'[x].revoked = tokens[x].revoked
                                 /\ x # p.token => tokens'[x] = tokens[x]
    /\ \A x \in Session : /\ sessions'[x].client = sessions[x].client
                          /\ sessions'[x].code = sessions[x].code
                          /\ sessions'[x].revoked = sessions[x].revoked
                          /\ \/ sessions'[x].scopes = sessions[x].scopes
                             \/ x = p.sid /\ sessions'[x].scopes = p.scopes
    /\ UNCHANGED <<clientRevoked, codes>>

LEMMA RefreshHas ==
    ASSUME IInv, NEW r \in Request, CommitRefresh(r),
           NEW p \in Coroutine, p = reqs[r], Fits(p)
    PROVE  \E u : RefreshEffect(p, u)
  <1>0. TypeOK
    BY DEF IInv
  <1>1. IsToken(p.token) /\ p.sid = tokens[p.token].session
    BY DEF CommitRefresh, At, Fits
  <1>2. PICK u \in FreshToken : tokens' = Rotate(p.token, u)
    BY DEF CommitRefresh
  <1>3. u \in Token /\ ~IsToken(u) /\ u # p.token /\ p.token \in Token
    BY <1>1, <1>2 DEF FreshToken, IsToken
  <1>4. \A x \in Token : tokens[x] \in TokenRow
    BY <1>0 DEF TypeOK
  <1>5. /\ tokens'[u] = [tokens[p.token] EXCEPT !.used = FALSE, !.revoked = FALSE]
        /\ tokens'[p.token] = [tokens[p.token] EXCEPT !.used = TRUE]
        /\ \A x \in Token : x # u /\ x # p.token => tokens'[x] = tokens[x]
    BY <1>0, <1>2, <1>3 DEF Rotate, TypeOK
  <1>6. /\ tokens'[u].session = p.sid
        /\ tokens'[u].family = tokens[p.token].family
        /\ ~tokens'[u].used /\ ~tokens'[u].revoked
    BY <1>1, <1>3, <1>4, <1>5 DEF TokenRow
  <1>7. /\ tokens'[p.token].used
        /\ tokens'[p.token].session = tokens[p.token].session
        /\ tokens'[p.token].family = tokens[p.token].family
        /\ tokens'[p.token].revoked = tokens[p.token].revoked
    BY <1>3, <1>4, <1>5 DEF TokenRow
  <1>8. /\ sessions' = NarrowScopes(p)
        /\ UNCHANGED <<clientRevoked, codes>>
    BY DEF CommitRefresh
  <1>9. \A x \in Session : /\ sessions'[x].client = sessions[x].client
                           /\ sessions'[x].code = sessions[x].code
                           /\ sessions'[x].revoked = sessions[x].revoked
                           /\ \/ sessions'[x].scopes = sessions[x].scopes
                              \/ x = p.sid /\ sessions'[x].scopes = p.scopes
    <2>1. CASE sessions' = sessions
      BY <2>1
    <2>2. CASE sessions' = [sessions EXCEPT ![p.sid].scopes = p.scopes]
      <3>1. p.scopes \in SUBSET Scope
        BY DEF Coroutine
      <3>2. \A x \in Session : sessions'[x] =
               IF x = p.sid THEN [sessions[x] EXCEPT !.scopes = p.scopes]
                            ELSE sessions[x]
        BY <1>0, <2>2 DEF TypeOK
      <3>3. \A x \in Session : sessions[x] \in SessionRow
        BY <1>0 DEF TypeOK
      <3>4. \A x \in Session :
               LET new == [sessions[x] EXCEPT !.scopes = p.scopes]
               IN  /\ new.client = sessions[x].client /\ new.code = sessions[x].code
                   /\ new.revoked = sessions[x].revoked /\ new.scopes = p.scopes
        BY <3>1, <3>3, NarrowedSessionRow
      <3> QED BY ZenonT(40), <3>2, <3>4
    <2> QED BY <1>8, <2>1, <2>2 DEF NarrowScopes
  <1>10. \A x \in Token : x # u => /\ tokens'[x].session = tokens[x].session
                                   /\ tokens'[x].family = tokens[x].family
                                   /\ tokens'[x].revoked = tokens[x].revoked
                                   /\ x # p.token => tokens'[x] = tokens[x]
    BY <1>5, <1>7
  <1>11. RefreshEffect(p, u)
    BY <1>1, <1>3, <1>6, <1>7, <1>8, <1>9, <1>10 DEF RefreshEffect
  <1> QED BY <1>11

RevokeEffect(S) ==
    /\ S \in SUBSET Session /\ \A s \in S : IsSession(s)
    /\ \A s \in Session : /\ sessions'[s].client = sessions[s].client
                          /\ sessions'[s].code = sessions[s].code
                          /\ sessions'[s].scopes = sessions[s].scopes
                          /\ s \notin S => sessions'[s] = sessions[s]
                          /\ s \in S => sessions'[s].revoked
    /\ \A t \in Token : /\ tokens'[t].session = tokens[t].session
                        /\ tokens'[t].family = tokens[t].family
                        /\ tokens'[t].used = tokens[t].used
                        /\ \/ tokens'[t] = tokens[t]
                           \/ tokens'[t].revoked /\ tokens[t].session \in S
    /\ \A c \in clientRevoked' \ clientRevoked, s \in Session :
          sessions[s].client = c => s \in S
    /\ UNCHANGED codes

LEMMA RevokeHas ==
    ASSUME IInv, Fam, NEW r \in Request,
           \/ CommitReuse(r) \/ CommitRevoke(r)
           \/ CommitAdminClient(r) \/ CommitAdminSession(r)
    PROVE  \E S : RevokeEffect(S)
  <1>0. TypeOK
    BY DEF IInv
  <1>1. PICK p \in Coroutine : p = reqs[r] /\ Fits(p)
    BY <1>0 DEF IInv, TypeOK
  <1>2. \A t \in Token :
           LET new == [tokens[t] EXCEPT !.revoked = TRUE]
           IN  /\ new.session = tokens[t].session
               /\ new.family = tokens[t].family
               /\ new.used = tokens[t].used
               /\ new.revoked
    BY <1>0 DEF TypeOK, TokenRow
  <1>3. \A s \in Session :
           LET new == [sessions[s] EXCEPT !.revoked = TRUE]
           IN  /\ new.client = sessions[s].client /\ new.code = sessions[s].code
               /\ new.scopes = sessions[s].scopes /\ new.revoked
    BY <1>0 DEF TypeOK, SessionRow
  <1>4. ASSUME NEW S \in SUBSET Session, \A s \in S : IsSession(s),
               \A s \in Session : sessions'[s] =
                  IF s \in S THEN [sessions[s] EXCEPT !.revoked = TRUE]
                             ELSE sessions[s],
               \A t \in Token :
                  \/ tokens'[t] = tokens[t]
                  \/ /\ tokens'[t] = [tokens[t] EXCEPT !.revoked = TRUE]
                     /\ tokens[t].session \in S,
               \A c \in clientRevoked' \ clientRevoked, s \in Session :
                  sessions[s].client = c => s \in S,
               UNCHANGED codes
        PROVE  RevokeEffect(S)
    <2>1. \A s \in Session : /\ sessions'[s].client = sessions[s].client
                             /\ sessions'[s].code = sessions[s].code
                             /\ sessions'[s].scopes = sessions[s].scopes
                             /\ s \notin S => sessions'[s] = sessions[s]
                             /\ s \in S => sessions'[s].revoked
      <3> SUFFICES ASSUME NEW s \in Session
                   PROVE  /\ sessions'[s].client = sessions[s].client
                          /\ sessions'[s].code = sessions[s].code
                          /\ sessions'[s].scopes = sessions[s].scopes
                          /\ s \notin S => sessions'[s] = sessions[s]
                          /\ s \in S => sessions'[s].revoked
        OBVIOUS
      <3>1. CASE s \in S
        <4>1. sessions'[s] = [sessions[s] EXCEPT !.revoked = TRUE]
          BY <1>4, <3>1
        <4> QED BY <1>3, <3>1, <4>1
      <3>2. CASE s \notin S
        <4>1. sessions'[s] = sessions[s]
          BY <1>4, <3>2
        <4> QED BY <3>2, <4>1
      <3> QED BY <3>1, <3>2
    <2>2. \A t \in Token : /\ tokens'[t].session = tokens[t].session
                           /\ tokens'[t].family = tokens[t].family
                           /\ tokens'[t].used = tokens[t].used
                           /\ \/ tokens'[t] = tokens[t]
                              \/ tokens'[t].revoked /\ tokens[t].session \in S
      BY <1>2, <1>4
    <2> QED BY <1>4, <2>1, <2>2 DEF RevokeEffect
  <1>5. CASE CommitReuse(r) \/ CommitRevoke(r)
    <2>1. IsToken(p.token) /\ p.sid = tokens[p.token].session /\ IsSession(p.sid)
      BY <1>1, <1>5, ConstantsAssumption
         DEF CommitReuse, CommitRevoke, At, Fits, IsToken, IsAccess, IInv, TokensOK
    <2>2. {p.sid} \in SUBSET Session
      BY <2>1 DEF IsSession
    <2>3. \A s \in Session : sessions'[s] =
             IF s \in {p.sid} THEN [sessions[s] EXCEPT !.revoked = TRUE]
                              ELSE sessions[s]
      <3>1. sessions' = [sessions EXCEPT ![p.sid].revoked = TRUE]
        BY <1>1, <1>5 DEF CommitReuse, CommitRevoke, RevokeSession
      <3> QED BY <1>0, <3>1 DEF TypeOK
    <2>4. \A t \in Token :
             tokens'[t] = IF tokens[t].family = tokens[p.token].family
                          THEN [tokens[t] EXCEPT !.revoked = TRUE] ELSE tokens[t]
      BY <1>1, <1>5 DEF CommitReuse, CommitRevoke, RevokeFamily
    <2>5. ASSUME NEW t \in Token, tokens[t].family = tokens[p.token].family
          PROVE  tokens[t].session = p.sid
      BY <2>1, <2>5, ConstantsAssumption
         DEF Fam, FamilyOK, BlankOK, IsToken, NoToken
    <2>6. UNCHANGED <<clientRevoked, codes>>
      BY <1>5 DEF CommitReuse, CommitRevoke
    <2>7. RevokeEffect({p.sid})
      BY <1>4, <2>1, <2>2, <2>3, <2>4, <2>5, <2>6
    <2> QED BY <2>7
  <1>6. CASE CommitAdminClient(r)
    <2> DEFINE S == {s \in Session : sessions[s].client = p.client}
    <2>1. p.client # None /\ p.client \in Client
      BY <1>1, <1>6 DEF CommitAdminClient, At, Fits, Coroutine
    <2>2. \A s \in S : IsSession(s)
      BY <2>1 DEF IsSession
    <2>3. \A s \in Session : sessions'[s] =
             IF s \in S THEN [sessions[s] EXCEPT !.revoked = TRUE] ELSE sessions[s]
      BY <1>1, <1>6 DEF CommitAdminClient, RevokeSessionsOf
    <2>4. UNCHANGED <<codes, tokens>> /\ clientRevoked' = clientRevoked \cup {p.client}
      BY <1>1, <1>6 DEF CommitAdminClient
    <2>5. \A c \in clientRevoked' \ clientRevoked, s \in Session :
             sessions[s].client = c => s \in S
      BY <2>4
    <2>6. S \in SUBSET Session
      OBVIOUS
    <2> HIDE DEF S
    <2>7. RevokeEffect(S)
      BY <1>4, <2>2, <2>3, <2>4, <2>5, <2>6
    <2> QED BY <2>7
  <1>7. CASE CommitAdminSession(r)
    <2>1. IsSession(p.sid)
      BY <1>1, <1>7 DEF CommitAdminSession, At, Fits
    <2>2. {p.sid} \in SUBSET Session
      BY <2>1 DEF IsSession
    <2>3. \A s \in Session : sessions'[s] =
             IF s \in {p.sid} THEN [sessions[s] EXCEPT !.revoked = TRUE]
                              ELSE sessions[s]
      <3>1. sessions' = [sessions EXCEPT ![p.sid].revoked = TRUE]
        BY <1>1, <1>7 DEF CommitAdminSession, RevokeSession
      <3> QED BY <1>0, <3>1 DEF TypeOK
    <2>4. \A t \in Token :
             tokens'[t] = IF tokens[t].session = p.sid
                          THEN [tokens[t] EXCEPT !.revoked = TRUE] ELSE tokens[t]
      BY <1>1, <1>7 DEF CommitAdminSession
    <2>5. UNCHANGED <<clientRevoked, codes>>
      BY <1>7 DEF CommitAdminSession
    <2>6. RevokeEffect({p.sid})
      BY <1>4, <2>1, <2>2, <2>3, <2>4, <2>5
    <2> QED BY <2>6
  <1> QED BY <1>5, <1>6, <1>7

-----------------------------------------------------------------------------
(* The commits keep the invariant.                                         *)

\* after a commit the coroutine has only its audit event and its reply left
LEMMA CommitSettles ==
    ASSUME IInv, NEW r \in Request, NEW q, q = reqs'[r],
           \/ CommitCode(r) \/ CommitExchange(r) \/ CommitRefresh(r)
           \/ CommitReuse(r) \/ CommitRevoke(r)
           \/ CommitAdminClient(r) \/ CommitAdminSession(r)
    PROVE  Settled(q)
  <1>0. PICK p \in Coroutine : p = reqs[r] /\ reqs \in [Request -> Coroutine]
    BY DEF IInv, TypeOK
  <1>1. CASE CommitCode(r)
    <2>1. PICK k : q = [p EXCEPT !.code = k, !.pc = "audit"]
      BY <1>0, <1>1 DEF CommitCode, AfterCommit
    <2>2. q.pc = "audit"
      BY <2>1 DEF Coroutine
    <2> QED BY <2>2 DEF Settled
  <1>2. CASE CommitExchange(r)
    <2>0. PICK s, t : reqs' = [reqs EXCEPT ![r].pc = "audit", ![r].sid = s,
                                  ![r].minted = t, ![r].event = "token.issued"]
      BY <1>2 DEF CommitExchange, AfterCommit
    <2>1. q = [p EXCEPT !.pc = "audit", !.sid = s, !.minted = t,
                        !.event = "token.issued"]
      BY <1>0, <2>0
    <2>2. q.pc = "audit"
      BY <2>1 DEF Coroutine
    <2> QED BY <2>2 DEF Settled
  <1>3. CASE CommitRefresh(r)
    <2>1. PICK t : q = [p EXCEPT !.pc = "audit", !.minted = t]
      BY <1>0, <1>3 DEF CommitRefresh, AfterCommit
    <2>2. q.pc = "audit"
      BY <2>1 DEF Coroutine
    <2> QED BY <2>2 DEF Settled
  <1>4. CASE \/ CommitReuse(r) \/ CommitRevoke(r)
             \/ CommitAdminClient(r) \/ CommitAdminSession(r)
    <2>1. q = [p EXCEPT !.pc = "audit"]
      BY <1>0, <1>4 DEF CommitReuse, CommitRevoke, CommitAdminClient,
                        CommitAdminSession, Goto, AfterCommit
    <2>2. q.pc = "audit"
      BY <2>1 DEF Coroutine
    <2> QED BY <2>2 DEF Settled
  <1> QED BY <1>1, <1>2, <1>3, <1>4

\* the parts that are about the tables
TablesOne == CodesSpent /\ CodeSingleUse /\ SingleUsableToken
             /\ RevokedClientHasNoLiveSession

LEMMA OneOf ==
    ASSUME OneAtATime, IInv, NEW r \in Request, Current(reqs[r])', TablesOne'
    PROVE  OneInv'
  BY DEF OneAtATime, OneInv, TablesOne

LEMMA CodeKeeps ==
    ASSUME IInv, OneInv, NEW r \in Request, CommitCode(r)
    PROVE  TablesOne'
  <1>1. PICK k \in FreshCode : \E row : codes' = [codes EXCEPT ![k] = row]
    BY DEF CommitCode
  <1>2. \A x \in Code : IsCode(x) => codes'[x] = codes[x]
    BY <1>1 DEF FreshCode, IsCode, IInv, TypeOK
  <1>3. UNCHANGED <<clientRevoked, sessions, tokens>>
    BY DEF CommitCode
  <1>4. CodesSpent'
    <2>1. \A s \in Session : IsSession(s) =>
             /\ IsCode(sessions[s].code) /\ codes[sessions[s].code].used
      BY DEF OneInv, CodesSpent, IInv, SessionsOK
    <2>2. \A s \in Session : IsSession(s) => codes'[sessions[s].code].used
      BY <1>2, <2>1 DEF IsCode
    <2> QED BY <1>3, <2>2 DEF CodesSpent, IsSession
  <1> QED
    BY <1>3, <1>4 DEF OneInv, TablesOne, CodeSingleUse, SingleUsableToken,
                      Usable, RevokedClientHasNoLiveSession

LEMMA ExchangeKeeps ==
    ASSUME IInv, Fam, OneInv, NEW p \in Coroutine, Current(p),
           p.kind = "exchange", p.pc = "commit",
           NEW k, NEW s, NEW T, ExchangeEffect(p, k, s, T)
    PROVE  TablesOne'
  <1> USE DEF ExchangeEffect
  <1>1. /\ ~codes[k].used /\ p.client \notin clientRevoked
        /\ k \in Code /\ p.client # None
    BY ConstantsAssumption DEF Current, IsCode
  <1>2. \A x \in Session : /\ IsSession(x)' <=> (IsSession(x) \/ x = s)
                           /\ IsSession(x) => sessions'[x] = sessions[x]
    BY <1>1 DEF IsSession
  <1>3. \A x \in Code : codes[x].used => codes'[x].used
    OBVIOUS
  <1>4. \A x \in Session : IsSession(x) =>
           sessions[x].code \in Code /\ sessions[x].code # k
    BY <1>1 DEF OneInv, CodesSpent, IInv, SessionsOK, IsCode
  <1>5. CodesSpent'
    BY <1>2, <1>3, <1>4 DEF OneInv, CodesSpent, IsSession
  <1>6. CodeSingleUse'
    BY <1>2, <1>4 DEF OneInv, CodeSingleUse, IsSession
  <1>7. \A x \in Token : x \notin T /\ Usable(x)' =>
           Usable(x) /\ tokens'[x] = tokens[x] /\ tokens[x].family \in Token \ T
    <2> SUFFICES ASSUME NEW x \in Token, x \notin T, Usable(x)'
                 PROVE  Usable(x) /\ tokens[x].family \in Token \ T
      OBVIOUS
    <2>1. tokens'[x] = tokens[x] /\ IsToken(x)
      BY DEF Usable, IsToken
    <2>2. IsSession(tokens[x].session)
      BY <2>1 DEF IInv, TokensOK
    <2>3. tokens[x].session # s /\ tokens[x].session \in Session
      BY <2>2 DEF IsSession
    <2>4. sessions'[tokens[x].session] = sessions[tokens[x].session]
      BY <2>3
    <2>5. IsToken(tokens[x].family)
      BY <2>1 DEF Fam, FamilyOK
    <2>6. tokens[x].family \in Token \ T
      BY <2>5 DEF IsToken
    <2>7. Usable(x)
      BY <2>1, <2>4 DEF Usable
    <2> QED BY <2>6, <2>7
  <1>8. \A x \in T : tokens'[x].family = x
    OBVIOUS
  <1>9. SingleUsableToken'
    <2> SUFFICES ASSUME NEW t \in Token, NEW u \in Token, Usable(t)', Usable(u)',
                        tokens'[t].family = tokens'[u].family
                 PROVE  t = u
      BY DEF SingleUsableToken
    <2>1. CASE t \notin T /\ u \notin T
      BY <1>7, <2>1 DEF OneInv, SingleUsableToken
    <2>2. CASE t \in T \/ u \in T
      BY <1>7, <1>8, <2>2
    <2> QED BY <2>1, <2>2
  <1>10. RevokedClientHasNoLiveSession'
    <2>1. \A x \in Session : x = s \/ sessions'[x] = sessions[x]
      OBVIOUS
    <2> QED BY <1>1, <2>1 DEF OneInv, RevokedClientHasNoLiveSession
  <1> QED BY <1>5, <1>6, <1>9, <1>10 DEF TablesOne

LEMMA RefreshKeeps ==
    ASSUME IInv, OneInv, NEW p \in Coroutine, Current(p),
           p.kind = "refresh", p.pc = "commit", p.event = "token.refreshed",
           NEW u, RefreshEffect(p, u)
    PROVE  TablesOne'
  <1> USE DEF RefreshEffect
  <1>1. Usable(p.token)
    BY DEF Current
  <1>2. \A x \in Session : IsSession(x)' <=> IsSession(x)
    BY DEF IsSession
  <1>3. CodesSpent' /\ CodeSingleUse' /\ RevokedClientHasNoLiveSession'
    BY <1>2 DEF OneInv, CodesSpent, CodeSingleUse, IsSession,
                RevokedClientHasNoLiveSession
  <1>4. ASSUME NEW x \in Token, x # u, Usable(x)'
        PROVE  /\ Usable(x) /\ x # p.token
               /\ tokens'[x].family = tokens[x].family
    <2>1. x # p.token /\ tokens'[x] = tokens[x]
      BY <1>4 DEF Usable
    <2>2. IsToken(x)
      BY <1>4, <2>1 DEF Usable, IsToken
    <2>3. tokens[x].session \in Session
      BY <2>2 DEF IInv, TokensOK, IsSession
    <2> QED BY <1>4, <2>1, <2>3 DEF Usable
  <1>5. \A x \in Token : x # u /\ Usable(x)' =>
           tokens'[x].family # tokens[p.token].family
    BY <1>1, <1>4 DEF OneInv, SingleUsableToken, IsToken
  <1>6. SingleUsableToken'
    BY <1>4, <1>5 DEF OneInv, SingleUsableToken
  <1> QED BY <1>3, <1>6 DEF TablesOne

LEMMA RevokeKeeps ==
    ASSUME IInv, OneInv, NEW S, RevokeEffect(S)
    PROVE  TablesOne'
  <1> USE DEF RevokeEffect
  <1>1. \A x \in Session : IsSession(x)' <=> IsSession(x)
    BY DEF IsSession
  <1>2. \A x \in Session : sessions[x].revoked => sessions'[x].revoked
    OBVIOUS
  <1>3. CodesSpent' /\ CodeSingleUse'
    BY <1>1 DEF OneInv, CodesSpent, CodeSingleUse, IsSession
  <1>4. RevokedClientHasNoLiveSession'
    BY <1>2 DEF OneInv, RevokedClientHasNoLiveSession
  <1>5. ASSUME NEW x \in Token, Usable(x)'
        PROVE  Usable(x)
    <2>1. IsToken(x) /\ tokens[x].session \in Session
      BY <1>5 DEF Usable, IsToken, IInv, TokensOK, IsSession
    <2> QED BY <1>2, <1>5, <2>1 DEF Usable
  <1>6. SingleUsableToken'
    BY <1>5 DEF OneInv, SingleUsableToken
  <1> QED BY <1>3, <1>4, <1>6 DEF TablesOne

-----------------------------------------------------------------------------
(* The invariant is inductive.                                             *)

\* the steps of a request that commit to codes, sessions, tokens or clients
Commits(r) == \/ CommitCode(r) \/ CommitExchange(r) \/ CommitRefresh(r)
              \/ CommitReuse(r) \/ CommitRevoke(r)
              \/ CommitAdminClient(r) \/ CommitAdminSession(r)

\* every other step leaves those tables alone
LEMMA StepKinds ==
    ASSUME [Next]_vars
    PROVE  \/ \E r \in Request : Commits(r)
           \/ UNCHANGED <<clientRevoked, codes, sessions, tokens>>
  <1>1. ASSUME NEW r \in Request, Submit(r) \/ Abandon(r)
        PROVE  UNCHANGED <<clientRevoked, codes, sessions, tokens>>
    BY <1>1 DEF Submit, SubmitDecision, SubmitExchange, SubmitRefresh,
       SubmitRevoke, SubmitRevokeAccess, PresentAccess, AdminRevokeClient,
       AdminRevokeSession, Abandon, db
  <1>2. ASSUME NEW r \in Request, Serve(r)
        PROVE  \/ Commits(r)
               \/ UNCHANGED <<clientRevoked, codes, sessions, tokens>>
    BY <1>2 DEF Serve, Commits, ClientAuth, ReadCode, ReadToken, ReadSession,
       ReadSessionToRevoke, CommitRevokeAccess, CheckJti, CheckSession, Audit,
       Respond, RespondTokens, db
  <1> QED BY <1>1, <1>2 DEF Next, Tick, Authorize, vars, db

LEMMA CommitKeeps ==
    ASSUME OneAtATime, IInv, Fam, OneInv, NEW r \in Request, Commits(r)
    PROVE  OneInv'
  <1>1. PICK p \in Coroutine : p = reqs[r] /\ Fits(p) /\ Current(p)
    BY DEF IInv, TypeOK, OneInv
  <1>2. IInv'
    BY RevocationStep, CommitCodeStep, CommitExchangeStep, CommitRefreshStep
       DEF Commits
  <1>3. TablesOne'
    <2>1. CASE CommitCode(r)
      BY <2>1, CodeKeeps
    <2>2. CASE CommitExchange(r)
      <3>1. PICK k, s, T : ExchangeEffect(p, k, s, T)
        BY <1>1, <2>2, ExchangeHas
      <3>2. p.kind = "exchange" /\ p.pc = "commit"
        BY <1>1, <2>2 DEF CommitExchange, At
      <3> QED BY <1>1, <3>1, <3>2, ExchangeKeeps
    <2>3. CASE CommitRefresh(r)
      <3>1. PICK u : RefreshEffect(p, u)
        BY <1>1, <2>3, RefreshHas
      <3>2. p.kind = "refresh" /\ p.pc = "commit" /\ p.event = "token.refreshed"
        BY <1>1, <2>3 DEF CommitRefresh, At
      <3> QED BY <1>1, <3>1, <3>2, RefreshKeeps
    <2>4. CASE \/ CommitReuse(r) \/ CommitRevoke(r)
               \/ CommitAdminClient(r) \/ CommitAdminSession(r)
      BY <2>4, RevokeHas, RevokeKeeps
    <2> QED BY <2>1, <2>2, <2>3, <2>4 DEF Commits
  <1>4. Current(reqs[r])'
    <2>1. PICK q : q = reqs'[r]
      OBVIOUS
    <2>2. Settled(q)
      BY <2>1, CommitSettles DEF Commits
    <2> QED BY <2>1, <2>2 DEF Settled, Current
  <1> QED BY <1>2, <1>3, <1>4, OneOf

LEMMA MoveKeeps ==
    ASSUME OneAtATime, IInv, OneInv, [Next]_vars,
           UNCHANGED <<clientRevoked, codes, sessions, tokens>>
    PROVE  OneInv'
  <1>0. TypeOK /\ \A r \in Request : Current(reqs[r])
    BY DEF IInv, OneInv
  <1>1. ASSUME NEW r \in Request, Submit(r) \/ Serve(r) \/ Abandon(r)
        PROVE  OneInv'
    <2>1. PICK q : q = reqs'[r]
      OBVIOUS
    <2>2. PICK p \in Coroutine : p = reqs[r] /\ Fits(p) /\ Current(p)
      BY <1>0 DEF IInv, TypeOK
    <2>3. CASE Submit(r)
      BY <1>0, <2>1, <2>3, SubmitCurrent, OnlyMoves
    <2>4. CASE Finish(r)
      <3>1. q = Idle
        BY <1>0, <2>1, <2>4 DEF Finish, TypeOK
      <3>2. Settled(q)
        BY <3>1 DEF Settled, Idle
      <3> QED BY <2>1, <3>2, SettledIsCurrent, OnlyMoves
    <2>5. CASE /\ ~Finish(r)
               /\ \/ ClientAuth(r) \/ ReadCode(r) \/ ReadToken(r)
                  \/ ReadSession(r) \/ ReadSessionToRevoke(r)
                  \/ CheckJti(r) \/ CheckSession(r) \/ Audit(r)
      BY <2>1, <2>2, <2>5, ReadCurrent, OnlyMoves
    <2>6. CASE Commits(r)
      <3>1. Settled(q)
        BY <2>1, <2>6, CommitSettles DEF Commits
      <3> QED BY <2>1, <3>1, SettledIsCurrent, OnlyMoves
    <2>7. Abandon(r) \/ CommitRevokeAccess(r) \/ Respond(r) \/ RespondTokens(r)
             => Finish(r)
      BY DEF Abandon, CommitRevokeAccess, Respond, RespondTokens
    <2> QED BY <1>1, <2>3, <2>4, <2>5, <2>6, <2>7 DEF Serve, Commits
  <1>2. CASE UNCHANGED reqs
    <2>1. CodesSpent' /\ CodeSingleUse' /\ SingleUsableToken'
          /\ RevokedClientHasNoLiveSession'
      BY DEF OneInv, CodesSpent, CodeSingleUse, SingleUsableToken, Usable,
             RevokedClientHasNoLiveSession, IsSession
    <2>2. \A r \in Request : Current(reqs[r])'
      BY <1>0, <1>2 DEF Current, Usable, Status
    <2> QED BY <2>1, <2>2 DEF OneInv
  <1> QED BY <1>1, <1>2 DEF Next, Tick, Authorize, vars

LEMMA OneStep == ASSUME OneAtATime
                 PROVE  IInv /\ Fam /\ OneInv /\ [Next]_vars => OneInv'
  BY StepKinds, CommitKeeps, MoveKeeps

LEMMA OneInvariance == ASSUME OneAtATime PROVE Spec => [](IInv /\ Fam /\ OneInv)
  <1>1. Init => IInv /\ Fam /\ OneInv
    BY Initially, FamInit, OneInit
  <1>2. IInv /\ Fam /\ OneInv /\ [Next]_vars => (IInv /\ Fam /\ OneInv)'
    BY Inductive, FamStep, OneStep
  <1> QED BY <1>1, <1>2, PTL DEF Spec

-----------------------------------------------------------------------------
(* The theorems, of requests served one at a time.                         *)

\* An authorization code buys one session only (oauth.py, the exchange in
\* token; OAUTH.md).
THEOREM OneSessionPerCode == ASSUME OneAtATime PROVE Spec => []CodeSingleUse
  <1>1. IInv /\ Fam /\ OneInv => CodeSingleUse
    BY DEF OneInv
  <1> QED BY OneInvariance, <1>1, PTL

\* Rotation leaves one refresh token of a family that can be used, through
\* refreshes, reuses and revocations (oauth.py, token and revoke).
THEOREM OneTokenPerFamily == ASSUME OneAtATime PROVE Spec => []SingleUsableToken
  <1>1. IInv /\ Fam /\ OneInv => SingleUsableToken
    BY DEF OneInv
  <1> QED BY OneInvariance, <1>1, PTL

\* Once a client is revoked it has no live session and gets none, although a
\* consent form or a code of it may still be about (admin.py, the revocation
\* of a client; oauth.py, the client authentication in token).
THEOREM RevocationIsComplete ==
    ASSUME OneAtATime PROVE Spec => []RevokedClientHasNoLiveSession
  <1>1. IInv /\ Fam /\ OneInv => RevokedClientHasNoLiveSession
    BY DEF OneInv
  <1> QED BY OneInvariance, <1>1, PTL

LEMMA NarrowStep ==
    ASSUME IInv, Fam, OneInv, [Next]_vars
    PROVE  \A s \in Session : sessions[s].client # None =>
              sessions'[s].scopes \subseteq sessions[s].scopes
  <1>1. CASE UNCHANGED sessions
    BY <1>1
  <1>2. ASSUME NEW r \in Request, Commits(r)
        PROVE  \A s \in Session : sessions[s].client # None =>
                  sessions'[s].scopes \subseteq sessions[s].scopes
    <2>1. PICK p \in Coroutine : p = reqs[r] /\ Fits(p) /\ Current(p)
      BY DEF IInv, TypeOK, OneInv
    <2>2. CASE CommitCode(r)
      BY <2>2 DEF CommitCode
    <2>3. CASE CommitExchange(r)
      <3>1. PICK k, s, T : ExchangeEffect(p, k, s, T)
        BY <2>1, <2>3, ExchangeHas
      <3> QED BY <3>1 DEF ExchangeEffect, IsSession
    <2>4. CASE CommitRefresh(r)
      <3>1. PICK u : RefreshEffect(p, u)
        BY <2>1, <2>4, RefreshHas
      <3>2. p.scopes \subseteq sessions[p.sid].scopes
        BY <2>1, <2>4 DEF CommitRefresh, At, Current
      <3> QED BY <3>1, <3>2 DEF RefreshEffect
    <2>5. CASE \/ CommitReuse(r) \/ CommitRevoke(r)
               \/ CommitAdminClient(r) \/ CommitAdminSession(r)
      BY <2>5, RevokeHas DEF RevokeEffect
    <2> QED BY <1>2, <2>2, <2>3, <2>4, <2>5 DEF Commits
  <1> QED BY <1>1, <1>2, StepKinds

\* No sequence of refreshes gives a session back a scope that it was narrowed
\* out of (oauth.py, the scope check and the rotation in token).
THEOREM RefreshOnlyNarrows == ASSUME OneAtATime PROVE Spec => ScopesNeverWiden
  <1>1. IInv /\ Fam /\ OneInv /\ [Next]_vars =>
           [\A s \in Session : sessions[s].client # None =>
               sessions'[s].scopes \subseteq sessions[s].scopes]_vars
    BY NarrowStep
  <1> QED BY OneInvariance, <1>1, PTL DEF Spec, ScopesNeverWiden

-----------------------------------------------------------------------------
(* The refinement of GrantLifecycle: every commit is one abstract step,    *)
(* every other step a stutter.                                             *)

LEMMA GrantViews ==
    /\ \A k \in Code : GrantCode[k] = IF ~IsCode(k) THEN "none"
                          ELSE IF codes[k].used THEN "spent" ELSE "fresh"
    /\ \A s \in Session : GrantSession[s] = IF ~IsSession(s) THEN "none"
                          ELSE IF sessions[s].revoked THEN "revoked" ELSE "live"
    /\ \A t \in Token : GrantOwner[t] = {tokens[t].session} \ {None}
    /\ \A t : t \in GrantUsable <=> t \in Token /\ Usable(t)
  BY DEF GrantCode, GrantSession, GrantOwner, GrantUsable, IsCode, IsSession

LEMMA ViewsAreFunctions ==
    /\ GrantCode = [k \in Code |-> GrantCode[k]]
    /\ GrantCode' = [k \in Code |-> GrantCode'[k]]
    /\ GrantSession = [s \in Session |-> GrantSession[s]]
    /\ GrantSession' = [s \in Session |-> GrantSession'[s]]
  BY DEF GrantCode, GrantSession

LEMMA PointUpdate ==
    ASSUME NEW D, NEW f, NEW g, f = [x \in D |-> f[x]], g = [x \in D |-> g[x]],
           NEW d \in D, NEW v, g[d] = v, \A x \in D : x # d => g[x] = f[x]
    PROVE  g = [f EXCEPT ![d] = v]
  OBVIOUS

LEMMA LifecycleInit == Init => Lifecycle!Init
  <1> SUFFICES ASSUME Init PROVE Lifecycle!Init
    OBVIOUS
  <1>1. GrantCode = [k \in Code |-> "none"]
    BY DEF Init, GrantCode, NoCode
  <1>2. GrantSession = [s \in Session |-> "none"]
    BY DEF Init, GrantSession, NoSession
  <1>3. GrantOwner = [t \in Token |-> {}]
    BY DEF Init, GrantOwner, NoToken
  <1>4. GrantUsable = {}
    BY DEF Init, GrantUsable, Usable, NoToken
  <1> QED BY <1>1, <1>2, <1>3, <1>4 DEF Lifecycle!Init

LEMMA CodeIsGrant ==
    ASSUME IInv, NEW r \in Request, CommitCode(r)
    PROVE  Lifecycle!Next
  <1>1. PICK p \in Coroutine : p = reqs[r] /\ Fits(p)
    BY DEF IInv, TypeOK
  <1>2. PICK k \in FreshCode : codes' = [codes EXCEPT ![k] =
           [client |-> p.client, scopes |-> p.scopes,
            expires |-> now + CodeTTL, used |-> FALSE]]
    BY <1>1 DEF CommitCode
  <1>3. k \in Code /\ ~IsCode(k) /\ p.client # None
    BY <1>1, <1>2 DEF FreshCode, IsCode, CommitCode, At, Fits
  <1>4. /\ codes'[k].client # None /\ codes'[k].used = FALSE
        /\ \A x \in Code : x # k => codes'[x] = codes[x]
    BY <1>2, <1>3 DEF IInv, TypeOK
  <1>5. UNCHANGED <<sessions, tokens>>
    BY DEF CommitCode
  <1>6. GrantCode[k] = "none"
    BY <1>3, GrantViews
  <1>7. GrantCode' = [GrantCode EXCEPT ![k] = "fresh"]
    BY <1>3, <1>4 DEF GrantCode
  <1>8. UNCHANGED <<GrantSession, GrantOwner, GrantUsable>>
    BY <1>5 DEF GrantSession, GrantOwner, GrantUsable, Usable
  <1>9. Lifecycle!Grant(k)
    BY <1>6, <1>7, <1>8 DEF Lifecycle!Grant
  <1> QED BY <1>3, <1>9 DEF Lifecycle!Next

LEMMA ExchangeIsRedeem ==
    ASSUME IInv, Fam, OneInv, NEW p \in Coroutine, Current(p),
           p.kind = "exchange", p.pc = "commit",
           NEW k, NEW s, NEW T, ExchangeEffect(p, k, s, T)
    PROVE  Lifecycle!Next
  <1> USE DEF ExchangeEffect
  <1>1. k \in Code /\ ~codes[k].used /\ None \notin Client /\ None \notin Session
    BY ConstantsAssumption DEF Current, IsCode
  <1>2. GrantCode[k] = "fresh" /\ GrantSession[s] = "none"
    BY <1>1, GrantViews
  <1>3. GrantCode' = [GrantCode EXCEPT ![k] = "spent"]
    <2>1. codes'[k].client # None
      BY <1>1 DEF IsCode
    <2>2. GrantCode'[k] = "spent"
      BY <1>1, <2>1 DEF GrantCode
    <2>3. \A x \in Code : x # k => GrantCode'[x] = GrantCode[x]
      BY DEF GrantCode
    <2> QED BY <1>1, <2>2, <2>3, ViewsAreFunctions, PointUpdate
  <1>4. GrantSession' = [GrantSession EXCEPT ![s] = "live"]
    <2>1. sessions'[s].client # None /\ sessions'[s].revoked = FALSE
      BY <1>1
    <2>2. GrantSession'[s] = "live"
      BY <2>1 DEF GrantSession
    <2>3. \A x \in Session : x # s => GrantSession'[x] = GrantSession[x]
      BY DEF GrantSession
    <2> QED BY <2>2, <2>3, ViewsAreFunctions, PointUpdate
  <1>5. \A t \in T : t \in Token /\ GrantOwner[t] = {} /\ t \notin GrantUsable
    BY DEF GrantOwner, GrantUsable, IsToken, Usable
  <1>6. GrantOwner' = [t \in Token |-> IF t \in T THEN {s} ELSE GrantOwner[t]]
    BY <1>1 DEF GrantOwner
  <1>7. \A t \in Token : t \in GrantUsable' <=> t \in GrantUsable \/ t \in T
    <2>1. ASSUME NEW t \in T
          PROVE  t \in GrantUsable'
      BY <1>1, <2>1 DEF GrantUsable, Usable
    <2>2. ASSUME NEW t \in Token, t \notin T
          PROVE  t \in GrantUsable' <=> t \in GrantUsable
      <3>1. tokens'[t] = tokens[t]
        BY <2>2
      <3>2. CASE IsToken(t)
        <4>1. tokens[t].session \in Session /\ tokens[t].session # s
          BY <3>2 DEF IInv, TokensOK, IsSession
        <4>2. sessions'[tokens[t].session] = sessions[tokens[t].session]
          BY <4>1
        <4> QED BY <3>1, <4>2 DEF GrantUsable, Usable
      <3>3. CASE ~IsToken(t)
        BY <3>1, <3>3 DEF GrantUsable, Usable, IsToken
      <3> QED BY <3>2, <3>3
    <2> QED BY <2>1, <2>2
  <1>8. GrantUsable' = GrantUsable \cup T
    BY <1>7 DEF GrantUsable
  <1>9. Lifecycle!Redeem(k, s, T)
    BY <1>2, <1>3, <1>4, <1>5, <1>6, <1>8 DEF Lifecycle!Redeem
  <1> QED BY <1>1, <1>9 DEF Lifecycle!Next

LEMMA RefreshIsRotate ==
    ASSUME IInv, OneInv, NEW p \in Coroutine, Current(p),
           p.kind = "refresh", p.pc = "commit", p.event = "token.refreshed",
           NEW u, RefreshEffect(p, u)
    PROVE  Lifecycle!Next
  <1> USE DEF RefreshEffect
  <1>1. p.token \in Token /\ p.token \in GrantUsable
    BY DEF Current, GrantUsable, IsToken
  <1>2. GrantOwner[u] = {} /\ u \notin GrantUsable /\ u # p.token
    BY DEF GrantOwner, GrantUsable, Usable, IsToken
  <1>3. GrantOwner' = [GrantOwner EXCEPT ![u] = GrantOwner[p.token]]
    BY <1>1 DEF GrantOwner
  <1>4. \A t \in Token : t \in GrantUsable' <=>
           t = u \/ (t \in GrantUsable /\ t # p.token)
    <2>1. u \in GrantUsable'
      <3>1. /\ p.sid \in Session /\ p.sid # None
            /\ ~sessions[p.sid].revoked
        <4>1. IsSession(p.sid)
          BY DEF IInv, TokensOK, IsToken
        <4>2. Usable(p.token)
          BY DEF Current
        <4> QED BY <4>1, <4>2, ConstantsAssumption DEF Usable, IsSession
      <3>2. sessions'[p.sid].revoked = sessions[p.sid].revoked
        BY <3>1
      <3>3. tokens'[u].session = p.sid /\ ~tokens'[u].used /\ ~tokens'[u].revoked
        OBVIOUS
      <3> QED BY <3>1, <3>2, <3>3 DEF GrantUsable, Usable
    <2>2. p.token \notin GrantUsable'
      BY DEF GrantUsable, Usable
    <2>3. ASSUME NEW t \in Token, t # u, t # p.token
          PROVE  t \in GrantUsable' <=> t \in GrantUsable
      <3>1. tokens'[t] = tokens[t]
        BY <2>3
      <3>2. CASE IsToken(t)
        <4>1. tokens[t].session \in Session
          BY <3>2 DEF IInv, TokensOK, IsSession
        <4>2. sessions'[tokens[t].session].revoked
                 = sessions[tokens[t].session].revoked
          BY <4>1
        <4> QED BY <3>1, <4>2 DEF GrantUsable, Usable
      <3>3. CASE ~IsToken(t)
        BY <3>1, <3>3 DEF GrantUsable, Usable, IsToken
      <3> QED BY <3>2, <3>3
    <2> QED BY <1>2, <2>1, <2>2, <2>3
  <1>5. GrantUsable' = (GrantUsable \ {p.token}) \cup {u}
    BY <1>4 DEF GrantUsable
  <1>6. UNCHANGED <<GrantCode, GrantSession>>
    BY DEF GrantCode, GrantSession
  <1>7. Lifecycle!Rotate(p.token, u)
    BY <1>1, <1>2, <1>3, <1>5, <1>6 DEF Lifecycle!Rotate
  <1> QED BY <1>1, <1>7 DEF Lifecycle!Next

LEMMA RevocationIsRevoke ==
    ASSUME IInv, NEW S, RevokeEffect(S)
    PROVE  Lifecycle!Next
  <1> USE DEF RevokeEffect
  <1>1. \A s \in S : GrantSession[s] # "none"
    BY GrantViews
  <1>2. GrantSession' = [s \in Session |->
           IF s \in S THEN "revoked" ELSE GrantSession[s]]
    BY DEF GrantSession, IsSession
  <1>3. UNCHANGED <<GrantCode, GrantOwner>>
    BY DEF GrantCode, GrantOwner
  <1>4. \A t \in Token : t \in GrantUsable' <=>
           t \in GrantUsable /\ GrantOwner[t] \cap S = {}
    <2> SUFFICES ASSUME NEW t \in Token
                 PROVE  t \in GrantUsable' <=>
                           t \in GrantUsable /\ GrantOwner[t] \cap S = {}
      OBVIOUS
    <2>1. CASE ~IsToken(t)
      BY <2>1 DEF GrantUsable, Usable, IsToken
    <2>2. CASE IsToken(t) /\ tokens[t].session \in S
      BY <2>2 DEF GrantUsable, GrantOwner, Usable, IsToken
    <2>3. CASE IsToken(t) /\ tokens[t].session \notin S
      <3>1. /\ tokens'[t] = tokens[t]
            /\ tokens[t].session \in Session
        BY <2>3 DEF IInv, TokensOK, IsSession
      <3>2. sessions'[tokens[t].session] = sessions[tokens[t].session]
        BY <2>3, <3>1
      <3> QED BY <2>3, <3>1, <3>2 DEF GrantUsable, GrantOwner, Usable, IsToken
    <2> QED BY <2>1, <2>2, <2>3
  <1>5. GrantUsable' = {t \in GrantUsable : GrantOwner[t] \cap S = {}}
    BY <1>4 DEF GrantUsable
  <1>6. Lifecycle!Revoke(S)
    BY <1>1, <1>2, <1>3, <1>5 DEF Lifecycle!Revoke
  <1> QED BY <1>6 DEF Lifecycle!Next

LEMMA LifecycleStep ==
    ASSUME IInv, Fam, OneInv, [Next]_vars
    PROVE  [Lifecycle!Next]_(Lifecycle!vars)
  <1>1. CASE UNCHANGED <<clientRevoked, codes, sessions, tokens>>
    BY <1>1 DEF Lifecycle!vars, GrantCode, GrantSession, GrantOwner,
                GrantUsable, Usable
  <1>2. ASSUME NEW r \in Request, Commits(r)
        PROVE  Lifecycle!Next
    <2>1. PICK p \in Coroutine : p = reqs[r] /\ Fits(p) /\ Current(p)
      BY DEF IInv, TypeOK, OneInv
    <2>2. CASE CommitCode(r)
      BY <2>2, CodeIsGrant
    <2>3. CASE CommitExchange(r)
      <3>1. PICK k, s, T : ExchangeEffect(p, k, s, T)
        BY <2>1, <2>3, ExchangeHas
      <3>2. p.kind = "exchange" /\ p.pc = "commit"
        BY <2>1, <2>3 DEF CommitExchange, At
      <3> QED BY <2>1, <3>1, <3>2, ExchangeIsRedeem
    <2>4. CASE CommitRefresh(r)
      <3>1. PICK u : RefreshEffect(p, u)
        BY <2>1, <2>4, RefreshHas
      <3>2. p.kind = "refresh" /\ p.pc = "commit" /\ p.event = "token.refreshed"
        BY <2>1, <2>4 DEF CommitRefresh, At
      <3> QED BY <2>1, <3>1, <3>2, RefreshIsRotate
    <2>5. CASE \/ CommitReuse(r) \/ CommitRevoke(r)
               \/ CommitAdminClient(r) \/ CommitAdminSession(r)
      BY <2>5, RevokeHas, RevocationIsRevoke
    <2> QED BY <1>2, <2>2, <2>3, <2>4, <2>5 DEF Commits
  <1> QED BY <1>1, <1>2, StepKinds

\* Served one at a time, the coroutines of oauth.py and admin.py implement
\* GrantLifecycle: a code buys one session, a refresh token one successor,
\* and what is revoked buys nothing.
THEOREM Implementation == ASSUME OneAtATime PROVE Spec => ImplementsLifecycle
  <1>1. Init => Lifecycle!Init
    BY LifecycleInit
  <1>2. IInv /\ Fam /\ OneInv /\ [Next]_vars
           => [Lifecycle!Next]_(Lifecycle!vars)
    BY LifecycleStep
  <1> QED
    BY OneInvariance, <1>1, <1>2, PTL DEF Spec, ImplementsLifecycle, Lifecycle!Spec
=============================================================================
