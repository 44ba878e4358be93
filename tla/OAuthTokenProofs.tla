-------------------------- MODULE OAuthTokenProofs --------------------------
(* Theorems about OAuthToken, for every number of requests in flight.      *)
EXTENDS OAuthToken, TLAPS

(***************************************************************************)
(* The inductive invariant.  Rows: every row points to a row that exists,  *)
(* and grants no more than the row it comes from.  Fits: what a coroutine  *)
(* read agrees with the columns that never change, so it cannot be stale.  *)
(***************************************************************************)
IsCode(k)    == k \in Code /\ codes[k].client # None
IsSession(s) == s \in Session /\ sessions[s].client # None
IsToken(t)   == t \in Token /\ tokens[t].session # None
IsAccess(j)  == j \in Jti /\ access[j].client # None
Consented(s) == codes[sessions[s].code].scopes

FormOK == form.client # None => form.scopes \subseteq AllowedScopes[form.client]

CodesOK == \A k \in Code : IsCode(k) =>
    codes[k].scopes \subseteq AllowedScopes[codes[k].client]

SessionsOK == \A s \in Session : IsSession(s) =>
    /\ IsCode(sessions[s].code)
    /\ codes[sessions[s].code].client = sessions[s].client
    /\ sessions[s].scopes \subseteq Consented(s)

TokensOK == \A t \in Token : IsToken(t) =>
    /\ IsSession(tokens[t].session)
    /\ tokens[t].expires = sessions[tokens[t].session].expires

HeldOK == \A x \in held : IsCode(x) \/ IsToken(x)

AccessOK == \A j \in Jti : IsAccess(j) =>
    /\ IsSession(access[j].session)
    /\ access[j].client = sessions[access[j].session].client
    /\ access[j].scopes \subseteq Consented(access[j].session)

Fits(q) ==
    /\ q.kind \in {"decide", "adminClient"} => q.client # None
    /\ q.kind = "decide" => q.scopes \subseteq AllowedScopes[q.client]
    /\ q.kind = "exchange" => IsCode(q.code)
    /\ q.kind = "exchange" /\ q.pc \in {"commit", "audit", "respond"} =>
          /\ q.client = codes[q.code].client
          /\ q.scopes = codes[q.code].scopes
    /\ q.kind = "refresh" => IsToken(q.token)
    /\ q.kind = "revoke" => IsToken(q.token) \/ (q.token = None /\ IsAccess(q.jti))
    /\ q.kind \in {"refresh", "revoke"} /\ q.pc = "session" => q.token # None
    /\ q.kind \in {"refresh", "revoke"} /\ q.pc = "session" =>
          q.sid = tokens[q.token].session
    /\ q.kind = "revoke" /\ q.pc = "commit" /\ q.token # None =>
          q.sid = tokens[q.token].session
    /\ q.kind = "refresh" /\ q.pc \in {"commit", "audit", "respond"} =>
          /\ q.sid = tokens[q.token].session
          /\ q.client = sessions[q.sid].client
          /\ q.event = "token.refreshed" => q.scopes \subseteq Consented(q.sid)
    /\ q.kind = "validate" => IsAccess(q.jti)
    /\ q.kind = "validate" /\ q.pc \in {"session", "respond"} =>
          q.sid = access[q.jti].session
    /\ q.kind = "adminSession" => IsSession(q.sid)
    /\ q.event = "token.issued" => q.kind = "exchange" /\ q.pc \in {"audit", "respond"}
    /\ q.event = "token.refreshed" =>
          q.kind = "refresh" /\ q.pc \in {"commit", "audit", "respond"}
    /\ q.event = "token.issued" =>
          /\ IsSession(q.sid)
          /\ sessions[q.sid].code = q.code
    /\ q.minted # None => IsToken(q.minted)
    /\ q.event = "consent.granted" => q.kind = "decide"
    /\ q.event = "consent.granted" /\ q.pc # "commit" => IsCode(q.code)
    /\ q.pc = "client" => q.kind \in {"exchange", "refresh", "revoke"}
    /\ q.pc = "code" => q.kind = "exchange"
    /\ q.pc = "audit" => q.kind # "validate"
    /\ q.pc = "token" => q.kind \in {"refresh", "revoke"}

IInv == /\ TypeOK
        /\ FormOK /\ CodesOK /\ SessionsOK /\ TokensOK /\ HeldOK /\ AccessOK
        /\ \A r \in Request : Fits(reqs[r])


\* what no step does to a row that exists
Grows ==
    /\ \A k \in Code : IsCode(k) =>
          /\ codes'[k].client = codes[k].client
          /\ codes'[k].scopes = codes[k].scopes
    /\ \A s \in Session : IsSession(s) =>
          /\ sessions'[s].client = sessions[s].client
          /\ sessions'[s].code = sessions[s].code
          /\ sessions'[s].expires = sessions[s].expires
    /\ \A t \in Token : IsToken(t) =>
          /\ tokens'[t].session = tokens[t].session
          /\ tokens'[t].expires = tokens[t].expires
    /\ \A j \in Jti : IsAccess(j) => access'[j] = access[j]

-----------------------------------------------------------------------------
(* The coroutines keep fitting while the tables grow.                      *)

LEMMA FitsStable ==
    ASSUME IInv, Grows, NEW q \in Coroutine, Fits(q)
    PROVE  Fits(q)'
  <1>1. /\ IsCode(q.code) => IsCode(q.code)'
        /\ IsSession(q.sid) => IsSession(q.sid)'
        /\ IsToken(q.token) => IsToken(q.token)'
        /\ IsToken(q.minted) => IsToken(q.minted)'
        /\ IsAccess(q.jti) => IsAccess(q.jti)'
    BY DEF Grows, IsCode, IsSession, IsToken, IsAccess
  <1>2. ASSUME IsToken(q.token)
        PROVE  /\ tokens'[q.token].session = tokens[q.token].session
               /\ IsSession(tokens[q.token].session)
    BY <1>2 DEF Grows, IsToken, IInv, TokensOK
  <1>3. ASSUME NEW s \in Session, IsSession(s)
        PROVE  /\ sessions'[s].client = sessions[s].client
               /\ sessions'[s].code = sessions[s].code
               /\ Consented(s)' = Consented(s)
    BY <1>3 DEF Grows, IsSession, IsCode, IInv, SessionsOK, Consented
  <1>4. IsCode(q.code) => /\ codes'[q.code].client = codes[q.code].client
                          /\ codes'[q.code].scopes = codes[q.code].scopes
    BY DEF Grows, IsCode
  <1>5. IsAccess(q.jti) => access'[q.jti] = access[q.jti]
    BY DEF Grows, IsAccess
  <1>6. IsSession(tokens[q.token].session) =>
           tokens[q.token].session \in Session
    BY DEF IsSession
  <1>7. IsSession(q.sid) => q.sid \in Session
    BY DEF IsSession
  <1> QED BY <1>1, <1>2, <1>3, <1>4, <1>5, <1>6, <1>7 DEF Fits

LEMMA FitsOf ==
    ASSUME NEW r \in Request, NEW q, q = reqs'[r], Fits(q)'
    PROVE  Fits(reqs[r])'
  BY SMTT(60) DEF Fits, IsCode, IsSession, IsToken, IsAccess, Consented

LEMMA TablesStep ==
    ASSUME IInv, Grows, NEW r \in Request, NEW q \in Coroutine, Fits(q)',
           reqs' = [reqs EXCEPT ![r] = q],
           now' \in 0 .. MaxTime, form' \in FormRow, clientRevoked' \subseteq Client,
           codes' \in [Code -> CodeRow], sessions' \in [Session -> SessionRow],
           tokens' \in [Token -> TokenRow], revokedJti' \subseteq Jti,
           audit' \subseteq [event : Event, row : Row],
           held' \subseteq Code \cup Token, access' \in [Jti -> AccessRow],
           FormOK', CodesOK', SessionsOK', TokensOK', HeldOK', AccessOK'
    PROVE  IInv'
  <1>1. TypeOK'
    BY DEF IInv, TypeOK
  <1>2. ASSUME NEW p \in Request PROVE Fits(reqs[p])'
    <2>1. CASE p = r
      <3>1. reqs'[p] = q
        BY <2>1 DEF IInv, TypeOK
      <3>2. q = reqs'[p]
        BY <3>1
      <3> QED BY <2>1, <3>2, FitsOf
    <2>2. CASE p # r
      <3>1. reqs'[p] = reqs[p] /\ reqs[p] \in Coroutine /\ Fits(reqs[p])
        BY <2>2 DEF IInv, TypeOK
      <3>2. PICK u \in Coroutine : u = reqs[p]
        BY <3>1
      <3>3. Fits(u)
        BY <3>1, <3>2
      <3>4. Fits(u)'
        BY <3>2, <3>3, FitsStable
      <3>5. u = reqs'[p]
        BY <3>1, <3>2
      <3> QED BY <3>4, <3>5, FitsOf
    <2> QED BY <2>1, <2>2
  <1> QED BY <1>1, <1>2 DEF IInv

LEMMA LocalStep ==
    ASSUME IInv, NEW r \in Request, NEW q \in Coroutine, Fits(q),
           reqs' = [reqs EXCEPT ![r] = q],
           UNCHANGED <<now, form, db, audit, held, access>>
    PROVE  IInv'
  <1>1. Grows
    BY DEF Grows, db
  <1>2. Fits(q)'
    BY <1>1, FitsStable
  <1>3. TypeOK'
    BY DEF IInv, TypeOK, db
  <1>4. FormOK' /\ CodesOK' /\ SessionsOK' /\ TokensOK' /\ HeldOK' /\ AccessOK'
    BY DEF IInv, FormOK, CodesOK, SessionsOK, TokensOK, HeldOK, AccessOK, db,
           IsCode, IsSession, IsToken, IsAccess, Consented
  <1> QED BY <1>1, <1>2, <1>3, <1>4, TablesStep DEF TypeOK


LEMMA IdleFits ==
    /\ Idle \in Coroutine
    /\ Fits(Idle)
  BY ConstantsAssumption
     DEF Idle, Coroutine, Kind, Pc, Event, Proof, TokenStatus, Fits

-----------------------------------------------------------------------------
(* Steps that change nothing but their own coroutine.                      *)

\* the step changed coroutine r alone, into one that fits
Local(r) == /\ \E q \in Coroutine : Fits(q) /\ reqs' = [reqs EXCEPT ![r] = q]
            /\ UNCHANGED <<now, form, db, audit, held, access>>

LEMMA LocalIsEnough ==
    ASSUME IInv, NEW r \in Request, Local(r)
    PROVE  IInv'
  <1>1. PICK q \in Coroutine : Fits(q) /\ reqs' = [reqs EXCEPT ![r] = q]
    BY DEF Local
  <1> QED BY <1>1, LocalStep DEF Local

LEMMA SubmitStep ==
    ASSUME IInv, NEW r \in Request, Submit(r)
    PROVE  IInv'
  <1> USE ConstantsAssumption
  <1>1. TypeOK
    BY DEF IInv
  <1>2. PICK q : q = reqs'[r]
    OBVIOUS
  <1>3. ASSUME NEW allow \in BOOLEAN,
               SubmitDecision(r, allow)
        PROVE  Local(r)
    <2>1. q \in Coroutine
      BY ZenonT(40), <1>1, <1>2, <1>3
         DEF SubmitDecision, TypeOK, Coroutine, Idle, Kind, Pc, Event, Proof, TokenStatus, FormRow, AfterCommit
    <2>2. Fits(q)
      BY <1>1, <1>2, <1>3
         DEF SubmitDecision, TypeOK, IInv, Coroutine, Idle, Fits, FormOK, FormRow, AfterCommit
    <2> QED BY <1>1, <1>2, <1>3, <2>1, <2>2 DEF SubmitDecision, TypeOK, Local
  <1>4. ASSUME NEW c \in Client, NEW k \in Code, NEW proof \in Forms,
               SubmitExchange(r, c, k, proof)
        PROVE  Local(r)
    <2>1. IsCode(k)
      BY <1>4 DEF SubmitExchange, IInv, HeldOK, IsToken, IsCode
    <2>2. (c \in clientRevoked \/ codes[k].used) \in BOOLEAN
      BY <1>1 DEF TypeOK, CodeRow
    <2> DEFINE p == [Idle EXCEPT !.kind = "exchange", !.pc = "client",
                        !.client = c, !.code = k, !.proof = proof,
                        !.late = c \in clientRevoked \/ codes[k].used]
    <2>0. q = p
      BY <1>1, <1>2, <1>4 DEF SubmitExchange, TypeOK
    <2>3. q \in Coroutine
      BY <2>0, <2>2 DEF Coroutine, Idle, Kind, Pc, Event, Proof, TokenStatus
    <2>4. q.kind = "exchange" /\ q.pc = "client" /\ q.event = "none" /\ q.code = k
          /\ q.minted = None
      BY <2>0 DEF Idle
    <2> HIDE DEF p
    <2>5. Fits(q)
      BY <2>1, <2>4 DEF Fits
    <2> QED BY <1>1, <1>2, <1>4, <2>3, <2>5 DEF SubmitExchange, TypeOK, Local
  <1>5. ASSUME NEW c \in Client, NEW t \in Token, NEW S \in SUBSET Scope,
               NEW proof \in Forms, SubmitRefresh(r, c, t, S, proof)
        PROVE  Local(r)
    <2>1. IsToken(t)
      BY <1>5 DEF SubmitRefresh, IInv, HeldOK, IsToken, IsCode
    <2>2. (c \in clientRevoked \/ Dead(t)) \in BOOLEAN
      BY <1>1, <2>1 DEF IInv, TokensOK, IsToken, IsSession, TypeOK, TokenRow,
                        SessionRow, Dead
    <2> DEFINE p == [Idle EXCEPT !.kind = "refresh", !.pc = "client",
                        !.client = c, !.token = t, !.scopes = S, !.proof = proof,
                        !.late = c \in clientRevoked \/ Dead(t)]
    <2>0. q = p
      BY <1>1, <1>2, <1>5 DEF SubmitRefresh, TypeOK
    <2>3. q \in Coroutine
      BY <2>0, <2>2
         DEF Coroutine, Idle, Kind, Pc, Event, Proof, TokenStatus
    <2>4. q.kind = "refresh" /\ q.pc = "client" /\ q.event = "none" /\ q.token = t
          /\ q.minted = None
      BY <2>0 DEF Idle
    <2> HIDE DEF p
    <2>5. Fits(q)
      BY <2>1, <2>4 DEF Fits
    <2> QED BY <1>1, <1>2, <1>5, <2>3, <2>5 DEF SubmitRefresh, TypeOK, Local
  <1>6. ASSUME NEW c \in Client, NEW t \in Token, NEW proof \in Forms,
               SubmitRevoke(r, c, t, proof)
        PROVE  Local(r)
    <2>1. IsToken(t)
      BY <1>6 DEF SubmitRevoke, IInv, HeldOK, IsToken, IsCode
    <2> DEFINE p == [Idle EXCEPT !.kind = "revoke", !.pc = "client",
                        !.client = c, !.token = t, !.proof = proof]
    <2>0. q = p
      BY <1>1, <1>2, <1>6 DEF SubmitRevoke, TypeOK
    <2>3. q \in Coroutine
      BY <2>0 DEF Coroutine, Idle, Kind, Pc, Event, Proof, TokenStatus
    <2>4. q.kind = "revoke" /\ q.pc = "client" /\ q.event = "none" /\ q.token = t
          /\ q.minted = None
      BY <2>0 DEF Idle
    <2> HIDE DEF p
    <2>5. Fits(q)
      BY <2>1, <2>4 DEF Fits
    <2> QED BY <1>1, <1>2, <1>6, <2>3, <2>5 DEF SubmitRevoke, TypeOK, Local
  <1>7. ASSUME NEW c \in Client, NEW j \in Jti, NEW proof \in Forms,
               SubmitRevokeAccess(r, c, j, proof)
        PROVE  Local(r)
    <2> DEFINE p == [Idle EXCEPT !.kind = "revoke", !.pc = "client", !.client = c,
                                !.jti = j, !.proof = proof]
    <2>0. q = p /\ IsAccess(j)
      BY <1>1, <1>2, <1>7 DEF SubmitRevokeAccess, TypeOK, IsAccess
    <2>1. q \in Coroutine
      BY <1>1, <2>0 DEF Coroutine, Idle, Kind, Pc, Event, Proof, TokenStatus, TypeOK
    <2>2. Fits(q)
      BY <2>0 DEF Idle, Fits, IsAccess
    <2> HIDE DEF p
    <2> QED BY <1>1, <1>2, <1>7, <2>1, <2>2 DEF SubmitRevokeAccess, TypeOK, Local
  <1>8. ASSUME NEW j \in Jti,
               PresentAccess(r, j)
        PROVE  Local(r)
    <2> DEFINE dead == \/ j \in revokedJti
                       \/ sessions[access[j].session].revoked
               p == [Idle EXCEPT !.kind = "validate", !.pc = "jti", !.jti = j,
                                 !.late = dead]
    <2>0. q = p
      BY <1>1, <1>2, <1>8 DEF PresentAccess, TypeOK
    <2>3. IsAccess(j) /\ dead \in BOOLEAN
      BY <1>1, <1>8 DEF PresentAccess, IInv, AccessOK, IsAccess, IsSession, TypeOK,
                        SessionRow
    <2>1. q \in Coroutine
      <3> HIDE DEF dead
      <3> QED BY <2>0, <2>3 DEF Coroutine, Idle, Kind, Pc, Event, Proof, TokenStatus
    <2>2. Fits(q)
      BY <2>0, <2>3 DEF Idle, Fits
    <2> HIDE DEF p
    <2> QED BY <1>1, <1>2, <1>8, <2>1, <2>2 DEF PresentAccess, TypeOK, Local
  <1>9. ASSUME NEW c \in Client,
               AdminRevokeClient(r, c)
        PROVE  Local(r)
    <2> DEFINE p == [Idle EXCEPT !.kind = "adminClient", !.pc = "commit",
                                !.client = c, !.event = "client.revoked"]
    <2>0. q = p /\ c # None
      BY <1>1, <1>2, <1>9 DEF AdminRevokeClient, TypeOK
    <2>1. q \in Coroutine
      BY <1>1, <2>0 DEF Coroutine, Idle, Kind, Pc, Event, Proof, TokenStatus, TypeOK
    <2>2. Fits(q)
      BY <2>0 DEF Idle, Fits
    <2> HIDE DEF p
    <2> QED BY <1>1, <1>2, <1>9, <2>1, <2>2 DEF AdminRevokeClient, TypeOK, Local
  <1>10. ASSUME NEW s \in Session,
               AdminRevokeSession(r, s)
        PROVE  Local(r)
    <2> DEFINE p == [Idle EXCEPT !.kind = "adminSession", !.pc = "commit",
                                !.sid = s, !.event = "session.revoked"]
    <2>0. q = p /\ IsSession(s)
      BY <1>1, <1>2, <1>10 DEF AdminRevokeSession, TypeOK, IsSession
    <2>1. q \in Coroutine
      BY <1>1, <2>0 DEF Coroutine, Idle, Kind, Pc, Event, Proof, TokenStatus, TypeOK
    <2>2. Fits(q)
      BY <2>0 DEF Idle, Fits, IsSession
    <2> HIDE DEF p
    <2> QED BY <1>1, <1>2, <1>10, <2>1, <2>2 DEF AdminRevokeSession, TypeOK, Local
  <1> QED
    BY <1>3, <1>4, <1>5, <1>6, <1>7, <1>8, <1>9, <1>10,
       LocalIsEnough DEF Submit

LEMMA AbandonStep ==
    ASSUME IInv, NEW r \in Request, Finish(r),
           UNCHANGED <<now, form, db, audit, held, access>>
    PROVE  IInv'
  BY IdleFits, LocalStep DEF Finish

LEMMA ReadStep ==
    ASSUME IInv, NEW r \in Request,
           \/ ClientAuth(r) \/ ReadCode(r) \/ ReadToken(r) \/ ReadSession(r)
           \/ ReadSessionToRevoke(r) \/ CheckJti(r) \/ CheckSession(r)
    PROVE  IInv'
  <1> USE ConstantsAssumption
  <1>1. TypeOK /\ reqs[r] \in Coroutine /\ Fits(reqs[r])
    BY DEF IInv, TypeOK
  <1>2. PICK q : q = reqs'[r]
    OBVIOUS
  <1>3. PICK p \in Coroutine : p = reqs[r]
    BY <1>1
  <1>4. Fits(p)
    BY <1>1, <1>3
  <1>5. CASE Finish(r)
    <2>1. UNCHANGED <<now, form, db, audit, held, access>>
      BY DEF ClientAuth, ReadCode, ReadToken, ReadSession,
             ReadSessionToRevoke, CheckJti, CheckSession
    <2> QED BY <1>5, <2>1, AbandonStep
  <1>6. CASE ClientAuth(r) /\ ~Finish(r)
    <2>1. reqs' = [reqs EXCEPT ![r] = [p EXCEPT
                      !.pc = IF p.kind = "exchange" THEN "code" ELSE "token"]]
          /\ p.pc = "client"
      BY <1>1, <1>3, <1>6 DEF ClientAuth, Goto, TypeOK
    <2>2. q = [p EXCEPT !.pc = IF p.kind = "exchange" THEN "code" ELSE "token"]
      BY <1>1, <1>2, <2>1 DEF TypeOK
    <2>3. q \in Coroutine
      BY <2>2 DEF Coroutine, Pc
    <2>4. Fits(q)
      BY <1>4, <2>1, <2>2 DEF Fits, Coroutine
    <2> QED
      BY <1>6, <2>1, <2>2, <2>3, <2>4, LocalIsEnough DEF Local, ClientAuth
  <1>7. CASE ReadCode(r) /\ ~Finish(r)
    <2>1. /\ reqs' = [reqs EXCEPT ![r] = [p EXCEPT !.pc = "commit",
                                            !.scopes = codes[p.code].scopes]]
          /\ p.kind = "exchange" /\ p.pc = "code"
          /\ codes[p.code].client = p.client
      BY <1>1, <1>3, <1>7 DEF ReadCode, At, CodeRejected, TypeOK
    <2>2. q = [p EXCEPT !.pc = "commit", !.scopes = codes[p.code].scopes]
      BY <1>1, <1>2, <2>1 DEF TypeOK
    <2>3. IsCode(p.code)
      BY <1>4, <2>1 DEF Fits
    <2>4. q \in Coroutine
      BY ZenonT(40), <1>1, <2>2, <2>3 DEF Coroutine, Pc, IsCode, TypeOK, CodeRow
    <2>5. Fits(q)
      BY <1>4, <2>1, <2>2, <2>3 DEF Fits, Coroutine
    <2> QED
      BY <1>7, <2>1, <2>2, <2>4, <2>5, LocalIsEnough DEF Local, ReadCode
  <1>8. CASE ReadToken(r) /\ ~Finish(r) /\ p.token = None
    <2>1. reqs' = [reqs EXCEPT ![r] = [p EXCEPT !.pc = "commit"]]
          /\ p.pc = "token"
      BY <1>1, <1>3, <1>8 DEF ReadToken, Goto, TypeOK
    <2>2. q = [p EXCEPT !.pc = "commit"]
      BY <1>1, <1>2, <2>1 DEF TypeOK
    <2>3. q \in Coroutine
      BY <2>2 DEF Coroutine, Pc
    <2>4. p.kind = "revoke"
      BY <1>4, <1>8, <2>1 DEF Fits, IsToken
    <2>5. Fits(q)
      <3>1. q.token = None
        BY <1>8, <2>2 DEF Coroutine
      <3> QED BY <1>4, <2>1, <2>2, <2>4, <3>1 DEF Fits, Coroutine
    <2> QED
      BY <1>8, <2>1, <2>2, <2>3, <2>5, LocalIsEnough DEF Local, ReadToken
  <1>9. CASE ReadToken(r) /\ ~Finish(r) /\ p.token # None
    <2>1. /\ reqs' = [reqs EXCEPT ![r] = [p EXCEPT !.pc = "session",
                         !.sid = tokens[p.token].session,
                         !.old = Status(tokens[p.token])]]
          /\ p.pc = "token"
      BY <1>1, <1>3, <1>9 DEF ReadToken, TypeOK
    <2>2. q = [p EXCEPT !.pc = "session", !.sid = tokens[p.token].session,
                        !.old = Status(tokens[p.token])]
      BY <1>1, <1>2, <2>1 DEF TypeOK
    <2>3. IsToken(p.token)
      BY <1>4, <1>9, <2>1 DEF Fits
    <2>4. q \in Coroutine
      <3>1. tokens[p.token] \in TokenRow
        BY <1>1, <2>3 DEF IsToken, TypeOK
      <3>2. /\ tokens[p.token].session \in Session \cup {None}
            /\ Status(tokens[p.token]) \in TokenStatus
        BY <3>1 DEF TokenRow, Status, TokenStatus
      <3> QED BY <2>2, <3>2 DEF Coroutine, Pc
    <2>5. Fits(q)
      BY <1>4, <2>1, <2>2, <2>3 DEF Fits, Coroutine, IsToken
    <2> QED
      BY <1>9, <2>1, <2>2, <2>4, <2>5, LocalIsEnough DEF Local, ReadToken
  <1>10. CASE ReadSession(r) /\ ~Finish(r)
    <2> DEFINE e == IF p.old = "used" THEN "reuse_detected"
                                      ELSE "token.refreshed"
    <2>1. /\ reqs' = [reqs EXCEPT ![r] = [p EXCEPT !.pc = "commit",
                         !.seen = sessions[p.sid].scopes, !.event = e]]
          /\ p.kind = "refresh" /\ p.pc = "session"
          /\ ~RefreshRejected(p, sessions[p.sid])
      BY <1>1, <1>3, <1>10 DEF ReadSession, At, TypeOK
    <2>2. q = [p EXCEPT !.pc = "commit", !.seen = sessions[p.sid].scopes,
                        !.event = e]
      BY <1>1, <1>2, <2>1 DEF TypeOK
    <2>3. p.sid = tokens[p.token].session /\ IsToken(p.token) /\ IsSession(p.sid)
      BY <1>4, <2>1 DEF Fits, IInv, TokensOK, IsToken
    <2>4. q \in Coroutine
      <3>1. sessions[p.sid] \in SessionRow
        BY <1>1, <2>3 DEF IsSession, TypeOK
      <3>2. sessions[p.sid].scopes \in SUBSET Scope /\ e \in Event
        BY <3>1 DEF SessionRow, Event
      <3> HIDE DEF e
      <3> QED BY <2>2, <3>2 DEF Coroutine, Pc
    <2>5. p.client = sessions[p.sid].client
      BY <2>1 DEF RefreshRejected
    <2>6. e = "token.refreshed" => p.scopes \subseteq Consented(p.sid)
      BY <2>1, <2>3 DEF RefreshRejected, Coroutine, TokenStatus, IInv,
                        SessionsOK, IsSession
    <2>7. Fits(q)
      <3>1. /\ q.kind = "refresh" /\ q.pc = "commit" /\ q.token = p.token
            /\ q.sid = p.sid /\ q.client = p.client /\ q.scopes = p.scopes
            /\ q.minted = p.minted
            /\ q.event \in {"reuse_detected", "token.refreshed"}
            /\ q.event = "token.refreshed" => e = "token.refreshed"
        BY <2>1, <2>2 DEF Coroutine
      <3>2. q.event = "token.refreshed" => q.scopes \subseteq Consented(q.sid)
        BY <2>6, <3>1
      <3>3. q.minted = None \/ IsToken(q.minted)
        BY <1>4, <2>1, <3>1 DEF Fits, Coroutine
      <3> HIDE DEF e
      <3> QED BY <2>3, <2>5, <3>1, <3>2, <3>3 DEF Fits
    <2> QED
      BY <1>10, <2>1, <2>2, <2>4, <2>7, LocalIsEnough DEF Local, ReadSession
  <1>11. CASE ReadSessionToRevoke(r) /\ ~Finish(r)
    <2>1. /\ reqs' = [reqs EXCEPT ![r] = [p EXCEPT !.pc = "commit",
                                             !.event = "session.revoked"]]
          /\ p.kind = "revoke" /\ p.pc = "session"
      BY <1>1, <1>3, <1>11 DEF ReadSessionToRevoke, At, TypeOK
    <2>2. q = [p EXCEPT !.pc = "commit", !.event = "session.revoked"]
      BY <1>1, <1>2, <2>1 DEF TypeOK
    <2>3. q \in Coroutine
      BY <2>2 DEF Coroutine, Pc, Event
    <2>4. Fits(q)
      BY <1>4, <2>1, <2>2 DEF Fits, Coroutine
    <2> QED
      BY <1>11, <2>1, <2>2, <2>3, <2>4, LocalIsEnough
         DEF Local, ReadSessionToRevoke
  <1>12. CASE CheckJti(r) /\ ~Finish(r)
    <2>1. /\ reqs' = [reqs EXCEPT ![r] = [p EXCEPT !.pc = "session",
                                             !.sid = access[p.jti].session]]
          /\ p.kind = "validate" /\ p.pc = "jti"
      BY <1>1, <1>3, <1>12 DEF CheckJti, At, TypeOK
    <2>2. q = [p EXCEPT !.pc = "session", !.sid = access[p.jti].session]
      BY <1>1, <1>2, <2>1 DEF TypeOK
    <2>3. IsAccess(p.jti)
      BY <1>4, <2>1 DEF Fits
    <2>4. q \in Coroutine
      BY ZenonT(40), <1>1, <2>2, <2>3 DEF Coroutine, Pc, IsAccess, TypeOK, AccessRow
    <2>5. Fits(q)
      BY <1>4, <2>1, <2>2, <2>3 DEF Fits, Coroutine
    <2> QED
      BY <1>12, <2>1, <2>2, <2>4, <2>5, LocalIsEnough DEF Local, CheckJti
  <1>13. CASE CheckSession(r) /\ ~Finish(r)
    <2>1. /\ reqs' = [reqs EXCEPT ![r] = [p EXCEPT !.pc = "respond",
                                             !.scopes = access[p.jti].scopes]]
          /\ p.kind = "validate" /\ p.pc = "session"
      BY <1>1, <1>3, <1>13 DEF CheckSession, At, TypeOK
    <2>2. q = [p EXCEPT !.pc = "respond", !.scopes = access[p.jti].scopes]
      BY <1>1, <1>2, <2>1 DEF TypeOK
    <2>3. IsAccess(p.jti)
      BY <1>4, <2>1 DEF Fits
    <2>4. q \in Coroutine
      BY ZenonT(40), <1>1, <2>2, <2>3 DEF Coroutine, Pc, IsAccess, TypeOK, AccessRow
    <2>5. Fits(q)
      BY <1>4, <2>1, <2>2, <2>3 DEF Fits, Coroutine
    <2> QED
      BY <1>13, <2>1, <2>2, <2>4, <2>5, LocalIsEnough DEF Local, CheckSession
  <1> QED
    BY <1>5, <1>6, <1>7, <1>8, <1>9, <1>10, <1>11, <1>12, <1>13

-----------------------------------------------------------------------------
(* Steps that only set revoked_at.                                         *)

OnlyRevokes ==
    /\ sessions' \in [Session -> SessionRow]
    /\ tokens' \in [Token -> TokenRow]
    /\ \A s \in Session :
          /\ sessions'[s].client = sessions[s].client
          /\ sessions'[s].code = sessions[s].code
          /\ sessions'[s].scopes = sessions[s].scopes
          /\ sessions'[s].expires = sessions[s].expires
    /\ \A t \in Token :
          /\ tokens'[t].session = tokens[t].session
          /\ tokens'[t].expires = tokens[t].expires
    /\ clientRevoked' \subseteq Client
    /\ revokedJti' \subseteq Jti
    /\ UNCHANGED <<now, form, codes, audit, held, access>>

LEMMA RevokeStep ==
    ASSUME IInv, OnlyRevokes, NEW r \in Request, NEW q \in Coroutine, Fits(q),
           reqs' = [reqs EXCEPT ![r] = q]
    PROVE  IInv'
  <1>1. Grows
    BY DEF Grows, OnlyRevokes
  <1>2. Fits(q)'
    BY <1>1, FitsStable
  <1>3. /\ now' \in 0 .. MaxTime /\ form' \in FormRow
        /\ codes' \in [Code -> CodeRow] /\ audit' \subseteq [event : Event, row : Row]
        /\ held' \subseteq Code \cup Token /\ access' \in [Jti -> AccessRow]
    BY DEF IInv, TypeOK, OnlyRevokes
  <1>4. \A s : /\ IsSession(s)' <=> IsSession(s)
               /\ IsSession(s) => sessions'[s].code = sessions[s].code
    BY DEF OnlyRevokes, IsSession
  <1>5. /\ \A k : IsCode(k)' <=> IsCode(k)
        /\ \A t : IsToken(t)' <=> IsToken(t)
        /\ \A j : IsAccess(j)' <=> IsAccess(j)
    BY DEF OnlyRevokes, IsCode, IsToken, IsAccess
  <1>6. FormOK' /\ CodesOK' /\ HeldOK'
    BY <1>5 DEF OnlyRevokes, IInv, FormOK, CodesOK, HeldOK
  <1>7. SessionsOK'
    BY <1>4, <1>5 DEF OnlyRevokes, IInv, SessionsOK, IsSession, Consented
  <1>8. TokensOK'
    BY <1>4, <1>5 DEF OnlyRevokes, IInv, TokensOK, IsSession, IsToken
  <1>9. AccessOK'
    BY <1>4, <1>5 DEF OnlyRevokes, IInv, AccessOK, IsSession, IsAccess, Consented
  <1> QED
    BY <1>1, <1>2, <1>3, <1>6, <1>7, <1>8, <1>9, TablesStep DEF OnlyRevokes

LEMMA RevokedSessionRow ==
    ASSUME NEW row \in SessionRow
    PROVE  LET new == [row EXCEPT !.revoked = TRUE]
           IN  /\ new \in SessionRow
               /\ new.client = row.client /\ new.code = row.code
               /\ new.scopes = row.scopes /\ new.expires = row.expires
  BY DEF SessionRow

LEMMA RevokedTokenRow ==
    ASSUME NEW row \in TokenRow
    PROVE  LET new == [row EXCEPT !.revoked = TRUE]
           IN  /\ new \in TokenRow
               /\ new.session = row.session /\ new.expires = row.expires
  BY DEF TokenRow

LEMMA RevocationStep ==
    ASSUME IInv, NEW r \in Request,
           \/ CommitReuse(r) \/ CommitRevoke(r) \/ CommitRevokeAccess(r)
           \/ CommitAdminClient(r) \/ CommitAdminSession(r)
    PROVE  IInv' /\ OnlyRevokes
  <1> USE ConstantsAssumption
  <1>1. TypeOK /\ reqs[r] \in Coroutine /\ Fits(reqs[r])
    BY DEF IInv, TypeOK
  <1>2. PICK p \in Coroutine : p = reqs[r]
    BY <1>1
  <1>3. Fits(p)
    BY <1>1, <1>2
  <1>4. ASSUME NEW s
        PROVE  /\ RevokeSession(s) \in [Session -> SessionRow]
               /\ \A x \in Session :
                     /\ RevokeSession(s)[x].client = sessions[x].client
                     /\ RevokeSession(s)[x].code = sessions[x].code
                     /\ RevokeSession(s)[x].scopes = sessions[x].scopes
                     /\ RevokeSession(s)[x].expires = sessions[x].expires
    <2>1. \A x \in Session : sessions[x] \in SessionRow
      BY <1>1 DEF TypeOK
    <2>2. \A x \in Session : RevokeSession(s)[x] =
             IF x = s THEN [sessions[x] EXCEPT !.revoked = TRUE] ELSE sessions[x]
      BY <1>1 DEF RevokeSession, TypeOK
    <2>3. \A x \in Session : RevokeSession(s)[x] \in SessionRow
      BY <2>1, <2>2, RevokedSessionRow
    <2>4. RevokeSession(s) \in [Session -> SessionRow]
      BY <1>1, <2>3 DEF RevokeSession, TypeOK
    <2> QED BY <2>1, <2>2, <2>4, RevokedSessionRow
  <1>5. ASSUME NEW S \in SUBSET Token,
               tokens' = [t \in Token |->
                  IF t \in S THEN [tokens[t] EXCEPT !.revoked = TRUE]
                             ELSE tokens[t]]
        PROVE  /\ tokens' \in [Token -> TokenRow]
               /\ \A t \in Token : /\ tokens'[t].session = tokens[t].session
                                   /\ tokens'[t].expires = tokens[t].expires
    <2>1. \A t \in Token : tokens[t] \in TokenRow
      BY <1>1 DEF TypeOK
    <2>2. \A t \in Token : tokens'[t] \in TokenRow
      BY <1>5, <2>1, RevokedTokenRow
    <2> QED BY <1>5, <2>1, <2>2, RevokedTokenRow
  <1>11. ASSUME NEW f, RevokeFamily(f)
         PROVE  /\ tokens' \in [Token -> TokenRow]
                /\ \A t \in Token : /\ tokens'[t].session = tokens[t].session
                                    /\ tokens'[t].expires = tokens[t].expires
    <2>1. tokens' = [t \in Token |->
             IF t \in {u \in Token : tokens[u].family = f}
             THEN [tokens[t] EXCEPT !.revoked = TRUE] ELSE tokens[t]]
      BY <1>11 DEF RevokeFamily
    <2> QED BY <2>1, <1>5
  <1>6. ASSUME NEW pc \in Pc, pc = "audit"
        PROVE  [p EXCEPT !.pc = pc] \in Coroutine
    BY DEF Coroutine
  <1>7. CASE CommitReuse(r) \/ CommitRevoke(r)
    <2>1. OnlyRevokes
      BY <1>1, <1>4, <1>11, <1>7
         DEF CommitReuse, CommitRevoke, OnlyRevokes, TypeOK
    <2>2. reqs' = [reqs EXCEPT ![r] = [p EXCEPT !.pc = "audit"]]
          /\ p.pc = "commit" /\ p.kind \in {"refresh", "revoke"}
      BY <1>1, <1>2, <1>7
         DEF CommitReuse, CommitRevoke, At, Goto, AfterCommit, TypeOK
    <2>3. PICK q \in Coroutine : q = [p EXCEPT !.pc = "audit"]
      BY <1>6 DEF Pc
    <2>4. Fits(q)
      BY <1>3, <2>2, <2>3 DEF Fits, Coroutine
    <2> QED BY <2>1, <2>2, <2>3, <2>4, RevokeStep
  <1>8. CASE CommitRevokeAccess(r)
    <2>1. reqs[r].jti \in Jti
      BY <1>1, <1>8 DEF CommitRevokeAccess, Coroutine
    <2>2. OnlyRevokes
      BY <1>1, <1>8, <2>1 DEF CommitRevokeAccess, OnlyRevokes, TypeOK
    <2> QED BY <1>8, <2>2, IdleFits, RevokeStep DEF CommitRevokeAccess, Finish
  <1>9. CASE CommitAdminClient(r)
    <2>1. /\ RevokeSessionsOf(p.client) \in [Session -> SessionRow]
          /\ \A x \in Session :
                /\ RevokeSessionsOf(p.client)[x].client = sessions[x].client
                /\ RevokeSessionsOf(p.client)[x].code = sessions[x].code
                /\ RevokeSessionsOf(p.client)[x].scopes = sessions[x].scopes
                /\ RevokeSessionsOf(p.client)[x].expires = sessions[x].expires
      <3>1. \A x \in Session : sessions[x] \in SessionRow
        BY <1>1 DEF TypeOK
      <3>2. \A x \in Session : RevokeSessionsOf(p.client)[x] \in SessionRow
        BY <3>1, RevokedSessionRow DEF RevokeSessionsOf
      <3> QED BY <3>1, <3>2, RevokedSessionRow DEF RevokeSessionsOf
    <2>2. p.client \in Client
      BY <1>2, <1>3, <1>9 DEF CommitAdminClient, At, Fits, Coroutine
    <2>3. OnlyRevokes
      BY <1>1, <1>2, <1>9, <2>1, <2>2
         DEF CommitAdminClient, OnlyRevokes, TypeOK
    <2>4. reqs' = [reqs EXCEPT ![r] = [p EXCEPT !.pc = "audit"]]
          /\ p.kind = "adminClient"
      BY <1>1, <1>2, <1>9 DEF CommitAdminClient, At, Goto, AfterCommit, TypeOK
    <2>5. PICK q \in Coroutine : q = [p EXCEPT !.pc = "audit"]
      BY <1>6 DEF Pc
    <2>6. Fits(q)
      BY <1>3, <2>4, <2>5 DEF Fits, Coroutine
    <2> QED BY <2>3, <2>4, <2>5, <2>6, RevokeStep
  <1>10. CASE CommitAdminSession(r)
    <2>1. /\ tokens' \in [Token -> TokenRow]
          /\ \A t \in Token : /\ tokens'[t].session = tokens[t].session
                              /\ tokens'[t].expires = tokens[t].expires
      <3>1. tokens' = [t \in Token |->
               IF t \in {u \in Token : tokens[u].session = reqs[r].sid}
               THEN [tokens[t] EXCEPT !.revoked = TRUE] ELSE tokens[t]]
        BY <1>10 DEF CommitAdminSession
      <3> QED BY ZenonT(40), <3>1, <1>5
    <2>2. OnlyRevokes
      BY <1>1, <1>4, <1>10, <2>1 DEF CommitAdminSession, OnlyRevokes, TypeOK
    <2>3. reqs' = [reqs EXCEPT ![r] = [p EXCEPT !.pc = "audit"]]
          /\ p.kind = "adminSession"
      BY <1>1, <1>2, <1>10 DEF CommitAdminSession, At, Goto, AfterCommit, TypeOK
    <2>4. PICK q \in Coroutine : q = [p EXCEPT !.pc = "audit"]
      BY <1>6 DEF Pc
    <2>5. Fits(q)
      BY <1>3, <2>3, <2>4 DEF Fits, Coroutine
    <2> QED BY <2>2, <2>3, <2>4, <2>5, RevokeStep
  <1> QED BY <1>7, <1>8, <1>9, <1>10

-----------------------------------------------------------------------------
(* Steps that add rows.                                                    *)

LEMMA CommitCodeStep ==
    ASSUME IInv, NEW r \in Request, CommitCode(r)
    PROVE  IInv' /\ Grows
  <1> USE ConstantsAssumption
  <1>1. TypeOK /\ reqs[r] \in Coroutine /\ Fits(reqs[r])
    BY DEF IInv, TypeOK
  <1>2. PICK p \in Coroutine : p = reqs[r]
    BY <1>1
  <1>3. /\ Fits(p)
        /\ p.kind = "decide" /\ p.client \in Client
        /\ p.scopes \subseteq AllowedScopes[p.client]
    BY <1>1, <1>2 DEF CommitCode, At, Fits, Coroutine
  <1>4. PICK k \in FreshCode :
          /\ codes' = [codes EXCEPT ![k] =
                [client |-> p.client, scopes |-> p.scopes,
                 expires |-> now + CodeTTL, used |-> FALSE]]
          /\ reqs' = [reqs EXCEPT ![r] = [p EXCEPT !.code = k, !.pc = "audit"]]
    BY <1>1, <1>2 DEF CommitCode, AfterCommit, TypeOK
  <1>5. k \in Code /\ codes[k].client = None
    BY <1>4 DEF FreshCode
  <1>6. now + CodeTTL \in Time
    BY <1>1 DEF TypeOK, Time
  <1>7. codes' \in [Code -> CodeRow] /\ codes'[k].client = p.client
        /\ codes'[k].scopes = p.scopes
        /\ \A x \in Code : x # k => codes'[x] = codes[x]
    BY <1>1, <1>3, <1>4, <1>5, <1>6 DEF TypeOK, CodeRow, Coroutine
  <1>8. Grows
    BY <1>5, <1>7 DEF Grows, CommitCode, IsCode
  <1>9. /\ \A x : IsCode(x)' <=> (IsCode(x) \/ x = k)
        /\ \A x : IsSession(x)' <=> IsSession(x)
        /\ \A x : IsToken(x)' <=> IsToken(x)
        /\ \A x : IsAccess(x)' <=> IsAccess(x)
    BY <1>3, <1>5, <1>7 DEF CommitCode, IsCode, IsSession, IsToken, IsAccess
  <1>10. CodesOK'
    BY <1>3, <1>5, <1>7, <1>9 DEF IInv, CodesOK, IsCode
  <1>11. SessionsOK' /\ TokensOK' /\ AccessOK' /\ HeldOK' /\ FormOK'
    <2>1. \A s \in Session : IsSession(s) =>
            /\ Consented(s)' = Consented(s)
            /\ codes'[sessions[s].code].client = codes[sessions[s].code].client
      BY <1>5, <1>7 DEF IInv, SessionsOK, IsCode, Consented, CommitCode
    <2>2. SessionsOK'
      BY <1>9, <2>1 DEF IInv, SessionsOK, CommitCode
    <2>3. AccessOK'
      BY <1>9, <2>1 DEF IInv, AccessOK, CommitCode, IsSession
    <2> QED BY <1>9, <2>2, <2>3 DEF IInv, TokensOK, HeldOK, FormOK, CommitCode
  <1>12. PICK q \in Coroutine : q = [p EXCEPT !.code = k, !.pc = "audit"]
    <2>1. [p EXCEPT !.code = k, !.pc = "audit"] \in Coroutine
      BY ZenonT(40), <1>5 DEF Coroutine, Pc
    <2> QED BY <2>1
  <1>13. IsCode(k)'
    BY <1>9
  <1>14. Fits(q)'
    <2>1. q.kind = "decide" /\ q.client = p.client /\ q.scopes = p.scopes
          /\ q.code = k /\ q.event = p.event /\ q.pc = "audit"
          /\ q.minted = p.minted
      BY <1>3, <1>12 DEF Coroutine
    <2>2. Fits(p)'
      BY <1>3, <1>8, FitsStable
    <2> QED BY <1>3, <1>13, <2>1, <2>2 DEF Fits
  <1>15. /\ now' \in 0 .. MaxTime /\ form' \in FormRow /\ clientRevoked' \subseteq Client
         /\ sessions' \in [Session -> SessionRow] /\ tokens' \in [Token -> TokenRow]
         /\ revokedJti' \subseteq Jti /\ audit' \subseteq [event : Event, row : Row]
         /\ held' \subseteq Code \cup Token /\ access' \in [Jti -> AccessRow]
    BY <1>1 DEF CommitCode, TypeOK
  <1> QED
    BY <1>4, <1>7, <1>8, <1>10, <1>11, <1>12, <1>14, <1>15, TablesStep

LEMMA UsedCodeRow ==
    ASSUME NEW row \in CodeRow
    PROVE  LET new == [row EXCEPT !.used = TRUE]
           IN  /\ new \in CodeRow
               /\ new.client = row.client /\ new.scopes = row.scopes
  BY DEF CodeRow

LEMMA CommitExchangeStep ==
    ASSUME IInv, NEW r \in Request, CommitExchange(r)
    PROVE  IInv' /\ Grows
  <1> USE ConstantsAssumption
  <1>1. TypeOK /\ reqs[r] \in Coroutine /\ Fits(reqs[r])
    BY DEF IInv, TypeOK
  <1>2. PICK p \in Coroutine : p = reqs[r]
    BY <1>1
  <1>3. /\ Fits(p) /\ p.kind = "exchange" /\ p.pc = "commit"
        /\ IsCode(p.code)
        /\ p.client = codes[p.code].client /\ p.scopes = codes[p.code].scopes
        /\ p.client \in Client /\ (p.minted = None \/ IsToken(p.minted))
    BY <1>1, <1>2 DEF CommitExchange, At, Fits, Coroutine, IsCode
  <1>4. PICK s \in FreshSession, t \in Token \cup {None} :
          /\ \/ t \in FreshToken /\ tokens' = [tokens EXCEPT ![t] = FirstToken(t, s)]
             \/ t = None /\ tokens' = tokens
          /\ sessions' = [sessions EXCEPT ![s] =
                [client |-> p.client, code |-> p.code, scopes |-> p.scopes,
                 expires |-> now + SessionTTL, revoked |-> FALSE]]
          /\ reqs' = [reqs EXCEPT ![r] = [p EXCEPT !.pc = "audit", !.sid = s,
                         !.minted = t, !.event = "token.issued"]]
    <2>2. PICK s \in FreshSession, t \in Token \cup {None} :
             /\ IF OfflineAccess \in p.scopes
                THEN /\ t \in FreshToken
                     /\ tokens' = [tokens EXCEPT ![t] = FirstToken(t, s)]
                ELSE t = None /\ UNCHANGED tokens
             /\ sessions' = [sessions EXCEPT ![s] =
                   [client |-> p.client, code |-> p.code, scopes |-> p.scopes,
                    expires |-> now + SessionTTL, revoked |-> FALSE]]
             /\ reqs' = [reqs EXCEPT ![r].pc = "audit", ![r].sid = s,
                            ![r].minted = t, ![r].event = "token.issued"]
      BY <1>2 DEF CommitExchange, AfterCommit
    <2>3. reqs' = [reqs EXCEPT ![r] = [p EXCEPT !.pc = "audit", !.sid = s,
                      !.minted = t, !.event = "token.issued"]]
      BY <1>1, <1>2, <2>2 DEF TypeOK
    <2>4. \/ t \in FreshToken /\ tokens' = [tokens EXCEPT ![t] = FirstToken(t, s)]
          \/ t = None /\ tokens' = tokens
      BY <2>2
    <2> QED BY <2>2, <2>3, <2>4
  <1>5. s \in Session /\ sessions[s].client = None
    BY <1>4 DEF FreshSession
  <1>6. now + SessionTTL \in Time
    BY <1>1 DEF TypeOK, Time
  <1>7. codes' = [codes EXCEPT ![p.code].used = TRUE]
    BY <1>2 DEF CommitExchange
  <1>8. /\ codes' \in [Code -> CodeRow]
        /\ \A k \in Code : /\ codes'[k].client = codes[k].client
                           /\ codes'[k].scopes = codes[k].scopes
    <2>1. \A k \in Code : codes[k] \in CodeRow
      BY <1>1 DEF TypeOK
    <2>2. \A k \in Code : codes'[k] =
             IF k = p.code THEN [codes[k] EXCEPT !.used = TRUE] ELSE codes[k]
      BY <1>1, <1>7 DEF TypeOK
    <2>3. \A k \in Code : codes'[k] \in CodeRow
      BY <2>1, <2>2, UsedCodeRow
    <2>4. codes' \in [Code -> CodeRow]
      BY <1>1, <1>7, <2>3 DEF TypeOK
    <2> QED BY <2>1, <2>2, <2>4, UsedCodeRow
  <1>9. sessions' \in [Session -> SessionRow]
        /\ sessions'[s] = [client |-> p.client, code |-> p.code,
              scopes |-> p.scopes, expires |-> now + SessionTTL,
              revoked |-> FALSE]
        /\ \A x \in Session : x # s => sessions'[x] = sessions[x]
    BY <1>1, <1>3, <1>4, <1>5, <1>6 DEF TypeOK, SessionRow, Coroutine, IsCode
  <1>10. /\ tokens' \in [Token -> TokenRow]
         /\ \A x \in Token : IsToken(x) => tokens'[x] = tokens[x]
         /\ \A x \in Token : ~IsToken(x) /\ IsToken(x)' =>
               x = t /\ tokens'[x] = FirstToken(t, s)
         /\ t # None => IsToken(t)'
    <2>1. CASE t \in FreshToken /\ tokens' = [tokens EXCEPT ![t] = FirstToken(t, s)]
      <3>1. FirstToken(t, s) \in TokenRow /\ FirstToken(t, s).session = s
        BY <1>5, <1>6, <2>1 DEF FirstToken, TokenRow, FreshToken
      <3> QED BY <1>1, <1>5, <2>1, <3>1 DEF TypeOK, IsToken, FreshToken
    <2>2. CASE t = None /\ tokens' = tokens
      BY <1>1, <2>2 DEF TypeOK, IsToken
    <2> QED BY <1>4, <2>1, <2>2
  <1>11. Grows
    BY <1>5, <1>8, <1>9, <1>10 DEF Grows, IsSession, CommitExchange
  <1>12. /\ \A x : IsCode(x)' <=> IsCode(x)
         /\ \A x : IsSession(x)' <=> (IsSession(x) \/ x = s)
         /\ \A x : IsAccess(x)' <=> IsAccess(x)
         /\ \A x : IsToken(x) => IsToken(x)'
    BY <1>3, <1>5, <1>8, <1>9, <1>10
       DEF CommitExchange, IsCode, IsSession, IsToken, IsAccess
  <1>13. \A x \in Session : IsSession(x) => Consented(x)' = Consented(x)
    BY <1>5, <1>8, <1>9 DEF IInv, SessionsOK, IsSession, IsCode, Consented
  <1>14. CodesOK' /\ HeldOK' /\ FormOK'
    BY <1>8, <1>12 DEF IInv, CodesOK, HeldOK, FormOK, CommitExchange
  <1>15. SessionsOK'
    <2> SUFFICES ASSUME NEW x \in Session, IsSession(x)'
                 PROVE  /\ IsCode(sessions[x].code)'
                        /\ codes'[sessions'[x].code].client = sessions'[x].client
                        /\ sessions'[x].scopes \subseteq Consented(x)'
      BY DEF SessionsOK
    <2>1. CASE x = s
      BY <1>3, <1>8, <1>9, <1>12, <2>1 DEF Consented, IsCode
    <2>2. CASE x # s
      <3>1. IsSession(x) /\ sessions'[x] = sessions[x]
        BY <1>9, <1>12, <2>2
      <3> QED BY <1>8, <1>12, <1>13, <3>1 DEF IInv, SessionsOK, IsCode
    <2> QED BY <2>1, <2>2
  <1>16. TokensOK'
    <2> SUFFICES ASSUME NEW x \in Token, IsToken(x)'
                 PROVE  /\ IsSession(tokens[x].session)'
                        /\ tokens'[x].expires = sessions'[tokens'[x].session].expires
      BY DEF TokensOK
    <2>1. CASE IsToken(x)
      BY <1>5, <1>9, <1>10, <1>12, <2>1 DEF IInv, TokensOK, IsSession
    <2>2. CASE ~IsToken(x)
      <3>1. tokens'[x] = FirstToken(t, s)
        BY <1>10, <2>2
      <3> QED BY <1>9, <1>12, <3>1 DEF FirstToken
    <2> QED BY <2>1, <2>2
  <1>17. AccessOK'
    BY <1>5, <1>9, <1>12, <1>13 DEF IInv, AccessOK, IsSession, CommitExchange
  <1>18. PICK q \in Coroutine : q = [p EXCEPT !.pc = "audit", !.sid = s,
                                       !.minted = t, !.event = "token.issued"]
    <2>0. s \in Session /\ t \in Token \cup {None}
      BY <1>4, <1>5
    <2>1. [p EXCEPT !.pc = "audit", !.sid = s, !.minted = t,
                    !.event = "token.issued"] \in Coroutine
      BY ZenonT(40), <2>0 DEF Coroutine, Pc, Event
    <2> QED BY <2>1
  <1>19. Fits(q)'
    <2>1. /\ q.kind = "exchange" /\ q.pc = "audit" /\ q.event = "token.issued"
          /\ q.client = p.client /\ q.scopes = p.scopes /\ q.code = p.code
          /\ q.sid = s /\ q.minted = t
      BY <1>3, <1>18 DEF Coroutine
    <2>2. /\ IsCode(q.code)' /\ IsSession(q.sid)'
          /\ q.client = codes'[q.code].client /\ q.scopes = codes'[q.code].scopes
          /\ sessions'[q.sid].code = q.code
          /\ q.minted # None => IsToken(q.minted)'
      BY <1>3, <1>8, <1>9, <1>10, <1>12, <2>1 DEF IsCode
    <2> QED BY <2>1, <2>2 DEF Fits
  <1>20. /\ now' \in 0 .. MaxTime /\ form' \in FormRow /\ clientRevoked' \subseteq Client
         /\ revokedJti' \subseteq Jti /\ audit' \subseteq [event : Event, row : Row]
         /\ held' \subseteq Code \cup Token /\ access' \in [Jti -> AccessRow]
    BY <1>1 DEF CommitExchange, TypeOK
  <1>21. reqs' = [reqs EXCEPT ![r] = q]
    BY <1>4, <1>18
  <1> QED
    BY <1>8, <1>9, <1>10, <1>11, <1>14, <1>15, <1>16, <1>17, <1>19, <1>20,
       <1>21, TablesStep

LEMMA RotatedTokenRow ==
    ASSUME NEW row \in TokenRow
    PROVE  LET spent == [row EXCEPT !.used = TRUE]
               new == [row EXCEPT !.used = FALSE, !.revoked = FALSE]
           IN  /\ spent \in TokenRow /\ new \in TokenRow
               /\ spent.session = row.session /\ new.session = row.session
               /\ spent.expires = row.expires /\ new.expires = row.expires
  BY DEF TokenRow

LEMMA NarrowedSessionRow ==
    ASSUME NEW row \in SessionRow, NEW S \in SUBSET Scope
    PROVE  LET new == [row EXCEPT !.scopes = S]
           IN  /\ new \in SessionRow
               /\ new.client = row.client /\ new.code = row.code
               /\ new.expires = row.expires /\ new.revoked = row.revoked
               /\ new.scopes = S
  BY DEF SessionRow

LEMMA CommitRefreshStep ==
    ASSUME IInv, NEW r \in Request, CommitRefresh(r)
    PROVE  IInv' /\ Grows
  <1> USE ConstantsAssumption
  <1>1. TypeOK /\ reqs[r] \in Coroutine /\ Fits(reqs[r])
    BY DEF IInv, TypeOK
  <1>2. PICK p \in Coroutine : p = reqs[r]
    BY <1>1
  <1>3. /\ Fits(p) /\ p.kind = "refresh" /\ p.pc = "commit"
        /\ p.event = "token.refreshed"
        /\ IsToken(p.token) /\ p.sid = tokens[p.token].session
        /\ p.client = sessions[p.sid].client
        /\ p.scopes \subseteq Consented(p.sid) /\ p.scopes \subseteq Scope
    BY <1>1, <1>2 DEF CommitRefresh, At, Fits, Coroutine
  <1>4. PICK t \in FreshToken :
          /\ tokens' = Rotate(p.token, t)
          /\ reqs' = [reqs EXCEPT ![r] = [p EXCEPT !.pc = "audit", !.minted = t]]
    <2>1. PICK t \in FreshToken :
             /\ tokens' = Rotate(p.token, t)
             /\ reqs' = [reqs EXCEPT ![r].pc = "audit", ![r].minted = t]
      BY <1>2 DEF CommitRefresh, AfterCommit
    <2>2. reqs' = [reqs EXCEPT ![r] = [p EXCEPT !.pc = "audit", !.minted = t]]
      BY <1>1, <1>2, <2>1 DEF TypeOK
    <2> QED BY <2>1, <2>2
  <1>5. /\ t \in Token /\ ~IsToken(t) /\ t # p.token
        /\ p.token \in Token
        /\ p.sid \in Session /\ IsSession(p.sid)
    BY <1>3, <1>4 DEF FreshToken, IsToken, IInv, TokensOK, IsSession
  <1>6. /\ tokens' \in [Token -> TokenRow]
        /\ \A x \in Token : x # t =>
              /\ tokens'[x].session = tokens[x].session
              /\ tokens'[x].expires = tokens[x].expires
        /\ tokens'[t].session = tokens[p.token].session
        /\ tokens'[t].expires = tokens[p.token].expires
    <2>1. \A x \in Token : tokens[x] \in TokenRow
      BY <1>1 DEF TypeOK
    <2>2. \A x \in Token : tokens'[x] =
             IF x = t THEN [tokens[p.token] EXCEPT !.used = FALSE, !.revoked = FALSE]
             ELSE IF x = p.token THEN [tokens[x] EXCEPT !.used = TRUE]
             ELSE tokens[x]
      BY <1>1, <1>4, <1>5 DEF Rotate, TypeOK
    <2>3. \A x \in Token : tokens'[x] \in TokenRow
      <3>1. tokens[p.token] \in TokenRow
        BY <1>5, <2>1
      <3>2. [tokens[p.token] EXCEPT !.used = FALSE, !.revoked = FALSE] \in TokenRow
        BY <3>1, RotatedTokenRow
      <3>3. \A x \in Token : [tokens[x] EXCEPT !.used = TRUE] \in TokenRow
        BY <2>1, RotatedTokenRow
      <3> QED BY <2>1, <2>2, <3>2, <3>3
    <2>4. tokens' \in [Token -> TokenRow]
      BY <1>1, <1>4, <2>3 DEF Rotate, TypeOK
    <2> QED BY <1>5, <2>1, <2>2, <2>4, RotatedTokenRow
  <1>7. /\ sessions' \in [Session -> SessionRow]
        /\ \A x \in Session :
              /\ sessions'[x].client = sessions[x].client
              /\ sessions'[x].code = sessions[x].code
              /\ sessions'[x].expires = sessions[x].expires
              /\ \/ sessions'[x].scopes = sessions[x].scopes
                 \/ x = p.sid /\ sessions'[x].scopes = p.scopes
    <2>1. \A x \in Session : sessions[x] \in SessionRow
      BY <1>1 DEF TypeOK
    <2>2. sessions' = NarrowScopes(p)
      BY <1>2 DEF CommitRefresh
    <2>3. CASE p.scopes = p.seen
      BY <1>1, <2>2, <2>3 DEF NarrowScopes, TypeOK
    <2>4. CASE p.scopes # p.seen
      <3>0. p.scopes \in SUBSET Scope
        BY <1>3
      <3>1. \A x \in Session : sessions'[x] =
               IF x = p.sid THEN [sessions[x] EXCEPT !.scopes = p.scopes]
                            ELSE sessions[x]
        BY <1>1, <1>5, <2>2, <2>4 DEF NarrowScopes, TypeOK
      <3>2. \A x \in Session : sessions'[x] \in SessionRow
        <4>1. \A x \in Session : [sessions[x] EXCEPT !.scopes = p.scopes] \in SessionRow
          BY <3>0, <2>1, NarrowedSessionRow
        <4> QED BY <2>1, <3>1, <4>1
      <3>3. sessions' \in [Session -> SessionRow]
        BY <1>1, <2>2, <2>4, <3>2 DEF NarrowScopes, TypeOK
      <3>4. \A x \in Session :
               LET new == [sessions[x] EXCEPT !.scopes = p.scopes]
               IN  /\ new.client = sessions[x].client /\ new.code = sessions[x].code
                   /\ new.expires = sessions[x].expires /\ new.scopes = p.scopes
        BY <3>0, <2>1, NarrowedSessionRow
      <3> QED BY ZenonT(40), <3>1, <3>3, <3>4
    <2> QED BY <2>3, <2>4
  <1>8. Grows
    BY <1>5, <1>6, <1>7 DEF Grows, CommitRefresh
  <1>9. /\ \A x : IsCode(x)' <=> IsCode(x)
        /\ \A x : IsSession(x)' <=> IsSession(x)
        /\ \A x : IsAccess(x)' <=> IsAccess(x)
        /\ \A x : IsToken(x) => IsToken(x)'
        /\ \A x : IsToken(x)' => IsToken(x) \/ x = t
        /\ IsToken(t)'
    <2>1. /\ \A x : IsCode(x)' <=> IsCode(x)
          /\ \A x : IsSession(x)' <=> IsSession(x)
          /\ \A x : IsAccess(x)' <=> IsAccess(x)
      BY <1>7 DEF CommitRefresh, IsCode, IsSession, IsAccess
    <2> QED BY <1>3, <1>5, <1>6, <2>1 DEF IsToken
  <1>10. \A x \in Session : IsSession(x) => Consented(x)' = Consented(x)
    BY <1>7 DEF Consented, CommitRefresh
  <1>11. CodesOK' /\ HeldOK' /\ FormOK'
    BY <1>9 DEF IInv, CodesOK, HeldOK, FormOK, CommitRefresh
  <1>12. SessionsOK'
    BY <1>3, <1>7, <1>9, <1>10 DEF IInv, SessionsOK, CommitRefresh
  <1>13. TokensOK'
    BY <1>3, <1>5, <1>6, <1>7, <1>9 DEF IInv, TokensOK, IsSession
  <1>14. AccessOK'
    BY <1>7, <1>9, <1>10 DEF IInv, AccessOK, IsSession, CommitRefresh
  <1>15. PICK q \in Coroutine : q = [p EXCEPT !.pc = "audit", !.minted = t]
    <2>1. [p EXCEPT !.pc = "audit", !.minted = t] \in Coroutine
      BY <1>5 DEF Coroutine, Pc
    <2> QED BY <2>1
  <1>16. Fits(q)'
    <2>1. /\ q.kind = "refresh" /\ q.pc = "audit" /\ q.event = "token.refreshed"
          /\ q.client = p.client /\ q.scopes = p.scopes /\ q.token = p.token
          /\ q.sid = p.sid /\ q.minted = t
      BY <1>3, <1>15 DEF Coroutine
    <2>2. /\ IsToken(q.token)' /\ IsToken(q.minted)'
          /\ q.sid = tokens'[q.token].session
          /\ q.client = sessions'[q.sid].client
          /\ q.scopes \subseteq Consented(q.sid)'
      BY <1>3, <1>5, <1>6, <1>7, <1>9, <1>10, <2>1
    <2> QED BY <2>1, <2>2 DEF Fits
  <1>17. /\ now' \in 0 .. MaxTime /\ form' \in FormRow /\ clientRevoked' \subseteq Client
         /\ codes' \in [Code -> CodeRow] /\ revokedJti' \subseteq Jti
         /\ audit' \subseteq [event : Event, row : Row]
         /\ held' \subseteq Code \cup Token /\ access' \in [Jti -> AccessRow]
    BY <1>1 DEF CommitRefresh, TypeOK
  <1>18. reqs' = [reqs EXCEPT ![r] = q]
    BY <1>4, <1>15
  <1> QED
    BY <1>6, <1>7, <1>8, <1>11, <1>12, <1>13, <1>14, <1>16, <1>17, <1>18,
       TablesStep

-----------------------------------------------------------------------------
(* The end of a handler, the clock and the form.                           *)

LEMMA AuditStep ==
    ASSUME IInv, NEW r \in Request, Audit(r)
    PROVE  IInv'
  <1>1. TypeOK /\ reqs[r] \in Coroutine /\ Fits(reqs[r])
    BY DEF IInv, TypeOK
  <1>2. PICK p \in Coroutine : p = reqs[r]
    BY <1>1
  <1>3. Fits(p) /\ p.pc = "audit"
    BY <1>1, <1>2 DEF Audit
  <1>4. PICK q \in Coroutine : q = [p EXCEPT !.pc = "respond"]
    <2>1. [p EXCEPT !.pc = "respond"] \in Coroutine
      BY DEF Coroutine, Pc
    <2> QED BY <2>1
  <1>5. Fits(q)
    BY <1>3, <1>4 DEF Fits, Coroutine
  <1>6. reqs' = [reqs EXCEPT ![r] = q]
    BY <1>1, <1>2, <1>4 DEF Audit, Goto, TypeOK
  <1>7. Grows
    BY DEF Grows, Audit, db
  <1>8. Fits(q)'
    BY <1>5, <1>7, FitsStable
  <1>9. audit' \subseteq [event : Event, row : Row]
    <2>1. AuditRow(p) \in Row /\ p.event \in Event
      BY DEF AuditRow, Row, Coroutine
    <2>2. audit' \subseteq audit \cup {[event |-> p.event, row |-> AuditRow(p)]}
      BY <1>2 DEF Audit
    <2> QED BY <1>1, <2>1, <2>2 DEF TypeOK
  <1>10. /\ now' \in 0 .. MaxTime /\ form' \in FormRow /\ clientRevoked' \subseteq Client
         /\ codes' \in [Code -> CodeRow] /\ sessions' \in [Session -> SessionRow]
         /\ tokens' \in [Token -> TokenRow] /\ revokedJti' \subseteq Jti
         /\ held' \subseteq Code \cup Token /\ access' \in [Jti -> AccessRow]
    BY <1>1 DEF Audit, TypeOK, db
  <1>11. FormOK' /\ CodesOK' /\ SessionsOK' /\ TokensOK' /\ HeldOK' /\ AccessOK'
    BY DEF IInv, FormOK, CodesOK, SessionsOK, TokensOK, HeldOK, AccessOK, db,
           IsCode, IsSession, IsToken, IsAccess, Consented, Audit
  <1> QED BY <1>6, <1>7, <1>8, <1>9, <1>10, <1>11, TablesStep

LEMMA RespondStep ==
    ASSUME IInv, NEW r \in Request, Respond(r)
    PROVE  IInv'
  <1>1. TypeOK /\ reqs[r] \in Coroutine /\ Fits(reqs[r])
    BY DEF IInv, TypeOK
  <1>2. Grows
    BY DEF Grows, Respond, db
  <1>3. Idle \in Coroutine /\ Fits(Idle)' /\ reqs' = [reqs EXCEPT ![r] = Idle]
    BY <1>2, IdleFits, FitsStable DEF Respond, Finish
  <1>4. \A x \in held' : x \in held \/ IsCode(x)
    BY <1>1 DEF Respond, Fits
  <1>5. held' \subseteq Code \cup Token
    BY <1>1, <1>4 DEF TypeOK, IsCode
  <1>6. /\ now' \in 0 .. MaxTime /\ form' \in FormRow /\ clientRevoked' \subseteq Client
        /\ codes' \in [Code -> CodeRow] /\ sessions' \in [Session -> SessionRow]
        /\ tokens' \in [Token -> TokenRow] /\ revokedJti' \subseteq Jti
        /\ audit' \subseteq [event : Event, row : Row] /\ access' \in [Jti -> AccessRow]
    BY <1>1 DEF Respond, TypeOK, db
  <1>7. FormOK' /\ CodesOK' /\ SessionsOK' /\ TokensOK' /\ AccessOK'
    BY DEF IInv, FormOK, CodesOK, SessionsOK, TokensOK, AccessOK, db,
           IsCode, IsSession, IsToken, IsAccess, Consented, Respond
  <1>8. HeldOK'
    BY <1>4 DEF IInv, HeldOK, IsCode, IsToken, Respond, db
  <1> QED BY <1>2, <1>3, <1>5, <1>6, <1>7, <1>8, TablesStep

LEMMA RespondTokensStep ==
    ASSUME IInv, NEW r \in Request, RespondTokens(r)
    PROVE  IInv' /\ Grows
  <1> USE ConstantsAssumption
  <1>1. TypeOK /\ reqs[r] \in Coroutine /\ Fits(reqs[r])
    BY DEF IInv, TypeOK
  <1>2. PICK p \in Coroutine : p = reqs[r]
    BY <1>1
  <1>3. /\ Fits(p) /\ p.pc = "respond"
        /\ p.event \in {"token.issued", "token.refreshed"}
    BY <1>1, <1>2 DEF RespondTokens
  <1>4. /\ IsSession(p.sid) /\ p.client = sessions[p.sid].client
        /\ p.scopes \subseteq Consented(p.sid)
    <2>1. CASE p.event = "token.issued"
      BY <1>3, <2>1 DEF Fits, IInv, SessionsOK, IsSession, Consented
    <2>2. CASE p.event = "token.refreshed"
      BY <1>3, <2>2 DEF Fits, IInv, TokensOK, IsToken
    <2> QED BY <1>3, <2>1, <2>2
  <1>5. p.sid \in Session /\ p.client \in Client
    BY <1>4 DEF IsSession, Coroutine
  <1>6. now + AccessTTL \in Time
    BY <1>1 DEF TypeOK, Time
  <1>9. /\ access' \in [Jti -> AccessRow]
        /\ \A x \in Jti : \/ access'[x] = access[x]
                          \/ /\ ~IsAccess(x)
                             /\ access'[x].client = p.client
                             /\ access'[x].session = p.sid
                             /\ access'[x].scopes = p.scopes
    <2>1. CASE UNCHANGED access
      BY <1>1, <2>1 DEF TypeOK
    <2>2. ASSUME NEW j \in FreshJti,
                 access' = [access EXCEPT ![j] =
                    [client |-> p.client, session |-> p.sid, scopes |-> p.scopes,
                     expires |-> now + AccessTTL]]
          PROVE  <1>9!1 /\ <1>9!2
      <3>1. j \in Jti /\ ~IsAccess(j)
        BY DEF FreshJti, IsAccess
      <3> QED BY <1>1, <1>5, <1>6, <2>2, <3>1 DEF TypeOK, AccessRow, Coroutine
    <2> QED BY <1>2, <2>1, <2>2 DEF RespondTokens
  <1>10. Grows
    BY <1>9 DEF Grows, RespondTokens, db
  <1>11. Idle \in Coroutine /\ Fits(Idle)' /\ reqs' = [reqs EXCEPT ![r] = Idle]
    BY <1>10, IdleFits, FitsStable DEF RespondTokens, Finish
  <1>12. \A x \in held' : x \in held \/ IsToken(x)
    BY <1>2, <1>3 DEF RespondTokens, Fits
  <1>13. held' \subseteq Code \cup Token
    BY <1>1, <1>12 DEF TypeOK, IsToken
  <1>14. /\ now' \in 0 .. MaxTime /\ form' \in FormRow /\ clientRevoked' \subseteq Client
         /\ codes' \in [Code -> CodeRow] /\ sessions' \in [Session -> SessionRow]
         /\ tokens' \in [Token -> TokenRow] /\ revokedJti' \subseteq Jti
         /\ audit' \subseteq [event : Event, row : Row]
    BY <1>1 DEF RespondTokens, TypeOK, db
  <1>15. FormOK' /\ CodesOK' /\ SessionsOK' /\ TokensOK'
    BY DEF IInv, FormOK, CodesOK, SessionsOK, TokensOK, db,
           IsCode, IsSession, IsToken, Consented, RespondTokens
  <1>16. HeldOK'
    BY <1>12 DEF IInv, HeldOK, IsCode, IsToken, RespondTokens, db
  <1>17. AccessOK'
    <2> SUFFICES ASSUME NEW x \in Jti, IsAccess(x)'
                 PROVE  /\ IsSession(access'[x].session)
                        /\ access'[x].client = sessions[access'[x].session].client
                        /\ access'[x].scopes \subseteq Consented(access'[x].session)
      BY DEF AccessOK, IsSession, Consented, RespondTokens, db
    <2>1. CASE access'[x] = access[x]
      BY <2>1 DEF IInv, AccessOK, IsAccess
    <2>2. CASE access'[x] # access[x]
      BY <1>4, <1>9, <2>2
    <2> QED BY <2>1, <2>2
  <1> QED
    BY <1>9, <1>10, <1>11, <1>13, <1>14, <1>15, <1>16, <1>17, TablesStep

\* no coroutine moves
LEMMA StillStep ==
    ASSUME IInv, UNCHANGED <<db, audit, held, access, reqs>>,
           now' \in 0 .. MaxTime, form' \in FormRow, FormOK'
    PROVE  IInv'
  <1>1. TypeOK'
    BY DEF IInv, TypeOK, db
  <1>2. CodesOK' /\ SessionsOK' /\ TokensOK' /\ HeldOK' /\ AccessOK'
    BY DEF IInv, CodesOK, SessionsOK, TokensOK, HeldOK, AccessOK, db,
           IsCode, IsSession, IsToken, IsAccess, Consented
  <1>3. ASSUME NEW r \in Request PROVE Fits(reqs[r])'
    <2>1. PICK q \in Coroutine : q = reqs[r] /\ Fits(q)
      BY DEF IInv, TypeOK
    <2>2. Fits(q)'
      BY <2>1, FitsStable DEF Grows, db
    <2>3. q = reqs'[r]
      BY <2>1
    <2> QED BY <2>2, <2>3, FitsOf
  <1> QED BY <1>1, <1>2, <1>3 DEF IInv

LEMMA TickStep ==
    ASSUME IInv, Tick
    PROVE  IInv'
  <1>1. now' \in 0 .. MaxTime /\ form' \in FormRow
    BY ConstantsAssumption DEF IInv, TypeOK, Tick
  <1>2. FormOK'
    BY DEF IInv, FormOK, Tick
  <1> QED BY <1>1, <1>2, StillStep DEF Tick

LEMMA AuthorizeStep ==
    ASSUME IInv, NEW c \in Client, NEW S \in SUBSET Scope, Authorize(c, S)
    PROVE  IInv'
  <1>1. now' \in 0 .. MaxTime /\ form' \in FormRow
    BY ConstantsAssumption DEF IInv, TypeOK, Authorize, FormRow, Time
  <1>2. FormOK'
    BY DEF FormOK, Authorize
  <1> QED BY <1>1, <1>2, StillStep DEF Authorize

-----------------------------------------------------------------------------
(* The invariant is inductive.                                             *)

LEMMA Initially == Init => IInv
  <1> SUFFICES ASSUME Init PROVE IInv
    OBVIOUS
  <1>1. TypeOK
    BY ConstantsAssumption, IdleFits
       DEF Init, TypeOK, NoForm, NoCode, NoSession, NoToken, NoAccess,
           FormRow, CodeRow, SessionRow, TokenRow, AccessRow, Time
  <1>2. /\ \A x : ~IsCode(x) /\ ~IsSession(x) /\ ~IsToken(x) /\ ~IsAccess(x)
        /\ form.client = None /\ held = {}
    BY DEF Init, IsCode, IsSession, IsToken, IsAccess, NoForm, NoCode,
           NoSession, NoToken, NoAccess
  <1>3. FormOK /\ CodesOK /\ SessionsOK /\ TokensOK /\ HeldOK /\ AccessOK
    BY <1>2 DEF FormOK, CodesOK, SessionsOK, TokensOK, HeldOK, AccessOK
  <1>4. \A r \in Request : Fits(reqs[r])
    BY IdleFits DEF Init
  <1> QED BY <1>1, <1>3, <1>4 DEF IInv

LEMMA ServeStep ==
    ASSUME IInv, NEW r \in Request, Serve(r)
    PROVE  IInv'
  BY ReadStep, RevocationStep, CommitCodeStep, CommitExchangeStep,
     CommitRefreshStep, AuditStep, RespondStep, RespondTokensStep DEF Serve

LEMMA Inductive == IInv /\ [Next]_vars => IInv'
  <1> SUFFICES ASSUME IInv, [Next]_vars PROVE IInv'
    OBVIOUS
  <1>1. ASSUME NEW r \in Request, Submit(r) \/ Serve(r) \/ Abandon(r)
        PROVE  IInv'
    BY <1>1, SubmitStep, ServeStep, AbandonStep DEF Abandon
  <1>2. CASE UNCHANGED vars
    <2>1. now' \in 0 .. MaxTime /\ form' \in FormRow /\ FormOK'
      BY <1>2 DEF vars, IInv, TypeOK, FormOK
    <2> QED BY <1>2, <2>1, StillStep DEF vars
  <1> QED BY <1>1, <1>2, TickStep, AuthorizeStep DEF Next

LEMMA Invariance == Spec => []IInv
  BY Initially, Inductive, PTL DEF Spec

-----------------------------------------------------------------------------
(* No step takes back what an earlier one spent or revoked.                *)

LEMMA LocalSpendsNothing ==
    ASSUME UNCHANGED db
    PROVE  OnlySpends
  BY DEF db, OnlySpends

LEMMA CommitSpends ==
    ASSUME IInv, NEW r \in Request,
           CommitCode(r) \/ CommitExchange(r) \/ CommitRefresh(r)
    PROVE  OnlySpends
  <1> USE ConstantsAssumption
  <1>1. TypeOK /\ reqs[r] \in Coroutine /\ Fits(reqs[r])
    BY DEF IInv, TypeOK
  <1>2. CASE CommitCode(r)
    <2>1. PICK k \in FreshCode : \E row : codes' = [codes EXCEPT ![k] = row]
      BY <1>2 DEF CommitCode
    <2>2. \A x \in Code : codes[x].client # None => codes'[x] = codes[x]
      BY <1>1, <2>1 DEF FreshCode, TypeOK
    <2> QED BY <1>2, <2>2 DEF CommitCode, OnlySpends
  <1>3. CASE CommitExchange(r)
    <2>1. PICK s \in FreshSession, t \in Token \cup {None} :
             /\ \E row : sessions' = [sessions EXCEPT ![s] = row]
             /\ \/ t \in FreshToken /\ tokens' = [tokens EXCEPT ![t] = FirstToken(t, s)]
                \/ tokens' = tokens
      BY <1>3 DEF CommitExchange
    <2>2. \A x \in Session : sessions[x].client # None => sessions'[x] = sessions[x]
      BY <1>1, <2>1 DEF FreshSession, TypeOK
    <2>3. \A x \in Token : tokens[x].session # None => tokens'[x] = tokens[x]
      BY <1>1, <2>1 DEF FreshToken, TypeOK
    <2>4. \A x \in Code : codes[x].used => codes'[x].used
      <3>1. codes' = [codes EXCEPT ![reqs[r].code].used = TRUE]
        BY <1>3 DEF CommitExchange
      <3> QED BY <1>1, <3>1 DEF TypeOK, CodeRow
    <2> QED BY <1>3, <2>2, <2>3, <2>4 DEF CommitExchange, OnlySpends
  <1>4. CASE CommitRefresh(r)
    <2>1. PICK t \in FreshToken : tokens' = Rotate(reqs[r].token, t)
      BY <1>4 DEF CommitRefresh
    <2>2. reqs[r].token \in Token /\ reqs[r].token # t
      BY <1>1, <1>4, <2>1 DEF CommitRefresh, At, Fits, IsToken, FreshToken
    <2>3. \A x \in Token : tokens[x].session # None =>
             tokens'[x] = IF x = reqs[r].token
                          THEN [tokens[x] EXCEPT !.used = TRUE] ELSE tokens[x]
      BY <1>1, <2>1, <2>2 DEF Rotate, FreshToken, TypeOK
    <2>4. \A x \in Token : tokens[x].session # None =>
             /\ tokens[x].used => tokens'[x].used
             /\ tokens[x].revoked => tokens'[x].revoked
             /\ tokens'[x].family = tokens[x].family
      <3>1. \A x \in Token :
               LET new == [tokens[x] EXCEPT !.used = TRUE]
               IN  /\ new.used
                   /\ tokens[x].revoked => new.revoked
                   /\ new.family = tokens[x].family
        BY <1>1 DEF TypeOK, TokenRow
      <3> QED BY <2>3, <3>1
    <2>5. \A x \in Session : /\ sessions'[x].revoked = sessions[x].revoked
                             /\ sessions'[x].expires = sessions[x].expires
      <3>1. sessions' = NarrowScopes(reqs[r])
        BY <1>4 DEF CommitRefresh
      <3> QED BY <1>1, <3>1 DEF NarrowScopes, TypeOK, SessionRow
    <2> QED BY <1>4, <2>4, <2>5 DEF CommitRefresh, OnlySpends
  <1> QED BY <1>2, <1>3, <1>4

LEMMA RevocationSpends ==
    ASSUME IInv, NEW r \in Request,
           \/ CommitReuse(r) \/ CommitRevoke(r) \/ CommitRevokeAccess(r)
           \/ CommitAdminClient(r) \/ CommitAdminSession(r)
    PROVE  OnlySpends
  <1>1. TypeOK
    BY DEF IInv
  <1>2. \A s \in Session :
           LET new == [sessions[s] EXCEPT !.revoked = TRUE]
           IN  new.revoked /\ new.expires = sessions[s].expires
    BY <1>1 DEF TypeOK, SessionRow
  <1>3. \A t \in Token :
           LET new == [tokens[t] EXCEPT !.revoked = TRUE]
           IN  /\ new.revoked
               /\ tokens[t].used => new.used
               /\ new.family = tokens[t].family
    BY <1>1 DEF TypeOK, TokenRow
  <1>4. \A s \in Session :
           \/ sessions'[s] = sessions[s]
           \/ sessions'[s] = [sessions[s] EXCEPT !.revoked = TRUE]
    BY <1>1 DEF CommitReuse, CommitRevoke, CommitRevokeAccess, CommitAdminClient,
                CommitAdminSession, RevokeSession, RevokeSessionsOf, TypeOK
  <1>5. \A t \in Token :
           \/ tokens'[t] = tokens[t]
           \/ tokens'[t] = [tokens[t] EXCEPT !.revoked = TRUE]
    BY <1>1 DEF CommitReuse, CommitRevoke, CommitRevokeAccess, CommitAdminClient,
                CommitAdminSession, RevokeFamily
  <1>6. \A s \in Session : /\ sessions[s].revoked => sessions'[s].revoked
                           /\ sessions'[s].expires = sessions[s].expires
    BY <1>2, <1>4
  <1>7. \A t \in Token : /\ tokens[t].used => tokens'[t].used
                         /\ tokens[t].revoked => tokens'[t].revoked
                         /\ tokens'[t].family = tokens[t].family
    BY <1>3, <1>5
  <1>8. /\ clientRevoked \subseteq clientRevoked'
        /\ revokedJti \subseteq revokedJti' /\ codes' = codes
    BY DEF CommitReuse, CommitRevoke, CommitRevokeAccess, CommitAdminClient,
           CommitAdminSession
  <1> QED BY <1>6, <1>7, <1>8 DEF OnlySpends

LEMMA SpendStep == IInv /\ [Next]_vars => OnlySpends
  <1> SUFFICES ASSUME IInv, [Next]_vars PROVE OnlySpends
    OBVIOUS
  <1>1. ASSUME NEW r \in Request, Submit(r) PROVE UNCHANGED db
    BY <1>1 DEF Submit, SubmitDecision, SubmitExchange, SubmitRefresh,
       SubmitRevoke, SubmitRevokeAccess, PresentAccess, AdminRevokeClient,
       AdminRevokeSession
  <1>2. ASSUME NEW r \in Request, Serve(r) PROVE OnlySpends
    <2>1. CASE \/ ClientAuth(r) \/ ReadCode(r) \/ ReadToken(r) \/ ReadSession(r)
               \/ ReadSessionToRevoke(r) \/ CheckJti(r) \/ CheckSession(r)
               \/ Audit(r) \/ Respond(r) \/ RespondTokens(r)
      <3>1. UNCHANGED db
        BY <2>1 DEF ClientAuth, ReadCode, ReadToken, ReadSession,
           ReadSessionToRevoke, CheckJti, CheckSession, Audit, Respond,
           RespondTokens
      <3> QED BY <3>1, LocalSpendsNothing
    <2> QED BY <1>2, <2>1, CommitSpends, RevocationSpends DEF Serve
  <1> QED
    BY <1>1, <1>2, LocalSpendsNothing DEF Next, Tick, Authorize, Abandon, vars

-----------------------------------------------------------------------------
(* The theorems.                                                           *)

\* Every reachable state is well typed: the tables, the coroutines and the
\* audit log, for any number of requests in flight.
THEOREM TypeCorrect == Spec => []TypeOK
  BY Invariance, PTL DEF IInv

\* However requests overlap, what a session or an access token grants was
\* consented to for its client and registered by it (oauth.py, token).
THEOREM GrantsAreConsented == Spec => []ScopesWithinConsent
  <1>1. IInv => ScopesWithinConsent
    BY DEF IInv, SessionsOK, CodesOK, AccessOK, ScopesWithinConsent, IsCode,
           IsSession, IsAccess, Consented
  <1> QED BY Invariance, <1>1, PTL

\* Rotation hands the session's expiry on: no refresh token outlives the
\* session it was issued for (oauth.py, the rotation in token).
THEOREM ExpiryIsFixed == Spec => []NoSlidingExpiry
  <1>1. IInv => NoSlidingExpiry
    BY DEF IInv, TokensOK, NoSlidingExpiry, IsToken
  <1> QED BY Invariance, <1>1, PTL

\* No interleaving clears used_at or revoked_at, moves an expiry or takes a
\* token out of its family (the commits of oauth.py and admin.py).
THEOREM SpentStaysSpent == Spec => RowsAreFinal
  <1>1. IInv /\ [Next]_vars => [OnlySpends]_vars
    BY SpendStep
  <1> QED BY Invariance, <1>1, PTL DEF Spec, RowsAreFinal

-----------------------------------------------------------------------------
(* What was spent or revoked before a request buys it nothing, what a      *)
(* reply hands out has left its trail, and a refresh token presented twice *)
(* takes its family with it.                                               *)

(***************************************************************************)
(* How far a request gets that presents something dead: it is on its way   *)
(* to the check that refuses it, what that check will read stays dead, or  *)
(* it is a refresh that was recognised as a reuse.                         *)
(***************************************************************************)
LateExchange(q) ==
    \/ q.pc = "client" /\ (q.client \in clientRevoked \/ codes[q.code].used)
    \/ q.pc = "code" /\ codes[q.code].used

LateRefresh(q) ==
    \/ q.pc = "client" /\ (q.client \in clientRevoked \/ Dead(q.token))
    \/ q.pc = "token" /\ Dead(q.token)
    \/ q.pc = "session" /\ (q.old # "fresh" \/ sessions[q.sid].revoked)
    \/ q.pc \in {"commit", "audit", "respond"} /\ q.event = "reuse_detected"

LateValidate(q) ==
    \/ q.pc = "jti" /\ \/ q.jti \in revokedJti
                       \/ sessions[access[q.jti].session].revoked
    \/ q.pc = "session" /\ sessions[q.sid].revoked

Late(q) == q.late => \/ q.kind = "exchange" /\ LateExchange(q)
                     \/ q.kind = "refresh" /\ LateRefresh(q)
                     \/ q.kind = "validate" /\ LateValidate(q)

AllLate == \A r \in Request : Late(reqs[r])

-----------------------------------------------------------------------------
LEMMA GrowStep == IInv /\ [Next]_vars => Grows
  <1> SUFFICES ASSUME IInv, [Next]_vars PROVE Grows
    OBVIOUS
  <1>1. UNCHANGED <<db, access>> => Grows
    BY DEF Grows, db
  <1>2. ASSUME NEW r \in Request, Submit(r) \/ Abandon(r)
        PROVE  UNCHANGED <<db, access>>
    BY <1>2 DEF Submit, SubmitDecision, SubmitExchange, SubmitRefresh,
       SubmitRevoke, SubmitRevokeAccess, PresentAccess, AdminRevokeClient,
       AdminRevokeSession, Abandon
  <1>3. ASSUME NEW r \in Request, Serve(r) PROVE Grows
    <2>1. CASE \/ ClientAuth(r) \/ ReadCode(r) \/ ReadToken(r) \/ ReadSession(r)
               \/ ReadSessionToRevoke(r) \/ CheckJti(r) \/ CheckSession(r)
               \/ Audit(r) \/ Respond(r)
      <3>1. UNCHANGED <<db, access>>
        BY <2>1 DEF ClientAuth, ReadCode, ReadToken, ReadSession,
           ReadSessionToRevoke, CheckJti, CheckSession, Audit, Respond
      <3> QED BY <1>1, <3>1
    <2>2. CASE \/ CommitReuse(r) \/ CommitRevoke(r) \/ CommitRevokeAccess(r)
               \/ CommitAdminClient(r) \/ CommitAdminSession(r)
      BY <2>2, RevocationStep DEF Grows, OnlyRevokes
    <2> QED
      BY <1>3, <2>1, <2>2, CommitCodeStep, CommitExchangeStep,
         CommitRefreshStep, RespondTokensStep DEF Serve
  <1> QED BY <1>1, <1>2, <1>3 DEF Next, Tick, Authorize, vars

\* nothing comes back to life under a request that waits
LEMMA LateStable ==
    ASSUME IInv, Grows, OnlySpends, NEW q \in Coroutine, Fits(q), Late(q)
    PROVE  Late(q)'
  <1>1. ASSUME NEW s, IsSession(s), sessions[s].revoked
        PROVE  sessions'[s].revoked
    BY <1>1 DEF OnlySpends, IsSession
  <1>2. ASSUME IsToken(q.token), Dead(q.token)
        PROVE  Dead(q.token)'
    <2>1. /\ tokens'[q.token].session = tokens[q.token].session
          /\ IsSession(tokens[q.token].session)
      BY <1>2 DEF Grows, IsToken, IInv, TokensOK
    <2> QED BY <1>1, <1>2, <2>1 DEF Dead, OnlySpends, IsToken
  <1>3. q.client \in clientRevoked => q.client \in clientRevoked'
    BY DEF OnlySpends
  <1>4. CASE q.kind = "exchange"
    <2>1. IsCode(q.code)
      BY <1>4 DEF Fits
    <2>2. codes[q.code].used => codes'[q.code].used
      BY <2>1 DEF IsCode, OnlySpends
    <2> QED BY <1>3, <1>4, <2>2 DEF Late, LateExchange
  <1>5. CASE q.kind = "refresh"
    <2>1. IsToken(q.token)
      BY <1>5 DEF Fits
    <2>2. q.pc = "session" => IsSession(q.sid)
      BY <1>5, <2>1 DEF Fits, IInv, TokensOK, IsToken
    <2> QED BY <1>1, <1>2, <1>3, <1>5, <2>1, <2>2 DEF Late, LateRefresh
  <1>6. CASE q.kind = "validate"
    <2>1. /\ access'[q.jti] = access[q.jti]
          /\ IsSession(access[q.jti].session)
      BY <1>6 DEF Fits, IsAccess, Grows, IInv, AccessOK
    <2>2. q.pc = "session" => IsSession(q.sid)
      BY <1>6, <2>1 DEF Fits
    <2>3. q.jti \in revokedJti => q.jti \in revokedJti'
      BY DEF OnlySpends
    <2> QED BY <1>1, <1>6, <2>1, <2>2, <2>3 DEF Late, LateValidate
  <1>7. CASE ~q.late
    BY <1>7 DEF Late
  <1> QED BY <1>4, <1>5, <1>6, <1>7 DEF Late

LEMMA LateOf ==
    ASSUME NEW r \in Request, NEW q, q = reqs'[r], Late(q)'
    PROVE  Late(reqs[r])'
  BY DEF Late, LateExchange, LateRefresh, LateValidate, Dead

-----------------------------------------------------------------------------
(* The step of the request itself.                                         *)

LEMMA SubmitLate ==
    ASSUME TypeOK, NEW r \in Request, Submit(r), NEW q, q = reqs'[r]
    PROVE  Late(q)
  <1>1. ASSUME NEW c \in Client, NEW proof \in Forms, NEW k \in Code,
               SubmitExchange(r, c, k, proof)
        PROVE  Late(q)
    <2> DEFINE dead == c \in clientRevoked \/ codes[k].used
    <2>1. q = [Idle EXCEPT !.kind = "exchange", !.pc = "client", !.client = c,
                           !.code = k, !.proof = proof, !.late = dead]
      BY <1>1 DEF SubmitExchange, TypeOK
    <2>2. /\ q.kind = "exchange" /\ q.pc = "client" /\ q.client = c /\ q.code = k
          /\ q.late => dead
      <3> HIDE DEF dead
      <3> QED BY <2>1 DEF Idle
    <2> QED BY <2>2 DEF Late, LateExchange
  <1>2. ASSUME NEW c \in Client, NEW proof \in Forms, NEW t \in Token,
               NEW S \in SUBSET Scope, SubmitRefresh(r, c, t, S, proof)
        PROVE  Late(q)
    <2> DEFINE dead == c \in clientRevoked \/ Dead(t)
    <2>1. q = [Idle EXCEPT !.kind = "refresh", !.pc = "client", !.client = c,
                           !.token = t, !.scopes = S, !.proof = proof,
                           !.late = dead]
      BY <1>2 DEF SubmitRefresh, TypeOK
    <2>2. /\ q.kind = "refresh" /\ q.pc = "client" /\ q.client = c /\ q.token = t
          /\ q.late => dead
      <3> HIDE DEF dead
      <3> QED BY <2>1 DEF Idle
    <2> QED BY <2>2 DEF Late, LateRefresh
  <1>3. CASE \E j \in Jti : PresentAccess(r, j)
    BY <1>3 DEF PresentAccess, TypeOK, Idle, Late, LateValidate
  <1>4. ASSUME NEW allow \in BOOLEAN, SubmitDecision(r, allow)
        PROVE  ~q.late
    <2>1. \E a, b, c, d : q = [Idle EXCEPT !.kind = "decide", !.client = a,
                                  !.scopes = b, !.pc = c, !.event = d]
      BY <1>4 DEF SubmitDecision, TypeOK
    <2> QED BY <2>1 DEF Idle
  <1>5. ASSUME NEW c \in Client, NEW proof \in Forms,
               \/ \E t \in Token : SubmitRevoke(r, c, t, proof)
               \/ \E j \in Jti : SubmitRevokeAccess(r, c, j, proof)
        PROVE  ~q.late
    <2>1. \E x : \/ q = [Idle EXCEPT !.kind = "revoke", !.pc = "client",
                            !.client = c, !.token = x, !.proof = proof]
                 \/ q = [Idle EXCEPT !.kind = "revoke", !.pc = "client",
                            !.client = c, !.jti = x, !.proof = proof]
      BY <1>5 DEF SubmitRevoke, SubmitRevokeAccess, TypeOK
    <2> QED BY <2>1 DEF Idle
  <1>6. ASSUME NEW c \in Client, AdminRevokeClient(r, c)
        PROVE  ~q.late
    BY <1>6 DEF AdminRevokeClient, TypeOK, Idle
  <1>7. ASSUME NEW s \in Session, AdminRevokeSession(r, s)
        PROVE  ~q.late
    BY <1>7 DEF AdminRevokeSession, TypeOK, Idle
  <1>8. ~q.late => Late(q)
    BY DEF Late
  <1> QED BY <1>1, <1>2, <1>3, <1>4, <1>5, <1>6, <1>7, <1>8 DEF Submit

\* each check refuses what is dead, or passes it on to the next one
LEMMA ReadLate ==
    ASSUME TypeOK, NEW r \in Request, NEW p \in Coroutine, p = reqs[r],
           Fits(p), Late(p), NEW q, q = reqs'[r], ~Finish(r),
           \/ ClientAuth(r) \/ ReadCode(r) \/ ReadToken(r) \/ ReadSession(r)
           \/ ReadSessionToRevoke(r) \/ CheckJti(r) \/ CheckSession(r)
           \/ Audit(r)
    PROVE  Late(q)
  <1> SUFFICES ASSUME q.late PROVE Late(q)
    BY DEF Late
  <1>0. p.late
    BY DEF ClientAuth, ReadCode, ReadToken, ReadSession, ReadSessionToRevoke,
           CheckJti, CheckSession, Audit, Goto, TypeOK, Coroutine
  <1>1. CASE ClientAuth(r)
    <2>1. /\ p.pc = "client" /\ p.client \notin clientRevoked
          /\ q = [p EXCEPT !.pc = IF p.kind = "exchange" THEN "code" ELSE "token"]
      BY <1>1 DEF ClientAuth, Goto, TypeOK
    <2>2. \/ p.kind = "exchange" /\ codes[p.code].used
          \/ p.kind = "refresh" /\ Dead(p.token)
      BY <1>0, <2>1 DEF Late, LateExchange, LateRefresh, LateValidate
    <2> QED BY <2>1, <2>2 DEF Late, LateExchange, LateRefresh, Coroutine
  <1>2. CASE ReadCode(r)
    <2>1. p.kind = "exchange" /\ p.pc = "code" /\ ~codes[p.code].used
      BY <1>2 DEF ReadCode, At, CodeRejected
    <2> QED BY <1>0, <2>1 DEF Late, LateExchange
  <1>3. CASE ReadToken(r)
    <2>1. p.pc = "token"
      BY <1>3 DEF ReadToken
    <2>2. p.kind = "refresh" /\ Dead(p.token)
      BY <1>0, <2>1 DEF Late, LateExchange, LateRefresh, LateValidate
    <2>3. p.token # None
      BY <2>2, ConstantsAssumption DEF Fits, IsToken
    <2>4. q = [p EXCEPT !.pc = "session", !.sid = tokens[p.token].session,
                        !.old = Status(tokens[p.token])]
      BY <1>3, <2>3 DEF ReadToken, TypeOK
    <2>5. /\ q.kind = "refresh" /\ q.pc = "session"
          /\ q.sid = tokens[p.token].session /\ q.old = Status(tokens[p.token])
      BY <2>2, <2>4 DEF Coroutine
    <2> QED BY <2>2, <2>5 DEF Late, LateRefresh, Dead, Status
  <1>4. CASE ReadSession(r)
    <2>1. p.kind = "refresh" /\ p.pc = "session"
          /\ ~RefreshRejected(p, sessions[p.sid])
      BY <1>4 DEF ReadSession, At
    <2>2. p.old = "used"
      BY <1>0, <2>1 DEF Late, LateRefresh, RefreshRejected, Coroutine,
                        TokenStatus
    <2>3. q = [p EXCEPT !.pc = "commit", !.seen = sessions[p.sid].scopes,
                        !.event = "reuse_detected"]
      BY <1>4, <2>2 DEF ReadSession, TypeOK
    <2> QED BY <2>1, <2>3 DEF Late, LateRefresh, Coroutine
  <1>5. CASE ReadSessionToRevoke(r)
    BY <1>0, <1>5 DEF ReadSessionToRevoke, At, Late
  <1>6. CASE CheckJti(r)
    <2>1. /\ p.kind = "validate" /\ p.pc = "jti" /\ p.jti \notin revokedJti
          /\ q = [p EXCEPT !.pc = "session", !.sid = access[p.jti].session]
      BY <1>6 DEF CheckJti, At, TypeOK
    <2>2. sessions[access[p.jti].session].revoked
      BY <1>0, <2>1 DEF Late, LateValidate
    <2> QED BY <2>1, <2>2 DEF Late, LateValidate, Coroutine
  <1>7. CASE CheckSession(r)
    <2>1. p.kind = "validate" /\ p.pc = "session" /\ ~sessions[p.sid].revoked
      BY <1>7 DEF CheckSession, At
    <2> QED BY <1>0, <2>1 DEF Late, LateValidate
  <1>8. CASE Audit(r)
    <2>1. p.pc = "audit" /\ q = [p EXCEPT !.pc = "respond"]
      BY <1>8 DEF Audit, Goto, TypeOK
    <2>2. p.kind = "refresh" /\ p.event = "reuse_detected"
      BY <1>0, <2>1 DEF Late, LateExchange, LateRefresh, LateValidate
    <2> QED BY <2>1, <2>2 DEF Late, LateRefresh, Coroutine
  <1> QED BY <1>1, <1>2, <1>3, <1>4, <1>5, <1>6, <1>7, <1>8

\* a late request commits nothing but the detection of a reuse
LEMMA CommitLate ==
    ASSUME TypeOK, NEW r \in Request, NEW p \in Coroutine, p = reqs[r],
           Late(p), NEW q, q = reqs'[r],
           \/ CommitCode(r) \/ CommitExchange(r) \/ CommitRefresh(r)
           \/ CommitReuse(r) \/ CommitRevoke(r) \/ CommitAdminClient(r)
           \/ CommitAdminSession(r)
    PROVE  Late(q)'
  <1> SUFFICES ASSUME q.late PROVE Late(q)'
    BY DEF Late
  <1>1. p.late /\ p.pc = "commit"
    <2>1. p.pc = "commit"
      BY DEF CommitCode, CommitExchange, CommitRefresh, CommitReuse,
             CommitRevoke, CommitAdminClient, CommitAdminSession, At
    <2>2. CASE CommitCode(r) \/ CommitRefresh(r)
      <3>1. \E x : \/ q = [p EXCEPT !.code = x, !.pc = AfterCommit]
                   \/ q = [p EXCEPT !.pc = AfterCommit, !.minted = x]
        BY <2>2 DEF CommitCode, CommitRefresh, TypeOK
      <3> QED BY <2>1, <3>1 DEF Coroutine
    <2>3. CASE CommitExchange(r)
      <3>1. PICK s, t : reqs' = [reqs EXCEPT ![r].pc = AfterCommit, ![r].sid = s,
                                   ![r].minted = t, ![r].event = "token.issued"]
        BY Zenon, <2>3 DEF CommitExchange
      <3>2. q = [p EXCEPT !.pc = AfterCommit, !.sid = s, !.minted = t,
                          !.event = "token.issued"]
        BY <3>1 DEF TypeOK
      <3> QED BY <2>1, <3>2 DEF Coroutine
    <2>4. CASE \/ CommitReuse(r) \/ CommitRevoke(r) \/ CommitAdminClient(r)
               \/ CommitAdminSession(r)
      <3>1. q = [p EXCEPT !.pc = AfterCommit]
        BY <2>4 DEF CommitReuse, CommitRevoke, CommitAdminClient,
                    CommitAdminSession, Goto, TypeOK
      <3> QED BY <2>1, <3>1 DEF Coroutine
    <2> QED BY <2>2, <2>3, <2>4
  <1>2. p.kind = "refresh" /\ p.event = "reuse_detected"
    BY <1>1 DEF Late, LateExchange, LateRefresh, LateValidate
  <1>3. CommitReuse(r)
    BY <1>2 DEF CommitCode, CommitExchange, CommitRefresh, CommitRevoke,
                CommitAdminClient, CommitAdminSession, At
  <1>4. q = [p EXCEPT !.pc = AfterCommit]
    BY <1>3 DEF CommitReuse, Goto, TypeOK
  <1>5. q.kind = "refresh" /\ q.pc = "audit" /\ q.event = "reuse_detected"
    BY <1>2, <1>4 DEF Coroutine, AfterCommit
  <1> QED BY <1>5 DEF Late, LateRefresh

-----------------------------------------------------------------------------
LEMMA OthersWait ==
    ASSUME TypeOK, NEW s \in Request, Submit(s) \/ Serve(s) \/ Abandon(s),
           NEW r \in Request \ {s}
    PROVE  reqs'[r] = reqs[r]
  <1>1. CASE Submit(s)
    BY <1>1 DEF Submit, SubmitDecision, SubmitExchange, SubmitRefresh,
       SubmitRevoke, SubmitRevokeAccess, PresentAccess, AdminRevokeClient,
       AdminRevokeSession, TypeOK
  <1>2. CASE \/ ClientAuth(s) \/ ReadCode(s) \/ ReadToken(s) \/ ReadSession(s)
             \/ ReadSessionToRevoke(s) \/ CheckJti(s) \/ CheckSession(s)
    BY <1>2 DEF ClientAuth, ReadCode, ReadToken, ReadSession,
       ReadSessionToRevoke, CheckJti, CheckSession, Goto, Finish, TypeOK
  <1>3. CASE CommitCode(s) \/ CommitExchange(s) \/ CommitRefresh(s)
    BY <1>3 DEF CommitCode, CommitExchange, CommitRefresh, TypeOK
  <1>4. CASE \/ CommitReuse(s) \/ CommitRevoke(s) \/ CommitRevokeAccess(s)
             \/ CommitAdminClient(s) \/ CommitAdminSession(s)
    BY <1>4 DEF CommitReuse, CommitRevoke, CommitRevokeAccess,
       CommitAdminClient, CommitAdminSession, Goto, Finish, TypeOK
  <1>5. CASE Audit(s) \/ Respond(s) \/ RespondTokens(s) \/ Abandon(s)
    BY <1>5 DEF Audit, Respond, RespondTokens, Abandon, Goto, Finish, TypeOK
  <1> QED BY <1>1, <1>2, <1>3, <1>4, <1>5 DEF Serve

LEMMA LateInit == Init => AllLate
  BY DEF Init, AllLate, Late, Idle

LEMMA LateStep == IInv /\ AllLate /\ [Next]_vars => AllLate'
  <1> SUFFICES ASSUME IInv, AllLate, [Next]_vars, NEW r \in Request
               PROVE  Late(reqs[r])'
    BY DEF AllLate
  <1>1. TypeOK /\ Grows /\ OnlySpends
    BY GrowStep, SpendStep DEF IInv
  <1>2. PICK p \in Coroutine : p = reqs[r] /\ Fits(p) /\ Late(p)
    BY DEF IInv, TypeOK, AllLate
  <1>3. PICK q : q = reqs'[r]
    OBVIOUS
  <1>4. CASE q = p
    BY <1>1, <1>2, <1>3, <1>4, LateStable, LateOf
  <1>5. ASSUME Late(q), UNCHANGED <<db, access>>
        PROVE  Late(q)'
    BY <1>5 DEF Late, LateExchange, LateRefresh, LateValidate, Dead, db
  <1>6. CASE Submit(r)
    <2>1. Late(q)
      BY <1>1, <1>3, <1>6, SubmitLate
    <2>2. UNCHANGED <<db, access>>
      BY <1>6 DEF Submit, SubmitDecision, SubmitExchange, SubmitRefresh,
         SubmitRevoke, SubmitRevokeAccess, PresentAccess, AdminRevokeClient,
         AdminRevokeSession
    <2> QED BY <1>3, <1>5, <2>1, <2>2, LateOf
  <1>7. CASE Finish(r)
    <2>1. ~q.late
      BY <1>1, <1>3, <1>7 DEF Finish, TypeOK, Idle
    <2>2. Late(q)'
      BY <2>1 DEF Late
    <2> QED BY <1>3, <2>2, LateOf
  <1>8. CASE /\ ~Finish(r)
             /\ \/ ClientAuth(r) \/ ReadCode(r) \/ ReadToken(r) \/ ReadSession(r)
                \/ ReadSessionToRevoke(r) \/ CheckJti(r) \/ CheckSession(r)
                \/ Audit(r)
    <2>1. Late(q)
      BY <1>1, <1>2, <1>3, <1>8, ReadLate
    <2>2. UNCHANGED <<db, access>>
      BY <1>8 DEF ClientAuth, ReadCode, ReadToken, ReadSession,
         ReadSessionToRevoke, CheckJti, CheckSession, Audit
    <2> QED BY <1>3, <1>5, <2>1, <2>2, LateOf
  <1>9. CASE \/ CommitCode(r) \/ CommitExchange(r) \/ CommitRefresh(r)
             \/ CommitReuse(r) \/ CommitRevoke(r) \/ CommitAdminClient(r)
             \/ CommitAdminSession(r)
    <2>1. Late(q)'
      BY <1>1, <1>2, <1>3, <1>9, CommitLate
    <2> QED BY <1>3, <2>1, LateOf
  <1>10. ASSUME NEW s \in Request, s # r, Submit(s) \/ Serve(s) \/ Abandon(s)
         PROVE  q = p
    BY <1>1, <1>2, <1>3, <1>10, OthersWait
  <1>11. CASE Serve(r) \/ Abandon(r)
    BY <1>7, <1>8, <1>9, <1>11
       DEF Serve, Abandon, CommitRevokeAccess, Respond, RespondTokens
  <1>12. CASE Tick \/ (\E c \in Client, S \in SUBSET Scope : Authorize(c, S))
              \/ UNCHANGED vars
    <2>1. q = p
      BY <1>2, <1>3, <1>12 DEF Tick, Authorize, vars
    <2> QED BY <1>4, <2>1
  <1> QED BY <1>4, <1>6, <1>10, <1>11, <1>12 DEF Next

\* However requests overlap, a code or refresh token spent before a request,
\* or a token, session or client revoked before it, mints no tokens and runs
\* no MCP call (oauth.py, token and validate_access_token).
THEOREM DeadGrantsAreRefused == Spec => []SpentBuysNothing
  <1>1. IInv /\ AllLate => SpentBuysNothing
    <2> SUFFICES ASSUME IInv, NEW p \in Coroutine, Fits(p), Late(p), p.late
                 PROVE  /\ p.event \notin {"token.issued", "token.refreshed"}
                        /\ p.kind = "validate" => p.pc # "respond"
      BY DEF SpentBuysNothing, Mints, IInv, TypeOK, AllLate
    <2>1. p.event # "token.issued"
      BY DEF Fits, Late, LateExchange
    <2>2. p.event # "token.refreshed"
      BY DEF Fits, Late, LateRefresh
    <2>3. p.kind = "validate" => p.pc # "respond"
      BY DEF Late, LateValidate
    <2> QED BY <2>1, <2>2, <2>3
  <1> QED BY Initially, Inductive, LateInit, LateStep, <1>1, PTL DEF Spec

-----------------------------------------------------------------------------
(***************************************************************************)
(* What a reply hands out has left its trail.  Trail: the rows handed out, *)
(* each with the event of its own commit and that of its session.  Backed: *)
(* a coroutine on its way to a reply knows which events will be there: a   *)
(* rotation hands on the session of a token that was itself handed out.    *)
(***************************************************************************)
Handing == {"consent.granted", "token.issued", "token.refreshed"}
Issued(s) == [event |-> "token.issued", row |-> s]

Backed(q) ==
    /\ q.kind = "refresh" => q.token \in held
    /\ q.event = "token.refreshed" /\ q.pc \in {"audit", "respond"} =>
          /\ q.minted # None
          /\ tokens[q.minted].session = tokens[q.token].session
    /\ q.event = "token.issued" /\ q.minted # None =>
          /\ tokens[q.minted].family = q.minted
          /\ tokens[q.minted].session = q.sid
    /\ q.event \in Handing /\ q.pc = "respond" =>
          [event |-> q.event, row |-> AuditRow(q)] \in audit

AllBacked == \A r \in Request : Backed(reqs[r])

Trail ==
    /\ \A k \in Code \cap held : [event |-> "consent.granted", row |-> k] \in audit
    /\ \A t \in Token \cap held :
          /\ Issued(tokens[t].session) \in audit
          /\ \/ [event |-> "token.refreshed", row |-> t] \in audit
             \/ tokens[t].family = t
    /\ \A j \in Jti : IsAccess(j) => Issued(access[j].session) \in audit

LEMMA BackedOf ==
    ASSUME NEW r \in Request, NEW q, q = reqs'[r], Backed(q)'
    PROVE  Backed(reqs[r])'
  BY DEF Backed, AuditRow

\* no step takes back what a coroutine counts on
LEMMA BackedStable ==
    ASSUME IInv, Grows, OnlySpends, held \subseteq held', audit \subseteq audit',
           NEW q \in Coroutine, Fits(q), Backed(q)
    PROVE  Backed(q)'
  <1>1. IsToken(q.minted) => /\ tokens'[q.minted].family = tokens[q.minted].family
                             /\ tokens'[q.minted].session = tokens[q.minted].session
    BY DEF Grows, OnlySpends, IsToken
  <1>2. IsToken(q.token) => tokens'[q.token].session = tokens[q.token].session
    BY DEF Grows, IsToken
  <1>3. /\ q.minted # None => IsToken(q.minted)
        /\ q.kind = "refresh" => IsToken(q.token)
        /\ q.event = "token.refreshed" => q.kind = "refresh"
    BY DEF Fits
  <1>4. q.kind = "refresh" => q.token \in held'
    BY DEF Backed
  <1>5. q.event = "token.refreshed" /\ q.pc \in {"audit", "respond"} =>
           /\ q.minted # None
           /\ tokens'[q.minted].session = tokens'[q.token].session
    BY <1>1, <1>2, <1>3 DEF Backed
  <1>6. q.event = "token.issued" /\ q.minted # None =>
           /\ tokens'[q.minted].family = q.minted
           /\ tokens'[q.minted].session = q.sid
    BY <1>1, <1>3 DEF Backed
  <1>7. q.event \in Handing /\ q.pc = "respond" =>
           [event |-> q.event, row |-> AuditRow(q)] \in audit'
    BY DEF Backed
  <1> QED BY <1>4, <1>5, <1>6, <1>7 DEF Backed, AuditRow

\* nothing is added to what was handed out
LEMMA TrailStable ==
    ASSUME IInv, Trail, Grows, OnlySpends, audit \subseteq audit',
           UNCHANGED <<held, access>>
    PROVE  Trail'
  <1>1. \A t \in Token \cap held : IsToken(t)
    BY ConstantsAssumption DEF IInv, HeldOK, IsCode, IsToken
  <1>2. \A t \in Token \cap held : /\ tokens'[t].session = tokens[t].session
                                   /\ tokens'[t].family = tokens[t].family
    BY <1>1 DEF Grows, OnlySpends, IsToken
  <1> QED BY <1>2 DEF Trail, IsAccess, Issued

\* a request starts with nothing to hand out, and a refresh with a token the
\* client has
LEMMA SubmitBacked ==
    ASSUME TypeOK, NEW r \in Request, Submit(r), NEW q, q = reqs'[r]
    PROVE  Backed(q)
  <1>1. ASSUME q.kind # "refresh", q.pc # "respond",
               q.event \notin {"token.issued", "token.refreshed"}
        PROVE  Backed(q)
    BY <1>1 DEF Backed
  <1>2. ASSUME NEW c \in Client, NEW proof \in Forms, NEW t \in Token,
               NEW S \in SUBSET Scope, SubmitRefresh(r, c, t, S, proof)
        PROVE  Backed(q)
    <2> DEFINE dead == c \in clientRevoked \/ Dead(t)
    <2>1. q = [Idle EXCEPT !.kind = "refresh", !.pc = "client", !.client = c,
                           !.token = t, !.scopes = S, !.proof = proof,
                           !.late = dead]
      BY <1>2 DEF SubmitRefresh, TypeOK
    <2>2. q.pc = "client" /\ q.token = t /\ q.event = "none"
      <3> HIDE DEF dead
      <3> QED BY <2>1 DEF Idle
    <2>3. t \in held
      BY <1>2 DEF SubmitRefresh
    <2> QED BY <2>2, <2>3 DEF Backed, Handing
  <1>3. ASSUME NEW c \in Client, NEW proof \in Forms, NEW k \in Code,
               SubmitExchange(r, c, k, proof)
        PROVE  Backed(q)
    <2> DEFINE dead == c \in clientRevoked \/ codes[k].used
    <2>1. q = [Idle EXCEPT !.kind = "exchange", !.pc = "client", !.client = c,
                           !.code = k, !.proof = proof, !.late = dead]
      BY <1>3 DEF SubmitExchange, TypeOK
    <2>2. q.kind = "exchange" /\ q.pc = "client" /\ q.event = "none"
      <3> HIDE DEF dead
      <3> QED BY <2>1 DEF Idle
    <2> QED BY <1>1, <2>2
  <1>4. ASSUME NEW j \in Jti, PresentAccess(r, j) PROVE Backed(q)
    <2> DEFINE dead == \/ j \in revokedJti
                       \/ sessions[access[j].session].revoked
    <2>1. q = [Idle EXCEPT !.kind = "validate", !.pc = "jti", !.jti = j,
                           !.late = dead]
      BY <1>4 DEF PresentAccess, TypeOK
    <2>2. q.kind = "validate" /\ q.pc = "jti" /\ q.event = "none"
      <3> HIDE DEF dead
      <3> QED BY <2>1 DEF Idle
    <2> QED BY <1>1, <2>2
  <1>5. ASSUME NEW allow \in BOOLEAN, SubmitDecision(r, allow)
        PROVE  Backed(q)
    <2>1. \E a, b : \E c \in {"commit", "audit"}, d \in {"consent.granted", "consent.denied"} :
             q = [Idle EXCEPT !.kind = "decide", !.client = a,
                              !.scopes = b, !.pc = c, !.event = d]
      BY <1>5 DEF SubmitDecision, TypeOK, AfterCommit
    <2> QED BY <1>1, <2>1 DEF Idle
  <1>6. ASSUME NEW c \in Client, NEW proof \in Forms,
               \/ \E t \in Token : SubmitRevoke(r, c, t, proof)
               \/ \E j \in Jti : SubmitRevokeAccess(r, c, j, proof)
        PROVE  Backed(q)
    <2>1. \E x : \/ q = [Idle EXCEPT !.kind = "revoke", !.pc = "client",
                            !.client = c, !.token = x, !.proof = proof]
                 \/ q = [Idle EXCEPT !.kind = "revoke", !.pc = "client",
                            !.client = c, !.jti = x, !.proof = proof]
      BY <1>6 DEF SubmitRevoke, SubmitRevokeAccess, TypeOK
    <2> QED BY <1>1, <2>1 DEF Idle
  <1>7. CASE \/ \E c \in Client : AdminRevokeClient(r, c)
             \/ \E s \in Session : AdminRevokeSession(r, s)
    <2>1. \E x : \/ q = [Idle EXCEPT !.kind = "adminClient", !.pc = "commit",
                            !.client = x, !.event = "client.revoked"]
                 \/ q = [Idle EXCEPT !.kind = "adminSession", !.pc = "commit",
                            !.sid = x, !.event = "session.revoked"]
      BY <1>7 DEF AdminRevokeClient, AdminRevokeSession, TypeOK
    <2> QED BY <1>1, <2>1 DEF Idle
  <1> QED BY <1>2, <1>3, <1>4, <1>5, <1>6, <1>7 DEF Submit

LEMMA ReadBacked ==
    ASSUME TypeOK, NEW r \in Request, NEW p \in Coroutine, p = reqs[r],
           Fits(p), Backed(p), NEW q, q = reqs'[r], ~Finish(r),
           \/ ClientAuth(r) \/ ReadCode(r) \/ ReadToken(r) \/ ReadSession(r)
           \/ ReadSessionToRevoke(r) \/ CheckJti(r) \/ CheckSession(r)
    PROVE  Backed(q)
  <1>1. ASSUME q.kind = p.kind, q.token = p.token, q.pc # "respond",
               q.event \in {"none", "reuse_detected", "session.revoked"}
        PROVE  Backed(q)
    BY <1>1 DEF Backed, Handing
  <1>2. p.event \notin {"token.issued", "token.refreshed"} \/ p.pc \in {"commit", "audit", "respond"}
    BY DEF Fits
  <1>3. ASSUME q.kind = p.kind, q.token = p.token, q.event = p.event,
               q.pc # "respond", p.pc \notin {"commit", "audit", "respond"}
        PROVE  Backed(q)
    BY <1>2, <1>3 DEF Backed, Handing
  <1>4. CASE ClientAuth(r)
    <2>1. /\ p.pc = "client"
          /\ q = [p EXCEPT !.pc = IF p.kind = "exchange" THEN "code" ELSE "token"]
      BY <1>4 DEF ClientAuth, Goto, TypeOK
    <2> QED BY <1>3, <2>1 DEF Coroutine
  <1>5. CASE ReadCode(r)
    <2>1. /\ p.pc = "code"
          /\ q = [p EXCEPT !.pc = "commit", !.scopes = codes[p.code].scopes]
      BY <1>5 DEF ReadCode, At, TypeOK
    <2> QED BY <1>3, <2>1 DEF Coroutine
  <1>6. CASE ReadToken(r)
    <2>1. p.pc = "token"
      BY <1>6 DEF ReadToken
    <2>2. CASE p.token # None
      <3>1. q = [p EXCEPT !.pc = "session", !.sid = tokens[p.token].session,
                          !.old = Status(tokens[p.token])]
        BY <1>6, <2>2 DEF ReadToken, TypeOK
      <3> QED BY <1>3, <2>1, <3>1 DEF Coroutine
    <2>3. CASE p.token = None
      <3>1. q = [p EXCEPT !.pc = "commit"]
        BY <1>6, <2>3 DEF ReadToken, Goto, TypeOK
      <3> QED BY <1>3, <2>1, <3>1 DEF Coroutine
    <2> QED BY <2>2, <2>3
  <1>7. CASE ReadSession(r)
    <2>1. /\ p.kind = "refresh"
          /\ q = [p EXCEPT !.pc = "commit", !.seen = sessions[p.sid].scopes,
                           !.event = IF p.old = "used" THEN "reuse_detected"
                                                       ELSE "token.refreshed"]
      BY <1>7 DEF ReadSession, At, TypeOK
    <2>2. q.kind = "refresh" /\ q.token = p.token /\ q.pc = "commit"
          /\ q.event # "token.issued"
      BY <2>1 DEF Coroutine
    <2> QED BY <2>1, <2>2 DEF Backed
  <1>8. CASE ReadSessionToRevoke(r)
    <2>1. q = [p EXCEPT !.pc = "commit", !.event = "session.revoked"]
      BY <1>8 DEF ReadSessionToRevoke, TypeOK
    <2> QED BY <1>1, <2>1 DEF Coroutine
  <1>9. CASE CheckJti(r)
    <2>1. /\ p.pc = "jti"
          /\ q = [p EXCEPT !.pc = "session", !.sid = access[p.jti].session]
      BY <1>9 DEF CheckJti, At, TypeOK
    <2> QED BY <1>3, <2>1 DEF Coroutine
  <1>10. CASE CheckSession(r)
    <2>1. /\ p.kind = "validate"
          /\ q = [p EXCEPT !.pc = "respond", !.scopes = access[p.jti].scopes]
      BY <1>10 DEF CheckSession, At, TypeOK
    <2>2. p.event \notin Handing
      BY <2>1 DEF Fits, Handing
    <2> QED BY <2>1, <2>2 DEF Backed, Coroutine, Handing
  <1> QED BY <1>4, <1>5, <1>6, <1>7, <1>8, <1>9, <1>10

\* a commit that mints a token ties it to its session
LEMMA CommitBacked ==
    ASSUME IInv, NEW r \in Request, NEW p \in Coroutine, p = reqs[r],
           Fits(p), Backed(p), NEW q, q = reqs'[r],
           \/ CommitCode(r) \/ CommitExchange(r) \/ CommitRefresh(r)
           \/ CommitReuse(r) \/ CommitRevoke(r) \/ CommitAdminClient(r)
           \/ CommitAdminSession(r)
    PROVE  Backed(q)'
  <1>1. TypeOK /\ UNCHANGED held
    BY DEF IInv, CommitCode, CommitExchange, CommitRefresh, CommitReuse,
           CommitRevoke, CommitAdminClient, CommitAdminSession
  <1>2. CASE CommitCode(r)
    <2>1. /\ p.kind = "decide"
          /\ \E k : q = [p EXCEPT !.code = k, !.pc = "audit"]
      BY <1>1, <1>2 DEF CommitCode, At, AfterCommit, TypeOK
    <2>2. q.kind = "decide" /\ q.pc = "audit" /\ q.event = p.event
      BY <2>1 DEF Coroutine
    <2>3. p.event \notin {"token.issued", "token.refreshed"}
      BY <2>1 DEF Fits
    <2> QED BY <2>2, <2>3 DEF Backed
  <1>3. CASE \/ CommitReuse(r) \/ CommitRevoke(r) \/ CommitAdminClient(r)
             \/ CommitAdminSession(r)
    <2>1. /\ p.pc = "commit" /\ q = [p EXCEPT !.pc = "audit"]
          /\ CommitReuse(r) => p.event = "reuse_detected"
          /\ ~CommitReuse(r) => p.kind # "refresh"
      BY <1>1, <1>3 DEF CommitReuse, CommitRevoke, CommitAdminClient,
                  CommitAdminSession, Goto, At, AfterCommit, TypeOK
    <2>2. p.event \notin {"token.issued", "token.refreshed"}
      BY <2>1 DEF Fits
    <2>3. q.kind = p.kind /\ q.token = p.token /\ q.event = p.event /\ q.pc = "audit"
      BY <2>1 DEF Coroutine
    <2> QED BY <1>1, <2>2, <2>3 DEF Backed
  <1>4. CASE CommitExchange(r)
    <2>1. PICK s \in FreshSession, t \in Token \cup {None} :
             /\ t # None => tokens' = [tokens EXCEPT ![t] = FirstToken(t, s)]
             /\ reqs' = [reqs EXCEPT ![r].pc = "audit", ![r].sid = s,
                                     ![r].minted = t, ![r].event = "token.issued"]
      BY <1>4 DEF CommitExchange, AfterCommit
    <2>2. q = [p EXCEPT !.pc = "audit", !.sid = s, !.minted = t,
                        !.event = "token.issued"]
      BY <1>1, <2>1 DEF TypeOK
    <2>3. /\ q.kind = p.kind /\ q.pc = "audit" /\ q.sid = s /\ q.minted = t
          /\ q.event = "token.issued"
      BY <2>2 DEF Coroutine
    <2>4. p.kind = "exchange"
      BY <1>4 DEF CommitExchange, At
    <2>5. t # None => tokens'[t].family = t /\ tokens'[t].session = s
      BY <1>1, <2>1 DEF TypeOK, FirstToken
    <2> QED BY <2>3, <2>4, <2>5 DEF Backed
  <1>5. CASE CommitRefresh(r)
    <2>1. p.kind = "refresh" /\ p.event = "token.refreshed"
      BY <1>5 DEF CommitRefresh, At
    <2>2. PICK t \in FreshToken :
             /\ tokens' = Rotate(p.token, t)
             /\ reqs' = [reqs EXCEPT ![r].pc = "audit", ![r].minted = t]
      BY <1>5 DEF CommitRefresh, AfterCommit
    <2>3. q = [p EXCEPT !.pc = "audit", !.minted = t]
      BY <1>1, <2>2 DEF TypeOK
    <2>4. /\ q.kind = "refresh" /\ q.pc = "audit" /\ q.token = p.token
          /\ q.minted = t /\ q.event = "token.refreshed"
      BY <2>1, <2>3 DEF Coroutine
    <2>5. /\ t \in Token /\ t # None /\ p.token \in Token /\ p.token # t
          /\ tokens[p.token] \in TokenRow
      BY <1>1, <2>1, ConstantsAssumption DEF Fits, IsToken, FreshToken, TypeOK
    <2>6. /\ tokens'[t] = [tokens[p.token] EXCEPT !.used = FALSE, !.revoked = FALSE]
          /\ tokens'[p.token] = [tokens[p.token] EXCEPT !.used = TRUE]
      BY <1>1, <2>2, <2>5 DEF Rotate, TypeOK
    <2>7. tokens'[t].session = tokens'[p.token].session
      <3>1. PICK row \in TokenRow : row = tokens[p.token]
        BY <2>5
      <3>2. /\ tokens'[t] = [row EXCEPT !.used = FALSE, !.revoked = FALSE]
            /\ tokens'[p.token] = [row EXCEPT !.used = TRUE]
        BY <2>6, <3>1
      <3> QED BY <3>2 DEF TokenRow
    <2>8. p.token \in held'
      BY <1>1, <2>1 DEF Backed
    <2> QED BY <2>4, <2>5, <2>7, <2>8 DEF Backed
  <1> QED BY <1>2, <1>3, <1>4, <1>5

\* the audit event is what a reply that hands something out waits for
LEMMA AuditBacked ==
    ASSUME TypeOK, NEW r \in Request, NEW p \in Coroutine, p = reqs[r],
           Backed(p), NEW q, q = reqs'[r], Audit(r)
    PROVE  Backed(q)'
  <1>1. p.pc = "audit" /\ q = [p EXCEPT !.pc = "respond"]
    BY DEF Audit, Goto, TypeOK
  <1>2. /\ q.kind = p.kind /\ q.token = p.token /\ q.event = p.event
        /\ q.minted = p.minted /\ q.sid = p.sid /\ q.code = p.code
        /\ q.pc = "respond"
    BY <1>1 DEF Coroutine
  <1>3. p.event \in Handing => [event |-> p.event, row |-> AuditRow(p)] \in audit'
    BY DEF Audit, Handing
  <1>4. AuditRow(q) = AuditRow(p)
    BY <1>2 DEF AuditRow
  <1>5. UNCHANGED <<tokens, held>>
    BY DEF Audit, db
  <1> QED BY <1>1, <1>2, <1>3, <1>4, <1>5 DEF Backed, AuditRow

LEMMA BackedInit == Init => AllBacked /\ Trail
  BY ConstantsAssumption
     DEF Init, AllBacked, Backed, Handing, Idle, Trail, IsAccess, NoAccess

LEMMA LogGrows ==
    ASSUME [Next]_vars PROVE held \subseteq held' /\ audit \subseteq audit'
  <1>1. ASSUME NEW r \in Request, Submit(r) \/ Abandon(r)
        PROVE  UNCHANGED <<held, audit>>
    BY <1>1 DEF Submit, SubmitDecision, SubmitExchange, SubmitRefresh,
       SubmitRevoke, SubmitRevokeAccess, PresentAccess, AdminRevokeClient,
       AdminRevokeSession, Abandon
  <1>2. ASSUME NEW r \in Request, Serve(r)
        PROVE  held \subseteq held' /\ audit \subseteq audit'
    <2>1. CASE Audit(r) \/ Respond(r) \/ RespondTokens(r)
      BY <2>1 DEF Audit, Respond, RespondTokens
    <2> QED BY <1>2, <2>1 DEF Serve, CommitCode, ClientAuth, ReadCode,
        CommitExchange, ReadToken, ReadSession, CommitReuse, CommitRefresh,
        ReadSessionToRevoke, CommitRevoke, CommitRevokeAccess,
        CommitAdminClient, CommitAdminSession, CheckJti, CheckSession
  <1> QED BY <1>1, <1>2 DEF Next, Tick, Authorize, vars

LEMMA BackedStep == IInv /\ AllBacked /\ [Next]_vars => AllBacked'
  <1> SUFFICES ASSUME IInv, AllBacked, [Next]_vars, NEW r \in Request
               PROVE  Backed(reqs[r])'
    BY DEF AllBacked
  <1>1. /\ TypeOK /\ Grows /\ OnlySpends
        /\ held \subseteq held' /\ audit \subseteq audit'
    BY GrowStep, SpendStep, LogGrows DEF IInv
  <1>2. PICK p \in Coroutine : p = reqs[r] /\ Fits(p) /\ Backed(p)
    BY DEF IInv, TypeOK, AllBacked
  <1>3. PICK q : q = reqs'[r]
    OBVIOUS
  <1>4. CASE q = p
    BY <1>1, <1>2, <1>3, <1>4, BackedStable, BackedOf
  <1>5. ASSUME Backed(q), UNCHANGED <<db, held, audit>>
        PROVE  Backed(q)'
    BY <1>5 DEF Backed, AuditRow, db
  <1>6. CASE Submit(r)
    <2>1. Backed(q)
      BY <1>1, <1>3, <1>6, SubmitBacked
    <2>2. UNCHANGED <<db, held, audit>>
      BY <1>6 DEF Submit, SubmitDecision, SubmitExchange, SubmitRefresh,
         SubmitRevoke, SubmitRevokeAccess, PresentAccess, AdminRevokeClient,
         AdminRevokeSession
    <2> QED BY <1>3, <1>5, <2>1, <2>2, BackedOf
  <1>7. CASE Finish(r)
    <2>1. q.kind = "none" /\ q.event = "none"
      BY <1>1, <1>3, <1>7 DEF Finish, TypeOK, Idle
    <2>2. Backed(q)'
      BY <2>1 DEF Backed, Handing
    <2> QED BY <1>3, <2>2, BackedOf
  <1>8. CASE /\ ~Finish(r)
             /\ \/ ClientAuth(r) \/ ReadCode(r) \/ ReadToken(r) \/ ReadSession(r)
                \/ ReadSessionToRevoke(r) \/ CheckJti(r) \/ CheckSession(r)
    <2>1. Backed(q)
      BY <1>1, <1>2, <1>3, <1>8, ReadBacked
    <2>2. UNCHANGED <<db, held, audit>>
      BY <1>8 DEF ClientAuth, ReadCode, ReadToken, ReadSession,
         ReadSessionToRevoke, CheckJti, CheckSession
    <2> QED BY <1>3, <1>5, <2>1, <2>2, BackedOf
  <1>9. CASE \/ CommitCode(r) \/ CommitExchange(r) \/ CommitRefresh(r)
             \/ CommitReuse(r) \/ CommitRevoke(r) \/ CommitAdminClient(r)
             \/ CommitAdminSession(r)
    <2>1. Backed(q)'
      BY <1>2, <1>3, <1>9, CommitBacked
    <2> QED BY <1>3, <2>1, BackedOf
  <1>10. CASE Audit(r)
    <2>1. Backed(q)'
      BY <1>1, <1>2, <1>3, <1>10, AuditBacked
    <2> QED BY <1>3, <2>1, BackedOf
  <1>11. ASSUME NEW s \in Request, s # r, Submit(s) \/ Serve(s) \/ Abandon(s)
         PROVE  q = p
    BY <1>1, <1>2, <1>3, <1>11, OthersWait
  <1>12. CASE Serve(r) \/ Abandon(r)
    BY <1>7, <1>8, <1>9, <1>10, <1>12
       DEF Serve, Abandon, CommitRevokeAccess, Respond, RespondTokens
  <1>13. CASE Tick \/ (\E c \in Client, S \in SUBSET Scope : Authorize(c, S))
              \/ UNCHANGED vars
    <2>1. q = p
      BY <1>2, <1>3, <1>13 DEF Tick, Authorize, vars
    <2> QED BY <1>4, <2>1
  <1> QED BY <1>4, <1>6, <1>11, <1>12, <1>13 DEF Next

\* only the two replies hand anything out
LEMMA TrailStep == IInv /\ AllBacked /\ Trail /\ [Next]_vars => Trail'
  <1> SUFFICES ASSUME IInv, AllBacked, Trail, [Next]_vars PROVE Trail'
    OBVIOUS
  <1>1. /\ TypeOK /\ Grows /\ OnlySpends
        /\ held \subseteq held' /\ audit \subseteq audit'
    BY GrowStep, SpendStep, LogGrows DEF IInv
  <1>2. CASE UNCHANGED <<held, access>>
    BY <1>1, <1>2, TrailStable
  <1>3. ASSUME NEW r \in Request, Respond(r) PROVE Trail'
    <2>1. PICK p \in Coroutine : p = reqs[r] /\ Fits(p) /\ Backed(p)
      BY DEF IInv, TypeOK, AllBacked
    <2>2. /\ p.pc = "respond" /\ UNCHANGED <<tokens, audit, access>>
          /\ held' = IF p.event = "consent.granted" THEN held \cup {p.code} ELSE held
      BY <1>3, <2>1 DEF Respond, db
    <2>3. CASE p.event # "consent.granted"
      BY <1>1, <2>2, <2>3, TrailStable
    <2>4. CASE p.event = "consent.granted"
      <3>1. p.code \in Code
        BY <2>1, <2>2, <2>4 DEF Fits, IsCode
      <3>2. [event |-> "consent.granted", row |-> p.code] \in audit
        BY <2>1, <2>2, <2>4 DEF Backed, Handing, AuditRow
      <3> QED BY <2>2, <2>4, <3>1, <3>2, ConstantsAssumption
              DEF Trail, IsAccess, Issued
    <2> QED BY <2>3, <2>4
  <1>4. ASSUME NEW r \in Request, RespondTokens(r) PROVE Trail'
    <2>1. PICK p \in Coroutine : p = reqs[r] /\ Fits(p) /\ Backed(p)
      BY DEF IInv, TypeOK, AllBacked
    <2>2. /\ p.pc = "respond" /\ p.event \in {"token.issued", "token.refreshed"}
          /\ UNCHANGED <<tokens, audit>>
          /\ held' = held \cup ({p.minted} \ {None})
      BY <1>4, <2>1 DEF RespondTokens, db
    <2>3. /\ Issued(p.sid) \in audit
          /\ p.minted # None =>
                /\ p.minted \in Token
                /\ tokens[p.minted].session = p.sid
                /\ \/ [event |-> "token.refreshed", row |-> p.minted] \in audit
                   \/ tokens[p.minted].family = p.minted
      <3>1. CASE p.event = "token.issued"
        BY <2>1, <2>2, <3>1 DEF Backed, Handing, AuditRow, Issued, Fits, IsToken
      <3>2. CASE p.event = "token.refreshed"
        <4>1. p.kind = "refresh" /\ p.token \in held /\ IsToken(p.token)
              /\ p.sid = tokens[p.token].session
          BY <2>1, <2>2, <3>2 DEF Backed, Fits
        <4>2. Issued(p.sid) \in audit
          BY <4>1 DEF Trail, IsToken
        <4>3. [event |-> "token.refreshed", row |-> p.minted] \in audit
          BY <2>1, <2>2, <3>2 DEF Backed, Handing, AuditRow
        <4>4. tokens[p.minted].session = p.sid /\ IsToken(p.minted)
          BY <2>1, <2>2, <3>2, <4>1 DEF Backed, Fits
        <4> QED BY <4>2, <4>3, <4>4 DEF IsToken
      <3> QED BY <2>2, <3>1, <3>2
    <2>4. \A k \in Code \cap held' :
             [event |-> "consent.granted", row |-> k] \in audit'
      BY <2>2, <2>3, ConstantsAssumption DEF Trail
    <2>5. \A t \in Token \cap held' :
             /\ Issued(tokens'[t].session) \in audit'
             /\ \/ [event |-> "token.refreshed", row |-> t] \in audit'
                \/ tokens'[t].family = t
      BY <2>2, <2>3 DEF Trail
    <2>6. \A j \in Jti : access'[j] = access[j] \/ access'[j].session = p.sid
      <3>1. \/ UNCHANGED access
            \/ \E j \in FreshJti :
                  access' = [access EXCEPT ![j] =
                     [client |-> p.client, session |-> p.sid,
                      scopes |-> p.scopes, expires |-> now + AccessTTL]]
        BY <1>4, <2>1 DEF RespondTokens
      <3> QED BY <1>1, <3>1 DEF TypeOK
    <2>7. \A j \in Jti : IsAccess(j)' => Issued(access'[j].session) \in audit'
      BY <2>2, <2>3, <2>6 DEF Trail, IsAccess
    <2> QED BY <2>4, <2>5, <2>7 DEF Trail, Issued
  <1>5. ASSUME NEW r \in Request, Submit(r) \/ Abandon(r)
        PROVE  UNCHANGED <<held, access>>
    BY <1>5 DEF Submit, SubmitDecision, SubmitExchange, SubmitRefresh,
       SubmitRevoke, SubmitRevokeAccess, PresentAccess, AdminRevokeClient,
       AdminRevokeSession, Abandon
  <1>6. ASSUME NEW r \in Request, Serve(r), ~Respond(r), ~RespondTokens(r)
        PROVE  UNCHANGED <<held, access>>
    BY <1>6 DEF Serve, CommitCode, ClientAuth, ReadCode, CommitExchange,
       ReadToken, ReadSession, CommitReuse, CommitRefresh,
       ReadSessionToRevoke, CommitRevoke, CommitRevokeAccess,
       CommitAdminClient, CommitAdminSession, CheckJti, CheckSession, Audit
  <1> QED BY <1>2, <1>3, <1>4, <1>5, <1>6 DEF Next, Tick, Authorize, vars

\* A code or a token leaves the server only after its audit event is
\* committed, whatever fails, overlaps or restarts (oauth.py, oauth_audit
\* before each reply).
THEOREM RepliesAreAudited == Spec => []HandedOutIsAudited
  <1>1. Trail => HandedOutIsAudited
    BY DEF Trail, HandedOutIsAudited, IsAccess, Issued
  <1> QED
    BY Initially, Inductive, BackedInit, BackedStep, TrailStep, <1>1, PTL DEF Spec

-----------------------------------------------------------------------------
(***************************************************************************)
(* A revoked refresh token is never of a live session.                     *)
(***************************************************************************)

(***************************************************************************)
(* Fam, inductive together with IInv.  A family is named by its first      *)
(* token, so all of it is of that token's session; a row that does not     *)
(* exist is in no family; and revoked_at of a token is only set in the     *)
(* commit that sets that of its session.                                   *)
(***************************************************************************)
FamilyOK == \A t \in Token : IsToken(t) =>
    /\ IsToken(tokens[t].family)
    /\ tokens[tokens[t].family].session = tokens[t].session

BlankOK == \A t \in Token : ~IsToken(t) => tokens[t] = NoToken

RevokedOK == \A t \in Token : IsToken(t) /\ tokens[t].revoked =>
    sessions[tokens[t].session].revoked

Fam == FamilyOK /\ BlankOK /\ RevokedOK

LEMMA FamInit == Init => Fam
  BY DEF Init, Fam, FamilyOK, BlankOK, RevokedOK, IsToken, NoToken

LEMMA FamUnchanged ==
    ASSUME Fam, UNCHANGED <<sessions, tokens>>
    PROVE  Fam'
  BY DEF Fam, FamilyOK, BlankOK, RevokedOK, IsToken

\* a commit that writes revoked_at, of tokens of one session at most, and
\* then of that session
LEMMA RevokeFam ==
    ASSUME IInv, Fam,
           \A x \in Session : sessions[x].revoked => sessions'[x].revoked,
           \A t \in Token :
              \/ tokens'[t] = tokens[t]
              \/ /\ tokens'[t] = [tokens[t] EXCEPT !.revoked = TRUE]
                 /\ IsToken(t) /\ sessions'[tokens[t].session].revoked
    PROVE  Fam'
  <1>1. \A t \in Token : tokens[t] \in TokenRow
    BY DEF IInv, TypeOK
  <1>2. \A t \in Token : /\ tokens'[t].session = tokens[t].session
                         /\ tokens'[t].family = tokens[t].family
    <2>1. \A t \in Token :
             LET new == [tokens[t] EXCEPT !.revoked = TRUE]
             IN  new.session = tokens[t].session /\ new.family = tokens[t].family
      BY <1>1 DEF TokenRow
    <2> QED BY <2>1
  <1>3. FamilyOK'
    BY <1>2 DEF Fam, FamilyOK, IsToken
  <1>4. BlankOK'
    <2>1. \A t \in Token : ~IsToken(t) => tokens'[t] = tokens[t]
      OBVIOUS
    <2> QED BY <1>2, <2>1 DEF Fam, BlankOK, IsToken
  <1>5. RevokedOK'
    <2> SUFFICES ASSUME NEW t \in Token, IsToken(t)', tokens'[t].revoked
                 PROVE  sessions'[tokens'[t].session].revoked
      BY DEF RevokedOK
    <2>1. IsToken(t) /\ tokens'[t].session = tokens[t].session
      BY <1>2 DEF IsToken
    <2>2. tokens[t].session \in Session
      BY <2>1 DEF IInv, TokensOK, IsSession
    <2> QED BY <2>1, <2>2 DEF Fam, RevokedOK
  <1> QED BY <1>3, <1>4, <1>5 DEF Fam

LEMMA RevocationFam ==
    ASSUME IInv, Fam, NEW r \in Request,
           \/ CommitReuse(r) \/ CommitRevoke(r)
           \/ CommitAdminClient(r) \/ CommitAdminSession(r)
    PROVE  Fam'
  <1>1. /\ TypeOK /\ OnlySpends
        /\ \A x \in Session : sessions[x] \in SessionRow
    BY RevocationSpends DEF IInv, TypeOK
  <1>2. PICK p \in Coroutine : p = reqs[r] /\ Fits(p)
    BY DEF IInv, TypeOK
  <1>3. \A x \in Session : sessions[x].revoked => sessions'[x].revoked
    <2>1. \A x \in Session :
             \/ sessions'[x] = sessions[x]
             \/ sessions'[x] = [sessions[x] EXCEPT !.revoked = TRUE]
      BY <1>1 DEF CommitReuse, CommitRevoke, CommitAdminClient,
                  CommitAdminSession, RevokeSession, RevokeSessionsOf, TypeOK
    <2> QED BY <1>1, <2>1 DEF SessionRow
  <1>4. CASE CommitReuse(r) \/ CommitRevoke(r)
    <2>1. IsToken(p.token) /\ p.sid = tokens[p.token].session /\ p.sid \in Session
      BY <1>2, <1>4, ConstantsAssumption
         DEF CommitReuse, CommitRevoke, At, Fits, IsToken, IsAccess, IsSession,
             IInv, TokensOK
    <2>2. sessions' = RevokeSession(p.sid)
      BY <1>2, <1>4 DEF CommitReuse, CommitRevoke
    <2>3. sessions'[p.sid].revoked
      BY <1>1, <2>1, <2>2 DEF RevokeSession, TypeOK, SessionRow
    <2>4. RevokeFamily(tokens[p.token].family)
      BY <1>2, <1>4 DEF CommitReuse, CommitRevoke
    <2>5. ASSUME NEW t \in Token, tokens[t].family = tokens[p.token].family
          PROVE  IsToken(t) /\ tokens[t].session = p.sid
      BY <2>1, <2>5, ConstantsAssumption
         DEF Fam, FamilyOK, BlankOK, IsToken, NoToken
    <2>6. \A t \in Token :
             tokens'[t] = IF tokens[t].family = tokens[p.token].family
                          THEN [tokens[t] EXCEPT !.revoked = TRUE] ELSE tokens[t]
      BY <2>4 DEF RevokeFamily
    <2> QED BY <1>3, <2>3, <2>5, <2>6, RevokeFam
  <1>5. CASE CommitAdminClient(r)
    BY <1>3, <1>5, RevokeFam DEF CommitAdminClient
  <1>6. CASE CommitAdminSession(r)
    <2>1. IsSession(p.sid)
      BY <1>2, <1>6 DEF CommitAdminSession, At, Fits
    <2>2. sessions' = RevokeSession(p.sid)
      BY <1>2, <1>6 DEF CommitAdminSession
    <2>3. sessions'[p.sid].revoked
      BY <1>1, <2>1, <2>2 DEF IsSession, RevokeSession, TypeOK, SessionRow
    <2>4. \A t \in Token :
             tokens'[t] = IF tokens[t].session = p.sid
                          THEN [tokens[t] EXCEPT !.revoked = TRUE] ELSE tokens[t]
      BY <1>2, <1>6 DEF CommitAdminSession
    <2>5. p.sid \in Session /\ p.sid # None
      BY <2>1, ConstantsAssumption DEF IsSession
    <2> QED BY <1>3, <2>3, <2>4, <2>5, RevokeFam DEF IsToken
  <1> QED BY <1>4, <1>5, <1>6

\* a new row: of a family that is its own, or that of the row it replaces
LEMMA ExchangeFam ==
    ASSUME IInv, Fam, NEW r \in Request, CommitExchange(r)
    PROVE  Fam'
  <1>1. TypeOK
    BY DEF IInv
  <1>2. PICK s \in FreshSession, t \in Token \cup {None} :
           /\ \E row : sessions' = [sessions EXCEPT ![s] = row]
           /\ \/ t \in FreshToken /\ tokens' = [tokens EXCEPT ![t] = FirstToken(t, s)]
              \/ tokens' = tokens
    BY DEF CommitExchange
  <1>3. s \in Session /\ s # None
    BY ConstantsAssumption DEF FreshSession
  <1>4. \A x \in Token : IsToken(x) =>
           /\ tokens[x].session # s
           /\ sessions'[tokens[x].session] = sessions[tokens[x].session]
    BY <1>1, <1>2 DEF IInv, TokensOK, IsSession, FreshSession, TypeOK
  <1>5. CASE tokens' = tokens
    BY <1>4, <1>5 DEF Fam, FamilyOK, BlankOK, RevokedOK, IsToken
  <1>6. CASE t \in FreshToken /\ tokens' = [tokens EXCEPT ![t] = FirstToken(t, s)]
    <2>1. t \in Token /\ ~IsToken(t)
      BY <1>6 DEF FreshToken, IsToken
    <2>2. /\ tokens'[t] = FirstToken(t, s)
          /\ \A x \in Token \ {t} : tokens'[x] = tokens[x]
      BY <1>1, <1>6, <2>1 DEF TypeOK
    <2>3. /\ tokens'[t].session = s /\ tokens'[t].family = t
          /\ ~tokens'[t].revoked
      BY <2>2 DEF FirstToken
    <2>4. \A x \in Token : IsToken(x) => x # t
      BY <2>1
    <2>5. FamilyOK'
      BY <1>3, <2>1, <2>2, <2>3, <2>4 DEF Fam, FamilyOK, IsToken
    <2>6. BlankOK'
      BY <1>3, <2>2, <2>3 DEF Fam, BlankOK, IsToken, NoToken
    <2>7. RevokedOK'
      BY <1>4, <2>2, <2>3 DEF Fam, RevokedOK, IsToken
    <2> QED BY <2>5, <2>6, <2>7 DEF Fam
  <1> QED BY <1>2, <1>5, <1>6

LEMMA RefreshFam ==
    ASSUME IInv, Fam, NEW r \in Request, CommitRefresh(r)
    PROVE  Fam'
  <1>1. TypeOK
    BY DEF IInv
  <1>2. PICK p \in Coroutine : p = reqs[r] /\ Fits(p)
    BY DEF IInv, TypeOK
  <1>3. PICK t \in FreshToken : tokens' = Rotate(p.token, t)
    BY <1>2 DEF CommitRefresh
  <1>4. IsToken(p.token) /\ t \in Token /\ ~IsToken(t) /\ t # p.token
    BY <1>2 DEF CommitRefresh, At, Fits, FreshToken, IsToken
  <1>5. /\ tokens'[t].session = tokens[p.token].session
        /\ tokens'[t].family = tokens[p.token].family
        /\ ~tokens'[t].revoked
    <2>1. tokens'[t] = [tokens[p.token] EXCEPT !.used = FALSE, !.revoked = FALSE]
      BY <1>1, <1>3, <1>4 DEF Rotate, TypeOK, IsToken
    <2>2. tokens[p.token] \in TokenRow
      BY <1>1, <1>4 DEF TypeOK, IsToken
    <2> QED BY <2>1, <2>2 DEF TokenRow
  <1>6. \A x \in Token \ {t} : /\ tokens'[x].session = tokens[x].session
                               /\ tokens'[x].family = tokens[x].family
                               /\ tokens'[x].revoked = tokens[x].revoked
                               /\ ~IsToken(x) => tokens'[x] = tokens[x]
    <2>1. \A x \in Token : tokens[x] \in TokenRow
      BY <1>1 DEF TypeOK
    <2>2. \A x \in Token \ {t} :
             tokens'[x] = IF x = p.token THEN [tokens[x] EXCEPT !.used = TRUE]
                                         ELSE tokens[x]
      BY <1>1, <1>3, <1>4 DEF Rotate, TypeOK, IsToken
    <2> QED BY <1>4, <2>1, <2>2 DEF TokenRow
  <1>7. \A x \in Session : sessions'[x].revoked = sessions[x].revoked
    <2>1. sessions' = NarrowScopes(p)
      BY <1>2 DEF CommitRefresh
    <2> QED BY <1>1, <2>1 DEF NarrowScopes, TypeOK, SessionRow
  <1>8. \A x \in Token : IsToken(x) => x # t /\ tokens[x].session \in Session
    BY <1>4 DEF IInv, TokensOK, IsSession
  <1>9. FamilyOK'
    <2>1. \A x \in Token : IsToken(x) =>
             IsToken(tokens[x].family) /\ tokens[x].family # t
      BY <1>4 DEF Fam, FamilyOK
    <2>2. IsToken(t)'
      BY <1>4, <1>5 DEF IsToken
    <2>3. \A x \in Token : IsToken(x)' =>
             \/ x = t
             \/ IsToken(x) /\ x # t
      BY <1>6 DEF IsToken
    <2> QED BY <1>4, <1>5, <1>6, <2>1, <2>2, <2>3 DEF Fam, FamilyOK, IsToken
  <1>10. BlankOK'
    BY <1>4, <1>5, <1>6 DEF Fam, BlankOK, IsToken
  <1>11. RevokedOK'
    BY <1>5, <1>6, <1>7, <1>8 DEF Fam, RevokedOK, IsToken
  <1> QED BY <1>9, <1>10, <1>11 DEF Fam

LEMMA FamStep == IInv /\ Fam /\ [Next]_vars => Fam'
  <1> SUFFICES ASSUME IInv, Fam, [Next]_vars PROVE Fam'
    OBVIOUS
  <1>1. ASSUME NEW r \in Request, Submit(r) \/ Abandon(r)
        PROVE  UNCHANGED <<sessions, tokens>>
    BY <1>1 DEF Submit, SubmitDecision, SubmitExchange, SubmitRefresh,
       SubmitRevoke, SubmitRevokeAccess, PresentAccess, AdminRevokeClient,
       AdminRevokeSession, Abandon, db
  <1>2. ASSUME NEW r \in Request, Serve(r) PROVE Fam'
    <2>1. CASE \/ ClientAuth(r) \/ ReadCode(r) \/ ReadToken(r) \/ ReadSession(r)
               \/ ReadSessionToRevoke(r) \/ CheckJti(r) \/ CheckSession(r)
               \/ Audit(r) \/ Respond(r) \/ RespondTokens(r)
               \/ CommitCode(r) \/ CommitRevokeAccess(r)
      <3>1. UNCHANGED <<sessions, tokens>>
        BY <2>1 DEF ClientAuth, ReadCode, ReadToken, ReadSession,
           ReadSessionToRevoke, CheckJti, CheckSession, Audit, Respond,
           RespondTokens, CommitCode, CommitRevokeAccess, db
      <3> QED BY <3>1, FamUnchanged
    <2> QED BY <1>2, <2>1, RevocationFam, ExchangeFam, RefreshFam DEF Serve
  <1>3. CASE Tick \/ (\E c \in Client, S \in SUBSET Scope : Authorize(c, S))
             \/ UNCHANGED vars
    <2>1. UNCHANGED <<sessions, tokens>>
      BY <1>3 DEF Tick, Authorize, vars, db
    <2> QED BY <2>1, FamUnchanged
  <1> QED BY <1>1, <1>2, <1>3, FamUnchanged DEF Next

\* Whatever refreshes race with a revocation or with the detection of a
\* reuse, no token of a family with a revoked token can be refreshed again:
\* its session is revoked (oauth.py, token and revoke; admin.py).
THEOREM FamilyDies == Spec => []FamilyDiesWithSession
  <1>1. IInv /\ Fam => FamilyDiesWithSession
    <2> SUFFICES ASSUME IInv, Fam, NEW t \in Token, NEW u \in Token,
                        tokens[t].session # None,
                        tokens[t].family = tokens[u].family, tokens[t].revoked
                 PROVE  sessions[tokens[u].session].revoked
      BY DEF FamilyDiesWithSession
    <2>1. IsToken(t) /\ tokens[t].family \in Token
      BY DEF IsToken, Fam, FamilyOK
    <2>2. IsToken(u)
      BY <2>1, ConstantsAssumption DEF Fam, BlankOK, IsToken, NoToken
    <2>3. tokens[u].session = tokens[t].session
      BY <2>1, <2>2 DEF Fam, FamilyOK, IsToken
    <2> QED BY <2>1, <2>3 DEF Fam, RevokedOK
  <1> QED BY Initially, Inductive, FamInit, FamStep, <1>1, PTL DEF Spec
=============================================================================
