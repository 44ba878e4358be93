------------------------ MODULE GrantLifecycleProofs ------------------------
(* What the abstract lifecycle of a grant guarantees, for all constants.   *)
EXTENDS GrantLifecycle, TLAPS

IInv == TypeOK /\ OneUsablePerSession

LEMMA Inductive == IInv /\ [Next]_vars => IInv'
  <1> USE DEF IInv, TypeOK, OneUsablePerSession
  <1> SUFFICES ASSUME IInv, [Next]_vars PROVE IInv'
    OBVIOUS
  <1>1. ASSUME NEW k \in Code, Grant(k) PROVE IInv'
    BY <1>1 DEF Grant
  <1>2. ASSUME NEW k \in Code, NEW s \in Session, NEW T \in SUBSET Token,
               Redeem(k, s, T)
        PROVE  IInv'
    <2>1. TypeOK'
      BY <1>2 DEF Redeem
    <2>2. \A u \in usable : owner'[u] = owner[u] /\ owner[u] # {s}
      BY <1>2 DEF Redeem
    <2>3. \A u \in usable' : u \in usable \/ (T = {u} /\ owner'[u] = {s} /\ u \notin usable)
      BY <1>2 DEF Redeem
    <2>4. session'[s] = "live" /\ \A x \in Session : x # s => session'[x] = session[x]
      BY <1>2 DEF Redeem
    <2> QED BY <2>1, <2>2, <2>3, <2>4
  <1>3. ASSUME NEW t \in Token, NEW u \in Token, Rotate(t, u) PROVE IInv'
    <2>1. TypeOK'
      BY <1>3 DEF Rotate
    <2>2. u \notin usable /\ owner'[u] = owner[t]
      BY <1>3 DEF Rotate
    <2>3. \A x \in usable : owner'[x] = owner[x]
      BY <1>3, <2>2 DEF Rotate
    <2> QED BY <1>3, <2>1, <2>2, <2>3 DEF Rotate
  <1>4. ASSUME NEW S \in SUBSET Session, Revoke(S) PROVE IInv'
    BY <1>4 DEF Revoke
  <1>5. CASE UNCHANGED vars
    BY <1>5 DEF vars
  <1> QED BY <1>1, <1>2, <1>3, <1>4, <1>5 DEF Next

\* However codes, sessions and tokens are used and revoked, a session never
\* has two tokens that can be refreshed, and a revoked one has none: the
\* promise the handlers of oauth.py implement.
THEOREM AtMostOneUsable == Spec => []OneUsablePerSession
  <1>1. Init => IInv
    BY DEF Init, IInv, TypeOK, OneUsablePerSession
  <1>2. IInv => OneUsablePerSession
    BY DEF IInv
  <1> QED BY <1>1, <1>2, Inductive, PTL DEF Spec
=============================================================================
