--------------------------- MODULE GrantLifecycle ---------------------------
(***************************************************************************)
(* What the authorization server promises about a grant, whatever its      *)
(* handlers do inside: an authorization code buys at most one session; a   *)
(* session has at most one refresh token that can still be used, which is  *)
(* replaced when it is; and once a session is revoked nothing of it can    *)
(* be used.                                                                *)
(***************************************************************************)
CONSTANTS Code, Session, Token

VARIABLES
    code,     \* "none", "fresh" or "spent"
    session,  \* "none", "live" or "revoked"
    owner,    \* {} or, as a singleton, the session a token was minted for
    usable    \* the refresh tokens that can be exchanged

vars == <<code, session, owner, usable>>

TypeOK ==
    /\ code \in [Code -> {"none", "fresh", "spent"}]
    /\ session \in [Session -> {"none", "live", "revoked"}]
    /\ owner \in [Token -> SUBSET Session]
    /\ usable \subseteq Token

Init ==
    /\ code = [k \in Code |-> "none"]
    /\ session = [s \in Session |-> "none"]
    /\ owner = [t \in Token |-> {}]
    /\ usable = {}

\* the user consents
Grant(k) ==
    /\ code[k] = "none"
    /\ code' = [code EXCEPT ![k] = "fresh"]
    /\ UNCHANGED <<session, owner, usable>>

\* a code buys a session, with a refresh token (T = {t}) or without (T = {})
Redeem(k, s, T) ==
    /\ code[k] = "fresh" /\ session[s] = "none"
    /\ \A t \in T : owner[t] = {} /\ T = {t}
    /\ code' = [code EXCEPT ![k] = "spent"]
    /\ session' = [session EXCEPT ![s] = "live"]
    /\ owner' = [t \in Token |-> IF t \in T THEN {s} ELSE owner[t]]
    /\ usable' = usable \cup T

\* a token buys its successor
Rotate(t, u) ==
    /\ t \in usable /\ owner[u] = {}
    /\ owner' = [owner EXCEPT ![u] = owner[t]]
    /\ usable' = (usable \ {t}) \cup {u}
    /\ UNCHANGED <<code, session>>

\* the sessions in S are revoked, by the client, the administrator or the
\* reuse of a token
Revoke(S) ==
    /\ \A s \in S : session[s] # "none"
    /\ session' = [s \in Session |-> IF s \in S THEN "revoked" ELSE session[s]]
    /\ usable' = {t \in usable : owner[t] \cap S = {}}
    /\ UNCHANGED <<code, owner>>

Next ==
    \/ \E k \in Code : Grant(k)
    \/ \E k \in Code, s \in Session, T \in SUBSET Token : Redeem(k, s, T)
    \/ \E t, u \in Token : Rotate(t, u)
    \/ \E S \in SUBSET Session : Revoke(S)

Spec == Init /\ [][Next]_vars

\* Of the tokens of a session at most one can be used, and only while the
\* session is live.
OneUsablePerSession ==
    /\ \A t \in usable :
          \E s \in Session : owner[t] = {s} /\ session[s] = "live"
    /\ \A t, u \in usable : owner[t] = owner[u] => t = u
=============================================================================
