---------------------------- MODULE MCOAuthToken ----------------------------
(* Small instances of OAuthToken for TLC.                                  *)
EXTENDS OAuthToken, TLC

CONSTANTS c1, c2, read, offline

\* every client may ask for everything
AllScopes == [c \in Client |-> Scope]
\* c2 registered without offline_access
OneWithoutOffline == [c \in Client |-> IF c = c2 THEN {read} ELSE Scope]

Symmetry == Permutations(Code) \cup Permutations(Session)
            \cup Permutations(Token) \cup Permutations(Jti)
            \cup Permutations(Request)
=============================================================================
