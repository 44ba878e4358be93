----------------------------- MODULE MailAccounts -----------------------------
(***************************************************************************)
(* The mail accounts of app/services/accounts.py.  An operation reads the  *)
(* row (AccountRepository.get), then writes in one transaction: SQLite     *)
(* holds the write lock from its first UPDATE to the commit, so a write is *)
(* atomic but what was read may be stale.  The ORM sends only the columns  *)
(* whose value differs from the row as it was read.                        *)
(***************************************************************************)
EXTENDS TLC

CONSTANTS Account, None

VARIABLE accounts   \* Account -> None or [enabled, default]

Row == [enabled : BOOLEAN, default : BOOLEAN]

Exists(a) == a \in Account /\ accounts[a] # None
Defaults(rows) == {a \in Account : rows[a] # None /\ rows[a].default}

\* AccountRepository.get: by name, or the default one; None is LookupError
Found(name) ==
    IF name # None THEN IF Exists(name) THEN name ELSE None
    ELSE LET usable == {a \in Defaults(accounts) : accounts[a].enabled}
         IN IF usable = {} THEN None ELSE CHOOSE a \in usable : TRUE

\* Mutant: the former default keeps its flag
ClearedNothing(a) == accounts

Cleared(a) ==
    [b \in Account |-> IF b # a /\ Exists(b) THEN [accounts[b] EXCEPT !.default = FALSE]
                       ELSE accounts[b]]

-----------------------------------------------------------------------------
\* The transactions: the rows after them, given the row as it was read and
\* the payload; None when the database or the ORM refuses and all is undone

\* INSERT; the name is unique
Created(a, payload) ==
    IF Exists(a) THEN None
    ELSE [(IF payload.default THEN Cleared(a) ELSE accounts) EXCEPT ![a] = payload]

\* the ORM's UPDATE of one row: the attributes that differ from the row read;
\* an UPDATE that matches no row raises StaleDataError
Flushed(rows, a, seen, values) ==
    LET changed == {k \in DOMAIN values : values[k] # seen[k]}
    IN IF changed = {} THEN rows
       ELSE IF ~Exists(a) THEN None
       ELSE [rows EXCEPT ![a] = [k \in DOMAIN seen |->
                                   IF k \in changed THEN values[k] ELSE @[k]]]

\* values has the fields the PATCH set
Updated(a, seen, values) ==
    LET makesDefault == "default" \in DOMAIN values /\ values["default"]
    IN Flushed(IF makesDefault THEN Cleared(a) ELSE accounts, a, seen, values)

\* a DELETE that matches no row is only a warning
Deleted(a) == [accounts EXCEPT ![a] = None]

\* Mutant: the flag is not sent when the row was read as the default
MadeDefaultIfChanged(a, seen) ==
    LET rows == [Cleared(a) EXCEPT ![a] =
                   IF @ = None THEN @ ELSE [@ EXCEPT !.default = FALSE]]
    IN IF seen.default THEN rows
       ELSE IF ~Exists(a) THEN None ELSE [rows EXCEPT ![a].default = TRUE]

\* set_default clears every row, its own included, also in the session: the
\* flag is always sent
MadeDefault(a, seen) ==
    IF ~Exists(a) THEN None ELSE [Cleared(a) EXCEPT ![a].default = TRUE]

-----------------------------------------------------------------------------
\* At most one account is the default, whatever requests overlapped.
AtMostOneDefault ==
    \A a, b \in Defaults(accounts) : a = b
=============================================================================
