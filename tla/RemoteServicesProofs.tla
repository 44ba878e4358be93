------------------------ MODULE RemoteServicesProofs ------------------------
(***************************************************************************)
(* Theorems of RemoteServices, for any calls, pages, paths, tokens and     *)
(* faults.  One lemma for each action says how the record of its call      *)
(* moves; the conjuncts of the invariant are then carried over the four    *)
(* kinds of moves, not over the actions.                                   *)
(***************************************************************************)
EXTENDS RemoteServices, FiniteSetTheorems, SequenceTheorems, TLAPS

-----------------------------------------------------------------------------
\* The records of the calls

\* j is what k is, but where it is and what it remembers
Carries(k, j) ==
    /\ j.tool = k.tool /\ j.arg = k.arg /\ j.listed = k.listed
    /\ j.keep = k.keep /\ j.resent = k.resent

Remembers(k, j) ==
    /\ j.page = k.page /\ j.token = k.token /\ j.existed = k.existed
    /\ j.seen = k.seen /\ j.was = k.was /\ j.user = k.user

Ends(k, j) == Carries(k, j) /\ j.todo = k.todo /\ j.page = None

Advances(k, j) ==
    /\ Carries(k, j) /\ j.todo = Tail(k.todo)
    /\ IF j.todo = <<>> THEN j.outcome = "ok" /\ j.page = None
       ELSE j.outcome = None /\ ~j.again /\ Remembers(k, j)

\* What a call becomes when it returns.
LEMMA EndedIs ==
    ASSUME NEW k \in CallRecord, NEW o \in {"ok", "failure"},
           NEW j, j = Ended(k, o)
    PROVE j \in CallRecord /\ Ends(k, j) /\ j.outcome = o
<1>1. j = [k EXCEPT !.outcome = o, !.again = FALSE, !.user = FALSE, !.token = None,
              !.page = None, !.existed = FALSE, !.seen = None, !.was = None]
  BY DEF Ended
<1>2. j \in CallRecord
  BY <1>1 DEF CallRecord
<1>. QED BY <1>1, <1>2 DEF CallRecord, Ends, Carries

LEMMA OnItsWay ==
    ASSUME NEW k \in CallRecord, NEW t \in Seq(Steps),
           NEW r, r = [k EXCEPT !.todo = t, !.again = FALSE]
    PROVE r \in CallRecord
BY DEF CallRecord

\* What a call becomes when a step is over.
LEMMA AdvancedIs ==
    ASSUME NEW k \in CallRecord, k.todo # <<>>, k.outcome = None,
           NEW j, j = Advanced(k)
    PROVE j \in CallRecord /\ Advances(k, j)
<1>1. PICK t : t = Tail(k.todo)
  OBVIOUS
<1>2. t \in Seq(Steps)
  <2>1. k.todo \in Seq(Steps)
    BY DEF CallRecord
  <2>. QED BY <1>1, <2>1
<1>3. PICK r : r = [k EXCEPT !.todo = t, !.again = FALSE]
  OBVIOUS
<1>4. /\ r \in CallRecord /\ Carries(k, r) /\ Remembers(k, r)
      /\ r.todo = t /\ ~r.again /\ r.outcome = None
  <2>1. r \in CallRecord
    BY <1>2, <1>3, OnItsWay
  <2>2. Carries(k, r) /\ Remembers(k, r)
    BY <1>3 DEF CallRecord, Carries, Remembers
  <2>3. r.todo = t /\ ~r.again /\ r.outcome = k.outcome
    BY <1>3 DEF CallRecord
  <2>. QED BY <2>1, <2>2, <2>3
<1>5. j = IF r.todo = <<>> THEN Ended(r, "ok") ELSE r
  BY <1>1, <1>3 DEF Advanced
<1>6. CASE r.todo = <<>>
  <2>1. j = Ended(r, "ok")
    BY <1>5, <1>6
  <2>2. j \in CallRecord /\ Ends(r, j) /\ j.outcome = "ok"
    BY <1>4, <2>1, EndedIs
  <2>. QED BY <1>1, <1>4, <1>6, <2>2 DEF Ends, Advances, Carries
<1>7. CASE r.todo # <<>>
  BY <1>1, <1>4, <1>5, <1>7 DEF Advances
<1>. QED BY <1>6, <1>7

LEMMA FailedIs ==
    ASSUME NEW k \in CallRecord, NEW j, j = Failed(k)
    PROVE j \in CallRecord /\ Ends(k, j) /\ j.outcome = "failure"
BY EndedIs DEF Failed

-----------------------------------------------------------------------------
\* The invariant

\* The awaits left are part of a plan: each suits the tool, and they are in
\* order.
TodoInv ==
    \A c \in Call : calls[c] # None =>
       /\ InOrder(calls[c].todo) /\ Chained(calls[c].todo, calls[c].tool)
       /\ \A i \in DOMAIN calls[c].todo : Suits(calls[c].todo[i], calls[c].tool)

\* A call that has stored no token yet holds one nobody else has.
Holder(c) == At(c, "store_get") \/ At(c, "store_put")

Alone(c) ==
    /\ calls[c].keep \notin dropped
    /\ row # None => row.token # calls[c].keep
    /\ \A d \in Call \ {c} : calls[d] # None => calls[d].keep # calls[c].keep

TokenInv ==
    /\ DroppedTokenStaysGone
    /\ row # None /\ row.plain => row.token = Legacy
    /\ \A c \in Call : Holder(c) =>
         /\ calls[c].keep \in Issued \cup {Legacy}
         /\ calls[c].keep \in Issued => Alone(c)

\* The page of a call that names none is the default one if it may be.
PageInv ==
    \A c \in Call : calls[c] # None =>
       LET k == calls[c] IN
       k.page # None /\ k.arg.page = None =>
         k.page = DefaultPage \/ DefaultPage \notin k.listed

PostInv == PostedWhereMeant /\ PageInv

\* An entity is written as it was read.
EntityInv ==
    \A c \in Call : At(c, "set_state") =>
       IF calls[c].tool = "home_assistant_create_entity" THEN calls[c].was = None
       ELSE calls[c].was # None /\ calls[c].seen = Redacted(calls[c].was)

\* What was done is behind the call, or being tried again.
DoneInv ==
    /\ IsFiniteSet(effects)
    /\ \A e \in effects :
         /\ e.call \in Call /\ calls[e.call] # None
         /\ e.left \in Nat /\ e.left >= Left(e.call)
         /\ \A i \in DOMAIN calls[e.call].todo : calls[e.call].todo[i] \notin {"load", "pages"}

Retried(e) ==
    /\ ServiceOf(calls[e.call].tool) = "facebook"
    /\ e.left \in calls[e.call].resent

Here(c) == {e \in effects : e.call = c /\ e.left = Left(c)}

OnceInv ==
    /\ \A e \in effects : e.n > 1 => e.n = 2 /\ Retried(e)
    /\ \A c \in Call : Running(c) => \A e \in Here(c) :
         e.n = 1 /\ calls[c].again /\ Retried(e) /\ Here(c) = {e}

\* A write of the plan is ahead of the call or done.
Ahead(c, k) ==
    LET k0 == calls[c] IN
    k \in DOMAIN k0.todo /\ Back(k0.todo, k) = Back(Plan[k0.tool], k)

WriteInv ==
    \A c \in Call : calls[c] # None =>
       /\ \A k \in DOMAIN Plan[calls[c].tool] :
            Back(Plan[calls[c].tool], k) \in WriteSteps \ {"ensure"} =>
              Ahead(c, k) \/ \E e \in effects : e.call = c /\ e.left = k
       /\ calls[c].outcome = "ok" =>
            \A i \in DOMAIN calls[c].todo : calls[c].todo[i] \notin WriteSteps

-----------------------------------------------------------------------------
\* What an action does to the call that takes it

\* the call goes to its next await
Forward(k, j) ==
    /\ j.todo = Tail(k.todo)
    /\ IF j.todo = <<>> THEN j.outcome = "ok" /\ j.page = None
       ELSE j.outcome = None /\ ~j.again

\* it returns before its end
Stopped(k, j) == j.todo = k.todo /\ j.outcome \in {"ok", "failure"} /\ j.page = None

Fails(k, j) == Stopped(k, j) /\ j.outcome = "failure"

\* it tries its request again
Repeated(k, j) == j.todo = k.todo /\ j.outcome = None /\ j.again /\ ~k.again

\* it stores first the token it has loaded
Migrated(k, j) ==
    /\ Head(k.todo) = "load" /\ j.outcome = None
    /\ j.todo = <<"store_get", "store_put">> \o Tail(k.todo)

Moves(c, k, j) ==
    /\ k.outcome = None /\ k.todo # <<>> /\ {k, j} \subseteq CallRecord
    /\ calls' = [calls EXCEPT ![c] = j]
    /\ j.tool = k.tool /\ j.arg = k.arg
    /\ Forward(k, j) \/ Stopped(k, j) \/ Repeated(k, j) \/ Migrated(k, j)

\* nothing was learnt about the page and no request was sent twice
Sticks(k, j) == j.listed = k.listed /\ j.page \in {k.page, None} /\ j.resent = k.resent

LEMMA RunningCall ==
    ASSUME TypeOK, NEW c \in Call, Running(c)
    PROVE /\ calls[c] \in CallRecord /\ calls[c].outcome = None
          /\ calls[c].todo # <<>> /\ calls[c].todo \in Seq(Steps)
          /\ calls[c].tool \in DOMAIN Plan
          /\ calls[c].arg \in Arguments(calls[c].tool)
<1>1. calls[c] # None /\ calls[c].outcome = None
  BY DEF Running
<1>2. calls[c] \in CallRecord
  BY <1>1 DEF TypeOK
<1>3. calls[c].todo # <<>>
  <2>1. None # "ok"
    BY NoneAssumption
  <2>. QED BY <1>1, <2>1 DEF TypeOK
<1>4. calls[c].arg \in Arguments(calls[c].tool)
  BY <1>1 DEF TypeOK
<1>. QED BY <1>1, <1>2, <1>3, <1>4 DEF CallRecord

\* The call goes on from a record that differs in what it remembers.
LEMMA MovesOn ==
    ASSUME TypeOK, NEW c \in Call, Running(c), NEW k, k = calls[c],
           NEW i \in CallRecord, i.tool = k.tool, i.arg = k.arg, i.todo = k.todo,
           i.outcome = k.outcome, NEW j, j = Advanced(i), Becomes(c, j)
    PROVE j = calls'[c] /\ Moves(c, k, j) /\ Forward(k, j) /\ Advances(i, j)
<1>1. k \in CallRecord /\ k.outcome = None /\ k.todo # <<>>
  BY RunningCall
<1>2. j \in CallRecord /\ Advances(i, j)
  BY <1>1, AdvancedIs
<1>3. j.tool = k.tool /\ j.arg = k.arg /\ Forward(k, j)
  BY <1>2 DEF Advances, Carries, Forward
<1>4. calls' = [calls EXCEPT ![c] = j]
  BY DEF Becomes
<1>5. j = calls'[c]
  BY <1>4 DEF TypeOK
<1>. QED BY <1>1, <1>2, <1>3, <1>4, <1>5 DEF Moves

\* The call returns.
LEMMA MovesOut ==
    ASSUME TypeOK, NEW c \in Call, Running(c), NEW k, k = calls[c],
           NEW i \in CallRecord, i.tool = k.tool, i.arg = k.arg, i.todo = k.todo,
           NEW o \in {"ok", "failure"}, NEW j, j = Ended(i, o), Becomes(c, j)
    PROVE /\ j = calls'[c] /\ Moves(c, k, j) /\ Stopped(k, j) /\ Ends(i, j)
          /\ j.outcome = o
<1>1. k \in CallRecord /\ k.outcome = None /\ k.todo # <<>>
  BY RunningCall
<1>2. j \in CallRecord /\ Ends(i, j) /\ j.outcome = o
  BY <1>1, EndedIs
<1>3. j.tool = k.tool /\ j.arg = k.arg /\ Stopped(k, j)
  BY <1>2 DEF Ends, Carries, Stopped
<1>4. calls' = [calls EXCEPT ![c] = j]
  BY DEF Becomes
<1>5. j = calls'[c]
  BY <1>4 DEF TypeOK
<1>. QED BY <1>1, <1>2, <1>3, <1>4, <1>5 DEF Moves

\* Load: the row is read, and perhaps stored again.
LEMMA LoadMoves ==
    ASSUME TypeOK, NEW c \in Call, Load(c), NEW k, k = calls[c],
           NEW j, j = calls'[c]
    PROVE /\ Moves(c, k, j) /\ Sticks(k, j) /\ Head(k.todo) = "load"
          /\ \/ Forward(k, j) /\ j.keep = k.keep
             \/ Migrated(k, j) /\ Migrates(row) /\ j.keep = row.token
<1>1. Running(c) /\ Head(k.todo) = "load"
  BY DEF Load, At, Step
<1>2. k \in CallRecord /\ k.outcome = None /\ k.todo # <<>> /\ k.todo \in Seq(Steps)
  BY <1>1, RunningCall
<1>3. PICK user \in BOOLEAN :
         Becomes(c, IF Migrates(row)
                    THEN [[k EXCEPT !.user = user] EXCEPT !.keep = row.token,
                             !.todo = <<"store_get", "store_put">> \o Tail(k.todo)]
                    ELSE Advanced([k EXCEPT !.user = user]))
  <2>1. [k EXCEPT !.user = TRUE].todo = k.todo /\ [k EXCEPT !.user = FALSE].todo = k.todo
    BY <1>2 DEF CallRecord
  <2>. QED BY <2>1 DEF Load
<1>4. PICK i : i = [k EXCEPT !.user = user]
  OBVIOUS
<1>5. i \in CallRecord
  BY <1>2, <1>4 DEF CallRecord
<1>6. Carries(k, i) /\ i.todo = k.todo /\ i.outcome = k.outcome /\ i.page = k.page
  BY <1>2, <1>4 DEF CallRecord, Carries
<1>7. CASE ~Migrates(row)
  <2>1. PICK l : l = Advanced(i)
    OBVIOUS
  <2>2. Becomes(c, l)
    BY <1>3, <1>4, <1>7, <2>1
  <2>3. l = j /\ Moves(c, k, l) /\ Forward(k, l) /\ Advances(i, l)
    BY <1>1, <1>5, <1>6, <2>1, <2>2, MovesOn DEF Carries
  <2>. QED BY <1>1, <1>6, <2>3 DEF Sticks, Advances, Carries, Remembers
<1>8. CASE Migrates(row)
  <2>1. PICK t : t = <<"store_get", "store_put">> \o Tail(k.todo)
    OBVIOUS
  <2>2. t \in Seq(Steps)
    <3>1. Tail(k.todo) \in Seq(Steps)
      BY <1>2
    <3>2. <<"store_get", "store_put">> \in Seq(Steps)
      BY DEF Steps, DbSteps
    <3>. QED BY <2>1, <3>1, <3>2
  <2>3. PICK v : v = row.token
    OBVIOUS
  <2>4. v \in Issued \cup {Legacy}
    BY <1>8, <2>3 DEF Migrates, TypeOK, Row
  <2>5. PICK l : l = [i EXCEPT !.keep = v, !.todo = t]
    OBVIOUS
  <2>6. l \in CallRecord
    BY <1>5, <2>2, <2>4, <2>5 DEF CallRecord
  <2>7. /\ l.tool = k.tool /\ l.arg = k.arg /\ l.todo = t /\ l.keep = v
        /\ l.outcome = k.outcome /\ l.listed = k.listed /\ l.page = k.page
        /\ l.resent = k.resent
    BY <1>5, <1>6, <2>5 DEF CallRecord, Carries
  <2>8. calls' = [calls EXCEPT ![c] = l]
    BY <1>3, <1>4, <1>8, <2>1, <2>3, <2>5 DEF Becomes
  <2>9. l = j
    BY <2>8 DEF TypeOK
  <2>10. Migrated(k, j)
    BY <1>1, <1>2, <2>1, <2>7, <2>9 DEF Migrated
  <2>. QED BY <1>1, <1>2, <1>8, <2>3, <2>6, <2>7, <2>8, <2>9, <2>10 DEF Moves, Sticks
<1>. QED BY <1>7, <1>8

\* A step that changes only what the call remembers, and what it keeps.
LEMMA Sticking ==
    ASSUME NEW k \in CallRecord, NEW i \in CallRecord, NEW j,
           Carries(k, i), i.page = k.page, Advances(i, j) \/ Ends(i, j)
    PROVE Sticks(k, j) /\ j.keep = k.keep
BY DEF Sticks, Advances, Ends, Carries, Remembers

LEMMA Alike0 == \A k : Carries(k, k)
BY DEF Carries

\* Exchange: a token never given before, or a failure.
LEMMA ExchangeMoves ==
    ASSUME TypeOK, NEW c \in Call, Exchange(c), NEW k, k = calls[c],
           NEW j, j = calls'[c]
    PROVE /\ Moves(c, k, j) /\ Sticks(k, j) /\ Head(k.todo) = "exchange"
          /\ \/ Forward(k, j) /\ j.keep \in Issued \ Given
             \/ Fails(k, j) /\ j.keep = k.keep
<1>1. Running(c) /\ Head(k.todo) = "exchange"
  BY DEF Exchange, At, Step
<1>2. k \in CallRecord /\ k.outcome = None
  BY <1>1, RunningCall
<1>3. CASE Becomes(c, Failed(k))
  <2>1. PICK l : l = Ended(k, "failure")
    OBVIOUS
  <2>2. /\ l = j /\ Moves(c, k, l) /\ Stopped(k, l) /\ Ends(k, l)
        /\ l.outcome = "failure"
    BY <1>1, <1>2, <1>3, <2>1, MovesOut DEF Failed
  <2>. QED BY <1>1, <1>2, <2>2, Sticking, Alike0 DEF Fails
<1>4. ASSUME NEW token \in Issued \ Given, Becomes(c, Advanced([k EXCEPT !.keep = token]))
      PROVE Moves(c, k, j) /\ Sticks(k, j) /\ Forward(k, j) /\ j.keep \in Issued \ Given
  <2>1. PICK i : i = [k EXCEPT !.keep = token]
    OBVIOUS
  <2>2. i \in CallRecord
    BY <1>2, <2>1 DEF CallRecord
  <2>3. /\ i.todo = k.todo /\ i.outcome = k.outcome /\ i.page = k.page /\ i.tool = k.tool
        /\ i.arg = k.arg /\ i.listed = k.listed /\ i.resent = k.resent /\ i.keep = token
    BY <1>2, <2>1 DEF CallRecord
  <2>4. PICK l : l = Advanced(i)
    OBVIOUS
  <2>5. Becomes(c, l)
    BY <1>4, <2>1, <2>4
  <2>6. l = j /\ Moves(c, k, l) /\ Forward(k, l) /\ Advances(i, l)
    BY <1>1, <2>2, <2>3, <2>4, <2>5, MovesOn
  <2>. QED BY <2>3, <2>6 DEF Sticks, Advances, Carries, Remembers
<1>5. \/ \E token \in Issued \ Given : Becomes(c, Advanced([k EXCEPT !.keep = token]))
      \/ Becomes(c, Failed(k))
  BY DEF Exchange
<1>. QED BY <1>1, <1>3, <1>4, <1>5

\* StoreGet: what is stored stays known.
LEMMA StoreGetMoves ==
    ASSUME TypeOK, NEW c \in Call, StoreGet(c), NEW k, k = calls[c],
           NEW j, j = calls'[c]
    PROVE /\ Moves(c, k, j) /\ Sticks(k, j) /\ Head(k.todo) = "store_get"
          /\ Forward(k, j) /\ j.keep = k.keep
<1>1. Running(c) /\ Head(k.todo) = "store_get"
  BY DEF StoreGet, At, Step
<1>2. k \in CallRecord /\ k.outcome = None
  BY <1>1, RunningCall
<1>3. PICK b \in BOOLEAN : b = (row # None)
  OBVIOUS
<1>4. PICK i : i = [k EXCEPT !.existed = b]
  OBVIOUS
<1>5. i \in CallRecord
  BY <1>2, <1>4 DEF CallRecord
<1>6. i.todo = k.todo /\ i.outcome = k.outcome /\ i.page = k.page /\ Carries(k, i)
  BY <1>2, <1>4 DEF CallRecord, Carries
<1>7. PICK l : l = Advanced(i)
  OBVIOUS
<1>8. Becomes(c, l)
  BY <1>3, <1>4, <1>7 DEF StoreGet
<1>9. l = j /\ Moves(c, k, l) /\ Forward(k, l) /\ Advances(i, l)
  BY <1>1, <1>5, <1>6, <1>7, <1>8, MovesOn DEF Carries
<1>. QED BY <1>1, <1>2, <1>5, <1>6, <1>9, Sticking

\* A step that leaves the record as it is, but where it is.
LEMMA PlainMoves ==
    ASSUME TypeOK, NEW c \in Call, Running(c), NEW k, k = calls[c], NEW j, j = calls'[c],
           \/ Becomes(c, Advanced(k)) \/ Becomes(c, Failed(k)) \/ Becomes(c, Ended(k, "ok"))
    PROVE /\ Moves(c, k, j) /\ Sticks(k, j) /\ j.keep = k.keep
          /\ Forward(k, j) \/ Stopped(k, j)
          /\ Becomes(c, Advanced(k)) => Forward(k, j)
          /\ Becomes(c, Failed(k)) => Fails(k, j)
          /\ Becomes(c, Ended(k, "ok")) => Stopped(k, j)
<1>1. k \in CallRecord /\ k.outcome = None
  BY RunningCall
<1>2. ASSUME Becomes(c, Advanced(k))
      PROVE Moves(c, k, j) /\ Sticks(k, j) /\ j.keep = k.keep /\ Forward(k, j)
  <2>1. PICK l : l = Advanced(k)
    OBVIOUS
  <2>2. l = j /\ Moves(c, k, l) /\ Forward(k, l) /\ Advances(k, l)
    BY <1>1, <1>2, <2>1, MovesOn
  <2>. QED BY <1>1, <2>2, Sticking, Alike0
<1>3. ASSUME NEW o \in {"ok", "failure"}, Becomes(c, Ended(k, o))
      PROVE /\ Moves(c, k, j) /\ Sticks(k, j) /\ j.keep = k.keep /\ Stopped(k, j)
            /\ j.outcome = o
  <2>1. PICK l : l = Ended(k, o)
    OBVIOUS
  <2>2. l = j /\ Moves(c, k, l) /\ Stopped(k, l) /\ Ends(k, l) /\ l.outcome = o
    BY <1>1, <1>3, <2>1, MovesOut
  <2>. QED BY <1>1, <2>2, Sticking, Alike0
<1>4. Becomes(c, Failed(k)) <=> Becomes(c, Ended(k, "failure"))
  BY DEF Failed
<1>5. Becomes(c, Ended(k, "failure")) =>
        /\ Moves(c, k, j) /\ Sticks(k, j) /\ j.keep = k.keep /\ Stopped(k, j)
        /\ j.outcome = "failure"
  BY <1>3
<1>6. Becomes(c, Ended(k, "ok")) =>
        Moves(c, k, j) /\ Sticks(k, j) /\ j.keep = k.keep /\ Stopped(k, j)
  BY <1>3
<1>. QED BY <1>2, <1>4, <1>5, <1>6 DEF Fails

\* StorePut, ClearGet and ClearPut: the row is written, or the call ends.
LEMMA StorePutMoves ==
    ASSUME TypeOK, NEW c \in Call, StorePut(c), NEW k, k = calls[c],
           NEW j, j = calls'[c]
    PROVE /\ Moves(c, k, j) /\ Sticks(k, j) /\ Head(k.todo) = "store_put"
          /\ j.keep = k.keep /\ (Forward(k, j) \/ Fails(k, j))
          /\ \/ /\ Forward(k, j) /\ row' = [token |-> k.keep, plain |-> FALSE]
                /\ dropped' = dropped \cup DroppedBy(k.keep)
             \/ Fails(k, j) /\ UNCHANGED <<row, dropped>>
<1>1. Running(c) /\ Head(k.todo) = "store_put"
  BY DEF StorePut, At, Step
<1>2. \/ /\ Becomes(c, Advanced(k)) /\ row' = [token |-> k.keep, plain |-> FALSE]
         /\ dropped' = dropped \cup DroppedBy(k.keep)
      \/ Becomes(c, Failed(k)) /\ UNCHANGED <<row, dropped>>
  BY DEF StorePut
<1>. QED BY <1>1, <1>2, PlainMoves

LEMMA ClearGetMoves ==
    ASSUME TypeOK, NEW c \in Call, ClearGet(c), NEW k, k = calls[c],
           NEW j, j = calls'[c]
    PROVE /\ Moves(c, k, j) /\ Sticks(k, j) /\ Head(k.todo) = "clear_get"
          /\ j.keep = k.keep /\ (Forward(k, j) \/ Stopped(k, j))
<1>1. Running(c) /\ Head(k.todo) = "clear_get"
  BY DEF ClearGet, At, Step
<1>2. Becomes(c, Ended(k, "ok")) \/ Becomes(c, Advanced(k))
  BY DEF ClearGet
<1>. QED BY <1>1, <1>2, PlainMoves

LEMMA ClearPutMoves ==
    ASSUME TypeOK, NEW c \in Call, ClearPut(c), NEW k, k = calls[c],
           NEW j, j = calls'[c]
    PROVE /\ Moves(c, k, j) /\ Sticks(k, j) /\ Head(k.todo) = "clear_put"
          /\ j.keep = k.keep /\ Forward(k, j)
<1>1. Running(c) /\ Head(k.todo) = "clear_put"
  BY DEF ClearPut, At, Step
<1>2. Becomes(c, Advanced(k))
  BY DEF ClearPut
<1>. QED BY <1>1, <1>2, PlainMoves

\* ResolvePage: a call that resolves one of the pages listed prefers the
\* default one, unless it asked for another.
LEMMA ResolvePageMoves ==
    ASSUME TypeOK, TodoInv, NEW c \in Call, ResolvePage(c), NEW k, k = calls[c],
           NEW j, j = calls'[c]
    PROVE /\ Moves(c, k, j) /\ j.keep = k.keep /\ j.resent = k.resent
          /\ Head(k.todo) = "pages"
          /\ Forward(k, j) \/ Fails(k, j)
          /\ k.arg.page = None /\ j.page # None =>
               j.page = DefaultPage \/ DefaultPage \notin j.listed
<1>1. Running(c) /\ Head(k.todo) = "pages"
  BY DEF ResolvePage, At, Step
<1>2. /\ k \in CallRecord /\ k.outcome = None /\ k.arg \in Arguments(k.tool)
      /\ k.todo # <<>> /\ k.todo \in Seq(Steps)
  BY <1>1, RunningCall
<1>3. k.arg.page \in Page \cup {None}
  <2>1. calls[c] # None
    BY <1>1 DEF Running
  <2>2. 1 \in DOMAIN k.todo /\ k.todo[1] = "pages"
    BY <1>1, <1>2
  <2>3. Suits("pages", k.tool)
    BY <2>1, <2>2 DEF TodoInv
  <2>4. ServiceOf(k.tool) = "facebook"
    BY <2>3 DEF Suits, PageSteps
  <2>. QED BY <1>2, <2>4 DEF Arguments
<1>4. CASE Becomes(c, Failed(k))
  <2>1. Moves(c, k, j) /\ Sticks(k, j) /\ j.keep = k.keep /\ Fails(k, j)
    BY <1>1, <1>4, PlainMoves
  <2>2. j.page = None
    BY <2>1 DEF Fails, Stopped
  <2>. QED BY <1>1, <2>1, <2>2 DEF Sticks
<1>5. ASSUME NEW i \in CallRecord, i.tool = k.tool, i.arg = k.arg, i.todo = k.todo,
             i.outcome = k.outcome, i.keep = k.keep, i.resent = k.resent,
             k.arg.page = None => i.page = DefaultPage \/ DefaultPage \notin i.listed,
             Becomes(c, Advanced(i))
      PROVE /\ Moves(c, k, j) /\ j.keep = k.keep /\ j.resent = k.resent /\ Forward(k, j)
            /\ k.arg.page = None /\ j.page # None =>
                 j.page = DefaultPage \/ DefaultPage \notin j.listed
  <2>1. PICK l : l = Advanced(i)
    OBVIOUS
  <2>2. l = j /\ Moves(c, k, l) /\ Forward(k, l) /\ Advances(i, l)
    BY <1>1, <1>5, <2>1, MovesOn
  <2>3. /\ j.keep = k.keep /\ j.resent = k.resent /\ j.listed = i.listed
        /\ j.page = i.page \/ j.page = None
    BY <1>5, <2>2 DEF Advances, Carries, Remembers
  <2>. QED BY <1>5, <2>2, <2>3
<1>6. CASE ~k.user
  <2>1. PICK token \in Page \cup {None} :
           Becomes(c, IF token = None THEN Failed(k)
                      ELSE Advanced([k EXCEPT !.token = token, !.page = DefaultPage]))
    BY <1>6 DEF ResolvePage
  <2>2. CASE token # None
    <3>1. PICK i : i = [k EXCEPT !.token = token, !.page = DefaultPage]
      OBVIOUS
    <3>2. i \in CallRecord
      <4>1. DefaultPage \in Page
        BY RemoteAssumption
      <4>2. token \in Page
        BY <2>1, <2>2
      <4>3. PICK h : h = [k EXCEPT !.token = token]
        OBVIOUS
      <4>4. h \in CallRecord
        BY <1>2, <4>2, <4>3 DEF CallRecord
      <4>5. i = [h EXCEPT !.page = DefaultPage]
        BY <1>2, <3>1, <4>3 DEF CallRecord
      <4>. QED BY <4>1, <4>4, <4>5 DEF CallRecord
    <3>3. /\ i.todo = k.todo /\ i.outcome = k.outcome /\ i.tool = k.tool /\ i.arg = k.arg
          /\ i.resent = k.resent /\ i.keep = k.keep /\ i.page = DefaultPage
      BY <1>2, <3>1 DEF CallRecord
    <3>4. Becomes(c, Advanced(i))
      <4>1. PICK l : l = Advanced(i)
        OBVIOUS
      <4>2. l = IF token = None THEN Failed(k)
                ELSE Advanced([k EXCEPT !.token = token, !.page = DefaultPage])
        BY <2>2, <3>1, <4>1
      <4>3. Becomes(c, l)
        BY <2>1, <4>2
      <4>. QED BY <4>1, <4>3
    <3>. QED BY <1>1, <1>5, <3>2, <3>3, <3>4
  <2>3. CASE token = None
    <3>1. PICK l : l = Failed(k)
      OBVIOUS
    <3>2. l = IF token = None THEN Failed(k)
              ELSE Advanced([k EXCEPT !.token = token, !.page = DefaultPage])
      BY <2>3, <3>1
    <3>3. Becomes(c, l)
      BY <2>1, <3>2
    <3>. QED BY <1>4, <3>1, <3>3
  <2>. QED BY <2>2, <2>3
<1>7. CASE k.user
  <2>1. ASSUME NEW listing \in Listing \ {<<>>}, NEW page, NEW s, s = Pages(listing),
               page = ResolvedPage(k.arg.page, listing),
               Becomes(c, Advanced([k EXCEPT !.token = page, !.page = page, !.listed = s]))
        PROVE /\ Moves(c, k, j) /\ j.keep = k.keep /\ j.resent = k.resent /\ Forward(k, j)
              /\ k.arg.page = None /\ j.page # None =>
                   j.page = DefaultPage \/ DefaultPage \notin j.listed
    <3>1. PICK n \in Nat : listing \in [1 .. n -> Page]
      BY DEF Listing
    <3>2. n # 0
      <4>1. listing \in Seq(Page) /\ Len(listing) = n
        BY <3>1
      <4>. QED BY <4>1, EmptySeq
    <3>3. s \subseteq Page /\ listing[1] \in Page
      BY <2>1, <3>1, <3>2 DEF Pages
    <3>4. page \in Page
      BY <2>1, <3>3 DEF ResolvedPage
    <3>5. k.arg.page = None => page = DefaultPage \/ DefaultPage \notin s
      <4>1. None \notin s
        BY <3>3, RemoteAssumption
      <4>. QED BY <2>1, <4>1 DEF ResolvedPage
    <3>6. PICK i : i = [k EXCEPT !.token = page, !.page = page, !.listed = s]
      OBVIOUS
    <3>7. i \in CallRecord
      <4>1. PICK h : h = [k EXCEPT !.token = page]
        OBVIOUS
      <4>2. h \in CallRecord
        BY <1>2, <3>4, <4>1 DEF CallRecord
      <4>3. i = [h EXCEPT !.page = page, !.listed = s]
        BY <1>2, <3>6, <4>1 DEF CallRecord
      <4>. QED BY <3>3, <3>4, <4>2, <4>3 DEF CallRecord
    <3>8. /\ i.todo = k.todo /\ i.outcome = k.outcome /\ i.tool = k.tool /\ i.arg = k.arg
          /\ i.resent = k.resent /\ i.keep = k.keep /\ i.page = page /\ i.listed = s
      BY <1>2, <3>6 DEF CallRecord
    <3>9. Becomes(c, Advanced(i))
      BY <2>1, <3>6
    <3>. QED BY <1>5, <3>5, <3>7, <3>8, <3>9
  <2>2. \/ \E listing \in Listing \ {<<>>} :
             LET page == ResolvedPage(k.arg.page, listing) IN
             Becomes(c, Advanced([k EXCEPT !.token = page, !.page = page,
                                           !.listed = Pages(listing)]))
        \/ Becomes(c, Failed(k))
    BY <1>7 DEF ResolvePage
  <2>. QED BY <1>1, <1>4, <2>1, <2>2
<1>. QED BY <1>6, <1>7

\* ResolvePostPage: another token, or none.
LEMMA ResolvePostPageMoves ==
    ASSUME TypeOK, TodoInv, NEW c \in Call, ResolvePostPage(c), NEW k, k = calls[c],
           NEW j, j = calls'[c]
    PROVE /\ Moves(c, k, j) /\ Sticks(k, j) /\ Head(k.todo) = "post_page"
          /\ j.keep = k.keep /\ (Forward(k, j) \/ Fails(k, j))
<1>1. Running(c) /\ Head(k.todo) = "post_page"
  BY DEF ResolvePostPage, At, Step
<1>2. /\ k \in CallRecord /\ k.outcome = None /\ k.arg \in Arguments(k.tool)
      /\ k.todo # <<>> /\ k.todo \in Seq(Steps)
  BY <1>1, RunningCall
<1>3. k.arg.object \in Page \cup {None}
  <2>1. calls[c] # None
    BY <1>1 DEF Running
  <2>2. 1 \in DOMAIN k.todo /\ k.todo[1] = "post_page"
    BY <1>1, <1>2
  <2>3. Suits("post_page", k.tool)
    BY <2>1, <2>2 DEF TodoInv
  <2>4. ServiceOf(k.tool) = "facebook"
    BY <2>3 DEF Suits, PageSteps
  <2>. QED BY <1>2, <2>4 DEF Arguments
<1>4. CASE Becomes(c, Failed(k)) \/ Becomes(c, Advanced(k))
  BY <1>1, <1>4, PlainMoves
<1>5. CASE Becomes(c, Advanced([k EXCEPT !.token = k.arg.object]))
  <2>1. PICK i : i = [k EXCEPT !.token = k.arg.object]
    OBVIOUS
  <2>2. i \in CallRecord
    BY <1>2, <1>3, <2>1 DEF CallRecord
  <2>3. i.todo = k.todo /\ i.outcome = k.outcome /\ i.page = k.page /\ Carries(k, i)
    BY <1>2, <2>1 DEF CallRecord, Carries
  <2>4. PICK l : l = Advanced(i)
    OBVIOUS
  <2>5. Becomes(c, l)
    BY <1>5, <2>1, <2>4
  <2>6. l = j /\ Moves(c, k, l) /\ Forward(k, l) /\ Advances(i, l)
    BY <1>1, <2>2, <2>3, <2>4, <2>5, MovesOn DEF Carries
  <2>. QED BY <1>1, <1>2, <2>2, <2>3, <2>6, Sticking
<1>6. \/ k.user /\ Becomes(c, Advanced([k EXCEPT !.token = k.arg.object]))
      \/ Becomes(c, Advanced(k))
      \/ k.user /\ Becomes(c, Failed(k))
  BY DEF ResolvePostPage
<1>. QED BY <1>4, <1>5, <1>6

\* What a tool sees of an entity is an entity.
LEMMA RedactedIs ==
    ASSUME NEW e \in Entity \cup {None}
    PROVE /\ Redacted(e) \in Entity \cup {None}
          /\ e # None => Redacted(e) # None
          /\ e # None => \A a \in Attribute :
               Redacted(e)[a] = IF a \in Sensitive THEN "redacted" ELSE e[a]
<1>1. CASE e = None
  BY <1>1 DEF Redacted
<1>2. CASE e # None
  <2>1. Redacted(e) = [a \in Attribute |-> IF a \in Sensitive THEN "redacted" ELSE e[a]]
    BY <1>2 DEF Redacted
  <2>2. Redacted(e) \in Entity
    BY <1>2, <2>1 DEF Entity
  <2>. QED BY <1>2, <2>1, <2>2, NoneAssumption
<1>. QED BY <1>1, <1>2

\* The answers of a server.
Answers == {"ok", "refused", "too_many", "server_error", "lost"}

ReadOf(k) ==
    IF Head(k.todo) = "state" \/ Head(k.todo) = "absent"
    THEN [k EXCEPT !.was = entity,
                   !.seen = IF Head(k.todo) = "state" THEN Redacted(entity) ELSE None]
    ELSE k

Saw(k, j) ==
    IF Head(k.todo) \in {"state", "absent"}
    THEN /\ j.was = entity
         /\ j.seen = IF Head(k.todo) = "state" THEN Redacted(entity) ELSE None
    ELSE j.was = k.was /\ j.seen = k.seen

LEMMA ReadIs ==
    ASSUME TypeOK, NEW k \in CallRecord, NEW r, r = ReadOf(k)
    PROVE /\ r \in CallRecord /\ Carries(k, r) /\ r.todo = k.todo /\ r.page = k.page
          /\ r.outcome = k.outcome /\ r.again = k.again /\ Saw(k, r)
<1>1. CASE Head(k.todo) \in {"state", "absent"}
  <2>1. PICK s : s = IF Head(k.todo) = "state" THEN Redacted(entity) ELSE None
    OBVIOUS
  <2>2. s \in Entity \cup {None} /\ entity \in Entity \cup {None}
    BY <2>1, RedactedIs DEF TypeOK
  <2>3. r = [k EXCEPT !.was = entity, !.seen = s]
    BY <1>1, <2>1 DEF ReadOf
  <2>4. r \in CallRecord
    <3>1. PICK h : h = [k EXCEPT !.was = entity]
      OBVIOUS
    <3>2. h \in CallRecord
      BY <2>2, <3>1 DEF CallRecord
    <3>3. r = [h EXCEPT !.seen = s]
      BY <2>3, <3>1 DEF CallRecord
    <3>. QED BY <2>2, <3>2, <3>3 DEF CallRecord
  <2>5. /\ r.todo = k.todo /\ r.page = k.page /\ r.outcome = k.outcome
        /\ r.again = k.again /\ r.was = entity /\ r.seen = s
    BY <2>3 DEF CallRecord
  <2>6. Carries(k, r)
    BY <2>3 DEF CallRecord, Carries
  <2>. QED BY <1>1, <2>1, <2>4, <2>5, <2>6 DEF Saw
<1>2. CASE Head(k.todo) \notin {"state", "absent"}
  BY <1>2 DEF ReadOf, Saw, Carries
<1>. QED BY <1>1, <1>2

\* A request was made at a step, and done or not.
Requested(c, k, j, answer, done) ==
    LET step == Head(k.todo) IN
    /\ done => Admits(c, step) /\ Served(c, step)
    /\ ~done => UNCHANGED <<world, effects>>
    /\ answer = "ok" => done
    /\ answer = "refused" => ~Admits(c, step)
    /\ answer = "too_many" => ~done
    /\ faults' \in 0 .. MaxFaults
    /\ \/ Forward(k, j) /\ Continues(step, answer) /\ j.resent = k.resent
       \/ /\ Repeated(k, j) /\ Again(c, answer)
          /\ j.resent = IF answer = "server_error" THEN k.resent \cup {Len(k.todo)}
                        ELSE k.resent
       \/ Fails(k, j) /\ j.resent = k.resent
    /\ j.outcome = None => Saw(k, j)

LEMMA RequestMoves ==
    ASSUME TypeOK, NEW c \in Call, Request(c), NEW k, k = calls[c],
           NEW j, j = calls'[c]
    PROVE /\ Moves(c, k, j) /\ j.keep = k.keep /\ j.listed = k.listed
          /\ j.page \in {k.page, None}
          /\ Head(k.todo) \notin DbSteps \cup PageSteps \cup {"exchange"}
          /\ \E answer \in Answers, done \in BOOLEAN : Requested(c, k, j, answer, done)
<1>1. /\ Running(c) /\ Head(k.todo) \notin DbSteps \cup PageSteps \cup {"exchange"}
  BY DEF Request, Step
<1>2. /\ k \in CallRecord /\ k.outcome = None /\ k.todo # <<>> /\ k.todo \in Seq(Steps)
  BY <1>1, RunningCall
<1>. DEFINE step == Head(k.todo)
<1>3. PICK r : r = ReadOf(k)
  OBVIOUS
<1>4. /\ r \in CallRecord /\ Carries(k, r) /\ r.todo = k.todo /\ r.page = k.page
      /\ r.outcome = k.outcome /\ r.again = k.again /\ Saw(k, r)
  BY <1>2, <1>3, ReadIs
<1>5. PICK answer \in Answers, done \in BOOLEAN :
        /\ done => Admits(c, step)
        /\ answer = "ok" => done
        /\ answer = "refused" => ~Admits(c, step)
        /\ answer = "too_many" => ~done
        /\ faults' = faults + (IF answer \in {"ok", "refused"} THEN 0 ELSE 1)
        /\ faults' <= MaxFaults
        /\ IF done THEN Served(c, step) ELSE UNCHANGED <<world, effects>>
        /\ Becomes(c, IF Continues(step, answer) THEN Advanced(r)
                      ELSE IF Again(c, answer)
                      THEN [r EXCEPT !.again = TRUE, !.resent =
                              IF answer = "server_error" THEN @ \cup {Left(c)} ELSE @]
                      ELSE Failed(r))
  BY <1>3 DEF Request, Answers, Step, ReadOf
<1>6. faults' \in 0 .. MaxFaults
  <2>1. faults \in 0 .. MaxFaults /\ MaxFaults \in Nat
    BY RemoteAssumption DEF TypeOK
  <2>2. faults' = faults \/ faults' = faults + 1
    BY <1>5, <2>1
  <2>3. faults' <= MaxFaults
    BY <1>5
  <2>. QED BY <2>1, <2>2, <2>3
<1>. HIDE DEF step
<1>7. PICK l : l = IF Continues(step, answer) THEN Advanced(r)
                   ELSE IF Again(c, answer)
                   THEN [r EXCEPT !.again = TRUE, !.resent =
                           IF answer = "server_error" THEN @ \cup {Left(c)} ELSE @]
                   ELSE Failed(r)
  OBVIOUS
<1>8. Becomes(c, l)
  BY <1>5, <1>7
<1>. DEFINE Kept == /\ Moves(c, k, j) /\ j.keep = k.keep /\ j.listed = k.listed
                     /\ j.page \in {k.page, None} /\ (j.outcome = None => Saw(k, j))
<1>9. ASSUME Continues(step, answer)
      PROVE Kept /\ Forward(k, j) /\ j.resent = k.resent
  <2>1. l = Advanced(r)
    BY <1>7, <1>9
  <2>2. l = j /\ Moves(c, k, l) /\ Forward(k, l) /\ Advances(r, l)
    BY <1>1, <1>4, <1>8, <2>1, MovesOn DEF Carries
  <2>3. j.keep = k.keep /\ j.listed = k.listed /\ j.resent = k.resent
    BY <1>4, <2>2 DEF Advances, Carries
  <2>4. CASE j.todo = <<>>
    <3>1. j.outcome = "ok" /\ j.page = None
      BY <2>2, <2>4 DEF Advances
    <3>. QED BY <2>2, <2>3, <3>1, NoneAssumption
  <2>5. CASE j.todo # <<>>
    <3>1. Remembers(r, j)
      BY <2>2, <2>5 DEF Advances
    <3>2. j.page = k.page /\ Saw(k, j)
      BY <1>4, <3>1 DEF Remembers, Saw
    <3>. QED BY <2>2, <2>3, <3>2
  <2>. QED BY <2>4, <2>5
<1>10. ASSUME ~Continues(step, answer), ~Again(c, answer)
       PROVE Kept /\ Fails(k, j) /\ j.resent = k.resent
  <2>1. l = Ended(r, "failure")
    BY <1>7, <1>10 DEF Failed
  <2>2. l = j /\ Moves(c, k, l) /\ Stopped(k, l) /\ Ends(r, l) /\ l.outcome = "failure"
    BY <1>1, <1>4, <1>8, <2>1, MovesOut DEF Carries
  <2>3. j.keep = k.keep /\ j.listed = k.listed /\ j.resent = k.resent /\ j.page = None
    BY <1>4, <2>2 DEF Ends, Carries
  <2>4. j.outcome # None
    BY <2>2, NoneAssumption
  <2>. QED BY <2>2, <2>3, <2>4 DEF Fails
<1>11. ASSUME ~Continues(step, answer), Again(c, answer)
       PROVE /\ Kept /\ Repeated(k, j)
             /\ j.resent = IF answer = "server_error" THEN k.resent \cup {Len(k.todo)}
                           ELSE k.resent
  <2>1. PICK s : s = IF answer = "server_error" THEN k.resent \cup {Len(k.todo)}
                     ELSE k.resent
    OBVIOUS
  <2>2. s \in SUBSET Nat
    <3>1. Len(k.todo) \in Nat
      BY <1>2
    <3>2. k.resent \in SUBSET Nat
      BY <1>2 DEF CallRecord
    <3>. QED BY <2>1, <3>1, <3>2
  <2>3. l = [r EXCEPT !.again = TRUE, !.resent = s]
    <3>1. r.resent = k.resent /\ Left(c) = Len(k.todo)
      BY <1>4 DEF Carries, Left
    <3>. QED BY <1>7, <1>11, <2>1, <3>1
  <2>4. l \in CallRecord
    <3>1. PICK h : h = [r EXCEPT !.again = TRUE]
      OBVIOUS
    <3>2. h \in CallRecord
      BY <1>4, <3>1 DEF CallRecord
    <3>3. l = [h EXCEPT !.resent = s]
      BY <2>3, <3>1 DEF CallRecord
    <3>. QED BY <2>2, <3>2, <3>3 DEF CallRecord
  <2>5. /\ l.todo = r.todo /\ l.page = r.page /\ l.outcome = r.outcome /\ l.again
        /\ l.was = r.was /\ l.seen = r.seen /\ l.tool = r.tool /\ l.arg = r.arg
        /\ l.listed = r.listed /\ l.keep = r.keep /\ l.resent = s
    BY <1>4, <2>3 DEF CallRecord
  <2>6. calls' = [calls EXCEPT ![c] = l]
    BY <1>8 DEF Becomes
  <2>7. l = j
    BY <2>6 DEF TypeOK
  <2>8. ~k.again
    BY <1>11 DEF Again
  <2>9. Repeated(k, j)
    BY <1>2, <1>4, <2>5, <2>7, <2>8 DEF Repeated
  <2>10. j.keep = k.keep /\ j.listed = k.listed /\ j.page = k.page /\ Saw(k, j)
    BY <1>4, <2>5, <2>7 DEF Carries, Saw
  <2>11. Moves(c, k, j)
    BY <1>2, <1>4, <2>4, <2>5, <2>6, <2>7, <2>9 DEF Moves, Carries
  <2>. QED BY <2>1, <2>5, <2>7, <2>9, <2>10, <2>11
<1>12. Kept
  BY <1>9, <1>10, <1>11
<1>13. \/ Forward(k, j) /\ Continues(step, answer) /\ j.resent = k.resent
       \/ /\ Repeated(k, j) /\ Again(c, answer)
          /\ j.resent = IF answer = "server_error" THEN k.resent \cup {Len(k.todo)}
                        ELSE k.resent
       \/ Fails(k, j) /\ j.resent = k.resent
  BY <1>9, <1>10, <1>11
<1>. HIDE DEF Kept
<1>14. Requested(c, k, j, answer, done)
  <2>1. (done => Admits(c, step) /\ Served(c, step)) /\ (~done => UNCHANGED <<world, effects>>)
    BY <1>5
  <2>2. j.outcome = None => Saw(k, j)
    BY <1>12 DEF Kept
  <2>. QED BY <1>5, <1>6, <1>13, <2>1, <2>2 DEF Requested, step
<1>. QED BY <1>1, <1>12, <1>14 DEF Kept

\* Begin: a tool of the family, with one of its plans.
Begins(c, j) ==
    /\ calls[c] = None /\ calls' = [calls EXCEPT ![c] = j]
    /\ j \in CallRecord /\ j.tool \in family /\ j.arg \in Arguments(j.tool)
    /\ j.todo \in PlansOf(j.tool)
    /\ j.outcome = IF j.todo = <<>> THEN "ok" ELSE None
    /\ ~j.again /\ j.page \in {DefaultPage, None} /\ j.keep = None

LEMMA FamilyHasPlans == ASSUME TypeOK PROVE family \subseteq DOMAIN Plan
BY RemoteAssumption DEF TypeOK

LEMMA BeginMoves ==
    ASSUME TypeOK, NEW c \in Call, Begin(c), NEW j, j = calls'[c]
    PROVE Begins(c, j)
<1>1. PICK tool \in family : \E arg \in Arguments(tool) :
         LET explicit == ServiceOf(tool) = "facebook" /\ arg.explicit # None
             todo == IF explicit THEN Direct[tool] ELSE Plan[tool]
         IN Becomes(c, [tool |-> tool, arg |-> arg, todo |-> todo,
                        again |-> FALSE, resent |-> {}, user |-> FALSE,
                        token |-> IF explicit THEN arg.explicit ELSE None,
                        page |-> IF explicit THEN DefaultPage ELSE None,
                        listed |-> {}, keep |-> None, existed |-> FALSE,
                        seen |-> None, was |-> None,
                        outcome |-> IF todo = <<>> THEN "ok" ELSE None])
  BY DEF Begin
<1>2. PICK arg \in Arguments(tool) :
         LET explicit == ServiceOf(tool) = "facebook" /\ arg.explicit # None
             todo == IF explicit THEN Direct[tool] ELSE Plan[tool]
         IN Becomes(c, [tool |-> tool, arg |-> arg, todo |-> todo,
                        again |-> FALSE, resent |-> {}, user |-> FALSE,
                        token |-> IF explicit THEN arg.explicit ELSE None,
                        page |-> IF explicit THEN DefaultPage ELSE None,
                        listed |-> {}, keep |-> None, existed |-> FALSE,
                        seen |-> None, was |-> None,
                        outcome |-> IF todo = <<>> THEN "ok" ELSE None])
  BY <1>1
<1>. DEFINE explicit == ServiceOf(tool) = "facebook" /\ arg.explicit # None
            todo == IF explicit THEN Direct[tool] ELSE Plan[tool]
            token == IF explicit THEN arg.explicit ELSE None
            page == IF explicit THEN DefaultPage ELSE None
            outcome == IF todo = <<>> THEN "ok" ELSE None
            record == [tool |-> tool, arg |-> arg, todo |-> todo,
                       again |-> FALSE, resent |-> {}, user |-> FALSE,
                       token |-> token, page |-> page,
                       listed |-> {}, keep |-> None, existed |-> FALSE,
                       seen |-> None, was |-> None, outcome |-> outcome]
<1>3. Becomes(c, record)
  BY <1>2
<1>4. tool \in DOMAIN Plan
  BY <1>1, FamilyHasPlans
<1>5. todo \in PlansOf(tool)
  BY DEF PlansOf
<1>6. todo \in Seq(Steps)
  BY <1>4, <1>5, PlanAssumption
<1>7. token \in Page \cup {None}
  <2>1. CASE explicit
    <3>1. arg.explicit \in Page \cup {None}
      BY <1>2, <2>1 DEF Arguments
    <3>. QED BY <2>1, <3>1
  <2>2. CASE ~explicit
    BY <2>2
  <2>. QED BY <2>1, <2>2
<1>8. page \in {DefaultPage, None} /\ DefaultPage \in Page
  BY RemoteAssumption
<1>9. outcome \in {None, "ok", "failure"}
  OBVIOUS
<1>10. calls[c] = None
  BY DEF Begin
<1>. HIDE DEF explicit, todo, token, page
<1>11. PICK r : r = record
  OBVIOUS
<1>12. arg \in UNION {Arguments(t) : t \in DOMAIN Plan}
  BY <1>2, <1>4
<1>13. r \in CallRecord
  BY <1>4, <1>6, <1>7, <1>8, <1>9, <1>11, <1>12 DEF CallRecord
<1>14. calls' = [calls EXCEPT ![c] = r]
  BY <1>3, <1>11 DEF Becomes
<1>15. r = j
  BY <1>14 DEF TypeOK
<1>16. /\ j.tool = tool /\ j.arg = arg /\ j.todo = todo /\ j.outcome = outcome /\ ~j.again
       /\ j.page = page /\ j.keep = None
  BY <1>11, <1>15
<1>. QED BY <1>1, <1>2, <1>5, <1>8, <1>10, <1>13, <1>14, <1>15, <1>16 DEF Begins

-----------------------------------------------------------------------------
\* The awaits left

LEMMA TailFacts ==
    ASSUME NEW s \in Seq(Steps), s # <<>>
    PROVE /\ Tail(s) \in Seq(Steps) /\ Len(s) \in Nat \ {0} /\ Head(s) = s[1]
          /\ DOMAIN s = 1 .. Len(s)
          /\ Len(Tail(s)) = Len(s) - 1 /\ DOMAIN Tail(s) = 1 .. (Len(s) - 1)
          /\ \A i \in 1 .. (Len(s) - 1) : Tail(s)[i] = s[i + 1]
OBVIOUS

LEMMA StoringFacts ==
    ASSUME NEW s \in Seq(Steps), s # <<>>,
           NEW t, t = <<"store_get", "store_put">> \o Tail(s)
    PROVE /\ t \in Seq(Steps) /\ Len(t) = Len(s) + 1 /\ DOMAIN t = 1 .. (Len(s) + 1)
          /\ t[1] = "store_get" /\ t[2] = "store_put" /\ Head(t) = "store_get"
          /\ \A i \in 3 .. (Len(s) + 1) : t[i] = s[i - 1]
<1>1. PICK u : u = Tail(s)
  OBVIOUS
<1>2. /\ u \in Seq(Steps) /\ Len(u) = Len(s) - 1 /\ Len(s) \in Nat \ {0}
      /\ \A i \in 1 .. (Len(s) - 1) : u[i] = s[i + 1]
  BY <1>1, TailFacts
<1>3. PICK w : w = <<"store_get", "store_put">>
  OBVIOUS
<1>4. w \in Seq(Steps) /\ Len(w) = 2 /\ w[1] = "store_get" /\ w[2] = "store_put"
  BY <1>3 DEF Steps, DbSteps
<1>5. t = w \o u
  BY <1>1, <1>3
<1>6. t \in Seq(Steps) /\ Len(t) = 2 + Len(u)
  BY <1>2, <1>4, <1>5
<1>7. \A i \in 1 .. Len(w) + Len(u) :
        (w \o u)[i] = IF i <= Len(w) THEN w[i] ELSE u[i - Len(w)]
  BY <1>2, <1>4, ConcatProperties
<1>8. t[1] = "store_get" /\ t[2] = "store_put"
  BY <1>2, <1>4, <1>5, <1>7
<1>9. \A i \in 3 .. (Len(s) + 1) : t[i] = s[i - 1]
  <2>. SUFFICES ASSUME NEW i \in 3 .. (Len(s) + 1) PROVE t[i] = s[i - 1]
    OBVIOUS
  <2>1. i - 2 \in 1 .. (Len(s) - 1) /\ (i - 2) + 1 = i - 1
    BY <1>2
  <2>2. t[i] = u[i - 2]
    <3>1. PICK n \in Nat \ {0} : n = Len(s)
      BY <1>2
    <3>2. \A h \in 1 .. (2 + (n - 1)) : t[h] = IF h <= 2 THEN w[h] ELSE u[h - 2]
      BY <1>2, <1>4, <1>5, <1>7, <3>1
    <3>3. i \in 1 .. (2 + (n - 1)) /\ ~(i <= 2)
      BY <3>1
    <3>. QED BY <3>2, <3>3
  <2>. QED BY <1>2, <2>1, <2>2
<1>. QED BY <1>2, <1>6, <1>8, <1>9

LEMMA FitsForward ==
    ASSUME NEW s \in Seq(Steps), s # <<>>, NEW tool, InOrder(s), Chained(s, tool),
           \A i \in DOMAIN s : Suits(s[i], tool)
    PROVE /\ InOrder(Tail(s)) /\ Chained(Tail(s), tool)
          /\ \A i \in DOMAIN Tail(s) : Suits(Tail(s)[i], tool)
<1>1. PICK t : t = Tail(s)
  OBVIOUS
<1>2. PICK n : n = Len(s)
  OBVIOUS
<1>3. /\ n \in Nat \ {0} /\ DOMAIN s = 1 .. n /\ DOMAIN t = 1 .. (n - 1)
      /\ \A i \in 1 .. (n - 1) : t[i] = s[i + 1]
  BY <1>1, <1>2, TailFacts
<1>4. InOrder(t)
  <2>. SUFFICES ASSUME NEW i \in DOMAIN t, NEW j \in DOMAIN t, i < j
                PROVE /\ t[i] \in WriteSteps => t[j] \notin {"load", "pages"}
                      /\ t[i] = "clear_get" => t[j] \notin WriteSteps
    BY DEF InOrder
  <2>1. i + 1 \in DOMAIN s /\ j + 1 \in DOMAIN s /\ i + 1 < j + 1
    BY <1>3
  <2>2. t[i] = s[i + 1] /\ t[j] = s[j + 1]
    BY <1>3
  <2>. QED BY <2>1, <2>2 DEF InOrder
<1>5. Chained(t, tool)
  <2>. SUFFICES ASSUME NEW i \in DOMAIN t \ {1}, t[i] \in Dependent
                PROVE t[i - 1] = Before(t[i], tool)
    BY DEF Chained
  <2>1. i + 1 \in DOMAIN s \ {1} /\ t[i] = s[i + 1] /\ t[i - 1] = s[i]
    BY <1>3
  <2>2. (i + 1) - 1 = i
    BY <1>3
  <2>. QED BY <2>1, <2>2 DEF Chained
<1>6. \A i \in DOMAIN t : Suits(t[i], tool)
  BY <1>3
<1>. QED BY <1>1, <1>4, <1>5, <1>6

LEMMA FitsStoring ==
    ASSUME NEW s \in Seq(Steps), s # <<>>, Head(s) = "load", NEW tool,
           InOrder(s), Chained(s, tool), \A i \in DOMAIN s : Suits(s[i], tool),
           NEW t, t = <<"store_get", "store_put">> \o Tail(s)
    PROVE /\ InOrder(t) /\ Chained(t, tool)
          /\ \A i \in DOMAIN t : Suits(t[i], tool)
<1>1. PICK n : n = Len(s)
  OBVIOUS
<1>2. /\ n \in Nat \ {0} /\ DOMAIN s = 1 .. n /\ s[1] = "load"
  BY <1>1, TailFacts
<1>3. /\ DOMAIN t = 1 .. (n + 1) /\ t[1] = "store_get" /\ t[2] = "store_put"
      /\ \A i \in 3 .. (n + 1) : t[i] = s[i - 1]
  BY <1>1, StoringFacts
<1>4. "store_get" \notin WriteSteps /\ "store_put" \notin WriteSteps
  BY DEF WriteSteps, FileSteps
<1>5. InOrder(t)
  <2>. SUFFICES ASSUME NEW i \in DOMAIN t, NEW j \in DOMAIN t, i < j
                PROVE /\ t[i] \in WriteSteps => t[j] \notin {"load", "pages"}
                      /\ t[i] = "clear_get" => t[j] \notin WriteSteps
    BY DEF InOrder
  <2>1. CASE i <= 2
    <3>1. i = 1 \/ i = 2
      BY <1>3, <2>1
    <3>. QED BY <1>3, <1>4, <3>1
  <2>2. CASE i > 2
    <3>1. i - 1 \in DOMAIN s /\ j - 1 \in DOMAIN s /\ i - 1 < j - 1
      BY <1>2, <1>3, <2>2
    <3>2. t[i] = s[i - 1] /\ t[j] = s[j - 1]
      BY <1>2, <1>3, <2>2
    <3>. QED BY <3>1, <3>2 DEF InOrder
  <2>. QED BY <1>2, <1>3, <2>1, <2>2
<1>6. Chained(t, tool)
  <2>. SUFFICES ASSUME NEW i \in DOMAIN t \ {1}, t[i] \in Dependent
                PROVE t[i - 1] = Before(t[i], tool)
    BY DEF Chained
  <2>1. CASE i = 2
    BY <1>3, <2>1 DEF Before
  <2>2. CASE i = 3
    <3>1. 2 \in DOMAIN s \ {1} /\ t[3] = s[2]
      BY <1>2, <1>3, <2>2
    <3>2. s[2 - 1] = Before(s[2], tool)
      BY <2>2, <3>1 DEF Chained
    <3>3. Before(s[2], tool) # "load"
      BY <2>2, <3>1 DEF Before, Dependent
    <3>. QED BY <1>2, <3>2, <3>3
  <2>3. CASE i > 3
    <3>1. i - 1 \in DOMAIN s \ {1} /\ t[i] = s[i - 1] /\ t[i - 1] = s[(i - 1) - 1]
      BY <1>2, <1>3, <2>3
    <3>. QED BY <3>1 DEF Chained
  <2>. QED BY <1>2, <1>3, <2>1, <2>2, <2>3
<1>7. \A i \in DOMAIN t : Suits(t[i], tool)
  <2>1. Suits("store_get", tool) /\ Suits("store_put", tool)
    BY DEF Suits, PageSteps, FileSteps, DbSteps
  <2>. SUFFICES ASSUME NEW i \in DOMAIN t PROVE Suits(t[i], tool)
    OBVIOUS
  <2>2. CASE i <= 2
    <3>1. i = 1 \/ i = 2
      BY <1>3, <2>2
    <3>. QED BY <1>3, <2>1, <3>1
  <2>3. CASE i > 2
    <3>1. i - 1 \in DOMAIN s /\ t[i] = s[i - 1]
      BY <1>2, <1>3, <2>3
    <3>. QED BY <3>1
  <2>. QED BY <1>2, <1>3, <2>2, <2>3
<1>. QED BY <1>5, <1>6, <1>7

-----------------------------------------------------------------------------
\* The types and the awaits left

Acts(c) ==
    \/ Load(c) \/ Exchange(c) \/ StoreGet(c) \/ StorePut(c) \/ ClearGet(c)
    \/ ClearPut(c) \/ ResolvePage(c) \/ ResolvePostPage(c) \/ Request(c)

LEMMA ActsMove ==
    ASSUME TypeOK, TodoInv, NEW c \in Call, Acts(c), NEW k, k = calls[c],
           NEW j, j = calls'[c]
    PROVE Moves(c, k, j) /\ UNCHANGED <<family, reports>>
<1>1. CASE Load(c)
  <2>1. UNCHANGED <<family, reports>>
    BY <1>1 DEF Load
  <2>. QED BY <1>1, <2>1, LoadMoves
<1>2. CASE Exchange(c)
  <2>1. UNCHANGED <<family, reports>>
    BY <1>2 DEF Exchange
  <2>. QED BY <1>2, <2>1, ExchangeMoves
<1>3. CASE StoreGet(c)
  <2>1. UNCHANGED <<family, reports>>
    BY <1>3 DEF StoreGet
  <2>. QED BY <1>3, <2>1, StoreGetMoves
<1>4. CASE StorePut(c)
  <2>1. UNCHANGED <<family, reports>>
    BY <1>4 DEF StorePut
  <2>. QED BY <1>4, <2>1, StorePutMoves
<1>5. CASE ClearGet(c)
  <2>1. UNCHANGED <<family, reports>>
    BY <1>5 DEF ClearGet
  <2>. QED BY <1>5, <2>1, ClearGetMoves
<1>6. CASE ClearPut(c)
  <2>1. UNCHANGED <<family, reports>>
    BY <1>6 DEF ClearPut
  <2>. QED BY <1>6, <2>1, ClearPutMoves
<1>7. CASE ResolvePage(c)
  <2>1. UNCHANGED <<family, reports>>
    BY <1>7 DEF ResolvePage
  <2>. QED BY <1>7, <2>1, ResolvePageMoves
<1>8. CASE ResolvePostPage(c)
  <2>1. UNCHANGED <<family, reports>>
    BY <1>8 DEF ResolvePostPage
  <2>. QED BY <1>8, <2>1, ResolvePostPageMoves
<1>9. CASE Request(c)
  <2>1. UNCHANGED <<family, reports>>
    BY <1>9 DEF Request
  <2>. QED BY <1>9, <2>1, RequestMoves
<1>. QED BY <1>1, <1>2, <1>3, <1>4, <1>5, <1>6, <1>7, <1>8, <1>9 DEF Acts

LEMMA NextCases ==
    ASSUME [Next]_vars
    PROVE \/ \E c \in Call : Begin(c)
          \/ \E c \in Call : Acts(c)
          \/ Report
          \/ UNCHANGED vars
BY DEF Next, Acts

\* the types of the calls, as TypeOK has them
TypedCalls ==
    /\ family \in Families /\ calls \in [Call -> CallRecord \cup {None}]
    /\ \A c \in Call : calls[c] # None =>
         /\ calls[c].tool \in family /\ calls[c].arg \in Arguments(calls[c].tool)
         /\ calls[c].todo = <<>> => calls[c].outcome = "ok"

LEMMA TypedCallsMove ==
    ASSUME TypeOK, NEW c \in Call, NEW k, k = calls[c], NEW j, Moves(c, k, j),
           UNCHANGED family
    PROVE TypedCalls'
<1>1. k # None /\ j \in CallRecord /\ k \in CallRecord
  BY NoneAssumption DEF Moves
<1>2. calls' = [calls EXCEPT ![c] = j]
  BY DEF Moves
<1>3. calls' \in [Call -> CallRecord \cup {None}] /\ family' \in Families
  BY <1>1, <1>2 DEF TypeOK
<1>4. k.tool \in family /\ k.arg \in Arguments(k.tool)
  BY <1>1 DEF TypeOK
<1>5. j.tool \in family /\ j.arg \in Arguments(j.tool)
  BY <1>4 DEF Moves
<1>6. j.todo = <<>> => j.outcome = "ok"
  <2>1. Forward(k, j) => (j.todo = <<>> => j.outcome = "ok")
    BY DEF Forward
  <2>2. Stopped(k, j) \/ Repeated(k, j) => j.todo # <<>>
    BY DEF Stopped, Repeated, Moves
  <2>3. Migrated(k, j) => j.todo # <<>>
    <3>1. k.todo \in Seq(Steps) /\ k.todo # <<>>
      BY <1>1 DEF CallRecord, Moves
    <3>2. ASSUME Migrated(k, j) PROVE j.todo[1] = "store_get" /\ Len(j.todo) # 0
      <4>1. Len(j.todo) = Len(k.todo) + 1 /\ j.todo[1] = "store_get"
        BY <3>1, <3>2, StoringFacts DEF Migrated
      <4>2. Len(k.todo) \in Nat
        BY <3>1
      <4>. QED BY <4>1, <4>2
    <3>. QED BY <3>2
  <2>. QED BY <2>1, <2>2, <2>3 DEF Moves
<1>7. \A d \in Call : d # c => calls'[d] = calls[d]
  BY <1>2 DEF TypeOK
<1>8. calls'[c] = j
  BY <1>2 DEF TypeOK
<1>. SUFFICES ASSUME NEW d \in Call, calls'[d] # None
              PROVE /\ calls'[d].tool \in family'
                    /\ calls'[d].arg \in Arguments(calls'[d].tool)
                    /\ calls'[d].todo = <<>> => calls'[d].outcome = "ok"
  BY <1>3 DEF TypedCalls
<1>9. CASE d = c
  BY <1>5, <1>6, <1>8, <1>9
<1>10. CASE d # c
  <2>1. calls'[d] = calls[d]
    BY <1>7, <1>10
  <2>. QED BY <2>1 DEF TypeOK
<1>. QED BY <1>9, <1>10

LEMMA TypedCallsBegin ==
    ASSUME TypeOK, NEW c \in Call, NEW j, Begins(c, j), UNCHANGED family
    PROVE TypedCalls'
<1>1. calls' = [calls EXCEPT ![c] = j] /\ j \in CallRecord
  BY DEF Begins
<1>2. calls' \in [Call -> CallRecord \cup {None}] /\ family' \in Families
  BY <1>1 DEF TypeOK
<1>3. /\ j.tool \in family /\ j.arg \in Arguments(j.tool)
      /\ j.todo = <<>> => j.outcome = "ok"
  BY DEF Begins
<1>4. calls'[c] = j /\ \A d \in Call : d # c => calls'[d] = calls[d]
  BY <1>1 DEF TypeOK
<1>. SUFFICES ASSUME NEW d \in Call, calls'[d] # None
              PROVE /\ calls'[d].tool \in family'
                    /\ calls'[d].arg \in Arguments(calls'[d].tool)
                    /\ calls'[d].todo = <<>> => calls'[d].outcome = "ok"
  BY <1>2 DEF TypedCalls
<1>5. CASE d = c
  BY <1>3, <1>4, <1>5
<1>6. CASE d # c
  <2>1. calls'[d] = calls[d]
    BY <1>4, <1>6
  <2>. QED BY <2>1 DEF TypeOK
<1>. QED BY <1>5, <1>6

\* What the servers hold keeps its type.
LEMMA ServedTypes ==
    ASSUME TypeOK, TodoInv, NEW c \in Call, Running(c), NEW step, step = Step(c),
           Served(c, step)
    PROVE /\ folder' \in BOOLEAN /\ files' \in [Path -> Path \cup Call \cup {None}]
          /\ entity' \in Entity \cup {None}
<1>1. /\ calls[c] \in CallRecord /\ calls[c].todo # <<>> /\ calls[c].todo \in Seq(Steps)
      /\ calls[c].arg \in Arguments(calls[c].tool) /\ calls[c] # None
  BY RunningCall DEF Running
<1>2. Suits(step, calls[c].tool)
  <2>1. 1 \in DOMAIN calls[c].todo /\ calls[c].todo[1] = step
    BY <1>1, TailFacts DEF Step
  <2>. QED BY <1>1, <2>1 DEF TodoInv
<1>3. step \in FileSteps =>
        calls[c].arg.path \in Path /\ calls[c].arg.other \in Path
  <2>1. step \in FileSteps => ServiceOf(calls[c].tool) = "nextcloud"
    BY <1>2 DEF Suits
  <2>. QED BY <1>1, <2>1 DEF Arguments
<1>4. folder' \in BOOLEAN
  <2>1. folder' = (folder \/ step \in {"mkcol", "ensure"})
    BY DEF Served
  <2>. QED BY <2>1
<1>5. files' \in [Path -> Path \cup Call \cup {None}]
  <2>1. files' = [p \in Path |->
           IF step \in {"copy", "move"} /\ p = calls[c].arg.other THEN files[calls[c].arg.path]
           ELSE IF step = "put" /\ p = calls[c].arg.path THEN c
           ELSE IF step \in {"move", "delete"} /\ p = calls[c].arg.path THEN None
           ELSE files[p]]
    BY DEF Served
  <2>2. step \in {"copy", "move"} => step \in FileSteps
    BY DEF FileSteps
  <2>3. step \in {"copy", "move"} => files[calls[c].arg.path] \in Path \cup Call \cup {None}
    BY <1>3, <2>2 DEF TypeOK
  <2>4. \A p \in Path : files[p] \in Path \cup Call \cup {None}
    BY DEF TypeOK
  <2>. QED BY <2>1, <2>3, <2>4
<1>6. entity' \in Entity \cup {None}
  <2>1. Merged(c) \in Entity
    <3>1. calls[c].seen \in Entity \cup {None}
      BY <1>1 DEF CallRecord
    <3>2. calls[c].seen # None => \A a \in Attribute :
             calls[c].seen[a] \in {"first", "reported", "redacted", None} \cup Call
      BY <3>1 DEF Entity
    <3>. QED BY <3>2 DEF Merged, Entity
  <2>2. entity' = IF step = "set_state" THEN Merged(c)
                  ELSE IF step = "delete_state" THEN None ELSE entity
    BY DEF Served
  <2>. QED BY <2>1, <2>2 DEF TypeOK
<1>. QED BY <1>4, <1>5, <1>6

\* The types, and the token of a call that stores one.
LEMMA TypeInit == ASSUME Init PROVE TypeOK
<1>1. calls = [c \in Call |-> None] /\ family \in Families
  BY DEF Init
<1>2. row \in Row \cup {None}
  <2>1. row \in {None} \cup [token : {Legacy}, plain : {TRUE}]
                       \cup [token : Issued, plain : {FALSE}]
    BY DEF Init
  <2>. QED BY <2>1 DEF Row
<1>3. files \in [Path -> Path \cup Call \cup {None}] /\ folder \in BOOLEAN
  BY DEF Init
<1>4. entity \in Entity \cup {None}
  <2>1. entity \in {None, [a \in Attribute |-> "first"]}
    BY DEF Init
  <2>. QED BY <2>1 DEF Entity
<1>5. dropped = {} /\ faults = 0 /\ reports = 0
  BY DEF Init
<1>6. MaxFaults \in Nat /\ MaxReports \in Nat
  BY RemoteAssumption
<1>7. calls \in [Call -> CallRecord \cup {None}]
  BY <1>1
<1>. QED BY <1>1, <1>2, <1>3, <1>4, <1>5, <1>6, <1>7 DEF TypeOK

LEMMA TypeNext ==
    ASSUME TypeOK, TodoInv, TokenInv, [Next]_vars
    PROVE TypeOK'
<1>1. ASSUME NEW c \in Call, Begin(c) PROVE TypeOK'
  <2>1. UNCHANGED <<family, row, dropped, world, effects, faults, reports>>
    BY <1>1 DEF Begin
  <2>2. TypedCalls'
    BY <1>1, <2>1, BeginMoves, TypedCallsBegin
  <2>. QED BY <2>1, <2>2 DEF TypeOK, TypedCalls, world
<1>2. ASSUME NEW c \in Call, Acts(c) PROVE TypeOK'
  <2>1. PICK k : k = calls[c]
    OBVIOUS
  <2>2. PICK j : j = calls'[c]
    OBVIOUS
  <2>3. Moves(c, k, j) /\ UNCHANGED <<family, reports>>
    BY <1>2, <2>1, <2>2, ActsMove
  <2>4. TypedCalls'
    BY <2>1, <2>3, TypedCallsMove
  <2>5. row' \in Row \cup {None} /\ dropped' \subseteq Issued
    <3>1. CASE UNCHANGED <<row, dropped>>
      BY <3>1 DEF TypeOK
    <3>2. CASE StorePut(c)
      <4>1. \/ /\ row' = [token |-> k.keep, plain |-> FALSE]
               /\ dropped' = dropped \cup DroppedBy(k.keep)
            \/ UNCHANGED <<row, dropped>>
        BY <2>1, <2>2, <3>2, StorePutMoves
      <4>2. k.keep \in Issued \cup {Legacy}
        BY <2>1, <3>2 DEF StorePut, TokenInv, Holder
      <4>3. DroppedBy(k.keep) \subseteq Issued
        BY DEF DroppedBy
      <4>4. [token |-> k.keep, plain |-> FALSE] \in Row
        BY <4>2 DEF Row
      <4>5. row \in Row \cup {None} /\ dropped \subseteq Issued
        BY DEF TypeOK
      <4>. QED BY <4>1, <4>3, <4>4, <4>5
    <3>3. CASE ClearPut(c)
      BY <3>3 DEF ClearPut, TypeOK, DroppedBy
    <3>4. Load(c) \/ Exchange(c) \/ StoreGet(c) \/ ClearGet(c) \/ ResolvePage(c)
          \/ ResolvePostPage(c) \/ Request(c) => UNCHANGED <<row, dropped>>
      BY DEF Load, Exchange, StoreGet, ClearGet, ResolvePage, ResolvePostPage, Request
    <3>. QED BY <1>2, <3>1, <3>2, <3>3, <3>4 DEF Acts
  <2>6. /\ folder' \in BOOLEAN /\ files' \in [Path -> Path \cup Call \cup {None}]
        /\ entity' \in Entity \cup {None} /\ faults' \in 0 .. MaxFaults
    <3>1. CASE UNCHANGED <<world, faults>>
      BY <3>1 DEF TypeOK, world
    <3>2. CASE Request(c)
      <4>1. Running(c) /\ Head(k.todo) = Step(c)
        BY <2>1, <3>2 DEF Request, Step
      <4>2. PICK answer \in Answers, done \in BOOLEAN : Requested(c, k, j, answer, done)
        BY <2>1, <2>2, <3>2, RequestMoves
      <4>3. CASE done
        BY <4>1, <4>2, <4>3, ServedTypes DEF Requested
      <4>4. CASE ~done
        BY <4>2, <4>4 DEF Requested, TypeOK, world
      <4>. QED BY <4>3, <4>4
    <3>3. Load(c) \/ Exchange(c) \/ StoreGet(c) \/ StorePut(c) \/ ClearGet(c) \/ ClearPut(c)
          \/ ResolvePage(c) \/ ResolvePostPage(c) => UNCHANGED <<world, faults>>
      BY DEF Load, Exchange, StoreGet, StorePut, ClearGet, ClearPut, ResolvePage,
             ResolvePostPage
    <3>. QED BY <1>2, <3>1, <3>2, <3>3 DEF Acts
  <2>. QED BY <2>3, <2>4, <2>5, <2>6 DEF TypeOK, TypedCalls
<1>3. CASE Report
  <2>1. UNCHANGED <<calls, family, row, dropped, folder, files, effects, faults>>
    BY <1>3 DEF Report
  <2>2. reports' \in 0 .. MaxReports
    <3>1. MaxReports \in Nat /\ reports \in 0 .. MaxReports
      BY RemoteAssumption DEF TypeOK
    <3>2. reports < MaxReports /\ reports' = reports + 1
      BY <1>3 DEF Report
    <3>. QED BY <3>1, <3>2
  <2>3. entity' \in Entity
    <3>1. entity' = [a \in Attribute |-> IF a = "state" \/ entity = None
                                         THEN "reported" ELSE entity[a]]
      BY <1>3 DEF Report
    <3>2. entity # None => \A a \in Attribute :
             entity[a] \in {"first", "reported", "redacted", None} \cup Call
      BY DEF TypeOK, Entity
    <3>. QED BY <3>1, <3>2 DEF Entity
  <2>. QED BY <2>1, <2>2, <2>3 DEF TypeOK
<1>4. CASE UNCHANGED vars
  BY <1>4 DEF vars, world, TypeOK
<1>. QED BY <1>1, <1>2, <1>3, <1>4, NextCases

\* Only the call that acts changes.
LEMMA Others ==
    ASSUME TypeOK, NEW c \in Call, NEW j, calls' = [calls EXCEPT ![c] = j]
    PROVE calls'[c] = j /\ \A d \in Call \ {c} : calls'[d] = calls[d]
BY DEF TypeOK

Fits(k) ==
    /\ InOrder(k.todo) /\ Chained(k.todo, k.tool)
    /\ \A i \in DOMAIN k.todo : Suits(k.todo[i], k.tool)

LEMMA FitsMove ==
    ASSUME NEW c, NEW k, NEW j, Moves(c, k, j), Fits(k)
    PROVE Fits(j)
<1>1. j.tool = k.tool /\ k.todo # <<>> /\ k.todo \in Seq(Steps)
  BY DEF Moves, CallRecord
<1>2. CASE Forward(k, j)
  BY <1>1, <1>2, FitsForward DEF Forward, Fits
<1>3. CASE Stopped(k, j) \/ Repeated(k, j)
  BY <1>1, <1>3 DEF Stopped, Repeated, Fits
<1>4. CASE Migrated(k, j)
  BY <1>1, <1>4, FitsStoring DEF Migrated, Fits
<1>. QED BY <1>2, <1>3, <1>4 DEF Moves

LEMMA FitsBegin ==
    ASSUME TypeOK, NEW c, NEW j, Begins(c, j)
    PROVE Fits(j) /\ (j.todo # <<>> => Head(j.todo) \notin Dependent)
<1>1. j.tool \in DOMAIN Plan /\ j.todo \in PlansOf(j.tool)
  BY FamilyHasPlans DEF Begins
<1>2. /\ j.todo \in Seq(Steps) /\ InOrder(j.todo) /\ Chained(j.todo, j.tool)
      /\ \A i \in DOMAIN j.todo : Suits(j.todo[i], j.tool)
      /\ j.todo # <<>> => j.todo[1] \notin Dependent
  BY <1>1, PlanAssumption
<1>3. j.todo # <<>> => Head(j.todo) = j.todo[1]
  BY <1>2, TailFacts
<1>. QED BY <1>2, <1>3 DEF Fits

LEMMA TodoFits == TodoInv <=> \A c \in Call : calls[c] # None => Fits(calls[c])
BY DEF TodoInv, Fits

LEMMA TodoNext ==
    ASSUME TypeOK, TodoInv, [Next]_vars
    PROVE TodoInv'
<1>1. \A c \in Call : calls[c] # None => Fits(calls[c])
  BY TodoFits
<1>2. ASSUME NEW c \in Call, NEW j, calls' = [calls EXCEPT ![c] = j], Fits(j)
      PROVE \A d \in Call : calls'[d] # None => Fits(calls'[d])
  <2>1. calls'[c] = j /\ \A d \in Call \ {c} : calls'[d] = calls[d]
    BY <1>2, Others
  <2>. SUFFICES ASSUME NEW d \in Call, calls'[d] # None PROVE Fits(calls'[d])
    OBVIOUS
  <2>2. CASE d = c
    BY <1>2, <2>1, <2>2
  <2>3. CASE d # c
    <3>1. calls'[d] = calls[d]
      BY <2>1, <2>3
    <3>2. Fits(calls[d])
      BY <1>1, <3>1
    <3>. QED BY <3>1, <3>2
  <2>. QED BY <2>2, <2>3
<1>3. ASSUME NEW c \in Call, Begin(c)
      PROVE \A d \in Call : calls'[d] # None => Fits(calls'[d])
  <2>1. PICK j : j = calls'[c]
    OBVIOUS
  <2>2. Begins(c, j)
    BY <1>3, <2>1, BeginMoves
  <2>3. Fits(j) /\ calls' = [calls EXCEPT ![c] = j]
    BY <2>2, FitsBegin DEF Begins
  <2>. QED BY <1>2, <2>3
<1>4. ASSUME NEW c \in Call, Acts(c)
      PROVE \A d \in Call : calls'[d] # None => Fits(calls'[d])
  <2>1. PICK k : k = calls[c]
    OBVIOUS
  <2>2. PICK j : j = calls'[c]
    OBVIOUS
  <2>3. Moves(c, k, j)
    BY <1>4, <2>1, <2>2, ActsMove
  <2>4. k # None
    BY <2>3, NoneAssumption DEF Moves
  <2>5. Fits(k)
    BY <1>1, <2>1, <2>4
  <2>6. Fits(j) /\ calls' = [calls EXCEPT ![c] = j]
    BY <2>3, <2>5, FitsMove DEF Moves
  <2>. QED BY <1>2, <2>6
<1>5. ASSUME UNCHANGED calls
      PROVE \A d \in Call : calls'[d] # None => Fits(calls'[d])
  BY <1>1, <1>5
<1>6. Report \/ UNCHANGED vars => UNCHANGED calls
  BY DEF Report, vars
<1>7. \A c \in Call : calls'[c] # None => Fits(calls'[c])
  BY <1>3, <1>4, <1>5, <1>6, NextCases
<1>. QED BY <1>7 DEF TodoInv, Fits

\* A step that needs another one comes after it.
LEMMA NewHead ==
    ASSUME NEW s \in Seq(Steps), s # <<>>, NEW tool, Chained(s, tool),
           NEW t, t = Tail(s), t # <<>>, Head(t) \in Dependent
    PROVE Head(s) = Before(Head(t), tool)
<1>1. t \in Seq(Steps) /\ Len(t) = Len(s) - 1 /\ Head(s) = s[1] /\ DOMAIN s = 1 .. Len(s)
      /\ Len(s) \in Nat /\ \A i \in 1 .. (Len(s) - 1) : t[i] = s[i + 1]
  BY TailFacts
<1>2. Len(t) \in Nat \ {0} /\ Head(t) = t[1]
  BY <1>1, TailFacts
<1>3. 2 \in DOMAIN s \ {1} /\ t[1] = s[2]
  BY <1>1, <1>2
<1>. QED BY <1>1, <1>2, <1>3 DEF Chained

-----------------------------------------------------------------------------
\* The Facebook user token

HoldsToken(k) ==
    k.outcome = None /\ k.todo # <<>> /\ Head(k.todo) \in {"store_get", "store_put"}

LEMMA HolderIs == \A c : Holder(c) <=> calls[c] # None /\ HoldsToken(calls[c])
BY DEF Holder, HoldsToken, At, Running, Step

\* what an action does about the token
Keeps(k, j) ==
    UNCHANGED <<row, dropped>> /\ j.keep = k.keep /\ (HoldsToken(j) => HoldsToken(k))

Stores(k, j) ==
    /\ HoldsToken(k) /\ ~HoldsToken(j) /\ j.keep = k.keep
    /\ row' = [token |-> k.keep, plain |-> FALSE]
    /\ dropped' = dropped \cup DroppedBy(k.keep)

Clears(k, j) ==
    /\ ~HoldsToken(j) /\ j.keep = k.keep
    /\ row' = None /\ dropped' = dropped \cup DroppedBy(None)

Gets(j) == UNCHANGED <<row, dropped>> /\ j.keep \in Issued \ Given

GetsLegacy(j) == UNCHANGED <<row, dropped>> /\ j.keep = Legacy

\* What does not come from an exchange or a reading stores nothing.
LEMMA NewHolder ==
    ASSUME NEW c, NEW k, NEW j, Moves(c, k, j), Fits(k), HoldsToken(j),
           ~Migrated(k, j), Head(k.todo) # "exchange"
    PROVE HoldsToken(k) /\ (Forward(k, j) => Head(k.todo) = "store_get")
<1>1. k.todo # <<>> /\ k.todo \in Seq(Steps) /\ k.outcome = None
  BY DEF Moves, CallRecord
<1>2. CASE Forward(k, j)
  <2>1. j.todo = Tail(k.todo) /\ j.todo # <<>> /\ Head(j.todo) \in Dependent
    BY <1>2 DEF Forward, HoldsToken, Dependent
  <2>2. Head(k.todo) = Before(Head(j.todo), k.tool)
    BY <1>1, <2>1, NewHead DEF Fits
  <2>3. Head(k.todo) \in {"exchange", "store_get"}
    BY <2>2 DEF HoldsToken, Before
  <2>. QED BY <1>1, <2>3 DEF HoldsToken
<1>3. CASE Stopped(k, j)
  BY <1>3, NoneAssumption DEF Stopped, HoldsToken
<1>4. CASE Repeated(k, j)
  <2>1. Head(k.todo) \in {"store_get", "store_put"} /\ HoldsToken(k)
    BY <1>1, <1>4 DEF Repeated, HoldsToken
  <2>2. Len(j.todo) = Len(k.todo) /\ Len(k.todo) \in Nat \ {0}
    BY <1>1, <1>4, TailFacts DEF Repeated
  <2>3. ~Forward(k, j)
    <3>1. Len(Tail(k.todo)) = Len(k.todo) - 1
      BY <1>1, TailFacts
    <3>2. Len(Tail(k.todo)) # Len(j.todo)
      BY <2>2, <3>1
    <3>. QED BY <3>2 DEF Forward
  <2>. QED BY <2>1, <2>3
<1>. QED BY <1>2, <1>3, <1>4 DEF Moves

LEMMA TokenMoves ==
    ASSUME TypeOK, TodoInv, TokenInv, NEW c \in Call, Acts(c), NEW k, k = calls[c],
           NEW j, j = calls'[c]
    PROVE \/ Keeps(k, j) \/ Stores(k, j) \/ Clears(k, j) \/ Gets(j)
          \/ GetsLegacy(j)
<1>1. Moves(c, k, j)
  BY ActsMove
<1>2. Fits(k) /\ k # None /\ k.todo # <<>> /\ k.outcome = None
  BY <1>1, TodoFits, NoneAssumption DEF Moves
<1>3. ASSUME ~Migrated(k, j), Head(k.todo) # "exchange", j.keep = k.keep,
             UNCHANGED <<row, dropped>>
      PROVE Keeps(k, j)
  BY <1>1, <1>2, <1>3, NewHolder DEF Keeps
<1>4. Head(k.todo) # "load" => ~Migrated(k, j)
  BY DEF Migrated
<1>5. CASE Load(c)
  <2>1. Head(k.todo) = "load" /\ UNCHANGED <<row, dropped>>
    BY <1>5, LoadMoves DEF Load
  <2>2. CASE Migrated(k, j) /\ Migrates(row) /\ j.keep = row.token
    <3>1. j.keep = Legacy
      BY <2>2 DEF Migrates, TokenInv
    <3>. QED BY <2>1, <3>1 DEF GetsLegacy
  <2>3. CASE Forward(k, j) /\ j.keep = k.keep /\ ~Migrated(k, j)
    BY <1>3, <2>1, <2>3
  <2>4. Forward(k, j) => ~Migrated(k, j)
    <3>1. k.todo \in Seq(Steps)
      BY <1>1 DEF Moves, CallRecord
    <3>2. ASSUME Forward(k, j), Migrated(k, j) PROVE FALSE
      <4>1. Len(j.todo) = Len(k.todo) + 1
        BY <1>2, <3>1, <3>2, StoringFacts DEF Migrated
      <4>2. Len(j.todo) = Len(k.todo) - 1 /\ Len(k.todo) \in Nat
        BY <1>2, <3>1, <3>2, TailFacts DEF Forward
      <4>. QED BY <4>1, <4>2
    <3>. QED BY <3>2
  <2>. QED BY <1>5, <2>2, <2>3, <2>4, LoadMoves
<1>6. CASE Exchange(c)
  <2>1. UNCHANGED <<row, dropped>>
    BY <1>6 DEF Exchange
  <2>2. CASE j.keep \in Issued \ Given
    BY <2>1, <2>2 DEF Gets
  <2>3. CASE Fails(k, j) /\ j.keep = k.keep
    <3>1. ~HoldsToken(j)
      BY <2>3, NoneAssumption DEF Fails, Stopped, HoldsToken
    <3>. QED BY <2>1, <2>3, <3>1 DEF Keeps
  <2>. QED BY <1>6, <2>2, <2>3, ExchangeMoves
<1>7. CASE StoreGet(c)
  <2>1. UNCHANGED <<row, dropped>>
    BY <1>7 DEF StoreGet
  <2>. QED BY <1>3, <1>4, <1>7, <2>1, StoreGetMoves
<1>8. CASE StorePut(c)
  <2>1. Head(k.todo) = "store_put" /\ j.keep = k.keep
    BY <1>8, StorePutMoves
  <2>2. HoldsToken(k)
    BY <1>2, <2>1 DEF HoldsToken
  <2>3. CASE /\ Forward(k, j) /\ row' = [token |-> k.keep, plain |-> FALSE]
             /\ dropped' = dropped \cup DroppedBy(k.keep)
    <3>1. ~HoldsToken(j)
      BY <1>1, <1>2, <1>4, <2>1, <2>3, NewHolder
    <3>. QED BY <2>1, <2>2, <2>3, <3>1 DEF Stores
  <2>4. CASE UNCHANGED <<row, dropped>>
    BY <1>3, <1>4, <2>1, <2>4
  <2>. QED BY <1>8, <2>3, <2>4, StorePutMoves
<1>9. CASE ClearGet(c)
  <2>1. UNCHANGED <<row, dropped>>
    BY <1>9 DEF ClearGet
  <2>. QED BY <1>3, <1>4, <1>9, <2>1, ClearGetMoves
<1>10. CASE ClearPut(c)
  <2>1. Head(k.todo) = "clear_put" /\ j.keep = k.keep /\ Forward(k, j)
    BY <1>10, ClearPutMoves
  <2>2. ~HoldsToken(j)
    BY <1>1, <1>2, <1>4, <2>1, NewHolder
  <2>. QED BY <1>10, <2>1, <2>2 DEF ClearPut, Clears
<1>11. CASE ResolvePage(c)
  <2>1. UNCHANGED <<row, dropped>>
    BY <1>11 DEF ResolvePage
  <2>. QED BY <1>3, <1>4, <1>11, <2>1, ResolvePageMoves
<1>12. CASE ResolvePostPage(c)
  <2>1. UNCHANGED <<row, dropped>>
    BY <1>12 DEF ResolvePostPage
  <2>. QED BY <1>3, <1>4, <1>12, <2>1, ResolvePostPageMoves
<1>13. CASE Request(c)
  <2>1. UNCHANGED <<row, dropped>>
    BY <1>13 DEF Request
  <2>2. Head(k.todo) \notin {"load", "exchange"} /\ j.keep = k.keep
    BY <1>13, RequestMoves DEF DbSteps
  <2>. QED BY <1>3, <1>4, <2>1, <2>2
<1>. QED BY <1>5, <1>6, <1>7, <1>8, <1>9, <1>10, <1>11, <1>12, <1>13 DEF Acts

\* The holders stay alone.
LEMMA TokenNext ==
    ASSUME TypeOK, TodoInv, TokenInv, [Next]_vars
    PROVE TokenInv'
<1>1. \A d \in Call : calls[d] # None /\ HoldsToken(calls[d]) =>
         /\ calls[d].keep \in Issued \cup {Legacy}
         /\ calls[d].keep \in Issued => Alone(d)
  BY HolderIs DEF TokenInv
<1>2. ASSUME (row # None => row.token \notin dropped)',
             (row # None /\ row.plain => row.token = Legacy)',
             \A d \in Call : calls'[d] # None /\ HoldsToken(calls'[d]) =>
               /\ calls'[d].keep \in Issued \cup {Legacy}
               /\ calls'[d].keep \in Issued => Alone(d)'
      PROVE TokenInv'
  <2>1. \A d \in Call : Holder(d)' => calls'[d] # None /\ HoldsToken(calls'[d])
    BY DEF Holder, HoldsToken, At, Running, Step
  <2>. QED BY <1>2, <2>1 DEF TokenInv, DroppedTokenStaysGone
<1>3. ASSUME NEW c \in Call, NEW j, calls' = [calls EXCEPT ![c] = j],
             UNCHANGED <<row, dropped>>, j.keep \notin Issued,
             HoldsToken(j) => j.keep = Legacy
      PROVE TokenInv'
  <2>1. calls'[c] = j /\ \A d \in Call \ {c} : calls'[d] = calls[d]
    BY <1>3, Others
  <2>2. ASSUME NEW d \in Call, calls'[d] # None, HoldsToken(calls'[d])
        PROVE /\ calls'[d].keep \in Issued \cup {Legacy}
              /\ calls'[d].keep \in Issued => Alone(d)'
    <3>1. CASE d = c
      BY <1>3, <2>1, <2>2, <3>1
    <3>2. CASE d # c
      <4>1. calls'[d] = calls[d]
        BY <2>1, <3>2
      <4>2. calls[d].keep \in Issued \cup {Legacy} /\ (calls[d].keep \in Issued => Alone(d))
        BY <1>1, <2>2, <4>1
      <4>. QED BY <1>3, <2>1, <4>1, <4>2 DEF Alone
    <3>. QED BY <3>1, <3>2
  <2>3. (row # None => row.token \notin dropped)'
    BY <1>3 DEF TokenInv, DroppedTokenStaysGone
  <2>4. (row # None /\ row.plain => row.token = Legacy)'
    BY <1>3 DEF TokenInv
  <2>. QED BY <1>2, <2>2, <2>3, <2>4
<1>4. ASSUME NEW c \in Call, Begin(c) PROVE TokenInv'
  <2>1. PICK j : j = calls'[c]
    OBVIOUS
  <2>2. Begins(c, j)
    BY <1>4, <2>1, BeginMoves
  <2>3. ~HoldsToken(j)
    BY <2>2, FitsBegin DEF HoldsToken, Dependent
  <2>4. j.keep \notin Issued /\ calls' = [calls EXCEPT ![c] = j]
    BY <2>2, RemoteAssumption DEF Begins
  <2>5. UNCHANGED <<row, dropped>>
    BY <1>4 DEF Begin
  <2>. QED BY <1>3, <2>3, <2>4, <2>5
<1>5. ASSUME NEW c \in Call, Acts(c) PROVE TokenInv'
  <2>1. PICK k : k = calls[c]
    OBVIOUS
  <2>2. PICK j : j = calls'[c]
    OBVIOUS
  <2>3. k # None /\ calls' = [calls EXCEPT ![c] = j]
    BY <1>5, <2>1, <2>2, ActsMove, NoneAssumption DEF Moves
  <2>4. calls'[c] = j /\ \A d \in Call \ {c} : calls'[d] = calls[d]
    BY <2>3, Others
  <2>5. CASE Keeps(k, j)
    <3>1. ASSUME NEW d \in Call, calls'[d] # None, HoldsToken(calls'[d])
          PROVE /\ calls'[d].keep \in Issued \cup {Legacy}
                /\ calls'[d].keep \in Issued => Alone(d)'
      <4>1. calls[d] # None /\ HoldsToken(calls[d]) /\ calls'[d].keep = calls[d].keep
        BY <2>1, <2>3, <2>4, <2>5, <3>1 DEF Keeps
      <4>2. calls[d].keep \in Issued \cup {Legacy} /\ (calls[d].keep \in Issued => Alone(d))
        BY <1>1, <4>1
      <4>3. \A e \in Call : calls'[e] # None => calls[e] # None /\ calls'[e].keep = calls[e].keep
        BY <2>1, <2>3, <2>4, <2>5 DEF Keeps
      <4>. QED BY <2>5, <4>1, <4>2, <4>3 DEF Alone, Keeps
    <3>2. (row # None => row.token \notin dropped)'
      BY <2>5 DEF TokenInv, DroppedTokenStaysGone, Keeps
    <3>3. (row # None /\ row.plain => row.token = Legacy)'
      BY <2>5 DEF TokenInv, Keeps
    <3>. QED BY <1>2, <3>1, <3>2, <3>3
  <2>6. CASE GetsLegacy(j)
    BY <1>3, <2>3, <2>6, RemoteAssumption DEF GetsLegacy
  <2>7. CASE Gets(j)
    <3>1. /\ j.keep \in Issued /\ j.keep \notin dropped
          /\ row # None => row.token # j.keep
          /\ \A d \in Call : calls[d] # None => calls[d].keep # j.keep
      BY <2>7 DEF Gets, Given
    <3>2. ASSUME NEW d \in Call, calls'[d] # None, HoldsToken(calls'[d])
          PROVE /\ calls'[d].keep \in Issued \cup {Legacy}
                /\ calls'[d].keep \in Issued => Alone(d)'
      <4>1. CASE d = c
        BY <2>4, <2>7, <3>1, <4>1 DEF Alone, Gets
      <4>2. CASE d # c
        <5>1. calls'[d] = calls[d]
          BY <2>4, <4>2
        <5>2. calls[d].keep \in Issued \cup {Legacy} /\ (calls[d].keep \in Issued => Alone(d))
          BY <1>1, <3>2, <5>1
        <5>. QED BY <2>4, <2>7, <3>1, <3>2, <5>1, <5>2 DEF Alone, Gets
      <4>. QED BY <4>1, <4>2
    <3>3. (row # None => row.token \notin dropped)'
      BY <2>7 DEF TokenInv, DroppedTokenStaysGone, Gets
    <3>4. (row # None /\ row.plain => row.token = Legacy)'
      BY <2>7 DEF TokenInv, Gets
    <3>. QED BY <1>2, <3>2, <3>3, <3>4
  <2>8. ASSUME ~HoldsToken(j), j.keep = k.keep, NEW x, dropped' = dropped \cup DroppedBy(x),
               row' # None => row'.token = k.keep
        PROVE \A d \in Call : calls'[d] # None /\ HoldsToken(calls'[d]) =>
                /\ calls'[d].keep \in Issued \cup {Legacy}
                /\ calls'[d].keep \in Issued => Alone(d)'
    <3>. SUFFICES ASSUME NEW d \in Call, calls'[d] # None, HoldsToken(calls'[d])
                  PROVE /\ calls'[d].keep \in Issued \cup {Legacy}
                        /\ calls'[d].keep \in Issued => Alone(d)'
      OBVIOUS
    <3>1. d # c
      BY <2>4, <2>8
    <3>2. calls'[d] = calls[d]
      BY <2>4, <3>1
    <3>3. calls[d].keep \in Issued \cup {Legacy} /\ (calls[d].keep \in Issued => Alone(d))
      BY <1>1, <3>2
    <3>4. \A e \in Call : calls'[e] # None => calls[e] # None /\ calls'[e].keep = calls[e].keep
      BY <2>1, <2>3, <2>4, <2>8
    <3>5. ASSUME calls[d].keep \in Issued PROVE Alone(d)'
      <4>1. Alone(d)
        BY <3>3, <3>5
      <4>2. calls[d].keep \notin dropped'
        BY <2>8, <4>1 DEF Alone, DroppedBy
      <4>3. row' # None => row'.token # calls[d].keep
        <5>1. k.keep # calls[d].keep
          BY <2>1, <2>3, <3>1, <4>1 DEF Alone
        <5>. QED BY <2>8, <5>1
      <4>4. \A e \in Call \ {d} : calls'[e] # None => calls'[e].keep # calls[d].keep
        BY <3>4, <4>1 DEF Alone
      <4>. QED BY <3>2, <4>2, <4>3, <4>4 DEF Alone
    <3>. QED BY <3>2, <3>3, <3>5
  <2>9. CASE Stores(k, j)
    <3>1. HoldsToken(k) /\ k.keep \in Issued \cup {Legacy} /\ (k.keep \in Issued => Alone(c))
      BY <1>1, <2>1, <2>3, <2>9 DEF Stores
    <3>2. row' = [token |-> k.keep, plain |-> FALSE] /\ dropped' = dropped \cup DroppedBy(k.keep)
      BY <2>9 DEF Stores
    <3>3. k.keep \notin dropped'
      <4>1. k.keep \notin dropped
        BY <2>1, <3>1, RemoteAssumption DEF Alone, TypeOK
      <4>. QED BY <3>2, <4>1 DEF DroppedBy
    <3>4. row'.token = k.keep /\ row'.plain = FALSE
      BY <3>2
    <3>5. \A d \in Call : calls'[d] # None /\ HoldsToken(calls'[d]) =>
             /\ calls'[d].keep \in Issued \cup {Legacy}
             /\ calls'[d].keep \in Issued => Alone(d)'
      BY <2>8, <2>9, <3>4 DEF Stores
    <3>6. (row # None => row.token \notin dropped)'
      BY <3>3, <3>4
    <3>7. (row # None /\ row.plain => row.token = Legacy)'
      BY <3>4
    <3>. QED BY <1>2, <3>5, <3>6, <3>7
  <2>10. CASE Clears(k, j)
    <3>1. \A d \in Call : calls'[d] # None /\ HoldsToken(calls'[d]) =>
             /\ calls'[d].keep \in Issued \cup {Legacy}
             /\ calls'[d].keep \in Issued => Alone(d)'
      BY <2>8, <2>10 DEF Clears
    <3>2. (row # None => row.token \notin dropped)'
      BY <2>10 DEF Clears
    <3>3. (row # None /\ row.plain => row.token = Legacy)'
      BY <2>10 DEF Clears
    <3>. QED BY <1>2, <3>1, <3>2, <3>3
  <2>. QED BY <1>5, <2>1, <2>2, <2>5, <2>6, <2>7, <2>9, <2>10, TokenMoves
<1>6. CASE UNCHANGED <<calls, row, dropped>>
  BY <1>6 DEF TokenInv, DroppedTokenStaysGone, Holder, Alone, At, Running, Step
<1>7. Report \/ UNCHANGED vars => UNCHANGED <<calls, row, dropped>>
  BY DEF Report, vars
<1>. QED BY <1>4, <1>5, <1>6, <1>7, NextCases

-----------------------------------------------------------------------------
\* Theorems: the types and the user token

TokensInv == TypeOK /\ TodoInv /\ TokenInv

LEMMA TokensInit == ASSUME Init PROVE TokensInv
<1>1. calls = [c \in Call |-> None] /\ dropped = {}
  BY DEF Init
<1>2. row # None /\ row.plain => row.token = Legacy
  <2>1. row \in {None} \cup [token : {Legacy}, plain : {TRUE}]
                       \cup [token : Issued, plain : {FALSE}]
    BY DEF Init
  <2>. QED BY <2>1
<1>. QED BY <1>1, <1>2, TypeInit DEF TokensInv, TodoInv, TokenInv, DroppedTokenStaysGone,
         Holder, At, Running

LEMMA TokensNext == ASSUME TokensInv, [Next]_vars PROVE TokensInv'
BY TypeNext, TodoNext, TokenNext DEF TokensInv

LEMMA TokensAlways == Spec => []TokensInv
BY TokensInit, TokensNext, PTL DEF Spec

\* Everything has its type, whatever the calls, the servers and their faults.
THEOREM TypeCorrect == Spec => []TypeOK
<1>1. TokensInv => TypeOK
  BY DEF TokensInv
<1>. QED BY <1>1, TokensAlways, PTL

\* A user token that was cleared or replaced does not come back, whatever
\* readers of the row, exchanges and clearings overlap.
THEOREM TokenStaysGone == Spec => []DroppedTokenStaysGone
<1>1. TokensInv => DroppedTokenStaysGone
  BY DEF TokensInv, TokenInv
<1>. QED BY <1>1, TokensAlways, PTL

-----------------------------------------------------------------------------
\* The writes

\* How the awaits left change.
LEMMA Shorter ==
    ASSUME NEW c, NEW k, NEW j, Moves(c, k, j), NEW m, m = Len(k.todo)
    PROVE /\ m \in Nat \ {0} /\ DOMAIN k.todo = 1 .. m /\ Head(k.todo) = k.todo[1]
          /\ Forward(k, j) => /\ Len(j.todo) = m - 1 /\ DOMAIN j.todo = 1 .. (m - 1)
                              /\ \A i \in 1 .. (m - 1) : j.todo[i] = k.todo[i + 1]
          /\ Stopped(k, j) \/ Repeated(k, j) => j.todo = k.todo /\ ~Forward(k, j)
          /\ Migrated(k, j) => /\ DOMAIN j.todo = 1 .. (m + 1) /\ Len(j.todo) = m + 1
                               /\ k.todo[1] = "load" /\ ~Forward(k, j)
                               /\ \A i \in 3 .. (m + 1) : j.todo[i] = k.todo[i - 1]
          /\ Len(j.todo) \in Nat
<1>1. k.todo \in Seq(Steps) /\ k.todo # <<>> /\ j.todo \in Seq(Steps)
  BY DEF Moves, CallRecord
<1>2. /\ m \in Nat \ {0} /\ DOMAIN k.todo = 1 .. m /\ Head(k.todo) = k.todo[1]
      /\ Len(Tail(k.todo)) = m - 1 /\ DOMAIN Tail(k.todo) = 1 .. (m - 1)
      /\ \A i \in 1 .. (m - 1) : Tail(k.todo)[i] = k.todo[i + 1]
  BY <1>1, TailFacts
<1>3. Forward(k, j) => /\ Len(j.todo) = m - 1 /\ DOMAIN j.todo = 1 .. (m - 1)
                       /\ \A i \in 1 .. (m - 1) : j.todo[i] = k.todo[i + 1]
  BY <1>2 DEF Forward
<1>4. Stopped(k, j) \/ Repeated(k, j) => j.todo = k.todo /\ ~Forward(k, j)
  <2>1. j.todo = k.todo => Len(j.todo) # m - 1
    BY <1>2
  <2>. QED BY <1>3, <2>1 DEF Stopped, Repeated
<1>5. Migrated(k, j) => /\ DOMAIN j.todo = 1 .. (m + 1) /\ Len(j.todo) = m + 1
                        /\ k.todo[1] = "load" /\ ~Forward(k, j)
                        /\ \A i \in 3 .. (m + 1) : j.todo[i] = k.todo[i - 1]
  <2>. SUFFICES ASSUME Migrated(k, j)
                PROVE /\ DOMAIN j.todo = 1 .. (m + 1) /\ Len(j.todo) = m + 1
                      /\ k.todo[1] = "load" /\ ~Forward(k, j)
                      /\ \A i \in 3 .. (m + 1) : j.todo[i] = k.todo[i - 1]
    OBVIOUS
  <2>1. PICK t : t = <<"store_get", "store_put">> \o Tail(k.todo)
    OBVIOUS
  <2>2. j.todo = t /\ Head(k.todo) = "load"
    BY <2>1 DEF Migrated
  <2>3. /\ DOMAIN t = 1 .. (m + 1) /\ Len(t) = m + 1
        /\ \A i \in 3 .. (m + 1) : t[i] = k.todo[i - 1]
    BY <1>1, <2>1, StoringFacts
  <2>4. Len(j.todo) # m - 1
    BY <1>2, <2>2, <2>3
  <2>. QED BY <1>2, <1>3, <2>2, <2>3, <2>4
<1>6. Len(j.todo) \in Nat
  BY <1>1
<1>. QED BY <1>2, <1>3, <1>4, <1>5, <1>6

\* the effect of a write
Adds(c, k, e) ==
    /\ Request(c) /\ Admits(c, Head(k.todo)) /\ Head(k.todo) \in WriteSteps
    /\ effects' = effects \cup {e}
    /\ e.call = c /\ e.left = Len(k.todo)
    /\ e.n = Cardinality({f \in effects : f.call = c /\ f.left = Len(k.todo)}) + 1
    /\ e.page = IF Head(k.todo) \in {"post", "object_post"} THEN Target(k) ELSE None

LEMMA EffectMoves ==
    ASSUME TypeOK, NEW c \in Call, Acts(c), NEW k, k = calls[c]
    PROVE effects' = effects \/ \E e : Adds(c, k, e)
<1>1. CASE Request(c)
  <2>1. Step(c) = Head(k.todo) /\ Left(c) = Len(k.todo)
    BY DEF Step, Left
  <2>2. effects' = effects \/ (Admits(c, Head(k.todo)) /\ Served(c, Head(k.todo)))
    <3>1. PICK j : j = calls'[c]
      OBVIOUS
    <3>2. PICK answer \in Answers, done \in BOOLEAN : Requested(c, k, j, answer, done)
      BY <1>1, <3>1, RequestMoves
    <3>3. done => Admits(c, Head(k.todo)) /\ Served(c, Head(k.todo))
      BY <3>2 DEF Requested
    <3>4. ~done => effects' = effects
      BY <3>2 DEF Requested
    <3>. QED BY <3>3, <3>4
  <2>3. ASSUME Admits(c, Head(k.todo)), Served(c, Head(k.todo)), Head(k.todo) \in WriteSteps
        PROVE \E e : Adds(c, k, e)
    <3>1. PICK n : n = Cardinality({f \in effects : f.call = c /\ f.left = Len(k.todo)}) + 1
      OBVIOUS
    <3>2. PICK p : p = IF Head(k.todo) \in {"post", "object_post"} THEN Target(k) ELSE None
      OBVIOUS
    <3>3. PICK e : e = [call |-> c, left |-> Len(k.todo), n |-> n, page |-> p]
      OBVIOUS
    <3>4. effects' = effects \cup {e}
      BY <2>1, <2>3, <3>1, <3>2, <3>3 DEF Served
    <3>5. e.call = c /\ e.left = Len(k.todo) /\ e.n = n /\ e.page = p
      BY <3>3
    <3>. QED BY <1>1, <2>3, <3>1, <3>2, <3>4, <3>5 DEF Adds
  <2>4. ASSUME Served(c, Head(k.todo)), Head(k.todo) \notin WriteSteps
        PROVE effects' = effects
    BY <2>4 DEF Served
  <2>. QED BY <2>2, <2>3, <2>4
<1>2. ~Request(c) => effects' = effects
  BY DEF Acts, Load, Exchange, StoreGet, StorePut, ClearGet, ClearPut, ResolvePage,
         ResolvePostPage
<1>. QED BY <1>1, <1>2

LEMMA NewEffects ==
    ASSUME TypeOK, NEW c \in Call, Acts(c), NEW k, k = calls[c]
    PROVE effects \subseteq effects' /\ \A e \in effects' \ effects : Adds(c, k, e)
<1>1. CASE effects' = effects
  BY <1>1
<1>2. ASSUME NEW f, Adds(c, k, f)
      PROVE effects \subseteq effects' /\ \A e \in effects' \ effects : Adds(c, k, e)
  <2>1. effects' = effects \cup {f}
    BY <1>2 DEF Adds
  <2>. QED BY <1>2, <2>1
<1>. QED BY <1>1, <1>2, EffectMoves

NoLook(s) == \A i \in DOMAIN s : s[i] \notin {"load", "pages"}

Behind(e) ==
    /\ e.call \in Call /\ calls[e.call] # None
    /\ e.left \in Nat /\ e.left >= Len(calls[e.call].todo)
    /\ NoLook(calls[e.call].todo)

LEMMA DoneIs == DoneInv <=> IsFiniteSet(effects) /\ \A e \in effects : Behind(e)
BY DEF DoneInv, Behind, NoLook, Left

\* After a write nothing is looked for, and once nothing is, nothing will be.
LEMMA NoLookMove ==
    ASSUME NEW c, NEW k, NEW j, Moves(c, k, j), Fits(k),
           NoLook(k.todo) \/ Head(k.todo) \in WriteSteps
    PROVE /\ NoLook(j.todo) /\ ~Migrated(k, j)
          /\ \A n \in Nat : n >= Len(k.todo) => n >= Len(j.todo)
          /\ Forward(k, j) => \A n \in Nat : n >= Len(k.todo) => n # Len(j.todo)
<1>1. PICK m : m = Len(k.todo)
  OBVIOUS
<1>2. /\ m \in Nat \ {0} /\ DOMAIN k.todo = 1 .. m /\ Head(k.todo) = k.todo[1]
      /\ Forward(k, j) => /\ Len(j.todo) = m - 1 /\ DOMAIN j.todo = 1 .. (m - 1)
                          /\ \A i \in 1 .. (m - 1) : j.todo[i] = k.todo[i + 1]
      /\ Stopped(k, j) \/ Repeated(k, j) => j.todo = k.todo
      /\ Migrated(k, j) => k.todo[1] = "load"
  BY <1>1, Shorter
<1>3. NoLook(k.todo)
  <2>1. CASE Head(k.todo) \in WriteSteps
    <3>1. \A i \in DOMAIN k.todo : i > 1 => k.todo[i] \notin {"load", "pages"}
      BY <1>2, <2>1 DEF Fits, InOrder
    <3>2. k.todo[1] \notin {"load", "pages"}
      BY <1>2, <2>1 DEF WriteSteps, FileSteps
    <3>. QED BY <1>2, <3>1, <3>2 DEF NoLook
  <2>. QED BY <2>1
<1>4. ~Migrated(k, j)
  BY <1>2, <1>3 DEF NoLook
<1>5. CASE Forward(k, j)
  <2>1. NoLook(j.todo)
    <3>. SUFFICES ASSUME NEW i \in DOMAIN j.todo PROVE j.todo[i] \notin {"load", "pages"}
      BY DEF NoLook
    <3>1. i + 1 \in DOMAIN k.todo /\ j.todo[i] = k.todo[i + 1]
      BY <1>2, <1>5
    <3>. QED BY <1>3, <3>1 DEF NoLook
  <2>2. \A n \in Nat : n >= m => n >= m - 1 /\ n # m - 1
    BY <1>2
  <2>. QED BY <1>1, <1>2, <1>4, <1>5, <2>1, <2>2
<1>6. CASE Stopped(k, j) \/ Repeated(k, j)
  <2>1. j.todo = k.todo /\ ~Forward(k, j)
    BY <1>1, <1>6, Shorter
  <2>. QED BY <1>3, <1>4, <2>1
<1>. QED BY <1>4, <1>5, <1>6 DEF Moves

LEMMA DoneNext ==
    ASSUME TypeOK, TodoInv, DoneInv, [Next]_vars
    PROVE DoneInv'
<1>1. IsFiniteSet(effects) /\ \A e \in effects : Behind(e)
  BY DoneIs
<1>2. ASSUME IsFiniteSet(effects'), \A e \in effects' : Behind(e)'
      PROVE DoneInv'
  BY <1>2 DEF DoneInv, Behind, NoLook, Left
<1>3. ASSUME NEW c \in Call, Begin(c) PROVE DoneInv'
  <2>1. PICK j : j = calls'[c]
    OBVIOUS
  <2>2. calls[c] = None /\ calls' = [calls EXCEPT ![c] = j]
    BY <1>3, <2>1, BeginMoves DEF Begins
  <2>3. effects' = effects
    BY <1>3 DEF Begin
  <2>4. \A d \in Call \ {c} : calls'[d] = calls[d]
    BY <2>2, Others
  <2>5. ASSUME NEW e \in effects PROVE Behind(e)'
    <3>1. e.call \in Call \ {c} /\ calls'[e.call] = calls[e.call]
      BY <1>1, <2>2, <2>4 DEF Behind
    <3>. QED BY <1>1, <3>1 DEF Behind
  <2>. QED BY <1>1, <1>2, <2>3, <2>5
<1>4. ASSUME NEW c \in Call, Acts(c) PROVE DoneInv'
  <2>1. PICK k : k = calls[c]
    OBVIOUS
  <2>2. PICK j : j = calls'[c]
    OBVIOUS
  <2>3. Moves(c, k, j)
    BY <1>4, <2>1, <2>2, ActsMove
  <2>4. k # None /\ j # None /\ calls' = [calls EXCEPT ![c] = j]
    BY <2>3, NoneAssumption DEF Moves
  <2>5. calls'[c] = j /\ \A d \in Call \ {c} : calls'[d] = calls[d]
    BY <2>4, Others
  <2>6. Fits(k)
    BY <2>1, <2>4, TodoFits
  <2>7. ASSUME NEW e \in effects PROVE Behind(e)'
    <3>1. Behind(e)
      BY <1>1
    <3>2. CASE e.call = c
      <4>1. e.left \in Nat /\ e.left >= Len(k.todo) /\ NoLook(k.todo)
        BY <2>1, <3>1, <3>2 DEF Behind
      <4>2. e.left >= Len(j.todo) /\ NoLook(j.todo)
        BY <2>3, <2>6, <4>1, NoLookMove
      <4>. QED BY <2>4, <2>5, <3>2, <4>1, <4>2 DEF Behind
    <3>3. CASE e.call # c
      <4>1. calls'[e.call] = calls[e.call]
        BY <2>5, <3>1, <3>3 DEF Behind
      <4>. QED BY <3>1, <4>1 DEF Behind
    <3>. QED BY <3>2, <3>3
  <2>8. CASE effects' = effects
    BY <1>1, <1>2, <2>7, <2>8
  <2>9. ASSUME NEW e, Adds(c, k, e) PROVE DoneInv'
    <3>1. effects' = effects \cup {e} /\ e.call = c /\ e.left = Len(k.todo)
      BY <2>9 DEF Adds
    <3>2. IsFiniteSet(effects')
      BY <1>1, <3>1, FS_AddElement
    <3>3. Len(k.todo) \in Nat /\ Len(k.todo) >= Len(k.todo)
      <4>1. \A m : m = Len(k.todo) => m \in Nat
        BY <2>3, Shorter
      <4>2. \A m \in Nat : m >= m
        OBVIOUS
      <4>. QED BY <4>1, <4>2
    <3>4. e.left >= Len(j.todo) /\ NoLook(j.todo)
      BY <2>3, <2>6, <2>9, <3>1, <3>3, NoLookMove DEF Adds
    <3>5. Behind(e)'
      BY <2>4, <2>5, <3>1, <3>3, <3>4 DEF Behind
    <3>. QED BY <1>2, <2>7, <3>1, <3>2, <3>5
  <2>. QED BY <1>4, <2>1, <2>8, <2>9, EffectMoves
<1>5. CASE UNCHANGED <<calls, effects>>
  BY <1>5 DEF DoneInv, Left
<1>6. Report \/ UNCHANGED vars => UNCHANGED <<calls, effects>>
  BY DEF Report, vars
<1>. QED BY <1>3, <1>4, <1>5, <1>6, NextCases

\* Only the Facebook client sends again after a server error.
LEMMA RetriesIs ==
    ASSUME NEW tool, NEW step, Suits(step, tool), step \notin DbSteps \cup {"exchange"},
           NEW answer \in Retries(tool), answer # "too_many"
    PROVE answer = "server_error" /\ ServiceOf(tool) = "facebook"
<1>1. ServiceOf(tool) \in {"facebook", "telegram", "nextcloud", "dolibarr", "home_assistant"}
  BY DEF Suits, RetriesOf
<1>2. answer \in RetriesOf[ServiceOf(tool)]
  BY DEF Retries
<1>3. /\ RetriesOf["facebook"] = {"too_many", "server_error"}
      /\ RetriesOf["telegram"] = {"too_many"} /\ RetriesOf["nextcloud"] = {}
      /\ RetriesOf["dolibarr"] = {} /\ RetriesOf["home_assistant"] = {}
  BY DEF RetriesOf, FacebookRetries, TelegramRetries, NextcloudRetries, DolibarrRetries,
         HomeAssistantRetries
<1>. QED BY <1>1, <1>2, <1>3

\* A step leaves what was written a second time so.
LEMMA RetriedStays ==
    ASSUME TypeOK, NEW c \in Call, NEW k, k = calls[c], NEW j, Moves(c, k, j),
           k.resent \subseteq j.resent, NEW e, e.call \in Call, Retried(e)
    PROVE Retried(e)'
<1>1. calls'[c] = j /\ j.tool = k.tool /\ \A d \in Call \ {c} : calls'[d] = calls[d]
  BY Others DEF Moves
<1>2. CASE e.call = c
  BY <1>1, <1>2 DEF Retried
<1>3. CASE e.call # c
  BY <1>1, <1>3 DEF Retried
<1>. QED BY <1>2, <1>3

LEMMA ResentGrows ==
    ASSUME TypeOK, TodoInv, NEW c \in Call, Acts(c), NEW k, k = calls[c],
           NEW j, j = calls'[c]
    PROVE k.resent \subseteq j.resent
<1>1. CASE Request(c)
  <2>1. PICK answer \in Answers, done \in BOOLEAN : Requested(c, k, j, answer, done)
    BY <1>1, RequestMoves
  <2>. QED BY <2>1 DEF Requested
<1>2. CASE ResolvePage(c)
  BY <1>2, ResolvePageMoves
<1>3. CASE ~Request(c) /\ ~ResolvePage(c)
  <2>1. Sticks(k, j)
    BY <1>3, LoadMoves, ExchangeMoves, StoreGetMoves, StorePutMoves, ClearGetMoves,
       ClearPutMoves, ResolvePostPageMoves DEF Acts
  <2>. QED BY <2>1 DEF Sticks
<1>. QED BY <1>1, <1>2, <1>3

\* What was written twice was sent again.
LEMMA TwiceNext ==
    ASSUME TypeOK, TodoInv, DoneInv, OnceInv, NEW c \in Call, Acts(c),
           NEW e \in effects', e.n > 1
    PROVE e.n = 2 /\ Retried(e)'
<1>1. PICK k : k = calls[c]
  OBVIOUS
<1>2. PICK j : j = calls'[c]
  OBVIOUS
<1>3. Moves(c, k, j) /\ k.resent \subseteq j.resent
  BY <1>1, <1>2, ActsMove, ResentGrows
<1>4. ASSUME e \in effects PROVE e.n = 2 /\ Retried(e)'
  <2>1. e.n = 2 /\ Retried(e) /\ e.call \in Call
    BY <1>4 DEF OnceInv, DoneInv
  <2>. QED BY <1>1, <1>3, <2>1, RetriedStays
<1>5. ASSUME e \notin effects PROVE e.n = 2 /\ Retried(e)'
  <2>1. Adds(c, k, e)
    BY <1>1, <1>5, NewEffects
  <2>2. Here(c) = {f \in effects : f.call = c /\ f.left = Len(k.todo)}
    BY <1>1 DEF Here, Left
  <2>3. e.n = Cardinality(Here(c)) + 1 /\ e.call = c /\ e.left = Len(k.todo)
    BY <2>1, <2>2 DEF Adds
  <2>4. Running(c)
    BY <2>1 DEF Adds, Request
  <2>5. Here(c) # {}
    <3>1. ASSUME Here(c) = {} PROVE FALSE
      <4>1. Cardinality(Here(c)) = 0
        BY <3>1, FS_EmptySet
      <4>. QED BY <2>3, <4>1
    <3>. QED BY <3>1
  <2>6. PICK f \in Here(c) : Here(c) = {f} /\ Retried(f)
    BY <2>4, <2>5 DEF OnceInv
  <2>7. Cardinality(Here(c)) = 1
    BY <2>6, FS_Singleton
  <2>8. e.n = 2
    BY <2>3, <2>7
  <2>9. Retried(e)
    <3>1. f.call = c /\ f.left = Len(k.todo)
      BY <2>2, <2>6
    <3>. QED BY <2>3, <2>6, <3>1 DEF Retried
  <2>10. Retried(e)'
    BY <1>1, <1>3, <2>3, <2>9, RetriedStays
  <2>. QED BY <2>8, <2>10
<1>. QED BY <1>4, <1>5

\* A step that is tried again was answered by a server error, if it was done.
LEMMA HereNext ==
    ASSUME TypeOK, TodoInv, DoneInv, OnceInv, NEW c \in Call, Acts(c), Running(c)',
           NEW e \in effects', e.call = c, e.left = Len(calls'[c].todo)
    PROVE /\ e.n = 1 /\ calls'[c].again /\ Retried(e)'
          /\ \A f \in effects' : f.call = c /\ f.left = e.left => f = e
<1>1. PICK k : k = calls[c]
  OBVIOUS
<1>2. PICK j : j = calls'[c]
  OBVIOUS
<1>3. Moves(c, k, j)
  BY <1>1, <1>2, ActsMove
<1>4. Fits(k) /\ calls'[c] = j /\ k # None
  BY <1>1, <1>2, <1>3, TodoFits, NoneAssumption DEF Moves
<1>5. e.left \in Nat /\ e.left >= Len(k.todo) /\ (NoLook(k.todo) \/ Head(k.todo) \in WriteSteps)
  <2>1. CASE e \in effects
    <3>1. Behind(e)
      BY <2>1, DoneIs
    <3>. QED BY <1>1, <3>1 DEF Behind
  <2>2. CASE e \notin effects
    <3>1. Adds(c, k, e)
      BY <1>1, <2>2, NewEffects
    <3>2. \A m : m = Len(k.todo) => m \in Nat
      BY <1>3, Shorter
    <3>3. \A m \in Nat : m >= m
      OBVIOUS
    <3>. QED BY <3>1, <3>2, <3>3 DEF Adds
  <2>. QED BY <2>1, <2>2
<1>6. ~Migrated(k, j) /\ ~Forward(k, j)
  BY <1>2, <1>3, <1>4, <1>5, NoLookMove
<1>7. ~Stopped(k, j)
  BY <1>4, NoneAssumption DEF Running, Stopped
<1>8. Repeated(k, j)
  BY <1>3, <1>6, <1>7 DEF Moves
<1>9. Request(c)
  BY <1>1, <1>2, <1>6, <1>7, LoadMoves, ExchangeMoves, StoreGetMoves, StorePutMoves,
     ClearGetMoves, ClearPutMoves, ResolvePageMoves, ResolvePostPageMoves DEF Acts, Fails
<1>10. PICK answer \in Answers, done \in BOOLEAN : Requested(c, k, j, answer, done)
  BY <1>1, <1>2, <1>9, RequestMoves
<1>11. /\ Again(c, answer)
       /\ j.resent = IF answer = "server_error" THEN k.resent \cup {Len(k.todo)}
                     ELSE k.resent
  BY <1>6, <1>7, <1>10 DEF Requested, Fails
<1>12. Here(c) = {}
  <2>1. ~k.again /\ Running(c)
    BY <1>1, <1>9, <1>11 DEF Again, Request
  <2>. QED BY <1>1, <2>1 DEF OnceInv
<1>13. \A f \in effects : ~(f.call = c /\ f.left = Len(k.todo))
  BY <1>1, <1>12 DEF Here, Left
<1>14. j.todo = k.todo
  BY <1>8 DEF Repeated
<1>15. e \notin effects
  BY <1>4, <1>13, <1>14
<1>16. Adds(c, k, e) /\ effects' = effects \cup {e}
  <2>1. Adds(c, k, e)
    BY <1>1, <1>15, NewEffects
  <2>. QED BY <2>1 DEF Adds
<1>17. e.n = 1
  <2>1. Here(c) = {f \in effects : f.call = c /\ f.left = Len(k.todo)}
    BY <1>1 DEF Here, Left
  <2>2. Cardinality(Here(c)) = 0
    BY <1>12, FS_EmptySet
  <2>3. e.n = Cardinality(Here(c)) + 1
    BY <1>16, <2>1 DEF Adds
  <2>. QED BY <2>2, <2>3
<1>18. answer = "server_error" /\ ServiceOf(k.tool) = "facebook"
  <2>1. done
    <3>1. ~done => effects' = effects
      BY <1>10 DEF Requested
    <3>. QED BY <1>15, <3>1
  <2>2. answer # "too_many"
    BY <1>10, <2>1 DEF Requested
  <2>3. answer \in Retries(k.tool)
    BY <1>1, <1>11 DEF Again
  <2>4. Suits(Head(k.todo), k.tool)
    <3>1. k.todo \in Seq(Steps) /\ k.todo # <<>>
      BY <1>3 DEF Moves, CallRecord
    <3>2. 1 \in DOMAIN k.todo /\ Head(k.todo) = k.todo[1]
      BY <3>1
    <3>. QED BY <1>4, <3>2 DEF Fits
  <2>5. Head(k.todo) \notin DbSteps \cup {"exchange"}
    BY <1>1, <1>2, <1>9, RequestMoves
  <2>. QED BY <2>2, <2>3, <2>4, <2>5, RetriesIs
<1>19. Retried(e)'
  <2>1. e.left \in j.resent
    BY <1>4, <1>11, <1>14, <1>18
  <2>2. j.tool = k.tool
    BY <1>3 DEF Moves
  <2>. QED BY <1>4, <1>18, <2>1, <2>2 DEF Retried
<1>20. calls'[c].again
  BY <1>4, <1>8 DEF Repeated
<1>. QED BY <1>4, <1>13, <1>14, <1>16, <1>17, <1>19, <1>20

LEMMA OnceNext ==
    ASSUME TypeOK, TodoInv, DoneInv, OnceInv, [Next]_vars
    PROVE OnceInv'
<1>1. ASSUME NEW c \in Call, Acts(c) PROVE OnceInv'
  <2>1. PICK k : k = calls[c]
    OBVIOUS
  <2>2. PICK j : j = calls'[c]
    OBVIOUS
  <2>3. Moves(c, k, j)
    BY <1>1, <2>1, <2>2, ActsMove
  <2>4. \A d \in Call \ {c} : calls'[d] = calls[d]
    BY <2>3, Others DEF Moves
  <2>5. ASSUME NEW d \in Call, Running(d)', NEW e \in Here(d)'
        PROVE (e.n = 1 /\ calls[d].again /\ Retried(e) /\ Here(d) = {e})'
    <3>1. e \in effects' /\ e.call = d /\ e.left = Len(calls'[d].todo)
      BY <2>5 DEF Here, Left
    <3>2. CASE d = c
      <4>1. /\ e.n = 1 /\ calls'[c].again /\ Retried(e)'
            /\ \A f \in effects' : f.call = c /\ f.left = e.left => f = e
        BY <1>1, <2>5, <3>1, <3>2, HereNext
      <4>2. Here(d)' = {e}
        BY <2>5, <3>1, <3>2, <4>1 DEF Here, Left
      <4>. QED BY <3>2, <4>1, <4>2
    <3>3. CASE d # c
      <4>1. calls'[d] = calls[d]
        BY <2>4, <3>3
      <4>2. \A f \in effects' : f.call = d => f \in effects
        <5>1. \A f \in effects' \ effects : Adds(c, k, f)
          BY <1>1, <2>1, NewEffects
        <5>. QED BY <3>3, <5>1 DEF Adds
      <4>3. effects \subseteq effects'
        BY <1>1, <2>1, NewEffects
      <4>4. Here(d)' = Here(d)
        BY <4>1, <4>2, <4>3 DEF Here, Left
      <4>5. Running(d)
        BY <2>5, <4>1 DEF Running
      <4>6. e.n = 1 /\ calls[d].again /\ Retried(e) /\ Here(d) = {e}
        BY <2>5, <4>4, <4>5 DEF OnceInv
      <4>7. Retried(e)'
        BY <3>1, <4>1, <4>6 DEF Retried
      <4>. QED BY <4>1, <4>4, <4>6, <4>7
    <3>. QED BY <3>2, <3>3
  <2>6. \A e \in effects' : e.n > 1 => e.n = 2 /\ Retried(e)'
    BY <1>1, TwiceNext
  <2>. QED BY <2>5, <2>6 DEF OnceInv
<1>2. ASSUME NEW c \in Call, Begin(c) PROVE OnceInv'
  <2>1. PICK j : j = calls'[c]
    OBVIOUS
  <2>2. calls[c] = None /\ calls' = [calls EXCEPT ![c] = j]
    BY <1>2, <2>1, BeginMoves DEF Begins
  <2>3. effects' = effects
    BY <1>2 DEF Begin
  <2>4. \A d \in Call \ {c} : calls'[d] = calls[d]
    BY <2>2, Others
  <2>5. \A e \in effects : e.call \in Call \ {c}
    BY <2>2 DEF DoneInv
  <2>6. \A e \in effects : Retried(e)' <=> Retried(e)
    BY <2>4, <2>5 DEF Retried
  <2>7. \A e \in effects' : e.n > 1 => e.n = 2 /\ Retried(e)'
    BY <2>3, <2>6 DEF OnceInv
  <2>8. ASSUME NEW d \in Call, Running(d)', NEW e \in Here(d)'
        PROVE (e.n = 1 /\ calls[d].again /\ Retried(e) /\ Here(d) = {e})'
    <3>1. e \in effects /\ e.call = d /\ d # c
      BY <2>3, <2>5, <2>8 DEF Here
    <3>2. calls'[d] = calls[d]
      BY <2>4, <3>1
    <3>3. Here(d)' = Here(d)
      BY <2>3, <3>2 DEF Here, Left
    <3>4. Running(d)
      BY <2>8, <3>2 DEF Running
    <3>5. e.n = 1 /\ calls[d].again /\ Retried(e) /\ Here(d) = {e}
      BY <2>8, <3>3, <3>4 DEF OnceInv
    <3>. QED BY <2>6, <3>1, <3>2, <3>3, <3>5
  <2>. QED BY <2>7, <2>8 DEF OnceInv
<1>3. CASE UNCHANGED <<calls, effects>>
  BY <1>3 DEF OnceInv, Here, Left, Running, Retried
<1>4. Report \/ UNCHANGED vars => UNCHANGED <<calls, effects>>
  BY DEF Report, vars
<1>. QED BY <1>1, <1>2, <1>3, <1>4, NextCases

Writes == WriteSteps \ {"ensure"}

\* A write of the plan that is passed was done.
LEMMA PassedIsDone ==
    ASSUME TypeOK, TodoInv, NEW c \in Call, Acts(c), NEW k, k = calls[c],
           NEW j, j = calls'[c], Forward(k, j), Head(k.todo) \in Writes
    PROVE \E e \in effects' : e.call = c /\ e.left = Len(k.todo)
<1>1. Moves(c, k, j)
  BY ActsMove
<1>2. ~Repeated(k, j) /\ ~Stopped(k, j)
  <2>1. \A m : m = Len(k.todo) => (Stopped(k, j) \/ Repeated(k, j) => ~Forward(k, j))
    BY <1>1, Shorter
  <2>. QED BY <2>1
<1>3. Head(k.todo) \notin DbSteps \cup PageSteps \cup {"exchange", "probe", "absent", "ensure"}
  BY DEF Writes, WriteSteps, FileSteps, DbSteps, PageSteps
<1>4. Request(c)
  BY <1>3, LoadMoves, ExchangeMoves, StoreGetMoves, StorePutMoves, ClearGetMoves,
     ClearPutMoves, ResolvePageMoves, ResolvePostPageMoves DEF Acts, DbSteps, PageSteps
<1>5. PICK answer \in Answers, done \in BOOLEAN : Requested(c, k, j, answer, done)
  BY <1>4, RequestMoves
<1>6. Continues(Head(k.todo), answer)
  BY <1>2, <1>5 DEF Requested, Fails
<1>7. answer = "ok"
  BY <1>3, <1>6 DEF Continues, Tolerates
<1>8. Served(c, Head(k.todo))
  BY <1>5, <1>7 DEF Requested
<1>9. Head(k.todo) \in WriteSteps /\ Left(c) = Len(k.todo)
  BY DEF Writes, Left
<1>10. PICK n : n = Cardinality({e \in effects : e.call = c /\ e.left = Left(c)}) + 1
  OBVIOUS
<1>11. PICK p : p = IF Head(k.todo) \in {"post", "object_post"} THEN Target(k) ELSE None
  OBVIOUS
<1>12. PICK e : e = [call |-> c, left |-> Len(k.todo), n |-> n, page |-> p]
  OBVIOUS
<1>13. effects' = effects \cup {e}
  BY <1>8, <1>9, <1>10, <1>11, <1>12 DEF Served
<1>. QED BY <1>12, <1>13

\* what is ahead in the awaits s of what is in the plan
AheadIn(s, plan, n) == n \in DOMAIN s /\ Back(s, n) = Back(plan, n)

LEMMA AheadMove ==
    ASSUME NEW c, NEW k, NEW j, Moves(c, k, j), NEW plan, NEW n,
           AheadIn(k.todo, plan, n), Back(plan, n) \in Writes
    PROVE \/ AheadIn(j.todo, plan, n)
          \/ Forward(k, j) /\ n = Len(k.todo) /\ Head(k.todo) \in Writes
<1>1. PICK m : m = Len(k.todo)
  OBVIOUS
<1>2. PICK s : s = k.todo
  OBVIOUS
<1>3. PICK t : t = j.todo
  OBVIOUS
<1>4. /\ m \in Nat \ {0} /\ DOMAIN s = 1 .. m /\ Head(k.todo) = s[1] /\ Len(s) = m
      /\ Forward(k, j) => /\ Len(t) = m - 1 /\ DOMAIN t = 1 .. (m - 1)
                          /\ \A i \in 1 .. (m - 1) : t[i] = s[i + 1]
      /\ Stopped(k, j) \/ Repeated(k, j) => t = s
      /\ Migrated(k, j) => /\ DOMAIN t = 1 .. (m + 1) /\ Len(t) = m + 1 /\ s[1] = "load"
                           /\ \A i \in 3 .. (m + 1) : t[i] = s[i - 1]
  BY <1>1, <1>2, <1>3, Shorter
<1>5. n \in 1 .. m /\ s[m + 1 - n] = Back(plan, n)
  BY <1>2, <1>4 DEF AheadIn, Back
<1>6. CASE Stopped(k, j) \/ Repeated(k, j)
  BY <1>2, <1>3, <1>4, <1>6
<1>7. CASE Forward(k, j) /\ n < m
  <2>1. n \in 1 .. (m - 1) /\ (m - 1) + 1 - n \in 1 .. (m - 1)
        /\ ((m - 1) + 1 - n) + 1 = m + 1 - n
    BY <1>4, <1>5, <1>7
  <2>2. n \in DOMAIN t /\ t[(m - 1) + 1 - n] = s[m + 1 - n]
    BY <1>4, <1>7, <2>1
  <2>3. Back(t, n) = t[(m - 1) + 1 - n]
    BY <1>4, <1>7 DEF Back
  <2>. QED BY <1>3, <1>5, <2>2, <2>3 DEF AheadIn
<1>8. CASE n = m
  <2>1. m + 1 - n = 1
    BY <1>4, <1>8
  <2>2. s[1] = Back(plan, n)
    BY <1>5, <2>1
  <2>3. Head(k.todo) \in Writes /\ ~Migrated(k, j)
    BY <1>4, <2>2 DEF Writes, WriteSteps, FileSteps
  <2>. QED BY <1>1, <1>6, <1>8, <2>3 DEF Moves
<1>9. CASE Migrated(k, j) /\ n < m
  <2>1. n \in 1 .. (m + 1) /\ (m + 1) + 1 - n \in 3 .. (m + 1)
        /\ ((m + 1) + 1 - n) - 1 = m + 1 - n
    BY <1>4, <1>5, <1>9
  <2>2. n \in DOMAIN t /\ t[(m + 1) + 1 - n] = s[m + 1 - n]
    BY <1>4, <1>9, <2>1
  <2>3. Back(t, n) = t[(m + 1) + 1 - n]
    BY <1>4, <1>9 DEF Back
  <2>. QED BY <1>3, <1>5, <2>2, <2>3 DEF AheadIn
<1>10. n < m \/ n = m
  BY <1>4, <1>5
<1>. QED BY <1>6, <1>7, <1>8, <1>9, <1>10 DEF Moves

\* A call that answers success has no write ahead.
LEMMA OkMove ==
    ASSUME TypeOK, TodoInv, NEW c \in Call, Acts(c), NEW k, k = calls[c],
           NEW j, j = calls'[c], j.outcome = "ok"
    PROVE \A i \in DOMAIN j.todo : j.todo[i] \notin WriteSteps
<1>1. Moves(c, k, j)
  BY ActsMove
<1>2. Fits(k)
  BY <1>1, TodoFits, NoneAssumption DEF Moves
<1>3. ~Repeated(k, j) /\ ~Migrated(k, j) /\ ~Fails(k, j)
  BY NoneAssumption DEF Repeated, Migrated, Fails
<1>4. CASE Forward(k, j)
  <2>1. j.todo = <<>>
    BY <1>4, NoneAssumption DEF Forward
  <2>. QED BY <2>1
<1>5. CASE Stopped(k, j)
  <2>1. j.todo = k.todo /\ ~Forward(k, j)
    <3>1. \A m : m = Len(k.todo) => (Stopped(k, j) => ~Forward(k, j))
      BY <1>1, Shorter
    <3>. QED BY <1>5, <3>1 DEF Stopped
  <2>2. ~Request(c)
    <3>1. ASSUME Request(c) PROVE FALSE
      <4>1. PICK answer \in Answers, done \in BOOLEAN : Requested(c, k, j, answer, done)
        BY <3>1, RequestMoves
      <4>. QED BY <1>3, <2>1, <4>1 DEF Requested
    <3>. QED BY <3>1
  <2>3. ClearGet(c)
    BY <1>3, <2>1, <2>2, LoadMoves, ExchangeMoves, StoreGetMoves, StorePutMoves,
       ClearPutMoves, ResolvePageMoves, ResolvePostPageMoves DEF Acts
  <2>4. Head(k.todo) = "clear_get"
    BY <2>3, ClearGetMoves
  <2>5. PICK m : m = Len(k.todo)
    OBVIOUS
  <2>6. m \in Nat \ {0} /\ DOMAIN k.todo = 1 .. m /\ k.todo[1] = "clear_get"
    BY <1>1, <2>4, <2>5, Shorter
  <2>7. \A i \in DOMAIN k.todo : i > 1 => k.todo[i] \notin WriteSteps
    BY <1>2, <2>6 DEF Fits, InOrder
  <2>8. k.todo[1] \notin WriteSteps
    BY <2>6 DEF WriteSteps, FileSteps
  <2>. QED BY <2>1, <2>6, <2>7, <2>8
<1>. QED BY <1>1, <1>3, <1>4, <1>5 DEF Moves

Written(c, k, es) ==
    /\ \A n \in DOMAIN Plan[k.tool] : Back(Plan[k.tool], n) \in Writes =>
         AheadIn(k.todo, Plan[k.tool], n) \/ \E e \in es : e.call = c /\ e.left = n
    /\ k.outcome = "ok" => \A i \in DOMAIN k.todo : k.todo[i] \notin WriteSteps

LEMMA WrittenIs ==
    /\ WriteInv <=> \A c \in Call : calls[c] # None => Written(c, calls[c], effects)
    /\ WriteInv' <=> \A c \in Call : calls'[c] # None => Written(c, calls'[c], effects')
BY DEF WriteInv, Written, Ahead, AheadIn, Writes

LEMMA WriteNext ==
    ASSUME TypeOK, TodoInv, WriteInv, [Next]_vars
    PROVE WriteInv'
<1>1. \A c \in Call : calls[c] # None => Written(c, calls[c], effects)
  BY WrittenIs
<1>2. ASSUME NEW c \in Call, NEW j, calls' = [calls EXCEPT ![c] = j],
             effects \subseteq effects', Written(c, j, effects')
      PROVE WriteInv'
  <2>1. calls'[c] = j /\ \A d \in Call \ {c} : calls'[d] = calls[d]
    BY <1>2, Others
  <2>2. ASSUME NEW d \in Call, calls'[d] # None PROVE Written(d, calls'[d], effects')
    <3>1. CASE d = c
      BY <1>2, <2>1, <3>1
    <3>2. CASE d # c
      <4>1. calls'[d] = calls[d]
        BY <2>1, <3>2
      <4>2. Written(d, calls[d], effects)
        BY <1>1, <2>2, <4>1
      <4>. QED BY <1>2, <4>1, <4>2 DEF Written
    <3>. QED BY <3>1, <3>2
  <2>. QED BY <2>2, WrittenIs
<1>3. ASSUME NEW c \in Call, Begin(c) PROVE WriteInv'
  <2>1. PICK j : j = calls'[c]
    OBVIOUS
  <2>2. Begins(c, j)
    BY <1>3, <2>1, BeginMoves
  <2>3. effects' = effects
    BY <1>3 DEF Begin
  <2>4. j.tool \in DOMAIN Plan /\ j.todo \in PlansOf(j.tool)
    BY <2>2, FamilyHasPlans DEF Begins
  <2>5. \A n \in DOMAIN Plan[j.tool] : Back(Plan[j.tool], n) \in Writes =>
           AheadIn(j.todo, Plan[j.tool], n)
    BY <2>4, PlanAssumption DEF AheadIn, Writes
  <2>6. j.outcome = "ok" => j.todo = <<>>
    BY <2>2, NoneAssumption DEF Begins
  <2>7. Written(c, j, effects')
    BY <2>5, <2>6 DEF Written
  <2>. QED BY <1>2, <2>2, <2>3, <2>7 DEF Begins
<1>4. ASSUME NEW c \in Call, Acts(c) PROVE WriteInv'
  <2>1. PICK k : k = calls[c]
    OBVIOUS
  <2>2. PICK j : j = calls'[c]
    OBVIOUS
  <2>3. Moves(c, k, j)
    BY <1>4, <2>1, <2>2, ActsMove
  <2>4. k # None /\ j.tool = k.tool /\ calls' = [calls EXCEPT ![c] = j]
    BY <2>3, NoneAssumption DEF Moves
  <2>5. effects \subseteq effects'
    BY <1>4, <2>1, NewEffects
  <2>6. Written(c, k, effects)
    BY <1>1, <2>1, <2>4
  <2>7. ASSUME NEW n \in DOMAIN Plan[k.tool], Back(Plan[k.tool], n) \in Writes
        PROVE AheadIn(j.todo, Plan[k.tool], n) \/ \E e \in effects' : e.call = c /\ e.left = n
    <3>1. CASE \E e \in effects : e.call = c /\ e.left = n
      BY <2>5, <3>1
    <3>2. CASE AheadIn(k.todo, Plan[k.tool], n)
      <4>1. \/ AheadIn(j.todo, Plan[k.tool], n)
            \/ Forward(k, j) /\ n = Len(k.todo) /\ Head(k.todo) \in Writes
        BY <2>3, <2>7, <3>2, AheadMove
      <4>2. Forward(k, j) /\ Head(k.todo) \in Writes =>
              \E e \in effects' : e.call = c /\ e.left = Len(k.todo)
        BY <1>4, <2>1, <2>2, PassedIsDone
      <4>. QED BY <4>1, <4>2
    <3>. QED BY <2>6, <2>7, <3>1, <3>2 DEF Written
  <2>8. j.outcome = "ok" => \A i \in DOMAIN j.todo : j.todo[i] \notin WriteSteps
    BY <1>4, <2>1, <2>2, OkMove
  <2>9. Written(c, j, effects')
    BY <2>4, <2>7, <2>8 DEF Written
  <2>. QED BY <1>2, <2>4, <2>5, <2>9
<1>5. CASE UNCHANGED <<calls, effects>>
  <2>1. \A c \in Call : calls'[c] # None => Written(c, calls'[c], effects')
    BY <1>1, <1>5
  <2>. QED BY <2>1, WrittenIs
<1>6. Report \/ UNCHANGED vars => UNCHANGED <<calls, effects>>
  BY DEF Report, vars
<1>. QED BY <1>3, <1>4, <1>5, <1>6, NextCases

-----------------------------------------------------------------------------
\* The page of a post

\* the effect is where the call meant it
Lands(e, k) ==
    e.page # None =>
        IF k.arg.object # None THEN e.page = k.arg.object
        ELSE IF k.arg.page # None THEN e.page = k.arg.page
        ELSE e.page = DefaultPage \/ DefaultPage \notin k.listed

Prefers(k) ==
    k.page # None /\ k.arg.page = None =>
        k.page = DefaultPage \/ DefaultPage \notin k.listed

LEMMA PostIs ==
    /\ PostInv <=> /\ \A e \in effects : Lands(e, calls[e.call])
                   /\ \A c \in Call : calls[c] # None => Prefers(calls[c])
    /\ PostInv' <=> /\ \A e \in effects' : Lands(e, calls'[e.call])
                    /\ \A c \in Call : calls'[c] # None => Prefers(calls'[c])
BY DEF PostInv, PostedWhereMeant, PageInv, Lands, Prefers

\* What an action learns about the page, only the resolution of the page does.
LEMMA PageMoves ==
    ASSUME TypeOK, TodoInv, NEW c \in Call, Acts(c), NEW k, k = calls[c],
           NEW j, j = calls'[c], Prefers(k)
    PROVE /\ Prefers(j)
          /\ j.listed = k.listed \/ Head(k.todo) = "pages"
          /\ Request(c) => j.listed = k.listed
<1>1. j.arg = k.arg
  BY ActsMove DEF Moves
<1>2. CASE ResolvePage(c)
  <2>1. Prefers(j) /\ Head(k.todo) = "pages"
    BY <1>1, <1>2, ResolvePageMoves DEF Prefers
  <2>2. ~Request(c)
    BY <2>1, RequestMoves DEF PageSteps
  <2>. QED BY <2>1, <2>2
<1>3. CASE Request(c)
  BY <1>1, <1>3, RequestMoves DEF Prefers
<1>4. CASE ~Request(c) /\ ~ResolvePage(c)
  <2>1. Sticks(k, j)
    BY <1>4, LoadMoves, ExchangeMoves, StoreGetMoves, StorePutMoves, ClearGetMoves,
       ClearPutMoves, ResolvePostPageMoves DEF Acts
  <2>. QED BY <1>1, <1>4, <2>1 DEF Sticks, Prefers
<1>. QED BY <1>2, <1>3, <1>4

LEMMA PostNext ==
    ASSUME TypeOK, TodoInv, DoneInv, PostInv, [Next]_vars
    PROVE PostInv'
<1>1. /\ \A e \in effects : Lands(e, calls[e.call])
      /\ \A c \in Call : calls[c] # None => Prefers(calls[c])
  BY PostIs
<1>2. \A e \in effects : Behind(e)
  BY DoneIs
<1>3. ASSUME NEW c \in Call, NEW j, calls' = [calls EXCEPT ![c] = j], Prefers(j),
             \A e \in effects' : e.call = c => Lands(e, j),
             \A e \in effects' : e.call # c => e \in effects
      PROVE PostInv'
  <2>1. calls'[c] = j /\ \A d \in Call \ {c} : calls'[d] = calls[d]
    BY <1>3, Others
  <2>2. \A d \in Call : calls'[d] # None => Prefers(calls'[d])
    BY <1>1, <1>3, <2>1
  <2>3. ASSUME NEW e \in effects' PROVE Lands(e, calls'[e.call])
    <3>1. CASE e.call = c
      BY <1>3, <2>1, <3>1
    <3>2. CASE e.call # c
      <4>1. e \in effects /\ calls'[e.call] = calls[e.call]
        BY <1>2, <1>3, <2>1, <3>2 DEF Behind
      <4>. QED BY <1>1, <4>1
    <3>. QED BY <3>1, <3>2
  <2>. QED BY <2>2, <2>3, PostIs
<1>4. ASSUME NEW c \in Call, Begin(c) PROVE PostInv'
  <2>1. PICK j : j = calls'[c]
    OBVIOUS
  <2>2. Begins(c, j)
    BY <1>4, <2>1, BeginMoves
  <2>3. Prefers(j) /\ calls' = [calls EXCEPT ![c] = j] /\ calls[c] = None
    BY <2>2 DEF Begins, Prefers
  <2>4. effects' = effects
    BY <1>4 DEF Begin
  <2>5. \A e \in effects : e.call # c
    BY <1>2, <2>3 DEF Behind
  <2>. QED BY <1>3, <2>3, <2>4, <2>5
<1>5. ASSUME NEW c \in Call, Acts(c) PROVE PostInv'
  <2>1. PICK k : k = calls[c]
    OBVIOUS
  <2>2. PICK j : j = calls'[c]
    OBVIOUS
  <2>3. Moves(c, k, j)
    BY <1>5, <2>1, <2>2, ActsMove
  <2>4. k # None /\ j.arg = k.arg /\ calls' = [calls EXCEPT ![c] = j]
    BY <2>3, NoneAssumption DEF Moves
  <2>5. Prefers(k)
    BY <1>1, <2>1, <2>4
  <2>6. /\ Prefers(j) /\ (j.listed = k.listed \/ Head(k.todo) = "pages")
        /\ Request(c) => j.listed = k.listed
    BY <1>5, <2>1, <2>2, <2>5, PageMoves
  <2>7. ASSUME NEW e \in effects, e.call = c PROVE Lands(e, j)
    <3>1. Lands(e, k) /\ NoLook(k.todo)
      BY <1>1, <1>2, <2>1, <2>7 DEF Behind
    <3>2. 1 \in DOMAIN k.todo /\ Head(k.todo) = k.todo[1]
      <4>1. PICK m : m = Len(k.todo)
        OBVIOUS
      <4>2. m \in Nat \ {0} /\ DOMAIN k.todo = 1 .. m /\ Head(k.todo) = k.todo[1]
        BY <2>3, <4>1, Shorter
      <4>. QED BY <4>2
    <3>3. j.listed = k.listed
      BY <2>6, <3>1, <3>2 DEF NoLook
    <3>. QED BY <2>4, <3>1, <3>3 DEF Lands
  <2>8. ASSUME NEW e \in effects', e \notin effects PROVE e.call = c /\ Lands(e, j)
    <3>1. Adds(c, k, e)
      BY <1>5, <2>1, <2>8, NewEffects
    <3>2. e.call = c /\ e.page \in {Target(k), None} /\ j.listed = k.listed
      BY <2>6, <3>1 DEF Adds
    <3>3. Lands(e, k)
      BY <2>5, <3>2 DEF Lands, Prefers, Target
    <3>. QED BY <2>4, <3>2, <3>3 DEF Lands
  <2>. QED BY <1>3, <2>4, <2>6, <2>7, <2>8
<1>6. CASE UNCHANGED <<calls, effects>>
  BY <1>1, <1>6, PostIs
<1>7. Report \/ UNCHANGED vars => UNCHANGED <<calls, effects>>
  BY DEF Report, vars
<1>. QED BY <1>4, <1>5, <1>6, <1>7, NextCases

-----------------------------------------------------------------------------
\* The entity

WritesEntity(k) ==
    k.outcome = None /\ k.todo # <<>> /\ Head(k.todo) = "set_state"

AsRead(k) ==
    IF k.tool = "home_assistant_create_entity" THEN k.was = None
    ELSE k.was # None /\ k.seen = Redacted(k.was)

LEMMA EntityIs ==
    /\ EntityInv <=> \A c \in Call : calls[c] # None /\ WritesEntity(calls[c]) =>
                        AsRead(calls[c])
    /\ EntityInv' <=> \A c \in Call : calls'[c] # None /\ WritesEntity(calls'[c]) =>
                        AsRead(calls'[c])
BY DEF EntityInv, At, Running, Step, WritesEntity, AsRead

\* The step before the writing of an entity has read it.
LEMMA EntityMoves ==
    ASSUME TypeOK, TodoInv, NEW c \in Call, Acts(c), NEW k, k = calls[c],
           NEW j, j = calls'[c], WritesEntity(k) => AsRead(k), WritesEntity(j)
    PROVE AsRead(j)
<1>1. Moves(c, k, j)
  BY ActsMove
<1>2. /\ k # None /\ k.todo # <<>> /\ k.outcome = None /\ j.tool = k.tool
      /\ k.todo \in Seq(Steps)
  BY <1>1, NoneAssumption DEF Moves, CallRecord
<1>3. Fits(k)
  BY <1>2, TodoFits
<1>4. ~Stopped(k, j)
  BY NoneAssumption DEF Stopped, WritesEntity
<1>5. ~Migrated(k, j)
  <2>1. Migrated(k, j) => Head(j.todo) = "store_get"
    BY <1>2, StoringFacts DEF Migrated
  <2>. QED BY <2>1 DEF WritesEntity
<1>6. Repeated(k, j) => ~Forward(k, j)
  <2>1. \A m : m = Len(k.todo) => (Repeated(k, j) => ~Forward(k, j))
    BY <1>1, Shorter
  <2>. QED BY <2>1
<1>7. Head(k.todo) \in {"state", "absent", "set_state"} => Request(c)
  BY LoadMoves, ExchangeMoves, StoreGetMoves, StorePutMoves, ClearGetMoves,
     ClearPutMoves, ResolvePageMoves, ResolvePostPageMoves DEF Acts
<1>8. ASSUME Forward(k, j) PROVE AsRead(j)
  <2>1. j.todo = Tail(k.todo) /\ j.todo # <<>> /\ Head(j.todo) = "set_state"
    BY <1>8 DEF Forward, WritesEntity
  <2>2. Head(k.todo) = Before("set_state", k.tool)
    <3>1. "set_state" \in Dependent
      BY DEF Dependent
    <3>. QED BY <1>2, <1>3, <2>1, <3>1, NewHead DEF Fits
  <2>3. Head(k.todo) = IF k.tool = "home_assistant_create_entity" THEN "absent" ELSE "state"
    BY <2>2 DEF Before
  <2>4. Request(c)
    BY <1>7, <2>3
  <2>5. PICK answer \in Answers, done \in BOOLEAN : Requested(c, k, j, answer, done)
    BY <2>4, RequestMoves
  <2>6. Continues(Head(k.todo), answer) /\ Saw(k, j)
    BY <1>4, <1>6, <1>8, <2>5 DEF Requested, Fails, WritesEntity
  <2>7. CASE k.tool = "home_assistant_create_entity"
    <3>1. Head(k.todo) = "absent"
      BY <2>3, <2>7
    <3>2. answer = "refused"
      BY <2>6, <3>1 DEF Continues, Tolerates
    <3>3. ~Admits(c, "absent")
      BY <2>5, <3>1, <3>2 DEF Requested
    <3>4. entity = None
      BY <3>3 DEF Admits
    <3>. QED BY <1>2, <2>6, <2>7, <3>1, <3>4 DEF Saw, AsRead
  <2>8. CASE k.tool # "home_assistant_create_entity"
    <3>1. Head(k.todo) = "state"
      BY <2>3, <2>8
    <3>2. answer = "ok"
      BY <2>6, <3>1 DEF Continues, Tolerates
    <3>3. Admits(c, "state")
      BY <2>5, <3>1, <3>2 DEF Requested
    <3>4. entity # None
      BY <3>3 DEF Admits
    <3>. QED BY <1>2, <2>6, <2>8, <3>1, <3>4 DEF Saw, AsRead
  <2>. QED BY <2>7, <2>8
<1>9. ASSUME Repeated(k, j) PROVE AsRead(j)
  <2>1. Head(k.todo) = "set_state" /\ AsRead(k)
    BY <1>2, <1>9 DEF Repeated, WritesEntity
  <2>2. PICK answer \in Answers, done \in BOOLEAN : Requested(c, k, j, answer, done)
    BY <1>7, <2>1, RequestMoves
  <2>3. Saw(k, j)
    BY <2>2 DEF Requested, WritesEntity
  <2>. QED BY <1>2, <2>1, <2>3 DEF Saw, AsRead
<1>. QED BY <1>1, <1>4, <1>5, <1>8, <1>9 DEF Moves

LEMMA EntityNext ==
    ASSUME TypeOK, TodoInv, EntityInv, [Next]_vars
    PROVE EntityInv'
<1>1. \A c \in Call : calls[c] # None /\ WritesEntity(calls[c]) => AsRead(calls[c])
  BY EntityIs
<1>2. ASSUME NEW c \in Call, NEW j, calls' = [calls EXCEPT ![c] = j],
             WritesEntity(j) => AsRead(j)
      PROVE EntityInv'
  <2>1. calls'[c] = j /\ \A d \in Call \ {c} : calls'[d] = calls[d]
    BY <1>2, Others
  <2>2. \A d \in Call : calls'[d] # None /\ WritesEntity(calls'[d]) => AsRead(calls'[d])
    BY <1>1, <1>2, <2>1
  <2>. QED BY <2>2, EntityIs
<1>3. ASSUME NEW c \in Call, Begin(c) PROVE EntityInv'
  <2>1. PICK j : j = calls'[c]
    OBVIOUS
  <2>2. Begins(c, j)
    BY <1>3, <2>1, BeginMoves
  <2>3. ~WritesEntity(j) /\ calls' = [calls EXCEPT ![c] = j]
    BY <2>2, FitsBegin DEF WritesEntity, Dependent, Begins
  <2>. QED BY <1>2, <2>3
<1>4. ASSUME NEW c \in Call, Acts(c) PROVE EntityInv'
  <2>1. PICK k : k = calls[c]
    OBVIOUS
  <2>2. PICK j : j = calls'[c]
    OBVIOUS
  <2>3. k # None /\ calls' = [calls EXCEPT ![c] = j]
    BY <1>4, <2>1, <2>2, ActsMove, NoneAssumption DEF Moves
  <2>4. WritesEntity(k) => AsRead(k)
    BY <1>1, <2>1, <2>3
  <2>5. WritesEntity(j) => AsRead(j)
    BY <1>4, <2>1, <2>2, <2>4, EntityMoves
  <2>. QED BY <1>2, <2>3, <2>5
<1>5. CASE UNCHANGED calls
  BY <1>1, <1>5, EntityIs
<1>6. Report \/ UNCHANGED vars => UNCHANGED calls
  BY DEF Report, vars
<1>. QED BY <1>3, <1>4, <1>5, <1>6, NextCases

-----------------------------------------------------------------------------
\* Theorems: the writes

WorkInv == TokensInv /\ DoneInv /\ OnceInv /\ WriteInv /\ PostInv /\ EntityInv

LEMMA WorkInit == ASSUME Init PROVE WorkInv
<1>1. TokensInv
  BY TokensInit
<1>2. effects = {} /\ \A c \in Call : calls[c] = None
  BY DEF Init
<1>3. DoneInv
  BY <1>2, FS_EmptySet DEF DoneInv
<1>4. OnceInv
  BY <1>2 DEF OnceInv, Here, Running
<1>5. WriteInv
  BY <1>2 DEF WriteInv
<1>6. PostInv
  BY <1>2 DEF PostInv, PostedWhereMeant, PageInv
<1>7. EntityInv
  BY <1>2 DEF EntityInv, At, Running
<1>. QED BY <1>1, <1>3, <1>4, <1>5, <1>6, <1>7 DEF WorkInv

LEMMA WorkNext == ASSUME WorkInv, [Next]_vars PROVE WorkInv'
<1>1. TypeOK /\ TodoInv
  BY DEF WorkInv, TokensInv
<1>2. TokensInv'
  BY TokensNext DEF WorkInv
<1>3. DoneInv'
  BY <1>1, DoneNext DEF WorkInv
<1>4. OnceInv'
  BY <1>1, OnceNext DEF WorkInv
<1>5. WriteInv'
  BY <1>1, WriteNext DEF WorkInv
<1>6. PostInv'
  BY <1>1, PostNext DEF WorkInv
<1>7. EntityInv'
  BY <1>1, EntityNext DEF WorkInv
<1>. QED BY <1>2, <1>3, <1>4, <1>5, <1>6, <1>7 DEF WorkInv

LEMMA WorkAlways == Spec => []WorkInv
BY WorkInit, WorkNext, PTL DEF Spec

\* With no write ahead, every one was done.
LEMMA AllWritten ==
    ASSUME TypeOK, WriteInv, NEW c \in Call, calls[c] # None, calls[c].outcome = "ok",
           NEW plan, plan = Plan[calls[c].tool], NEW i \in DOMAIN plan,
           plan[i] \in WriteSteps \ {"ensure"}
    PROVE \E e \in effects : e.call = c /\ e.left = Len(plan) + 1 - i
<1>1. Written(c, calls[c], effects)
  BY WrittenIs
<1>2. calls[c].tool \in DOMAIN Plan /\ calls[c].todo \in Seq(Steps)
  BY DEF TypeOK, CallRecord
<1>3. plan \in Seq(Steps)
  BY <1>2, PlanAssumption DEF PlansOf
<1>4. PICK m \in Nat : m = Len(plan) /\ DOMAIN plan = 1 .. m
  BY <1>3
<1>5. PICK n : n = m + 1 - i
  OBVIOUS
<1>6. n \in 1 .. m /\ m + 1 - n = i
  <2>1. i \in 1 .. m
    BY <1>4
  <2>2. n = m + 1 - i
    BY <1>5
  <2>. QED BY <2>1, <2>2
<1>7. Back(plan, n) = plan[i]
  BY <1>4, <1>6 DEF Back
<1>8. ~AheadIn(calls[c].todo, plan, n)
  <2>. SUFFICES ASSUME AheadIn(calls[c].todo, plan, n) PROVE FALSE
    OBVIOUS
  <2>1. PICK s : s = calls[c].todo
    OBVIOUS
  <2>2. PICK l \in Nat : l = Len(s) /\ DOMAIN s = 1 .. l
    BY <1>2, <2>1
  <2>3. n \in 1 .. l /\ Back(s, n) = plan[i]
    BY <1>7, <2>1, <2>2 DEF AheadIn
  <2>4. l + 1 - n \in DOMAIN s /\ s[l + 1 - n] = plan[i]
    BY <2>2, <2>3 DEF Back
  <2>. QED BY <1>1, <2>1, <2>4 DEF Written
<1>9. \E e \in effects : e.call = c /\ e.left = n
  BY <1>1, <1>4, <1>6, <1>7, <1>8 DEF Written, Writes
<1>. QED BY <1>4, <1>5, <1>9

\* A tool that answers success has done every one of its writes, and no write
\* is done twice, but one of Facebook sent again after a server error.
THEOREM AnswersAreTrue == Spec => []WrittenAsAnswered
<1>1. ASSUME WorkInv PROVE WrittenAsAnswered
  <2>1. \A e \in effects : e.n > 1 =>
          /\ e.n = 2 /\ ServiceOf(calls[e.call].tool) = "facebook"
          /\ e.left \in calls[e.call].resent
    BY <1>1 DEF WorkInv, OnceInv, Retried
  <2>2. ASSUME NEW c \in Call, calls[c] # None, calls[c].outcome = "ok",
               NEW i \in DOMAIN Plan[calls[c].tool],
               Plan[calls[c].tool][i] \in WriteSteps \ {"ensure"}
        PROVE \E e \in effects : e.call = c /\ e.left = Len(Plan[calls[c].tool]) + 1 - i
    BY <1>1, <2>2, AllWritten DEF WorkInv, TokensInv
  <2>. QED BY <2>1, <2>2 DEF WrittenAsAnswered
<1>. QED BY <1>1, WorkAlways, PTL

\* A post lands on the page asked for, on the page of the object, or on the
\* default page unless Facebook does not list it.
THEOREM PostsLandWhereMeant == Spec => []PostedWhereMeant
<1>1. WorkInv => PostedWhereMeant
  BY DEF WorkInv, PostInv
<1>. QED BY <1>1, WorkAlways, PTL

\* A call that acts is not what it was.
LEMMA MovesChange ==
    ASSUME NEW c, NEW k, NEW j, Moves(c, k, j)
    PROVE j # k
<1>1. PICK m : m = Len(k.todo)
  OBVIOUS
<1>2. /\ m \in Nat
      /\ Forward(k, j) => Len(j.todo) = m - 1
      /\ Migrated(k, j) => Len(j.todo) = m + 1
  BY <1>1, Shorter
<1>3. Forward(k, j) \/ Migrated(k, j) => Len(j.todo) # Len(k.todo)
  BY <1>1, <1>2
<1>4. Stopped(k, j) => j.outcome # k.outcome
  BY NoneAssumption DEF Stopped, Moves
<1>5. Repeated(k, j) => j.again # k.again
  BY DEF Repeated
<1>. QED BY <1>3, <1>4, <1>5 DEF Moves

\* A file is replaced when the call says so.
LEMMA ServedKeeps ==
    ASSUME TypeOK, TodoInv, NEW c \in Call, Running(c), NEW step, step = Step(c),
           Admits(c, step), Served(c, step), NEW v \in Contents, v \notin Contents'
    PROVE calls[c].tool = "nextcloud_delete" \/ calls[c].arg.overwrite
<1>1. PICK a : a = calls[c].arg
  OBVIOUS
<1>2. calls[c] # None /\ calls[c].todo # <<>> /\ calls[c].todo \in Seq(Steps)
      /\ a \in Arguments(calls[c].tool)
  BY <1>1, RunningCall DEF Running
<1>3. Suits(step, calls[c].tool)
  <2>1. 1 \in DOMAIN calls[c].todo /\ calls[c].todo[1] = step
    BY <1>2, TailFacts DEF Step
  <2>. QED BY <1>2, <2>1 DEF TodoInv
<1>4. step \in FileSteps => a.path \in Path /\ a.other \in Path /\ a.path # a.other
  <2>1. step \in FileSteps => ServiceOf(calls[c].tool) = "nextcloud"
    BY <1>3 DEF Suits
  <2>. QED BY <1>2, <2>1 DEF Arguments
<1>5. PICK p \in Path : v = files[p] /\ v # None
  BY DEF Contents
<1>6. files' = [q \in Path |->
           IF step \in {"copy", "move"} /\ q = a.other THEN files[a.path]
           ELSE IF step = "put" /\ q = a.path THEN c
           ELSE IF step \in {"move", "delete"} /\ q = a.path THEN None
           ELSE files[q]]
  BY <1>1 DEF Served
<1>7. \A q \in Path : files'[q] # v
  BY <1>5 DEF Contents
<1>8. \/ step \in {"copy", "move"} /\ p = a.other
      \/ step \in {"put", "delete"} /\ p = a.path
  <2>1. CASE step = "move" /\ p = a.path
    <3>1. a.other \in Path /\ files'[a.other] = v
      BY <1>4, <1>5, <1>6, <2>1 DEF FileSteps
    <3>. QED BY <1>7, <3>1
  <2>. QED BY <1>5, <1>6, <1>7, <2>1
<1>9. /\ step = "put" => a.overwrite \/ files[a.path] = None
      /\ step \in {"move", "copy"} => a.overwrite \/ files[a.other] = None
  BY <1>1 DEF Admits
<1>10. step = "delete" => calls[c].tool = "nextcloud_delete"
  BY <1>3 DEF Suits
<1>. QED BY <1>1, <1>5, <1>8, <1>9, <1>10

LEMMA StepKeepsContents ==
    ASSUME TypeOK, TodoInv, [Next]_vars
    PROVE ContentKept
<1>. SUFFICES ASSUME NEW v \in Contents, v \notin Contents'
              PROVE \E c \in Call : /\ calls'[c] # calls[c]
                                    /\ \/ calls[c].tool = "nextcloud_delete"
                                       \/ calls[c].arg.overwrite
  BY DEF ContentKept
<1>1. files' # files
  BY DEF Contents
<1>2. PICK c \in Call : Request(c)
  BY <1>1 DEF Next, vars, world, Report, Begin, Load, Exchange, StoreGet, StorePut,
     ClearGet, ClearPut, ResolvePage, ResolvePostPage
<1>3. PICK k : k = calls[c]
  OBVIOUS
<1>4. PICK j : j = calls'[c]
  OBVIOUS
<1>5. Moves(c, k, j)
  BY <1>2, <1>3, <1>4, RequestMoves
<1>6. calls'[c] # calls[c]
  BY <1>3, <1>4, <1>5, MovesChange
<1>7. PICK answer \in Answers, done \in BOOLEAN : Requested(c, k, j, answer, done)
  BY <1>2, <1>3, <1>4, RequestMoves
<1>8. Step(c) = Head(k.todo) /\ Running(c)
  BY <1>2, <1>3 DEF Step, Request
<1>9. done
  <2>1. ~done => files' = files
    BY <1>7 DEF Requested, world
  <2>. QED BY <1>1, <2>1
<1>10. Admits(c, Step(c)) /\ Served(c, Step(c))
  BY <1>7, <1>8, <1>9 DEF Requested
<1>11. calls[c].tool = "nextcloud_delete" \/ calls[c].arg.overwrite
  BY <1>8, <1>10, ServedKeeps
<1>. QED BY <1>6, <1>11

LEMMA StepMergesEntity ==
    ASSUME TypeOK, EntityInv, [Next]_vars
    PROVE EntityMerged
<1>. SUFFICES ASSUME NEW c \in Call, SetsEntity(c), entity = calls[c].was
              PROVE IF calls[c].tool = "home_assistant_create_entity" THEN entity = None
                    ELSE \A a \in Attribute \ calls[c].arg.named :
                           calls[c].arg.merge \/ a = "state" =>
                             entity'[a] = (IF a \in Sensitive THEN "redacted" ELSE entity[a])
  BY DEF EntityMerged
<1>1. PICK k : k = calls[c]
  OBVIOUS
<1>2. At(c, "set_state") /\ calls'[c] # calls[c] /\ entity' # entity
  BY DEF SetsEntity
<1>3. PICK d \in Call : Request(d)
  BY <1>2 DEF Next, vars, world, Report, Begin, Load, Exchange, StoreGet, StorePut,
     ClearGet, ClearPut, ResolvePage, ResolvePostPage
<1>4. d = c
  <2>1. PICK j : j = calls'[d]
    OBVIOUS
  <2>2. PICK h : h = calls[d]
    OBVIOUS
  <2>3. Moves(d, h, j)
    BY <1>3, <2>1, <2>2, RequestMoves
  <2>4. \A e \in Call \ {d} : calls'[e] = calls[e]
    BY <2>3, Others DEF Moves
  <2>. QED BY <1>2, <2>4
<1>5. PICK j : j = calls'[c]
  OBVIOUS
<1>6. PICK answer \in Answers, done \in BOOLEAN : Requested(c, k, j, answer, done)
  BY <1>1, <1>3, <1>4, <1>5, RequestMoves
<1>7. Head(k.todo) = "set_state"
  BY <1>1, <1>2 DEF At, Step
<1>8. done
  <2>1. ~done => entity' = entity
    BY <1>6 DEF Requested, world
  <2>. QED BY <1>2, <2>1
<1>9. entity' = Merged(c)
  BY <1>6, <1>7, <1>8 DEF Requested, Served
<1>10. IF k.tool = "home_assistant_create_entity" THEN k.was = None
       ELSE k.was # None /\ k.seen = Redacted(k.was)
  BY <1>1, <1>2 DEF EntityInv
<1>11. CASE k.tool = "home_assistant_create_entity"
  BY <1>1, <1>10, <1>11
<1>12. CASE k.tool # "home_assistant_create_entity"
  <2>1. entity # None /\ k.seen = Redacted(entity) /\ entity \in Entity \cup {None}
    BY <1>1, <1>10, <1>12 DEF TypeOK
  <2>2. /\ k.seen # None
        /\ \A a \in Attribute : k.seen[a] = IF a \in Sensitive THEN "redacted" ELSE entity[a]
    BY <2>1, RedactedIs
  <2>3. \A a \in Attribute \ k.arg.named : k.arg.merge \/ a = "state" =>
          Merged(c)[a] = k.seen[a]
    BY <1>1, <2>2 DEF Merged
  <2>. QED BY <1>1, <1>9, <1>12, <2>2, <2>3
<1>. QED BY <1>11, <1>12

\* No call replaces what its caller did not ask it to: a file is replaced or
\* removed by a call that says so only, and an entity that did not change
\* since the tool read it keeps what the tool does not name.
THEOREM NothingIsReplacedUnasked == Spec => NothingReplacedUnasked
<1>1. ASSUME WorkInv, [Next]_vars PROVE [ContentKept /\ EntityMerged]_vars
  BY <1>1, StepKeepsContents, StepMergesEntity DEF WorkInv, TokensInv
<1>. QED BY <1>1, WorkAlways, PTL DEF Spec, NothingReplacedUnasked
=============================================================================
