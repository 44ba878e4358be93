------------------------ MODULE ButtonRequestsProofs ------------------------
(***************************************************************************)
(* What the poller promises whatever the number of cards, presses and      *)
(* restarts.  The invariant follows one update through the poller: a card  *)
(* is fresh until it is taken (FreshOK), what is taken is being worked on  *)
(* once (WorkOK), and nothing behind the poller is still to do (SeenOK).   *)
(***************************************************************************)
EXTENDS ButtonRequests, SequenceTheorems, TLAPS

\* a card that was never asked has no row and no button
CallOK ==
    \A c \in Card : calls[c] = "none" => rows[c].status = "none" /\ c \notin buttons

\* only a card that was asked is pressed
UpdateOK == \A i \in 1 .. Len(updates) : calls[updates[i].card] # "none"

\* before it is taken, a card has no answer and moved no file
FreshOK ==
    \A c \in Card : rows[c].status \in {"none", "pending"} =>
                        transfers[c] = 0 /\ rows[c].answer = "none"

BatchOK ==
    /\ poller.offset <= Len(updates) + 1
    /\ poller.pc # "poll" => /\ 1 <= poller.next /\ poller.next <= poller.last
                             /\ poller.last <= Len(updates)

Working == poller.pc \in {"ack", "act", "transfer", "store", "fail", "edit"}

WorkOK ==
    /\ Working => /\ rows[Handled.card].status \notin {"none", "pending"}
                  /\ rows[Handled.card].answer = Handled.value
    /\ poller.pc \in {"ack", "act", "transfer"} => transfers[Handled.card] = 0
    /\ poller.pc = "store" /\ Handled.value = "transfer" =>
          /\ transfers[Handled.card] = 1
          /\ Handled.card \in Consumed => FileOf[Handled.card] \notin files

\* the update can be forgotten
Done(i) == i \in excused \/ rows[updates[i].card].status # "pending"

SeenOK ==
    \A i \in 1 .. Len(updates) :
       (i < poller.offset \/ (poller.pc # "poll" /\ i < poller.next)) => Done(i)

Inv ==
    /\ TypeOK /\ CallOK /\ UpdateOK /\ FreshOK /\ BatchOK /\ WorkOK /\ SeenOK
    /\ TransferAtMostOnce /\ CompletedIsDone /\ PressNotForgotten

LEMMA InitInv == Init => Inv
<1> SUFFICES ASSUME Init PROVE Inv
  OBVIOUS
<1>1. TypeOK
  BY ConstantsAssumption
  DEF Init, TypeOK, Row, Status, Value, Poller, Offset, Started
<1>2. CallOK /\ UpdateOK /\ FreshOK /\ BatchOK
  BY DEF Init, CallOK, UpdateOK, FreshOK, BatchOK, Started
<1>3. WorkOK /\ SeenOK
  BY DEF Init, WorkOK, Working, SeenOK, Started
<1>4. TransferAtMostOnce /\ CompletedIsDone /\ PressNotForgotten
  BY DEF Init, TransferAtMostOnce, CompletedIsDone, PressNotForgotten
<1> QED BY <1>1, <1>2, <1>3, <1>4 DEF Inv

\* the update in hand
LEMMA InHand ==
    ASSUME Inv, poller.pc # "poll"
    PROVE  /\ poller \in Poller /\ poller.next \in 1 .. Len(updates)
           /\ poller.last \in 1 .. Len(updates)
           /\ Handled.card \in Card /\ Handled.value \in Value
<1>1. /\ poller \in Poller /\ updates \in Seq([card : Card, value : Value])
      /\ Len(updates) \in Nat
  BY DEF Inv, TypeOK
<1>2. poller.next \in Nat /\ poller.last \in Nat
  BY <1>1 DEF Poller, Offset
<1>3. poller.next \in 1 .. Len(updates) /\ poller.last \in 1 .. Len(updates)
  BY <1>1, <1>2 DEF Inv, BatchOK
<1>4. updates[poller.next] \in [card : Card, value : Value]
  BY <1>1, <1>3, ElementOfSeq
<1> QED BY <1>1, <1>3, <1>4 DEF Handled

\* where the poller goes when it is done with an update
LEMMA NextUpdateOK ==
    ASSUME Inv, poller.pc # "poll"
    PROVE  /\ NextUpdate(poller) \in Poller
           /\ NextUpdate(poller).next = poller.next + 1
           /\ NextUpdate(poller).offset = poller.offset
           /\ NextUpdate(poller).last = poller.last
           /\ NextUpdate(poller).pc \in {"take", "poll"}
           /\ NextUpdate(poller).pc = "take" => poller.next < poller.last
<1>1. poller \in Poller /\ poller.next \in 1 .. Len(updates) /\ Len(updates) <= MaxUpdates
  BY InHand DEF Inv, TypeOK
<1>2. MaxUpdates \in Nat /\ Len(updates) \in Nat
  BY ConstantsAssumption DEF Inv, TypeOK
<1>3. poller.next + 1 \in Offset
  BY <1>1, <1>2 DEF Offset
<1>4. NextUpdate(poller) \in Poller
  BY <1>1, <1>3 DEF NextUpdate, Poller
<1> QED BY <1>1, <1>4 DEF NextUpdate, Poller

\* what a poll confirms is done, and is within what was pressed
LEMMA ConfirmedOK ==
    ASSUME Inv
    PROVE  /\ Confirmed(poller.offset) \in confirmed .. Len(updates)
           /\ \A i \in 1 .. Confirmed(poller.offset) : Done(i)
<1>1. /\ poller.offset \in Nat /\ poller.offset <= Len(updates) + 1
      /\ confirmed \in 0 .. Len(updates) /\ Len(updates) \in Nat
  BY DEF Inv, TypeOK, BatchOK, Poller, Offset
<1>2. \A i \in 1 .. Len(updates) : i < poller.offset => Done(i)
  BY DEF Inv, SeenOK
<1>3. \A i \in 1 .. confirmed : Done(i)
  BY DEF Inv, PressNotForgotten, Done
<1> QED BY <1>1, <1>2, <1>3 DEF Confirmed

-----------------------------------------------------------------------------
\* a step that leaves the cards alone
LEMMA CardsFrame ==
    ASSUME Inv, UNCHANGED <<rows, calls, updates, transfers>>,
           buttons' \subseteq buttons, files' \subseteq files,
           excused \subseteq excused'
    PROVE  /\ CallOK' /\ UpdateOK' /\ FreshOK'
           /\ TransferAtMostOnce' /\ CompletedIsDone'
           /\ \A i \in 1 .. Len(updates) : Done(i) => Done(i)'
<1>1. CallOK' /\ UpdateOK' /\ FreshOK'
  BY DEF Inv, CallOK, UpdateOK, FreshOK
<1>2. TransferAtMostOnce' /\ CompletedIsDone'
  BY DEF Inv, TransferAtMostOnce, CompletedIsDone
<1>3. \A i \in 1 .. Len(updates) : Done(i) => Done(i)'
  BY DEF Done
<1> QED BY <1>1, <1>2, <1>3

\* the poller leaves an update it is done with
LEMMA Advance ==
    ASSUME Inv, poller.pc # "poll", UNCHANGED <<rows, calls, updates, confirmed,
                                                files, transfers, restarts>>,
           buttons' \subseteq buttons, excused \subseteq excused',
           excused' \subseteq 1 .. Len(updates),
           poller.next \in excused' \/ rows[Handled.card].status # "pending",
           poller' \in Poller, poller'.pc \in {"take", "poll"},
           poller'.next = poller.next + 1, poller'.last = poller.last,
           poller'.pc = "take" => poller.next < poller.last,
           poller'.offset \in {poller.offset, poller.next + 1}
    PROVE  Inv'
<1>1. /\ poller.next \in 1 .. Len(updates) /\ poller.last \in 1 .. Len(updates)
      /\ Len(updates) \in Nat /\ poller.offset \in Nat
  BY InHand DEF Inv, TypeOK, Poller, Offset
<1>2. TypeOK'
  BY DEF Inv, TypeOK
<1>3. BatchOK'
  BY <1>1 DEF Inv, BatchOK
<1>4. WorkOK'
  BY DEF WorkOK, Working
<1>5. \A i \in 1 .. Len(updates) : Done(i) => Done(i)'
  BY CardsFrame
<1>6. SeenOK'
  <2> SUFFICES ASSUME NEW i \in 1 .. Len(updates),
                      i < poller'.offset \/ i < poller'.next
               PROVE  Done(i)'
    BY DEF SeenOK
  <2>1. i < poller.offset \/ i < poller.next \/ i = poller.next
    BY <1>1
  <2>2. i = poller.next => Done(i)'
    BY DEF Done, Handled
  <2> QED BY <1>5, <2>1, <2>2 DEF Inv, SeenOK
<1>7. PressNotForgotten'
  <2>1. \A i \in 1 .. confirmed : i \in 1 .. Len(updates) /\ Done(i)
    BY DEF Inv, TypeOK, PressNotForgotten, Done
  <2> QED BY <1>5, <2>1 DEF PressNotForgotten, Done
<1> QED BY <1>2, <1>3, <1>4, <1>6, <1>7, CardsFrame DEF Inv

\* the poller goes on with the update it has in hand
LEMMA Continue ==
    ASSUME Inv, Working, UNCHANGED <<rows, calls, updates, confirmed, buttons,
                                     transfers, restarts, excused>>,
           files' \subseteq files,
           NEW pc \in {"act", "transfer", "store", "fail", "edit"},
           poller' = [poller EXCEPT !.pc = pc],
           pc \in {"act", "transfer"} => transfers[Handled.card] = 0,
           pc = "store" /\ Handled.value = "transfer" =>
              /\ transfers[Handled.card] = 1
              /\ Handled.card \in Consumed => FileOf[Handled.card] \notin files'
    PROVE  Inv'
<1>1. /\ poller.pc # "poll" /\ poller' \in Poller /\ poller'.pc = pc
      /\ poller'.next = poller.next /\ poller'.offset = poller.offset
      /\ poller'.last = poller.last /\ Handled' = Handled
  BY InHand DEF Working, Poller, Handled
<1>2. TypeOK'
  BY <1>1 DEF Inv, TypeOK
<1>3. BatchOK' /\ SeenOK'
  BY <1>1, CardsFrame DEF Inv, BatchOK, SeenOK
<1>4. WorkOK'
  BY <1>1 DEF Inv, WorkOK, Working
<1>5. PressNotForgotten'
  BY DEF Inv, PressNotForgotten
<1> QED BY <1>2, <1>3, <1>4, <1>5, CardsFrame DEF Inv

-----------------------------------------------------------------------------
\* what Take writes when the card is pending
LEMMA TakeStep == Inv /\ Take => Inv'
<1> SUFFICES ASSUME Inv, Take PROVE Inv'
  OBVIOUS
<1> DEFINE c == Handled.card
<1>1. poller.pc = "take" /\ poller.pc # "poll"
  BY DEF Take
<1>2. /\ poller \in Poller /\ poller.next \in 1 .. Len(updates) /\ c \in Card
      /\ Handled.value \in Value /\ Len(updates) \in Nat
      /\ Len(updates) <= MaxUpdates /\ MaxUpdates \in Nat
  BY <1>1, InHand, ConstantsAssumption DEF Inv, TypeOK
<1>3. poller.next + 1 \in Offset
  BY <1>2 DEF Offset
<1>4. CASE rows[c].status # "pending"
  <2>1. poller' = [NextUpdate(poller) EXCEPT !.offset = poller.next + 1]
    BY <1>4 DEF Take, Taken, OffsetAfter
  <2>2. /\ poller' \in Poller /\ poller'.offset = poller.next + 1
        /\ poller'.pc = NextUpdate(poller).pc /\ poller'.next = NextUpdate(poller).next
        /\ poller'.last = NextUpdate(poller).last
    BY <1>1, <1>3, <2>1, NextUpdateOK DEF Poller
  <2>3. UNCHANGED rows /\ excused \subseteq 1 .. Len(updates)
    BY <1>4 DEF Take, Taken, Inv, TypeOK
  <2> QED BY <1>1, <1>4, <2>2, <2>3, NextUpdateOK, Advance DEF Take
<1>5. CASE rows[c].status = "pending"
  <2>1. /\ rows' = [rows EXCEPT ![c] = Answered(rows[c], Handled.value)]
        /\ poller' = [poller EXCEPT !.offset = poller.next + 1, !.pc = "ack"]
        /\ UNCHANGED <<calls, buttons, updates, confirmed, files, transfers,
                       excused, restarts>>
    BY <1>5 DEF Take, Taken, OffsetAfter
  <2>2. /\ poller' \in Poller /\ poller'.pc = "ack" /\ poller'.next = poller.next
        /\ poller'.last = poller.last /\ poller'.offset = poller.next + 1
        /\ Handled' = Handled
    BY <1>2, <1>3, <2>1 DEF Poller, Handled
  <2>3. rows \in [Card -> Row] /\ rows[c] \in Row
    BY <1>2 DEF Inv, TypeOK
  <2>4. /\ rows'[c] \in Row /\ rows'[c].answer = Handled.value
        /\ rows'[c].status \in {"processing", "answered"}
    BY <1>2, <2>1, <2>3 DEF Answered, Row, Status
  <2>5. rows' \in [Card -> Row] /\ \A d \in Card : d # c => rows'[d] = rows[d]
    BY <2>1, <2>3, <2>4
  <2>6. TypeOK'
    BY <2>1, <2>2, <2>5 DEF Inv, TypeOK
  <2>7. calls[c] # "none" /\ transfers[c] = 0
    BY <1>2, <1>5 DEF Inv, UpdateOK, Handled, FreshOK
  <2>8. CallOK' /\ UpdateOK' /\ FreshOK'
    BY <2>1, <2>4, <2>5, <2>7 DEF Inv, CallOK, UpdateOK, FreshOK
  <2>9. BatchOK' /\ WorkOK'
    BY <1>1, <1>2, <2>1, <2>2, <2>4, <2>7 DEF Inv, BatchOK, WorkOK, Working
  <2>10. \A i \in 1 .. Len(updates) : Done(i) \/ i = poller.next => Done(i)'
    <3>1. ASSUME NEW i \in 1 .. Len(updates) PROVE updates[i].card \in Card
      <4>1. updates[i] \in [card : Card, value : Value]
        BY ElementOfSeq DEF Inv, TypeOK
      <4> QED BY <4>1
    <3> QED BY <1>2, <2>1, <2>4, <2>5, <3>1 DEF Done, Handled
  <2>11. SeenOK'
    <3> SUFFICES ASSUME NEW i \in 1 .. Len(updates),
                        i < poller.next + 1 \/ i < poller.next
                 PROVE  Done(i)'
      BY <2>1, <2>2 DEF SeenOK
    <3>1. i < poller.next \/ i = poller.next
      BY <1>2
    <3> QED BY <1>1, <2>10, <3>1 DEF Inv, SeenOK
  <2>12. TransferAtMostOnce' /\ CompletedIsDone'
    BY <2>1, <2>4, <2>5 DEF Inv, TransferAtMostOnce, CompletedIsDone
  <2>13. PressNotForgotten'
    <3>1. \A i \in 1 .. confirmed : i \in 1 .. Len(updates) /\ Done(i)
      BY DEF Inv, TypeOK, PressNotForgotten, Done
    <3> QED BY <2>1, <2>10, <3>1 DEF PressNotForgotten, Done
  <2> QED BY <2>6, <2>8, <2>9, <2>11, <2>12, <2>13 DEF Inv
<1> QED BY <1>4, <1>5

\* the steps that leave the update
LEMMA LeavingStep ==
    ASSUME Inv, TakeFails \/ AckFails \/ EditMessage(TRUE) \/ EditMessage(FALSE)
    PROVE  Inv'
<1>1. CASE TakeFails
  <2>1. poller.pc # "poll" /\ poller.next \in 1 .. Len(updates)
        /\ Len(updates) \in Nat /\ Len(updates) <= MaxUpdates /\ MaxUpdates \in Nat
    BY <1>1, InHand, ConstantsAssumption DEF TakeFails, Inv, TypeOK
  <2>2. poller.next + 1 \in Offset
    BY <2>1 DEF Offset
  <2>3. poller' = [NextUpdate(poller) EXCEPT !.offset = poller.next + 1]
    BY <1>1 DEF TakeFails, OffsetAfter
  <2>4. /\ poller' \in Poller /\ poller'.offset = poller.next + 1
        /\ poller'.pc = NextUpdate(poller).pc /\ poller'.next = NextUpdate(poller).next
        /\ poller'.last = NextUpdate(poller).last
    BY <2>1, <2>2, <2>3, NextUpdateOK DEF Poller
  <2>5. /\ excused' = excused \cup {poller.next} /\ excused \subseteq 1 .. Len(updates)
    BY <1>1 DEF TakeFails, Inv, TypeOK
  <2> QED BY <1>1, <2>1, <2>4, <2>5, NextUpdateOK, Advance DEF TakeFails
<1>2. CASE AckFails \/ EditMessage(TRUE) \/ EditMessage(FALSE)
  <2>1. Working /\ poller.pc # "poll" /\ poller' = NextUpdate(poller)
    BY <1>2 DEF AckFails, EditMessage, Working
  <2>2. rows[Handled.card].status # "pending" /\ excused \subseteq 1 .. Len(updates)
    BY <2>1 DEF Inv, WorkOK, TypeOK
  <2>3. buttons' \subseteq buttons /\ UNCHANGED <<rows, calls, updates, confirmed,
                                       files, transfers, restarts, excused>>
    BY <1>2 DEF AckFails, EditMessage
  <2> QED BY <2>1, <2>2, <2>3, NextUpdateOK, Advance
<1> QED BY <1>1, <1>2

LEMMA AckActStep == Inv /\ (Ack \/ Act) => Inv'
<1> SUFFICES ASSUME Inv, Ack \/ Act PROVE Inv'
  OBVIOUS
<1>1. /\ Working /\ transfers[Handled.card] = 0
      /\ UNCHANGED <<rows, calls, updates, confirmed, buttons, transfers,
                     restarts, excused, files>>
  BY DEF Ack, Act, Working, Inv, WorkOK
<1>2. CASE Ack
  <2> DEFINE pc == IF rows[Handled.card].kind = "invoice" THEN "act" ELSE "edit"
  <2>1. poller' = [poller EXCEPT !.pc = pc] /\ pc \in {"act", "edit"}
    BY <1>2 DEF Ack
  <2> HIDE DEF pc
  <2> QED BY <1>1, <2>1, Continue
<1>3. CASE Act
  <2> DEFINE pc == IF Handled.value # "transfer" THEN "store"
                   ELSE IF FileOf[Handled.card] \in files THEN "transfer" ELSE "fail"
  <2>1. /\ poller' = [poller EXCEPT !.pc = pc] /\ pc \in {"store", "transfer", "fail"}
        /\ pc = "store" => Handled.value # "transfer"
    BY <1>3 DEF Act
  <2> HIDE DEF pc
  <2> QED BY <1>1, <2>1, Continue
<1> QED BY <1>2, <1>3

\* the transfers, and what they leave of the file
LEMMA TransferStep ==
    ASSUME Inv, Transfer \/ \E reached \in BOOLEAN : TransferFails(reached)
    PROVE  Inv'
<1> DEFINE c == Handled.card
<1>1. /\ poller.pc = "transfer" /\ Working
      /\ UNCHANGED <<rows, calls, buttons, updates, confirmed, excused, restarts>>
  BY DEF Transfer, TransferFails, Working
<1>2. PICK pc \in {"store", "fail"}, n \in {0, 1} :
        /\ poller' = [poller EXCEPT !.pc = pc]
        /\ transfers' = [transfers EXCEPT ![c] = @ + n]
        /\ pc = "store" => n = 1 /\ files' = FilesAfter(c)
        /\ pc = "fail" => files' = files
  <2>1. transfers \in [Card -> Nat] /\ c \in Card
    BY <1>1, InHand DEF Inv, TypeOK
  <2>2. CASE Transfer
    BY <2>2 DEF Transfer
  <2>3. ASSUME NEW reached \in BOOLEAN, TransferFails(reached)
        PROVE  /\ poller' = [poller EXCEPT !.pc = "fail"] /\ files' = files
               /\ \E n \in {0, 1} : transfers' = [transfers EXCEPT ![c] = @ + n]
    <3>1. /\ poller' = [poller EXCEPT !.pc = "fail"] /\ files' = files
          /\ transfers' = [transfers EXCEPT ![c] = IF reached THEN @ + 1 ELSE @]
      BY <2>3 DEF TransferFails
    <3>2. CASE reached
      BY <3>1, <3>2
    <3>3. CASE ~reached
      <4>1. transfers' = [transfers EXCEPT ![c] = @ + 0]
        <5>1. transfers' = transfers
          BY <2>1, <3>1, <3>3
        <5>2. transfers[c] \in Nat /\ transfers[c] + 0 = transfers[c]
          BY <2>1
        <5> QED BY <2>1, <5>1, <5>2
      <4> QED BY <3>1, <4>1
    <3> QED BY <3>2, <3>3
  <2> QED BY <2>2, <2>3
<1>3. /\ poller.pc # "poll" /\ poller' \in Poller /\ poller'.pc = pc
      /\ poller'.next = poller.next /\ poller'.offset = poller.offset
      /\ poller'.last = poller.last /\ Handled' = Handled /\ c \in Card
  BY <1>1, <1>2, InHand DEF Poller, Handled
<1>4. /\ transfers \in [Card -> Nat] /\ transfers[c] = 0
      /\ rows[c].status \notin {"none", "pending"} /\ rows[c].answer = Handled.value
  BY <1>1 DEF Inv, TypeOK, WorkOK
<1>5. /\ transfers' \in [Card -> Nat] /\ transfers'[c] = n
      /\ \A d \in Card : d # c => transfers'[d] = transfers[d]
  BY <1>2, <1>3, <1>4
<1>6. files' \subseteq files /\ (pc = "store" /\ c \in Consumed => FileOf[c] \notin files')
  BY <1>2 DEF FilesAfter
<1>7. rows[c].status # "completed" \/ rows[c].answer # "transfer"
  BY <1>3, <1>4 DEF Inv, CompletedIsDone
<1>8. TypeOK'
  BY <1>1, <1>3, <1>5, <1>6 DEF Inv, TypeOK
<1>9. CallOK' /\ UpdateOK'
  BY <1>1 DEF Inv, CallOK, UpdateOK
<1>10. FreshOK'
  BY <1>1, <1>4, <1>5 DEF Inv, FreshOK
<1>11. BatchOK' /\ SeenOK'
  BY <1>1, <1>3 DEF Inv, BatchOK, SeenOK, Done
<1>12. WorkOK'
  BY <1>1, <1>2, <1>3, <1>4, <1>5, <1>6 DEF WorkOK, Working
<1>13. TransferAtMostOnce'
  BY <1>5 DEF Inv, TransferAtMostOnce
<1>14. CompletedIsDone'
  BY <1>1, <1>5, <1>6, <1>7 DEF Inv, CompletedIsDone
<1>15. PressNotForgotten'
  BY <1>1 DEF Inv, PressNotForgotten
<1> QED BY <1>8, <1>9, <1>10, <1>11, <1>12, <1>13, <1>14, <1>15 DEF Inv

LEMMA StoreFailsStep == Inv /\ StoreFails => Inv'
<1> SUFFICES ASSUME Inv, StoreFails PROVE Inv'
  OBVIOUS
<1>1. /\ Working /\ poller.pc # "poll"
      /\ UNCHANGED <<rows, calls, buttons, updates, confirmed, files, transfers,
                     excused, restarts>>
  BY DEF StoreFails, Working
<1>2. CASE poller.pc = "store"
  <2>1. poller' = [poller EXCEPT !.pc = "fail"]
    BY <1>2 DEF StoreFails
  <2> QED BY <1>1, <2>1, Continue
<1>3. CASE poller.pc # "store"
  <2>1. poller' = NextUpdate(poller)
    BY <1>3 DEF StoreFails
  <2>2. rows[Handled.card].status # "pending" /\ excused \subseteq 1 .. Len(updates)
    BY <1>1 DEF Inv, WorkOK, TypeOK
  <2> QED BY <1>1, <2>1, <2>2, NextUpdateOK, Advance
<1> QED BY <1>2, <1>3

LEMMA StoreOutcomeStep == Inv /\ StoreOutcome => Inv'
<1> SUFFICES ASSUME Inv, StoreOutcome PROVE Inv'
  OBVIOUS
<1> DEFINE c == Handled.card
           status == IF poller.pc = "store" THEN "completed" ELSE "failed"
<1>1. /\ poller.pc \in {"store", "fail"} /\ Working /\ poller.pc # "poll"
      /\ rows' = [rows EXCEPT ![c].status = status]
      /\ poller' = [poller EXCEPT !.pc = "edit"]
      /\ UNCHANGED <<calls, buttons, updates, confirmed, files, transfers,
                     excused, restarts>>
  BY DEF StoreOutcome, Working
<1>2. /\ status \in {"completed", "failed"}
      /\ status = "completed" => poller.pc = "store"
  BY <1>1
<1> HIDE DEF status
<1>3. /\ poller' \in Poller /\ poller'.pc = "edit"
      /\ poller'.next = poller.next /\ poller'.offset = poller.offset
      /\ poller'.last = poller.last /\ Handled' = Handled /\ c \in Card
  BY <1>1, InHand DEF Poller, Handled
<1>4. /\ rows \in [Card -> Row] /\ rows[c] \in Row
      /\ rows[c].status \notin {"none", "pending"} /\ rows[c].answer = Handled.value
  BY <1>1, <1>3 DEF Inv, TypeOK, WorkOK
<1>5. /\ rows'[c] \in Row /\ rows'[c].answer = Handled.value /\ rows'[c].status = status
  BY <1>1, <1>2, <1>3, <1>4 DEF Row, Status
<1>6. rows' \in [Card -> Row] /\ \A d \in Card : d # c => rows'[d] = rows[d]
  BY <1>1, <1>4, <1>5
<1>7. TypeOK'
  BY <1>1, <1>3, <1>6 DEF Inv, TypeOK
<1>8. CallOK'
  BY <1>1, <1>2, <1>4, <1>5, <1>6 DEF Inv, CallOK
<1>9. UpdateOK' /\ FreshOK'
  BY <1>1, <1>2, <1>5, <1>6 DEF Inv, UpdateOK, FreshOK
<1>10. BatchOK'
  BY <1>1, <1>3 DEF Inv, BatchOK
<1>11. WorkOK'
  BY <1>1, <1>2, <1>3, <1>4, <1>5 DEF Inv, WorkOK, Working
<1>12. ASSUME NEW i \in 1 .. Len(updates), Done(i) PROVE Done(i)'
  <2>1. updates[i] \in [card : Card, value : Value]
    BY ElementOfSeq DEF Inv, TypeOK
  <2> QED BY <1>1, <1>2, <1>5, <1>6, <1>12, <2>1 DEF Done
<1>13. SeenOK'
  BY <1>1, <1>3, <1>12 DEF Inv, SeenOK
<1>14. TransferAtMostOnce'
  BY <1>1 DEF Inv, TransferAtMostOnce
<1>15. CompletedIsDone'
  BY <1>1, <1>2, <1>4, <1>5, <1>6 DEF Inv, WorkOK, CompletedIsDone
<1>16. PressNotForgotten'
  <2>1. \A i \in 1 .. confirmed : i \in 1 .. Len(updates) /\ Done(i)
    BY DEF Inv, TypeOK, PressNotForgotten, Done
  <2> QED BY <1>1, <1>12, <2>1 DEF PressNotForgotten, Done
<1> QED BY <1>7, <1>8, <1>9, <1>10, <1>11, <1>13, <1>14, <1>15, <1>16 DEF Inv

LEMMA PollStep == Inv /\ (Poll \/ PollFails) => Inv'
<1> SUFFICES ASSUME Inv, Poll \/ PollFails PROVE Inv'
  OBVIOUS
<1>1. /\ poller.pc = "poll" /\ confirmed' = Confirmed(poller.offset)
      /\ UNCHANGED <<rows, calls, buttons, updates, files, transfers, excused,
                     restarts>>
  BY DEF Poll, PollFails
<1>2. /\ confirmed' \in confirmed .. Len(updates)
      /\ \A i \in 1 .. confirmed' : Done(i)
  BY <1>1, ConfirmedOK
<1>3. /\ poller \in Poller /\ Len(updates) \in Nat /\ Len(updates) <= MaxUpdates
      /\ MaxUpdates \in Nat /\ confirmed \in Nat
  BY ConstantsAssumption DEF Inv, TypeOK
<1>4. PressNotForgotten'
  BY <1>1, <1>2 DEF PressNotForgotten, Done
<1>5. CASE poller' = poller
  <2>1. TypeOK'
    BY <1>1, <1>2, <1>3, <1>5 DEF Inv, TypeOK
  <2>2. BatchOK' /\ WorkOK' /\ SeenOK'
    BY <1>1, <1>5 DEF Inv, BatchOK, WorkOK, Working, SeenOK, Done
  <2> QED BY <1>1, <1>4, <2>1, <2>2, CardsFrame DEF Inv
<1>6. CASE /\ confirmed' < Len(updates)
           /\ poller' = [poller EXCEPT !.pc = "take", !.next = confirmed' + 1,
                                       !.last = Len(updates)]
  <2>1. confirmed' + 1 \in Offset /\ Len(updates) \in Offset
    BY <1>2, <1>3, <1>6 DEF Offset
  <2>2. /\ poller' \in Poller /\ poller'.pc = "take" /\ poller'.next = confirmed' + 1
        /\ poller'.last = Len(updates) /\ poller'.offset = poller.offset
    BY <1>3, <1>6, <2>1 DEF Poller
  <2>3. TypeOK'
    BY <1>1, <1>2, <1>3, <2>2 DEF Inv, TypeOK
  <2>4. BatchOK' /\ WorkOK'
    BY <1>1, <1>2, <1>3, <1>6, <2>2 DEF Inv, BatchOK, WorkOK, Working
  <2>5. SeenOK'
    <3> SUFFICES ASSUME NEW i \in 1 .. Len(updates),
                        i < poller.offset \/ i < confirmed' + 1
                 PROVE  Done(i)'
      BY <1>1, <2>2 DEF SeenOK
    <3>1. CASE i < poller.offset
      BY <1>1, <3>1 DEF Inv, SeenOK, Done
    <3>2. CASE i < confirmed' + 1
      BY <1>1, <1>2, <1>3, <3>2 DEF Done
    <3> QED BY <3>1, <3>2
  <2> QED BY <1>1, <1>4, <2>3, <2>4, <2>5, CardsFrame DEF Inv
<1> QED BY <1>5, <1>6 DEF Poll, PollFails

\* the steps of the operator's side that leave the poller alone
LEMMA PollerFrame ==
    ASSUME Inv, UNCHANGED <<rows, updates, confirmed, poller, transfers>>,
           files' \subseteq files, excused \subseteq excused'
    PROVE  BatchOK' /\ WorkOK' /\ SeenOK' /\ PressNotForgotten'
<1>1. BatchOK' /\ SeenOK' /\ PressNotForgotten'
  BY DEF Inv, BatchOK, SeenOK, Done, PressNotForgotten
<1>2. WorkOK'
  BY DEF Inv, WorkOK, Working, Handled
<1> QED BY <1>1, <1>2

LEMMA AskStep ==
    ASSUME Inv, NEW c \in Card, NEW kind \in {"generic", "invoice"}, Ask(c, kind)
    PROVE  Inv'
<1>1. /\ calls[c] = "none" /\ calls' = [calls EXCEPT ![c] = "send"]
      /\ rows' = [rows EXCEPT ![c].status = "pending", ![c].kind = kind]
      /\ UNCHANGED <<buttons, updates, confirmed, poller, files, transfers,
                     excused, restarts>>
  BY DEF Ask
<1>2. /\ rows \in [Card -> Row] /\ rows[c] \in Row /\ rows[c].status = "none"
      /\ rows[c].answer = "none" /\ transfers[c] = 0
      /\ calls \in [Card -> {"none", "send", "mark", "over"}]
  BY <1>1 DEF Inv, TypeOK, CallOK, FreshOK
<1>3. /\ rows' \in [Card -> Row] /\ rows'[c].status = "pending"
      /\ rows'[c].answer = "none" /\ \A d \in Card : d # c => rows'[d] = rows[d]
  BY <1>1, <1>2 DEF Row, Status
<1>4. calls' \in [Card -> {"none", "send", "mark", "over"}] /\ calls'[c] # "none"
      /\ \A d \in Card : d # c => calls'[d] = calls[d]
  BY <1>1, <1>2
<1>5. ASSUME NEW i \in 1 .. Len(updates)
      PROVE  updates[i].card \in Card /\ updates[i].card # c
  <2>1. updates[i] \in [card : Card, value : Value]
    BY ElementOfSeq DEF Inv, TypeOK
  <2> QED BY <1>1, <2>1 DEF Inv, UpdateOK
<1>6. TypeOK'
  BY <1>1, <1>3, <1>4 DEF Inv, TypeOK
<1>7. CallOK' /\ FreshOK' /\ TransferAtMostOnce' /\ CompletedIsDone'
  BY <1>1, <1>2, <1>3, <1>4
  DEF Inv, CallOK, FreshOK, TransferAtMostOnce, CompletedIsDone
<1>8. UpdateOK' /\ BatchOK' /\ SeenOK'
  BY <1>1, <1>3, <1>4, <1>5 DEF Inv, UpdateOK, BatchOK, SeenOK, Done
<1>9. WorkOK'
  <2>1. CASE poller.pc = "poll" \/ poller.pc = "take"
    BY <1>1, <2>1 DEF WorkOK, Working
  <2>2. CASE poller.pc # "poll"
    <3>1. Handled.card \in Card /\ Handled.card # c /\ Handled' = Handled
      BY <1>1, <1>5, <2>2, InHand DEF Handled
    <3> QED BY <1>1, <1>3, <3>1 DEF Inv, WorkOK, Working
  <2> QED BY <2>1, <2>2
<1>10. PressNotForgotten'
  <2>1. confirmed \in 0 .. Len(updates) /\ Len(updates) \in Nat
    BY DEF Inv, TypeOK
  <2> QED BY <1>1, <1>3, <1>5, <2>1 DEF Inv, PressNotForgotten
<1> QED BY <1>6, <1>7, <1>8, <1>9, <1>10 DEF Inv

LEMMA SendStep ==
    ASSUME Inv, NEW c \in Card,
           MarkDelivered(c) \/ \E shown, ok \in BOOLEAN : SendButtons(c, shown, ok)
    PROVE  Inv'
<1>1. /\ calls[c] # "none" /\ calls' \in {[calls EXCEPT ![c] = "mark"],
                                         [calls EXCEPT ![c] = "over"]}
      /\ buttons' \subseteq buttons \cup {c}
      /\ UNCHANGED <<rows, updates, confirmed, poller, files, transfers, excused,
                     restarts>>
  BY DEF MarkDelivered, Marked, SendButtons
<1>2. calls \in [Card -> {"none", "send", "mark", "over"}] /\ buttons \subseteq Card
  BY DEF Inv, TypeOK
<1>3. /\ calls' \in [Card -> {"none", "send", "mark", "over"}] /\ calls'[c] # "none"
      /\ \A d \in Card : d # c => calls'[d] = calls[d]
  BY <1>1, <1>2
<1>4. TypeOK'
  BY <1>1, <1>2, <1>3 DEF Inv, TypeOK
<1>5. CallOK' /\ FreshOK' /\ TransferAtMostOnce' /\ CompletedIsDone'
  BY <1>1, <1>3 DEF Inv, CallOK, FreshOK, TransferAtMostOnce, CompletedIsDone
<1>6. ASSUME NEW i \in 1 .. Len(updates) PROVE calls'[updates[i].card] # "none"
  <2>1. updates[i] \in [card : Card, value : Value]
    BY ElementOfSeq DEF Inv, TypeOK
  <2> QED BY <1>3, <2>1 DEF Inv, UpdateOK
<1>7. UpdateOK'
  BY <1>1, <1>6 DEF UpdateOK
<1> QED BY <1>1, <1>4, <1>5, <1>7, PollerFrame DEF Inv

LEMMA PressStep ==
    ASSUME Inv, NEW c \in Card, NEW v \in Value, Press(c, v) PROVE Inv'
<1> DEFINE press == [card |-> c, value |-> v]
<1>1. /\ c \in buttons /\ Len(updates) < MaxUpdates
      /\ updates' = Append(updates, press)
      /\ UNCHANGED <<rows, calls, buttons, confirmed, poller, files, transfers,
                     excused, restarts>>
  BY DEF Press
<1>2. /\ updates \in Seq([card : Card, value : Value])
      /\ press \in [card : Card, value : Value] /\ Len(updates) \in Nat
      /\ MaxUpdates \in Nat
  BY ConstantsAssumption DEF Inv, TypeOK
<1>3. /\ updates' \in Seq([card : Card, value : Value])
      /\ Len(updates') = Len(updates) + 1 /\ updates'[Len(updates) + 1] = press
      /\ \A i \in 1 .. Len(updates) : updates'[i] = updates[i]
  BY <1>1, <1>2, AppendProperties
<1>4. calls[c] # "none" /\ press.card = c
  BY <1>1 DEF Inv, CallOK
<1> HIDE DEF press
<1>5. TypeOK'
  BY <1>1, <1>2, <1>3 DEF Inv, TypeOK
<1>6. CallOK' /\ FreshOK' /\ TransferAtMostOnce' /\ CompletedIsDone'
  BY <1>1 DEF Inv, CallOK, FreshOK, TransferAtMostOnce, CompletedIsDone
<1>7. UpdateOK'
  BY <1>1, <1>2, <1>3, <1>4 DEF Inv, UpdateOK
<1>8. poller \in Poller /\ poller.offset \in Nat /\ poller.next \in Nat
      /\ poller.last \in Nat
  BY DEF Inv, TypeOK, Poller, Offset
<1>9. BatchOK'
  BY <1>1, <1>2, <1>3, <1>8 DEF Inv, BatchOK
<1>10. WorkOK'
  <2>1. CASE poller.pc = "poll"
    BY <1>1, <2>1 DEF WorkOK, Working
  <2>2. CASE poller.pc # "poll"
    <3>1. Handled' = Handled
      BY <1>1, <1>3, <2>2, InHand DEF Handled
    <3> QED BY <1>1, <3>1 DEF Inv, WorkOK, Working
  <2> QED BY <2>1, <2>2
<1>11. ASSUME NEW i \in 1 .. Len(updates) PROVE Done(i) => Done(i)'
  BY <1>1, <1>3 DEF Done
<1>12. SeenOK'
  <2> SUFFICES ASSUME NEW i \in 1 .. Len(updates) + 1,
                      i < poller.offset \/ (poller.pc # "poll" /\ i < poller.next)
               PROVE  Done(i)'
    BY <1>1, <1>3 DEF SeenOK
  <2>1. i \in 1 .. Len(updates)
    BY <1>2, <1>8 DEF Inv, BatchOK
  <2> QED BY <1>11, <2>1 DEF Inv, SeenOK
<1>13. PressNotForgotten'
  <2>1. \A i \in 1 .. confirmed : i \in 1 .. Len(updates) /\ Done(i)
    BY DEF Inv, TypeOK, PressNotForgotten, Done
  <2> QED BY <1>1, <1>11, <2>1 DEF PressNotForgotten, Done
<1> QED BY <1>5, <1>6, <1>7, <1>9, <1>10, <1>12, <1>13 DEF Inv

LEMMA DiagnoseStep ==
    ASSUME Inv, NEW offset \in Offset, Diagnose(offset) PROVE Inv'
<1>1. /\ offset - 1 \in confirmed + 1 .. Len(updates)
      /\ confirmed' = Confirmed(offset)
      /\ excused' = excused \cup (confirmed + 1 .. offset - 1)
      /\ UNCHANGED <<rows, calls, buttons, updates, poller, files, transfers,
                     restarts>>
  BY DEF Diagnose
<1>2. /\ confirmed \in 0 .. Len(updates) /\ Len(updates) \in Nat /\ offset \in Nat
      /\ MaxUpdates \in Nat
  BY ConstantsAssumption DEF Inv, TypeOK, Offset
<1>3. confirmed' \in 0 .. Len(updates) /\ confirmed' = offset - 1
  BY <1>1, <1>2 DEF Confirmed
<1>4. TypeOK'
  BY <1>1, <1>2, <1>3 DEF Inv, TypeOK
<1>5. PressNotForgotten'
  BY <1>1, <1>2, <1>3 DEF Inv, PressNotForgotten
<1>6. BatchOK' /\ SeenOK'
  BY <1>1 DEF Inv, BatchOK, SeenOK, Done
<1>7. WorkOK'
  BY <1>1 DEF Inv, WorkOK, Working, Handled
<1> QED BY <1>1, <1>4, <1>5, <1>6, <1>7, CardsFrame DEF Inv

LEMMA ExpireStep == ASSUME Inv, NEW f \in File, Expire(f) PROVE Inv'
<1>1. TypeOK'
  BY DEF Expire, Inv, TypeOK
<1> QED BY <1>1, CardsFrame, PollerFrame DEF Expire, Inv

LEMMA RestartStep == Inv /\ Restart => Inv'
<1> SUFFICES ASSUME Inv, Restart PROVE Inv'
  OBVIOUS
<1>1. TypeOK'
  BY ConstantsAssumption DEF Restart, KeepUpdates, Started, Poller, Offset, Inv, TypeOK
<1>2. CallOK' /\ FreshOK' /\ TransferAtMostOnce' /\ CompletedIsDone'
  BY DEF Restart, Inv, TypeOK, CallOK, FreshOK, TransferAtMostOnce, CompletedIsDone
<1>3. ASSUME NEW i \in 1 .. Len(updates) PROVE calls'[updates[i].card] # "none"
  <2>1. updates[i] \in [card : Card, value : Value]
    BY ElementOfSeq DEF Inv, TypeOK
  <2> QED BY <2>1 DEF Restart, Inv, UpdateOK
<1>4. UpdateOK'
  BY <1>3 DEF Restart, UpdateOK
<1>5. BatchOK' /\ WorkOK' /\ SeenOK'
  BY DEF Restart, Started, Inv, TypeOK, BatchOK, WorkOK, Working, SeenOK
<1>6. PressNotForgotten'
  BY DEF Restart, KeepUpdates, Inv, PressNotForgotten
<1> QED BY <1>1, <1>2, <1>4, <1>5, <1>6 DEF Inv

LEMMA StepInv == Inv /\ [Next]_vars => Inv'
<1> SUFFICES ASSUME Inv, [Next]_vars PROVE Inv'
  OBVIOUS
<1>1. CASE PollerStep
  BY <1>1, PollStep, TakeStep, AckActStep, TransferStep, StoreOutcomeStep,
     LeavingStep DEF PollerStep
<1>2. CASE UNCHANGED vars
  <2>1. TypeOK'
    BY <1>2 DEF vars, Inv, TypeOK
  <2> QED BY <1>2, <2>1, CardsFrame, PollerFrame DEF vars, Inv
<1> QED
  BY <1>1, <1>2, PollStep, LeavingStep, StoreFailsStep, TransferStep, AskStep,
     SendStep, PressStep, ExpireStep, DiagnoseStep, RestartStep DEF Next

\* Rows, calls, updates and the poller keep their types, whatever is pressed,
\* redelivered or restarted.
THEOREM ButtonRequestsType == Spec => []TypeOK
<1>1. Inv => TypeOK
  BY DEF Inv
<1> QED BY <1>1, InitInv, StepInv, PTL DEF Spec

\* A file is transferred at most once for a card, however often the button is
\* pressed, the update delivered or the server restarted.
THEOREM TransferredAtMostOnce == Spec => []TransferAtMostOnce
<1>1. Inv => TransferAtMostOnce
  BY DEF Inv
<1> QED BY <1>1, InitInv, StepInv, PTL DEF Spec

\* A card is reported completed only when its file was transferred.
THEOREM ReportIsTrue == Spec => []CompletedIsDone
<1>1. Inv => CompletedIsDone
  BY DEF Inv
<1> QED BY <1>1, InitInv, StepInv, PTL DEF Spec

\* Telegram forgets a press only when its card is answered, or when the press
\* was refused in the open.
THEOREM NoPressForgotten == Spec => []PressNotForgotten
<1>1. Inv => PressNotForgotten
  BY DEF Inv
<1> QED BY <1>1, InitInv, StepInv, PTL DEF Spec

\* the step of AnswerIsFinal
AnswerKept(c) ==
    rows[c].answer # "none" => /\ rows'[c].answer = rows[c].answer
                               /\ rows'[c].status # "pending"

LEMMA AnswerStep == ASSUME Inv, [Next]_vars, NEW c \in Card PROVE AnswerKept(c)
<1> SUFFICES ASSUME rows[c].answer # "none"
             PROVE  rows'[c].answer = rows[c].answer /\ rows'[c].status # "pending"
  BY DEF AnswerKept
<1>1. /\ rows \in [Card -> Row] /\ rows[c] \in Row
      /\ rows[c].status \notin {"none", "pending"} /\ calls[c] # "none"
  BY DEF Inv, TypeOK, FreshOK, CallOK
<1>2. CASE UNCHANGED rows
  BY <1>1, <1>2
<1>3. CASE Take
  <2>1. CASE Handled.card = c
    BY <1>1, <1>3, <2>1 DEF Take, Taken
  <2>2. CASE Handled.card # c
    BY <1>1, <1>3, <2>2 DEF Take
  <2> QED BY <2>1, <2>2
<1>4. CASE StoreOutcome
  BY <1>1, <1>4 DEF StoreOutcome, Row
<1>5. ASSUME NEW d \in Card, NEW kind \in {"generic", "invoice"}, Ask(d, kind)
      PROVE  rows'[c] = rows[c]
  BY <1>1, <1>5 DEF Ask
<1>6. CASE PollerStep
  BY <1>2, <1>3, <1>4, <1>6
  DEF PollerStep, Poll, Ack, Act, Transfer, EditMessage
<1>7. CASE PollFails \/ TakeFails \/ AckFails \/ StoreFails \/ EditMessage(FALSE)
  BY <1>2, <1>7 DEF PollFails, TakeFails, AckFails, StoreFails, EditMessage
<1>8. ASSUME NEW d \in Card,
             MarkDelivered(d) \/ (\E v \in Value : Press(d, v))
             \/ \E shown, ok \in BOOLEAN : SendButtons(d, shown, ok)
      PROVE  UNCHANGED rows
  BY <1>8 DEF MarkDelivered, Marked, Press, SendButtons
<1>9. CASE \/ \E reached \in BOOLEAN : TransferFails(reached)
           \/ \E f \in File : Expire(f)
           \/ \E offset \in Offset : Diagnose(offset)
           \/ Restart \/ UNCHANGED vars
  BY <1>2, <1>9 DEF TransferFails, Expire, Diagnose, Restart, vars
<1> QED BY <1>1, <1>2, <1>5, <1>6, <1>7, <1>8, <1>9 DEF Next

\* What the operator chose first stays, and its card is never open again.
THEOREM AnswerStays == Spec => AnswerIsFinal
<1>1. Inv /\ [Next]_vars =>
        [\A c \in Card : rows[c].answer # "none" =>
            /\ rows'[c].answer = rows[c].answer
            /\ rows'[c].status # "pending"]_vars
  BY AnswerStep DEF AnswerKept
<1> QED BY <1>1, InitInv, StepInv, PTL DEF Spec, AnswerIsFinal
=============================================================================
