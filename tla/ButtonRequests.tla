--------------------------- MODULE ButtonRequests ---------------------------
(***************************************************************************)
(* The questions the server asks its operator through Telegram buttons:    *)
(* the tools of app/mcp_server.py that send a card, the telegram_requests  *)
(* table, the poller of app/telegram_bot.py and the action it performs for *)
(* an invoice card (the transfer of a private temporary file).             *)
(*                                                                         *)
(* Telegram keeps the updates (button presses) until a getUpdates call     *)
(* with a greater offset confirms them.  The poller handles one update at  *)
(* a time and keeps its offset in memory only, so a restart delivers again *)
(* what was not confirmed.                                                 *)
(***************************************************************************)
EXTENDS Naturals, Sequences

CONSTANTS
    Card,         \* request_id of the cards asked (bound)
    File,         \* private temporary files
    FileOf,       \* card -> the file an invoice card is about
    Consumed,     \* the cards asked with consume_after_transfer
    MaxUpdates,   \* presses in a behaviour (bound)
    MaxRestarts   \* restarts of the server in a behaviour (bound)

ASSUME ConstantsAssumption ==
    /\ FileOf \in [Card -> File] /\ Consumed \subseteq Card
    /\ {MaxUpdates, MaxRestarts} \subseteq Nat

VARIABLES
    rows,       \* telegram_requests
    calls,      \* the tool call that asks a card: where it is
    buttons,    \* the cards whose buttons the operator sees
    updates,    \* the presses so far; the update_id is the position
    confirmed,  \* Telegram no longer delivers updates up to this one
    poller,     \* run_telegram_poller and the update it handles
    files,      \* the temporary files that still exist
    transfers,  \* card -> how often its file reached the destination
    excused,    \* updates refused with an error or taken by the tool
    restarts

vars == <<rows, calls, buttons, updates, confirmed, poller, files, transfers,
          excused, restarts>>

\* "keep" stands for VALIDATE, REVIEW, REJECT and the choices of a generic
\* card, which only record an answer; "transfer" for NEXTCLOUD and DOLIBARR
Value  == {"keep", "transfer"}
Status == {"none", "pending", "answered", "processing", "completed", "failed"}
Row    == [status : Status, kind : {"generic", "invoice"},
           answer : Value \cup {"none"}]
Offset == 0 .. MaxUpdates + 1
Poller == [pc : {"poll", "take", "ack", "act", "transfer", "store", "fail",
                  "edit"},
           offset : Offset, next : Offset, last : Offset]

TypeOK ==
    /\ rows \in [Card -> Row]
    /\ calls \in [Card -> {"none", "send", "mark", "over"}]
    /\ buttons \subseteq Card
    /\ updates \in Seq([card : Card, value : Value])
    /\ Len(updates) <= MaxUpdates
    /\ confirmed \in 0 .. Len(updates)
    /\ poller \in Poller
    /\ files \subseteq File
    /\ transfers \in [Card -> Nat]
    /\ excused \subseteq 1 .. Len(updates)
    /\ restarts \in 0 .. MaxRestarts

\* offset = None is 0
Started == [pc |-> "poll", offset |-> 0, next |-> 0, last |-> 0]

Init ==
    /\ rows = [c \in Card |-> [status |-> "none", kind |-> "generic",
                               answer |-> "none"]]
    /\ calls = [c \in Card |-> "none"]
    /\ buttons = {}
    /\ updates = <<>>
    /\ confirmed = 0
    /\ poller = Started
    /\ files = File
    /\ transfers = [c \in Card |-> 0]
    /\ excused = {}
    /\ restarts = 0

-----------------------------------------------------------------------------
(* Asking: telegram_send_buttons, telegram_request_invoice_validation.     *)

\* The row is committed before the message is sent.  Only one of the tools
\* looks for the file first; the other takes the card's kind as it comes.
Ask(c, kind) ==
    /\ calls[c] = "none"
    /\ rows' = [rows EXCEPT ![c].status = "pending", ![c].kind = kind]
    /\ calls' = [calls EXCEPT ![c] = "send"]
    /\ UNCHANGED <<buttons, updates, confirmed, poller, files, transfers,
                   excused, restarts>>

\* the message may be shown although the call fails
SendButtons(c, shown, ok) ==
    /\ calls[c] = "send"
    /\ ok => shown
    /\ buttons' = IF shown THEN buttons \cup {c} ELSE buttons
    /\ calls' = [calls EXCEPT ![c] = IF ok THEN "mark" ELSE "over"]
    /\ UNCHANGED <<rows, updates, confirmed, poller, files, transfers, excused,
                   restarts>>

\* Mutant: the row is written as it was created.
WholeRowMarked(c) == [rows EXCEPT ![c].status = "pending"]
\* the ORM writes only chat_id and message_id, which nothing reads
Marked(c) == rows
\* mark_request_delivered runs while the operator may have answered
MarkDelivered(c) ==
    /\ calls[c] = "mark"
    /\ rows' = Marked(c)
    /\ calls' = [calls EXCEPT ![c] = "over"]
    /\ UNCHANGED <<buttons, updates, confirmed, poller, files, transfers,
                   excused, restarts>>

-----------------------------------------------------------------------------
(* Telegram, the operator and the clock.                                   *)

Press(c, v) ==
    /\ c \in buttons
    /\ Len(updates) < MaxUpdates
    /\ v = "transfer" => rows[c].kind = "invoice"
    /\ updates' = Append(updates, [card |-> c, value |-> v])
    /\ UNCHANGED <<rows, calls, buttons, confirmed, poller, files, transfers,
                   excused, restarts>>

\* getUpdates(offset) confirms every update before offset
Confirmed(offset) == IF offset > confirmed + 1 THEN offset - 1 ELSE confirmed

\* the tool telegram_get_updates, called with an offset
Diagnose(offset) ==
    /\ offset - 1 \in confirmed + 1 .. Len(updates)
    /\ confirmed' = Confirmed(offset)
    /\ excused' = excused \cup (confirmed + 1 .. offset - 1)
    /\ UNCHANGED <<rows, calls, buttons, updates, poller, files, transfers,
                   restarts>>

\* a file's lifetime ends, or another tool consumes it
Expire(f) ==
    /\ f \in files
    /\ files' = files \ {f}
    /\ UNCHANGED <<rows, calls, buttons, updates, confirmed, poller, transfers,
                   excused, restarts>>

-----------------------------------------------------------------------------
(* The poller.                                                             *)

\* the next update of the batch, or the next poll
NextUpdate(p) == [p EXCEPT !.next = @ + 1,
                           !.pc = IF p.next < p.last THEN "take" ELSE "poll"]

Poll ==
    /\ poller.pc = "poll"
    /\ confirmed' = Confirmed(poller.offset)
    /\ poller' = IF confirmed' < Len(updates)
                 THEN [poller EXCEPT !.pc = "take", !.next = confirmed' + 1,
                                     !.last = Len(updates)]
                 ELSE poller
    /\ UNCHANGED <<rows, calls, buttons, updates, files, transfers, excused,
                   restarts>>

\* the request or its reply is lost, or another getUpdates runs: back off
PollFails ==
    /\ poller.pc = "poll"
    /\ confirmed' = Confirmed(poller.offset)
    /\ UNCHANGED <<rows, calls, buttons, updates, poller, files, transfers,
                   excused, restarts>>

Handled == updates[poller.next]

\* Mutant: the offset is the update's own id.
SameOffset(id) == id
\* Mutant: the offset skips one update.
SkippedOffset(id) == id + 2
OffsetAfter(id) == id + 1

\* _handle_button_answer_callback: status must be pending
Taken(row) == row.status = "pending"

\* Mutant: the row stays pending until the action is done.
StillPending(row, v) == [row EXCEPT !.answer = v]
Answered(row, v) ==
    [row EXCEPT !.answer = v,
                !.status = IF row.kind = "invoice" THEN "processing"
                                                   ELSE "answered"]

\* the offset moves before the update is handled
Take ==
    LET c == Handled.card IN
    /\ poller.pc = "take"
    /\ IF Taken(rows[c])
       THEN /\ rows' = [rows EXCEPT ![c] = Answered(rows[c], Handled.value)]
            /\ poller' = [poller EXCEPT !.offset = OffsetAfter(poller.next),
                                        !.pc = "ack"]
       ELSE /\ UNCHANGED rows
            /\ poller' = [NextUpdate(poller) EXCEPT
                             !.offset = OffsetAfter(poller.next)]
    /\ UNCHANGED <<calls, buttons, updates, confirmed, files, transfers,
                   excused, restarts>>

\* the database refuses: handle_update answers "Erreur interne"
TakeFails ==
    /\ poller.pc = "take"
    /\ poller' = [NextUpdate(poller) EXCEPT !.offset = OffsetAfter(poller.next)]
    /\ excused' = excused \cup {poller.next}
    /\ UNCHANGED <<rows, calls, buttons, updates, confirmed, files, transfers,
                   restarts>>

\* answer_callback_query
Ack ==
    /\ poller.pc = "ack"
    /\ poller' = [poller EXCEPT !.pc = IF rows[Handled.card].kind = "invoice"
                                       THEN "act" ELSE "edit"]
    /\ UNCHANGED <<rows, calls, buttons, updates, confirmed, files, transfers,
                   excused, restarts>>

\* Telegram is unreachable, or the query is too old: the exception leaves the
\* handler before the action, and the row stays as it is
AckFails ==
    /\ poller.pc = "ack"
    /\ poller' = NextUpdate(poller)
    /\ UNCHANGED <<rows, calls, buttons, updates, confirmed, files, transfers,
                   excused, restarts>>

\* _process_invoice_action up to its first await
Act ==
    /\ poller.pc = "act"
    /\ poller' = [poller EXCEPT !.pc =
          IF Handled.value # "transfer" THEN "store"
          ELSE IF FileOf[Handled.card] \in files THEN "transfer" ELSE "fail"]
    /\ UNCHANGED <<rows, calls, buttons, updates, confirmed, files, transfers,
                   excused, restarts>>

\* Mutant: the file is left to expire.
FilesKept(c) == files
FilesAfter(c) == IF c \in Consumed THEN files \ {FileOf[c]} ELSE files

\* the upload returns: the file is deleted before anything else runs
Transfer ==
    LET c == Handled.card IN
    /\ poller.pc = "transfer"
    /\ transfers' = [transfers EXCEPT ![c] = @ + 1]
    /\ files' = FilesAfter(c)
    /\ poller' = [poller EXCEPT !.pc = "store"]
    /\ UNCHANGED <<rows, calls, buttons, updates, confirmed, excused, restarts>>

\* it raises: the file is gone, the destination refused, or it was stored and
\* the reply was lost
TransferFails(reached) ==
    /\ poller.pc = "transfer"
    /\ transfers' = [transfers EXCEPT ![Handled.card] =
                        IF reached THEN @ + 1 ELSE @]
    /\ poller' = [poller EXCEPT !.pc = "fail"]
    /\ UNCHANGED <<rows, calls, buttons, updates, confirmed, files, excused,
                   restarts>>

StoreOutcome ==
    /\ poller.pc \in {"store", "fail"}
    /\ rows' = [rows EXCEPT ![Handled.card].status =
                   IF poller.pc = "store" THEN "completed" ELSE "failed"]
    /\ poller' = [poller EXCEPT !.pc = "edit"]
    /\ UNCHANGED <<calls, buttons, updates, confirmed, files, transfers,
                   excused, restarts>>

\* the commit fails: "failed" is stored instead; if that commit fails too the
\* exception leaves the handler
StoreFails ==
    /\ poller.pc \in {"store", "fail"}
    /\ poller' = IF poller.pc = "store" THEN [poller EXCEPT !.pc = "fail"]
                                        ELSE NextUpdate(poller)
    /\ UNCHANGED <<rows, calls, buttons, updates, confirmed, files, transfers,
                   excused, restarts>>

\* the edited message has no buttons; an error is ignored
EditMessage(ok) ==
    /\ poller.pc = "edit"
    /\ buttons' = IF ok THEN buttons \ {Handled.card} ELSE buttons
    /\ poller' = NextUpdate(poller)
    /\ UNCHANGED <<rows, calls, updates, confirmed, files, transfers, excused,
                   restarts>>

\* Mutant: delete_webhook drops the pending updates.
DropAll == Len(updates)
\* delete_webhook keeps them
KeepUpdates == confirmed

\* the process ends and starts again: tool calls and the poller are lost
Restart ==
    /\ restarts < MaxRestarts
    /\ restarts' = restarts + 1
    /\ poller' = Started
    /\ calls' = [c \in Card |-> IF calls[c] = "none" THEN "none" ELSE "over"]
    /\ confirmed' = KeepUpdates
    /\ UNCHANGED <<rows, buttons, updates, files, transfers, excused>>

-----------------------------------------------------------------------------
PollerStep ==
    \/ Poll \/ Take \/ Ack \/ Act \/ Transfer \/ StoreOutcome
    \/ EditMessage(TRUE)

Next ==
    \/ PollerStep
    \/ PollFails \/ TakeFails \/ AckFails \/ StoreFails \/ EditMessage(FALSE)
    \/ \E reached \in BOOLEAN : TransferFails(reached)
    \/ \E c \in Card :
          \/ \E kind \in {"generic", "invoice"} : Ask(c, kind)
          \/ \E shown, ok \in BOOLEAN : SendButtons(c, shown, ok)
          \/ MarkDelivered(c)
          \/ \E v \in Value : Press(c, v)
    \/ \E f \in File : Expire(f)
    \/ \E offset \in Offset : Diagnose(offset)
    \/ Restart

\* The poller's task is never blocked for good: every request it makes has a
\* timeout, and what fails may succeed when it is tried again.
Fairness == WF_vars(PollerStep)

Spec == Init /\ [][Next]_vars /\ Fairness

-----------------------------------------------------------------------------
\* The file of a card reaches its destination at most once, although presses
\* are repeated, updates are delivered again after a restart and replies are
\* lost.
TransferAtMostOnce == \A c \in Card : transfers[c] <= 1

\* What the operator chose is never replaced by a later press, by a redelivery
\* or by mark_request_delivered, and the card never becomes pending again.
AnswerIsFinal ==
    [][\A c \in Card : rows[c].answer # "none" =>
          /\ rows'[c].answer = rows[c].answer
          /\ rows'[c].status # "pending"]_vars

\* A card reported completed was carried out: its file was transferred, and
\* is gone if it was to be consumed.
CompletedIsDone ==
    \A c \in Card :
        /\ rows[c].status = "completed" /\ rows[c].answer = "transfer"
        => /\ transfers[c] = 1
           /\ c \in Consumed => FileOf[c] \notin files

\* Telegram forgets a press only once its card is answered, whenever the
\* server restarts; except when the operator saw an error, or the diagnostic
\* tool took the update.
PressNotForgotten ==
    \A i \in 1 .. confirmed :
        i \in excused \/ rows[updates[i].card].status # "pending"

\* Every update is confirmed in the end, so it is not delivered for ever.
UpdatesConfirmed ==
    \A i \in 1 .. MaxUpdates : (i <= Len(updates)) ~> (i <= confirmed)

\* MCP_TOOLS.md: the callback performs the selected action, and the row shows
\* the result.
ActionIsPerformed ==
    \A c \in Card : (rows[c].status = "processing") ~>
                    (rows[c].status \in {"completed", "failed"})
=============================================================================
