------------------------------ MODULE MailTools ------------------------------
(***************************************************************************)
(* The mail tools of app/mcp_server.py over app/services/mail.py.          *)
(*                                                                         *)
(* A tool is a plan: the IMAP and SMTP exchanges it awaits, in order.      *)
(* Each exchange runs in a thread (MailService._run) or in a cancellable   *)
(* coroutine (SMTP) under wait_for, with a connection of its own.  When    *)
(* wait_for gives up the exchange itself goes on, so it is a job of its    *)
(* own here.  The mailboxes are one account's; the event loop runs one     *)
(* call at a time between two awaits.                                      *)
(*                                                                         *)
(* A mailbox name is a sequence of tokens, "/" the delimiter among them.   *)
(* A message is a model value; the message a call builds is the call.      *)
(***************************************************************************)
EXTENDS Integers, Sequences, FiniteSets, SequencesExt, Permissions

CONSTANTS
    Call,        \* the tool calls of a behaviour, each used once
    Request,     \* what clients may ask: [tool, box, uids, target]
    Granted,     \* the scopes the client's token carries
    Settings,    \* the three switches of Permitted
    Configured,  \* the account's <kind>_mailbox columns
    SpecialUse,  \* the RFC 6154 attribute of a mailbox name
    InitialFolders, InitialMail, None

Kind == {"trash", "archive", "sent", "drafts"}

ASSUME MailAssumption ==
    /\ Settings \in Setting
    /\ Granted \subseteq PERMISSIONS
    /\ DOMAIN Configured = Kind
    /\ None \notin Call \cup DOMAIN SpecialUse

VARIABLES
    folders,    \* the mailboxes the server has
    mail,       \* what they hold: [mb, uid, msg, deleted]
    uidNext,    \* the next UID of each mailbox
    calls,      \* the tool calls
    jobs,       \* the exchanges under way, abandoned ones included
    sent,       \* history: [call, of] the server accepted by SMTP
    stored,     \* history: the messages appended
    expunged,   \* history: [call, mb, uid, msg] removed for good
    dropped,    \* history: the messages that went with their mailbox
    copied,     \* history: a copy tool has run
    reshaped,   \* history: a mailbox was created, renamed or deleted
    overlapped  \* history: two calls were pending together

server == <<folders, mail, uidNext>>
history == <<sent, stored, expunged, dropped, copied, reshaped>>
vars == <<server, calls, jobs, history, overlapped>>

-----------------------------------------------------------------------------
\* What each tool awaits

Restoring == {"restore_email", "restore_emails"}
Replying == {"reply_email", "reply_all"}
Sending == Replying \cup {"send_email", "forward_email", "send_draft"}
Filing == Restoring \cup
          {"archive_email", "archive_emails", "trash_email", "trash_emails"}
Deleting == {"delete_email_permanently", "delete_emails_permanently",
             "delete_draft"}
Expunging == Deleting \cup {"update_draft", "send_draft"}
DraftTool == {"create_draft", "update_draft", "send_draft", "delete_draft"}

\* the special mailbox a tool looks for
KindOf(tool) ==
    CASE tool \in {"trash_email", "trash_emails"} \cup Restoring -> "trash"
      [] tool \in {"archive_email", "archive_emails"} -> "archive"
      [] tool \in Sending -> "sent"
      [] tool \in {"create_draft", "update_draft"} -> "drafts"
      [] OTHER -> None

\* a special mailbox is looked for unless the account names it
Find(kind) == IF Configured[kind] = None THEN <<"special">> ELSE <<>>

FolderPlan(tool) ==
    IF tool = "create_mailbox" THEN <<"folder">> ELSE <<"resolve", "folder">>

ListPlan(tool) ==
    CASE tool = "list_mailboxes"  -> <<"list">>
      [] tool = "resolve_mailbox" -> <<"resolve">>
      [] tool = "get_mailbox"     -> <<"resolve", "list">>

SearchPlan == <<"resolve", "search">>

\* get_emails reads its UIDs one after the other
ReadPlan(tool) ==
    IF tool = "get_emails" THEN <<"resolve", "fetch", "resolve", "fetch">>
    ELSE <<"resolve", "fetch">>

ThreadPlan == <<"resolve", "fetch", "resolve", "search", "resolve", "fetch">>

FlagPlan == <<"resolve", "flags">>

TransferPlan == <<"resolve", "resolve_to", "transfer">>

SpecialPlan(tool) == Find(KindOf(tool)) \o TransferPlan

DeletePlan == <<"resolve", "delete">>

SendPlan == <<"smtp">> \o Find("sent") \o <<"append">>

ReplyPlan == <<"resolve", "fetch", "resolve", "fetch">> \o SendPlan

\* include_attachments repeats the two reads, which change nothing
ForwardPlan == <<"resolve", "fetch">> \o SendPlan

DraftPlan == Find("drafts") \o <<"append">>

UpdateDraftPlan == DraftPlan \o DeletePlan

DeleteDraftPlan == DeletePlan

\* Mutant: the draft is deleted before it is sent
SendDraftPlanEagerly == <<"resolve", "fetch">> \o DeletePlan \o SendPlan

SendDraftPlan == <<"resolve", "fetch">> \o SendPlan \o DeletePlan

AttachmentPlan == <<"resolve", "fetch">>

FolderTool == {"create_mailbox", "rename_mailbox", "delete_mailbox",
               "subscribe_mailbox", "unsubscribe_mailbox"}
ListTool == {"list_mailboxes", "resolve_mailbox", "get_mailbox"}
ReadTool == {"get_email", "get_emails", "get_email_headers", "get_raw_message"}
FlagTool == {"mark_read", "mark_unread", "add_flags", "remove_flags",
             "set_flags", "star_email", "unstar_email"}
TransferTool == {"move_email", "move_emails", "copy_email", "copy_emails"}
AttachmentTool == {"list_attachments", "mail_list_attachments",
                   "download_attachment"}

Plan(tool) ==
    CASE tool \in FolderTool -> FolderPlan(tool)
      [] tool \in ListTool -> ListPlan(tool)
      [] tool \in {"list_emails", "search_emails"} -> SearchPlan
      [] tool \in ReadTool -> ReadPlan(tool)
      [] tool \in {"get_thread", "get_conversation"} -> ThreadPlan
      [] tool \in FlagTool -> FlagPlan
      [] tool \in TransferTool -> TransferPlan
      [] tool \in Filing -> SpecialPlan(tool)
      [] tool \in Deleting \ DraftTool -> DeletePlan
      [] tool = "send_email" -> SendPlan
      [] tool \in Replying -> ReplyPlan
      [] tool = "forward_email" -> ForwardPlan
      [] tool = "create_draft" -> DraftPlan
      [] tool = "update_draft" -> UpdateDraftPlan
      [] tool = "delete_draft" -> DeleteDraftPlan
      [] tool = "send_draft" -> SendDraftPlan
      [] tool \in AttachmentTool -> AttachmentPlan

\* the tools that have a plan
MailTool ==
    FolderTool \cup ListTool \cup {"list_emails", "search_emails"} \cup ReadTool
    \cup {"get_thread", "get_conversation"} \cup FlagTool \cup TransferTool
    \cup Filing \cup Deleting \cup Sending \cup DraftTool \cup AttachmentTool

\* what a client asks is a tool of this module, for a name of a mailbox if it
\* makes one; of the tools that delete, one takes a list, which may be empty
ASSUME RequestAssumption ==
    \A r \in Request :
       /\ r.tool \in MailTool
       /\ r.tool \in Expunging \ {"delete_emails_permanently"} =>
             \E u \in r.uids : r.uids = {u}
       /\ r.tool = "create_mailbox" => r.box \in DOMAIN SpecialUse
       /\ r.tool = "rename_mailbox" => r.target \in DOMAIN SpecialUse

\* the messages there are to begin with are each in one place, and numbered
\* from 1 in each mailbox
ASSUME MailboxAssumption ==
    /\ InitialFolders \subseteq DOMAIN SpecialUse
    /\ IsFiniteSet(InitialMail)
    /\ \A m \in InitialMail :
         /\ m = [mb |-> m.mb, uid |-> m.uid, msg |-> m.msg, deleted |-> m.deleted]
         /\ m.mb \in InitialFolders /\ m.deleted \in BOOLEAN
         /\ m.uid \in 1 .. Cardinality({k \in InitialMail : k.mb = m.mb})
         /\ m.msg \notin Call
         /\ \A k \in InitialMail :
              k.msg = m.msg \/ (k.mb = m.mb /\ k.uid = m.uid) => k = m

-----------------------------------------------------------------------------
\* Names

DisplayName(name) ==
    LET slash == {i \in DOMAIN name : name[i] = "/"}
    IN IF slash = {} THEN name
       ELSE SubSeq(name, 1 + CHOOSE i \in slash : \A k \in slash : k <= i,
                   Len(name))

\* canonical_mailbox: exact, else the last component, else the end of the
\* name; None stands for the ValueError (ambiguous or not found)
Canonical(names, value) ==
    LET friendly == {n \in names : DisplayName(n) = value}
        suffix   == {n \in names : IsSuffix(value, n)}
    IN CASE value \in names -> value
         [] value \notin names /\ Cardinality(friendly) = 1 ->
              CHOOSE n \in friendly : TRUE
         [] value \notin names /\ Cardinality(friendly) # 1
            /\ Cardinality(suffix) = 1 -> CHOOSE n \in suffix : TRUE
         [] OTHER -> None

Special(kind) ==
    LET found == {n \in folders : n \in DOMAIN SpecialUse /\ SpecialUse[n] = kind}
    IN IF found = {} THEN None ELSE CHOOSE n \in found : TRUE

At(mb, uid) == {m \in mail : m.mb = mb /\ m.uid = uid}
Named(c) == {m \in mail : m.mb = calls[c].src /\ m.uid \in calls[c].req.uids}

-----------------------------------------------------------------------------
Unused == [pc |-> "unused", req |-> None, todo |-> <<>>, from |-> None,
           to |-> None, src |-> None, dst |-> None, read |-> None]

Init ==
    /\ folders = InitialFolders
    /\ mail = InitialMail
    /\ uidNext = [n \in DOMAIN SpecialUse |->
                    1 + Cardinality({m \in InitialMail : m.mb = n})]
    /\ calls = [c \in Call |-> Unused]
    /\ jobs = {}
    /\ sent = {} /\ stored = {} /\ expunged = {} /\ dropped = {}
    /\ copied = FALSE /\ reshaped = FALSE /\ overlapped = FALSE

Pending(c) == calls[c].pc = "pending"

\* the jobs once call c has read the reply of its own
Left(c) == {j \in jobs : j.call # c \/ ~j.done}

Return(c, call, outcome) ==
    /\ calls' = [calls EXCEPT ![c] = [call EXCEPT !.pc = outcome]]
    /\ jobs' = Left(c)

\* the coroutine runs to its next await: the exchange starts, or it returns
Await(c, call) ==
    IF call.todo = <<>> THEN Return(c, call, "ok")
    ELSE /\ calls' = [calls EXCEPT ![c] = call]
         /\ jobs' = Left(c) \cup
              {[call |-> c, step |-> Len(call.todo), op |-> Head(call.todo),
                done |-> FALSE, reply |-> None]}

\* execute checks the permission before anything else
Start(c, r) ==
    /\ calls[c].pc = "unused"
    /\ LET kind == KindOf(r.tool)
           call == [Unused EXCEPT
                      !.pc = "pending", !.req = r, !.todo = Plan(r.tool),
                      !.from = IF r.tool \in Restoring THEN Configured[kind]
                               ELSE r.box,
                      !.to = IF kind = None \/ r.tool \in Restoring
                             THEN r.target ELSE Configured[kind]]
       IN IF Permitted(ToolPermission[r.tool], Granted, Settings)
          THEN Await(c, call)
          ELSE Return(c, call, "failed")
    /\ overlapped' = (overlapped \/ \E d \in Call : Pending(d))
    /\ UNCHANGED <<server, history>>

Awaited(j) == Pending(j.call) /\ Len(calls[j.call].todo) = j.step

\* an exchange ends; what an abandoned one answers goes nowhere
Answer(j, reply) ==
    jobs' = (jobs \ {j}) \cup
        (IF Awaited(j) THEN {[j EXCEPT !.done = TRUE, !.reply = reply]} ELSE {})

\* Mutant: send_draft swallows the failure of the deletion
ToleratedDeletionToo(call) ==
    \/ call.req.tool = "get_emails"
    \/ call.req.tool \in Sending
       /\ Head(call.todo) \in {"special", "append", "delete"}

\* what goes on without the caller: get_emails reports the UID, send_email
\* reports saved_to_sent = False
Tolerated(call) ==
    \/ call.req.tool = "get_emails"
    \/ call.req.tool \in Sending /\ Head(call.todo) \in {"special", "append"}

\* the coroutine is resumed with an exception
Raise(c) ==
    LET call == calls[c]
        skipped == IF Head(call.todo) \in {"resolve", "special"} THEN 2 ELSE 1
    IN IF Tolerated(call)
       THEN Await(c, [call EXCEPT !.todo = SubSeq(@, 1 + skipped, Len(@))])
       ELSE Return(c, call, "failed")

\* the coroutine is resumed with the reply
Resume(c) ==
    /\ Pending(c)
    /\ \E j \in jobs :
         /\ j.call = c /\ Awaited(j) /\ j.done
         /\ LET next == [calls[c] EXCEPT !.todo = Tail(@)]
            IN CASE j.reply = None -> Raise(c)
                 [] j.reply # None /\ j.op = "resolve" ->
                      Await(c, [next EXCEPT !.src = j.reply])
                 [] j.reply # None /\ j.op = "resolve_to" ->
                      Await(c, [next EXCEPT !.dst = j.reply])
                 [] j.reply # None /\ j.op = "fetch" ->
                      Await(c, [next EXCEPT !.read = j.reply])
                 [] j.reply # None /\ j.op = "special" ->
                      Await(c, IF next.req.tool \in Restoring
                               THEN [next EXCEPT !.from = j.reply]
                               ELSE [next EXCEPT !.to = j.reply])
                 [] OTHER -> Await(c, next)
    /\ UNCHANGED <<server, history, overlapped>>

\* Mutant: no wait_for
TimeoutNever(c) == FALSE

\* wait_for gives up
Timeout(c) ==
    /\ Pending(c)
    /\ \A j \in jobs : j.call = c /\ Awaited(j) => ~j.done
    /\ Raise(c)
    /\ UNCHANGED <<server, history, overlapped>>

-----------------------------------------------------------------------------
\* The exchanges, each with what the server does

Running(op) == {j \in jobs : ~j.done /\ j.op = op}

\* refused, or the connection is lost before its effect (after it: see
\* Timeout, which leaves the caller as ignorant)
Break ==
    /\ \E j \in jobs : ~j.done /\ Answer(j, None)
    /\ UNCHANGED <<server, calls, history, overlapped>>

\* _list_mailboxes_sync, and what its caller makes of the list
List ==
    /\ \E op \in {"list", "resolve", "resolve_to", "special"} :
         \E j \in Running(op) :
           LET call == calls[j.call]
           IN Answer(j, CASE op = "list"       -> TRUE
                          [] op = "resolve"    -> Canonical(folders, call.from)
                          [] op = "resolve_to" -> Canonical(folders, call.to)
                          [] op = "special"    -> Special(KindOf(call.req.tool)))
    /\ UNCHANGED <<server, calls, history, overlapped>>

\* one UID of the request; LookupError when it is not there
Fetch ==
    /\ \E j \in Running("fetch") :
         IF Named(j.call) = {} THEN Answer(j, None)
         ELSE \E m \in Named(j.call) : Answer(j, m.msg)
    /\ UNCHANGED <<server, calls, history, overlapped>>

Search ==
    /\ \E j \in Running("search") :
         Answer(j, IF calls[j.call].src \in folders THEN TRUE ELSE None)
    /\ UNCHANGED <<server, calls, history, overlapped>>

\* only \Deleted is told apart from the other flags
Flags ==
    /\ \E j \in Running("flags"), on \in BOOLEAN :
         /\ mail' = {IF m \in Named(j.call) THEN [m EXCEPT !.deleted = on] ELSE m :
                       m \in mail}
         /\ Answer(j, IF calls[j.call].src \in folders THEN TRUE ELSE None)
    /\ UNCHANGED <<folders, uidNext, calls, history, overlapped>>

Copying == {"copy_email", "copy_emails"}

\* Mutant: MOVE done as COPY
TakenNothing(j) == {}

\* what a transfer takes out of its source
Taken(j) == IF calls[j.call].req.tool \in Copying THEN {} ELSE Named(j.call)

\* Mutant: the messages keep their UIDs
NotRenumbered(messages, mb) == {[m EXCEPT !.mb = mb] : m \in messages}

\* the server gives the messages the next UIDs of the target
Renumbered(messages, mb) ==
    {[m EXCEPT !.mb = mb,
               !.uid = uidNext[mb] + Cardinality({k \in messages : k.uid < m.uid})] :
       m \in messages}

Transfer ==
    /\ \E j \in Running("transfer") :
         LET call == calls[j.call]
             there == {call.src, call.dst} \subseteq folders
         IN /\ mail' = IF there THEN (mail \ Taken(j))
                                     \cup Renumbered(Named(j.call), call.dst)
                       ELSE mail
            /\ uidNext' = IF there
                 THEN [uidNext EXCEPT ![call.dst] = @ + Cardinality(Named(j.call))]
                 ELSE uidNext
            /\ copied' = (copied \/ call.req.tool \in Copying)
            /\ Answer(j, IF there THEN TRUE ELSE None)
    /\ UNCHANGED <<folders, calls, sent, stored, expunged, dropped, reshaped,
                   overlapped>>

\* _permanent_delete_sync: \Deleted on the UIDs (refused without UIDPLUS:
\* Break) ...
Mark ==
    /\ \E j \in Running("delete") :
         /\ mail' = {IF m \in Named(j.call) THEN [m EXCEPT !.deleted = TRUE]
                     ELSE m : m \in mail}
         \* ... and goes on in the same thread, whoever still waits for it
         /\ jobs' = (jobs \ {j}) \cup {[j EXCEPT !.op = "expunge"]}
    /\ UNCHANGED <<folders, uidNext, calls, history, overlapped>>

\* Mutant: EXPUNGE of the mailbox instead of UID EXPUNGE
WipedByPlainExpunge(j) == {m \in mail : m.mb = calls[j.call].src /\ m.deleted}

\* UID EXPUNGE; for an empty list imapclient stores no flag and sends a plain
\* EXPUNGE, which takes whatever is flagged
Wiped(j) ==
    LET uids == calls[j.call].req.uids
    IN {m \in mail : /\ m.mb = calls[j.call].src /\ m.deleted
                     /\ m.uid \in uids \/ uids = {}}

Expunge ==
    /\ \E j \in Running("expunge") :
         /\ mail' = mail \ Wiped(j)
         /\ expunged' = expunged \cup
              {[call |-> j.call, mb |-> m.mb, uid |-> m.uid, msg |-> m.msg] :
                 m \in Wiped(j)}
         /\ Answer(j, IF calls[j.call].src \in folders THEN TRUE ELSE None)
    /\ UNCHANGED <<folders, uidNext, calls, sent, stored, dropped, copied,
                   reshaped, overlapped>>

Smtp ==
    /\ \E j \in Running("smtp") :
         /\ sent' = sent \cup {[call |-> j.call, of |-> calls[j.call].read]}
         /\ Answer(j, TRUE)
    /\ UNCHANGED <<server, calls, stored, expunged, dropped, copied, reshaped,
                   overlapped>>

AppendMessage ==
    /\ \E j \in Running("append") :
         LET mb == calls[j.call].to
         IN IF mb \in folders
            THEN /\ mail' = mail \cup {[mb |-> mb, uid |-> uidNext[mb],
                                        msg |-> j.call, deleted |-> FALSE]}
                 /\ uidNext' = [uidNext EXCEPT ![mb] = @ + 1]
                 /\ stored' = stored \cup {j.call}
                 /\ Answer(j, TRUE)
            ELSE Answer(j, None) /\ UNCHANGED <<mail, uidNext, stored>>
    /\ UNCHANGED <<folders, calls, sent, expunged, dropped, copied, reshaped,
                   overlapped>>

CreateFolder(j) ==
    /\ calls[j.call].req.tool = "create_mailbox"
    /\ calls[j.call].from \notin folders
    /\ folders' = folders \cup {calls[j.call].from}
    /\ reshaped' = TRUE
    /\ UNCHANGED <<mail, uidNext, dropped>>

\* a mailbox without children; it keeps its UIDs
RenameFolder(j) ==
    LET src == calls[j.call].src
        new == calls[j.call].req.target
    IN /\ calls[j.call].req.tool = "rename_mailbox"
       /\ src \in folders /\ new \notin folders
       /\ folders' = (folders \ {src}) \cup {new}
       /\ mail' = {IF m.mb = src THEN [m EXCEPT !.mb = new] ELSE m : m \in mail}
       /\ uidNext' = [uidNext EXCEPT ![new] = uidNext[src], ![src] = 1]
       /\ reshaped' = TRUE
       /\ UNCHANGED dropped

\* a mailbox created again starts its UIDs again (another UIDVALIDITY)
DeleteFolder(j) ==
    LET src == calls[j.call].src
        gone == {m \in mail : m.mb = src}
    IN /\ calls[j.call].req.tool = "delete_mailbox"
       /\ src \in folders
       /\ folders' = folders \ {src}
       /\ mail' = mail \ gone
       /\ dropped' = dropped \cup {m.msg : m \in gone}
       /\ uidNext' = [uidNext EXCEPT ![src] = 1]
       /\ reshaped' = TRUE

SubscribeFolder(j) ==
    /\ calls[j.call].req.tool \in {"subscribe_mailbox", "unsubscribe_mailbox"}
    /\ UNCHANGED <<server, dropped, reshaped>>

FolderAction ==
    /\ \E j \in Running("folder") :
         /\ CreateFolder(j) \/ RenameFolder(j) \/ DeleteFolder(j)
            \/ SubscribeFolder(j)
         /\ Answer(j, TRUE)
    /\ UNCHANGED <<calls, sent, stored, expunged, copied, overlapped>>

-----------------------------------------------------------------------------
\* every call of the behaviour was made and nothing of it is left
Finished ==
    /\ \A c \in Call : calls[c].pc \in {"ok", "failed"}
    /\ jobs = {}
    /\ UNCHANGED vars

Exchange == List \/ Fetch \/ Search \/ Flags \/ Transfer \/ Mark \/ Expunge
            \/ Smtp \/ AppendMessage \/ FolderAction \/ Break

Next ==
    \/ \E c \in Call, r \in Request : Start(c, r)
    \/ \E c \in Call : Resume(c) \/ Timeout(c)
    \/ Exchange
    \/ Finished

\* the event loop runs what is ready and wait_for has a timer; no exchange
\* is promised to end
Spec == /\ Init /\ [][Next]_vars
        /\ \A c \in Call : WF_vars(Resume(c)) /\ WF_vars(Timeout(c))

-----------------------------------------------------------------------------
TypeOK ==
    /\ folders \subseteq DOMAIN SpecialUse
    /\ \A m \in mail : /\ m.mb \in folders
                       /\ m.uid \in 1 .. uidNext[m.mb] - 1
                       /\ m.deleted \in BOOLEAN
                       /\ At(m.mb, m.uid) = {m}
    /\ \A c \in Call : calls[c].pc \in {"unused", "pending", "ok", "failed"}
    /\ \A j \in jobs : j.done => Awaited(j)
    /\ {s.call : s \in sent} \cup stored \subseteq Call

\* Whatever was flagged \Deleted meanwhile, by a client or by a deletion that
\* was abandoned half-way, a deletion that names UIDs removes only those: the
\* UID EXPUNGE of _permanent_delete_sync.  What else goes, goes by a call of
\* delete_emails_permanently with an empty list, and by no other tool.
ExpungeOnlyNamed ==
    \A e \in expunged :
        LET req == calls[e.call].req
        IN /\ req.tool \in Expunging
           /\ \/ e.uid \in req.uids
              \/ req.tool = "delete_emails_permanently" /\ req.uids = {}

\* A draft goes only for what replaces it: update_draft removes the old draft
\* once the new one is stored, send_draft removes the very message it sent,
\* once sent.  The two read the mailbox's name and the UID again at each
\* exchange, so a mailbox renamed or created meanwhile is set aside.
DraftKept ==
    \A e \in expunged :
        LET tool == calls[e.call].req.tool
        IN ~reshaped =>
           /\ tool = "update_draft" => e.call \in stored
           /\ tool = "send_draft" => [call |-> e.call, of |-> e.msg] \in sent

\* No order of moves, abandoned moves that complete later, deletions and
\* renames loses a message or leaves it in two places.
NoMessageLost ==
    \A m \in {k.msg : k \in InitialMail} \cup stored :
        /\ \/ \E k \in mail : k.msg = m
           \/ \E e \in expunged : e.msg = m
           \/ m \in dropped
        /\ ~copied => Cardinality({k \in mail : k.msg = m}) <= 1

\* A draft that is sent twice was sent by calls that overlapped, or one of
\* them told its client that it failed: send_draft succeeds only when the
\* draft is gone.  Stated for clients that only handle drafts.
SentTwiceOnlyAfterFailure ==
    \A s, t \in sent :
        /\ s.call # t.call
        /\ s.of = t.of /\ s.of # None
        /\ \A c \in Call : calls[c].pc # "unused" => calls[c].req.tool \in DraftTool
        => overlapped \/ calls[s.call].pc = "failed" \/ calls[t.call].pc = "failed"

\* A call whose server never answers still returns: each await is bounded.
EveryCallReturns ==
    \A c \in Call : Pending(c) ~> calls[c].pc \in {"ok", "failed"}

\* The destructive switch off means no message is removed for good.
SwitchStopsExpunge ==
    ~Settings.destructive_operations_enabled => expunged = {} /\ dropped = {}
=============================================================================
