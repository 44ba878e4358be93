--------------------------- MODULE MailToolsProofs ---------------------------
(***************************************************************************)
(* What the mail tools promise, for any mailboxes, messages, calls and     *)
(* requests.  Inv ties each exchange to the call that started it: an       *)
(* abandoned APPEND is the only one its call will ever make, and an        *)
(* exchange that deletes belongs to a tool that deletes.  InStep places    *)
(* each call and each exchange in the plan of its tool, MailboxesOK        *)
(* numbers the messages, DraftsOK says what a tool that replaces a draft   *)
(* has done when it comes to delete it, and OneSender what one client's    *)
(* draft tools have, when they run one after the other.                    *)
(***************************************************************************)
EXTENDS MailTools, SequenceTheorems, FiniteSetTheorems, TLAPS

-----------------------------------------------------------------------------
\* Plans

\* what a tool awaits; "expunge" is only the second half of a "delete"
Op == {"list", "resolve", "resolve_to", "special", "fetch", "search", "flags",
       "transfer", "folder", "delete", "smtp", "append"}

Appendless(todo) == \A i \in DOMAIN todo : todo[i] # "append"

PlanOK(todo, tool) ==
    /\ todo \in Seq(Op)
    /\ \A i, k \in DOMAIN todo : todo[i] = "append" /\ todo[k] = "append" => i = k
    /\ \A i \in DOMAIN todo : todo[i] = "delete" => tool \in Expunging

\* an append is still ahead, behind the exchange under way
Ahead(todo) == \E i \in DOMAIN todo : i >= 2 /\ todo[i] = "append"

LEMMA JoinedPlans ==
    ASSUME NEW s, NEW t, NEW tool, PlanOK(s, tool), PlanOK(t, tool),
           Appendless(s) \/ Appendless(t)
    PROVE  /\ PlanOK(s \o t, tool)
           /\ Appendless(s) /\ Appendless(t) => Appendless(s \o t)
<1> DEFINE u == s \o t
<1>1. s \in Seq(Op) /\ t \in Seq(Op)
  BY DEF PlanOK
<1>2. /\ u \in Seq(Op)
      /\ Len(u) = Len(s) + Len(t)
      /\ \A i \in 1 .. Len(s) + Len(t) :
           u[i] = IF i <= Len(s) THEN s[i] ELSE t[i - Len(s)]
  BY <1>1, ConcatProperties
<1>3. DOMAIN u = 1 .. Len(s) + Len(t) /\ DOMAIN s = 1 .. Len(s)
      /\ DOMAIN t = 1 .. Len(t) /\ Len(s) \in Nat /\ Len(t) \in Nat
  BY <1>1, <1>2
<1>4. \A i \in DOMAIN u : \/ i \in DOMAIN s /\ u[i] = s[i]
                          \/ /\ i > Len(s) /\ i - Len(s) \in DOMAIN t
                             /\ u[i] = t[i - Len(s)]
  BY <1>2, <1>3
<1> HIDE DEF u
<1>5. Appendless(s) /\ Appendless(t) => Appendless(u)
  BY <1>4 DEF Appendless
<1>6. \A i \in DOMAIN u : u[i] = "delete" => tool \in Expunging
  BY <1>4 DEF PlanOK
<1>7. ASSUME NEW i \in DOMAIN u, NEW k \in DOMAIN u, u[i] = "append", u[k] = "append"
      PROVE  i = k
  <2>1. CASE Appendless(s)
    <3>1. t[i - Len(s)] = "append" /\ t[k - Len(s)] = "append"
          /\ i - Len(s) \in DOMAIN t /\ k - Len(s) \in DOMAIN t
      BY <1>4, <1>7, <2>1 DEF Appendless
    <3>2. i - Len(s) = k - Len(s)
      BY <3>1 DEF PlanOK
    <3> QED BY <3>2, <1>3
  <2>2. CASE Appendless(t)
    BY <1>4, <1>7, <2>2 DEF Appendless, PlanOK
  <2> QED BY <2>1, <2>2
<1> QED BY <1>2, <1>5, <1>6, <1>7 DEF PlanOK, u

\* the literal plans
LEMMA ShortPlans ==
    ASSUME NEW tool
    PROVE  /\ PlanOK(<<>>, tool) /\ Appendless(<<>>)
           /\ \A a \in Op \ {"append", "delete"} :
                PlanOK(<<a>>, tool) /\ Appendless(<<a>>)
           /\ \A a, b \in Op \ {"append", "delete"} :
                PlanOK(<<a, b>>, tool) /\ Appendless(<<a, b>>)
           /\ \A a, b, c \in Op \ {"append", "delete"} :
                PlanOK(<<a, b, c>>, tool) /\ Appendless(<<a, b, c>>)
           /\ PlanOK(<<"append">>, tool)
           /\ tool \in Expunging => PlanOK(DeletePlan, tool)
           /\ Appendless(DeletePlan)
<1>0. "append" \in Op /\ "delete" \in Op /\ "resolve" \in Op
  BY DEF Op
<1>1. PlanOK(<<>>, tool) /\ Appendless(<<>>)
  BY DEF PlanOK, Appendless
<1>2. ASSUME NEW a \in Op \ {"append", "delete"} 
      PROVE  PlanOK(<<a>>, tool) /\ Appendless(<<a>>)
  <2>1. DOMAIN <<a>> = 1 .. 1 /\ <<a>>[1] = a /\ <<a>> \in Seq(Op)
    OBVIOUS
  <2> QED BY <2>1 DEF PlanOK, Appendless
<1>3. ASSUME NEW a \in Op \ {"append", "delete"}, NEW b \in Op \ {"append", "delete"}
      PROVE  PlanOK(<<a, b>>, tool) /\ Appendless(<<a, b>>)
  <2>1. /\ DOMAIN <<a, b>> = 1 .. 2 /\ <<a, b>>[1] = a /\ <<a, b>>[2] = b
        /\ <<a, b>> \in Seq(Op)
    OBVIOUS
  <2>2. \A i \in 1 .. 2 : i = 1 \/ i = 2
    OBVIOUS
  <2> QED BY <2>1, <2>2 DEF PlanOK, Appendless
<1>4. ASSUME NEW a \in Op \ {"append", "delete"}, NEW b \in Op \ {"append", "delete"},
             NEW c \in Op \ {"append", "delete"}
      PROVE  PlanOK(<<a, b, c>>, tool) /\ Appendless(<<a, b, c>>)
  <2>1. /\ DOMAIN <<a, b, c>> = 1 .. 3 /\ <<a, b, c>>[1] = a
        /\ <<a, b, c>>[2] = b /\ <<a, b, c>>[3] = c /\ <<a, b, c>> \in Seq(Op)
    OBVIOUS
  <2>2. \A i \in 1 .. 3 : i = 1 \/ i = 2 \/ i = 3
    OBVIOUS
  <2> QED BY <2>1, <2>2 DEF PlanOK, Appendless
<1>5. PlanOK(<<"append">>, tool)
  <2>1. DOMAIN <<"append">> = 1 .. 1 /\ <<"append">>[1] = "append"
        /\ <<"append">> \in Seq(Op)
    BY <1>0
  <2> QED BY <2>1 DEF PlanOK
<1>6. Appendless(DeletePlan) /\ (tool \in Expunging => PlanOK(DeletePlan, tool))
  <2> DEFINE p == <<"resolve", "delete">>
  <2>1. /\ DOMAIN p = 1 .. 2 /\ p[1] = "resolve" /\ p[2] = "delete"
        /\ p \in Seq(Op)
    BY <1>0
  <2>2. \A i \in 1 .. 2 : i = 1 \/ i = 2
    OBVIOUS
  <2>3. p = DeletePlan
    BY DEF DeletePlan
  <2> HIDE DEF p
  <2> QED BY <2>1, <2>2, <2>3 DEF PlanOK, Appendless
<1> QED BY <1>1, <1>2, <1>3, <1>4, <1>5, <1>6

LEMMA FindPlan ==
    ASSUME NEW kind, NEW tool
    PROVE  PlanOK(Find(kind), tool) /\ Appendless(Find(kind))
<1>1. "special" \in Op \ {"append", "delete"}
  BY DEF Op
<1> QED BY <1>1, ShortPlans DEF Find

LEMMA DeletingPlans ==
    ASSUME NEW tool \in Expunging
    PROVE  PlanOK(DeletePlan, tool) /\ Appendless(DeletePlan)
  BY ShortPlans

\* what a send adds to a plan
LEMMA SendingPlans ==
    ASSUME NEW tool
    PROVE  PlanOK(SendPlan, tool) /\ PlanOK(DraftPlan, tool)
<1>1. "smtp" \in Op \ {"append", "delete"}
  BY DEF Op
<1>2. PlanOK(<<"smtp">>, tool) /\ Appendless(<<"smtp">>)
  BY <1>1, ShortPlans
<1>3. PlanOK(<<"append">>, tool)
  BY ShortPlans
<1>4. PlanOK(<<"smtp">> \o Find("sent"), tool) /\ Appendless(<<"smtp">> \o Find("sent"))
  BY <1>2, FindPlan, JoinedPlans
<1>5. PlanOK(SendPlan, tool)
  BY <1>3, <1>4, JoinedPlans DEF SendPlan
<1>6. PlanOK(DraftPlan, tool)
  BY <1>3, FindPlan, JoinedPlans DEF DraftPlan
<1> QED BY <1>5, <1>6

LEMMA PlansOK == \A tool \in MailTool : PlanOK(Plan(tool), tool)
<1> SUFFICES ASSUME NEW tool \in MailTool PROVE PlanOK(Plan(tool), tool)
  OBVIOUS
<1> DEFINE Plain == Op \ {"append", "delete"}
<1>1. {"list", "resolve", "resolve_to", "special", "fetch", "search", "flags",
       "transfer", "folder", "smtp"} \subseteq Plain
  BY DEF Op
<1> HIDE DEF Plain
<1>2. /\ \A a \in Plain : PlanOK(<<a>>, tool) /\ Appendless(<<a>>)
      /\ \A a, b \in Plain : PlanOK(<<a, b>>, tool) /\ Appendless(<<a, b>>)
      /\ \A a, b, c \in Plain : PlanOK(<<a, b, c>>, tool) /\ Appendless(<<a, b, c>>)
  BY ShortPlans DEF Plain
<1>3. PlanOK(<<"resolve", "fetch">>, tool) /\ Appendless(<<"resolve", "fetch">>)
  BY <1>1, <1>2
<1>4. /\ PlanOK(<<"resolve", "fetch", "resolve", "fetch">>, tool)
      /\ Appendless(<<"resolve", "fetch", "resolve", "fetch">>)
  <2>1. <<"resolve", "fetch", "resolve", "fetch">>
          = <<"resolve", "fetch">> \o <<"resolve", "fetch">>
    OBVIOUS
  <2> QED BY <2>1, <1>3, JoinedPlans
<1>5. PlanOK(ThreadPlan, tool)
  <2>1. ThreadPlan = <<"resolve", "fetch", "resolve">> \o <<"search", "resolve", "fetch">>
    BY DEF ThreadPlan
  <2>2. /\ PlanOK(<<"resolve", "fetch", "resolve">>, tool)
        /\ Appendless(<<"resolve", "fetch", "resolve">>)
        /\ PlanOK(<<"search", "resolve", "fetch">>, tool)
    BY <1>1, <1>2
  <2> QED BY <2>1, <2>2, JoinedPlans
<1>6. PlanOK(FolderPlan(tool), tool)
  BY <1>1, <1>2 DEF FolderPlan
<1>7. tool \in ListTool => PlanOK(ListPlan(tool), tool)
  <2>1. tool \in ListTool =>
          ListPlan(tool) \in {<<"list">>, <<"resolve">>, <<"resolve", "list">>}
    BY Zenon DEF ListPlan, ListTool
  <2> QED BY <2>1, <1>1, <1>2
<1>8. PlanOK(SearchPlan, tool) /\ PlanOK(FlagPlan, tool) /\ PlanOK(AttachmentPlan, tool)
  BY <1>1, <1>2, <1>3 DEF SearchPlan, FlagPlan, AttachmentPlan
<1>9. PlanOK(ReadPlan(tool), tool)
  BY <1>3, <1>4 DEF ReadPlan
<1>10. PlanOK(TransferPlan, tool) /\ Appendless(TransferPlan)
  BY <1>1, <1>2 DEF TransferPlan
<1>11. PlanOK(SpecialPlan(tool), tool)
  BY <1>10, FindPlan, JoinedPlans DEF SpecialPlan
<1>12. tool \in Expunging => /\ PlanOK(DeletePlan, tool) /\ PlanOK(DeleteDraftPlan, tool)
                            /\ PlanOK(UpdateDraftPlan, tool)
                            /\ PlanOK(SendDraftPlan, tool)
  <2> SUFFICES ASSUME tool \in Expunging
               PROVE  /\ PlanOK(DeletePlan, tool) /\ PlanOK(DeleteDraftPlan, tool)
                      /\ PlanOK(UpdateDraftPlan, tool) /\ PlanOK(SendDraftPlan, tool)
    OBVIOUS
  <2>1. PlanOK(DeletePlan, tool) /\ Appendless(DeletePlan)
    BY DeletingPlans
  <2>2. PlanOK(UpdateDraftPlan, tool)
    BY <2>1, SendingPlans, JoinedPlans DEF UpdateDraftPlan
  <2>3. PlanOK(<<"resolve", "fetch">> \o SendPlan, tool)
    BY <1>3, SendingPlans, JoinedPlans
  <2>4. PlanOK(SendDraftPlan, tool)
    BY <2>1, <2>3, JoinedPlans DEF SendDraftPlan
  <2> QED BY <2>1, <2>2, <2>4 DEF DeleteDraftPlan
<1>13. PlanOK(ReplyPlan, tool) /\ PlanOK(ForwardPlan, tool)
  BY <1>3, <1>4, SendingPlans, JoinedPlans DEF ReplyPlan, ForwardPlan
<1>14. {"update_draft", "delete_draft", "send_draft"} \cup (Deleting \ DraftTool)
         \subseteq Expunging
  BY DEF Expunging, Deleting
<1>15. \/ tool \in FolderTool \/ tool \in ListTool
       \/ tool \in {"list_emails", "search_emails"} \/ tool \in ReadTool
       \/ tool \in {"get_thread", "get_conversation"} \/ tool \in FlagTool
       \/ tool \in TransferTool \/ tool \in Filing \/ tool \in Deleting \ DraftTool
       \/ tool = "send_email" \/ tool \in Replying \/ tool = "forward_email"
       \/ tool = "create_draft" \/ tool = "update_draft" \/ tool = "delete_draft"
       \/ tool = "send_draft" \/ tool \in AttachmentTool
  BY DEF MailTool, Sending, DraftTool
<1>16. /\ tool \in Deleting \ DraftTool => PlanOK(DeletePlan, tool)
       /\ tool = "update_draft" => PlanOK(UpdateDraftPlan, tool)
       /\ tool = "delete_draft" => PlanOK(DeleteDraftPlan, tool)
       /\ tool = "send_draft" => PlanOK(SendDraftPlan, tool)
  BY <1>12, <1>14
<1> QED BY <1>5, <1>6, <1>7, <1>8, <1>9, <1>10, <1>11, <1>13, <1>15, <1>16,
           SendingPlans, ZenonT(60) DEF Plan

\* what is left of a plan has no second append
LEMMA RestOfPlan ==
    ASSUME NEW p, NEW tool, PlanOK(p, tool), NEW n \in {2, 3},
           NEW rest, rest = SubSeq(p, n, Len(p))
    PROVE  /\ PlanOK(rest, tool)
           /\ Ahead(rest) => Ahead(p)
           /\ rest # <<>> /\ Head(rest) = "append" => Ahead(p)
<1>1. p \in Seq(Op) /\ Len(p) \in Nat /\ DOMAIN p = 1 .. Len(p)
  BY DEF PlanOK
<1>2. /\ rest \in Seq(Op)
      /\ Len(rest) = IF n <= Len(p) THEN Len(p) - n + 1 ELSE 0
      /\ \A i \in 1 .. Len(p) - n + 1 : rest[i] = p[n + i - 1]
  <2>1. \A i \in n .. Len(p) : p[i] \in Op
    BY <1>1
  <2>2. n \in Int /\ Len(p) \in Int
    BY <1>1
  <2> QED BY <2>1, <2>2, SubSeqProperties
<1>3. DOMAIN rest = 1 .. Len(rest) /\ Len(rest) \in Nat
  BY <1>2
<1>4. \A i \in DOMAIN rest : i + (n - 1) \in DOMAIN p /\ rest[i] = p[i + (n - 1)]
                             /\ i + (n - 1) >= 2
  BY <1>1, <1>2, <1>3
<1>5. \A i, k \in DOMAIN rest : rest[i] = "append" /\ rest[k] = "append" => i = k
  <2> SUFFICES ASSUME NEW i \in DOMAIN rest, NEW k \in DOMAIN rest,
                      rest[i] = "append", rest[k] = "append"
               PROVE  i = k
    OBVIOUS
  <2>1. i + (n - 1) = k + (n - 1)
    BY <1>4 DEF PlanOK
  <2> QED BY <2>1, <1>3
<1>6. \A i \in DOMAIN rest : rest[i] = "delete" => tool \in Expunging
  BY <1>4 DEF PlanOK
<1>7. Ahead(rest) => Ahead(p)
  BY <1>4 DEF Ahead
<1>8. rest # <<>> /\ Head(rest) = "append" => Ahead(p)
  <2>1. rest # <<>> => 1 \in DOMAIN rest /\ Head(rest) = rest[1]
    BY <1>2, <1>3
  <2> QED BY <2>1, <1>4 DEF Ahead
<1> QED BY <1>2, <1>5, <1>6, <1>7, <1>8 DEF PlanOK

\* the append under way is the only one
LEMMA OneAppend ==
    ASSUME NEW p, NEW tool, PlanOK(p, tool), p # <<>>, Head(p) = "append"
    PROVE  ~Ahead(p)
<1>1. p \in Seq(Op) /\ 1 \in DOMAIN p /\ p[1] = "append"
  BY DEF PlanOK
<1> QED BY <1>1 DEF PlanOK, Ahead

LEMMA HeadOfPlan ==
    ASSUME NEW p, NEW tool, PlanOK(p, tool), p # <<>>
    PROVE  Head(p) \in Op /\ (Head(p) = "delete" => tool \in Expunging)
<1>1. p \in Seq(Op) /\ 1 \in DOMAIN p /\ Head(p) = p[1] /\ p[1] \in Op
  BY DEF PlanOK
<1> QED BY <1>1 DEF PlanOK

-----------------------------------------------------------------------------
\* The invariant

Started(c) == calls[c].pc # "unused"

CallRecord(q) ==
    q = [pc |-> q.pc, req |-> q.req, todo |-> q.todo, from |-> q.from,
         to |-> q.to, src |-> q.src, dst |-> q.dst, read |-> q.read]

CallOK(q) == q.pc # "unused" => q.req \in Request /\ PlanOK(q.todo, q.req.tool)

CallsOK ==
    /\ calls = [c \in Call |-> calls[c]]
    /\ \A c \in Call : CallRecord(calls[c]) /\ CallOK(calls[c])

JobRecord(j) ==
    j = [call |-> j.call, step |-> j.step, op |-> j.op, done |-> j.done,
         reply |-> j.reply]

\* an exchange belongs to a call, and deletes for a tool that deletes
JobOK(j) ==
    /\ JobRecord(j)
    /\ j.call \in Call /\ Started(j.call)
    /\ j.op \in Op \cup {"expunge"} /\ j.step # 0
    /\ j.op \in {"delete", "expunge"} => calls[j.call].req.tool \in Expunging

JobsOK == \A j \in jobs : JobOK(j)

Appending(c) == {j \in jobs : j.call = c /\ ~j.done /\ j.op = "append"}

\* a call appends once: done, under way or still ahead
AppendOK ==
    /\ stored \subseteq {c \in Call : Started(c)}
    /\ \A c \in Call :
         /\ c \in stored \/ Appending(c) # {} => ~Ahead(calls[c].todo)
         /\ c \in stored => Appending(c) = {}
         /\ \A i, j \in Appending(c) : i = j

MessageRecord(m) ==
    m = [mb |-> m.mb, uid |-> m.uid, msg |-> m.msg, deleted |-> m.deleted]

Sources == {k.msg : k \in InitialMail} \cup stored

MailOK ==
    /\ \A m \in mail : MessageRecord(m) /\ m.msg \in Sources
    /\ copied \in BOOLEAN
    /\ ~copied => \A k, m \in mail : k.msg = m.msg => k = m
    /\ \A s \in Sources : \/ \E k \in mail : k.msg = s
                          \/ \E e \in expunged : e.msg = s
                          \/ s \in dropped

ExpungedOK == \A e \in expunged : e.call \in Call /\ Started(e.call)

Inv == CallsOK /\ JobsOK /\ AppendOK /\ MailOK /\ ExpungedOK /\ ExpungeOnlyNamed

LEMMA InitInv == Init => Inv
<1> SUFFICES ASSUME Init PROVE Inv
  OBVIOUS
<1>1. CallsOK
  BY DEF Init, CallsOK, CallRecord, CallOK, Unused
<1>2. JobsOK /\ ExpungedOK /\ ExpungeOnlyNamed
  BY DEF Init, JobsOK, ExpungedOK, ExpungeOnlyNamed
<1>3. AppendOK
  BY DEF Init, AppendOK, Appending
<1>4. MailOK
  BY MailboxAssumption DEF Init, MailOK, MessageRecord, Sources
<1> QED BY <1>1, <1>2, <1>3, <1>4 DEF Inv
-----------------------------------------------------------------------------
\* The coroutines

\* a call moves on: it may start the exchange at the head of its new plan
LEMMA MovesOn ==
    ASSUME Inv, NEW c \in Call, NEW q, CallRecord(q), CallOK(q), q.pc # "unused",
           calls' = [calls EXCEPT ![c] = q],
           Started(c) => /\ q.req = calls[c].req
                         /\ Ahead(q.todo) => Ahead(calls[c].todo),
           NEW n,
           \A j \in jobs' : j \in jobs \/ j = n,
           n \in jobs' \ jobs =>
              /\ JobRecord(n) /\ n.call = c
              /\ q.todo # <<>> /\ n.op = Head(q.todo) /\ n.step = Len(q.todo)
              /\ Started(c) /\ n.op = "append" => Ahead(calls[c].todo),
           UNCHANGED <<server, history>>
    PROVE  Inv'
<1> USE DEF Inv, server, history
<1>1. /\ calls' = [d \in Call |-> calls'[d]]
      /\ \A d \in Call : calls'[d] = IF d = c THEN q ELSE calls[d]
  BY DEF CallsOK
<1>2. CallsOK'
  BY <1>1 DEF CallsOK, CallRecord, CallOK
<1>3. \A d \in Call : Started(d) => Started(d)' /\ calls'[d].req = calls[d].req
  BY <1>1 DEF Started
<1>4. Started(c)'
  BY <1>1 DEF Started
<1>5. ExpungedOK' /\ ExpungeOnlyNamed'
  BY <1>3 DEF ExpungedOK, ExpungeOnlyNamed
<1>6. MailOK'
  BY DEF MailOK, Sources
<1>7. JobsOK'
  <2> SUFFICES ASSUME NEW j \in jobs' PROVE JobOK(j)'
    BY DEF JobsOK
  <2>1. CASE j \in jobs
    BY <2>1, <1>3 DEF JobsOK, JobOK
  <2>2. CASE j \notin jobs
    <3>1. JobRecord(j) /\ j.call = c /\ q.todo # <<>> /\ j.op = Head(q.todo)
      BY <2>2
    <3>2. PlanOK(q.todo, q.req.tool)
      BY DEF CallOK
    <3>3. j.op \in Op /\ (j.op = "delete" => q.req.tool \in Expunging)
      BY <3>1, <3>2, HeadOfPlan
    <3>4. j.op # "expunge"
      <4> "expunge" \notin Op
        BY DEF Op
      <4> QED BY <3>3
    <3>5. j.step # 0
      <4> q.todo \in Seq(Op) /\ j.step = Len(q.todo)
        BY <2>2, <3>2 DEF PlanOK
      <4> QED BY <3>1
    <3> QED BY <3>1, <3>3, <3>4, <3>5, <1>1, <1>4 DEF JobOK
  <2> QED BY <2>1, <2>2
<1>8. AppendOK'
  <2>1. stored' \subseteq {d \in Call : Started(d)'}
    <3>1. stored \subseteq {d \in Call : Started(d)} /\ stored' = stored
      BY DEF AppendOK
    <3> QED BY <3>1, <1>3
  <2>2. ASSUME NEW d \in Call, d # c
        PROVE  /\ d \in stored' \/ Appending(d)' # {} => ~Ahead(calls'[d].todo)
               /\ d \in stored' => Appending(d)' = {}
               /\ \A i, j \in Appending(d)' : i = j
    <3>1. Appending(d)' \subseteq Appending(d)
      BY <2>2 DEF Appending
    <3> QED BY <3>1, <2>2, <1>1 DEF AppendOK
  <2>3. /\ c \in stored \/ Appending(c) # {} => Started(c)
    BY DEF AppendOK, Appending, JobsOK, JobOK
  <2>4. /\ c \in stored \/ Appending(c)' # {} => ~Ahead(q.todo)
        /\ c \in stored => Appending(c)' = {}
        /\ \A i, j \in Appending(c)' : i = j
    <3>1. CASE Appending(c)' \subseteq Appending(c)
      BY <2>3, <3>1 DEF AppendOK
    <3>2. CASE ~(Appending(c)' \subseteq Appending(c))
      <4>1. /\ n \in jobs' \ jobs /\ n.op = "append"
            /\ Appending(c)' \subseteq Appending(c) \cup {n}
        BY <3>2 DEF Appending
      <4>2. Started(c) => Ahead(calls[c].todo)
        BY <4>1
      <4>3. c \notin stored /\ Appending(c) = {}
        BY <4>2, <2>3 DEF AppendOK
      <4>4. ~Ahead(q.todo)
        BY <4>1, OneAppend DEF CallOK
      <4> QED BY <4>1, <4>3, <4>4
    <3> QED BY <3>1, <3>2
  <2>5. ASSUME NEW d \in Call
        PROVE  /\ d \in stored' \/ Appending(d)' # {} => ~Ahead(calls'[d].todo)
               /\ d \in stored' => Appending(d)' = {}
               /\ \A i, j \in Appending(d)' : i = j
    BY <2>2, <2>4, <1>1
  <2> QED BY <2>1, <2>5 DEF AppendOK
<1> QED BY <1>2, <1>5, <1>6, <1>7, <1>8

\* the coroutine runs to its next await
LEMMA AwaitStep ==
    ASSUME Inv, NEW c \in Call, NEW q, CallRecord(q), CallOK(q), q.pc # "unused",
           Await(c, q),
           Started(c) => /\ q.req = calls[c].req
                         /\ Ahead(q.todo) => Ahead(calls[c].todo)
                         /\ q.todo # <<>> /\ Head(q.todo) = "append" =>
                               Ahead(calls[c].todo),
           UNCHANGED <<server, history>>
    PROVE  Inv'
<1>1. CASE q.todo = <<>>
  <2> DEFINE r == [q EXCEPT !.pc = "ok"]
  <2>1. CallRecord(r) /\ r.pc = "ok" /\ r.req = q.req /\ r.todo = q.todo
    BY DEF CallRecord
  <2>2. calls' = [calls EXCEPT ![c] = r] /\ jobs' \subseteq jobs
    BY <1>1 DEF Await, Return, Left
  <2> HIDE DEF r
  <2>3. CallOK(r)
    BY <2>1 DEF CallOK
  <2>4. \A j \in jobs' : j \in jobs \/ j = None
    BY <2>2
  <2> QED BY <2>1, <2>2, <2>3, <2>4, MovesOn
<1>2. CASE q.todo # <<>>
  <2> DEFINE n == [call |-> c, step |-> Len(q.todo), op |-> Head(q.todo),
                   done |-> FALSE, reply |-> None]
  <2>1. JobRecord(n) /\ n.call = c /\ n.op = Head(q.todo) /\ n.step = Len(q.todo)
    BY DEF JobRecord
  <2>2. calls' = [calls EXCEPT ![c] = q] /\ jobs' = Left(c) \cup {n}
    BY <1>2 DEF Await
  <2> HIDE DEF n
  <2>3. \A j \in jobs' : j \in jobs \/ j = n
    BY <2>2 DEF Left
  <2> QED BY <1>2, <2>1, <2>2, <2>3, MovesOn
<1> QED BY <1>1, <1>2

\* the tool returns without another exchange
LEMMA ReturnStep ==
    ASSUME Inv, NEW c \in Call, NEW q, CallRecord(q), q.req \in Request,
           PlanOK(q.todo, q.req.tool), NEW outcome \in {"ok", "failed"},
           Return(c, q, outcome),
           Started(c) => q.req = calls[c].req /\ q.todo = calls[c].todo,
           UNCHANGED <<server, history>>
    PROVE  Inv'
<1> DEFINE r == [q EXCEPT !.pc = outcome]
<1>1. CallRecord(r) /\ r.pc = outcome /\ r.req = q.req /\ r.todo = q.todo
  BY DEF CallRecord
<1>2. calls' = [calls EXCEPT ![c] = r] /\ jobs' \subseteq jobs
  BY DEF Return, Left
<1> HIDE DEF r
<1>3. CallOK(r) /\ r.pc # "unused"
  BY <1>1 DEF CallOK
<1>4. \A j \in jobs' : j \in jobs \/ j = None
  BY <1>2
<1> QED BY <1>1, <1>2, <1>3, <1>4, MovesOn

LEMMA StartStep ==
    ASSUME Inv, NEW c \in Call, NEW r \in Request, Start(c, r) PROVE Inv'
<1>1. PICK from, to, q :
         /\ q = [Unused EXCEPT !.pc = "pending", !.req = r, !.todo = Plan(r.tool),
                               !.from = from, !.to = to]
         /\ Await(c, q) \/ Return(c, q, "failed")
  BY DEF Start
<1>2. ~Started(c) /\ UNCHANGED <<server, history>>
  BY DEF Start, Started
<1>3. CallRecord(Unused)
  BY DEF Unused, CallRecord
<1>4. CallRecord(q) /\ q.pc = "pending" /\ q.req = r /\ q.todo = Plan(r.tool)
  BY <1>1, <1>3 DEF CallRecord
<1>5. PlanOK(q.todo, q.req.tool)
  BY <1>4, PlansOK, RequestAssumption
<1>6. CallOK(q)
  BY <1>4, <1>5 DEF CallOK
<1> QED BY <1>1, <1>2, <1>4, <1>5, <1>6, AwaitStep, ReturnStep

\* an exception ends the tool or is tolerated, and then its plan goes on
LEMMA RaiseStep ==
    ASSUME Inv, NEW c \in Call, Pending(c), Raise(c), UNCHANGED <<server, history>>
    PROVE  Inv'
<1> DEFINE p == calls[c].todo
<1>1. CallRecord(calls[c]) /\ PlanOK(p, calls[c].req.tool) /\ calls[c].req \in Request
      /\ Started(c)
  BY DEF Inv, CallsOK, CallOK, Pending, Started
<1>2. CASE Return(c, calls[c], "failed")
  BY <1>1, <1>2, ReturnStep
<1>3. CASE ~Return(c, calls[c], "failed")
  <2>1. PICK n, rest, q : /\ n \in {2, 3} /\ rest = SubSeq(p, n, Len(p))
                          /\ q = [calls[c] EXCEPT !.todo = rest]
                          /\ Await(c, q)
    <3>1. PICK k \in {1, 2} :
             Await(c, [calls[c] EXCEPT !.todo = SubSeq(@, 1 + k, Len(@))])
      BY <1>3 DEF Raise
    <3>2. 1 + k \in {2, 3}
      OBVIOUS
    <3> QED BY <3>1, <3>2
  <2>2. CallRecord(q) /\ q.pc = "pending" /\ q.req = calls[c].req /\ q.todo = rest
    BY <1>1, <2>1 DEF CallRecord, Pending
  <2>3. /\ PlanOK(rest, calls[c].req.tool)
        /\ Ahead(rest) => Ahead(p)
        /\ rest # <<>> /\ Head(rest) = "append" => Ahead(p)
    <3>1. rest = SubSeq(p, n, Len(p)) /\ PlanOK(p, calls[c].req.tool) /\ n \in {2, 3}
      BY <1>1, <2>1
    <3> HIDE DEF p
    <3> QED BY <3>1, RestOfPlan
  <2>4. CallOK(q)
    BY <1>1, <2>2, <2>3 DEF CallOK
  <2> QED BY <1>1, <2>1, <2>2, <2>3, <2>4, AwaitStep
<1> QED BY <1>2, <1>3

\* a reply lets the tool go on with the rest of its plan
LEMMA ResumeStep ==
    ASSUME Inv, NEW c \in Call, Resume(c) PROVE Inv'
<1> DEFINE p == calls[c].todo
<1>1. Pending(c) /\ UNCHANGED <<server, history>>
  BY DEF Resume
<1>2. CallRecord(calls[c]) /\ PlanOK(p, calls[c].req.tool) /\ calls[c].req \in Request
      /\ Started(c)
  BY <1>1 DEF Inv, CallsOK, CallOK, Pending, Started
<1>3. CASE Raise(c)
  BY <1>1, <1>3, RaiseStep
<1>4. CASE ~Raise(c)
  <2>1. PICK next, reply, q :
           /\ next = [calls[c] EXCEPT !.todo = Tail(@)]
           /\ \/ q = next
              \/ q = [next EXCEPT !.src = reply] \/ q = [next EXCEPT !.dst = reply]
              \/ q = [next EXCEPT !.read = reply] \/ q = [next EXCEPT !.from = reply]
              \/ q = [next EXCEPT !.to = reply]
           /\ Await(c, q)
    BY <1>4, Zenon DEF Resume
  <2>2. Tail(p) = SubSeq(p, 2, Len(p))
    <3>1. PICK j \in jobs : j.call = c /\ Len(p) = j.step
      BY DEF Resume, Awaited
    <3>2. j.step # 0
      BY <3>1 DEF Inv, JobsOK, JobOK
    <3>3. p \in Seq(Op) /\ p # <<>>
      BY <1>2, <3>1, <3>2 DEF PlanOK
    <3> HIDE DEF p
    <3> QED BY <3>3, TailIsSubSeq
  <2>3. CallRecord(next) /\ next.pc = "pending" /\ next.req = calls[c].req
        /\ next.todo = Tail(p)
    BY <1>1, <1>2, <2>1 DEF CallRecord, Pending
  <2>4. CallRecord(q) /\ q.pc = "pending" /\ q.req = calls[c].req /\ q.todo = Tail(p)
    BY <2>1, <2>3 DEF CallRecord
  <2>5. /\ PlanOK(Tail(p), calls[c].req.tool)
        /\ Ahead(Tail(p)) => Ahead(p)
        /\ Tail(p) # <<>> /\ Head(Tail(p)) = "append" => Ahead(p)
    <3>1. PlanOK(p, calls[c].req.tool) /\ 2 \in {2, 3}
      BY <1>2
    <3> HIDE DEF p
    <3> QED BY <3>1, <2>2, RestOfPlan
  <2>6. CallOK(q)
    BY <1>2, <2>4, <2>5 DEF CallOK
  <2> QED BY <1>1, <1>2, <2>1, <2>4, <2>5, <2>6, AwaitStep
<1> QED BY <1>3, <1>4

LEMMA CoroutineStep ==
    ASSUME Inv,
           \/ \E c \in Call, r \in Request : Start(c, r)
           \/ \E c \in Call : Resume(c) \/ Timeout(c)
    PROVE  Inv'
<1>1. ASSUME NEW c \in Call, Timeout(c) PROVE Inv'
  BY <1>1, RaiseStep DEF Timeout
<1> QED BY <1>1, StartStep, ResumeStep
-----------------------------------------------------------------------------
\* The exchanges

\* an exchange that goes on or ends starts no other
LEMMA JobsStay ==
    ASSUME Inv, UNCHANGED calls,
           \A k \in jobs' : k \in jobs \/ (JobOK(k) /\ (k.op = "append" => k.done))
    PROVE  /\ CallsOK' /\ JobsOK'
           /\ \A c \in Call : Appending(c)' \subseteq Appending(c)
<1>1. CallsOK'
  BY DEF Inv, CallsOK, CallOK, CallRecord
<1>2. JobsOK'
  <2>1. \A k \in jobs' : JobOK(k)
    BY DEF Inv, JobsOK
  <2> QED BY <2>1 DEF JobsOK, JobOK, Started
<1>3. \A c \in Call : Appending(c)' \subseteq Appending(c)
  BY DEF Appending
<1> QED BY <1>1, <1>2, <1>3

LEMMA JobsMoveOn ==
    ASSUME Inv, UNCHANGED <<calls, stored>>,
           \A k \in jobs' : k \in jobs \/ (JobOK(k) /\ (k.op = "append" => k.done))
    PROVE  CallsOK' /\ JobsOK' /\ AppendOK'
<1>1. CallsOK' /\ JobsOK' /\ \A c \in Call : Appending(c)' \subseteq Appending(c)
  BY JobsStay
<1>2. AppendOK
  BY DEF Inv
<1>3. \A c \in Call : /\ c \in stored \/ Appending(c)' # {} => ~Ahead(calls[c].todo)
                      /\ c \in stored => Appending(c)' = {}
                      /\ \A i, j \in Appending(c)' : i = j
  BY <1>1, <1>2 DEF AppendOK
<1>4. stored \subseteq {c \in Call : Started(c)}
  BY <1>2 DEF AppendOK
<1>5. AppendOK'
  BY <1>3, <1>4 DEF AppendOK, Started
<1> QED BY <1>1, <1>5

LEMMA AnsweredJob ==
    ASSUME Inv, NEW j \in jobs, NEW reply, Answer(j, reply)
    PROVE  \A k \in jobs' : k \in jobs \/ (JobOK(k) /\ (k.op = "append" => k.done))
<1> SUFFICES ASSUME NEW k, k = [j EXCEPT !.done = TRUE, !.reply = reply]
             PROVE  JobOK(k) /\ k.done
  BY DEF Answer
<1>1. JobOK(j)
  BY DEF Inv, JobsOK
<1> QED BY <1>1 DEF JobOK, JobRecord

LEMMA Answered ==
    ASSUME Inv, NEW j \in jobs, NEW reply, Answer(j, reply),
           UNCHANGED <<calls, stored>>
    PROVE  CallsOK' /\ JobsOK' /\ AppendOK'
  BY AnsweredJob, JobsMoveOn

\* no message of the mailboxes changes
LEMMA ReadingStep ==
    ASSUME Inv, List \/ Fetch \/ Search \/ Smtp \/ Break PROVE Inv'
<1>1. UNCHANGED <<mail, calls, stored, expunged, dropped, copied>>
  BY DEF List, Fetch, Search, Smtp, Break, server, history
<1>2. \E j \in jobs : \E reply : Answer(j, reply)
  <2>1. CASE List
    BY <2>1, Zenon DEF List, Running
  <2>2. CASE Fetch \/ Search \/ Smtp \/ Break
    BY <2>2, Zenon DEF Fetch, Search, Smtp, Break, Running
  <2> QED BY <2>1, <2>2
<1>3. CallsOK' /\ JobsOK' /\ AppendOK'
  BY <1>1, <1>2, Answered
<1>4. MailOK' /\ ExpungedOK' /\ ExpungeOnlyNamed'
  BY <1>1 DEF Inv, MailOK, Sources, ExpungedOK, Started, ExpungeOnlyNamed
<1> QED BY <1>3, <1>4 DEF Inv
\* messages that only change their flags or their place
LEMMA Rewritten ==
    ASSUME Inv, UNCHANGED <<stored, expunged, dropped, copied>>,
           NEW f, mail' = {f[m] : m \in mail},
           \A m \in mail : MessageRecord(f[m]) /\ f[m].msg = m.msg
    PROVE  MailOK'
<1>1. MailOK /\ Sources' = Sources
  BY DEF Inv, Sources
<1>2. \A m \in mail' : MessageRecord(m) /\ m.msg \in Sources
  BY <1>1 DEF MailOK
<1>3. ASSUME ~copied, NEW k \in mail', NEW m \in mail', k.msg = m.msg PROVE k = m
  <2>1. PICK x \in mail, y \in mail : k = f[x] /\ m = f[y]
    OBVIOUS
  <2>2. x.msg = y.msg
    BY <1>3, <2>1
  <2> QED BY <1>1, <1>3, <2>1, <2>2 DEF MailOK
<1>4. ASSUME NEW s \in Sources
      PROVE  \/ \E k \in mail' : k.msg = s
             \/ \E e \in expunged : e.msg = s
             \/ s \in dropped
  <2>1. \A k \in mail : f[k] \in mail' /\ f[k].msg = k.msg
    OBVIOUS
  <2> QED BY <1>1, <2>1 DEF MailOK
<1> QED BY <1>1, <1>2, <1>3, <1>4 DEF MailOK, MessageRecord

\* messages that go are accounted for
LEMMA Removed ==
    ASSUME Inv, UNCHANGED <<stored, copied>>, NEW gone, mail' = mail \ gone,
           expunged \subseteq expunged', dropped \subseteq dropped',
           \A m \in gone : m.msg \in dropped' \/ \E e \in expunged' : e.msg = m.msg
    PROVE  MailOK'
<1>1. MailOK /\ Sources' = Sources
  BY DEF Inv, Sources
<1>2. \A m \in mail' : MessageRecord(m) /\ m.msg \in Sources
  BY <1>1 DEF MailOK
<1>3. ~copied => \A k, m \in mail' : k.msg = m.msg => k = m
  BY <1>1 DEF MailOK
<1>4. \A s \in Sources : \/ \E k \in mail' : k.msg = s
                         \/ \E e \in expunged' : e.msg = s
                         \/ s \in dropped'
  BY <1>1 DEF MailOK
<1> QED BY <1>1, <1>2, <1>3, <1>4 DEF MailOK, MessageRecord

\* what was expunged stays right while the calls are what they were
LEMMA ExpungedStays ==
    ASSUME Inv, UNCHANGED <<calls, expunged>>
    PROVE  ExpungedOK' /\ ExpungeOnlyNamed'
  BY DEF Inv, ExpungedOK, Started, ExpungeOnlyNamed

LEMMA Flagged ==
    ASSUME Inv, UNCHANGED <<stored, expunged, dropped, copied>>, NEW j, NEW on,
           mail' = {IF m \in Named(j.call) THEN [m EXCEPT !.deleted = on] ELSE m :
                      m \in mail}
    PROVE  MailOK'
<1> DEFINE f == [m \in mail |-> IF m \in Named(j.call)
                                 THEN [m EXCEPT !.deleted = on] ELSE m]
<1>1. mail' = {f[m] : m \in mail}
  OBVIOUS
<1>2. \A m \in mail : MessageRecord(f[m]) /\ f[m].msg = m.msg
  BY DEF Inv, MailOK, MessageRecord
<1> HIDE DEF f
<1> QED BY <1>1, <1>2, Rewritten

LEMMA FlagsStep == ASSUME Inv, Flags PROVE Inv'
<1>1. PICK j \in jobs, on \in BOOLEAN :
         /\ mail' = {IF m \in Named(j.call) THEN [m EXCEPT !.deleted = on] ELSE m :
                       m \in mail}
         /\ Answer(j, IF calls[j.call].src \in folders THEN TRUE ELSE None)
  BY DEF Flags, Running
<1>2. UNCHANGED <<calls, stored, expunged, dropped, copied>>
  BY DEF Flags, history
<1>3. CallsOK' /\ JobsOK' /\ AppendOK'
  BY <1>1, <1>2, Answered
<1>4. MailOK'
  BY <1>1, <1>2, Flagged
<1> QED BY <1>2, <1>3, <1>4, ExpungedStays DEF Inv

LEMMA MarkStep == ASSUME Inv, Mark PROVE Inv'
<1>1. PICK j \in jobs :
         /\ j.op = "delete"
         /\ mail' = {IF m \in Named(j.call) THEN [m EXCEPT !.deleted = TRUE]
                     ELSE m : m \in mail}
         /\ jobs' = (jobs \ {j}) \cup {[j EXCEPT !.op = "expunge"]}
  BY DEF Mark, Running
<1>2. UNCHANGED <<calls, stored, expunged, dropped, copied>>
  BY DEF Mark, history
<1>3. ASSUME NEW k, k = [j EXCEPT !.op = "expunge"]
      PROVE  JobOK(k) /\ k.op # "append"
  BY <1>1, <1>3 DEF Inv, JobsOK, JobOK, JobRecord
<1>4. CallsOK' /\ JobsOK' /\ AppendOK'
  BY <1>1, <1>2, <1>3, JobsMoveOn
<1>5. MailOK'
  BY <1>1, <1>2, Flagged
<1> QED BY <1>2, <1>4, <1>5, ExpungedStays DEF Inv

\* a tool that deletes names one message, but for the one that takes a list
LEMMA OneIsNamed ==
    ASSUME NEW r \in Request, r.tool \in Expunging, r.tool # "delete_emails_permanently"
    PROVE  r.uids # {}
  BY RequestAssumption

\* what an EXPUNGE takes
LEMMA WipedMessages ==
    ASSUME Inv, NEW j \in jobs, j.op = "expunge", NEW m \in Wiped(j)
    PROVE  LET req == calls[j.call].req
           IN /\ req \in Request /\ req.tool \in Expunging
              /\ m \in mail /\ m.mb = calls[j.call].src
              /\ \/ m.uid \in req.uids
                 \/ req.tool = "delete_emails_permanently" /\ req.uids = {}
<1> DEFINE req == calls[j.call].req
<1>1. req \in Request /\ req.tool \in Expunging
  BY DEF Inv, JobsOK, JobOK, CallsOK, CallOK, Started
<1>2. m \in mail /\ m.mb = calls[j.call].src /\ (m.uid \in req.uids \/ req.uids = {})
  BY DEF Wiped
<1>3. req.uids = {} => req.tool = "delete_emails_permanently"
  BY <1>1, OneIsNamed
<1> QED BY <1>1, <1>2, <1>3

LEMMA ExpungeStep == ASSUME Inv, Expunge PROVE Inv'
<1>1. PICK j \in jobs :
         /\ j.op = "expunge"
         /\ mail' = mail \ Wiped(j)
         /\ expunged' = expunged \cup
              {[call |-> j.call, mb |-> m.mb, uid |-> m.uid, msg |-> m.msg] :
                 m \in Wiped(j)}
         /\ Answer(j, IF calls[j.call].src \in folders THEN TRUE ELSE None)
  BY DEF Expunge, Running
<1>2. UNCHANGED <<calls, stored, dropped, copied>>
  BY DEF Expunge
<1>3. CallsOK' /\ JobsOK' /\ AppendOK'
  BY <1>1, <1>2, Answered
<1>4. \A m \in Wiped(j) : \E e \in expunged' : e.msg = m.msg
  <2> SUFFICES ASSUME NEW m \in Wiped(j) PROVE \E e \in expunged' : e.msg = m.msg
    OBVIOUS
  <2>1. [call |-> j.call, mb |-> m.mb, uid |-> m.uid, msg |-> m.msg] \in expunged'
    BY <1>1
  <2> QED BY <2>1
<1>5. MailOK'
  BY <1>1, <1>2, <1>4, Removed
<1>6. /\ j.call \in Call /\ Started(j.call)
  BY <1>1 DEF Inv, JobsOK, JobOK
<1>7. ASSUME NEW e \in expunged'
      PROVE  /\ e.call \in Call /\ Started(e.call)
             /\ calls[e.call].req.tool \in Expunging
             /\ \/ e.uid \in calls[e.call].req.uids
                \/ /\ calls[e.call].req.tool = "delete_emails_permanently"
                   /\ calls[e.call].req.uids = {}
  <2>1. CASE e \in expunged
    BY <2>1 DEF Inv, ExpungedOK, ExpungeOnlyNamed
  <2>2. CASE e \notin expunged
    <3>1. PICK m \in Wiped(j) :
            e = [call |-> j.call, mb |-> m.mb, uid |-> m.uid, msg |-> m.msg]
      BY <1>1, <2>2
    <3> QED BY <1>1, <1>6, <3>1, WipedMessages
  <2> QED BY <2>1, <2>2
<1>8. ExpungedOK' /\ ExpungeOnlyNamed'
  BY <1>2, <1>7 DEF ExpungedOK, Started, ExpungeOnlyNamed
<1> QED BY <1>3, <1>5, <1>8 DEF Inv

\* the server gives a message another place
LEMMA MovedMessage ==
    ASSUME NEW m, MessageRecord(m), NEW mb, NEW uid
    PROVE  /\ MessageRecord([m EXCEPT !.mb = mb, !.uid = uid])
           /\ [m EXCEPT !.mb = mb, !.uid = uid].msg = m.msg
<1> SUFFICES ASSUME NEW k, k = [m EXCEPT !.mb = mb, !.uid = uid]
             PROVE  MessageRecord(k) /\ k.msg = m.msg
  OBVIOUS
<1> QED BY DEF MessageRecord

LEMMA TransferredMail ==
    ASSUME Inv, NEW j \in jobs, UNCHANGED <<calls, stored, expunged, dropped>>,
           \/ mail' = mail
           \/ mail' = (mail \ Taken(j)) \cup Renumbered(Named(j.call), calls[j.call].dst),
           copied' = (copied \/ calls[j.call].req.tool \in Copying)
    PROVE  MailOK'
<1> DEFINE named == Named(j.call)
           dst == calls[j.call].dst
           next(m) == uidNext[dst] + Cardinality({k \in named : k.uid < m.uid})
           moved(m) == [m EXCEPT !.mb = dst, !.uid = next(m)]
<1>1. Renumbered(named, dst) = {moved(m) : m \in named} /\ named \subseteq mail
  BY DEF Renumbered, Named
<1> HIDE DEF next
<1>2. \A m \in mail : MessageRecord(moved(m)) /\ moved(m).msg = m.msg
  BY MovedMessage DEF Inv, MailOK
<1>3. Taken(j) = IF calls[j.call].req.tool \in Copying THEN {} ELSE named
  BY DEF Taken
<1>4. MailOK /\ Sources' = Sources
  BY DEF Inv, Sources
<1> HIDE DEF moved, named
<1>5. CASE mail' = mail
  BY <1>4, <1>5 DEF MailOK, MessageRecord
<1>6. CASE /\ mail' = (mail \ Taken(j)) \cup {moved(m) : m \in named}
           /\ calls[j.call].req.tool \in Copying
  <2>1. mail' = mail \cup {moved(m) : m \in named} /\ copied'
    BY <1>3, <1>6
  <2>2. \A m \in mail' : MessageRecord(m) /\ m.msg \in Sources
    BY <1>1, <1>2, <1>4, <2>1 DEF MailOK
  <2>3. \A s \in Sources : \/ \E k \in mail' : k.msg = s
                           \/ \E e \in expunged : e.msg = s
                           \/ s \in dropped
    BY <1>4, <2>1 DEF MailOK
  <2> QED BY <1>4, <2>1, <2>2, <2>3 DEF MailOK, MessageRecord
<1>7. CASE /\ mail' = (mail \ Taken(j)) \cup {moved(m) : m \in named}
           /\ calls[j.call].req.tool \notin Copying
  <2> DEFINE f == [m \in mail |-> IF m \in named THEN moved(m) ELSE m]
  <2>1. mail' = {f[m] : m \in mail}
    BY <1>1, <1>3, <1>7
  <2>2. \A m \in mail : MessageRecord(f[m]) /\ f[m].msg = m.msg
    BY <1>2, <1>4 DEF MailOK
  <2>3. copied' = copied
    BY <1>4, <1>7 DEF MailOK
  <2> HIDE DEF f
  <2> QED BY <2>1, <2>2, <2>3, Rewritten
<1> QED BY <1>1, <1>5, <1>6, <1>7 DEF named

LEMMA TransferStep == ASSUME Inv, Transfer PROVE Inv'
<1>1. PICK j \in jobs : \E reply :
         /\ \/ mail' = mail
            \/ mail' = (mail \ Taken(j)) \cup Renumbered(Named(j.call), calls[j.call].dst)
         /\ copied' = (copied \/ calls[j.call].req.tool \in Copying)
         /\ Answer(j, reply)
  BY DEF Transfer, Running
<1>2. UNCHANGED <<calls, stored, expunged, dropped>>
  BY DEF Transfer
<1>3. CallsOK' /\ JobsOK' /\ AppendOK'
  BY <1>1, <1>2, Answered
<1>4. MailOK'
  BY <1>1, <1>2, TransferredMail
<1> QED BY <1>2, <1>3, <1>4, ExpungedStays DEF Inv

\* the message of a call is stored once
LEMMA StoredOnce ==
    ASSUME Inv, NEW j \in jobs, ~j.done, j.op = "append", Answer(j, TRUE),
           UNCHANGED <<calls, expunged, dropped, copied>>,
           stored' = stored \cup {j.call}, NEW m, MessageRecord(m), m.msg = j.call,
           mail' = mail \cup {m}
    PROVE  CallsOK' /\ JobsOK' /\ AppendOK' /\ MailOK'
<1>1. /\ CallsOK' /\ JobsOK'
      /\ \A c \in Call : Appending(c)' \subseteq Appending(c)
  BY AnsweredJob, JobsStay
<1>2. j.call \in Call /\ Started(j.call) /\ j \in Appending(j.call)
  BY DEF Inv, JobsOK, JobOK, Appending
<1>3. AppendOK
  BY DEF Inv
<1>4. ~Ahead(calls[j.call].todo) /\ j.call \notin stored
  BY <1>2, <1>3 DEF AppendOK
<1>5. Appending(j.call)' = {}
  <2> SUFFICES ASSUME NEW k \in Appending(j.call)' PROVE FALSE
    OBVIOUS
  <2>1. k = j
    BY <1>1, <1>2, <1>3 DEF AppendOK
  <2>2. k \in jobs' /\ ~k.done
    BY DEF Appending
  <2> DEFINE e == [j EXCEPT !.done = TRUE, !.reply = TRUE]
  <2>3. jobs' \subseteq (jobs \ {j}) \cup {e}
    BY DEF Answer
  <2>4. k = e
    BY <2>1, <2>2, <2>3
  <2>5. e.done
    BY DEF Inv, JobsOK, JobOK, JobRecord
  <2> HIDE DEF e
  <2> QED BY <2>2, <2>4, <2>5
<1>6. AppendOK'
  <2>1. \A c \in Call : /\ c \in stored' \/ Appending(c)' # {} => ~Ahead(calls[c].todo)
                        /\ c \in stored' => Appending(c)' = {}
                        /\ \A i, k \in Appending(c)' : i = k
    BY <1>1, <1>3, <1>4, <1>5 DEF AppendOK
  <2>2. stored' \subseteq {c \in Call : Started(c)}
    BY <1>2, <1>3 DEF AppendOK
  <2> QED BY <2>1, <2>2 DEF AppendOK, Started
<1>7. MailOK'
  <2>1. MailOK /\ Sources' = Sources \cup {j.call}
    BY DEF Inv, Sources
  <2>2. j.call \notin Sources
    BY <1>2, <1>4, MailboxAssumption DEF Sources
  <2>3. \A k \in mail' : MessageRecord(k) /\ k.msg \in Sources'
    BY <2>1 DEF MailOK
  <2>4. ~copied => \A k, l \in mail' : k.msg = l.msg => k = l
    BY <2>1, <2>2 DEF MailOK
  <2>5. \A s \in Sources' : \/ \E k \in mail' : k.msg = s
                            \/ \E e \in expunged : e.msg = s
                            \/ s \in dropped
    BY <2>1 DEF MailOK
  <2> QED BY <2>1, <2>3, <2>4, <2>5 DEF MailOK, MessageRecord
<1> QED BY <1>1, <1>6, <1>7

LEMMA AppendStep == ASSUME Inv, AppendMessage PROVE Inv'
<1>1. PICK j \in jobs :
         /\ ~j.done /\ j.op = "append"
         /\ \/ /\ \E mb, uid : mail' = mail \cup {[mb |-> mb, uid |-> uid,
                                                   msg |-> j.call, deleted |-> FALSE]}
               /\ stored' = stored \cup {j.call}
               /\ Answer(j, TRUE)
            \/ Answer(j, None) /\ UNCHANGED <<mail, stored>>
  BY DEF AppendMessage, Running
<1>2. UNCHANGED <<calls, expunged, dropped, copied>>
  BY DEF AppendMessage
<1>3. CASE Answer(j, None) /\ UNCHANGED <<mail, stored>>
  <2>1. CallsOK' /\ JobsOK' /\ AppendOK'
    BY <1>2, <1>3, Answered
  <2>2. MailOK'
    BY <1>2, <1>3 DEF Inv, MailOK, Sources, MessageRecord
  <2> QED BY <1>2, <2>1, <2>2, ExpungedStays DEF Inv
<1>4. CASE ~(Answer(j, None) /\ UNCHANGED <<mail, stored>>)
  <2>1. PICK mb, uid : mail' = mail \cup {[mb |-> mb, uid |-> uid,
                                           msg |-> j.call, deleted |-> FALSE]}
    BY <1>1, <1>4
  <2> DEFINE m == [mb |-> mb, uid |-> uid, msg |-> j.call, deleted |-> FALSE]
  <2>2. MessageRecord(m) /\ m.msg = j.call
    BY DEF MessageRecord
  <2>3. stored' = stored \cup {j.call} /\ Answer(j, TRUE)
    BY <1>1, <1>4
  <2>4. mail' = mail \cup {m}
    BY <2>1
  <2> HIDE DEF m
  <2>5. CallsOK' /\ JobsOK' /\ AppendOK' /\ MailOK'
    BY <1>1, <1>2, <2>2, <2>3, <2>4, StoredOnce
  <2> QED BY <1>2, <2>5, ExpungedStays DEF Inv
<1> QED BY <1>3, <1>4

LEMMA FolderStep == ASSUME Inv, FolderAction PROVE Inv'
<1>1. PICK j \in jobs : /\ \/ CreateFolder(j) \/ RenameFolder(j)
                           \/ DeleteFolder(j) \/ SubscribeFolder(j)
                        /\ Answer(j, TRUE)
  BY DEF FolderAction, Running
<1>2. UNCHANGED <<calls, stored, expunged, copied>>
  BY DEF FolderAction
<1>3. CallsOK' /\ JobsOK' /\ AppendOK'
  BY <1>1, <1>2, Answered
<1>4. MailOK'
  <2>1. CASE CreateFolder(j) \/ SubscribeFolder(j)
    BY <1>2, <2>1 DEF CreateFolder, SubscribeFolder, server, Inv, MailOK, Sources,
                      MessageRecord
  <2>2. CASE RenameFolder(j)
    <3>1. PICK src, new : mail' = {IF m.mb = src THEN [m EXCEPT !.mb = new] ELSE m :
                                     m \in mail}
      BY <2>2 DEF RenameFolder
    <3>2. dropped' = dropped
      BY <2>2 DEF RenameFolder
    <3> DEFINE f == [m \in mail |-> IF m.mb = src THEN [m EXCEPT !.mb = new] ELSE m]
    <3>3. mail' = {f[m] : m \in mail}
      BY <3>1
    <3>4. \A m \in mail : MessageRecord(f[m]) /\ f[m].msg = m.msg
      BY DEF Inv, MailOK, MessageRecord
    <3> HIDE DEF f
    <3> QED BY <1>2, <3>2, <3>3, <3>4, Rewritten
  <2>3. CASE DeleteFolder(j)
    <3>1. PICK gone : /\ mail' = mail \ gone
                      /\ dropped' = dropped \cup {m.msg : m \in gone}
      BY <2>3 DEF DeleteFolder
    <3> QED BY <1>2, <3>1, Removed
  <2> QED BY <1>1, <2>1, <2>2, <2>3
<1> QED BY <1>2, <1>3, <1>4, ExpungedStays DEF Inv

LEMMA IdleStep == ASSUME Inv, UNCHANGED vars PROVE Inv'
<1>1. CallsOK' /\ JobsOK' /\ AppendOK'
  BY JobsMoveOn DEF vars, history
<1>2. MailOK'
  BY DEF vars, server, history, Inv, MailOK, Sources, MessageRecord
<1> QED BY <1>1, <1>2, ExpungedStays DEF Inv, vars, history

LEMMA InvStep == Inv /\ [Next]_vars => Inv'
<1> SUFFICES ASSUME Inv, [Next]_vars PROVE Inv'
  OBVIOUS
<1>1. CASE Exchange
  BY <1>1, ReadingStep, FlagsStep, TransferStep, MarkStep, ExpungeStep, AppendStep,
     FolderStep DEF Exchange
<1>2. CASE Finished \/ UNCHANGED vars
  BY <1>2, IdleStep DEF Finished
<1> QED BY <1>1, <1>2, CoroutineStep DEF Next

LEMMA Invariance == Spec => []Inv
  BY InitInv, InvStep, PTL DEF Spec

-----------------------------------------------------------------------------
\* The promises

\* Only tools that delete remove anything, and only the UIDs they were asked to
\* remove, whatever was abandoned half-way; but an empty list, which only
\* delete_emails_permanently can be given, stands for all that is flagged.
THEOREM OnlyNamedIsExpunged == Spec => []ExpungeOnlyNamed
<1>1. Inv => ExpungeOnlyNamed
  BY DEF Inv
<1> QED BY <1>1, Invariance, PTL

\* No order of tools, abandoned exchanges included, loses a message or leaves
\* it in two places.
THEOREM MailIsKept == Spec => []NoMessageLost
<1>1. Inv => NoMessageLost
  <2> SUFFICES ASSUME MailOK, NEW s \in Sources, ~copied
               PROVE  Cardinality({k \in mail : k.msg = s}) <= 1
    BY DEF Inv, MailOK, NoMessageLost, Sources
  <2> DEFINE there == {k \in mail : k.msg = s}
  <2>1. there = {} \/ \E k \in there : there = {k}
    BY DEF MailOK
  <2> HIDE DEF there
  <2>2. Cardinality(there) <= 1
    <3>1. there = {} => Cardinality(there) = 0
      BY FS_EmptySet
    <3>2. (\E k \in there : there = {k}) => Cardinality(there) = 1
      BY FS_Singleton, Zenon
    <3> QED BY <2>1, <3>1, <3>2
  <2> QED BY <2>2 DEF there
<1> QED BY <1>1, Invariance, PTL

-----------------------------------------------------------------------------
\* Where a call is in its plan: a plan is read from its end, as what is left of
\* it is its end

FromEnd(p, k) == p[Len(p) - k + 1]

LEMMA JoinedFromEnd ==
    ASSUME NEW s \in Seq(Op), NEW t \in Seq(Op)
    PROVE  /\ s \o t \in Seq(Op) /\ Len(s \o t) = Len(s) + Len(t)
           /\ \A k \in 1 .. Len(s) + Len(t) :
                FromEnd(s \o t, k) = IF k <= Len(t) THEN FromEnd(t, k)
                                     ELSE FromEnd(s, k - Len(t))
<1>1. /\ s \o t \in Seq(Op)
      /\ Len(s \o t) = Len(s) + Len(t)
      /\ \A i \in 1 .. Len(s) + Len(t) :
           (s \o t)[i] = IF i <= Len(s) THEN s[i] ELSE t[i - Len(s)]
  BY ConcatProperties
<1>2. Len(s) \in Nat /\ Len(t) \in Nat
  OBVIOUS
<1> QED BY <1>1, <1>2 DEF FromEnd

LEMMA ShortFromEnd ==
    /\ \A a \in Op : /\ <<a>> \in Seq(Op) /\ Len(<<a>>) = 1
                     /\ FromEnd(<<a>>, 1) = a
    /\ \A a, b \in Op : /\ <<a, b>> \in Seq(Op) /\ Len(<<a, b>>) = 2
                        /\ FromEnd(<<a, b>>, 1) = b /\ FromEnd(<<a, b>>, 2) = a
  BY DEF FromEnd

LEMMA FindFromEnd ==
    ASSUME NEW kind
    PROVE  /\ Find(kind) \in Seq(Op) /\ Len(Find(kind)) \in {0, 1}
           /\ Len(Find(kind)) = 1 => FromEnd(Find(kind), 1) = "special"
<1>1. "special" \in Op
  BY DEF Op
<1>2. CASE Find(kind) = <<>>
  BY <1>2
<1>3. CASE Find(kind) = <<"special">>
  BY <1>1, <1>3, ShortFromEnd
<1> QED BY <1>2, <1>3 DEF Find

\* an append, perhaps after a look for its mailbox
LEMMA AppendFromEnd ==
    ASSUME NEW kind, NEW p, p = Find(kind) \o <<"append">>
    PROVE  /\ p \in Seq(Op) /\ Len(p) \in {1, 2}
           /\ FromEnd(p, 1) = "append"
           /\ Len(p) = 2 => FromEnd(p, 2) = "special"
<1> DEFINE f == Find(kind)
           t == <<"append">>
<1>1. f \in Seq(Op) /\ Len(f) \in {0, 1} /\ (Len(f) = 1 => FromEnd(f, 1) = "special")
  BY FindFromEnd
<1>2. t \in Seq(Op) /\ Len(t) = 1 /\ FromEnd(t, 1) = "append"
  <2>1. "append" \in Op
    BY DEF Op
  <2> QED BY <2>1, ShortFromEnd
<1> HIDE DEF f, t
<1>3. /\ f \o t \in Seq(Op) /\ Len(f \o t) = Len(f) + Len(t)
      /\ \A k \in 1 .. Len(f) + Len(t) :
           FromEnd(f \o t, k) = IF k <= Len(t) THEN FromEnd(t, k)
                                ELSE FromEnd(f, k - Len(t))
  BY <1>1, <1>2, JoinedFromEnd
<1>4. /\ Len(f \o t) \in {1, 2} /\ FromEnd(f \o t, 1) = "append"
      /\ Len(f \o t) = 2 => FromEnd(f \o t, 2) = "special"
  BY <1>1, <1>2, <1>3
<1>5. p = f \o t
  BY DEF f, t
<1> QED BY <1>3, <1>4, <1>5, Zenon

LEMMA DeleteFromEnd ==
    /\ DeletePlan \in Seq(Op) /\ Len(DeletePlan) = 2
    /\ FromEnd(DeletePlan, 1) = "delete" /\ FromEnd(DeletePlan, 2) = "resolve"
<1>1. "delete" \in Op /\ "resolve" \in Op
  BY DEF Op
<1> QED BY <1>1, ShortFromEnd DEF DeletePlan

LEMMA UpdateFromEnd ==
    /\ UpdateDraftPlan \in Seq(Op) /\ Len(UpdateDraftPlan) \in {3, 4}
    /\ FromEnd(UpdateDraftPlan, 1) = "delete"
    /\ FromEnd(UpdateDraftPlan, 2) = "resolve"
    /\ FromEnd(UpdateDraftPlan, 3) = "append"
    /\ Len(UpdateDraftPlan) = 4 => FromEnd(UpdateDraftPlan, 4) = "special"
<1> DEFINE s == DraftPlan
           t == DeletePlan
<1>1. /\ s \in Seq(Op) /\ Len(s) \in {1, 2} /\ FromEnd(s, 1) = "append"
      /\ Len(s) = 2 => FromEnd(s, 2) = "special"
  BY AppendFromEnd DEF DraftPlan
<1>2. t \in Seq(Op) /\ Len(t) = 2 /\ FromEnd(t, 1) = "delete" /\ FromEnd(t, 2) = "resolve"
  BY DeleteFromEnd
<1> HIDE DEF s, t
<1>3. /\ s \o t \in Seq(Op) /\ Len(s \o t) = Len(s) + Len(t)
      /\ \A k \in 1 .. Len(s) + Len(t) :
           FromEnd(s \o t, k) = IF k <= Len(t) THEN FromEnd(t, k)
                                ELSE FromEnd(s, k - Len(t))
  BY <1>1, <1>2, JoinedFromEnd
<1>4. /\ FromEnd(s \o t, 1) = "delete" /\ FromEnd(s \o t, 2) = "resolve"
      /\ FromEnd(s \o t, 3) = "append" /\ Len(s \o t) \in {3, 4}
      /\ Len(s \o t) = 4 => FromEnd(s \o t, 4) = "special"
  <2>1. CASE Len(s) = 1
    BY <1>1, <1>2, <1>3, <2>1
  <2>2. CASE Len(s) = 2
    BY <1>1, <1>2, <1>3, <2>2
  <2> QED BY <1>1, <2>1, <2>2
<1>5. UpdateDraftPlan = s \o t
  BY Zenon DEF UpdateDraftPlan, s, t
<1> QED BY <1>3, <1>4, <1>5, Zenon

SendAt == Len(SendDraftPlan) - 2

LEMMA SendFromEnd ==
    /\ SendDraftPlan \in Seq(Op) /\ SendAt \in {4, 5}
    /\ Len(SendDraftPlan) = SendAt + 2
    /\ FromEnd(SendDraftPlan, 1) = "delete"
    /\ FromEnd(SendDraftPlan, 2) = "resolve"
    /\ FromEnd(SendDraftPlan, 3) = "append"
    /\ SendAt = 5 => FromEnd(SendDraftPlan, 4) = "special"
    /\ FromEnd(SendDraftPlan, SendAt) = "smtp"
    /\ FromEnd(SendDraftPlan, SendAt + 1) = "fetch"
    /\ FromEnd(SendDraftPlan, SendAt + 2) = "resolve"
<1> DEFINE b == <<"smtp">>
           f == Find("sent")
           c == <<"append">>
           a == <<"resolve", "fetch">>
           d == DeletePlan
<1>1. /\ a \in Seq(Op) /\ Len(a) = 2 /\ FromEnd(a, 1) = "fetch" /\ FromEnd(a, 2) = "resolve"
      /\ b \in Seq(Op) /\ Len(b) = 1 /\ FromEnd(b, 1) = "smtp"
      /\ c \in Seq(Op) /\ Len(c) = 1 /\ FromEnd(c, 1) = "append"
  <2>1. {"resolve", "fetch", "smtp", "append"} \subseteq Op
    BY DEF Op
  <2> QED BY <2>1, ShortFromEnd
<1>2. f \in Seq(Op) /\ Len(f) \in {0, 1} /\ (Len(f) = 1 => FromEnd(f, 1) = "special")
  BY FindFromEnd
<1>3. d \in Seq(Op) /\ Len(d) = 2 /\ FromEnd(d, 1) = "delete" /\ FromEnd(d, 2) = "resolve"
  BY DeleteFromEnd
<1>4. SendDraftPlan = (a \o ((b \o f) \o c)) \o d
  BY DEF SendDraftPlan, SendPlan
<1> HIDE DEF a, b, c, d, f
<1>5. /\ b \o f \in Seq(Op) /\ Len(b \o f) = Len(f) + 1
      /\ Len(f) = 1 => FromEnd(b \o f, 1) = "special"
      /\ FromEnd(b \o f, Len(f) + 1) = "smtp"
  <2>1. /\ b \o f \in Seq(Op) /\ Len(b \o f) = Len(b) + Len(f)
        /\ \A k \in 1 .. Len(b) + Len(f) :
             FromEnd(b \o f, k) = IF k <= Len(f) THEN FromEnd(f, k)
                                  ELSE FromEnd(b, k - Len(f))
    BY <1>1, <1>2, JoinedFromEnd
  <2> QED BY <1>1, <1>2, <2>1
<1> DEFINE s == b \o f
<1> HIDE DEF s
<1>6. /\ s \o c \in Seq(Op) /\ Len(s \o c) = Len(f) + 2
      /\ FromEnd(s \o c, 1) = "append"
      /\ Len(f) = 1 => FromEnd(s \o c, 2) = "special"
      /\ FromEnd(s \o c, Len(f) + 2) = "smtp"
  <2>1. /\ s \in Seq(Op) /\ Len(s) = Len(f) + 1
        /\ Len(f) = 1 => FromEnd(s, 1) = "special"
        /\ FromEnd(s, Len(f) + 1) = "smtp"
    BY <1>5 DEF s
  <2>2. /\ s \o c \in Seq(Op) /\ Len(s \o c) = Len(s) + Len(c)
        /\ \A k \in 1 .. Len(s) + Len(c) :
             FromEnd(s \o c, k) = IF k <= Len(c) THEN FromEnd(c, k)
                                  ELSE FromEnd(s, k - Len(c))
    BY <1>1, <1>2, <2>1, JoinedFromEnd
  <2> QED BY <1>1, <1>2, <2>1, <2>2
<1> DEFINE u == s \o c
<1> HIDE DEF u
<1>7. /\ a \o u \in Seq(Op) /\ Len(a \o u) = Len(f) + 4
      /\ FromEnd(a \o u, 1) = "append"
      /\ Len(f) = 1 => FromEnd(a \o u, 2) = "special"
      /\ FromEnd(a \o u, Len(f) + 2) = "smtp"
      /\ FromEnd(a \o u, Len(f) + 3) = "fetch"
      /\ FromEnd(a \o u, Len(f) + 4) = "resolve"
  <2>1. /\ u \in Seq(Op) /\ Len(u) = Len(f) + 2
        /\ FromEnd(u, 1) = "append"
        /\ Len(f) = 1 => FromEnd(u, 2) = "special"
        /\ FromEnd(u, Len(f) + 2) = "smtp"
    BY <1>6 DEF u
  <2>2. /\ a \o u \in Seq(Op) /\ Len(a \o u) = Len(a) + Len(u)
        /\ \A k \in 1 .. Len(a) + Len(u) :
             FromEnd(a \o u, k) = IF k <= Len(u) THEN FromEnd(u, k)
                                  ELSE FromEnd(a, k - Len(u))
    BY <1>1, <1>2, <2>1, JoinedFromEnd
  <2>3. CASE Len(f) = 0
    BY <1>1, <2>1, <2>2, <2>3
  <2>4. CASE Len(f) = 1
    BY <1>1, <2>1, <2>2, <2>4
  <2> QED BY <1>2, <2>3, <2>4
<1> DEFINE v == a \o u
<1> HIDE DEF v
<1>8. /\ v \o d \in Seq(Op) /\ Len(v \o d) = Len(f) + 6
      /\ FromEnd(v \o d, 1) = "delete" /\ FromEnd(v \o d, 2) = "resolve"
      /\ FromEnd(v \o d, 3) = "append"
      /\ Len(f) = 1 => FromEnd(v \o d, 4) = "special"
      /\ FromEnd(v \o d, Len(f) + 4) = "smtp"
      /\ FromEnd(v \o d, Len(f) + 5) = "fetch"
      /\ FromEnd(v \o d, Len(f) + 6) = "resolve"
  <2>1. /\ v \in Seq(Op) /\ Len(v) = Len(f) + 4
        /\ FromEnd(v, 1) = "append"
        /\ Len(f) = 1 => FromEnd(v, 2) = "special"
        /\ FromEnd(v, Len(f) + 2) = "smtp"
        /\ FromEnd(v, Len(f) + 3) = "fetch"
        /\ FromEnd(v, Len(f) + 4) = "resolve"
    BY <1>7 DEF v
  <2>2. /\ v \o d \in Seq(Op) /\ Len(v \o d) = Len(v) + Len(d)
        /\ \A k \in 1 .. Len(v) + Len(d) :
             FromEnd(v \o d, k) = IF k <= Len(d) THEN FromEnd(d, k)
                                  ELSE FromEnd(v, k - Len(d))
    BY <1>2, <1>3, <2>1, JoinedFromEnd
  <2> QED BY <1>2, <1>3, <2>1, <2>2
<1>9. SendDraftPlan = v \o d
  BY <1>4 DEF s, u, v
<1>10. SendAt = Len(f) + 4
  BY <1>2, <1>8, <1>9 DEF SendAt
<1> HIDE DEF v
<1>11. CASE Len(f) = 0
  BY <1>8, <1>9, <1>10, <1>11
<1>12. CASE Len(f) = 1
  BY <1>8, <1>9, <1>10, <1>12
<1> QED BY <1>2, <1>11, <1>12

LEMMA DraftPlans ==
    /\ Plan("create_draft") = DraftPlan
    /\ Plan("update_draft") = UpdateDraftPlan
    /\ Plan("delete_draft") = DeletePlan
    /\ Plan("send_draft") = SendDraftPlan
<1>1. \A t \in DraftTool :
        /\ t \notin FolderTool /\ t \notin ListTool /\ t \notin ReadTool
        /\ t \notin {"list_emails", "search_emails"} /\ t \notin FlagTool
        /\ t \notin {"get_thread", "get_conversation"} /\ t \notin TransferTool
        /\ t \notin Filing /\ t \notin Deleting \ DraftTool /\ t # "send_email"
        /\ t \notin Replying /\ t # "forward_email" /\ t \notin AttachmentTool
  BY DEF DraftTool, FolderTool, ListTool, ReadTool, FlagTool, TransferTool, Filing,
         Restoring, Replying, AttachmentTool
<1>2. /\ "create_draft" \in DraftTool /\ "update_draft" \in DraftTool
      /\ "send_draft" \in DraftTool /\ "delete_draft" \in DraftTool
  BY DEF DraftTool
<1>3. Plan("create_draft") = DraftPlan
  BY <1>1, <1>2, Zenon DEF Plan
<1>4. Plan("update_draft") = UpdateDraftPlan
  BY <1>1, <1>2, Zenon DEF Plan
<1>5. Plan("delete_draft") = DeleteDraftPlan
  BY <1>1, <1>2, Zenon DEF Plan
<1>6. Plan("send_draft") = SendDraftPlan
  BY <1>1, <1>2, Zenon DEF Plan
<1> QED BY <1>3, <1>4, <1>5, <1>6 DEF DeleteDraftPlan

\* the exchange of a tool with k - 1 more behind it
AtStep(tool, k) == FromEnd(Plan(tool), k)

\* the steps of the tools that handle drafts
LEMMA DraftSteps ==
    ASSUME NEW tool \in DraftTool, NEW k \in 1 .. Len(Plan(tool)),
           NEW op, op = AtStep(tool, k)
    PROVE  /\ op \in {"resolve", "fetch", "smtp", "special", "append", "delete"}
           /\ op = "fetch" => tool = "send_draft" /\ k = SendAt + 1
           /\ op = "smtp" => tool = "send_draft" /\ k = SendAt
           /\ op = "delete" => k = 1
           /\ tool \in {"update_draft", "send_draft"} /\ op = "append" => k = 3
           /\ tool \in {"update_draft", "send_draft"} /\ op = "special" => k = 4
           /\ tool = "send_draft" /\ op = "resolve" => k = 2 \/ k = SendAt + 2
<1> USE DEF AtStep
<1>1. CASE tool = "create_draft"
  <2>1. op = "append" \/ op = "special"
    BY <1>1, DraftPlans, AppendFromEnd DEF DraftPlan
  <2> QED BY <1>1, <2>1
<1>2. CASE tool = "delete_draft"
  <2>1. Plan(tool) = DeletePlan
    BY <1>2, DraftPlans
  <2>2. k = 1 \/ k = 2
    BY <2>1, DeleteFromEnd
  <2>3. (op = "delete" /\ k = 1) \/ op = "resolve"
    BY <2>1, <2>2, DeleteFromEnd
  <2> QED BY <1>2, <2>3
<1>3. CASE tool = "update_draft"
  <2> DEFINE p == UpdateDraftPlan
  <2>1. Plan(tool) = p
    BY <1>3, DraftPlans
  <2>2. /\ Len(p) \in {3, 4}
        /\ FromEnd(p, 1) = "delete" /\ FromEnd(p, 2) = "resolve"
        /\ FromEnd(p, 3) = "append" /\ (Len(p) = 4 => FromEnd(p, 4) = "special")
    BY UpdateFromEnd
  <2> HIDE DEF p
  <2>3. \/ k = 1 \/ k = 2 \/ k = 3
        \/ k = 4 /\ Len(p) = 4
    <3>1. k \in 1 .. Len(p)
      BY <2>1
    <3> DEFINE n == Len(p)
    <3>2. n \in {3, 4}
      BY <2>2
    <3> HIDE DEF n
    <3>3. k \in 1 .. n
      BY <3>1 DEF n
    <3>4. k = 1 \/ k = 2 \/ k = 3 \/ (k = 4 /\ n = 4)
      BY <3>2, <3>3
    <3> QED BY <3>4 DEF n
  <2>4. op = FromEnd(p, k)
    BY <2>1
  <2>5. \/ k = 1 /\ op = "delete"
        \/ k = 2 /\ op = "resolve"
        \/ k = 3 /\ op = "append"
        \/ k = 4 /\ op = "special"
    BY <2>2, <2>3, <2>4, Zenon
  <2> QED BY <1>3, <2>5
<1>4. CASE tool = "send_draft"
  <2>1. /\ SendAt \in {4, 5} /\ k \in 1 .. SendAt + 2
        /\ (k = 1 => op = "delete") /\ (k = 2 => op = "resolve")
        /\ (k = 3 => op = "append") /\ (k = 4 => op = "special" \/ SendAt = 4)
        /\ (k = SendAt => op = "smtp") /\ (k = SendAt + 1 => op = "fetch")
        /\ (k = SendAt + 2 => op = "resolve")
    BY <1>4, DraftPlans, SendFromEnd
  <2> QED BY <1>4, <2>1
<1> QED BY <1>1, <1>2, <1>3, <1>4 DEF DraftTool

-----------------------------------------------------------------------------
\* How a coroutine moves

NewJob(c, q) == [call |-> c, step |-> Len(q.todo), op |-> Head(q.todo),
                 done |-> FALSE, reply |-> None]

\* what q keeps of p
SameCall(p, q) == /\ q.req = p.req /\ q.src = p.src /\ q.read = p.read
                  /\ q.from = p.from

\* it awaits the next exchange of its plan, or has none left
GoesOn(q) == q.pc = IF q.todo = <<>> THEN "ok" ELSE "pending"

Starts(c, q) ==
    /\ ~Started(c)
    /\ q.req \in Request /\ q.todo = Plan(q.req.tool) /\ q.read = None
    /\ q.req.tool \notin Restoring => q.from = q.req.box
    /\ GoesOn(q) \/ q.pc = "failed"
    /\ overlapped' = (overlapped \/ \E d \in Call : Pending(d))

\* with the reply of its exchange
Resumes(c, q) ==
    /\ Pending(c) /\ GoesOn(q)
    /\ q.req = calls[c].req /\ q.todo = Tail(calls[c].todo)
    /\ q.req.tool \notin Restoring => q.from = calls[c].from
    /\ \E j \in jobs : /\ j.call = c /\ Awaited(j) /\ j.done /\ j.reply # None
                       /\ q.src = IF j.op = "resolve" THEN j.reply
                                  ELSE calls[c].src
                       /\ q.read = IF j.op = "fetch" THEN j.reply
                                   ELSE calls[c].read
    /\ UNCHANGED overlapped

Fails(c, q) ==
    /\ Pending(c) /\ q.pc = "failed"
    /\ SameCall(calls[c], q) /\ q.todo = calls[c].todo
    /\ UNCHANGED overlapped

\* past an exchange that may fail
Skips(c, q) ==
    /\ Pending(c) /\ GoesOn(q) /\ Tolerated(calls[c])
    /\ SameCall(calls[c], q)
    /\ \E n \in {2, 3} :
         /\ n = IF Head(calls[c].todo) \in {"resolve", "special"} THEN 3 ELSE 2
         /\ q.todo = SubSeq(calls[c].todo, n, Len(calls[c].todo))
    /\ UNCHANGED overlapped

Written(c, q) ==
    /\ CallRecord(q)
    /\ calls' = [calls EXCEPT ![c] = q]
    /\ \A j \in jobs' :
         j \in Left(c) \/ (q.pc = "pending" /\ q.todo # <<>> /\ j = NewJob(c, q))

Moves(c, q) ==
    /\ Written(c, q)
    /\ Starts(c, q) \/ Resumes(c, q) \/ Fails(c, q) \/ Skips(c, q)
    /\ UNCHANGED <<server, history>>

LEMMA ReturnWrites ==
    ASSUME NEW c, NEW q, CallRecord(q), NEW outcome \in {"ok", "failed"},
           Return(c, q, outcome)
    PROVE  \E r : /\ Written(c, r) /\ SameCall(q, r) /\ r.todo = q.todo
                  /\ r.pc = outcome
<1> DEFINE r == [q EXCEPT !.pc = outcome]
<1>1. CallRecord(r) /\ SameCall(q, r) /\ r.todo = q.todo /\ r.pc = outcome
  BY DEF CallRecord, SameCall
<1>2. calls' = [calls EXCEPT ![c] = r] /\ jobs' = Left(c)
  BY DEF Return
<1> HIDE DEF r
<1> QED BY <1>1, <1>2 DEF Written

LEMMA AwaitWrites ==
    ASSUME NEW c, NEW q, CallRecord(q), q.pc = "pending", Await(c, q)
    PROVE  \E r : /\ Written(c, r) /\ SameCall(q, r) /\ r.todo = q.todo
                  /\ GoesOn(r)
<1>1. CASE q.todo = <<>>
  BY <1>1, ReturnWrites DEF Await, GoesOn
<1>2. CASE q.todo # <<>>
  <2>1. Written(c, q)
    BY <1>2 DEF Await, Written, NewJob
  <2> QED BY <1>2, <2>1 DEF SameCall, GoesOn
<1> QED BY <1>1, <1>2

LEMMA StartMoves ==
    ASSUME NEW c \in Call, NEW r \in Request, Start(c, r)
    PROVE  \E q : Moves(c, q)
<1>1. PICK to, q :
         /\ q = [Unused EXCEPT
                   !.pc = "pending", !.req = r, !.todo = Plan(r.tool),
                   !.from = IF r.tool \in Restoring THEN Configured[KindOf(r.tool)]
                            ELSE r.box, !.to = to]
         /\ Await(c, q) \/ Return(c, q, "failed")
  BY DEF Start
<1>2. /\ ~Started(c) /\ UNCHANGED <<server, history>>
      /\ overlapped' = (overlapped \/ \E d \in Call : Pending(d))
  BY DEF Start, Started
<1>3. /\ CallRecord(q) /\ q.pc = "pending" /\ q.req = r /\ q.todo = Plan(r.tool)
      /\ q.read = None /\ (r.tool \notin Restoring => q.from = r.box)
  BY <1>1 DEF Unused, CallRecord
<1>4. PICK w : /\ Written(c, w) /\ SameCall(q, w) /\ w.todo = q.todo
               /\ GoesOn(w) \/ w.pc = "failed"
  <2>1. CASE Await(c, q)
    BY <1>3, <2>1, AwaitWrites
  <2>2. CASE Return(c, q, "failed")
    BY <1>3, <2>2, ReturnWrites
  <2> QED BY <1>1, <2>1, <2>2
<1>5. Starts(c, w)
  BY <1>2, <1>3, <1>4 DEF Starts, SameCall
<1> QED BY <1>2, <1>4, <1>5 DEF Moves

LEMMA RaiseMoves ==
    ASSUME Inv, NEW c \in Call, Pending(c), Raise(c),
           UNCHANGED <<server, history, overlapped>>
    PROVE  \E q : Moves(c, q)
<1>1. CallRecord(calls[c])
  BY DEF Inv, CallsOK
<1>2. CASE Return(c, calls[c], "failed")
  <2>1. PICK w : /\ Written(c, w) /\ SameCall(calls[c], w) /\ w.todo = calls[c].todo
                 /\ w.pc = "failed"
    BY <1>1, <1>2, ReturnWrites
  <2> QED BY <2>1 DEF Moves, Fails
<1>3. CASE ~Return(c, calls[c], "failed")
  <2> DEFINE n == 1 + IF Head(calls[c].todo) \in {"resolve", "special"} THEN 2 ELSE 1
             rest == SubSeq(calls[c].todo, n, Len(calls[c].todo))
             q == [calls[c] EXCEPT !.todo = rest]
  <2>1. q = [calls[c] EXCEPT !.todo = SubSeq(calls[c].todo, n, Len(calls[c].todo))]
    OBVIOUS
  <2>2. Await(c, q) /\ Tolerated(calls[c])
    BY <1>3 DEF Raise
  <2>3. /\ n \in {2, 3}
        /\ n = IF Head(calls[c].todo) \in {"resolve", "special"} THEN 3 ELSE 2
    OBVIOUS
  <2> HIDE DEF n, rest, q
  <2>4. /\ CallRecord(q) /\ q.pc = "pending" /\ SameCall(calls[c], q)
        /\ q.todo = SubSeq(calls[c].todo, n, Len(calls[c].todo))
    BY <1>1, <2>1 DEF CallRecord, Pending, SameCall
  <2>5. PICK w : /\ Written(c, w) /\ SameCall(q, w) /\ w.todo = q.todo
                 /\ GoesOn(w)
    BY <2>2, <2>4, AwaitWrites
  <2>6. Skips(c, w)
    BY <2>2, <2>3, <2>4, <2>5 DEF Skips, SameCall
  <2> QED BY <2>5, <2>6 DEF Moves
<1> QED BY <1>2, <1>3

LEMMA ResumeMoves ==
    ASSUME Inv, NEW c \in Call, Resume(c)
    PROVE  \E q : Moves(c, q)
<1>1. Pending(c) /\ UNCHANGED <<server, history, overlapped>> /\ CallRecord(calls[c])
  BY DEF Resume, Inv, CallsOK
<1>2. CASE Raise(c)
  BY <1>1, <1>2, RaiseMoves
<1>3. CASE ~Raise(c)
  <2>1. PICK j \in jobs :
           /\ j.call = c /\ Awaited(j) /\ j.done
           /\ LET next == [calls[c] EXCEPT !.todo = Tail(@)]
              IN \/ j.reply # None /\ j.op = "resolve" /\ Await(c, [next EXCEPT !.src = j.reply])
                 \/ j.reply # None /\ j.op = "resolve_to" /\ Await(c, [next EXCEPT !.dst = j.reply])
                 \/ j.reply # None /\ j.op = "fetch" /\ Await(c, [next EXCEPT !.read = j.reply])
                 \/ j.reply # None /\ j.op = "special" /\
                      Await(c, IF next.req.tool \in Restoring
                               THEN [next EXCEPT !.from = j.reply]
                               ELSE [next EXCEPT !.to = j.reply])
                 \/ j.reply # None /\ j.op \notin {"resolve", "fetch"} /\ Await(c, next)
    BY <1>3, Zenon DEF Resume
  <2>2. PICK next, q :
           /\ next = [calls[c] EXCEPT !.todo = Tail(@)] /\ j.reply # None
           /\ \/ j.op = "resolve" /\ q = [next EXCEPT !.src = j.reply]
              \/ j.op = "resolve_to" /\ q = [next EXCEPT !.dst = j.reply]
              \/ j.op = "fetch" /\ q = [next EXCEPT !.read = j.reply]
              \/ /\ j.op \notin {"resolve", "fetch"}
                 /\ next.req.tool \in Restoring /\ q = [next EXCEPT !.from = j.reply]
              \/ j.op \notin {"resolve", "fetch"} /\ q = [next EXCEPT !.to = j.reply]
              \/ j.op \notin {"resolve", "fetch"} /\ q = next
           /\ Await(c, q)
    BY <2>1
  <2>3. CallRecord(next) /\ next.pc = "pending" /\ SameCall(calls[c], next)
        /\ next.todo = Tail(calls[c].todo)
    BY <1>1, <2>2 DEF CallRecord, SameCall, Pending
  <2>4. /\ CallRecord(q) /\ q.pc = "pending" /\ q.req = calls[c].req
        /\ q.todo = Tail(calls[c].todo)
        /\ q.req.tool \notin Restoring => q.from = calls[c].from
        /\ q.src = IF j.op = "resolve" THEN j.reply ELSE calls[c].src
        /\ q.read = IF j.op = "fetch" THEN j.reply ELSE calls[c].read
    BY <2>2, <2>3 DEF CallRecord, SameCall
  <2>5. PICK w : Written(c, w) /\ SameCall(q, w) /\ w.todo = q.todo /\ GoesOn(w)
    BY <2>2, <2>4, AwaitWrites
  <2>6. Resumes(c, w)
    BY <1>1, <2>1, <2>2, <2>4, <2>5 DEF Resumes, SameCall
  <2> QED BY <1>1, <2>5, <2>6 DEF Moves
<1> QED BY <1>2, <1>3

-----------------------------------------------------------------------------
\* What is left of a call is the end of its plan, and each exchange, however
\* late, is the step of that plan it was started at.

InPlan(q) ==
    LET p == Plan(q.req.tool)
    IN /\ Len(q.todo) <= Len(p)
       /\ \A k \in 1 .. Len(q.todo) : FromEnd(q.todo, k) = FromEnd(p, k)

PlaceOK(q) ==
    /\ q.pc \in {"unused", "pending", "ok", "failed"}
    /\ q.pc = "unused" => q.read = None
    /\ q.pc = "pending" => q.todo # <<>>
    /\ q.pc # "unused" =>
         /\ InPlan(q)
         /\ q.req.tool \notin Restoring => q.from = q.req.box

JobAt(j) ==
    LET q == calls[j.call]
    IN /\ j.step \in 1 .. Len(Plan(q.req.tool)) /\ Len(q.todo) <= j.step
       /\ \/ j.op = AtStep(q.req.tool, j.step)
          \/ j.op = "expunge" /\ AtStep(q.req.tool, j.step) = "delete"
       /\ j.done => Awaited(j)

InStep ==
    /\ \A c \in Call : PlaceOK(calls[c])
    /\ \A j \in jobs : JobAt(j)
    /\ \A s \in sent : s.call \in Call /\ Started(s.call)

LEMMA InStepInit == Init => InStep
  BY DEF Init, InStep, PlaceOK, Unused

LEMMA RestFromEnd ==
    ASSUME NEW p \in Seq(Op), NEW n \in {2, 3},
           NEW rest, rest = SubSeq(p, n, Len(p))
    PROVE  /\ rest \in Seq(Op)
           /\ Len(rest) = IF n <= Len(p) THEN Len(p) - n + 1 ELSE 0
           /\ \A k \in 1 .. Len(rest) : FromEnd(rest, k) = FromEnd(p, k)
<1>1. \A i \in n .. Len(p) : p[i] \in Op
  OBVIOUS
<1>2. /\ rest \in Seq(Op)
      /\ Len(rest) = IF n <= Len(p) THEN Len(p) - n + 1 ELSE 0
      /\ \A i \in 1 .. Len(p) - n + 1 : rest[i] = p[n + i - 1]
  <2>1. n \in Int /\ Len(p) \in Int
    OBVIOUS
  <2> QED BY <1>1, <2>1, SubSeqProperties
<1>3. ASSUME NEW k \in 1 .. Len(rest)
      PROVE  FromEnd(rest, k) = FromEnd(p, k)
  <2>1. /\ Len(rest) = Len(p) - n + 1 /\ Len(rest) - k + 1 \in 1 .. Len(p) - n + 1
        /\ n + (Len(rest) - k + 1) - 1 = Len(p) - k + 1
    BY <1>2
  <2> QED BY <1>2, <2>1 DEF FromEnd
<1> QED BY <1>2, <1>3

\* the exchange a call awaits is the next of its plan
LEMMA AwaitedStep ==
    ASSUME Inv, InStep, NEW j \in jobs, Awaited(j)
    PROVE  LET q == calls[j.call]
           IN /\ j.step = Len(q.todo) /\ q.todo \in Seq(Op) /\ q.todo # <<>>
              /\ Head(q.todo) = AtStep(q.req.tool, Len(q.todo))
<1> DEFINE q == calls[j.call]
<1>1. j.call \in Call /\ q.pc = "pending" /\ j.step = Len(q.todo) /\ j.step # 0
  BY DEF Inv, JobsOK, JobOK, Awaited, Pending
<1>2. q.todo \in Seq(Op) /\ InPlan(q)
  BY <1>1 DEF Inv, CallsOK, CallOK, PlanOK, InStep, PlaceOK
<1> HIDE DEF q
<1>3. q.todo # <<>> /\ Len(q.todo) \in 1 .. Len(q.todo) /\ Head(q.todo) = FromEnd(q.todo, Len(q.todo))
  BY <1>1, <1>2 DEF FromEnd
<1> QED BY <1>1, <1>2, <1>3 DEF InPlan, AtStep, q

LEMMA PlanLen == \A r \in Request : Plan(r.tool) \in Seq(Op)
  BY RequestAssumption, PlansOK DEF PlanOK

\* what is left after a move is shorter, and still the end of the plan
LEMMA MoveShortens ==
    ASSUME Inv, InStep, NEW c \in Call, NEW q, Moves(c, q)
    PROVE  /\ q.req \in Request /\ q.todo \in Seq(Op) /\ PlaceOK(q) /\ q.pc # "unused"
           /\ Started(c) => /\ q.req = calls[c].req
                            /\ Len(q.todo) <= Len(calls[c].todo)
           /\ q.pc = "pending" /\ Started(c) => Len(q.todo) < Len(calls[c].todo)
<1> DEFINE p == calls[c]
<1>1. CASE Starts(c, q)
  <2>1. q.todo \in Seq(Op)
    BY <1>1, PlanLen DEF Starts
  <2>2. InPlan(q)
    BY <1>1, <2>1 DEF Starts, InPlan
  <2> QED BY <1>1, <2>1, <2>2 DEF Starts, PlaceOK, GoesOn
<1>2. CASE ~Starts(c, q)
  <2>1. Pending(c) /\ Started(c)
    BY <1>2 DEF Moves, Resumes, Fails, Skips, Pending, Started
  <2>2. /\ p.req \in Request /\ p.todo \in Seq(Op) /\ InPlan(p) /\ Len(p.todo) \in Nat
        /\ p.req.tool \notin Restoring => p.from = p.req.box
    BY <2>1 DEF Inv, CallsOK, CallOK, PlanOK, InStep, PlaceOK, Started
  <2>3. q.req = p.req /\ (q.req.tool \notin Restoring => q.from = q.req.box)
    BY <1>2, <2>2 DEF Moves, Resumes, Fails, Skips, SameCall
  <2>4. CASE Fails(c, q)
    BY <2>1, <2>2, <2>3, <2>4 DEF Fails, PlaceOK, InPlan
  <2>5. CASE Resumes(c, q) \/ Skips(c, q)
    <3>1. PICK n \in {2, 3} : q.todo = SubSeq(p.todo, n, Len(p.todo))
      <4>1. CASE Resumes(c, q)
        <5>1. p.todo # <<>>
          BY <4>1, AwaitedStep DEF Resumes
        <5> QED BY <4>1, <5>1, <2>2, TailIsSubSeq DEF Resumes
      <4>2. CASE Skips(c, q)
        BY <4>2 DEF Skips
      <4> QED BY <2>5, <4>1, <4>2
    <3> HIDE DEF p
    <3>2. /\ q.todo \in Seq(Op)
          /\ Len(q.todo) = IF n <= Len(p.todo) THEN Len(p.todo) - n + 1 ELSE 0
          /\ \A k \in 1 .. Len(q.todo) : FromEnd(q.todo, k) = FromEnd(p.todo, k)
      BY <2>2, <3>1, RestFromEnd
    <3>3. Len(q.todo) <= Len(p.todo) /\ (q.todo # <<>> => Len(q.todo) < Len(p.todo))
      BY <2>2, <3>2
    <3>4. InPlan(q)
      <4> DEFINE plan == Plan(p.req.tool)
      <4>1. plan \in Seq(Op)
        BY <2>2, PlanLen
      <4>2. Len(p.todo) <= Len(plan)
            /\ \A k \in 1 .. Len(p.todo) : FromEnd(p.todo, k) = FromEnd(plan, k)
        BY <2>2 DEF InPlan
      <4> HIDE DEF plan
      <4>3. Len(q.todo) <= Len(plan)
            /\ \A k \in 1 .. Len(q.todo) : FromEnd(q.todo, k) = FromEnd(plan, k)
        BY <2>2, <3>2, <3>3, <4>1, <4>2
      <4> QED BY <2>3, <4>3 DEF InPlan, plan
    <3>5. GoesOn(q)
      BY <2>5 DEF Resumes, Skips
    <3> QED BY <2>2, <2>3, <3>2, <3>3, <3>4, <3>5 DEF PlaceOK, GoesOn, p
  <2> QED BY <1>2, <2>4, <2>5 DEF Moves
<1> QED BY <1>1, <1>2

LEMMA MovedCalls ==
    ASSUME Inv, NEW c \in Call, NEW q, Moves(c, q)
    PROVE  \A d \in Call : calls'[d] = IF d = c THEN q ELSE calls[d]
  BY DEF Inv, CallsOK, Moves, Written

\* the jobs after a move: those of other calls, the abandoned ones of this
\* call, and perhaps the one it starts
LEMMA MovedJobs ==
    ASSUME Inv, InStep, NEW c \in Call, NEW q, Moves(c, q), NEW j \in jobs'
    PROVE  \/ j \in jobs /\ j.call # c /\ j.call \in Call
           \/ j \in jobs /\ j.call = c /\ ~j.done /\ Started(c)
           \/ /\ j = NewJob(c, q) /\ j.call = c /\ ~j.done
              /\ q.pc = "pending" /\ q.todo # <<>>
              /\ j.step = Len(q.todo) /\ j.op = Head(q.todo)
<1>1. CASE j \in Left(c)
  BY <1>1 DEF Left, Inv, JobsOK, JobOK
<1>2. CASE j \notin Left(c)
  BY <1>2 DEF Moves, Written, NewJob
<1> QED BY <1>1, <1>2

LEMMA MovesInStep ==
    ASSUME Inv, InStep, NEW c \in Call, NEW q, Moves(c, q)
    PROVE  InStep'
<1>1. \A d \in Call : calls'[d] = IF d = c THEN q ELSE calls[d]
  BY MovedCalls
<1>2. /\ q.req \in Request /\ q.todo \in Seq(Op) /\ PlaceOK(q) /\ q.pc # "unused"
      /\ Started(c) => /\ q.req = calls[c].req
                       /\ Len(q.todo) <= Len(calls[c].todo)
      /\ q.pc = "pending" /\ Started(c) => Len(q.todo) < Len(calls[c].todo)
  BY MoveShortens
<1>3. \A d \in Call : PlaceOK(calls'[d])
  BY <1>1, <1>2 DEF InStep
<1>4. ASSUME NEW j \in jobs' PROVE JobAt(j)'
  <2>1. CASE j \in jobs /\ j.call # c /\ j.call \in Call
    <3>1. calls'[j.call] = calls[j.call]
      BY <1>1, <2>1
    <3> QED BY <2>1, <3>1 DEF InStep, JobAt, Awaited, Pending
  <2>2. CASE j \in jobs /\ j.call = c /\ ~j.done /\ Started(c)
    <3>1. JobAt(j) /\ calls'[j.call] = q
      BY <1>1, <2>2 DEF InStep
    <3>2. j.step \in Nat /\ Len(calls[c].todo) <= j.step
      BY <2>2, <3>1 DEF JobAt
    <3>3. Len(q.todo) <= j.step
      <4>1. Len(q.todo) \in Nat /\ Len(calls[c].todo) \in Nat
        BY <1>2, <2>2 DEF Inv, CallsOK, CallOK, PlanOK, Started
      <4> QED BY <1>2, <2>2, <3>2, <4>1
    <3> QED BY <1>2, <2>2, <3>1, <3>3 DEF JobAt
  <2>3. CASE /\ j.call = c /\ ~j.done /\ q.todo # <<>>
             /\ j.step = Len(q.todo) /\ j.op = Head(q.todo)
    <3>1. calls'[j.call] = q
      BY <1>1, <2>3
    <3>2. InPlan(q) /\ Len(q.todo) \in 1 .. Len(q.todo)
          /\ Head(q.todo) = FromEnd(q.todo, Len(q.todo))
      BY <1>2, <2>3 DEF PlaceOK, FromEnd
    <3>3. Plan(q.req.tool) \in Seq(Op)
      BY <1>2, PlanLen
    <3>4. j.step \in 1 .. Len(Plan(q.req.tool)) /\ j.op = AtStep(q.req.tool, j.step)
      BY <2>3, <3>2, <3>3 DEF InPlan, AtStep
    <3> QED BY <2>3, <3>1, <3>4 DEF JobAt
  <2> QED BY <2>1, <2>2, <2>3, MovedJobs
<1>5. \A s \in sent' : s.call \in Call /\ Started(s.call)'
  <2>1. sent' = sent
    BY DEF Moves, history
  <2>2. \A d \in Call : Started(d) => Started(d)'
    BY <1>1, <1>2 DEF Started
  <2> QED BY <2>1, <2>2 DEF InStep
<1> QED BY <1>3, <1>4, <1>5 DEF InStep

-----------------------------------------------------------------------------
\* What an exchange answers, and what it has done by then

Replied(j, reply) ==
    /\ ~j.done /\ Answer(j, reply)
    /\ reply # None =>
         /\ j.op = "append" => j.call \in stored'
         /\ j.op = "smtp" => [call |-> j.call, of |-> calls[j.call].read] \in sent'
         /\ j.op = "resolve" => reply = Canonical(folders, calls[j.call].from)
         /\ j.op = "fetch" => \E m \in Named(j.call) : reply = m.msg
         /\ j.op = "expunge" => mail' = mail \ Wiped(j)
         /\ j.op # "delete"

LEMMA ExchangeReplies ==
    ASSUME Exchange
    PROVE  /\ UNCHANGED <<calls, overlapped>>
           /\ stored \subseteq stored' /\ sent \subseteq sent'
           /\ \A s \in sent' : \/ s \in sent
                               \/ \E j \in jobs :
                                    /\ ~j.done /\ j.op = "smtp"
                                    /\ s = [call |-> j.call, of |-> calls[j.call].read]
           /\ reshaped => reshaped'
           /\ Mark \/ \E j \in jobs : \E reply : Replied(j, reply)
<1>1. CASE List
  <2>1. PICK j \in jobs : \E reply :
           /\ ~j.done /\ j.op \in {"list", "resolve", "resolve_to", "special"}
           /\ j.op = "resolve" => reply = Canonical(folders, calls[j.call].from)
           /\ Answer(j, reply)
    BY <1>1, Zenon DEF List, Running
  <2>2. \E reply : Replied(j, reply)
    BY <2>1 DEF Replied
  <2> QED BY <1>1, <2>2 DEF List, history
<1>2. CASE Fetch
  <2>1. PICK j \in jobs : \E reply :
           /\ ~j.done /\ j.op = "fetch" /\ Answer(j, reply)
           /\ reply = None \/ \E m \in Named(j.call) : reply = m.msg
    BY <1>2, Zenon DEF Fetch, Running
  <2> QED BY <1>2, <2>1 DEF Fetch, history, Replied
<1>3. CASE Search \/ Flags \/ Break
  <2>1. PICK j \in jobs, reply \in {TRUE, None} :
           /\ ~j.done /\ Answer(j, reply)
           /\ reply = None \/ j.op \in {"search", "flags"}
    <3>1. CASE Search
      BY <3>1 DEF Search, Running
    <3>2. CASE Flags
      BY <3>2 DEF Flags, Running
    <3>3. CASE Break
      BY <3>3 DEF Break
    <3> QED BY <1>3, <3>1, <3>2, <3>3
  <2>2. Replied(j, reply)
    BY <2>1 DEF Replied
  <2>3. UNCHANGED <<calls, overlapped, history>>
    <3>1. CASE Search
      BY <3>1 DEF Search
    <3>2. CASE Flags
      BY <3>2 DEF Flags
    <3>3. CASE Break
      BY <3>3 DEF Break
    <3> QED BY <1>3, <3>1, <3>2, <3>3
  <2> QED BY <2>2, <2>3 DEF history
<1>4. CASE Transfer
  <2>1. \E j \in jobs : \E reply : ~j.done /\ Answer(j, reply) /\ j.op = "transfer"
    BY <1>4, Zenon DEF Transfer, Running
  <2>2. \E j \in jobs : \E reply : Replied(j, reply)
    BY <2>1 DEF Replied
  <2> QED BY <1>4, <2>2 DEF Transfer
<1>5. CASE Mark
  BY <1>5 DEF Mark, history
<1>6. CASE Expunge
  <2>1. \E j \in jobs : \E reply : /\ ~j.done /\ Answer(j, reply) /\ j.op = "expunge"
                                  /\ mail' = mail \ Wiped(j)
    BY <1>6, Zenon DEF Expunge, Running
  <2>2. \E j \in jobs : \E reply : Replied(j, reply)
    BY <2>1 DEF Replied
  <2> QED BY <1>6, <2>2 DEF Expunge
<1>7. CASE Smtp
  <2>1. PICK j \in jobs :
           /\ ~j.done /\ Answer(j, TRUE) /\ j.op = "smtp"
           /\ sent' = sent \cup {[call |-> j.call, of |-> calls[j.call].read]}
    BY <1>7 DEF Smtp, Running
  <2>2. \E reply : Replied(j, reply)
    BY <2>1 DEF Replied
  <2> QED BY <1>7, <2>1, <2>2 DEF Smtp
<1>8. CASE AppendMessage
  <2>1. PICK j \in jobs :
           /\ ~j.done /\ j.op = "append"
           /\ \/ stored' = stored \cup {j.call} /\ Answer(j, TRUE)
              \/ Answer(j, None) /\ stored' = stored
    BY <1>8 DEF AppendMessage, Running
  <2>2. \E reply : Replied(j, reply)
    BY <2>1 DEF Replied
  <2> QED BY <1>8, <2>1, <2>2 DEF AppendMessage
<1>9. CASE FolderAction
  <2>1. \E j \in jobs : ~j.done /\ Answer(j, TRUE) /\ j.op = "folder"
    BY <1>9 DEF FolderAction, Running
  <2>2. \E j \in jobs : \E reply : Replied(j, reply)
    BY <2>1 DEF Replied
  <2>3. reshaped => reshaped'
    BY <1>9 DEF FolderAction, CreateFolder, RenameFolder, DeleteFolder, SubscribeFolder
  <2> QED BY <1>9, <2>2, <2>3 DEF FolderAction
<1> QED BY <1>1, <1>2, <1>3, <1>4, <1>5, <1>6, <1>7, <1>8, <1>9 DEF Exchange

\* the jobs after an answer
LEMMA AnsweredJobs ==
    ASSUME Inv, NEW j \in jobs, NEW reply, Answer(j, reply), NEW k \in jobs'
    PROVE  \/ k \in jobs /\ k # j
           \/ /\ Awaited(j) /\ k.done /\ k.reply = reply
              /\ k.call = j.call /\ k.op = j.op /\ k.step = j.step
<1>1. JobRecord(j)
  BY DEF Inv, JobsOK, JobOK
<1>2. ASSUME NEW e, e = [j EXCEPT !.done = TRUE, !.reply = reply]
      PROVE  /\ e.done /\ e.reply = reply
             /\ e.call = j.call /\ e.op = j.op /\ e.step = j.step
  BY <1>1, <1>2 DEF JobRecord
<1>3. CASE k \in jobs /\ k # j
  BY <1>3
<1>4. CASE ~(k \in jobs /\ k # j)
  <2>1. k = [j EXCEPT !.done = TRUE, !.reply = reply] /\ Awaited(j)
    BY <1>4 DEF Answer
  <2> QED BY <1>2, <2>1
<1> QED BY <1>3, <1>4

LEMMA MarkedJobs ==
    ASSUME Inv, Mark, NEW k \in jobs'
    PROVE  \/ k \in jobs
           \/ /\ k.op = "expunge"
              /\ \E j \in jobs : /\ j.op = "delete" /\ ~j.done /\ k.done = j.done
                                 /\ k.call = j.call /\ k.step = j.step
                                 /\ mail' = {IF m \in Named(j.call)
                                             THEN [m EXCEPT !.deleted = TRUE]
                                             ELSE m : m \in mail}
<1>1. PICK j \in jobs :
         /\ ~j.done /\ j.op = "delete"
         /\ mail' = {IF m \in Named(j.call) THEN [m EXCEPT !.deleted = TRUE]
                     ELSE m : m \in mail}
         /\ jobs' = (jobs \ {j}) \cup {[j EXCEPT !.op = "expunge"]}
  BY DEF Mark, Running
<1>2. JobRecord(j)
  BY DEF Inv, JobsOK, JobOK
<1>3. ASSUME NEW e, e = [j EXCEPT !.op = "expunge"]
      PROVE  /\ e.op = "expunge" /\ e.done = j.done
             /\ e.call = j.call /\ e.step = j.step
  BY <1>2, <1>3 DEF JobRecord
<1>4. k \in jobs \/ k = [j EXCEPT !.op = "expunge"]
  BY <1>1
<1> QED BY <1>1, <1>3, <1>4

LEMMA ExchangeInStep ==
    ASSUME Inv, InStep, Exchange PROVE InStep'
<1>1. UNCHANGED calls
  BY ExchangeReplies
<1>2. \A c \in Call : PlaceOK(calls'[c])
  BY <1>1 DEF InStep
<1>3. ASSUME NEW k \in jobs' PROVE JobAt(k)'
  <2>1. CASE k \in jobs
    BY <1>1, <2>1 DEF InStep, JobAt, Awaited, Pending
  <2>2. CASE k \notin jobs
    <3>1. \E j \in jobs : /\ k.call = j.call /\ k.step = j.step
                          /\ k.op = j.op \/ (k.op = "expunge" /\ j.op = "delete")
                          /\ k.done => Awaited(j)
      <4>1. CASE Mark
        BY <2>2, <4>1, MarkedJobs
      <4>2. CASE ~Mark
        BY <2>2, <4>2, ExchangeReplies, AnsweredJobs DEF Replied
      <4> QED BY <4>1, <4>2
    <3>2. PICK j \in jobs : /\ k.call = j.call /\ k.step = j.step
                            /\ k.op = j.op \/ (k.op = "expunge" /\ j.op = "delete")
                            /\ k.done => Awaited(j)
      BY <3>1
    <3>3. JobAt(j)
      BY DEF InStep
    <3> QED BY <1>1, <3>2, <3>3 DEF JobAt, Awaited, Pending
  <2> QED BY <2>1, <2>2
<1>4. \A s \in sent' : s.call \in Call /\ Started(s.call)'
  <2>1. \A s \in sent' : s.call \in Call /\ Started(s.call)
    BY ExchangeReplies DEF InStep, Inv, JobsOK, JobOK
  <2> QED BY <1>1, <2>1 DEF Started
<1> QED BY <1>2, <1>3, <1>4 DEF InStep

\* every step is one of a coroutine, an exchange, or none
LEMMA Stepping ==
    ASSUME Inv, [Next]_vars
    PROVE  \/ \E c \in Call : \E q : Moves(c, q)
           \/ Exchange
           \/ UNCHANGED vars
<1>1. ASSUME NEW c \in Call, Timeout(c) PROVE \E q : Moves(c, q)
  BY <1>1, RaiseMoves DEF Timeout
<1> QED BY <1>1, StartMoves, ResumeMoves DEF Next, Finished

LEMMA InStepStep == Inv /\ InStep /\ [Next]_vars => InStep'
<1> SUFFICES ASSUME Inv, InStep, [Next]_vars PROVE InStep'
  OBVIOUS
<1>1. CASE UNCHANGED vars
  BY <1>1 DEF vars, history, InStep, JobAt, Awaited, Pending, Started
<1> QED BY <1>1, Stepping, MovesInStep, ExchangeInStep

-----------------------------------------------------------------------------
\* The mailboxes: a UID below uidNext names one message

MailboxesOK ==
    /\ folders \subseteq DOMAIN SpecialUse
    /\ uidNext \in [DOMAIN SpecialUse -> Nat \ {0}]
    /\ IsFiniteSet(mail)
    /\ \A m \in mail : /\ m.mb \in folders
                       /\ m.uid \in 1 .. uidNext[m.mb] - 1
                       /\ m.deleted \in BOOLEAN
    /\ \A k, m \in mail : k.mb = m.mb /\ k.uid = m.uid => k = m
    /\ ~reshaped => folders = InitialFolders

LEMMA FiniteImage ==
    ASSUME NEW S, IsFiniteSet(S), NEW f
    PROVE  IsFiniteSet({f[x] : x \in S})
<1> DEFINE T == {f[x] : x \in S}
           g == [x \in S |-> f[x]]
<1>1. g \in Surjection(S, T)
  BY DEF Surjection
<1> HIDE DEF g, T
<1>2. IsFiniteSet(T)
  BY <1>1, FS_Surjection
<1> QED BY <1>2 DEF T

\* the rank of a message among those of a set with different UIDs
Rank(M, m) == Cardinality({k \in M : k.uid < m.uid})

LEMMA Ranks ==
    ASSUME NEW M, IsFiniteSet(M), \A m \in M : m.uid \in Int,
           \A k, m \in M : k.uid = m.uid => k = m
    PROVE  /\ Cardinality(M) \in Nat
           /\ \A m \in M : Rank(M, m) \in 0 .. Cardinality(M) - 1
           /\ \A k, m \in M : Rank(M, k) = Rank(M, m) => k = m
<1> DEFINE below(m) == {k \in M : k.uid < m.uid}
<1>1. \A m \in M : below(m) \in SUBSET M /\ IsFiniteSet(below(m))
  BY FS_Subset
<1>2. \A m \in M : Rank(M, m) = Cardinality(below(m))
  BY DEF Rank
<1>3. Cardinality(M) \in Nat /\ \A m \in M : Cardinality(below(m)) \in Nat
  BY <1>1, FS_CardinalityType
<1>4. \A m \in M : Cardinality(below(m)) <= Cardinality(M)
                   /\ Cardinality(below(m)) # Cardinality(M)
  <2> SUFFICES ASSUME NEW m \in M
               PROVE  Cardinality(below(m)) <= Cardinality(M)
                      /\ Cardinality(below(m)) # Cardinality(M)
    OBVIOUS
  <2>1. m \notin below(m)
    OBVIOUS
  <2>2. below(m) # M
    BY <2>1
  <2>3. below(m) \in SUBSET M
    BY <1>1
  <2> HIDE DEF below
  <2> QED BY <2>2, <2>3, FS_Subset
<1>5. ASSUME NEW k \in M, NEW m \in M, k.uid < m.uid
      PROVE  Cardinality(below(k)) # Cardinality(below(m))
  <2>1. below(k) \in SUBSET below(m) /\ k \in below(m) /\ k \notin below(k)
    BY <1>5
  <2>2. IsFiniteSet(below(m)) /\ below(k) # below(m)
    BY <1>1, <2>1
  <2> HIDE DEF below
  <2> QED BY <2>1, <2>2, FS_Subset
<1> HIDE DEF below
<1>6. \A k, m \in M : Rank(M, k) = Rank(M, m) => k = m
  <2> SUFFICES ASSUME NEW k \in M, NEW m \in M, k # m PROVE Rank(M, k) # Rank(M, m)
    OBVIOUS
  <2>1. k.uid < m.uid \/ m.uid < k.uid
    OBVIOUS
  <2> QED BY <2>1, <1>2, <1>5
<1> QED BY <1>2, <1>3, <1>4, <1>6

LEMMA MailboxesInit == Init => MailboxesOK
<1> SUFFICES ASSUME Init PROVE MailboxesOK
  OBVIOUS
<1> DEFINE held(n) == {m \in InitialMail : m.mb = n}
<1>1. \A n : Cardinality(held(n)) \in Nat
  <2> SUFFICES ASSUME NEW n PROVE Cardinality(held(n)) \in Nat
    OBVIOUS
  <2>1. IsFiniteSet(held(n))
    BY MailboxAssumption, FS_Subset
  <2> QED BY <2>1, FS_CardinalityType
<1> HIDE DEF held
<1>2. uidNext = [n \in DOMAIN SpecialUse |-> 1 + Cardinality(held(n))]
  BY DEF Init, held
<1>3. uidNext \in [DOMAIN SpecialUse -> Nat \ {0}]
  BY <1>1, <1>2
<1>4. \A m \in InitialMail : /\ m.mb \in DOMAIN SpecialUse
                             /\ m.uid \in 1 .. Cardinality(held(m.mb))
  BY MailboxAssumption DEF held
<1>5. \A m \in InitialMail : m.uid \in 1 .. uidNext[m.mb] - 1
  BY <1>1, <1>2, <1>4
<1> QED BY <1>3, <1>5, MailboxAssumption DEF Init, MailboxesOK

\* messages that change their flags, and nothing else of the server
LEMMA FlaggedMailboxes ==
    ASSUME Inv, MailboxesOK, UNCHANGED <<folders, uidNext, reshaped>>,
           NEW j, NEW on \in BOOLEAN,
           mail' = {IF m \in Named(j.call) THEN [m EXCEPT !.deleted = on] ELSE m :
                      m \in mail}
    PROVE  MailboxesOK'
<1> DEFINE f == [m \in mail |-> IF m \in Named(j.call)
                                THEN [m EXCEPT !.deleted = on] ELSE m]
<1>1. mail' = {f[m] : m \in mail}
  OBVIOUS
<1>2. \A m \in mail : f[m].mb = m.mb /\ f[m].uid = m.uid /\ f[m].deleted \in BOOLEAN
  <2> SUFFICES ASSUME NEW m \in mail
               PROVE  f[m].mb = m.mb /\ f[m].uid = m.uid /\ f[m].deleted \in BOOLEAN
    OBVIOUS
  <2>1. MessageRecord(m) /\ m.deleted \in BOOLEAN
    BY DEF Inv, MailOK, MailboxesOK
  <2> QED BY <2>1 DEF MessageRecord
<1> HIDE DEF f
<1>3. IsFiniteSet(mail')
  BY <1>1, FiniteImage DEF MailboxesOK
<1>4. \A m \in mail' : \E k \in mail : m = f[k]
  BY <1>1
<1> QED BY <1>2, <1>3, <1>4 DEF MailboxesOK

LEMMA FewerMailboxes ==
    ASSUME MailboxesOK, mail' \in SUBSET mail, UNCHANGED <<folders, uidNext>>,
           ~reshaped' => ~reshaped
    PROVE  MailboxesOK'
<1>1. IsFiniteSet(mail')
  BY FS_Subset DEF MailboxesOK
<1> QED BY <1>1 DEF MailboxesOK

LEMMA TransferMailboxes ==
    ASSUME Inv, MailboxesOK, Transfer
    PROVE  MailboxesOK'
<1>1. PICK j \in jobs :
         LET call == calls[j.call]
             there == {call.src, call.dst} \subseteq folders
         IN /\ mail' = IF there THEN (mail \ Taken(j))
                                     \cup Renumbered(Named(j.call), call.dst)
                       ELSE mail
            /\ uidNext' = IF there
                 THEN [uidNext EXCEPT ![call.dst] = @ + Cardinality(Named(j.call))]
                 ELSE uidNext
  BY DEF Transfer, Running
<1>2. UNCHANGED <<folders, reshaped>>
  BY DEF Transfer
<1> DEFINE named == Named(j.call)
           src == calls[j.call].src
           dst == calls[j.call].dst
           there == {src, dst} \subseteq folders
<1>3. CASE ~there
  BY <1>1, <1>2, <1>3 DEF MailboxesOK
<1>4. CASE there
  <2>1. mail' = (mail \ Taken(j)) \cup Renumbered(named, dst)
        /\ uidNext' = [uidNext EXCEPT ![dst] = @ + Cardinality(named)]
    BY <1>1, <1>4
  <2>2. named \in SUBSET mail /\ \A m \in named : m.mb = src
    BY DEF Named
  <2>3. dst \in folders /\ dst \in DOMAIN SpecialUse
    BY <1>4 DEF MailboxesOK
  <2> HIDE DEF named, src, dst, there
  <2>4. /\ IsFiniteSet(named) /\ \A m \in named : m.uid \in Int
        /\ \A k, m \in named : k.uid = m.uid => k = m
    <3>1. IsFiniteSet(named)
      BY <2>2, FS_Subset DEF MailboxesOK
    <3> QED BY <2>2, <3>1 DEF MailboxesOK
  <2>5. /\ Cardinality(named) \in Nat
        /\ \A m \in named : Rank(named, m) \in 0 .. Cardinality(named) - 1
        /\ \A k, m \in named : Rank(named, k) = Rank(named, m) => k = m
    BY <2>4, Ranks
  <2> DEFINE f == [m \in named |-> [m EXCEPT !.mb = dst,
                                             !.uid = uidNext[dst] + Rank(named, m)]]
             moved == {f[m] : m \in named}
  <2>6. Renumbered(named, dst) = moved
    BY DEF Renumbered, Rank
  <2>7. ASSUME NEW m \in named
        PROVE  /\ f[m].mb = dst /\ f[m].uid = uidNext[dst] + Rank(named, m)
               /\ f[m].deleted \in BOOLEAN
    <3> SUFFICES ASSUME NEW uid, NEW k, k = [m EXCEPT !.mb = dst, !.uid = uid]
                 PROVE  k.mb = dst /\ k.uid = uid /\ k.deleted \in BOOLEAN
      OBVIOUS
    <3>1. MessageRecord(m) /\ m.deleted \in BOOLEAN
      BY <2>2, <2>7 DEF Inv, MailOK, MailboxesOK
    <3> QED BY <3>1 DEF MessageRecord
  <2> HIDE DEF f
  <2>8. IsFiniteSet(mail')
    <3>1. IsFiniteSet(moved)
      BY <2>4, FiniteImage
    <3>2. IsFiniteSet(mail \ Taken(j))
      BY FS_Subset DEF MailboxesOK
    <3> HIDE DEF moved
    <3> QED BY <2>1, <2>6, <3>1, <3>2, FS_Union
  <2>9. /\ uidNext' \in [DOMAIN SpecialUse -> Nat \ {0}]
        /\ \A n \in DOMAIN SpecialUse :
             uidNext'[n] = IF n = dst THEN uidNext[n] + Cardinality(named)
                           ELSE uidNext[n]
    BY <2>1, <2>3, <2>5 DEF MailboxesOK
  <2>10. \A m \in mail' : \/ m \in mail
                          \/ \E k \in named : m = f[k]
    BY <2>1, <2>6
  <2>11. \A k \in named : /\ f[k].mb = dst /\ f[k].deleted \in BOOLEAN
                          /\ f[k].uid \in uidNext[dst] .. uidNext'[dst] - 1
    BY <2>3, <2>5, <2>7, <2>9 DEF MailboxesOK
  <2>12. \A m \in mail' : /\ m.mb \in folders /\ m.uid \in 1 .. uidNext'[m.mb] - 1
                          /\ m.deleted \in BOOLEAN
    <3> SUFFICES ASSUME NEW m \in mail'
                 PROVE  /\ m.mb \in folders /\ m.uid \in 1 .. uidNext'[m.mb] - 1
                        /\ m.deleted \in BOOLEAN
      OBVIOUS
    <3>1. CASE m \in mail
      BY <2>5, <2>9, <3>1 DEF MailboxesOK
    <3>2. CASE m \notin mail
      BY <2>3, <2>9, <2>10, <2>11, <3>2 DEF MailboxesOK
    <3> QED BY <3>1, <3>2
  <2>13. ASSUME NEW k \in mail', NEW m \in mail', k.mb = m.mb, k.uid = m.uid
         PROVE  k = m
    <3>1. \A x \in mail : x.mb = dst => x.uid < uidNext[dst] /\ x.uid \in Int
      BY <2>3 DEF MailboxesOK
    <3>2. uidNext[dst] \in Int
      BY <2>3 DEF MailboxesOK
    <3>3. CASE k \in mail /\ m \in mail
      BY <2>13, <3>3 DEF MailboxesOK
    <3>4. CASE k \in mail /\ m \notin mail
      BY <2>10, <2>11, <2>13, <3>1, <3>2, <3>4
    <3>5. CASE k \notin mail /\ m \in mail
      BY <2>10, <2>11, <2>13, <3>1, <3>2, <3>5
    <3>6. CASE k \notin mail /\ m \notin mail
      <4>1. PICK x \in named, y \in named : k = f[x] /\ m = f[y]
        BY <2>10, <3>6
      <4>2. Rank(named, x) = Rank(named, y)
        BY <2>5, <2>7, <2>13, <3>2, <4>1
      <4> QED BY <2>5, <4>1, <4>2
    <3> QED BY <3>3, <3>4, <3>5, <3>6
  <2> QED BY <1>2, <2>8, <2>9, <2>12, <2>13 DEF MailboxesOK
<1> QED BY <1>3, <1>4

LEMMA AppendMailboxes ==
    ASSUME MailboxesOK, AppendMessage
    PROVE  MailboxesOK'
<1>1. PICK j \in jobs :
         LET mb == calls[j.call].to
         IN IF mb \in folders
            THEN /\ mail' = mail \cup {[mb |-> mb, uid |-> uidNext[mb],
                                        msg |-> j.call, deleted |-> FALSE]}
                 /\ uidNext' = [uidNext EXCEPT ![mb] = @ + 1]
            ELSE UNCHANGED <<mail, uidNext>>
  BY DEF AppendMessage, Running
<1>2. UNCHANGED <<folders, reshaped>>
  BY DEF AppendMessage
<1> DEFINE mb == calls[j.call].to
           new == [mb |-> mb, uid |-> uidNext[mb], msg |-> j.call, deleted |-> FALSE]
<1>3. CASE mb \notin folders
  BY <1>1, <1>2, <1>3 DEF MailboxesOK
<1>4. CASE mb \in folders
  <2>1. mail' = mail \cup {new} /\ uidNext' = [uidNext EXCEPT ![mb] = @ + 1]
    BY <1>1, <1>4
  <2>2. new.mb = mb /\ new.uid = uidNext[mb] /\ new.deleted = FALSE
    OBVIOUS
  <2> HIDE DEF new, mb
  <2>3. mb \in DOMAIN SpecialUse /\ uidNext[mb] \in Nat \ {0}
    BY <1>4 DEF MailboxesOK
  <2>4. IsFiniteSet(mail')
    BY <2>1, FS_AddElement DEF MailboxesOK
  <2>5. /\ uidNext' \in [DOMAIN SpecialUse -> Nat \ {0}]
        /\ \A n \in DOMAIN SpecialUse :
             uidNext'[n] = IF n = mb THEN uidNext[n] + 1 ELSE uidNext[n]
    BY <2>1, <2>3 DEF MailboxesOK
  <2>6. \A m \in mail' : /\ m.mb \in folders /\ m.uid \in 1 .. uidNext'[m.mb] - 1
                         /\ m.deleted \in BOOLEAN
    <3> SUFFICES ASSUME NEW m \in mail'
                 PROVE  /\ m.mb \in folders /\ m.uid \in 1 .. uidNext'[m.mb] - 1
                        /\ m.deleted \in BOOLEAN
      OBVIOUS
    <3>1. CASE m \in mail
      BY <2>3, <2>5, <3>1 DEF MailboxesOK
    <3>2. CASE m = new
      <4>1. m.mb = mb /\ m.uid = uidNext[mb] /\ m.deleted = FALSE
        BY <2>2, <3>2
      <4>2. uidNext'[mb] = uidNext[mb] + 1
        BY <2>3, <2>5
      <4>3. uidNext'[m.mb] = uidNext[mb] + 1 /\ m.mb \in folders
        BY <1>4, <4>1, <4>2
      <4>4. m.uid \in 1 .. uidNext'[m.mb] - 1
        BY <2>3, <4>1, <4>3
      <4> QED BY <4>1, <4>3, <4>4
    <3> QED BY <2>1, <3>1, <3>2
  <2>7. \A m \in mail : ~(m.mb = new.mb /\ m.uid = new.uid)
    BY <2>2, <2>3 DEF MailboxesOK
  <2>8. \A k, m \in mail' : k.mb = m.mb /\ k.uid = m.uid => k = m
    BY <2>1, <2>7 DEF MailboxesOK
  <2> QED BY <1>2, <2>4, <2>5, <2>6, <2>8 DEF MailboxesOK
<1> QED BY <1>3, <1>4

LEMMA RenameMailboxes ==
    ASSUME Inv, MailboxesOK, NEW j \in jobs, RenameFolder(j)
    PROVE  MailboxesOK'
<1> DEFINE src == calls[j.call].src
           new == calls[j.call].req.target
           f == [m \in mail |-> IF m.mb = src THEN [m EXCEPT !.mb = new] ELSE m]
<1>1. /\ src \in folders /\ new \notin folders /\ reshaped'
      /\ folders' = (folders \ {src}) \cup {new}
      /\ mail' = {f[m] : m \in mail}
      /\ uidNext' = [uidNext EXCEPT ![new] = uidNext[src], ![src] = 1]
  BY DEF RenameFolder
<1>2. new \in DOMAIN SpecialUse
  <2>1. calls[j.call].req \in Request /\ calls[j.call].req.tool = "rename_mailbox"
    BY DEF Inv, JobsOK, JobOK, CallsOK, CallOK, Started, RenameFolder
  <2> QED BY <2>1, RequestAssumption
<1>3. \A m \in mail : /\ f[m].mb = IF m.mb = src THEN new ELSE m.mb
                      /\ f[m].uid = m.uid /\ f[m].deleted = m.deleted
  <2> SUFFICES ASSUME NEW m \in mail, NEW k, k = [m EXCEPT !.mb = new]
               PROVE  k.mb = new /\ k.uid = m.uid /\ k.deleted = m.deleted
    OBVIOUS
  <2>1. MessageRecord(m)
    BY DEF Inv, MailOK
  <2> QED BY <2>1 DEF MessageRecord
<1>4. IsFiniteSet(mail')
  <2>1. IsFiniteSet({f[m] : m \in mail})
    <3> HIDE DEF f
    <3> QED BY FiniteImage DEF MailboxesOK
  <2> QED BY <1>1, <2>1
<1> HIDE DEF src, new, f
<1>5. src \in DOMAIN SpecialUse /\ src # new
  BY <1>1 DEF MailboxesOK
<1>6. /\ uidNext' \in [DOMAIN SpecialUse -> Nat \ {0}]
      /\ \A n \in DOMAIN SpecialUse :
           uidNext'[n] = IF n = src THEN 1 ELSE IF n = new THEN uidNext[src]
                         ELSE uidNext[n]
  BY <1>1, <1>2, <1>5 DEF MailboxesOK
<1>7. ASSUME NEW m \in mail
      PROVE  /\ f[m].mb \in folders' /\ f[m].uid \in 1 .. uidNext'[f[m].mb] - 1
             /\ f[m].deleted \in BOOLEAN
  <2>1. m.mb \in folders /\ m.mb \in DOMAIN SpecialUse /\ m.uid \in 1 .. uidNext[m.mb] - 1
        /\ m.deleted \in BOOLEAN
    BY DEF MailboxesOK
  <2>2. CASE m.mb = src
    BY <1>1, <1>2, <1>3, <1>5, <1>6, <2>1, <2>2
  <2>3. CASE m.mb # src
    BY <1>1, <1>2, <1>3, <1>5, <1>6, <2>1, <2>3
  <2> QED BY <2>2, <2>3
<1>8. ASSUME NEW x \in mail, NEW y \in mail, f[x].mb = f[y].mb, f[x].uid = f[y].uid
      PROVE  x = y
  <2>1. x.mb = y.mb
    BY <1>1, <1>3, <1>8 DEF MailboxesOK
  <2> QED BY <1>3, <1>8, <2>1 DEF MailboxesOK
<1>9. folders' \subseteq DOMAIN SpecialUse
  BY <1>1, <1>2 DEF MailboxesOK
<1> QED BY <1>1, <1>4, <1>6, <1>7, <1>8, <1>9 DEF MailboxesOK

LEMMA FolderMailboxes ==
    ASSUME Inv, InStep, MailboxesOK, FolderAction
    PROVE  MailboxesOK'
<1>1. PICK j \in jobs : \/ CreateFolder(j) \/ RenameFolder(j)
                        \/ DeleteFolder(j) \/ SubscribeFolder(j)
  BY DEF FolderAction, Running
<1>2. CASE CreateFolder(j)
  <2>1. calls[j.call].from \in DOMAIN SpecialUse
    <3>1. /\ calls[j.call].req \in Request /\ j.call \in Call /\ Started(j.call)
          /\ calls[j.call].req.tool = "create_mailbox"
      BY <1>2 DEF Inv, JobsOK, JobOK, CallsOK, CallOK, Started, CreateFolder
    <3>2. "create_mailbox" \notin Restoring
      BY DEF Restoring
    <3>3. calls[j.call].from = calls[j.call].req.box
      BY <3>1, <3>2 DEF InStep, PlaceOK, Started
    <3> QED BY <3>1, <3>3, RequestAssumption
  <2> QED BY <1>2, <2>1 DEF CreateFolder, MailboxesOK
<1>3. CASE DeleteFolder(j)
  <2> DEFINE src == calls[j.call].src
  <2>1. /\ src \in folders /\ folders' = folders \ {src} /\ reshaped'
        /\ mail' = mail \ {m \in mail : m.mb = src}
        /\ uidNext' = [uidNext EXCEPT ![src] = 1]
    BY <1>3 DEF DeleteFolder
  <2> HIDE DEF src
  <2>2. IsFiniteSet(mail')
    BY <2>1, FS_Subset DEF MailboxesOK
  <2>3. /\ uidNext' \in [DOMAIN SpecialUse -> Nat \ {0}]
        /\ \A n \in DOMAIN SpecialUse : n # src => uidNext'[n] = uidNext[n]
    BY <2>1 DEF MailboxesOK
  <2> QED BY <2>1, <2>2, <2>3 DEF MailboxesOK
<1>4. CASE SubscribeFolder(j)
  BY <1>4 DEF SubscribeFolder, server, MailboxesOK
<1> QED BY <1>1, <1>2, <1>3, <1>4, RenameMailboxes

LEMMA MailboxesStep == Inv /\ InStep /\ MailboxesOK /\ [Next]_vars => MailboxesOK'
<1> SUFFICES ASSUME Inv, InStep, MailboxesOK, [Next]_vars PROVE MailboxesOK'
  OBVIOUS
<1>1. CASE UNCHANGED <<server, history>>
  BY <1>1 DEF server, history, MailboxesOK
<1>2. CASE List \/ Fetch \/ Search \/ Smtp \/ Break
  <2>1. UNCHANGED <<server, reshaped>>
    BY <1>2 DEF List, Fetch, Search, Smtp, Break, history
  <2> QED BY <2>1 DEF server, MailboxesOK
<1>3. CASE Flags
  <2>1. UNCHANGED <<folders, uidNext, reshaped>>
    BY <1>3 DEF Flags, history
  <2>2. PICK j \in jobs, on \in BOOLEAN :
           mail' = {IF m \in Named(j.call) THEN [m EXCEPT !.deleted = on] ELSE m :
                      m \in mail}
    BY <1>3 DEF Flags, Running
  <2> QED BY <2>1, <2>2, FlaggedMailboxes
<1>4. CASE Mark
  <2>1. UNCHANGED <<folders, uidNext, reshaped>>
    BY <1>4 DEF Mark, history
  <2>2. PICK j \in jobs :
           mail' = {IF m \in Named(j.call) THEN [m EXCEPT !.deleted = TRUE] ELSE m :
                      m \in mail}
    BY <1>4 DEF Mark, Running
  <2> QED BY <2>1, <2>2, FlaggedMailboxes
<1>5. CASE Expunge
  <2>1. UNCHANGED <<folders, uidNext, reshaped>> /\ mail' \in SUBSET mail
    BY <1>5 DEF Expunge
  <2> QED BY <2>1, FewerMailboxes
<1> QED BY <1>1, <1>2, <1>3, <1>4, <1>5, Stepping, TransferMailboxes, AppendMailboxes,
           FolderMailboxes DEF Moves, Exchange, vars

LEMMA Surroundings == Spec => [](Inv /\ InStep /\ MailboxesOK)
  BY InitInv, InvStep, InStepInit, InStepStep, MailboxesInit, MailboxesStep, PTL DEF Spec

\* Whatever is moved, renumbered, renamed or abandoned half-way, a mailbox never
\* has two messages under one UID, and no exchange answers a call that has moved
\* on: the state of every reachable state has its type.
THEOREM TypeCorrect == Spec => []TypeOK
<1>1. Inv /\ InStep /\ MailboxesOK => TypeOK
  <2> SUFFICES ASSUME Inv, InStep, MailboxesOK PROVE TypeOK
    OBVIOUS
  <2>1. \A m \in mail : At(m.mb, m.uid) = {m}
    BY DEF At, MailboxesOK
  <2>2. {s.call : s \in sent} \cup stored \subseteq Call
    BY DEF Inv, AppendOK, InStep
  <2> QED BY <2>1, <2>2 DEF TypeOK, MailboxesOK, InStep, PlaceOK, JobAt
<1> QED BY <1>1, Surroundings, PTL

-----------------------------------------------------------------------------
\* What the tools that replace a draft have done when they come to delete it

Box(c) == Canonical(InitialFolders, calls[c].req.box)

\* what call c names is x, and can be nothing else later
Settled(c, x) ==
    /\ Box(c) \in DOMAIN SpecialUse
    /\ \A u \in calls[c].req.uids : u \in 1 .. uidNext[Box(c)] - 1
    /\ \A m \in mail : m.mb = Box(c) /\ m.uid \in calls[c].req.uids => m.msg = x

DraftOK(c) ==
    LET q == calls[c]
        n == Len(q.todo)
    IN /\ q.req.tool = "update_draft" /\ n < 3 => c \in stored
       /\ q.req.tool = "send_draft" /\ ~reshaped =>
            /\ n <= SendAt + 1 => q.src = Box(c)
            /\ n <= SendAt => Settled(c, q.read)
            /\ n < SendAt => [call |-> c, of |-> q.read] \in sent

ReplyOK(j) ==
    /\ j.op = "append" => j.call \in stored
    /\ j.op = "smtp" => [call |-> j.call, of |-> calls[j.call].read] \in sent
    /\ j.op = "resolve" /\ ~reshaped =>
         j.reply = Canonical(InitialFolders, calls[j.call].from)
    /\ j.op = "fetch" /\ ~reshaped /\ calls[j.call].req.tool = "send_draft" =>
         Settled(j.call, j.reply)
    /\ j.op # "delete"

DraftsOK ==
    /\ \A c \in Call : Started(c) => DraftOK(c)
    /\ \A j \in jobs : j.done /\ j.reply # None => ReplyOK(j)
    /\ DraftKept

LEMMA DraftsInit == Init => DraftsOK
  BY DEF Init, DraftsOK, DraftKept, Started, Unused

\* while no mailbox is made or renamed, a UID that was given stays what it was
LEMMA UidsStay ==
    ASSUME Inv, MailboxesOK, Exchange, ~reshaped'
    PROVE  /\ \A n \in DOMAIN SpecialUse : uidNext'[n] >= uidNext[n]
           /\ \A m \in mail' :
                \/ \E k \in mail : k.mb = m.mb /\ k.uid = m.uid /\ k.msg = m.msg
                \/ m.uid \in Int /\ m.uid >= uidNext[m.mb]
<1> DEFINE Kept(m) == \E k \in mail : k.mb = m.mb /\ k.uid = m.uid /\ k.msg = m.msg
<1>0. \A n \in DOMAIN SpecialUse : uidNext[n] \in Nat
  BY DEF MailboxesOK
<1>1. CASE List \/ Fetch \/ Search \/ Smtp \/ Break \/ Expunge
  <2>1. uidNext' = uidNext /\ mail' \subseteq mail
    BY <1>1 DEF List, Fetch, Search, Smtp, Break, Expunge, server
  <2> QED BY <1>0, <2>1
<1>2. CASE Flags \/ Mark
  <2>1. uidNext' = uidNext
    BY <1>2 DEF Flags, Mark
  <2>2. PICK on \in BOOLEAN, j \in jobs :
          mail' = {IF m \in Named(j.call) THEN [m EXCEPT !.deleted = on] ELSE m :
                     m \in mail}
    BY <1>2 DEF Flags, Mark, Running
  <2>3. ASSUME NEW m \in mail, NEW k, k = [m EXCEPT !.deleted = on]
        PROVE  k.mb = m.mb /\ k.uid = m.uid /\ k.msg = m.msg
    <3>1. MessageRecord(m)
      BY DEF Inv, MailOK
    <3> QED BY <2>3, <3>1 DEF MessageRecord
  <2>4. \A m \in mail' : Kept(m)
    BY <2>2, <2>3
  <2> QED BY <1>0, <2>1, <2>4
<1>3. CASE AppendMessage
  <2>1. PICK j \in jobs :
          LET mb == calls[j.call].to
          IN IF mb \in folders
             THEN /\ mail' = mail \cup {[mb |-> mb, uid |-> uidNext[mb],
                                         msg |-> j.call, deleted |-> FALSE]}
                  /\ uidNext' = [uidNext EXCEPT ![mb] = @ + 1]
             ELSE UNCHANGED <<mail, uidNext>>
    BY <1>3 DEF AppendMessage, Running
  <2>2. \A n \in DOMAIN SpecialUse : uidNext'[n] = uidNext[n] \/ uidNext'[n] = uidNext[n] + 1
    BY <2>1 DEF MailboxesOK
  <2>3. \A m \in mail' : m \in mail \/ (m.mb \in folders /\ m.uid = uidNext[m.mb])
    BY <2>1
  <2>4. \A m \in mail' : m \in mail \/ (m.mb \in DOMAIN SpecialUse /\ m.uid = uidNext[m.mb])
    BY <2>3 DEF MailboxesOK
  <2> QED BY <1>0, <2>2, <2>4
<1>4. CASE Transfer
  <2>1. PICK j \in jobs :
          LET call == calls[j.call]
              there == {call.src, call.dst} \subseteq folders
          IN /\ mail' = IF there THEN (mail \ Taken(j))
                                      \cup Renumbered(Named(j.call), call.dst)
                        ELSE mail
             /\ uidNext' = IF there
                  THEN [uidNext EXCEPT ![call.dst] = @ + Cardinality(Named(j.call))]
                  ELSE uidNext
    BY <1>4 DEF Transfer, Running
  <2> DEFINE named == Named(j.call)
             dst == calls[j.call].dst
  <2>2. named \in SUBSET mail /\ IsFiniteSet(named)
    BY FS_Subset DEF Named, MailboxesOK
  <2>3. Cardinality(named) \in Nat
    BY <2>2, FS_CardinalityType
  <2>4. \A n \in DOMAIN SpecialUse :
          uidNext'[n] = uidNext[n] \/ uidNext'[n] = uidNext[n] + Cardinality(named)
    BY <2>1 DEF MailboxesOK
  <2>5. ASSUME NEW m \in Renumbered(named, dst), dst \in folders
        PROVE  m.mb = dst /\ m.uid \in Int /\ m.uid >= uidNext[dst]
    <3>1. PICK x \in named :
            m = [x EXCEPT !.mb = dst, !.uid = uidNext[dst] + Rank(named, x)]
      BY DEF Renumbered, Rank
    <3>2. Rank(named, x) \in Nat
      <4>1. IsFiniteSet({k \in named : k.uid < x.uid})
        BY <2>2, FS_Subset
      <4> QED BY <4>1, FS_CardinalityType DEF Rank
    <3>3. dst \in DOMAIN SpecialUse
      BY <2>5 DEF MailboxesOK
    <3>4. m.mb = dst /\ m.uid = uidNext[dst] + Rank(named, x)
      <4> SUFFICES ASSUME NEW uid, m = [x EXCEPT !.mb = dst, !.uid = uid]
                   PROVE  m.mb = dst /\ m.uid = uid
        BY <3>1
      <4>1. MessageRecord(x)
        BY <2>2 DEF Inv, MailOK
      <4> QED BY <4>1 DEF MessageRecord
    <3> QED BY <1>0, <3>2, <3>3, <3>4
  <2>6. \A m \in mail' : m \in mail \/ (dst \in folders /\ m \in Renumbered(named, dst))
    BY <2>1
  <2> HIDE DEF named, dst
  <2>7. \A n \in DOMAIN SpecialUse : uidNext'[n] >= uidNext[n]
    BY <1>0, <2>3, <2>4
  <2>8. ASSUME NEW m \in mail' PROVE Kept(m) \/ (m.uid \in Int /\ m.uid >= uidNext[m.mb])
    BY <2>5, <2>6
  <2> QED BY <2>7, <2>8
<1>5. CASE FolderAction
  <2>1. UNCHANGED server
    BY <1>5 DEF FolderAction, CreateFolder, RenameFolder, DeleteFolder, SubscribeFolder
  <2> QED BY <1>0, <2>1 DEF server
<1> QED BY <1>1, <1>2, <1>3, <1>4, <1>5 DEF Exchange

LEMMA SettledStays ==
    ASSUME Inv, InStep, MailboxesOK, Exchange, ~reshaped',
           NEW c, NEW x, Settled(c, x)
    PROVE  Settled(c, x)'
<1>1. Box(c)' = Box(c) /\ calls' = calls
  BY ExchangeReplies DEF Box
<1>2. Box(c) \in DOMAIN SpecialUse /\ uidNext[Box(c)] \in Nat /\ uidNext'[Box(c)] \in Nat
  <2>1. MailboxesOK'
    BY MailboxesStep DEF Next
  <2> QED BY <2>1 DEF Settled, MailboxesOK
<1>3. uidNext'[Box(c)] >= uidNext[Box(c)]
  BY <1>2, UidsStay
<1>4. ASSUME NEW m \in mail', m.mb = Box(c), m.uid \in calls[c].req.uids
      PROVE  m.msg = x
  <2>1. m.uid \in 1 .. uidNext[Box(c)] - 1
    BY <1>4 DEF Settled
  <2>2. ~(m.uid >= uidNext[m.mb])
    BY <1>2, <1>4, <2>1
  <2>3. PICK k \in mail : k.mb = m.mb /\ k.uid = m.uid /\ k.msg = m.msg
    BY <2>2, UidsStay
  <2> QED BY <1>4, <2>3 DEF Settled
<1> QED BY <1>1, <1>2, <1>3, <1>4 DEF Settled

\* an exchange, as the step of its call
LEMMA StepOfJob ==
    ASSUME Inv, InStep, NEW j \in jobs
    PROVE  LET c == j.call
               tool == calls[c].req.tool
           IN /\ c \in Call /\ Started(c) /\ calls[c].req \in Request
              /\ Len(calls[c].todo) \in Nat /\ Len(calls[c].todo) <= j.step
              /\ j.step \in 1 .. Len(Plan(tool))
              /\ \/ j.op = AtStep(tool, j.step)
                 \/ j.op = "expunge" /\ AtStep(tool, j.step) = "delete"
<1>1. j.call \in Call /\ Started(j.call)
  BY DEF Inv, JobsOK, JobOK
<1>2. calls[j.call].req \in Request /\ Len(calls[j.call].todo) \in Nat
  BY <1>1 DEF Inv, CallsOK, CallOK, PlanOK, Started
<1> QED BY <1>1, <1>2 DEF InStep, JobAt

LEMMA ExpungedDrafts ==
    ASSUME Inv, InStep, MailboxesOK, DraftsOK, Expunge
    PROVE  DraftKept'
<1>1. PICK j \in jobs :
         /\ j.op = "expunge"
         /\ expunged' = expunged \cup
              {[call |-> j.call, mb |-> m.mb, uid |-> m.uid, msg |-> m.msg] :
                 m \in Wiped(j)}
  BY DEF Expunge, Running
<1>2. UNCHANGED <<calls, stored, sent, reshaped>>
  BY DEF Expunge
<1> DEFINE c == j.call
           tool == calls[c].req.tool
<1>3. /\ c \in Call /\ Started(c) /\ Len(calls[c].todo) \in Nat
      /\ calls[c].req \in Request
      /\ tool \in DraftTool => Len(calls[c].todo) <= 1
  <2>1. /\ c \in Call /\ Started(c) /\ calls[c].req \in Request
        /\ Len(calls[c].todo) \in Nat /\ Len(calls[c].todo) <= j.step
        /\ j.step \in 1 .. Len(Plan(tool))
        /\ \/ j.op = AtStep(tool, j.step)
           \/ j.op = "expunge" /\ AtStep(tool, j.step) = "delete"
    BY StepOfJob
  <2>2. tool \in DraftTool => j.step = 1
    BY <1>1, <2>1, DraftSteps
  <2> QED BY <2>1, <2>2
<1>4. DraftOK(c) /\ SendAt \in {4, 5}
  BY <1>3, SendFromEnd DEF DraftsOK
<1>5. tool = "update_draft" => c \in stored
  BY <1>3, <1>4 DEF DraftOK, DraftTool
<1>6. ASSUME NEW m \in Wiped(j), tool = "send_draft", ~reshaped
      PROVE  [call |-> c, of |-> m.msg] \in sent
  <2>1. /\ calls[c].src = Box(c) /\ Settled(c, calls[c].read)
        /\ [call |-> c, of |-> calls[c].read] \in sent
    BY <1>3, <1>4, <1>6 DEF DraftOK, DraftTool
  <2>2. m \in mail /\ m.mb = calls[c].src /\ m.uid \in calls[c].req.uids
    BY <1>1, <1>6, WipedMessages
  <2>3. m.msg = calls[c].read
    BY <2>1, <2>2 DEF Settled
  <2> QED BY <2>1, <2>3
<1>7. ASSUME NEW e \in expunged', ~reshaped
      PROVE  /\ calls[e.call].req.tool = "update_draft" => e.call \in stored
             /\ calls[e.call].req.tool = "send_draft" =>
                  [call |-> e.call, of |-> e.msg] \in sent
  <2>1. CASE e \in expunged
    BY <1>7, <2>1 DEF DraftsOK, DraftKept
  <2>2. CASE e \notin expunged
    <3>1. PICK m \in Wiped(j) :
            e = [call |-> j.call, mb |-> m.mb, uid |-> m.uid, msg |-> m.msg]
      BY <1>1, <2>2
    <3> QED BY <1>5, <1>6, <1>7, <3>1
  <2> QED BY <2>1, <2>2
<1> QED BY <1>2, <1>7 DEF DraftKept

LEMMA FetchedDraft ==
    ASSUME Inv, InStep, MailboxesOK, DraftsOK, ~reshaped, NEW j \in jobs,
           j.op = "fetch", calls[j.call].req.tool = "send_draft",
           NEW m \in Named(j.call)
    PROVE  Settled(j.call, m.msg)
<1> DEFINE c == j.call
<1>1. /\ c \in Call /\ Started(c) /\ calls[c].req \in Request
      /\ Len(calls[c].todo) \in Nat /\ Len(calls[c].todo) <= SendAt + 1
  <2>1. /\ c \in Call /\ Started(c) /\ calls[c].req \in Request
        /\ Len(calls[c].todo) \in Nat /\ Len(calls[c].todo) <= j.step
        /\ j.step \in 1 .. Len(Plan("send_draft"))
        /\ j.op = AtStep("send_draft", j.step)
    BY StepOfJob
  <2>2. "send_draft" \in DraftTool
    BY DEF DraftTool
  <2>3. j.step = SendAt + 1
    BY <2>1, <2>2, DraftSteps
  <2> QED BY <2>1, <2>3
<1>2. calls[c].src = Box(c)
  BY <1>1 DEF DraftsOK, DraftOK
<1>3. m \in mail /\ m.mb = Box(c) /\ m.uid \in calls[c].req.uids
  BY <1>2 DEF Named
<1>4. calls[c].req.uids = {m.uid}
  <2>1. calls[c].req.tool \in Expunging \ {"delete_emails_permanently"}
    BY DEF Expunging
  <2> QED BY <1>1, <1>3, <2>1, RequestAssumption
<1>5. Box(c) \in DOMAIN SpecialUse /\ m.uid \in 1 .. uidNext[Box(c)] - 1
  BY <1>3 DEF MailboxesOK
<1>6. \A k \in mail : k.mb = Box(c) /\ k.uid = m.uid => k = m
  BY <1>3 DEF MailboxesOK
<1> QED BY <1>4, <1>5, <1>6 DEF Settled

LEMMA ExchangeDrafts ==
    ASSUME Inv, InStep, MailboxesOK, DraftsOK, Exchange
    PROVE  DraftsOK'
<1>1. /\ UNCHANGED <<calls, overlapped>> /\ stored \subseteq stored'
      /\ sent \subseteq sent' /\ (reshaped => reshaped')
      /\ Mark \/ \E j \in jobs : \E reply : Replied(j, reply)
  BY ExchangeReplies
<1>2. \A c, x : Box(c)' = Box(c)
  BY <1>1 DEF Box
<1>3. ASSUME NEW c \in Call, Started(c) PROVE DraftOK(c)'
  <2>1. DraftOK(c)
    BY <1>3 DEF DraftsOK
  <2>2. PICK x : x = calls[c].read
    OBVIOUS
  <2>3. ~reshaped' /\ Settled(c, x) => Settled(c, x)'
    BY SettledStays
  <2> QED BY <1>1, <1>2, <2>1, <2>2, <2>3 DEF DraftOK
<1>4. ASSUME NEW k \in jobs', k.done, k.reply # None PROVE ReplyOK(k)'
  <2>1. CASE k \in jobs
    <3>1. ReplyOK(k)
      BY <1>4, <2>1 DEF DraftsOK
    <3>2. PICK c, x : c = k.call /\ x = k.reply
      OBVIOUS
    <3>3. ~reshaped' /\ Settled(c, x) => Settled(c, x)'
      BY SettledStays
    <3> QED BY <1>1, <3>1, <3>2, <3>3 DEF ReplyOK
  <2>2. CASE k \notin jobs
    <3>1. ~Mark
      BY <1>4, <2>2, MarkedJobs
    <3>2. PICK j \in jobs : \E reply : Replied(j, reply)
      BY <1>1, <3>1
    <3>3. PICK reply : Replied(j, reply)
      BY <3>2
    <3>4. k.reply = reply /\ k.call = j.call /\ k.op = j.op
      BY <2>2, <3>3, AnsweredJobs DEF Replied
    <3>5. ASSUME k.op = "fetch", ~reshaped', calls[k.call].req.tool = "send_draft"
          PROVE  Settled(k.call, k.reply)'
      <4>1. PICK m \in Named(j.call) : reply = m.msg
        BY <1>4, <3>3, <3>4, <3>5 DEF Replied
      <4>2. Settled(j.call, reply)
        BY <1>1, <3>4, <3>5, <4>1, FetchedDraft
      <4>3. Settled(j.call, reply)'
        BY <3>5, <4>2, SettledStays
      <4> QED BY <3>4, <4>3
    <3>6. ~reshaped' => folders = InitialFolders
      BY <1>1 DEF MailboxesOK
    <3> QED BY <1>1, <1>4, <3>3, <3>4, <3>5, <3>6 DEF Replied, ReplyOK
  <2> QED BY <2>1, <2>2
<1>5. DraftKept'
  <2>1. CASE Expunge
    BY <2>1, ExpungedDrafts
  <2>2. CASE ~Expunge
    <3>1. expunged' = expunged
      BY <2>2 DEF Exchange, List, Fetch, Search, Flags, Transfer, Mark, Smtp,
                  AppendMessage, FolderAction, Break, history
    <3> QED BY <1>1, <3>1 DEF DraftsOK, DraftKept
  <2> QED BY <2>1, <2>2
<1> QED BY <1>1, <1>3, <1>4, <1>5 DEF DraftsOK, Started

\* a coroutine that goes on with the reply of its exchange
LEMMA ResumedDraft ==
    ASSUME Inv, InStep, DraftsOK, NEW c \in Call, NEW q, Moves(c, q), Resumes(c, q),
           calls'[c] = q
    PROVE  DraftOK(c)'
<1> DEFINE p == calls[c]
           tool == p.req.tool
           m == Len(p.todo)
           n == Len(q.todo)
<1>1. /\ Started(c) /\ p.pc = "pending" /\ DraftOK(c) /\ p.req \in Request
      /\ p.todo \in Seq(Op) /\ p.todo # <<>> /\ m \in Nat
      /\ p.req.tool \notin Restoring => p.from = p.req.box
      /\ m \in 1 .. Len(Plan(tool))
  <2>1. Started(c) /\ p.pc = "pending"
    BY DEF Resumes, Pending, Started
  <2>2. DraftOK(c)
    BY <2>1 DEF DraftsOK
  <2>3. p.req \in Request /\ p.todo \in Seq(Op)
    BY <2>1 DEF Inv, CallsOK, CallOK, PlanOK, Started
  <2>4. PlaceOK(p)
    BY DEF InStep
  <2>5. p.todo # <<>> /\ m <= Len(Plan(tool)) /\ (tool \notin Restoring => p.from = p.req.box)
    BY <2>1, <2>4 DEF PlaceOK, InPlan
  <2>6. Plan(tool) \in Seq(Op)
    BY <2>3, PlanLen
  <2>7. Len(Plan(tool)) \in Nat /\ m \in Nat /\ m # 0
    BY <2>3, <2>5, <2>6
  <2>8. m \in 1 .. Len(Plan(tool))
    BY <2>5, <2>7
  <2> QED BY <2>1, <2>2, <2>3, <2>5, <2>7, <2>8
<1>2. q.req = p.req /\ q.todo = Tail(p.todo) /\ n = m - 1
  BY <1>1 DEF Resumes
<1>3. PICK j \in jobs :
         /\ j.call = c /\ Awaited(j) /\ j.done /\ j.reply # None
         /\ q.src = IF j.op = "resolve" THEN j.reply ELSE p.src
         /\ q.read = IF j.op = "fetch" THEN j.reply ELSE p.read
  BY DEF Resumes
<1>4. ReplyOK(j)
  BY <1>3 DEF DraftsOK
<1>5. \/ j.op = AtStep(tool, m)
      \/ j.op = "expunge" /\ AtStep(tool, m) = "delete"
  <2>1. JobAt(j)
    BY DEF InStep
  <2>2. j.step = m
    BY <1>3, AwaitedStep
  <2> QED BY <1>3, <2>1, <2>2 DEF JobAt
<1>6. UNCHANGED <<server, history>>
  BY DEF Moves
<1>7. Box(c)' = Box(c)
  BY <1>2 DEF Box
<1> HIDE DEF m, n
<1>8. CASE tool = "update_draft"
  <2>1. /\ n < 3 => m < 3 \/ m = 3
        /\ m = 3 => j.op = "append"
    BY <1>1, <1>2, <1>5, <1>8, UpdateFromEnd, DraftPlans DEF AtStep
  <2>2. n < 3 => c \in stored
    BY <1>1, <1>3, <1>4, <1>8, <2>1 DEF DraftOK, ReplyOK, m
  <2> QED BY <1>2, <1>6, <1>8, <2>2 DEF DraftOK, history, n
<1>9. CASE tool = "send_draft" /\ ~reshaped
  <2>1. /\ SendAt \in {4, 5}
        /\ m = SendAt + 2 => j.op = "resolve"
        /\ m = SendAt + 1 => j.op = "fetch"
        /\ m = SendAt => j.op = "smtp"
        /\ m \in 1 .. SendAt + 2
    BY <1>1, <1>5, <1>9, SendFromEnd, DraftPlans DEF AtStep
  <2>2. j.op = "fetch" => m = SendAt + 1
    <3>1. AtStep(tool, m) = "fetch" => m = SendAt + 1
      BY <1>1, <1>9, DraftSteps DEF DraftTool
    <3> QED BY <1>5, <3>1
  <2>3. /\ m <= SendAt + 1 => p.src = Box(c)
        /\ m <= SendAt => Settled(c, p.read)
        /\ m < SendAt => [call |-> c, of |-> p.read] \in sent
    BY <1>1, <1>9 DEF DraftOK, m
  <2>4. /\ j.op = "smtp" => [call |-> c, of |-> p.read] \in sent
        /\ j.op = "resolve" => j.reply = Box(c)
        /\ j.op = "fetch" => Settled(c, j.reply)
    BY <1>1, <1>3, <1>4, <1>9 DEF ReplyOK, Box, Restoring
  <2>5. n <= SendAt + 1 => q.src = Box(c)
    BY <1>1, <1>2, <1>3, <2>1, <2>3, <2>4
  <2>6. n <= SendAt => Settled(c, q.read)
    BY <1>1, <1>2, <1>3, <2>1, <2>3, <2>4
  <2>7. n < SendAt => q.read = p.read /\ [call |-> c, of |-> q.read] \in sent
    BY <1>1, <1>2, <1>3, <2>1, <2>2, <2>3, <2>4
  <2>8. PICK x : x = q.read
    OBVIOUS
  <2>9. Settled(c, x) => Settled(c, x)'
    BY <1>2, <1>6, <1>7 DEF Settled, server
  <2>10. /\ n <= SendAt + 1 => q.src = Box(c)'
         /\ n <= SendAt => Settled(c, x)'
         /\ n < SendAt => [call |-> c, of |-> x] \in sent'
    BY <1>6, <1>7, <2>5, <2>6, <2>7, <2>8, <2>9 DEF history
  <2> QED BY <1>2, <1>9, <2>8, <2>10 DEF DraftOK, n
<1>10. CASE tool \notin {"update_draft", "send_draft"} \/ (tool = "send_draft" /\ reshaped)
  BY <1>2, <1>6, <1>10 DEF DraftOK, history
<1> QED BY <1>8, <1>9, <1>10

LEMMA SkippedDraft ==
    ASSUME Inv, InStep, DraftsOK, NEW c \in Call, NEW q, Moves(c, q), Skips(c, q),
           calls'[c] = q
    PROVE  DraftOK(c)'
<1> DEFINE p == calls[c]
           tool == p.req.tool
           m == Len(p.todo)
           n == Len(q.todo)
<1>1. /\ Started(c) /\ p.req \in Request /\ DraftOK(c)
      /\ p.todo \in Seq(Op) /\ p.todo # <<>> /\ InPlan(p)
  <2>1. Started(c) /\ p.pc = "pending"
    BY DEF Skips, Pending, Started
  <2>2. p.req \in Request /\ p.todo \in Seq(Op)
    BY <2>1 DEF Inv, CallsOK, CallOK, PlanOK, Started
  <2>3. PlaceOK(p)
    BY DEF InStep
  <2>4. p.todo # <<>> /\ InPlan(p)
    BY <2>1, <2>3 DEF PlaceOK
  <2> QED BY <2>1, <2>2, <2>4 DEF DraftsOK
<1>2. /\ SameCall(p, q) /\ UNCHANGED <<server, history>> /\ Box(c)' = Box(c)
      /\ Tolerated(p)
  BY DEF Skips, Moves, SameCall, Box
<1>3. /\ m \in 1 .. Len(Plan(tool)) /\ Head(p.todo) = AtStep(tool, m)
      /\ n \in Nat /\ m \in Nat /\ n <= m
  <2>1. Plan(tool) \in Seq(Op)
    BY <1>1, PlanLen
  <2>2. m \in 1 .. m /\ Head(p.todo) = FromEnd(p.todo, m) /\ m \in Nat
    BY <1>1 DEF FromEnd
  <2>3. n \in Nat /\ n <= m
    <3>1. q.todo \in Seq(Op) /\ Len(q.todo) <= Len(p.todo)
      BY <1>1, MoveShortens
    <3> QED BY <3>1
  <2>4. m <= Len(Plan(tool)) /\ FromEnd(p.todo, m) = AtStep(tool, m)
    BY <1>1, <2>2 DEF InPlan, AtStep
  <2> QED BY <2>1, <2>2, <2>3, <2>4
<1> HIDE DEF m, n
<1>4. tool # "update_draft"
  BY <1>2 DEF Tolerated, Sending, Replying
<1>5. CASE tool = "send_draft" /\ ~reshaped
  <2>1. Head(p.todo) \in {"special", "append"}
    BY <1>2, <1>5 DEF Tolerated
  <2>2. m = 3 \/ m = 4
    BY <1>3, <1>5, <2>1, DraftSteps DEF DraftTool
  <2>3. m < SendAt
    <3>1. SendAt \in {4, 5} /\ FromEnd(Plan("send_draft"), SendAt) = "smtp"
      BY SendFromEnd, DraftPlans
    <3>2. m # SendAt
      BY <1>3, <1>5, <2>1, <3>1 DEF AtStep
    <3> QED BY <2>2, <3>1, <3>2
  <2>4. SendAt \in {4, 5}
    BY SendFromEnd
  <2>5. /\ p.src = Box(c) /\ Settled(c, p.read)
        /\ [call |-> c, of |-> p.read] \in sent
    BY <1>1, <1>3, <1>5, <2>3, <2>4 DEF DraftOK, m
  <2>6. PICK x : x = q.read
    OBVIOUS
  <2>7. x = p.read /\ q.src = p.src
    BY <1>2, <2>6 DEF SameCall
  <2>8. Settled(c, x)'
    BY <1>2, <2>5, <2>7 DEF Settled, server, SameCall
  <2> QED BY <1>2, <1>5, <2>5, <2>6, <2>7, <2>8 DEF DraftOK, SameCall, history
<1>6. CASE tool # "send_draft" \/ reshaped
  BY <1>2, <1>4, <1>6 DEF DraftOK, SameCall, history
<1> QED BY <1>5, <1>6

LEMMA MovesDrafts ==
    ASSUME Inv, InStep, DraftsOK, NEW c \in Call, NEW q, Moves(c, q)
    PROVE  DraftsOK'
<1>1. \A d \in Call : calls'[d] = IF d = c THEN q ELSE calls[d]
  BY MovedCalls
<1>2. UNCHANGED <<server, history>>
  BY DEF Moves
<1>3. ASSUME NEW d \in Call, calls'[d].req = calls[d].req, NEW x, Settled(d, x)
      PROVE  Settled(d, x)'
  BY <1>2, <1>3 DEF Settled, Box, server
<1>4. ASSUME NEW d \in Call, Started(d), calls'[d].req = calls[d].req,
             calls'[d].src = calls[d].src, calls'[d].read = calls[d].read,
             calls'[d].todo = calls[d].todo
      PROVE  DraftOK(d)'
  <2>1. DraftOK(d)
    BY <1>4 DEF DraftsOK
  <2>2. Box(d)' = Box(d)
    BY <1>4 DEF Box
  <2>3. PICK x : x = calls[d].read
    OBVIOUS
  <2>4. Settled(d, x) => Settled(d, x)'
    BY <1>3, <1>4
  <2> QED BY <1>2, <1>4, <2>1, <2>2, <2>3, <2>4 DEF DraftOK, history
<1>5. DraftOK(c)'
  <2>0. calls'[c] = q
    BY <1>1
  <2>1. CASE Starts(c, q)
    <3>1. q.req.tool = "update_draft" => ~(Len(q.todo) < 3)
      <4>1. q.req.tool = "update_draft" => q.todo = UpdateDraftPlan
        BY <2>1, DraftPlans DEF Starts
      <4> DEFINE k == Len(UpdateDraftPlan)
      <4>2. k \in {3, 4}
        BY UpdateFromEnd
      <4>3. q.req.tool = "update_draft" => Len(q.todo) = k
        BY <4>1
      <4> HIDE DEF k
      <4>4. ~(k < 3)
        BY <4>2
      <4> QED BY <4>3, <4>4
    <3>2. q.req.tool = "send_draft" => ~(Len(q.todo) <= SendAt + 1)
      BY <2>1, DraftPlans, SendFromEnd DEF Starts
    <3>3. q.req.tool = "send_draft" => ~(Len(q.todo) <= SendAt) /\ ~(Len(q.todo) < SendAt)
      BY <2>1, DraftPlans, SendFromEnd DEF Starts
    <3> QED BY <2>0, <3>1, <3>2, <3>3 DEF DraftOK
  <2>2. CASE Fails(c, q)
    BY <2>0, <2>2, <1>4 DEF Fails, SameCall, Pending, Started
  <2> QED BY <2>0, <2>1, <2>2, ResumedDraft, SkippedDraft DEF Moves
<1>6. \A d \in Call : Started(d)' => DraftOK(d)'
  <2> SUFFICES ASSUME NEW d \in Call, Started(d)', d # c PROVE DraftOK(d)'
    BY <1>5
  <2>1. calls'[d] = calls[d] /\ Started(d)
    BY <1>1 DEF Started
  <2> QED BY <1>4, <2>1
<1>7. ASSUME NEW j \in jobs', j.done, j.reply # None PROVE ReplyOK(j)'
  <2>1. j \in jobs /\ j.call # c /\ j.call \in Call
    BY <1>7, MovedJobs
  <2>2. calls'[j.call] = calls[j.call] /\ ReplyOK(j)
    BY <1>1, <1>7, <2>1 DEF DraftsOK
  <2>3. PICK d, x : d \in Call /\ d = j.call /\ x = j.reply
    BY <2>1
  <2>4. Settled(d, x) => Settled(d, x)'
    BY <1>3, <2>2, <2>3
  <2> QED BY <1>2, <2>2, <2>3, <2>4 DEF ReplyOK, history
<1>8. DraftKept'
  <2>1. \A e \in expunged : calls'[e.call].req = calls[e.call].req
    <3> SUFFICES ASSUME NEW e \in expunged PROVE calls'[e.call].req = calls[e.call].req
      OBVIOUS
    <3>1. e.call \in Call /\ Started(e.call)
      BY DEF Inv, ExpungedOK
    <3>2. Started(c) => q.req = calls[c].req
      BY MoveShortens
    <3> QED BY <1>1, <3>1, <3>2
  <2> QED BY <1>2, <2>1 DEF DraftsOK, DraftKept, history
<1> QED BY <1>6, <1>7, <1>8 DEF DraftsOK

LEMMA DraftsStep == Inv /\ InStep /\ MailboxesOK /\ DraftsOK /\ [Next]_vars => DraftsOK'
<1> SUFFICES ASSUME Inv, InStep, MailboxesOK, DraftsOK, [Next]_vars PROVE DraftsOK'
  OBVIOUS
<1>1. CASE UNCHANGED vars
  BY <1>1 DEF vars, server, history, DraftsOK, DraftOK, ReplyOK, DraftKept, Started,
              Settled, Box
<1> QED BY <1>1, Stepping, MovesDrafts, ExchangeDrafts

LEMMA DraftsInvariant == Spec => []DraftsOK
  BY Surroundings, DraftsInit, DraftsStep, PTL DEF Spec

\* However deletions that were given up, failures and other calls interleave, the
\* draft that update_draft or send_draft replaces goes only once the new one is
\* stored, or once that very message is sent.
THEOREM DraftsAreKept == Spec => []DraftKept
<1>1. DraftsOK => DraftKept
  BY DEF DraftsOK
<1> QED BY <1>1, DraftsInvariant, PTL

-----------------------------------------------------------------------------
\* One call after the other, and none but those that handle drafts

Quiet == /\ ~overlapped
         /\ \A c \in Call : Started(c) => calls[c].req.tool \in DraftTool

Sequential == ~overlapped => \A c, d \in Call : Pending(c) /\ Pending(d) => c = d

Gone(x) == \A k \in mail : k.msg # x

\* the message x is where call c looks for it, or nowhere
Placed(c, x) ==
    /\ x \in Sources
    /\ \A k \in mail : k.msg = x => k.mb = Box(c) /\ k.uid \in calls[c].req.uids

\* of the calls that have not failed, c alone has read x
Only(c, x) ==
    \A d \in Call : d # c /\ calls[d].pc # "failed" => calls[d].read # x

ReadOK(c) ==
    LET q == calls[c]
    IN q.read # None =>
       /\ q.req.tool = "send_draft" /\ Len(q.todo) <= SendAt
       /\ Placed(c, q.read)
       /\ q.pc = "ok" => Gone(q.read)
       /\ q.pc # "failed" => Only(c, q.read)

WaitingOK(j) ==
    LET x == calls[j.call].read
    IN /\ j.op = "fetch" /\ j.done /\ j.reply # None =>
            Placed(j.call, j.reply) /\ Only(j.call, j.reply)
       /\ j.op = "expunge" /\ x # None =>
            /\ \A k \in mail : k.msg = x => k.deleted
            /\ j.done /\ j.reply # None => Gone(x)

SentOK(s) ==
    /\ s.of = calls[s.call].read /\ Len(calls[s.call].todo) <= SendAt
    /\ calls[s.call].req.tool = "send_draft"

OneSender ==
    /\ Sequential
    /\ Quiet => /\ ~reshaped /\ ~copied
                /\ \A c \in Call : Started(c) => ReadOK(c)
                /\ \A j \in jobs : WaitingOK(j)
                /\ \A s \in sent : SentOK(s)

LEMMA OneSenderInit == Init => OneSender
  BY DEF Init, OneSender, Sequential, Pending, Started, Unused

\* the exchange of a call that handles drafts, as the step it is
LEMMA DraftJob ==
    ASSUME Inv, InStep, Quiet, NEW j \in jobs
    PROVE  LET q == calls[j.call]
           IN /\ j.call \in Call /\ Started(j.call) /\ q.req \in Request
              /\ q.req.tool \in DraftTool
              /\ Len(q.todo) \in Nat /\ Len(q.todo) <= j.step
              /\ SendAt \in {4, 5}
              /\ j.op \in {"resolve", "fetch", "smtp", "special", "append", "delete",
                           "expunge"}
              /\ j.op = "fetch" => q.req.tool = "send_draft" /\ j.step = SendAt + 1
              /\ j.op = "smtp" => q.req.tool = "send_draft" /\ j.step = SendAt
              /\ j.op \in {"delete", "expunge"} => j.step = 1
<1> DEFINE c == j.call
           tool == calls[c].req.tool
<1>1. /\ c \in Call /\ Started(c) /\ calls[c].req \in Request
      /\ Len(calls[c].todo) \in Nat /\ Len(calls[c].todo) <= j.step
      /\ j.step \in 1 .. Len(Plan(tool))
      /\ \/ j.op = AtStep(tool, j.step)
         \/ j.op = "expunge" /\ AtStep(tool, j.step) = "delete"
  BY StepOfJob
<1>2. tool \in DraftTool
  BY <1>1 DEF Quiet
<1> HIDE DEF c, tool
<1>3. PICK op : op = AtStep(tool, j.step)
  OBVIOUS
<1>4. /\ op \in {"resolve", "fetch", "smtp", "special", "append", "delete"}
      /\ op = "fetch" => tool = "send_draft" /\ j.step = SendAt + 1
      /\ op = "smtp" => tool = "send_draft" /\ j.step = SendAt
      /\ op = "delete" => j.step = 1
  BY <1>1, <1>2, <1>3, DraftSteps
<1> QED BY <1>1, <1>2, <1>3, <1>4, SendFromEnd DEF c, tool

-----------------------------------------------------------------------------
\* What an exchange does to the mailboxes then

LEMMA QuietExchange ==
    ASSUME Inv, InStep, Quiet, Exchange
    PROVE  /\ UNCHANGED <<calls, overlapped, reshaped, copied>> /\ Sources \subseteq Sources'
           /\ \A k \in mail' :
                \/ \E m \in mail : /\ m.mb = k.mb /\ m.uid = k.uid /\ m.msg = k.msg
                                   /\ m.deleted => k.deleted
                \/ k.msg \notin Sources
<1> DEFINE Kept(k) == \E m \in mail : /\ m.mb = k.mb /\ m.uid = k.uid /\ m.msg = k.msg
                                      /\ m.deleted => k.deleted
<1>1. UNCHANGED <<calls, overlapped>> /\ stored \subseteq stored'
  BY ExchangeReplies
<1>2. Sources \subseteq Sources'
  BY <1>1 DEF Sources
<1>3. \A j \in jobs : j.op \notin {"flags", "transfer", "folder"}
  BY DraftJob
<1>4. ~Flags /\ ~Transfer /\ ~FolderAction
  BY <1>3 DEF Flags, Transfer, FolderAction, Running
<1>5. CASE List \/ Fetch \/ Search \/ Smtp \/ Break \/ Expunge
  <2>1. mail' \subseteq mail /\ UNCHANGED <<reshaped, copied>>
    BY <1>5 DEF List, Fetch, Search, Smtp, Break, Expunge, server, history
  <2> QED BY <1>1, <1>2, <2>1
<1>6. CASE Mark
  <2>1. UNCHANGED <<reshaped, copied>>
    BY <1>6 DEF Mark, history
  <2>2. PICK j \in jobs :
          mail' = {IF m \in Named(j.call) THEN [m EXCEPT !.deleted = TRUE] ELSE m :
                     m \in mail}
    BY <1>6 DEF Mark, Running
  <2>3. ASSUME NEW m \in mail, NEW k, k = [m EXCEPT !.deleted = TRUE]
        PROVE  k.mb = m.mb /\ k.uid = m.uid /\ k.msg = m.msg /\ k.deleted
    <3>1. MessageRecord(m)
      BY DEF Inv, MailOK
    <3> QED BY <2>3, <3>1 DEF MessageRecord
  <2>4. \A k \in mail' : Kept(k)
    BY <2>2, <2>3
  <2> QED BY <1>1, <1>2, <2>1, <2>4
<1>7. CASE AppendMessage
  <2>1. UNCHANGED <<reshaped, copied>>
    BY <1>7 DEF AppendMessage
  <2>2. PICK j \in jobs :
           /\ ~j.done /\ j.op = "append"
           /\ \A k \in mail' :
                \/ k \in mail
                \/ k = [mb |-> calls[j.call].to, uid |-> uidNext[calls[j.call].to],
                        msg |-> j.call, deleted |-> FALSE]
    BY <1>7 DEF AppendMessage, Running
  <2>3. j.call \in Call /\ j.call \notin stored
    BY <2>2 DEF Inv, AppendOK, Appending, JobsOK, JobOK
  <2>4. j.call \notin Sources
    BY <2>3, MailboxAssumption DEF Sources
  <2> QED BY <1>1, <1>2, <2>1, <2>2, <2>4
<1> QED BY <1>4, <1>5, <1>6, <1>7 DEF Exchange

\* what was read stays where it was, and what is gone stays gone
LEMMA PlacesStay ==
    ASSUME Inv, InStep, Quiet, Exchange, NEW c, NEW x
    PROVE  /\ Placed(c, x) => Placed(c, x)'
           /\ x \in Sources /\ Gone(x) => Gone(x)'
           /\ Only(c, x) => Only(c, x)'
           /\ x \in Sources /\ (\A k \in mail : k.msg = x => k.deleted) =>
                \A k \in mail' : k.msg = x => k.deleted
<1>1. calls' = calls /\ Box(c)' = Box(c)
  BY QuietExchange DEF Box
<1>2. Sources \subseteq Sources'
  BY QuietExchange
<1>3. \A k \in mail' : k.msg = x /\ x \in Sources =>
         \E m \in mail : /\ m.mb = k.mb /\ m.uid = k.uid /\ m.msg = x
                         /\ m.deleted => k.deleted
  BY QuietExchange
<1>4. Only(c, x) => Only(c, x)'
  BY <1>1 DEF Only
<1>5. Placed(c, x) => Placed(c, x)'
  BY <1>1, <1>2, <1>3 DEF Placed
<1> QED BY <1>3, <1>4, <1>5 DEF Gone

LEMMA FetchedAlone ==
    ASSUME Inv, InStep, MailboxesOK, DraftsOK, OneSender, Quiet, NEW j \in jobs,
           j.op = "fetch", Awaited(j), NEW m \in Named(j.call), m.msg # None
    PROVE  Placed(j.call, m.msg) /\ Only(j.call, m.msg)
<1> DEFINE c == j.call
<1>1. /\ c \in Call /\ Started(c) /\ calls[c].req.tool = "send_draft"
      /\ Len(calls[c].todo) <= SendAt + 1
  BY DraftJob
<1>2. ~reshaped /\ ~copied
  BY DEF OneSender
<1>3. calls[c].src = Box(c)
  BY <1>1, <1>2 DEF DraftsOK, DraftOK
<1>4. m \in mail /\ m.mb = Box(c) /\ m.uid \in calls[c].req.uids
  BY <1>3 DEF Named
<1>5. m.msg \in Sources /\ \A k \in mail : k.msg = m.msg => k = m
  BY <1>2, <1>4 DEF Inv, MailOK
<1>6. ASSUME NEW d \in Call, d # c, calls[d].pc # "failed", calls[d].read = m.msg
      PROVE  FALSE
  <2>1. calls[d].pc \in {"unused", "pending", "ok"} /\ (calls[d].pc = "unused" => FALSE)
    BY <1>6 DEF InStep, PlaceOK
  <2>2. ReadOK(d)
    BY <2>1 DEF OneSender, Started
  <2>3. calls[d].pc # "ok"
    BY <1>4, <1>6, <2>2 DEF ReadOK, Gone
  <2>4. Pending(d) /\ Pending(c)
    BY <2>1, <2>3 DEF Pending, Awaited
  <2> QED BY <1>1, <1>6, <2>4 DEF OneSender, Sequential, Quiet
<1> QED BY <1>4, <1>5, <1>6 DEF Placed, Only

\* the deletion of a draft sent has marked all there is of it
LEMMA MarkedAlone ==
    ASSUME Inv, InStep, DraftsOK, OneSender, Quiet, NEW j \in jobs,
           j.op = "delete", NEW x, x = calls[j.call].read, x # None,
           mail' = {IF m \in Named(j.call) THEN [m EXCEPT !.deleted = TRUE]
                    ELSE m : m \in mail}
    PROVE  \A k \in mail' : k.msg = x => k.deleted
<1> DEFINE c == j.call
<1>1. c \in Call /\ Started(c) /\ Len(calls[c].todo) <= 1 /\ Len(calls[c].todo) \in Nat
      /\ SendAt \in {4, 5}
  BY DraftJob
<1>2. ReadOK(c) /\ DraftOK(c) /\ ~reshaped
  BY <1>1 DEF OneSender, DraftsOK
<1>3. Placed(c, x) /\ calls[c].src = Box(c)
  BY <1>1, <1>2 DEF ReadOK, DraftOK
<1>4. \A m \in mail : m.msg = x => m \in Named(c)
  BY <1>3 DEF Placed, Named
<1>5. ASSUME NEW m \in mail, NEW k, k = [m EXCEPT !.deleted = TRUE]
      PROVE  k.msg = m.msg /\ k.deleted
  <2>1. MessageRecord(m)
    BY DEF Inv, MailOK
  <2> QED BY <1>5, <2>1 DEF MessageRecord
<1> QED BY <1>4, <1>5

LEMMA ExchangeAlone ==
    ASSUME Inv, InStep, MailboxesOK, DraftsOK, OneSender, Exchange
    PROVE  OneSender'
<1>1. calls' = calls /\ overlapped' = overlapped
  BY ExchangeReplies
<1>2. Sequential'
  BY <1>1 DEF OneSender, Sequential, Pending
<1>3. ASSUME Quiet'
      PROVE  /\ (~reshaped /\ ~copied)'
             /\ \A c \in Call : Started(c)' => ReadOK(c)'
             /\ \A k \in jobs' : WaitingOK(k)'
             /\ \A s \in sent' : SentOK(s)'
  <2>1. Quiet
    BY <1>1, <1>3 DEF Quiet, Started
  <2>2. (~reshaped /\ ~copied)'
    BY <2>1, QuietExchange DEF OneSender
  <2>3. ASSUME NEW c \in Call, Started(c)' PROVE ReadOK(c)'
    <3>1. ReadOK(c)
      BY <1>1, <2>1, <2>3 DEF OneSender, Started
    <3>2. PICK x : x = calls[c].read
      OBVIOUS
    <3>3. /\ Placed(c, x) => Placed(c, x)'
          /\ x \in Sources /\ Gone(x) => Gone(x)'
          /\ Only(c, x) => Only(c, x)'
      BY <2>1, PlacesStay
    <3> QED BY <1>1, <3>1, <3>2, <3>3 DEF ReadOK, Placed
  <2>4. ASSUME NEW k \in jobs' PROVE WaitingOK(k)'
    <3>1. PICK c, x, y : c = k.call /\ x = calls[c].read /\ y = k.reply
      OBVIOUS
    <3>2. /\ Placed(c, y) => Placed(c, y)'
          /\ x \in Sources /\ Gone(x) => Gone(x)'
          /\ Only(c, y) => Only(c, y)'
          /\ x \in Sources /\ (\A m \in mail : m.msg = x => m.deleted) =>
               \A m \in mail' : m.msg = x => m.deleted
      BY <2>1, PlacesStay
    <3>3. ASSUME NEW j \in jobs, j.call = c, x # None PROVE x \in Sources
      <4>1. ReadOK(c)
        BY <2>1, <3>3, DraftJob DEF OneSender
      <4> QED BY <3>1, <3>3, <4>1 DEF ReadOK, Placed
    <3>4. CASE k \in jobs
      <4>1. WaitingOK(k)
        BY <2>1, <3>4 DEF OneSender
      <4> QED BY <1>1, <3>1, <3>2, <3>3, <3>4, <4>1 DEF WaitingOK
    <3>5. CASE k \notin jobs /\ Mark
      <4>1. PICK j \in jobs : /\ j.op = "delete" /\ ~j.done /\ k.done = j.done
                              /\ k.call = j.call /\ k.step = j.step
                              /\ mail' = {IF m \in Named(j.call)
                                          THEN [m EXCEPT !.deleted = TRUE]
                                          ELSE m : m \in mail}
        BY <3>5, MarkedJobs
      <4>2. k.op = "expunge"
        BY <3>5, MarkedJobs
      <4>3. x # None => \A m \in mail' : m.msg = x => m.deleted
        BY <2>1, <3>1, <4>1, MarkedAlone
      <4> QED BY <1>1, <3>1, <4>1, <4>2, <4>3 DEF WaitingOK
    <3>6. CASE k \notin jobs /\ ~Mark
      <4>1. PICK j \in jobs : \E reply : Replied(j, reply)
        BY <3>6, ExchangeReplies
      <4>2. PICK reply : Replied(j, reply)
        BY <4>1
      <4>3. k.reply = reply /\ k.call = j.call /\ k.op = j.op /\ Awaited(j)
        BY <3>6, <4>2, AnsweredJobs DEF Replied
      <4>4. ASSUME k.op = "fetch", y # None PROVE Placed(c, y)' /\ Only(c, y)'
        <5>1. PICK m \in Named(j.call) : reply = m.msg
          BY <3>1, <4>2, <4>3, <4>4 DEF Replied
        <5>2. Placed(j.call, m.msg) /\ Only(j.call, m.msg)
          BY <2>1, <3>1, <4>3, <4>4, <5>1, FetchedAlone
        <5> QED BY <3>1, <3>2, <4>3, <5>1, <5>2
      <4>5. ASSUME k.op = "expunge", x # None
            PROVE  /\ \A m \in mail' : m.msg = x => m.deleted
                   /\ y # None => Gone(x)'
        <5>1. \A m \in mail : m.msg = x => m.deleted
          BY <2>1, <3>1, <4>3, <4>5 DEF OneSender, WaitingOK
        <5>2. \A m \in mail' : m.msg = x => m.deleted
          BY <3>1, <3>2, <3>3, <4>3, <4>5, <5>1
        <5>3. ASSUME y # None PROVE Gone(x)'
          <6>1. mail' = mail \ Wiped(j)
            BY <3>1, <4>2, <4>3, <4>5, <5>3 DEF Replied
          <6>2. c \in Call /\ Started(c) /\ Len(calls[c].todo) <= 1
                /\ Len(calls[c].todo) \in Nat /\ SendAt \in {4, 5}
            BY <2>1, <3>1, <4>3, <4>5, DraftJob
          <6>3. ReadOK(c) /\ DraftOK(c) /\ ~reshaped
            BY <2>1, <6>2 DEF OneSender, DraftsOK
          <6>4. Placed(c, x) /\ calls[c].src = Box(c)
            BY <3>1, <4>5, <6>2, <6>3 DEF ReadOK, DraftOK
          <6>5. \A m \in mail : m.msg = x => m \in Wiped(j)
            BY <3>1, <4>3, <5>1, <6>4 DEF Placed, Wiped, Named
          <6> QED BY <6>1, <6>5 DEF Gone
        <5> QED BY <5>2, <5>3
      <4> QED BY <1>1, <3>1, <4>4, <4>5 DEF WaitingOK
    <3> QED BY <3>4, <3>5, <3>6
  <2>5. ASSUME NEW s \in sent' PROVE SentOK(s)'
    <3>1. CASE s \in sent
      BY <1>1, <2>1, <3>1 DEF OneSender, SentOK
    <3>2. CASE s \notin sent
      <4>1. PICK j \in jobs : /\ j.op = "smtp"
                              /\ s = [call |-> j.call, of |-> calls[j.call].read]
        BY <3>2, ExchangeReplies
      <4>2. calls[j.call].req.tool = "send_draft" /\ Len(calls[j.call].todo) <= SendAt
        BY <2>1, <4>1, DraftJob
      <4> QED BY <1>1, <4>1, <4>2 DEF SentOK
    <3> QED BY <3>1, <3>2
  <2> QED BY <2>2, <2>3, <2>4, <2>5
<1> QED BY <1>2, <1>3 DEF OneSender

\* what the calls have done before a call that is started or goes on
LEMMA QuietBefore ==
    ASSUME Inv, InStep, Quiet', NEW c \in Call, NEW q, Moves(c, q)
    PROVE  Quiet
<1>1. \A d \in Call : calls'[d] = IF d = c THEN q ELSE calls[d]
  BY MovedCalls
<1>2. ~overlapped
  BY DEF Moves, Starts, Resumes, Fails, Skips, Quiet
<1>3. Started(c) => q.req = calls[c].req /\ q.pc # "unused"
  BY MoveShortens
<1>4. ASSUME NEW d \in Call, Started(d) PROVE calls[d].req.tool \in DraftTool
  <2>1. Started(d)'
    BY <1>1, <1>3, <1>4 DEF Started
  <2> QED BY <1>1, <1>3, <1>4, <2>1 DEF Quiet
<1> QED BY <1>2, <1>4 DEF Quiet

LEMMA MovesSequential ==
    ASSUME Inv, Sequential, NEW c \in Call, NEW q, Moves(c, q)
    PROVE  Sequential'
<1>1. \A d \in Call : calls'[d] = IF d = c THEN q ELSE calls[d]
  BY MovedCalls
<1>2. CASE Starts(c, q)
  BY <1>1, <1>2 DEF Starts, Sequential, Pending
<1>3. CASE ~Starts(c, q)
  <2>1. Pending(c) /\ overlapped' = overlapped
    BY <1>3 DEF Moves, Resumes, Fails, Skips
  <2> QED BY <1>1, <2>1 DEF Sequential, Pending
<1> QED BY <1>2, <1>3

\* how a call has come to what it has read, and to its end
LEMMA MovedRead ==
    ASSUME Inv, InStep, DraftsOK, Quiet, NEW c \in Call, NEW q, Moves(c, q)
    PROVE  \/ ~Started(c) /\ q.read = None
           \/ /\ Pending(c) /\ q.req = calls[c].req /\ q.read = calls[c].read
              /\ Len(q.todo) <= Len(calls[c].todo)
              /\ q.pc = "ok" /\ q.req.tool = "send_draft" =>
                   \E j \in jobs : /\ j.call = c /\ j.op = "expunge" /\ j.done
                                   /\ j.reply # None
           \/ /\ Pending(c) /\ q.req = calls[c].req /\ q.pc = "pending"
              /\ q.req.tool = "send_draft"
              /\ Len(calls[c].todo) = SendAt + 1 /\ Len(q.todo) = SendAt
              /\ \E j \in jobs : /\ j.call = c /\ j.op = "fetch" /\ j.done
                                 /\ j.reply # None /\ q.read = j.reply
<1> DEFINE p == calls[c]
           m == Len(p.todo)
           n == Len(q.todo)
<1>1. CASE Starts(c, q)
  BY <1>1 DEF Starts
<1>2. CASE Fails(c, q)
  <2>1. Len(q.todo) <= Len(p.todo)
    BY <1>2, MoveShortens DEF Fails, Pending, Started
  <2> QED BY <1>2, <2>1 DEF Fails, SameCall
<1>3. CASE Resumes(c, q)
  <2>1. PICK j \in jobs :
           /\ j.call = c /\ Awaited(j) /\ j.done /\ j.reply # None
           /\ q.read = IF j.op = "fetch" THEN j.reply ELSE p.read
    BY <1>3 DEF Resumes
  <2>2. /\ Pending(c) /\ GoesOn(q) /\ q.req = p.req /\ q.todo = Tail(p.todo)
        /\ p.todo \in Seq(Op) /\ p.todo # <<>> /\ j.step = m
    <3>1. p.todo \in Seq(Op) /\ p.todo # <<>> /\ j.step = m
      BY <2>1, AwaitedStep
    <3> QED BY <1>3, <3>1 DEF Resumes
  <2>3. n = m - 1 /\ m \in Nat
    BY <2>2
  <2>4. /\ j.op = "fetch" => p.req.tool = "send_draft" /\ m = SendAt + 1
        /\ SendAt \in {4, 5}
    BY <2>1, <2>2, DraftJob
  <2>5. CASE j.op = "fetch"
    <3> HIDE DEF m, n
    <3>1. m = SendAt + 1 /\ n = SendAt /\ n # 0
      BY <2>3, <2>4, <2>5
    <3>2. q.todo # <<>>
      BY <3>1 DEF n
    <3>3. q.pc = "pending"
      BY <2>2, <3>2 DEF GoesOn
    <3> QED BY <2>1, <2>2, <2>4, <2>5, <3>1, <3>3 DEF m, n
  <2>6. CASE j.op # "fetch"
    <3>1. ASSUME q.pc = "ok", q.req.tool = "send_draft" PROVE j.op = "expunge"
      <4>1. n = 0 /\ m = 1
        <5>1. q.todo = <<>>
          BY <2>2, <3>1 DEF GoesOn
        <5> QED BY <2>3, <5>1
      <4>2. JobAt(j) /\ ReplyOK(j)
        BY <2>1 DEF InStep, DraftsOK
      <4>3. AtStep("send_draft", 1) = "delete"
        BY SendFromEnd, DraftPlans DEF AtStep
      <4> HIDE DEF m, n
      <4> QED BY <2>1, <2>2, <3>1, <4>1, <4>2, <4>3 DEF JobAt, ReplyOK
    <3>2. n <= m
      BY <2>3
    <3> QED BY <2>1, <2>2, <2>6, <3>1, <3>2
  <2> QED BY <2>5, <2>6
<1>4. CASE Skips(c, q)
  <2>1. /\ Pending(c) /\ GoesOn(q) /\ SameCall(p, q) /\ Tolerated(p) /\ Started(c)
    BY <1>4 DEF Skips, Pending, Started
  <2>2. q.req = p.req /\ q.read = p.read /\ Len(q.todo) <= Len(p.todo)
    BY <2>1, MoveShortens DEF SameCall
  <2>3. ASSUME q.pc = "ok", q.req.tool = "send_draft" PROVE FALSE
    <3>1. /\ p.req \in Request /\ p.todo \in Seq(Op) /\ p.todo # <<>> /\ InPlan(p)
      BY <2>1 DEF Inv, CallsOK, CallOK, PlanOK, Started, InStep, PlaceOK, Pending
    <3>2. /\ Head(p.todo) = AtStep("send_draft", m)
          /\ m \in 1 .. Len(Plan("send_draft")) /\ m \in Nat
      <4>1. m \in 1 .. m /\ Head(p.todo) = FromEnd(p.todo, m) /\ m \in Nat
        BY <3>1 DEF FromEnd
      <4>2. p.req.tool = "send_draft" /\ Plan("send_draft") \in Seq(Op)
        BY <2>2, <2>3, <3>1, PlanLen
      <4> QED BY <3>1, <4>1, <4>2 DEF InPlan, AtStep
    <3>3. Head(p.todo) \in {"special", "append"}
      BY <2>1, <2>2, <2>3 DEF Tolerated
    <3>4. /\ Head(p.todo) = "append" => m = 3
          /\ Head(p.todo) = "special" => m = 4
      BY <3>2, <3>3, DraftSteps DEF DraftTool
    <3>5. PICK k \in {2, 3} :
             /\ k = IF Head(p.todo) \in {"resolve", "special"} THEN 3 ELSE 2
             /\ q.todo = SubSeq(p.todo, k, Len(p.todo))
      BY <1>4 DEF Skips
    <3>6. n = IF k <= m THEN m - k + 1 ELSE 0
      BY <3>1, <3>5, RestFromEnd
    <3> HIDE DEF m, n
    <3>7. n # 0
      <4>1. (m = 3 /\ k = 2) \/ (m = 4 /\ k = 3)
        BY <3>3, <3>4, <3>5
      <4> QED BY <3>6, <4>1
    <3>8. q.todo # <<>>
      BY <3>7 DEF n
    <3> QED BY <2>1, <2>3, <3>8 DEF GoesOn
  <2> QED BY <2>1, <2>2, <2>3
<1> QED BY <1>1, <1>2, <1>3, <1>4 DEF Moves

LEMMA MovesAlone ==
    ASSUME Inv, InStep, DraftsOK, OneSender, NEW c \in Call, NEW q, Moves(c, q), Quiet'
    PROVE  /\ (~reshaped /\ ~copied)'
           /\ \A d \in Call : Started(d)' => ReadOK(d)'
           /\ \A j \in jobs' : WaitingOK(j)'
           /\ \A s \in sent' : SentOK(s)'
<1> DEFINE p == calls[c]
           Reads(j) == /\ j \in jobs /\ j.call = c /\ j.op = "fetch" /\ j.done
                       /\ j.reply # None /\ q.read = j.reply
<1>1. Quiet
  BY QuietBefore
<1>2. \A d \in Call : calls'[d] = IF d = c THEN q ELSE calls[d]
  BY MovedCalls
<1>3. UNCHANGED <<server, history>>
  BY DEF Moves
<1>4. /\ ~reshaped /\ ~copied
      /\ \A d \in Call : Started(d) => ReadOK(d)
      /\ \A j \in jobs : WaitingOK(j)
      /\ \A s \in sent : SentOK(s)
  BY <1>1 DEF OneSender
<1>5. \A d \in Call : calls[d].read # None => ReadOK(d)
  <2> SUFFICES ASSUME NEW d \in Call, calls[d].read # None PROVE ReadOK(d)
    OBVIOUS
  <2>1. Started(d)
    BY DEF InStep, PlaceOK, Started
  <2> QED BY <1>4, <2>1
<1>6. \/ ~Started(c) /\ q.read = None
      \/ Pending(c) /\ q.req = p.req /\ q.read = p.read /\ Len(q.todo) <= Len(p.todo)
      \/ /\ Pending(c) /\ q.req = p.req /\ q.req.tool = "send_draft"
         /\ q.pc = "pending" /\ Len(p.todo) = SendAt + 1 /\ Len(q.todo) = SendAt
         /\ \E j \in jobs : Reads(j)
  BY <1>1, MovedRead
<1>7. SendAt \in {4, 5} /\ (Started(c) => Len(p.todo) \in Nat)
  BY SendFromEnd DEF Inv, CallsOK, CallOK, PlanOK, Started
<1>8. Len(q.todo) \in Nat /\ Started(c) = (p.pc # "unused")
  <2>1. q.todo \in Seq(Op)
    BY MoveShortens
  <2> QED BY <2>1 DEF Started
<1>9. ASSUME NEW d \in Call, NEW x, Started(d), calls'[d].req = calls[d].req
      PROVE  Placed(d, x) => Placed(d, x)'
  BY <1>3, <1>9 DEF Placed, Box, Sources, server, history
<1>10. ASSUME NEW x PROVE Gone(x) => Gone(x)'
  BY <1>3 DEF Gone, server
\* a call reads what no other has
<1>11. ASSUME NEW d \in Call, d # c, NEW x, x # None, Only(d, x),
              q.pc # "failed" => q.read # x
       PROVE  Only(d, x)'
  BY <1>2, <1>11 DEF Only
<1>12. ASSUME NEW d \in Call, d # c, calls[d].read # None, calls[d].pc # "failed",
              q.pc # "failed"
       PROVE  q.read # calls[d].read
  <2>1. ReadOK(d) /\ Only(d, calls[d].read)
    BY <1>5, <1>12 DEF ReadOK
  <2>2. CASE q.read = None
    BY <1>12, <2>2
  <2>3. CASE Pending(c) /\ q.read = p.read
    BY <2>1, <2>3, <1>12 DEF Only, Pending
  <2>4. CASE \E j \in jobs : Reads(j)
    <3>1. PICK j \in jobs : Reads(j)
      BY <2>4
    <3>2. Only(c, j.reply)
      BY <1>4, <3>1 DEF WaitingOK
    <3> QED BY <1>12, <3>1, <3>2 DEF Only
  <2> QED BY <1>6, <2>2, <2>3, <2>4
<1>13. ASSUME NEW d \in Call, Started(d)', d # c PROVE ReadOK(d)'
  <2>1. calls'[d] = calls[d] /\ Started(d) /\ ReadOK(d)
    BY <1>2, <1>4, <1>13 DEF Started
  <2>2. PICK x : x = calls[d].read
    OBVIOUS
  <2>3. x # None => Placed(d, x)'
    BY <1>9, <2>1, <2>2 DEF ReadOK
  <2>4. x # None /\ calls[d].pc = "ok" => Gone(x)'
    BY <1>10, <2>1, <2>2 DEF ReadOK
  <2>5. x # None /\ calls[d].pc # "failed" => Only(d, x)'
    BY <1>11, <1>12, <1>13, <2>1, <2>2 DEF ReadOK
  <2> QED BY <2>1, <2>2, <2>3, <2>4, <2>5 DEF ReadOK
<1>14. ReadOK(c)'
  <2>0. calls'[c] = q
    BY <1>2
  <2>1. CASE q.read = None
    BY <2>0, <2>1 DEF ReadOK
  <2>2. CASE /\ Pending(c) /\ q.req = p.req /\ q.read = p.read /\ q.read # None
             /\ Len(q.todo) <= Len(p.todo)
    <3>1. PICK x : x = q.read
      OBVIOUS
    <3>2. ReadOK(c) /\ Started(c) /\ p.pc = "pending"
      BY <1>5, <2>2 DEF Pending, Started
    <3>3. q.req.tool = "send_draft" /\ Len(q.todo) <= SendAt
      BY <1>7, <1>8, <2>2, <3>2 DEF ReadOK
    <3>4. Placed(c, x)'
      BY <1>9, <2>0, <2>2, <3>1, <3>2 DEF ReadOK
    <3>5. Only(c, x)'
      BY <1>2, <2>2, <3>1, <3>2 DEF ReadOK, Only
    <3>6. q.pc = "ok" => Gone(x)'
      <4> SUFFICES ASSUME q.pc = "ok" PROVE Gone(x)'
        OBVIOUS
      <4>1. ~(Len(q.todo) = SendAt /\ q.pc = "pending")
        OBVIOUS
      <4>2. PICK j \in jobs : /\ j.call = c /\ j.op = "expunge" /\ j.done
                              /\ j.reply # None
        BY <1>1, <2>2, <3>2, <3>3, MovedRead
      <4>3. Gone(x)
        BY <1>4, <2>2, <3>1, <4>2 DEF WaitingOK
      <4> QED BY <1>10, <4>3
    <3> QED BY <2>0, <3>1, <3>3, <3>4, <3>5, <3>6 DEF ReadOK
  <2>3. CASE /\ Pending(c) /\ q.req = p.req /\ q.req.tool = "send_draft"
             /\ q.pc = "pending" /\ Len(q.todo) = SendAt
             /\ \E j \in jobs : Reads(j)
    <3>1. PICK j \in jobs : Reads(j)
      BY <2>3
    <3>2. PICK x : x = q.read
      OBVIOUS
    <3>3. Placed(c, x) /\ Only(c, x)
      BY <1>4, <3>1, <3>2 DEF WaitingOK
    <3>4. Placed(c, x)' /\ Only(c, x)'
      <4>1. Started(c)
        BY <2>3 DEF Pending, Started
      <4>2. Placed(c, x)'
        BY <1>9, <2>0, <2>3, <3>3, <4>1
      <4> QED BY <1>2, <3>3, <4>2 DEF Only
    <3>5. Len(q.todo) <= SendAt
      BY <1>7, <2>3
    <3> QED BY <2>0, <2>3, <3>2, <3>4, <3>5 DEF ReadOK
  <2> QED BY <1>6, <2>1, <2>2, <2>3
<1>15. ASSUME NEW j \in jobs' PROVE WaitingOK(j)'
  <2>1. CASE j \in jobs /\ j.call # c /\ j.call \in Call
    <3>1. PICK d, x, y : /\ d \in Call /\ d = j.call /\ d # c
                         /\ x = calls[d].read /\ y = j.reply
      BY <2>1
    <3>2. WaitingOK(j) /\ calls'[d] = calls[d] /\ Started(d)
      BY <1>2, <1>4, <2>1, <3>1 DEF Inv, JobsOK, JobOK
    <3>3. ASSUME j.op = "fetch", j.done, y # None PROVE Placed(d, y)' /\ Only(d, y)'
      <4>1. Placed(d, y) /\ Only(d, y)
        BY <3>1, <3>2, <3>3 DEF WaitingOK
      <4>2. Pending(d)
        BY <2>1, <3>1, <3>3 DEF InStep, JobAt, Awaited
      <4>3. ~Pending(c)
        BY <1>1, <3>1, <4>2 DEF OneSender, Sequential, Quiet
      <4>4. q.read # y
        BY <1>6, <3>3, <4>3
      <4> QED BY <1>9, <1>11, <3>1, <3>2, <3>3, <4>1, <4>4
    <3>4. ASSUME j.op = "expunge", x # None
          PROVE  /\ \A k \in mail' : k.msg = x => k.deleted
                 /\ j.done /\ y # None => Gone(x)'
      BY <1>3, <1>10, <3>1, <3>2, <3>4 DEF WaitingOK, server
    <3> QED BY <3>1, <3>2, <3>3, <3>4 DEF WaitingOK
  <2>2. CASE j \in jobs /\ j.call = c /\ ~j.done /\ Started(c)
    <3>1. ASSUME j.op = "expunge" PROVE q.read = p.read
      <4>1. Len(p.todo) <= 1
        BY <1>1, <2>2, <3>1, DraftJob
      <4>2. Len(p.todo) # SendAt + 1
        BY <1>7, <2>2, <4>1
      <4> QED BY <1>6, <2>2, <4>2
    <3>2. WaitingOK(j) /\ calls'[c] = q
      BY <1>2, <1>4, <2>2
    <3> QED BY <1>3, <2>2, <3>1, <3>2 DEF WaitingOK, server
  <2>3. CASE ~j.done /\ q.todo # <<>> /\ j.op = Head(q.todo)
    <3>1. j.op \in Op
      <4>1. q.todo \in Seq(Op)
        BY MoveShortens
      <4> QED BY <2>3, <4>1
    <3>2. j.op # "expunge"
      BY <3>1 DEF Op
    <3> QED BY <2>3, <3>2 DEF WaitingOK
  <2> QED BY <2>1, <2>2, <2>3, MovedJobs
<1>16. ASSUME NEW s \in sent' PROVE SentOK(s)'
  <2>1. s \in sent /\ SentOK(s) /\ s.call \in Call /\ Started(s.call)
    BY <1>3, <1>4 DEF history, InStep
  <2>2. CASE s.call # c
    BY <1>2, <2>1, <2>2 DEF SentOK
  <2>3. CASE s.call = c
    <3>1. Len(p.todo) <= SendAt /\ Len(p.todo) \in Nat
      BY <1>7, <2>1, <2>3 DEF SentOK
    <3>2. Len(p.todo) # SendAt + 1
      BY <1>7, <3>1
    <3>3. q.req = p.req /\ q.read = p.read /\ Len(q.todo) <= Len(p.todo)
      BY <1>6, <2>1, <2>3, <3>2
    <3>4. Len(q.todo) <= SendAt
      BY <1>7, <1>8, <3>1, <3>3
    <3> QED BY <1>2, <2>1, <2>3, <3>3, <3>4 DEF SentOK
  <2> QED BY <2>2, <2>3
<1> QED BY <1>3, <1>4, <1>13, <1>14, <1>15, <1>16 DEF history

LEMMA OneSenderStep ==
    Inv /\ InStep /\ MailboxesOK /\ DraftsOK /\ OneSender /\ [Next]_vars => OneSender'
<1> SUFFICES ASSUME Inv, InStep, MailboxesOK, DraftsOK, OneSender, [Next]_vars
             PROVE  OneSender'
  OBVIOUS
<1>1. CASE UNCHANGED vars
  BY <1>1 DEF vars, server, history, OneSender, Sequential, Quiet, Pending, Started,
              ReadOK, WaitingOK, SentOK, Placed, Only, Gone, Box, Sources
<1>2. ASSUME NEW c \in Call, NEW q, Moves(c, q) PROVE OneSender'
  <2>1. Sequential'
    BY <1>2, MovesSequential DEF OneSender
  <2> QED BY <1>2, <2>1, MovesAlone DEF OneSender
<1> QED BY <1>1, <1>2, Stepping, ExchangeAlone

\* A draft that two of a client's calls both send was sent by calls that overlapped,
\* or one of them reported a failure: one after the other, send_draft succeeds only
\* once nothing is left of the message it sent, and what is gone cannot be read again.
THEOREM DraftsAreSentOnce == Spec => []SentTwiceOnlyAfterFailure
<1>1. InStep /\ OneSender => SentTwiceOnlyAfterFailure
  <2> SUFFICES ASSUME InStep, OneSender, NEW s \in sent, NEW t \in sent,
                      s.call # t.call, s.of = t.of, s.of # None,
                      \A c \in Call : calls[c].pc # "unused" =>
                                        calls[c].req.tool \in DraftTool,
                      ~overlapped, calls[s.call].pc # "failed",
                      calls[t.call].pc # "failed"
               PROVE  FALSE
    BY DEF SentTwiceOnlyAfterFailure
  <2>1. Quiet
    BY DEF Quiet, Started
  <2>2. /\ s.call \in Call /\ Started(s.call) /\ t.call \in Call
        /\ SentOK(s) /\ SentOK(t) /\ ReadOK(s.call)
    BY <2>1 DEF InStep, OneSender
  <2> QED BY <2>2 DEF SentOK, ReadOK, Only
<1>2. Spec => []OneSender
  BY Surroundings, DraftsInvariant, OneSenderInit, OneSenderStep, PTL DEF Spec
<1> QED BY <1>1, <1>2, Surroundings, PTL
=============================================================================
