----------------------------- MODULE MCMailTools -----------------------------
(* One account with a nested Drafts mailbox and a Trash found by its        *)
(* attribute; the requests take the interesting tool of each plan.          *)
EXTENDS MailTools

CONSTANTS m1, m2, m3, a, b

Inbox  == <<"INBOX">>
Drafts == <<"INBOX", "/", "Drafts">>
Short  == <<"Drafts">>
Trash  == <<"Trash">>
Sent   == <<"Sent">>
Old    == <<"Old", "Drafts">>

MCSpecialUse == Inbox :> None @@ Drafts :> "drafts" @@ Short :> None @@
                Trash :> "trash" @@ Sent :> "sent" @@ Old :> None
MCFolders == {Inbox, Drafts, Trash, Sent}
MCMail == {[mb |-> Inbox, uid |-> 1, msg |-> m1, deleted |-> FALSE],
           [mb |-> Inbox, uid |-> 2, msg |-> m2, deleted |-> FALSE],
           [mb |-> Drafts, uid |-> 1, msg |-> m3, deleted |-> FALSE]}
MCConfigured == [k \in Kind |-> IF k \in {"sent"} THEN Sent ELSE None]

Ask(tool, box, uids, target) ==
    [tool |-> tool, box |-> box, uids |-> uids, target |-> target]

Writes ==
    {Ask("set_flags", Inbox, {1}, None),
     Ask("move_email", Inbox, {1}, Trash),
     Ask("trash_emails", Inbox, {1, 2}, None),
     Ask("restore_email", None, {1}, Inbox),
     Ask("copy_email", Inbox, {1}, Trash),
     Ask("delete_email_permanently", Inbox, {1}, None),
     Ask("delete_email_permanently", Inbox, {2}, None),
     Ask("delete_email_permanently", Trash, {1}, None),
     Ask("delete_emails_permanently", Inbox, {}, None),
     Ask("update_draft", Short, {1}, None),
     Ask("send_draft", Short, {1}, None)}
Shapes ==
    {Ask("create_mailbox", Short, {}, None),
     Ask("rename_mailbox", Short, {}, Old),
     Ask("delete_mailbox", Short, {}, None)}
Reads ==
    {Ask("list_mailboxes", None, {}, None),
     Ask("get_emails", Inbox, {1, 2}, None),
     Ask("list_emails", Inbox, {}, None),
     Ask("create_draft", None, {}, None),
     Ask("archive_email", Inbox, {1}, None),
     Ask("subscribe_mailbox", Inbox, {}, None),
     Ask("forward_email", Inbox, {1}, None)}
MCRequest == Writes \cup Shapes \cup Reads
MCDraftRequest ==
    {Ask("update_draft", Drafts, {1}, None), Ask("send_draft", Drafts, {1}, None),
     Ask("delete_draft", Drafts, {1}, None), Ask("delete_mailbox", Drafts, {}, None)}

MCSettings == [read_only |-> FALSE, allow_copy_in_read_only |-> TRUE,
               destructive_operations_enabled |-> TRUE]
MCSwitchedOff == [MCSettings EXCEPT !.destructive_operations_enabled = FALSE]
MCGranted == {"mail.read", "mail.send", "mail.move", "mail.copy", "mail.flags",
              "mail.delete", "mail.folders"}
MCSendOnly == {"mail.send", "mail.folders"}
=============================================================================
