--------------------------- MODULE RemoteServices ---------------------------
(***************************************************************************)
(* The tools that drive another server over HTTP: Facebook, Nextcloud,     *)
(* Dolibarr, Home Assistant and Telegram, with their clients in            *)
(* app/services and the store of the Facebook user token.                  *)
(*                                                                         *)
(* A tool is the sequence of its awaits: requests to the other server and  *)
(* accesses to the row of the token.  Calls interleave between them.  The  *)
(* answer of a request may be lost or be a server error whether the server *)
(* did the work or not.  Where no property looks, what a request reads or  *)
(* writes is left out ("read", "write").                                   *)
(***************************************************************************)
EXTENDS Naturals, Sequences, FiniteSets, TLC

CONSTANTS
    Call,            \* the calls of a behaviour, each made once
    Families,        \* sets of tools; the calls of a behaviour are of one, for
                     \* the services share no state
    Page,            \* the pages of the Facebook user
    DefaultPage,     \* FACEBOOK_DEFAULT_PAGE_ID
    Path,            \* the files of a Nextcloud folder
    Issued,          \* the long-lived tokens Facebook may issue, each once
    Legacy,          \* the token an earlier version stored in clear text
    MaxFaults,       \* bounds of the model: the faults of the servers, and
    MaxReports,      \* what the device of the entity reports by itself
    None

VARIABLES
    calls,     \* the calls
    family,    \* the set of the tools they call
    row,       \* the row facebook_user_token: None, or [token, plain]
    dropped,   \* history: the issued tokens cleared or replaced
    folder,    \* the Nextcloud folder exists
    files,     \* path -> None or what wrote it
    entity,    \* the Home Assistant entity: None, or attribute -> value
    effects,   \* history: the writes applied, see Effect
    faults, reports

world == <<folder, files, entity>>
vars == <<calls, family, row, dropped, world, effects, faults, reports>>

-----------------------------------------------------------------------------
\* What the methods of the clients await, each one request but where said

Alike(names, plan) == [n \in names |-> plan]

\* get_page asks again for fewer fields when one is refused
FacebookPages ==
    Alike({"list_pages", "get_page", "list_posts", "get_post"}, <<"read">>) @@
    Alike({"create_post", "create_photo_post"}, <<"post">>)

\* the probes of get_capabilities and the comments of each post may fail
FacebookObjects ==
    Alike({"get_comments", "get_insights", "get_notifications",
           "token_status"}, <<"read">>) @@
    Alike({"delete_post", "reply_comment", "hide_comment"}, <<"object_post">>) @@
    Alike({"get_capabilities", "get_recent_comments"}, <<"read", "probe">>) @@
    [get_community_inbox |-> <<"read", "probe", "read">>]

\* download_file reads the size first; upload_temporary_file makes the folders
NextcloudFiles ==
    [list_folder |-> <<"read">>, get_info |-> <<"get">>,
     download_file |-> <<"get", "get">>, upload_file |-> <<"put">>,
     upload_temporary_file |-> <<"ensure", "put">>, create_folder |-> <<"mkcol">>,
     delete |-> <<"delete">>, move |-> <<"move">>, copy |-> <<"copy">>]

NextcloudAccount ==
    Alike({"list_trash", "list_shares", "get_account_info",
           "get_capabilities"}, <<"read">>) @@
    Alike({"restore_trash_item", "delete_trash_item", "create_share",
           "update_share", "delete_share", "update_account_field",
           "webdav_call", "ocs_call"}, <<"write">>)

\* attach_file reads the reference of the object first
Dolibarr ==
    Alike({"status", "list_objects", "get_object"}, <<"read">>) @@
    Alike({"create_object", "update_object", "delete_object",
           "call_action"}, <<"write">>) @@
    [attach_file |-> <<"read", "write">>]

HomeAssistant ==
    Alike({"states", "services", "config_object", "query"}, <<"read">>) @@
    Alike({"call_service", "set_config_object", "delete_config_object",
           "command"}, <<"write">>) @@
    [state |-> <<"state">>, set_state |-> <<"set_state">>,
     delete_state |-> <<"delete_state">>]

\* send_report and send_buttons are send_message
Telegram ==
    Alike({"get_me", "get_updates"}, <<"read">>) @@
    Alike({"send_message", "set_my_commands"}, <<"write">>)

\* What each tool awaits, in order.  "load" reads the row of the token,
\* "pages" asks /me/accounts for a page token, "post_page" asks it again for
\* the page in the id of a post.

Resolve == <<"load", "pages">>

FacebookReadPlan ==
    Alike({"facebook_get_page"}, Resolve \o FacebookPages.get_page) @@
    Alike({"facebook_list_posts", "facebook_get_recent_posts"},
          Resolve \o FacebookPages.list_posts) @@
    [facebook_token_status |-> Resolve \o <<"load">> \o FacebookObjects.token_status,
     facebook_list_pages |-> Resolve \o <<"load">> \o FacebookPages.list_pages,
     facebook_get_capabilities |->
         Resolve \o <<"load">> \o FacebookObjects.get_capabilities,
     facebook_get_recent_comments |-> Resolve \o FacebookObjects.get_recent_comments,
     facebook_get_community_inbox |-> Resolve \o FacebookObjects.get_community_inbox,
     facebook_get_post |->
         Resolve \o <<"load", "post_page">> \o FacebookPages.get_post]

FacebookWritePlan ==
    [facebook_create_post |-> Resolve \o FacebookPages.create_post,
     facebook_create_photo_post |-> Resolve \o FacebookPages.create_photo_post,
     facebook_delete_post |->
         Resolve \o <<"load", "post_page">> \o FacebookObjects.delete_post]

\* the health check of a Facebook that is configured and answers
FacebookCommentPlan ==
    [facebook_get_comments |-> Resolve \o FacebookObjects.get_comments,
     facebook_reply_comment |-> Resolve \o FacebookObjects.reply_comment,
     facebook_hide_comment |-> Resolve \o FacebookObjects.hide_comment,
     facebook_get_insights |-> Resolve \o FacebookObjects.get_insights,
     facebook_get_notifications |-> Resolve \o FacebookObjects.get_notifications,
     facebook_health_check |-> <<"load">> \o FacebookPages.list_pages \o Resolve
                               \o FacebookPages.get_page]

FacebookPlan == FacebookReadPlan @@ FacebookWritePlan @@ FacebookCommentPlan

\* the routes of the administration: the exchange, the status, the clearing
TokenPlan ==
    [exchange_token |-> <<"exchange", "store_get", "store_put", "load">>,
     token_status |-> <<"load">>,
     clear_token |-> <<"clear_get", "clear_put">>]

NextcloudFilePlan ==
    [nextcloud_health_check |->
         NextcloudAccount.get_capabilities \o NextcloudAccount.get_account_info,
     nextcloud_list_folder |-> NextcloudFiles.list_folder,
     nextcloud_get_file_info |-> NextcloudFiles.get_info,
     nextcloud_download_file |-> NextcloudFiles.download_file,
     nextcloud_upload_temporary_file |-> NextcloudFiles.upload_temporary_file,
     nextcloud_upload_file |-> NextcloudFiles.upload_file,
     nextcloud_create_folder |-> NextcloudFiles.create_folder,
     nextcloud_move |-> NextcloudFiles.move,
     nextcloud_copy |-> NextcloudFiles.copy,
     nextcloud_delete |-> NextcloudFiles.delete]

NextcloudAccountPlan ==
    [nextcloud_list_trash |-> NextcloudAccount.list_trash,
     nextcloud_restore_trash_item |-> NextcloudAccount.restore_trash_item,
     nextcloud_delete_trash_item |-> NextcloudAccount.delete_trash_item,
     nextcloud_list_shares |-> NextcloudAccount.list_shares,
     nextcloud_create_share |-> NextcloudAccount.create_share,
     nextcloud_update_share |-> NextcloudAccount.update_share,
     nextcloud_delete_share |-> NextcloudAccount.delete_share,
     nextcloud_get_account_info |-> NextcloudAccount.get_account_info,
     nextcloud_update_account_field |-> NextcloudAccount.update_account_field,
     nextcloud_webdav_request |-> NextcloudAccount.webdav_call,
     nextcloud_ocs_request |-> NextcloudAccount.ocs_call]

NextcloudPlan == NextcloudFilePlan @@ NextcloudAccountPlan

DolibarrPlan ==
    [dolibarr_attach_temporary_file |-> Dolibarr.attach_file,
     dolibarr_health_check |-> Dolibarr.status,
     dolibarr_list_resources |-> <<>>,
     dolibarr_list |-> Dolibarr.list_objects,
     dolibarr_get |-> Dolibarr.get_object,
     dolibarr_create |-> Dolibarr.create_object,
     dolibarr_update |-> Dolibarr.update_object,
     dolibarr_delete |-> Dolibarr.delete_object,
     dolibarr_action |-> Dolibarr.call_action]

\* the entity tools act on the entity of the model; create_entity goes on when
\* its read finds none ("absent")
EntityPlan ==
    Alike({"home_assistant_get_config"}, <<"read">>) @@
    [home_assistant_health_check |-> <<"read", "read">>,
     home_assistant_list_entities |-> HomeAssistant.states,
     home_assistant_get_entity |-> HomeAssistant.state,
     home_assistant_create_entity |-> <<"absent">> \o HomeAssistant.set_state,
     home_assistant_update_entity |-> HomeAssistant.state \o HomeAssistant.set_state,
     home_assistant_delete_entity |-> HomeAssistant.delete_state]

RegistryPlan ==
    [home_assistant_get_entity_registry_entry |-> HomeAssistant.query] @@
    Alike({"home_assistant_update_entity_registry_entry",
           "home_assistant_delete_entity_registry_entry"}, HomeAssistant.command) @@
    [home_assistant_list_services |-> HomeAssistant.services,
     home_assistant_call_service |-> HomeAssistant.call_service,
     home_assistant_fire_event |-> <<"write">>,
     home_assistant_render_template |-> <<"read">>]

QueryPlan ==
    Alike({"home_assistant_get_history", "home_assistant_get_logbook",
           "home_assistant_api_get", "home_assistant_check_config"}, <<"read">>) @@
    Alike({"home_assistant_websocket_query",
           "home_assistant_validate_automation"}, HomeAssistant.query) @@
    [home_assistant_websocket_command |-> HomeAssistant.command]

\* what was saved or deleted stays so when the reload fails
ManagedConfigPlan ==
    [home_assistant_get_managed_config |-> HomeAssistant.config_object,
     home_assistant_set_managed_config |->
         HomeAssistant.set_config_object \o HomeAssistant.call_service,
     home_assistant_delete_managed_config |->
         HomeAssistant.delete_config_object \o HomeAssistant.call_service,
     home_assistant_reload_managed_config |-> HomeAssistant.call_service]

HomeAssistantPlan == EntityPlan @@ RegistryPlan @@ QueryPlan @@ ManagedConfigPlan

\* the button tools, whose rows ButtonRequests models, send the same way
TelegramPlan ==
    [telegram_health_check |-> Telegram.get_me,
     telegram_get_updates |-> Telegram.get_updates,
     telegram_set_commands |-> Telegram.set_my_commands] @@
    Alike({"telegram_send_message", "telegram_send_report"}, Telegram.send_message)

DbSteps == {"load", "store_get", "store_put", "clear_get", "clear_put"}
PageSteps == {"pages", "post_page"}
FileSteps == {"put", "move", "copy", "delete"}
WriteSteps == FileSteps \cup {"post", "object_post", "ensure", "mkcol", "write",
                             "set_state", "delete_state"}
Steps == DbSteps \cup PageSteps \cup WriteSteps
         \cup {"read", "probe", "get", "state", "absent", "exchange"}

Plan == FacebookPlan @@ TokenPlan @@ NextcloudPlan @@ DolibarrPlan
        @@ HomeAssistantPlan @@ TelegramPlan

\* the awaits of a tool that is given an access token: it need not resolve one
Direct ==
    [tool \in DOMAIN Plan |->
        SelectSeq(Plan[tool], LAMBDA step : step \notin {"load"} \cup PageSteps)]

ASSUME RemoteAssumption ==
    /\ UNION Families \subseteq DOMAIN Plan /\ Legacy \notin Issued
    /\ DefaultPage \in Page /\ None \notin Page \cup Path \cup Call \cup Issued
    /\ {MaxFaults, MaxReports} \subseteq Nat

ServiceOf(tool) ==
    CASE tool \in DOMAIN FacebookPlan -> "facebook"
      [] tool \in DOMAIN NextcloudPlan -> "nextcloud"
      [] tool \in DOMAIN DolibarrPlan -> "dolibarr"
      [] tool \in DOMAIN HomeAssistantPlan -> "home_assistant"
      [] tool \in DOMAIN TelegramPlan -> "telegram"
      [] tool \in DOMAIN TokenPlan -> "administration"

\* The answers after which the clients send a request a second time

\* Mutant: Telegram too sends again after a server error
TelegramRetriesErrors == {"too_many", "server_error"}

FacebookRetries == {"too_many", "server_error"}
TelegramRetries == {"too_many"}
NextcloudRetries == {}
DolibarrRetries == {}
HomeAssistantRetries == {}

RetriesOf == [facebook |-> FacebookRetries, telegram |-> TelegramRetries,
              nextcloud |-> NextcloudRetries, dolibarr |-> DolibarrRetries,
              home_assistant |-> HomeAssistantRetries]
Retries(tool) == RetriesOf[ServiceOf(tool)]

\* the Facebook tools without a parameter access_token
FixedToken == {"facebook_token_status", "facebook_get_capabilities",
               "facebook_get_recent_posts", "facebook_get_recent_comments",
               "facebook_get_community_inbox", "facebook_health_check"}

Attribute == {"state", "name", "access_token"}
Sensitive == {"access_token"}

\* the arguments: the page asked for or the page of the object, the page of
\* an explicit token; the paths; the attributes named
ObjectTools == {"facebook_get_post", "facebook_delete_post",
                "facebook_get_comments", "facebook_reply_comment",
                "facebook_hide_comment"}

Arguments(tool) ==
    IF ServiceOf(tool) = "facebook" THEN
        [page : IF tool \in ObjectTools THEN {None} ELSE Page \cup {None},
         object : IF tool \in ObjectTools THEN Page ELSE {None},
         explicit : IF tool \in FixedToken THEN {None} ELSE Page \cup {None}]
    ELSE IF ServiceOf(tool) = "nextcloud" THEN
        {a \in [path : Path, other : Path, overwrite : BOOLEAN] : a.path # a.other}
    ELSE [merge : BOOLEAN, named : {{"state"}, {"name"}, {}}]

-----------------------------------------------------------------------------
\* What is so of every plan

\* the k-th step from the end
Back(plan, k) == plan[Len(plan) + 1 - k]

\* who takes a step
Suits(step, tool) ==
    /\ step \in PageSteps => ServiceOf(tool) = "facebook"
    /\ step \in FileSteps => ServiceOf(tool) = "nextcloud"
    /\ step = "delete" => tool = "nextcloud_delete"
    /\ step \notin DbSteps \cup {"exchange"} => ServiceOf(tool) \in DOMAIN RetriesOf

\* after a write no token and no page is looked for, after clear_get nothing
\* is written
InOrder(plan) ==
    \A i, j \in DOMAIN plan : i < j =>
       /\ plan[i] \in WriteSteps => plan[j] \notin {"load", "pages"}
       /\ plan[i] = "clear_get" => plan[j] \notin WriteSteps

\* the step before one that needs it
Before(step, tool) ==
    [store_get |-> "exchange", store_put |-> "store_get",
     set_state |-> IF tool = "home_assistant_create_entity" THEN "absent"
                   ELSE "state"][step]

Dependent == {"store_get", "store_put", "set_state"}

Chained(plan, tool) ==
    \A i \in DOMAIN plan \ {1} :
       plan[i] \in Dependent => plan[i - 1] = Before(plan[i], tool)

\* the plan of a tool, and the one of its calls with an access token, which
\* do the same writes
PlansOf(tool) ==
    {Plan[tool]} \cup (IF ServiceOf(tool) = "facebook" THEN {Direct[tool]} ELSE {})

ASSUME PlanAssumption ==
    \A tool \in DOMAIN Plan : \A plan \in PlansOf(tool) :
       /\ plan \in Seq(Steps) /\ InOrder(plan) /\ Chained(plan, tool)
       /\ \A i \in DOMAIN plan : Suits(plan[i], tool)
       /\ plan # <<>> => plan[1] \notin Dependent
       /\ \A k \in DOMAIN Plan[tool] : Back(Plan[tool], k) \in WriteSteps =>
            k \in DOMAIN plan /\ Back(plan, k) = Back(Plan[tool], k)

\* the values of the attributes: at first, as reported, as redacted, as a call
\* set them
Entity == [Attribute -> {"first", "reported", "redacted", None} \cup Call]
Row == [token : Issued \cup {Legacy}, plain : BOOLEAN]

\* tool, arg and todo: what is called and the awaits left; again: the request
\* is sent a second time; resent: where one was after a server error; user: a
\* user token was found; token: the page of the token in use; page, listed:
\* the page resolved and those it was of; keep: the user token to store or
\* stored; existed: the row was there; seen, was: the entity read, and really
CallRecord ==
    [tool : DOMAIN Plan, arg : UNION {Arguments(tool) : tool \in DOMAIN Plan},
     todo : Seq(Steps), again : BOOLEAN, resent : SUBSET Nat, user : BOOLEAN,
     token : Page \cup {None}, page : Page \cup {None}, listed : SUBSET Page,
     keep : Issued \cup {Legacy, None}, existed : BOOLEAN,
     seen : Entity \cup {None}, was : Entity \cup {None},
     outcome : {None, "ok", "failure"}]

ASSUME NoneAssumption ==
    None \notin CallRecord \cup Row \cup Entity \cup {"ok", "failure", Legacy}

-----------------------------------------------------------------------------
\* Where a call is

Running(c) == calls[c] # None /\ calls[c].outcome = None
Step(c) == Head(calls[c].todo)
Left(c) == Len(calls[c].todo)
At(c, step) == Running(c) /\ calls[c].todo # <<>> /\ Step(c) = step

\* a call that returned keeps what the properties look at
Ended(k, outcome) ==
    [k EXCEPT !.outcome = outcome, !.again = FALSE, !.user = FALSE, !.token = None,
              !.page = None, !.existed = FALSE, !.seen = None, !.was = None]

\* the wrapper _..._action turns every exception into a failure
Failed(k) == Ended(k, "failure")

\* the call goes on with the record k, whose first step is over
Advanced(k) == LET rest == [k EXCEPT !.todo = Tail(k.todo), !.again = FALSE]
            IN IF rest.todo = <<>> THEN Ended(rest, "ok") ELSE rest

Becomes(c, k) == calls' = [calls EXCEPT ![c] = k]

Uses(plan) == family \cap DOMAIN plan # {}

Init ==
    /\ calls = [c \in Call |-> None] /\ family \in Families
    /\ row \in {None} \cup [token : {Legacy}, plain : {TRUE}]
                      \cup [token : Issued, plain : {FALSE}]
    /\ dropped = {}
    /\ folder \in BOOLEAN
    /\ files \in {f \in [Path -> {None} \cup Path] :
                    \A p \in Path : f[p] \in {None, p} /\ (f[p] = p => folder)}
    /\ entity \in {None, [a \in Attribute |-> "first"]}
    /\ ~Uses(TokenPlan) => row = None       \* what the family does not use
    /\ ~Uses(NextcloudPlan) => ~folder      \* is left empty
    /\ ~Uses(HomeAssistantPlan) => entity = None
    /\ effects = {} /\ faults = 0 /\ reports = 0

\* a tool is called; an explicit access_token saves its resolution
Begin(c) ==
    /\ calls[c] = None
    /\ \E tool \in family : \E arg \in Arguments(tool) :
         LET explicit == ServiceOf(tool) = "facebook" /\ arg.explicit # None
             todo == IF explicit THEN Direct[tool] ELSE Plan[tool]
         IN Becomes(c, [tool |-> tool, arg |-> arg, todo |-> todo,
                        again |-> FALSE, resent |-> {}, user |-> FALSE,
                        token |-> IF explicit THEN arg.explicit ELSE None,
                        page |-> IF explicit THEN DefaultPage ELSE None,
                        listed |-> {}, keep |-> None, existed |-> FALSE,
                        seen |-> None, was |-> None,
                        outcome |-> IF todo = <<>> THEN "ok" ELSE None])
    /\ UNCHANGED <<family, row, dropped, world, effects, faults, reports>>

-----------------------------------------------------------------------------
\* The Facebook user token

\* Mutant: every token read is written back
MigratesAll(stored) == stored # None

\* get_long_lived_token stores again, encrypted, a token kept in clear text
Migrates(stored) == stored # None /\ stored.plain

\* a usable token is stored or FACEBOOK_USER_ACCESS_TOKEN is set, or not
Load(c) ==
    /\ At(c, "load")
    /\ \E user \in BOOLEAN :
         LET k == [calls[c] EXCEPT !.user = user] IN
         Becomes(c, IF Migrates(row)
                    THEN [k EXCEPT !.keep = row.token,
                                   !.todo = <<"store_get", "store_put">> \o Tail(k.todo)]
                    ELSE Advanced(k))
    /\ UNCHANGED <<family, row, dropped, world, effects, faults, reports>>

\* the tokens Facebook gave already
Given == dropped \cup {calls[c].keep : c \in {d \in Call : calls[d] # None}}
         \cup (IF row = None THEN {} ELSE {row.token})

\* exchange_short_lived_token: Facebook issues a long-lived token, or refuses
Exchange(c) ==
    /\ At(c, "exchange")
    /\ \/ \E token \in Issued \ Given : Becomes(c, Advanced([calls[c] EXCEPT !.keep = token]))
       \/ Becomes(c, Failed(calls[c]))
    /\ UNCHANGED <<family, row, dropped, world, effects, faults, reports>>

StoreGet(c) ==
    /\ At(c, "store_get")
    /\ Becomes(c, Advanced([calls[c] EXCEPT !.existed = row # None]))
    /\ UNCHANGED <<family, row, dropped, world, effects, faults, reports>>

\* the tokens dropped when the row holds another one
DroppedBy(token) == IF row = None THEN {} ELSE ({row.token} \cap Issued) \ {token}

\* an UPDATE of a row that is gone and an INSERT of one that is there fail
StorePut(c) ==
    /\ At(c, "store_put")
    /\ IF calls[c].existed = (row # None)
       THEN /\ row' = [token |-> calls[c].keep, plain |-> FALSE]
            /\ dropped' = dropped \cup DroppedBy(calls[c].keep)
            /\ Becomes(c, Advanced(calls[c]))
       ELSE /\ Becomes(c, Failed(calls[c]))
            /\ UNCHANGED <<family, row, dropped>>
    /\ UNCHANGED <<family, world, effects, faults, reports>>

\* clear_token: a row that is gone already is as good as deleted
ClearGet(c) ==
    /\ At(c, "clear_get")
    /\ Becomes(c, IF row = None THEN Ended(calls[c], "ok") ELSE Advanced(calls[c]))
    /\ UNCHANGED <<family, row, dropped, world, effects, faults, reports>>

ClearPut(c) ==
    /\ At(c, "clear_put")
    /\ row' = None
    /\ dropped' = dropped \cup DroppedBy(None)
    /\ Becomes(c, Advanced(calls[c]))
    /\ UNCHANGED <<family, world, effects, faults, reports>>

-----------------------------------------------------------------------------
\* The page of a Facebook call

\* what /me/accounts may list, in its order
Listing == {s \in UNION {[1 .. n -> Page] : n \in 0 .. Cardinality(Page)} :
              \A i, j \in DOMAIN s : s[i] = s[j] => i = j}

Pages(listing) == {listing[i] : i \in DOMAIN listing}

\* _resolve_facebook_token: the page asked for, else the default, else the first
ResolvedPage(asked, listing) ==
    IF asked \in Pages(listing) THEN asked
    ELSE IF DefaultPage \in Pages(listing) THEN DefaultPage
    ELSE listing[1]

\* without a user token, the page token of the settings (or none)
ResolvePage(c) ==
    /\ At(c, "pages")
    /\ LET k == calls[c] IN
       IF ~k.user
       THEN \E token \in Page \cup {None} :
              Becomes(c, IF token = None THEN Failed(k)
                         ELSE Advanced([k EXCEPT !.token = token, !.page = DefaultPage]))
       ELSE \/ \E listing \in Listing \ {<<>>} :
                 LET page == ResolvedPage(k.arg.page, listing) IN
                 Becomes(c, Advanced([k EXCEPT !.token = page, !.page = page,
                                            !.listed = Pages(listing)]))
            \/ Becomes(c, Failed(k))     \* an error, or no page
    /\ UNCHANGED <<family, row, dropped, world, effects, faults, reports>>

\* _resolve_page_token_from_post_id: else the token resolved before stays
ResolvePostPage(c) ==
    /\ At(c, "post_page")
    /\ LET k == calls[c] IN
       \/ k.user /\ Becomes(c, Advanced([k EXCEPT !.token = k.arg.object]))
       \/ Becomes(c, Advanced(k))
       \/ k.user /\ Becomes(c, Failed(k))     \* a network error
    /\ UNCHANGED <<family, row, dropped, world, effects, faults, reports>>

\* Mutant: the page resolved comes before the page asked for
TargetResolved(k) ==
    IF k.arg.object # None THEN k.arg.object ELSE k.page

\* page_id or resolved_page_id; an object tool names the object only
Target(k) ==
    IF k.arg.object # None THEN k.arg.object
    ELSE IF k.arg.page # None THEN k.arg.page
    ELSE k.page

-----------------------------------------------------------------------------
\* The requests

\* Mutant: the sensitive attributes are left out, as in redact_facebook_data
RedactedAway(e) == IF e = None THEN None
                   ELSE [a \in Attribute \ Sensitive |-> e[a]]

\* redact_home_assistant_data
Redacted(e) == IF e = None THEN None
               ELSE [a \in Attribute |-> IF a \in Sensitive THEN "redacted" ELSE e[a]]

\* Mutant: PUT does not say If-None-Match
AdmitsAnyPut(c, step) ==
    LET arg == calls[c].arg IN
    /\ step = "put" => folder
    /\ step \in {"move", "copy"} =>
         files[arg.path] # None /\ (arg.overwrite \/ files[arg.other] = None)
    /\ step \in {"delete", "get"} => files[arg.path] # None
    /\ step \in {"mkcol", "ensure"} => ~folder
    /\ step \in {"state", "absent", "delete_state"} => entity # None
    /\ step \in {"post", "object_post"} => calls[c].token = Target(calls[c])

\* the server accepts: the preconditions the request carries hold (the header
\* If-None-Match of PUT, Overwrite of MOVE and COPY), what it names is there,
\* and the token is the one of the page
Admits(c, step) ==
    LET arg == calls[c].arg IN
    /\ step = "put" => folder /\ (arg.overwrite \/ files[arg.path] = None)
    /\ step \in {"move", "copy"} =>
         files[arg.path] # None /\ (arg.overwrite \/ files[arg.other] = None)
    /\ step \in {"delete", "get"} => files[arg.path] # None
    /\ step \in {"mkcol", "ensure"} => ~folder
    /\ step \in {"state", "absent", "delete_state"} => entity # None
    /\ step \in {"post", "object_post"} => calls[c].token = Target(calls[c])

\* Mutant: the attributes that are not named are lost
MergedNothing(c) ==
    LET k == calls[c] IN
    [a \in Attribute |->
        IF a \in k.arg.named \/ (a = "state" /\ k.seen = None) THEN c
        ELSE IF k.seen # None /\ a = "state" THEN k.seen[a] ELSE None]

\* the state home_assistant_create_entity and _update_entity send
Merged(c) ==
    LET k == calls[c] IN
    [a \in Attribute |->
        IF a \in k.arg.named \/ (a = "state" /\ k.seen = None) THEN c
        ELSE IF k.seen # None /\ (a = "state" \/ k.arg.merge) THEN k.seen[a]
        ELSE None]

\* what the server does
Served(c, step) ==
    LET arg == calls[c].arg IN
    /\ folder' = (folder \/ step \in {"mkcol", "ensure"})
    /\ files' = [p \in Path |->
           IF step \in {"copy", "move"} /\ p = arg.other THEN files[arg.path]
           ELSE IF step = "put" /\ p = arg.path THEN c
           ELSE IF step \in {"move", "delete"} /\ p = arg.path THEN None
           ELSE files[p]]
    /\ entity' = IF step = "set_state" THEN Merged(c)
                 ELSE IF step = "delete_state" THEN None ELSE entity
    /\ effects' = IF step \notin WriteSteps THEN effects ELSE
           LET same == {e \in effects : e.call = c /\ e.left = Left(c)} IN
           effects \cup {[call |-> c, left |-> Left(c), n |-> Cardinality(same) + 1,
                          page |-> IF step \in {"post", "object_post"}
                                   THEN Target(calls[c]) ELSE None]}

Again(c, answer) == ~calls[c].again /\ answer \in Retries(calls[c].tool)

\* ensure_folder passes over 405 and 409, create_entity over the 404 it hopes
\* for, get_capabilities and get_recent_comments over every error
Tolerates(step, answer) ==
    \/ step = "ensure" /\ answer = "refused"
    \/ step = "probe"
    \/ step = "absent" /\ answer = "refused"

Continues(step, answer) == Tolerates(step, answer) \/ (answer = "ok" /\ step # "absent")

\* the request reaches the server or not, the answer the client or not, and
\* the tool goes on to its next await
Request(c) ==
    /\ Running(c) /\ Step(c) \notin DbSteps \cup PageSteps \cup {"exchange"}
    /\ LET step == Step(c)
           read == IF step = "state" \/ step = "absent"
                   THEN [calls[c] EXCEPT !.was = entity,
                                         !.seen = IF step = "state" THEN Redacted(entity) ELSE None]
                   ELSE calls[c]
       IN \E answer \in {"ok", "refused", "too_many", "server_error", "lost"} :
          \E done \in BOOLEAN :
            /\ done => Admits(c, step)
            /\ answer = "ok" => done
            /\ answer = "refused" => ~Admits(c, step)
            /\ answer = "too_many" => ~done
            /\ faults' = faults + (IF answer \in {"ok", "refused"} THEN 0 ELSE 1)
            /\ faults' <= MaxFaults
            /\ IF done THEN Served(c, step) ELSE UNCHANGED <<world, effects>>
            /\ Becomes(c, IF Continues(step, answer) THEN Advanced(read)
                          ELSE IF Again(c, answer)
                          THEN [read EXCEPT !.again = TRUE, !.resent =
                                    IF answer = "server_error" THEN @ \cup {Left(c)} ELSE @]
                          ELSE Failed(read))
    /\ UNCHANGED <<family, row, dropped, reports>>

\* the device behind the entity reports a state
Report ==
    /\ reports < MaxReports /\ Uses(HomeAssistantPlan)
    /\ reports' = reports + 1
    /\ entity' = [a \in Attribute |-> IF a = "state" \/ entity = None
                                      THEN "reported" ELSE entity[a]]
    /\ UNCHANGED <<calls, family, row, dropped, folder, files, effects, faults>>

Next ==
    \/ \E c \in Call : \/ Begin(c) \/ Load(c) \/ Exchange(c) \/ StoreGet(c)
                       \/ StorePut(c) \/ ClearGet(c) \/ ClearPut(c)
                       \/ ResolvePage(c) \/ ResolvePostPage(c) \/ Request(c)
    \/ Report

Spec == Init /\ [][Next]_vars

-----------------------------------------------------------------------------
\* Properties

\* Everything has its type; a call that returned is at its end or failed.
TypeOK ==
    /\ family \in Families /\ calls \in [Call -> CallRecord \cup {None}]
    /\ \A c \in Call : calls[c] # None =>
         /\ calls[c].tool \in family /\ calls[c].arg \in Arguments(calls[c].tool)
         /\ calls[c].todo = <<>> => calls[c].outcome = "ok"
    /\ row \in Row \cup {None}
    /\ dropped \subseteq Issued
    /\ folder \in BOOLEAN /\ files \in [Path -> Path \cup Call \cup {None}]
    /\ entity \in Entity \cup {None}
    /\ faults \in 0 .. MaxFaults /\ reports \in 0 .. MaxReports

\* A tool that answers success has done every one of its writes (a folder of
\* ensure_folder may have been there), and no write is done twice, except one
\* of Facebook that was answered by a server error and sent again.
WrittenAsAnswered ==
    /\ \A e \in effects : e.n > 1 =>
         /\ e.n = 2 /\ ServiceOf(calls[e.call].tool) = "facebook"
         /\ e.left \in calls[e.call].resent
    /\ \A c \in Call : calls[c] # None /\ calls[c].outcome = "ok" =>
         LET plan == Plan[calls[c].tool] IN
         \A i \in DOMAIN plan : plan[i] \in WriteSteps \ {"ensure"} =>
             \E e \in effects : e.call = c /\ e.left = Len(plan) + 1 - i

\* A post lands on the page asked for, or on the page of the object, and
\* without either on the default page unless Facebook does not list it.
PostedWhereMeant ==
    \A e \in effects : e.page # None =>
        LET k == calls[e.call] IN
        IF k.arg.object # None THEN e.page = k.arg.object
        ELSE IF k.arg.page # None THEN e.page = k.arg.page
        ELSE e.page = DefaultPage \/ DefaultPage \notin k.listed

\* A user token that was cleared or replaced does not come back, whatever
\* readers of the row, exchanges and clearings overlap (a token kept in clear
\* text, which a reader stores again, may).
DroppedTokenStaysGone == row # None => row.token \notin dropped

Contents == {files[p] : p \in Path} \ {None}

\* A content disappears from Nextcloud by nextcloud_delete or by a call that
\* asked to overwrite only.
ContentKept ==
    \A v \in Contents : v \notin Contents' =>
        \E c \in Call : /\ calls'[c] # calls[c]
                        /\ \/ calls[c].tool = "nextcloud_delete"
                           \/ calls[c].arg.overwrite

SetsEntity(c) == At(c, "set_state") /\ calls'[c] # calls[c] /\ entity' # entity

\* If the entity is what it was when the tool read it, create_entity replaces
\* nothing and a merging update_entity keeps every attribute it does not
\* name; a sensitive one it writes back as it read it, redacted.
EntityMerged ==
    \A c \in Call : SetsEntity(c) /\ entity = calls[c].was =>
        IF calls[c].tool = "home_assistant_create_entity" THEN entity = None
        ELSE \A a \in Attribute \ calls[c].arg.named :
               calls[c].arg.merge \/ a = "state" =>
                 entity'[a] = (IF a \in Sensitive THEN "redacted" ELSE entity[a])

\* No call replaces what its caller did not ask it to: not a file another call
\* has just put at the same path, nor an attribute of an entity, unless the
\* entity changed between the read and the write of the tool.
NothingReplacedUnasked == [][ContentKept /\ EntityMerged]_vars
=============================================================================
