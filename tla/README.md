# TLA+ models and proofs of the mail MCP server

The program is a FastAPI process that gives an MCP client (an assistant) access to
mail accounts, files and a few third-party services. It is its own OAuth 2.1
authorization server, and asks its operator for decisions through Telegram buttons.
Everything runs in one asyncio event loop over one database (SQLite by default), so
what can go wrong is what happens between two `await`s, between two commits, and when
the process ends in between.

Paths are relative to `src/app/` unless they end in `.md`.

## 1. The system

| Component | State | Operations | Talks to |
|---|---|---|---|
| OAuth server (`oauth.py`, two handlers of `routers/admin.py`) | tables `oauth_clients`, `oauth_authorization_codes`, `oauth_sessions`, `oauth_refresh_tokens`, `oauth_revoked_tokens`, `audit_logs`; the consent form is a signed value in the browser | consent, code exchange, refresh with rotation and reuse detection, revocation by client and by administrator, access-token validation | the browser, OAuth clients, `authenticate_mcp` |
| OAuth login and limiter (`oauth.py`, `auth.py`) | `failed_login_count`, `locked_until`, in-memory buckets | login, rate limit | the browser |
| Telegram buttons (`telegram_bot.py`, `services/telegram.py`, the `telegram_*` tools) | table `telegram_requests`, the poller's offset in memory, the updates Telegram keeps | ask a card, mark it delivered, poll, handle a press, perform the invoice action | Telegram, temporary files, Nextcloud, Dolibarr |
| Temporary files and images (`temp_files.py`, `temp_media.py`, `main.py`) | directories with `payload` and `metadata.json`; upload directory | store, resolve, delete, purge | mail tools store, upload tools consume |
| Mail accounts (`services/accounts.py`) | table `mail_accounts` with `is_default`, `enabled` | create, update, delete, set_default, get | admin API, mail tools |
| Mail service and draft tools (`services/mail.py`, `mcp_server.py`) | none here; mailboxes on the IMAP server | send, append, move, drafts, with timeouts around threads | IMAP and SMTP servers |
| MCP authentication and permissions (`auth.py`, `middleware.py`, `security.py`, `mcp_server.py`) | `api_keys`, the limiter | authenticate, authorise a tool, log the operation | OAuth server |
| Facebook token manager (`services/facebook_token_manager.py`) | one settings row | exchange, load, migrate, clear | Facebook |
| Clients of Facebook, Nextcloud, Dolibarr, Home Assistant, Telegram (`services/`), and their tools | none here; the other servers' | one to three requests per tool, retries, page resolution, read-modify-write | external |
| Documents and invoices, configuration, front end | none of their own | parsing, presentation | temporary files |

What each must guarantee, and what makes it hard:

* **OAuth.** Codes and refresh tokens are for a single use, a grant never exceeds the
  consent, revocation is immediate, everything handed out is audited. Hard because each
  handler reads rows, awaits, and writes columns without comparing them again.
* **Login.** After so many failures the account is locked. Hard: the counter is
  read, incremented in Python and committed.
* **Telegram.** A press is carried out once, its answer is final, no press is lost over
  a restart. Hard: at-least-once delivery, three commits and two remote calls per press.
* **Temporary files.** What a resolve returned stays until it was used; expired files go
  away. Hard: several consumers, two clocks (directory and payload mtime), a purge.
* **Accounts.** At most one default account, not lost by accident. Hard: overlapping
  writers whose rows are stale.
* **Mail.** A draft is sent once, no message is lost, only what was named is expunged.
  Hard: several remote steps, timeouts that leave the thread running.
* **Permissions.** No tool runs without the permission its table entry names, whatever runs
  beside it, and what it did leaves a trace.
* **Other services.** Success means done, once; a failure is not followed by a silent
  repetition; what another call wrote is not replaced; a post lands on the page meant; a
  token that was cleared does not come back.

PROJECT.json lists every hazard at its line, with the properties that cover it.

## 2. Modules

| Module | Models | Checked by | Proved in |
|---|---|---|---|
| `OAuthToken` | `oauth.py` 137-198, 381-509, 565-937; `routers/admin.py` 662-681, 710-725 | `MCOAuthToken` with four cfgs | `OAuthTokenProofs`, `OAuthSequentialProofs` |
| `GrantLifecycle` | the abstract promise of a grant; `OAuthToken` refines it when requests do not overlap | through `OAuthToken!ImplementsLifecycle` | `GrantLifecycleProofs` |
| `ButtonRequests` | `telegram_bot.py` 212-244, 296-378, 424-452, the two tools that ask, the diagnostic tool | `MCButtonRequests` with two cfgs | `ButtonRequestsProofs` |
| `Permissions` | `TOOL_PERMISSIONS`, `SENSITIVE` (`mcp_server.py` 74-256), `require_permission` (`security.py` 120-151) | through `Access` and `MailTools` | |
| `MailAccounts` | `services/accounts.py` | through `Access` | `AccessProofs` |
| `Access` | `middleware.py` 85-226, `auth.py`, `oauth_login`, the admin login, account and key routes, `execute` and the wrappers | `MCAccess` | `AccessProofs` |
| `MailTools` | the mail tools (`mcp_server.py` 1475-2331) over `services/mail.py` | `MCMailTools` with two cfgs | `MailToolsProofs` |
| `TempFiles` | `temp_files.py`, `temp_media.py`, their purge in `main.py`, the tools and endpoints that use a file | `MCTempFiles` with two cfgs | `TempFilesProofs` |
| `RemoteServices` | the Facebook, Nextcloud, Dolibarr, Home Assistant and Telegram tools (`mcp_server.py` 338-1432, 2346-2988), their clients, `facebook_token_manager.py` | `MCRemoteServices` | `RemoteServicesProofs` |

`Access` and `MailTools` both extend `Permissions`: the first asks who may call what, the
second runs with one token and asks what the tools do. `MailAccounts` has the transactions
as functions of the table, and `Access` interleaves them with everything else a request does.

### OAuthToken

Each table is a function from a pool of row identifiers; a row that does not exist yet
has NULL in its first column (`FreshCode`, `FreshSession`, ...). `reqs` holds one
coroutine per request in flight: `kind` is the handler, `pc` the place where it waits,
and the other fields are what it read earlier and still uses.

An action is the code between two `await`s that reach the database. A handler such as
the refresh grant is `SubmitRefresh`, `ClientAuth`, `ReadToken`, `ReadSession`,
`CommitRefresh` (or `CommitReuse`), `Audit`, `RespondTokens`; anything may happen between
two of them, including `Abandon` (an exception, a lost reply, the end of the process).
Reads see the latest commit; writes become visible at the commit and change only the
columns the handler assigned (`NarrowScopes` writes scopes only when they differ from
those read, as the ORM does). The revocations issue an UPDATE or a second SELECT before
they commit; SQLite's write lock is held from there, so each is one step.

Abstractions: a client, code, token or jti is a model value; hashing, PKCE, redirect URI,
resource and client secret are `proof`, which says whether they are right; a public
client is one whose secret is always right; the user is active and logged in;
`last_used_at`, IP and user agent are left out; of the audit log the rows about what is
handed out are kept, those about denials and revocations only take their step; time is a counter, `Tick` may happen
between any two steps. `family` names a family by its first token (the code draws a
random `family_id`). History, read by no guard: `sessions[s].code` (the exchange
that made it) and `late` (the request presented something already dead when it began).

### GrantLifecycle

Codes are fresh, then spent; a session is live, then revoked; a token is usable until it
is rotated or its session revoked. Four actions. `OAuthToken` maps `usable` to the tokens
neither used nor revoked of a session that is not revoked.

### ButtonRequests

`rows` is `telegram_requests`; `calls` the tool calls that ask; `updates` and `confirmed`
what Telegram keeps; `poller` the one coroutine that handles updates one after another,
with its in-memory offset; `files` the private files that still exist. A press goes
through `Take` (the commit of the answer), `Ack`, `Act`, `Transfer`, `StoreOutcome`,
`EditMessage`, each with its failure. `Restart` drops the offset and every coroutine;
Telegram then delivers again what was not confirmed. `Press` and `Confirmed` are external:
they model Telegram as this code uses it. History: `transfers` counts what
reached the destination, `excused` marks presses the operator saw refused or the
diagnostic tool took. Menus, text commands and the client's rate limiter change no stored
state and are left out.

### Permissions, MailAccounts, Access

`Permissions` is the table in force, grouped by scope, and `Permitted`, which is
`require_permission` with the three switches. In `MailAccounts` an operation of
`AccountRepository` is a read (`Found`) and a transaction (`Created`, `Updated`, `Deleted`,
`MadeDefault`) given the row as it was read, which may be stale: the ORM sends only the
columns that differ from it (`Flushed`).

In `Access` a request is used once and goes from `Arrive` (the limiters, the CSRF cookie)
through one of four ways: a login (`LoginRead`, `LoginCommit`), an administration login or
logout, an MCP call (`Authenticate`, `Stamp` of a database key, `Boundary`, `Call`, `Work` or
`Raise`, `Log` or `LogFails`), or a change of accounts or keys (`Get`, `Commit` or
`CommitKey`, `AdminLog`). The code between two awaits is one action. A tool's work is one
effect here; `MailTools` and `RemoteServices` open it. `PermissionsOf` is
`authenticate_mcp` as a function of the credential; the validation of an OAuth token is
`OAuthToken`'s. That a context variable set in the middleware is what the tool reads is an
assumption about the MCP library, stated by `Context`. `Executed` is a tool of
the mail groups that runs under `execute`; the five that open a private file
(`PrivateFileTool`, `mcp_server.py` 2238-2314) check the permission themselves, load no
account and write no row. History: `admitted`, `performed`, `guesses`.

### MailTools

A tool is a plan (`FolderPlan` ... `AttachmentPlan`): the exchanges it awaits, in order.
`Start` is `execute` up to the first await, `Resume` the coroutine going on with a reply or
an exception, `Timeout` `wait_for` giving up. An exchange is a job of its own, since the
thread goes on when nobody waits for it any more: `List`, `Fetch`, `Search`, `Flags`,
`Transfer`, `Mark` then `Expunge`, `Smtp`, `AppendMessage`, `FolderAction`, or `Break`. The
server keeps mailboxes, messages with UIDs and the flag `\Deleted`; a mailbox name is a
sequence of tokens, so that `canonical_mailbox` (`Canonical`: exact, else the last
component, else a suffix, else ambiguous) is what the code computes. The text of messages,
searches and the other flags are left out; so are the reads of attachments that
`forward_email` repeats when it is asked for them. A call that failed for its client may have
had its effect, before or after the failure was reported.

`Wiped` is what `_permanent_delete_sync` removes. For a list of UIDs that is a UID EXPUNGE.
For an empty one, which `delete_emails_permanently` lets through, imapclient sends no STORE
and a plain EXPUNGE: every message of the mailbox that is flagged `\Deleted` goes, although
the error of `services/mail.py` 552 says that a mailbox-wide EXPUNGE is refused.
`ExpungeOnlyNamed` names this one exception.

### TempFiles

`disk` maps each token to its directory: the mtimes of content and directory, whether
the content is complete, whether `metadata.json` is there and complete. A store, a deletion
and a purge have no await inside, so they interleave with a kill only, and `CrashMidway` is
that kill: in a store (`CrashStoring` leaves a state of `Begun`), in the purge of a start or of
the task (`CrashPurging`), in the deletion of a file that a resolve found too old
(`CrashResolving`) and in that of a consumed one (`CrashConsuming`). A deletion unlinks one
file after the other, in any order, so that `Remains` is the directory untouched, gone, or
with any part of its files. `Begin` is a use that resolves,
`Open` the later opening of the path by those that hold one across an await, `Answered`
the remote service's answer and what is consumed after it; a use that failed may be tried
again. What a kill of the machine leaves of unsynced writes is not modelled. History: `given`
(what resolve returned last) and `transferred`. `PurgeTask` is the body of
`purge_uploads`: one pass, two sleeps, the end.

### RemoteServices

Each client method and each tool is a sequence of steps; a step is one HTTP request or one
access to the row of the Facebook token. `Request` lets a request reach the server or not
and its answer be ok, refused, too many, a server error or lost, and sends it again as the
client does (`Again`): Facebook after 429 and 5xx, Telegram after 429, the others never.
`Served` is what the server does (external), for the parts a property looks at: one
Nextcloud folder with two paths, one Home Assistant entity with a state, a name and a
sensitive attribute, the pages posts land on; the rest is `read` or `write`. `ResolvePage`
and `ResolvePostPage` choose the token, `Target` the page, separately, as the tools do.
`Load`, `StoreGet`, `StorePut`, `ClearGet`, `ClearPut`, `Exchange` are the token manager;
a `Load` that finds a clear-text token puts two more steps in front of its call. The calls
of a behaviour are tools of one family, since services share no state. `effects`, `dropped`,
`was`, `listed` and `resent` are history.

## 3. Runs

| Run | Instance | Shows |
|---|---|---|
| `oauth_seq` (1.0 M states) | one request at a time, two clients (one without `offline_access`), 1 code, 2 sessions, 3 tokens, 1 jti, right and wrong secrets and verifiers, clock 0..1 | `CodeSingleUse`, `SingleUsableToken`, `RevokedClientHasNoLiveSession`, `NoSlidingExpiry`, `ScopesNeverWiden`, and refinement of `GrantLifecycle` |
| `oauth_overlap` (1.0 M) | two overlapping requests, one client, 1 code, 2 sessions, 2 tokens, 1 jti, clock 0 | `TypeOK`, `SpentBuysNothing`, `ScopesWithinConsent`, `HandedOutIsAudited`, `FamilyDiesWithSession`, `RowsAreFinal` |
| `oauth_code_race` | as above | **violated**: an authorization code buys two sessions |
| `oauth_client_race` | as above | **violated**: a revoked client keeps a live session |
| `telegram_buttons` (0.4 M) | two cards about one file, one of them consuming it; 2 presses, 1 restart | `TransferAtMostOnce`, `CompletedIsDone`, `PressNotForgotten`, `AnswerIsFinal`, `UpdatesConfirmed`, `TypeOK` |
| `telegram_stuck` | one card, one press, no restart | **violated**: a press that could not be acknowledged is never carried out |
| `mail` (0.29 M) | two calls of 21 requests that cover every plan, 5 mailbox names of which two end alike, 3 messages | `NoMessageLost`, `DraftKept`, `ExpungeOnlyNamed`, `SentTwiceOnlyAfterFailure`, `EveryCallReturns`, `TypeOK` |
| `mail_expunge_switch` | the draft tools and delete_mailbox, the switch off | **violated**: messages are removed for good |
| `temp_files` (0.7 M) | one private file, one image, two uses at a time, TTL of 1 tick, clock 0..3, two kills | `GivenWholeAndFresh`, `KeptUntilTransferred`, `NothingOldSurvivesABoot`, `TypeOK` |
| `temp_purge` | one private file, TTL of 2 ticks, clock 0..6, no kill | **violated**: a file that expires after the only pass stays |
| `access` (1.2 M) | three requests (one of them a wrong login), two addresses, two accounts, one key, limit 2 in a window of 1, lock after 2 for 2 ticks, clock 0..2 | `RateBound`, `LockFollowsFailures`, `EffectsAreGranted`, `EffectsAreLogged`, `AtMostOneDefault`, `DefaultKept`, `TypeOK` |
| `remote` (1.2 M) | two calls of one of five families (one tool for each plan), 2 pages, 2 paths, 2 issued tokens and an old one, 2 faults, one report of the device | `WrittenAsAnswered`, `PostedWhereMeant`, `DroppedTokenStaysGone`, `NothingReplacedUnasked`, `TypeOK` |

The two OAuth instances split the properties by what the code can promise. The first
group holds when requests are served one at a time and is broken by an overlap; the
second holds for every overlap. The two violations are overlaps that break a promise
OAUTH.md makes (single use, immediate revocation). `SingleUsableToken` and
`ScopesNeverWiden` fail under overlap for the same reason (oauth.py:828-829): two
refreshes of one token leave two usable tokens, and the later write may widen scopes that
the other narrowed.

Bounds. The pools end a behaviour's supply of rows, not a handler: a handler that finds
no fresh row waits or is abandoned. Two sessions are what a doubly used code needs; three
tokens give two rotations and then reuse of the first; two requests are what every race
listed needs, since each is one stale read and one commit. There is one form and one
code, because grants are independent rows: nothing of one is read for another except
through the client. The pool of access tokens does not hold back a reply: each behaviour
follows one access token (`j1`), any of those issued. `MaxTime = 1`
with `CodeTTL = 1`, `SessionTTL = 2` lets codes, forms and access tokens expire;
`ExpiryIsFixed` and `GrantsAreConsented` do not depend on the bound. For Telegram, two
presses are a press and its repetition (on one card) or two cards that compete for the
file; one restart at every point is a redelivery at every point. Identifiers in pools are
interchangeable, hence SYMMETRY in the OAuth instances (safety properties only).

For the tools, two calls are what every race listed needs (one stale read and one write) and
are also a call and its retry. The requests of `MCMailTools` take the interesting tool of
each plan on the same three messages, so that calls collide; the two names ending in
`Drafts` make resolution change under a call. Tools left out of `MCFamilies` have the same
steps as one that is in. Two faults lose an answer and its retry's. A window of one tick is
enough for `RateBound`, since times count only by their distance to the window; two attempts
and three logins pass the threshold, a lock of two ticks is longer than the window. In
`TempFiles` a tick is five minutes; a TTL of one tick and a slow disk of one tick put the
two mtimes on both sides of the limit; one kill at every point, followed by a start and by a
second expiry, is what the purge has to undo, and a second one can cut that purge short. In `TempPurge` the clock goes past the TTL
after the last step of the task, which is when the file should have gone.

Deadlock checking is left on in the OAuth, Telegram and mail runs (in `MailTools`, `Finished`
is the end of a behaviour). It is off in `temp_files`, `temp_purge`, `access` and `remote`,
whose requests are used once and whose clock ends: they really stop. In the OAuth runs a
request can always be submitted or abandoned; in the Telegram runs the poller always has a
step.

Fairness. The OAuth server has none: nobody must send a request and a reply may
be lost, so nothing is promised to happen. In `ButtonRequests` weak fairness is on
`PollerStep` only: the poller's loop never ends before the process does, every request has
an HTTP timeout (`services/telegram.py` 81-108), and an error is followed by a sleep
and another attempt (telegram_bot.py:441-444). Failures, presses, tool calls and restarts
are not fair. `UpdatesConfirmed` holds since handling an update never blocks or repeats the
batch; `ActionIsPerformed` fails since a failed acknowledgement leaves the handler.

In `MailTools` weak fairness is on `Resume` and `Timeout` of each call (the event loop runs
what is ready, `wait_for` has a timer: `services/mail.py` 256-259 and 646-650) and on no
exchange: a server need never answer, and `EveryCallReturns` holds all the same. In
`TempFiles` it is on `Tick`, `PurgeTask` (the event loop) and `Boot` (PM2 starts the server
again: `autorestart` in `ecosystem.config.js`, which gives up only after ten restarts in a
row); `ExpiredIsPurged` fails under it. `Access` and `RemoteServices` state no fairness and
no liveness.

Each property comes with a mutant of the model (defined just before the operator it
replaces, marked `Mutant:`) that TLC finds to violate it.

## 4. Proofs

The proofs about `OAuthToken` hold for any number of requests, clients, rows and ticks; they assume
`ConstantsAssumption` only (identifier pools are disjoint from each other where a value
is told apart by its pool, lifetimes are naturals).

The inductive invariant `IInv` (`OAuthTokenProofs`) is `TypeOK` and

* *rows*: a session's code exists, has the same client, and consented to at least the
  session's scopes; a token's session exists and expires when the token does; an access
  token's session exists and its scopes are within that session's code (`FormOK`,
  `CodesOK`, `SessionsOK`, `TokensOK`, `HeldOK`, `AccessOK`);
* *coroutines* (`Fits`): what a handler read agrees with the columns that never change, so
  it cannot be stale: the session of its token, the client and code of its session; and
  the scopes it is about to write are within the consent.

`ScopesWithinConsent` alone is not inductive: a refresh writes scopes it compared with
`session.scopes` several steps earlier. They may be wider than what is stored by then,
but the consent is in the code's row, which never changes, so comparing with a stale
`session.scopes` is still enough. That is why the code is safe here although
`ScopesNeverWiden` is not.

The argument has two halves. `Grows` says what no step does to an existing row; `FitsStable`
shows that a coroutine keeps fitting while the tables grow, so each action needs to be
looked at only for the coroutine that takes it (`LocalIsEnough`, `TablesStep`, `LocalStep`).
One lemma per action follows, then `Inductive` and `Invariance`.

More invariants are inductive together with `IInv`:

* `Fam` (`OAuthTokenProofs`): a family is named by its first token and lies in that
  token's session; a row that does not exist is in no family; a revoked token's session is
  revoked. `FamilyDiesWithSession` compares two tokens of one family and is not inductive
  without them: a rotation copies the family of a row read several steps earlier.
* `AllLate` (`OAuthTokenProofs`): a request that presents something dead is still on its
  way to the check that refuses it, and what that check will read stays dead
  (`LateStable`, which rests on `SpendStep`), or it is a refresh recognised as a reuse.
  This is what the order of the checks is for: the client is read first, then the code or
  token, then the session, each in a SELECT of its own.
* `AllBacked /\ Trail` (`OAuthTokenProofs`): every row handed out has the event of its own
  commit and that of its session in `audit`, and a coroutine on its way to a reply knows
  which events will be there. A rotated token needs its predecessor's trail: it hands on the
  session of a token that was itself handed out.

What the code promises only when requests do not overlap is proved in
`OAuthSequentialProofs` under `OneAtATime`: one coroutine, any number of requests one after
another, abandoned or served. `OAuthCodeRace.cfg` and `OAuthClientRace.cfg` show that the
assumption cannot go. `OneInv` adds to `IInv` and `Fam` that a session has spent its code, and
that what a coroutine found in its checks (`Current`) is still so at its commit: the client is
not revoked, the code not spent, the token as it was read, the session's scopes no narrower
than those it writes. `Implementation` goes through the steps with the mapping of
`OAuthToken` (`GrantCode`, `GrantSession`, `GrantOwner`, `GrantUsable`): each commit is one
action of `GrantLifecycle`, every other step a stutter.

### Telegram cards (`ButtonRequestsProofs`)

For any number of cards, files, presses and restarts, from `ConstantsAssumption` of
`ButtonRequests`. None of the promises is inductive: whether a second transfer can happen
depends on where the poller is. `Inv` follows one update through it. A card that was never
asked has neither row nor button (`CallOK`), and only asked cards are pressed (`UpdateOK`);
until it is taken a card has no answer and has moved no file (`FreshOK`); the poller's place
lies within the batch (`BatchOK`); what it works on was taken, has the answer in hand, and
has moved nothing before the transfer and one file after it (`WorkOK`); whatever lies behind
it, and so whatever the next poll confirms, is answered or excused (`SeenOK`). A restart
throws away the place, which only weakens `WorkOK` and `SeenOK`.

### Temporary files (`TempFilesProofs`)

For any number of files and uses, any time to live and any number of kills, from
`TempAssumption`. `TypeOK` carries the argument about kills: it lists the shapes a directory
can be left in. `metadata.json` may be left alone, by a deletion cut between its two
unlinks, and a payload too, but where there are both the payload is whole: a store writes
`metadata.json` last, and a deletion takes each file whole (`Begun` and `Remains` give sound
directories: `BegunIsSound`, `RemainsAreSound`; `CutShort` says so of every kill). `RequestOK` says
what a use under way may hold, `BootOK` that the last start is not in the future. Resolving
compares the mtime of the content and the purge that of the directory; the first is what
`ResolveIsSound` needs, the second what `BootLeavesNothingOld` needs, and no theorem relies
on the two being equal.

### Access and accounts (`AccessProofs`)

For any requests, credentials, accounts and limits, from `AccessAssumption` (no two
defaults to begin with), `AskAssumption` (what a request of each kind may ask: its
payload is validated, a tool writes accounts by `set_default` only; an address is not a
login's key of the limiter, which has a prefix) and `SensitiveAreLogged`, a fact of the two
tables of the source, which TLC evaluates: every tool in `SENSITIVE` runs under `execute` or
the Home Assistant wrapper. `Sound` says what a request carries
from one await to the next: the permissions are those its own credential had when it was
authenticated, and past the check they allow the tool. That is the content of
`OnlyGrantedEffects`: the permissions live in a context variable of the request, so neither
another request nor a key removed meanwhile changes them. `TablesOK` has the accounts. `LockInv`
says, as long as no two logins overlapped, that the counter equals the failures in a row, that
the lock runs from the last of them, and that a login waiting for its commit holds the row
as it still is.

`RateBound` counts a history the limiter does not keep. `RatesOK` relates the two: a bucket is
the end of the history of its key, and what is missing from it is older than the window
(`Follows`). An admission finds fewer entries than the limit in its bucket, and any window that
has the time of the admission in it counts only those and the new one (`AppendBounded`).
That what the loop of `allow` leaves is such an end (`TrimmedIsEnd`) rests on a set of numbers having
a least one (`Least`). `TraceOK` says that a request whose tool had its effect is at its log or
over, and has its rows when it is over and logged; `UserOK` that the rows logins carry have the
type of the row they write.
`EveryFailureCounts` assumes `LoginAttempts > 0`: with 0 the limiter lets no
login through and there is nothing to count.

### Mail tools (`MailToolsProofs`)

For any mailboxes, messages, calls and requests, from `RequestAssumption` and
`MailboxAssumption`. The first says what clients ask for: tools that have a plan; one UID for
each tool that deletes, whose parameter it is, but for `delete_emails_permanently`, which takes
a list; and names of new mailboxes among those of the model
(`SpecialUse`). The second says what a server has to begin with: finitely many
distinct messages, and in each mailbox UIDs from 1 on, none of them twice.

An exchange outlives the
call that gave it up, so the invariant ties the two: `JobOK` says that an exchange that
deletes belongs to a tool that deletes, `AppendOK` that a call's message is stored, under
way to the server, or still ahead in the plan, and only one of the three. That needs a fact
about every plan (`PlansOK`: at most one append, and a deletion only in tools that delete)
and that what is left of a plan after an exchange, or after a tolerated failure, keeps it
(`RestOfPlan`). Without `AppendOK` an abandoned append and a later one of the same call
could store a message twice. `MailOK` follows every message to the mailbox, the expunge or
the deleted mailbox it is in.

`InStep` gives every call and every exchange its place in the plan of its tool: what a tool
relies on depends on what it has already done. `MailboxesOK` says that no mailbox gives a UID
twice. `DraftsAreKept` rests on both (`DraftsOK`): a tool that replaces a draft marks the old one
after the new one is stored, and the UID it marks is still the one it read, as long as no
mailbox was reshaped; `ReplyOK` says what the reply that carries the UID stands for.

`DraftsAreSentOnce` is about two calls and needs time: while calls came one after another and
only the draft tools were called (`Quiet`), one call at a time is pending (`Sequential`), the
draft a call read is where that call looks for it or gone, and no other call that has not
failed has read the same (`OneSender`, `Only`). A `send_draft` that succeeded has expunged what
it sent (`Gone`), so a later one does not find it; one that failed may have sent it, and the
property excepts it.

### Remote services (`RemoteServicesProofs`)

For any calls, pages, paths and tokens and any number of faults and reports, from three
assumptions. `RemoteAssumption` says that the default page is a page, that no old token is one
Facebook issues, and what is a number. `NoneAssumption` says that `None` is no value. `PlanAssumption` is no
assumption about the code but a fact of the table `Plan`, which is closed: TLC evaluates it for
all the tools on every run. It is stated because the provers cannot evaluate `@@` and
`SelectSeq`. It says which tools take which steps (`Suits`), that nothing looks for a token or a
page after a write (`InOrder`), that what writes an entity or stores a token follows the step
that reads it (`Chained`), and that a call with an explicit token has the same writes at the
same distance from its end.

One lemma per action says what becomes of the record of its call (`LoadMoves`, ...,
`RequestMoves`): it goes forward, stops, repeats its request, or migrates a token (`Moves`). The rest of
the argument is about these four. `WorkInv` is the inductive invariant.

* `TodoInv`: what a call has left to do still has the facts of `PlanAssumption`
  (`FitsForward`, `FitsStoring`).
* `TokenInv`: a call about to store a token Facebook issued is the only one that has it, and
  the row does not hold it (`Alone`). That is why the row cannot get a dropped token back. A reader
  that migrates may store a token that is gone, but the clear-text one only.
* `DoneInv`, `OnceInv`, `WriteInv`: an effect lies behind its call, or at its place if the
  request is being sent again; then it is alone there and was answered by a server error, which
  `Here` and `Retried` say; and a write of the plan is ahead or has its effect. The last is
  why a tool may not answer success early: the only end before the last step is that of
  `clear_token` without a row.
* `PostInv`: a call that names no page holds the default one or was not offered it. What
  an earlier post relied on (`listed`) is not asked again, since `pages` is never after a post.
* `EntityInv`: a call about to set the state of an entity found none (`create_entity`), or
  holds a redacted copy of what it found (`update_entity`), also when it repeats a request.

`NothingIsReplacedUnasked` follows for each step from `EntityInv`, `TodoInv` (only
`nextcloud_delete` deletes) and the preconditions the requests carry (`Admits`).

| Theorem | States |
|---|---|
| `TypeCorrect` | `Spec => []TypeOK` |
| `GrantsAreConsented` | `Spec => []ScopesWithinConsent` |
| `ExpiryIsFixed` | `Spec => []NoSlidingExpiry`, also under overlap, where the runs check it for one request at a time |
| `SpentStaysSpent` | `Spec => RowsAreFinal` |
| `FamilyDies` (`OAuthTokenProofs`) | `Spec => []FamilyDiesWithSession` |
| `DeadGrantsAreRefused` (`OAuthTokenProofs`) | `Spec => []SpentBuysNothing` |
| `RepliesAreAudited` (`OAuthTokenProofs`) | `Spec => []HandedOutIsAudited` |
| `OneSessionPerCode` (`OAuthSequentialProofs`) | `OneAtATime` gives `Spec => []CodeSingleUse` |
| `OneTokenPerFamily` | `OneAtATime` gives `Spec => []SingleUsableToken` |
| `RevocationIsComplete` | `OneAtATime` gives `Spec => []RevokedClientHasNoLiveSession` |
| `RefreshOnlyNarrows` | `OneAtATime` gives `Spec => ScopesNeverWiden` |
| `Implementation` | `OneAtATime` gives `Spec => ImplementsLifecycle` |
| `AtMostOneUsable` (`GrantLifecycleProofs`) | the abstract lifecycle never has two usable tokens of one session |
| `ButtonRequestsType` | `Spec => []TypeOK` |
| `TransferredAtMostOnce` | `Spec => []TransferAtMostOnce` |
| `ReportIsTrue` | `Spec => []CompletedIsDone` |
| `NoPressForgotten` | `Spec => []PressNotForgotten` |
| `AnswerStays` | `Spec => AnswerIsFinal` |
| `TempFilesType` | `Spec => []TypeOK` |
| `ResolveIsSound` | `Spec => []GivenWholeAndFresh` |
| `BootLeavesNothingOld` | `Spec => []NothingOldSurvivesABoot` |
| `FileKeptUntilTransferred` | `Spec => KeptUntilTransferred` |
| `OneDefault` (`AccessProofs`) | `Spec => []AtMostOneDefault` |
| `OnlyGrantedEffects` | `Spec => []EffectsAreGranted` |
| `EveryFailureCounts` | `LoginAttempts > 0` gives `Spec => []LockFollowsFailures` |
| `DefaultIsKept` | `Spec => DefaultKept` |
| `RatesAreBounded` | `Spec => []RateBound` |
| `EffectsLeaveATrace` | `Spec => []EffectsAreLogged` |
| `TypeCorrect` | `Spec => []TypeOK` |
| `OnlyNamedIsExpunged` (`MailToolsProofs`) | `Spec => []ExpungeOnlyNamed` |
| `MailIsKept` | `Spec => []NoMessageLost` |
| `DraftsAreKept` | `Spec => []DraftKept` |
| `DraftsAreSentOnce` | `Spec => []SentTwiceOnlyAfterFailure` |
| `TypeCorrect` | `Spec => []TypeOK` |
| `AnswersAreTrue` (`RemoteServicesProofs`) | `Spec => []WrittenAsAnswered` |
| `PostsLandWhereMeant` | `Spec => []PostedWhereMeant` |
| `TokenStaysGone` | `Spec => []DroppedTokenStaysGone` |
| `NothingIsReplacedUnasked` | `Spec => NothingReplacedUnasked` |
| `TypeCorrect` | `Spec => []TypeOK` |

Only model-checked: the two liveness properties (`UpdatesConfirmed`, `EveryCallReturns`), which
are out of this prover's reach, and the lines of the tables `PlanAssumption` and `SensitiveAreLogged`
summarise. Every other property of a passing run is a theorem.

## 5. Plan

What is left, in order of importance.

1. An abstract at-least-once outbox that the sending tools of `MailTools` implement.
2. `save_attachment` (hazard `services/mail.py:759`) as one more job, if it grows a promise.

## 6. Not modelled

* Documents and invoices (`services/documents.py`, `services/ubl.py`): pure parsing of a file
  `TempFiles` gave. Image decoding, signature checks and remote downloads likewise end before
  anything is stored.
* Dynamic registration and discovery: one INSERT under a fresh identifier, and constants.
* `save_attachment`, the connection tests of accounts, dashboards, lists and diagnostics, the
  page profiles (one settings row, the last writer wins), `detect_folders` (an account
  update of columns the model leaves out).
* UIDVALIDITY: a client that keeps a UID over a mailbox deleted and made again may name
  another message. `DraftKept` sets aside behaviours in which a mailbox was created,
  renamed or deleted (`reshaped`), since the tools resolve names again at each exchange.
* The front end, migrations, scripts, deployment, configuration: presentational or constant.
* JWT signing, hashing and PKCE arithmetic are taken as correct. Database errors appear as
  abandoned requests; a database other than SQLite with READ COMMITTED would allow the same
  interleavings of the OAuth handlers, except that the revocations would not be atomic, and
  would make the account transactions interleave.

Other disagreements between documents and code met while modelling, without a run:

* `telegram_get_callback_result` documents status `pending` or `answered` (mcp_server.py:1386),
  the code also stores `processing`, `completed` and `failed` (telegram_bot.py:327-346).
* OAUTH.md:47 says revocation is audited, but revoking an access token is not
  (oauth.py:895-914).
* CONFIGURATION.md:21 calls `ALLOW_COPY_IN_READ_ONLY` the only exception of the read-only mode, but
  the exception is for the permission `copy` (security.py:137-139), and the copy tools need
  `mail.copy` (mcp_server.py:219-232): it has no effect on any tool.
* CONFIGURATION.md:39 says the default page is used when `page_id` is omitted; when Facebook does not
  list it, the first page listed is used (mcp_server.py:430-434). `PostedWhereMeant` says so.
* HOME_ASSISTANT.md:49 says `home_assistant_update_entity` replaces or merges attributes; a
  merge writes a sensitive attribute back in its redacted form (mcp_server.py:2533-2540,
  home_assistant.py:47-57). `EntityMerged` says so.
* SECURITY.md:7 says password attempts are limited, then locked; the administration login
  (routers/admin.py:76-90) counts and locks nothing, only the general limiter applies.
* `get_capabilities` lists pages through `redact_facebook_data`, which removes their tokens, so
  its probes fall back to the user token (facebook.py:502-512).
* Overlapping failed logins count once (oauth.py:539): `LockFollowsFailures` is stated for
  logins that do not overlap, and the limiter, which has no await inside, bounds the rest.
