------------------------------ MODULE TempFiles ------------------------------
(***************************************************************************)
(* The two temporary stores: private files (app/temp_files.py) and images  *)
(* (app/temp_media.py), their purge in the lifespan of app/main.py, and    *)
(* the tools and endpoints that resolve a file and use it across awaits.   *)
(*                                                                         *)
(* One directory per file, named by its token.  Storing, resolving,        *)
(* deleting and purging run without an await, so they interleave with a    *)
(* kill only, between two file operations: each has an action that is cut  *)
(* short.  Time is counted in ticks of five minutes.                       *)
(***************************************************************************)
EXTENDS Integers, FiniteSets

CONSTANTS
    PrivateId, ImageId,   \* the tokens of a behaviour, each drawn once
    Request,              \* the requests that use a file
    TTL,                  \* the time to live of both stores, in ticks
    MaxTime, MaxCrashes,  \* bounds of the model
    None

ASSUME TempAssumption ==
    /\ PrivateId \cap ImageId = {} /\ None \notin PrivateId \cup ImageId
    /\ {TTL, MaxTime, MaxCrashes} \subseteq Nat

FileId == PrivateId \cup ImageId

VARIABLES
    clock,
    disk,      \* token -> None or its directory (see Directory)
    drawn,     \* the tokens already drawn
    up,        \* the process serves
    bootAt,    \* when it last started
    purge,     \* where the task purge_uploads is
    crashes,
    requests,  \* the uses of a file under way
    given,     \* history: what resolve returned last, and when
    transferred \* history: the files a use that consumes them has transferred

vars == <<clock, disk, drawn, up, bootAt, purge, crashes, requests, given,
          transferred>>

\* a directory: the mtime of the content (None when there is none) and of the
\* directory, whether the content is complete, and metadata.json (images have
\* none; one cut short is no JSON)
Directory == [at : 0 .. MaxTime \cup {None}, dirAt : 0 .. MaxTime,
              whole : BOOLEAN, meta : {"none", "cut", "whole"}]

Present(id) == disk[id] # None
HasContent(id) == Present(id) /\ disk[id].at # None

-----------------------------------------------------------------------------
\* The stores

\* resolve_temporary_file: payload and metadata.json are there
StoredPrivate(id) == HasContent(id) /\ disk[id].meta # "none"

\* resolve_temporary_image: exactly one file
StoredImage(id) == HasContent(id)

Stored(id) == IF id \in PrivateId THEN StoredPrivate(id) ELSE StoredImage(id)

\* both compare the content's mtime
TooOld(id) == disk[id].at < clock - TTL

\* Mutant: the metadata is not looked at
ResolvedByPayload(id) == HasContent(id) /\ ~TooOld(id)

\* what resolve returns; the metadata of a private file is read last
Resolved(id) == /\ Stored(id) /\ ~TooOld(id)
                /\ id \in PrivateId => disk[id].meta = "whole"

Without(gone) == [id \in FileId |-> IF id \in gone THEN None ELSE disk[id]]

\* Mutant: the purge only knows complete files
PurgedComplete(directories) ==
    {id \in FileId : /\ directories[id] # None
                     /\ directories[id].at # None
                     /\ directories[id].dirAt < clock - TTL}

\* cleanup_expired_uploads and cleanup_expired_temporary_files compare the
\* directory's mtime
Purged(directories) ==
    {id \in FileId : /\ directories[id] # None
                     /\ directories[id].dirAt < clock - TTL}

\* what may be left of a directory when its deletion is cut short: iterdir
\* yields the files in any order, each unlink stamps the directory
Remains(id) ==
    LET files == (IF disk[id].at = None THEN {} ELSE {"content"})
                 \cup (IF disk[id].meta = "none" THEN {} ELSE {"metadata"})
        left(some) ==
            [at |-> IF "content" \in some THEN disk[id].at ELSE None,
             dirAt |-> clock,
             whole |-> "content" \in some /\ disk[id].whole,
             meta |-> IF "metadata" \in some THEN disk[id].meta ELSE "none"]
    IN {None, disk[id]} \cup {left(some) : some \in (SUBSET files) \ {files}}

Cleanup == disk' = Without(Purged(disk))

-----------------------------------------------------------------------------
\* no use, or one that ended: it may be tried again
Idle == [pc |-> "idle", use |-> None, id |-> None, consume |-> FALSE]

Init ==
    /\ clock = 0 /\ bootAt = 0
    /\ disk = [id \in FileId |-> None] /\ drawn = {}
    /\ up = TRUE /\ purge = "run" /\ crashes = 0
    /\ requests = [r \in Request |-> Idle]
    /\ given = {} /\ transferred = {}

Tick ==
    /\ clock < MaxTime
    /\ clock' = clock + 1
    /\ UNCHANGED <<disk, drawn, up, bootAt, purge, crashes, requests, given,
                   transferred>>

\* store_temporary_file: metadata.json comes last and stamps the directory,
\* late when the disk is slow
StoredFile(late) ==
    [whole |-> TRUE, meta |-> "whole", at |-> clock, dirAt |-> clock + late]

\* store_temporary_binary: the directory is stamped when the file is created
StoredBinary(late) ==
    [whole |-> TRUE, meta |-> "none", at |-> clock + late, dirAt |-> clock]

\* a tool or an endpoint has a file stored
Store(id) ==
    /\ up /\ id \notin drawn
    /\ drawn' = drawn \cup {id}
    /\ \E late \in 0 .. 1 :
         /\ clock + late <= MaxTime
         /\ clock' = clock + late
         /\ disk' = [disk EXCEPT ![id] = IF id \in PrivateId THEN StoredFile(late)
                                         ELSE StoredBinary(late)]
    /\ UNCHANGED <<up, bootAt, purge, crashes, requests, given, transferred>>

\* the uses: of a private file ...
PrivateUses == {"attach", "upload", "read_pdf"}
\* ... and of an image
ImageUses == {"photo", "serve"}

UsesOf(id) == IF id \in PrivateId THEN PrivateUses ELSE ImageUses

\* dolibarr_attach_temporary_file and facebook_create_photo_post read the
\* content at once; the others hold a path across an await
Holds(use) == use \in {"upload", "read_pdf", "serve"}

Begin(r, id, use, consume) ==
    /\ up /\ requests[r].pc = "idle"
    /\ use \in UsesOf(id)
    /\ consume => use \in {"attach", "upload"}
    /\ LET pc == IF Holds(use) THEN "path" ELSE "content"
       IN IF Resolved(id)
          THEN /\ requests' = [requests EXCEPT ![r] =
                    [pc |-> pc, use |-> use, id |-> id, consume |-> consume]]
               /\ given' = {[id |-> id, now |-> clock, at |-> disk[id].at,
                              whole |-> disk[id].whole]}
               /\ UNCHANGED disk
          ELSE \* an expired file is deleted on the way
               /\ disk' = IF Stored(id) /\ TooOld(id) THEN Without({id}) ELSE disk
               /\ UNCHANGED <<requests, given>>
    /\ UNCHANGED <<clock, drawn, up, bootAt, purge, crashes, transferred>>

\* the path is opened: by the PDF thread, by FileResponse, or by
\* upload_temporary_file once the folders exist, which goes on
Open(r) ==
    /\ requests[r].pc = "path"
    /\ requests' = [requests EXCEPT ![r] =
         IF HasContent(requests[r].id) /\ requests[r].use = "upload"
         THEN [@ EXCEPT !.pc = "content"] ELSE Idle]
    /\ UNCHANGED <<clock, disk, drawn, up, bootAt, purge, crashes, given,
                   transferred>>

\* Mutant: consume in a finally, as the photo does
ConsumedAnyway(req, said) == req.consume \/ req.use = "photo"

\* a private file goes after a success, and if asked; an image in a finally
Consumed(req, said) == IF req.use = "photo" THEN TRUE ELSE req.consume /\ said

\* the remote service says yes, or does not
Transferred(req, said) == IF said /\ req.consume THEN {req.id} ELSE {}

Answered(r, said) ==
    /\ requests[r].pc = "content"
    /\ requests' = [requests EXCEPT ![r] = Idle]
    /\ transferred' = transferred \cup Transferred(requests[r], said)
    /\ disk' = IF Consumed(requests[r], said) THEN Without({requests[r].id}) ELSE disk
    /\ UNCHANGED <<clock, drawn, up, bootAt, purge, crashes, given>>

-----------------------------------------------------------------------------
\* The process

\* purge_uploads: one pass, then it sleeps twice and returns
PurgeStep == purge' = CASE purge = "run"    -> "sleep1"
                        [] purge = "sleep1" -> "sleep2"
                        [] purge = "sleep2" -> "ended"

PurgeTask ==
    /\ up /\ purge # "ended"
    /\ PurgeStep
    /\ IF purge = "run" THEN Cleanup ELSE UNCHANGED disk
    /\ UNCHANGED <<clock, drawn, up, bootAt, crashes, requests, given,
                   transferred>>

\* the lifespan cleans up before it serves
Boot ==
    /\ ~up /\ up' = TRUE /\ bootAt' = clock /\ purge' = "run"
    /\ Cleanup
    /\ UNCHANGED <<clock, drawn, crashes, requests, given, transferred>>

\* the process is killed: the requests under way are lost
Stop ==
    /\ crashes < MaxCrashes
    /\ crashes' = crashes + 1
    /\ up' = FALSE
    /\ requests' = [r \in Request |-> Idle]
    /\ UNCHANGED <<clock, bootAt, purge, given>>

Crash == up /\ Stop /\ UNCHANGED <<disk, drawn, transferred>>

\* Mutant: metadata.json is written first
CrashStoringMetadata(id) ==
    /\ up /\ Stop
    /\ id \notin drawn /\ drawn' = drawn \cup {id}
    /\ \E at \in {None, clock} :
         disk' = [disk EXCEPT ![id] = [at |-> at, dirAt |-> clock,
                                       whole |-> FALSE, meta |-> "whole"]]
    /\ UNCHANGED transferred

\* what a store leaves when it is cut short: a directory, then a part of the
\* content or all of it, then metadata.json still empty
Begun(id) ==
    {d \in Directory : /\ d.dirAt = clock /\ d.at \in {None, clock}
                       /\ d.at = None => ~d.whole
                       /\ d.meta = "none"
                          \/ (id \in PrivateId /\ d.whole /\ d.meta = "cut")}

CrashStoring(id) ==
    /\ up /\ Stop
    /\ id \notin drawn /\ drawn' = drawn \cup {id}
    /\ \E d \in Begun(id) : disk' = [disk EXCEPT ![id] = d]
    /\ UNCHANGED transferred

\* ... in a pass of the purge, of the task or before the server serves: the
\* images come first
CrashPurging(id) ==
    /\ up => purge = "run"
    /\ Stop
    /\ id \in Purged(disk)
    /\ \E gone \in SUBSET (Purged(disk) \ {id}), left \in Remains(id) :
         /\ (gone \cup {id}) \cap PrivateId # {} => Purged(disk) \cap ImageId \subseteq gone
         /\ disk' = [Without(gone) EXCEPT ![id] = left]
    /\ UNCHANGED <<drawn, transferred>>

\* ... in a resolve that found the file too old
CrashResolving(id) ==
    /\ up /\ Stop
    /\ Stored(id) /\ TooOld(id)
    /\ \E left \in Remains(id) : disk' = [disk EXCEPT ![id] = left]
    /\ UNCHANGED <<drawn, transferred>>

\* ... in a use that consumes the file, once the service has answered
CrashConsuming(r, said) ==
    /\ requests[r].pc = "content"
    /\ Stop
    /\ Consumed(requests[r], said) /\ Present(requests[r].id)
    /\ transferred' = transferred \cup Transferred(requests[r], said)
    /\ \E left \in Remains(requests[r].id) :
         disk' = [disk EXCEPT ![requests[r].id] = left]
    /\ UNCHANGED drawn

CrashMidway ==
    \/ \E id \in FileId : CrashStoring(id) \/ CrashPurging(id) \/ CrashResolving(id)
    \/ \E r \in Request, said \in BOOLEAN : CrashConsuming(r, said)

Use(r) == Open(r) \/ \E said \in BOOLEAN : Answered(r, said)

Next ==
    \/ Tick \/ PurgeTask \/ Boot \/ Crash \/ CrashMidway
    \/ \E id \in FileId : Store(id)
    \/ \E r \in Request, id \in FileId, use \in PrivateUses \cup ImageUses,
          consume \in BOOLEAN : Begin(r, id, use, consume)
    \/ \E r \in Request : Use(r)

\* the event loop runs the task's steps, the process manager starts the
\* server again, time passes
Spec == Init /\ [][Next]_vars /\ WF_vars(Tick) /\ WF_vars(PurgeTask) /\ WF_vars(Boot)

-----------------------------------------------------------------------------
TypeOK ==
    /\ clock \in 0 .. MaxTime
    /\ disk \in [FileId -> Directory \cup {None}]
    /\ {id \in FileId : Present(id)} \subseteq drawn
    /\ \A id \in FileId : HasContent(id) /\ disk[id].meta # "none" => disk[id].whole
    /\ purge \in {"run", "sleep1", "sleep2", "ended"}
    /\ \A r \in Request :
         requests[r].pc \in {"idle", "path", "content"}

\* Whatever store, purge or deletion was cut short before, a private file is
\* given to a consumer whole and within its time to live: metadata.json,
\* written last, vouches for the payload it is beside.  An image has no such
\* mark, only its age is promised.
GivenWholeAndFresh ==
    \A g \in given : /\ g.now <= g.at + TTL
                     /\ g.id \in PrivateId => g.whole

\* A private file leaves the store only when a purge or a resolve found it too
\* old (by either of the two mtimes they compare), or when a consumer that was
\* asked to consume it had its transfer accepted.  A failed transfer can
\* always be tried again.
KeptUntilTransferred ==
    [][\A id \in PrivateId :
         StoredPrivate(id) /\ ~StoredPrivate(id)' =>
            \/ clock > disk[id].at + TTL
            \/ clock > disk[id].dirAt + TTL
            \/ id \in transferred']_vars

\* A start leaves nothing that had expired before it, the remains of a killed
\* store or deletion included.
NothingOldSurvivesABoot ==
    up => \A id \in FileId : Present(id) => disk[id].dirAt >= bootAt - TTL

\* The files are purged once expired.
ExpiredIsPurged ==
    \A id \in FileId :
        (Present(id) /\ disk[id].dirAt < clock - TTL) ~> ~Present(id)
=============================================================================
