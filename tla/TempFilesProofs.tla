--------------------------- MODULE TempFilesProofs ---------------------------
(***************************************************************************)
(* What the temporary stores promise, for every time to live, any number   *)
(* of files and uses, and any number of crashes.  The invariant says what  *)
(* a directory can look like after a crash (TypeOK), who may hold which    *)
(* file (RequestOK), and that no clock runs ahead of time (BootOK).        *)
(***************************************************************************)
EXTENDS TempFiles, TLAPS

\* a use of the right kind of file, while it is under way
RequestOK ==
    /\ requests \in [Request -> [pc : {"idle", "path", "content"},
                                 use : PrivateUses \cup ImageUses \cup {None},
                                 id : FileId \cup {None},
                                 consume : BOOLEAN]]
    /\ \A r \in Request :
         requests[r].pc \in {"path", "content"} =>
            /\ requests[r].id \in FileId
            /\ requests[r].use \in UsesOf(requests[r].id)

BootOK == /\ bootAt \in 0 .. clock
          /\ up \in BOOLEAN

\* what an image's use is never
LEMMA PhotoIsNotPrivate ==
    ASSUME NEW id \in PrivateId PROVE "photo" \notin UsesOf(id)
  BY DEF UsesOf, PrivateUses, ImageUses

Inv == TypeOK /\ RequestOK /\ BootOK

LEMMA InitInv == Init => Inv
<1> SUFFICES ASSUME Init PROVE Inv
  OBVIOUS
<1> USE TempAssumption DEF Init, Idle
<1>1. TypeOK
  BY DEF TypeOK, Present, HasContent
<1>2. RequestOK
  BY DEF RequestOK
<1>3. BootOK
  BY DEF BootOK
<1> QED BY <1>1, <1>2, <1>3 DEF Inv

\* nothing, or a directory in which metadata.json is beside no part of a content
Sound(d) ==
    d # None => /\ d \in Directory
                /\ d.at # None /\ d.meta # "none" => d.whole

\* what a store that is cut short leaves
LEMMA BegunIsSound ==
    ASSUME NEW id \in FileId, NEW d \in Begun(id) PROVE Sound(d)
  BY DEF Begun, Sound

\* what a deletion that is cut short leaves: each file goes whole
LEMMA RemainsAreSound ==
    ASSUME Inv, NEW id \in FileId, Present(id), NEW left \in Remains(id)
    PROVE  Sound(left)
<1> DEFINE rest(some) ==
             [at |-> IF "content" \in some THEN disk[id].at ELSE None,
              dirAt |-> clock,
              whole |-> "content" \in some /\ disk[id].whole,
              meta |-> IF "metadata" \in some THEN disk[id].meta ELSE "none"]
<1>1. /\ disk[id] \in Directory /\ clock \in 0 .. MaxTime
      /\ disk[id].at # None /\ disk[id].meta # "none" => disk[id].whole
  BY DEF Inv, TypeOK, Present, HasContent
<1>2. CASE left \in {None, disk[id]}
  BY <1>1, <1>2 DEF Sound
<1>3. ASSUME NEW some, left = rest(some) PROVE Sound(left)
  <2>1. /\ left.at = IF "content" \in some THEN disk[id].at ELSE None
        /\ left.whole = ("content" \in some /\ disk[id].whole)
        /\ left.meta = IF "metadata" \in some THEN disk[id].meta ELSE "none"
    BY <1>3
  <2>2. left \in Directory
    BY <1>1, <1>3 DEF Directory
  <2>3. left.at # None /\ left.meta # "none" => left.whole
    BY <1>1, <2>1
  <2> QED BY <2>2, <2>3 DEF Sound
<1> QED BY <1>2, <1>3 DEF Remains

\* a disk with some directories gone and one replaced
LEMMA OneIsReplaced ==
    ASSUME Inv, NEW id \in FileId, NEW gone, NEW left, Sound(left),
           disk' = [Without(gone) EXCEPT ![id] = left],
           drawn \subseteq drawn', left # None => id \in drawn'
    PROVE  /\ disk' \in [FileId -> Directory \cup {None}]
           /\ {x \in FileId : Present(x)}' \subseteq drawn'
           /\ \A x \in FileId :
                HasContent(x)' /\ disk'[x].meta # "none" => disk'[x].whole
<1>1. disk'[id] = left
  BY DEF Without
<1>2. \A x \in FileId : x # id => disk'[x] \in {None, disk[x]}
  BY DEF Without
<1>3. /\ disk' \in [FileId -> Directory \cup {None}]
      /\ \A x \in FileId : disk'[x] \in Directory \cup {None}
  BY <1>1, <1>2 DEF Without, Sound, Inv, TypeOK
<1>4. \A x \in FileId : disk'[x] # None => x \in drawn'
  BY <1>1, <1>2 DEF Inv, TypeOK, Present
<1>5. \A x \in FileId : HasContent(x)' /\ disk'[x].meta # "none" => disk'[x].whole
  BY <1>1, <1>2 DEF HasContent, Present, Sound, Inv, TypeOK
<1> QED BY <1>3, <1>4, <1>5 DEF Present

\* a step cut short: some directories are gone, one is left in a sound state
CutAt(id, gone, left) ==
    /\ disk' = [Without(gone) EXCEPT ![id] = left]
    /\ Sound(left)
    /\ drawn \subseteq drawn' /\ id \in drawn'

LEMMA CutShort ==
    ASSUME Inv, CrashMidway
    PROVE  /\ Stop
           /\ \E id \in FileId, gone \in SUBSET FileId, left \in Directory \cup {None} :
                CutAt(id, gone, left)
<1>1. /\ Without({}) = disk
      /\ \A id \in FileId : Present(id) => id \in drawn
      /\ {} \in SUBSET FileId
  BY DEF Without, Inv, TypeOK
<1>2. \A left : Sound(left) => left \in Directory \cup {None}
  BY DEF Sound
<1>3. ASSUME NEW id \in FileId, CrashStoring(id)
      PROVE  Stop /\ \E left : CutAt(id, {}, left)
  <2>1. PICK d \in Begun(id) : disk' = [disk EXCEPT ![id] = d]
    BY <1>3 DEF CrashStoring
  <2>2. CutAt(id, {}, d)
    BY <1>1, <1>3, <2>1, BegunIsSound DEF CutAt, CrashStoring
  <2> QED BY <1>3, <2>2 DEF CrashStoring
<1>4. ASSUME NEW id \in FileId, CrashPurging(id)
      PROVE  Stop /\ \E gone \in SUBSET FileId : \E left : CutAt(id, gone, left)
  <2>1. PICK gone \in SUBSET (Purged(disk) \ {id}), left \in Remains(id) :
          disk' = [Without(gone) EXCEPT ![id] = left]
    BY <1>4 DEF CrashPurging
  <2>2. Present(id) /\ gone \in SUBSET FileId
    BY <1>4, <2>1 DEF CrashPurging, Purged, Present
  <2>3. CutAt(id, gone, left)
    BY <1>1, <1>4, <2>1, <2>2, RemainsAreSound DEF CutAt, CrashPurging
  <2> QED BY <1>4, <2>2, <2>3 DEF CrashPurging
<1>5. ASSUME NEW id \in FileId, CrashResolving(id)
      PROVE  Stop /\ \E left : CutAt(id, {}, left)
  <2>1. PICK left \in Remains(id) : disk' = [disk EXCEPT ![id] = left]
    BY <1>5 DEF CrashResolving
  <2>2. Present(id)
    BY <1>5 DEF CrashResolving, Stored, StoredPrivate, StoredImage, HasContent
  <2>3. CutAt(id, {}, left)
    BY <1>1, <1>5, <2>1, <2>2, RemainsAreSound DEF CutAt, CrashResolving
  <2> QED BY <1>5, <2>3 DEF CrashResolving
<1>6. ASSUME NEW r \in Request, NEW said \in BOOLEAN, CrashConsuming(r, said)
      PROVE  Stop /\ requests[r].id \in FileId
             /\ \E left : CutAt(requests[r].id, {}, left)
  <2>1. PICK left \in Remains(requests[r].id) :
          disk' = [disk EXCEPT ![requests[r].id] = left]
    BY <1>6 DEF CrashConsuming
  <2>2. requests[r].id \in FileId /\ Present(requests[r].id)
    BY <1>6 DEF CrashConsuming, Inv, RequestOK
  <2>3. CutAt(requests[r].id, {}, left)
    BY <1>1, <1>6, <2>1, <2>2, RemainsAreSound DEF CutAt, CrashConsuming
  <2> QED BY <1>6, <2>2, <2>3 DEF CrashConsuming
<1>7. Stop
  BY <1>3, <1>4, <1>5, <1>6 DEF CrashMidway
<1>8. \E id \in FileId, gone \in SUBSET FileId : \E left : CutAt(id, gone, left)
  BY <1>1, <1>3, <1>4, <1>5, <1>6 DEF CrashMidway
<1> QED BY <1>2, <1>7, <1>8 DEF CutAt

\* a purge keeps the shape of the directories it leaves
LEMMA CleanupShape ==
    ASSUME Inv, Cleanup, clock' = clock, drawn' = drawn
    PROVE  /\ disk' \in [FileId -> Directory \cup {None}]
           /\ {id \in FileId : Present(id)}' \subseteq drawn'
           /\ \A id \in FileId :
                HasContent(id)' /\ disk'[id].meta # "none" => disk'[id].whole
           /\ \A id \in FileId : Present(id)' => disk'[id] = disk[id] /\ Present(id)
           /\ \A id \in FileId : Present(id) /\ disk'[id] # disk[id] =>
                                   disk[id].dirAt < clock - TTL
  BY DEF Inv, TypeOK, Cleanup, Without, Purged, Present, HasContent

LEMMA TypeStep == Inv /\ [Next]_vars => TypeOK'
<1> SUFFICES ASSUME Inv, [Next]_vars PROVE TypeOK'
  OBVIOUS
<1> USE TempAssumption DEF Inv, TypeOK, RequestOK
<1>1. CASE Tick
  BY <1>1 DEF Tick, Directory, Present, HasContent
<1>2. CASE PurgeTask
  <2>1. purge' \in {"run", "sleep1", "sleep2", "ended"}
    BY <1>2 DEF PurgeTask, PurgeStep
  <2>2. CASE purge = "run"
    BY <1>2, <2>1, <2>2, CleanupShape DEF PurgeTask
  <2>3. CASE purge # "run"
    BY <1>2, <2>1, <2>3 DEF PurgeTask, Present, HasContent
  <2> QED BY <2>2, <2>3
<1>3. CASE Boot
  BY <1>3, CleanupShape DEF Boot
<1>4. CASE Crash
  BY <1>4 DEF Crash, Stop, Idle, Present, HasContent
<1>5. ASSUME NEW id \in FileId, Store(id) PROVE TypeOK'
  <2>1. PICK late \in 0 .. 1 :
          /\ clock' = clock + late /\ clock + late <= MaxTime
          /\ disk' = [disk EXCEPT ![id] = IF id \in PrivateId THEN StoredFile(late)
                                          ELSE StoredBinary(late)]
    BY <1>5 DEF Store
  <2>2. /\ StoredFile(late) \in Directory /\ StoredFile(late).whole
        /\ StoredBinary(late) \in Directory /\ StoredBinary(late).whole
    BY <2>1 DEF StoredFile, StoredBinary, Directory
  <2> QED BY <1>5, <2>1, <2>2 DEF Store, Present, HasContent
<1>6. CASE CrashMidway
  <2>1. Stop
    BY <1>6, CutShort
  <2>2. PICK id \in FileId, gone \in SUBSET FileId, left \in Directory \cup {None} :
          CutAt(id, gone, left)
    BY <1>6, CutShort
  <2>3. /\ disk' \in [FileId -> Directory \cup {None}]
        /\ {x \in FileId : Present(x)}' \subseteq drawn'
        /\ \A x \in FileId :
             HasContent(x)' /\ disk'[x].meta # "none" => disk'[x].whole
    BY <2>2, OneIsReplaced DEF CutAt
  <2> QED BY <2>1, <2>3 DEF Stop, Idle
<1>8. ASSUME NEW r \in Request, NEW id \in FileId,
             NEW use \in PrivateUses \cup ImageUses, NEW consume \in BOOLEAN,
             Begin(r, id, use, consume)
      PROVE  TypeOK'
  BY <1>8 DEF Begin, Present, HasContent, Without, Holds
<1>9. ASSUME NEW r \in Request, Open(r) PROVE TypeOK'
  BY <1>9 DEF Open, Idle, Present, HasContent
<1>10. ASSUME NEW r \in Request, NEW said \in BOOLEAN, Answered(r, said)
       PROVE  TypeOK'
  BY <1>10 DEF Answered, Idle, Present, HasContent, Without
<1>11. CASE UNCHANGED vars
  BY <1>11 DEF vars, Present, HasContent
<1> QED
  BY <1>1, <1>2, <1>3, <1>4, <1>5, <1>6, <1>8, <1>9, <1>10, <1>11
  DEF Next, Use

LEMMA RequestStep == Inv /\ [Next]_vars => RequestOK'
<1> SUFFICES ASSUME Inv, [Next]_vars PROVE RequestOK'
  OBVIOUS
<1>0. CrashMidway => Stop
  BY CutShort
<1> USE TempAssumption DEF Inv, RequestOK
<1>1. CASE UNCHANGED requests
  BY <1>1
<1>2. CASE Stop
  BY <1>2 DEF Stop, Idle
<1>3. ASSUME NEW r \in Request, NEW id \in FileId,
             NEW use \in PrivateUses \cup ImageUses, NEW consume \in BOOLEAN,
             Begin(r, id, use, consume)
      PROVE  RequestOK'
  BY <1>3 DEF Begin
<1>4. ASSUME NEW r \in Request, Open(r) PROVE RequestOK'
  BY <1>4 DEF Open, Idle
<1>5. ASSUME NEW r \in Request, NEW said \in BOOLEAN, Answered(r, said)
      PROVE  RequestOK'
  BY <1>5 DEF Answered, Idle
<1>6. CASE Tick \/ PurgeTask \/ Boot \/ UNCHANGED vars
  BY <1>1, <1>6 DEF Tick, PurgeTask, Boot, vars
<1>7. ASSUME NEW id \in FileId, Store(id) PROVE RequestOK'
  BY <1>1, <1>7 DEF Store
<1>8. CASE Crash
  BY <1>2, <1>8 DEF Crash
<1> QED
  BY <1>0, <1>1, <1>2, <1>3, <1>4, <1>5, <1>6, <1>7, <1>8 DEF Next, Use

LEMMA BootStep == Inv /\ [Next]_vars => BootOK'
<1> SUFFICES ASSUME Inv, [Next]_vars PROVE BootOK'
  OBVIOUS
<1> USE TempAssumption DEF Inv, TypeOK, BootOK
<1>1. ASSUME NEW id \in FileId, Store(id) PROVE BootOK'
  BY <1>1 DEF Store
<1>2. CASE Crash \/ CrashMidway
  BY <1>2, CutShort DEF Crash, Stop
<1>3. ASSUME NEW r \in Request, Use(r) PROVE BootOK'
  BY <1>3 DEF Use, Open, Answered
<1>4. ASSUME NEW r \in Request, NEW id \in FileId,
             NEW use \in PrivateUses \cup ImageUses, NEW consume \in BOOLEAN,
             Begin(r, id, use, consume)
      PROVE  BootOK'
  BY <1>4 DEF Begin
<1>5. CASE Tick
  BY <1>5 DEF Tick
<1>6. CASE PurgeTask \/ UNCHANGED vars
  BY <1>6 DEF PurgeTask, vars
<1>7. CASE Boot
  BY <1>7 DEF Boot
<1> QED
  BY <1>1, <1>2, <1>3, <1>4, <1>5, <1>6, <1>7 DEF Next

LEMMA StepInv == Inv /\ [Next]_vars => Inv'
  BY TypeStep, RequestStep, BootStep DEF Inv

\* The directories of a store, with those a store or a deletion leaves when it
\* is cut short between any two of its steps, have one of a few shapes:
\* metadata.json may be left alone, but is never beside a part of a payload.
THEOREM TempFilesType == Spec => []TypeOK
<1>1. Inv => TypeOK
  BY DEF Inv
<1> QED BY <1>1, InitInv, StepInv, PTL DEF Spec

-----------------------------------------------------------------------------
\* what resolve answers at one moment
LEMMA ResolvedIsWholeAndFresh ==
    ASSUME Inv, NEW id \in FileId, Resolved(id)
    PROVE  /\ clock <= disk[id].at + TTL
           /\ id \in PrivateId => disk[id].whole
<1>1. disk[id] \in Directory /\ disk[id].at # None
  BY DEF Inv, TypeOK, Resolved, Stored, StoredPrivate, StoredImage, HasContent, Present
<1>2. disk[id].at \in Nat /\ clock \in Nat
  BY <1>1, TempAssumption DEF Directory, Inv, TypeOK
<1>3. clock <= disk[id].at + TTL
  BY <1>2, TempAssumption DEF Resolved, TooOld
<1>4. id \in PrivateId => disk[id].whole
  BY DEF Inv, TypeOK, Resolved, Stored, StoredPrivate
<1> QED BY <1>3, <1>4

LEMMA GivenStep == Inv /\ GivenWholeAndFresh /\ [Next]_vars => GivenWholeAndFresh'
<1> SUFFICES ASSUME Inv, GivenWholeAndFresh, [Next]_vars PROVE GivenWholeAndFresh'
  OBVIOUS
<1>1. CASE UNCHANGED given
  BY <1>1 DEF GivenWholeAndFresh
<1>2. ASSUME NEW r \in Request, NEW id \in FileId,
             NEW use \in PrivateUses \cup ImageUses, NEW consume \in BOOLEAN,
             Begin(r, id, use, consume), given' # given
      PROVE  GivenWholeAndFresh'
  <2>1. /\ Resolved(id)
        /\ given' = {[id |-> id, now |-> clock, at |-> disk[id].at,
                      whole |-> disk[id].whole]}
    BY <1>2 DEF Begin
  <2> QED BY <2>1, ResolvedIsWholeAndFresh DEF GivenWholeAndFresh
<1> QED
  BY <1>1, <1>2, CutShort
  DEF Next, vars, Tick, PurgeTask, Boot, Crash, Stop, Store, Use, Open, Answered

\* Whatever crash or purge came before, resolve gives a private file whole and
\* no file after its time to live.
THEOREM ResolveIsSound == Spec => []GivenWholeAndFresh
<1>1. Init => GivenWholeAndFresh
  BY DEF Init, GivenWholeAndFresh
<1> QED BY <1>1, InitInv, StepInv, GivenStep, PTL DEF Spec

-----------------------------------------------------------------------------
LEMMA SurvivorStep ==
    Inv /\ NothingOldSurvivesABoot /\ [Next]_vars => NothingOldSurvivesABoot'
<1> SUFFICES ASSUME Inv, NothingOldSurvivesABoot, [Next]_vars, up'
             PROVE  \A id \in FileId : Present(id)' => disk'[id].dirAt >= bootAt' - TTL
  BY DEF NothingOldSurvivesABoot
<1> USE TempAssumption DEF NothingOldSurvivesABoot
<1>0. clock \in Nat /\ bootAt \in Nat /\ bootAt <= clock /\ up \in BOOLEAN
  BY DEF Inv, TypeOK, BootOK
<1>1. CASE UNCHANGED <<disk, bootAt, up>>
  BY <1>1 DEF Present
<1>2. CASE PurgeTask
  <2>1. CASE purge = "run"
    <3>1. \A id \in FileId : Present(id)' => disk'[id] = disk[id] /\ Present(id)
      BY <1>2, <2>1, CleanupShape DEF PurgeTask
    <3> QED BY <1>2, <3>1 DEF PurgeTask
  <2>2. CASE purge # "run"
    BY <1>1, <1>2, <2>2 DEF PurgeTask
  <2> QED BY <2>1, <2>2
<1>3. CASE Boot
  <2>1. \A id \in FileId : Present(id)' => disk'[id] = disk[id] /\ Present(id)
    BY <1>3, CleanupShape DEF Boot
  <2>2. \A id \in FileId : Present(id)' => ~(disk[id].dirAt < clock - TTL)
    BY <1>3, <2>1 DEF Boot, Cleanup, Without, Purged, Present
  <2>3. \A id \in FileId : Present(id) => disk[id].dirAt \in Nat
    BY DEF Inv, TypeOK, Directory, Present
  <2> QED BY <1>0, <1>3, <2>1, <2>2, <2>3 DEF Boot
<1>4. ASSUME NEW id \in FileId, Store(id)
      PROVE  \A x \in FileId : Present(x)' => disk'[x].dirAt >= bootAt' - TTL
  <2>1. PICK late \in 0 .. 1 :
          disk' = [disk EXCEPT ![id] = IF id \in PrivateId THEN StoredFile(late)
                                          ELSE StoredBinary(late)]
    BY <1>4 DEF Store
  <2>2. disk \in [FileId -> Directory \cup {None}] /\ up /\ bootAt' = bootAt
    BY <1>4 DEF Store, Inv, TypeOK
  <2>3. disk'[id].dirAt \in {clock, clock + late}
    BY <2>1, <2>2 DEF StoredFile, StoredBinary
  <2>4. disk'[id].dirAt >= bootAt - TTL
    BY <1>0, <2>3
  <2>5. \A x \in FileId : x # id => disk'[x] = disk[x]
    BY <2>1, <2>2
  <2> QED BY <2>2, <2>4, <2>5 DEF Present
<1>5. CASE Stop
  BY <1>5 DEF Stop
<1>6. ASSUME NEW r \in Request, NEW id \in FileId,
             NEW use \in PrivateUses \cup ImageUses, NEW consume \in BOOLEAN,
             Begin(r, id, use, consume)
      PROVE  \A x \in FileId : Present(x)' => disk'[x].dirAt >= bootAt' - TTL
  BY <1>6 DEF Begin, Without, Present, Inv, TypeOK
<1>7. ASSUME NEW r \in Request, NEW said \in BOOLEAN, Answered(r, said)
      PROVE  \A x \in FileId : Present(x)' => disk'[x].dirAt >= bootAt' - TTL
  BY <1>7 DEF Answered, Without, Present, Inv, TypeOK, RequestOK
<1>8. CASE Tick \/ UNCHANGED vars \/ \E r \in Request : Open(r)
  BY <1>1, <1>8 DEF Tick, vars, Open
<1>9. Crash \/ CrashMidway => Stop
  BY CutShort DEF Crash
<1> QED
  BY <1>2, <1>3, <1>4, <1>5, <1>6, <1>7, <1>8, <1>9 DEF Next, Use

\* Once the server has started, nothing that had expired before the start is
\* on disk, what a killed store or purge left included.
THEOREM BootLeavesNothingOld == Spec => []NothingOldSurvivesABoot
<1>1. Init => NothingOldSurvivesABoot
  BY DEF Init, NothingOldSurvivesABoot, Present
<1> QED BY <1>1, InitInv, StepInv, SurvivorStep, PTL DEF Spec

-----------------------------------------------------------------------------
\* the step of KeptUntilTransferred
Kept(id) ==
    StoredPrivate(id) /\ ~StoredPrivate(id)' =>
       \/ clock > disk[id].at + TTL
       \/ clock > disk[id].dirAt + TTL
       \/ id \in transferred'

LEMMA KeptStep ==
    ASSUME Inv, [Next]_vars, NEW id \in PrivateId PROVE Kept(id)
<1> SUFFICES ASSUME StoredPrivate(id), ~StoredPrivate(id)'
             PROVE  \/ clock > disk[id].at + TTL
                    \/ clock > disk[id].dirAt + TTL
                    \/ id \in transferred'
  BY DEF Kept
<1> USE DEF StoredPrivate, HasContent, Present
<1>1. /\ id \in FileId /\ disk \in [FileId -> Directory \cup {None}]
      /\ disk[id] \in Directory /\ disk[id].at # None
      /\ clock \in Nat /\ TTL \in Nat /\ id \in drawn
  BY TempAssumption DEF Inv, TypeOK, FileId
<1>2. disk[id].at \in Nat /\ disk[id].dirAt \in Nat
  BY <1>1, TempAssumption DEF Directory
<1>3. disk'[id] # disk[id]
  OBVIOUS
<1>4. CASE disk[id].dirAt < clock - TTL
  BY <1>1, <1>2, <1>4
<1>5. CASE Cleanup
  <2>1. id \in Purged(disk)
    BY <1>1, <1>3, <1>5 DEF Cleanup, Without
  <2> QED BY <1>4, <2>1 DEF Purged
<1>6. CASE PurgeTask \/ Boot
  BY <1>3, <1>5, <1>6 DEF PurgeTask, Boot
<1>7. ASSUME NEW x \in FileId, Store(x) \/ CrashStoring(x) PROVE FALSE
  BY <1>1, <1>3, <1>7 DEF Store, CrashStoring
<1>8. ASSUME NEW x \in FileId, CrashPurging(x) PROVE disk[id].dirAt < clock - TTL
  <2>1. PICK gone \in SUBSET (Purged(disk) \ {x}), left \in Remains(x) :
          disk' = [Without(gone) EXCEPT ![x] = left]
    BY <1>8 DEF CrashPurging
  <2>2. x = id \/ id \in gone
    BY <1>1, <1>3, <2>1 DEF Without
  <2>3. id \in Purged(disk)
    BY <1>8, <2>2 DEF CrashPurging
  <2> QED BY <2>3 DEF Purged
<1>9. ASSUME NEW x \in FileId, CrashResolving(x) PROVE clock > disk[id].at + TTL
  <2>1. x = id /\ TooOld(id)
    BY <1>1, <1>3, <1>9 DEF CrashResolving
  <2> QED BY <1>1, <1>2, <2>1 DEF TooOld
<1>10. ASSUME NEW r \in Request, NEW x \in FileId,
              NEW use \in PrivateUses \cup ImageUses, NEW consume \in BOOLEAN,
              Begin(r, x, use, consume)
       PROVE  clock > disk[id].at + TTL
  <2>1. x = id /\ TooOld(id)
    BY <1>1, <1>3, <1>10 DEF Begin, Without
  <2> QED BY <1>1, <1>2, <2>1 DEF TooOld
<1>11. ASSUME NEW r \in Request, NEW said \in BOOLEAN, requests[r].pc = "content",
              requests[r].id = id, Consumed(requests[r], said)
       PROVE  requests[r].consume /\ said
  <2>1. requests[r].use \in UsesOf(id)
    BY <1>11 DEF Inv, RequestOK
  <2> QED BY <1>11, <2>1, PhotoIsNotPrivate DEF Consumed, Inv, RequestOK
<1>12. ASSUME NEW r \in Request, NEW said \in BOOLEAN,
              Answered(r, said) \/ CrashConsuming(r, said)
       PROVE  id \in transferred'
  <2>1. /\ requests[r].pc = "content" /\ requests[r].id = id
        /\ Consumed(requests[r], said)
    BY <1>1, <1>3, <1>12 DEF Answered, CrashConsuming, Without
  <2>2. requests[r].consume /\ said
    BY <1>11, <2>1
  <2> QED BY <1>12, <2>1, <2>2 DEF Answered, CrashConsuming, Transferred
<1>13. CASE Tick \/ Crash \/ UNCHANGED vars \/ \E r \in Request : Open(r)
  BY <1>3, <1>13 DEF Tick, Crash, vars, Open
<1> QED
  BY <1>1, <1>2, <1>4, <1>6, <1>7, <1>8, <1>9, <1>10, <1>12, <1>13
  DEF Next, Use, CrashMidway

\* A private file is never lost to a failed or unanswered transfer: it goes
\* when it is too old, or when the transfer it was to be consumed by succeeded.
THEOREM FileKeptUntilTransferred == Spec => KeptUntilTransferred
<1>1. Inv /\ [Next]_vars => \A id \in PrivateId : Kept(id)
  BY KeptStep
<1>2. Inv /\ [Next]_vars =>
        [\A id \in PrivateId :
           StoredPrivate(id) /\ ~StoredPrivate(id)' =>
              \/ clock > disk[id].at + TTL
              \/ clock > disk[id].dirAt + TTL
              \/ id \in transferred']_vars
  BY <1>1 DEF Kept
<1> QED BY <1>2, InitInv, StepInv, PTL DEF Spec, KeptUntilTransferred
=============================================================================
