---------------------------- MODULE ServicesProofs ----------------------------
(***************************************************************************)
(* Proofs about the services beside the submission server, each on its     *)
(* own: the documentation index, the review in the browser, the plagiarism *)
(* check and the executor.  They share no state; one module holds their    *)
(* theorems because each needs few.                                        *)
(***************************************************************************)
EXTENDS DocsIndex, Executor, PersistLock, Plagiarism, Sessions, FiniteSetTheorems, SequenceTheorems, TLAPS

----------------------------------------------------------------------------
(***************************************************************************)
(* The documentation index, for any number of batches, any limits and any  *)
(* number of jobs, with and without crashes: the slot follows the job, and *)
(* a rebuild that is not done has touched nothing.                         *)
(***************************************************************************)

BeforeRename == {"load", "batch", "failed", "limited", "limitedWrite", "renameVectors"}
RebuildAt == BeforeRename \cup {"renameManifest", "finish"}
DownloadAt == {"spawn", "stranded", "download", "installing", "closed"}

Builds == [manifest : Nat, vectors : Nat]
Phases == Terminal \cup {"none", "fetch-chunks", "embed", "finalize"}

DocsJobs == [pc : {"none"} \cup DownloadAt \cup RebuildAt, start : 0 .. Batches, failed : Nat,
             limited : Nat, dim : BOOLEAN, before : Builds, build : Nat]

DocsTypeOK ==
    /\ slotOwner \in {"none", "docs-index-download", "docs-embed-rebuild"}
    /\ liveJobs \in [Kinds -> [phase : Phases, cancelled : BOOLEAN]]
    /\ stateFile \in Phases
    /\ index \in Builds
    /\ docsJob \in DocsJobs
    /\ child \in BOOLEAN
    /\ jobs \in Nat

\* What SlotFollowsJob needs to be preserved: each route's steps are taken by
\* its own job; and what the rebuild needs: until the first rename the index
\* is what the job has found.
DocsInv ==
    /\ DocsTypeOK
    /\ docsJob.pc = "none" => docsJob = NoDocsJob
    /\ slotOwner = "none" <=> docsJob.pc = "none"
    /\ slotOwner = "docs-index-download" <=> docsJob.pc \in DownloadAt
    /\ slotOwner = "docs-embed-rebuild" <=> docsJob.pc \in RebuildAt
    /\ docsJob.pc \in BeforeRename => index = docsJob.before

\* The record of no job is the record of a job, and of none at work.
LEMMA NoDocsJobType ==
    /\ NoDocsJob.pc = "none"
    /\ NoDocsJob \in DocsJobs
    /\ NoJob \in [phase : Phases, cancelled : BOOLEAN]
BY DocsBounds DEF NoDocsJob, NoJob, DocsJobs, Builds, Phases, Terminal

\* A job as a route makes it.
LEMMA MadeJob ==
    ASSUME NEW pc \in {"spawn", "load"}, NEW before \in Builds, NEW build \in Nat
    PROVE  LET made == [NoDocsJob EXCEPT !.pc = pc, !.before = before, !.build = build]
           IN made \in DocsJobs /\ made.pc = pc /\ made.before = before
<1> DEFINE made == [NoDocsJob EXCEPT !.pc = pc, !.before = before, !.build = build]
<1>1. pc \in {"none"} \cup DownloadAt \cup RebuildAt
  BY DEF DownloadAt, RebuildAt, BeforeRename
<1>2. made \in DocsJobs
  BY <1>1, NoDocsJobType DEF DocsJobs
<1>3. made.pc = pc
  BY NoDocsJobType DEF DocsJobs
<1>4. made.before = before
  BY NoDocsJobType DEF DocsJobs
<1> QED
  BY <1>2, <1>3, <1>4

\* No job, no index, a free slot.
LEMMA DocsInitInv == DocsInit => DocsInv
<1> SUFFICES ASSUME DocsInit PROVE DocsInv
  OBVIOUS
<1>1. DocsTypeOK
  BY NoDocsJobType DEF DocsInit, DocsTypeOK, Builds, Phases, Terminal
<1> QED
  BY <1>1, NoDocsJobType DEF DocsInit, DocsInv, DownloadAt, RebuildAt, BeforeRename

\* The steps of the download keep the invariant.
LEMMA DownloadKeeps ==
    ASSUME DocsInv, StartDownload \/ Download
    PROVE  DocsInv'
<1> USE DocsBounds, NoDocsJobType DEF DocsInv, DocsTypeOK, Phases, Terminal
<1>1. CASE StartDownload
  <2>1. jobs + 1 \in Nat
    OBVIOUS
  <2> DEFINE build == jobs + 1
             made == [NoDocsJob EXCEPT !.pc = "spawn", !.before = index, !.build = build]
  <2>2. docsJob' \in DocsJobs /\ docsJob'.pc = "spawn"
    <3>0. build \in Nat /\ index \in Builds /\ "spawn" \in {"spawn", "load"}
      BY <2>1
    <3> HIDE DEF build
    <3>1. made \in DocsJobs /\ made.pc = "spawn"
      BY ONLY <3>0, MadeJob
    <3> USE DEF build
    <3> QED
      BY <1>1, <3>1 DEF StartDownload
  <2>3. DocsTypeOK'
    BY <1>1, <2>1, <2>2 DEF StartDownload, Claim, Runs
  <2> QED
    BY <1>1, <2>2, <2>3 DEF StartDownload, Claim, DownloadAt, RebuildAt, BeforeRename
<1>2. CASE Spawn \/ SpawnThrows
  <2>1. DocsTypeOK'
    BY <1>2 DEF Spawn, SpawnThrows, Step, DownloadAt, DocsJobs
  <2> QED
    BY <1>2, <2>1 DEF Spawn, SpawnThrows, Step, DownloadAt, RebuildAt, BeforeRename, DocsJobs
<1>3. CASE ChildInstalls
  <2>1. docsJob.build \in Nat /\ docsJob'.pc \in {"installing", "closed"} /\ docsJob.pc \in DownloadAt
    BY <1>3 DEF ChildInstalls, Step, DownloadAt, DocsJobs
  <2>2. index' \in Builds
    BY <1>3, <2>1 DEF ChildInstalls, Builds, DocsJobs
  <2>3. DocsTypeOK'
    BY <1>3, <2>2 DEF ChildInstalls, Step, DownloadAt, DocsJobs
  <2> QED
    BY <1>3, <2>1, <2>3 DEF ChildInstalls, Step, DownloadAt, RebuildAt, BeforeRename, DocsJobs
<1>4. CASE ChildSucceeds
  <2>1. DocsTypeOK' /\ docsJob' = NoDocsJob /\ slotOwner' = "none"
    BY <1>4 DEF ChildSucceeds, EndDownload, Dead, Release
  <2> QED
    BY <2>1 DEF DownloadAt, RebuildAt, BeforeRename
<1>5. CASE ChildFails
  <2>1. DocsTypeOK' /\ docsJob' = NoDocsJob /\ slotOwner' = "none"
    BY <1>5 DEF ChildFails, EndDownload, Dead, Release
  <2> QED
    BY <2>1 DEF DownloadAt, RebuildAt, BeforeRename
<1>6. CASE SpawnErrors
  <2>1. DocsTypeOK' /\ docsJob' = NoDocsJob /\ slotOwner' = "none"
    BY <1>6 DEF SpawnErrors, Release
  <2> QED
    BY <2>1 DEF DownloadAt, RebuildAt, BeforeRename
<1> QED
  BY <1>1, <1>2, <1>3, <1>4, <1>5, <1>6 DEF Download

\* A rebuild that ends, with whatever phase, leaves no job and a free slot.
LEMMA EndRebuildKeeps ==
    ASSUME DocsInv, NEW phase \in Terminal, EndRebuild(phase)
    PROVE  DocsInv'
<1>1. DocsTypeOK' /\ docsJob' = NoDocsJob /\ slotOwner' = "none"
  BY NoDocsJobType DEF DocsInv, DocsTypeOK, Phases, EndRebuild, Dead, Release
<1> QED
  BY <1>1, NoDocsJobType DEF DocsInv, DownloadAt, RebuildAt, BeforeRename

\* A step inside the rebuild keeps the invariant if it keeps the types, stays
\* inside, and leaves the index alone until the first rename.
LEMMA InsideRebuildKeeps ==
    ASSUME DocsInv, DocsTypeOK', docsJob.pc \in RebuildAt, docsJob'.pc \in RebuildAt,
           slotOwner' = slotOwner, docsJob'.before = docsJob.before,
           docsJob'.pc \in BeforeRename => docsJob.pc \in BeforeRename /\ index' = index
    PROVE  DocsInv'
BY DEF DocsInv, DownloadAt, RebuildAt, BeforeRename

\* The steps of the rebuild keep the invariant.
LEMMA RebuildKeeps ==
    ASSUME DocsInv, StartRebuild \/ Rebuild
    PROVE  DocsInv'
<1>1. CASE BatchCancelled \/ TooManyFailed \/ LimitedWrites \/ RebuildDone \/ RebuildThrows
  BY <1>1, EndRebuildKeeps
     DEF BatchCancelled, TooManyFailed, LimitedWrites, RebuildDone, RebuildThrows, Terminal
<1>0. DocsTypeOK
  BY DEF DocsInv
<1> USE DocsBounds, NoDocsJobType DEF DocsTypeOK, Phases, Terminal, RebuildAt, BeforeRename
<1>2. CASE StartRebuild
  <2>1. jobs + 1 \in Nat
    BY <1>0
  <2> DEFINE build == jobs + 1
             made == [NoDocsJob EXCEPT !.pc = "load", !.before = index, !.build = build]
  <2>2. docsJob' \in DocsJobs /\ docsJob'.pc = "load" /\ docsJob'.before = index
    <3>0. build \in Nat /\ index \in Builds /\ "load" \in {"spawn", "load"}
      BY <1>0, <2>1
    <3> HIDE DEF build
    <3>1. made \in DocsJobs /\ made.pc = "load" /\ made.before = index
      BY ONLY <3>0, MadeJob
    <3> USE DEF build
    <3> QED
      BY <1>2, <3>1 DEF StartRebuild
  <2>3. DocsTypeOK'
    BY <1>0, <1>2, <2>1, <2>2 DEF StartRebuild, Claim
  <2> QED
    BY <1>2, <2>2, <2>3 DEF DocsInv, StartRebuild, Claim, DownloadAt
<1>3. CASE LoadFails \/ StagingFails
  <2>1. docsJob' = NoDocsJob /\ slotOwner' = "none"
    BY <1>3 DEF LoadFails, StagingFails, Release
  <2>2. liveJobs' \in [Kinds -> [phase : Phases, cancelled : BOOLEAN]]
    <3>1. [phase |-> "embed", cancelled |-> FALSE] \in [phase : Phases, cancelled : BOOLEAN]
      OBVIOUS
    <3>2. CASE liveJobs' = liveJobs
      BY <1>0, <3>2
    <3>3. CASE Runs("embed", "embed")
      BY <1>0, <3>1, <3>3 DEF Runs
    <3> QED
      BY <1>3, <3>2, <3>3 DEF LoadFails, StagingFails
  <2>3. DocsTypeOK'
    BY <1>0, <1>3, <2>1, <2>2 DEF LoadFails, StagingFails
  <2> QED
    BY <2>1, <2>3 DEF DocsInv, DownloadAt
<1>4. CASE Loaded
  <2>1. DocsTypeOK'
    BY <1>0, <1>4 DEF Loaded, Runs, Step, DocsJobs
  <2> QED
    BY <1>0, <1>4, <2>1, InsideRebuildKeeps DEF Loaded, Step, DocsJobs
<1>5. ASSUME NEW usable \in BOOLEAN, BatchEmbedded(usable) PROVE DocsInv'
  <2>0. PICK dim \in BOOLEAN : docsJob' = [docsJob EXCEPT !.start = @ + 1, !.limited = 0, !.dim = dim]
    <3>1. docsJob.dim \/ usable \in BOOLEAN
      OBVIOUS
    <3> QED
      BY <1>5, <3>1 DEF BatchEmbedded
  <2>1. docsJob.start + 1 \in 0 .. Batches /\ docsJob.pc = "batch"
    BY <1>0, <1>5 DEF BatchEmbedded, InBatches, DocsJobs
  <2>2. docsJob' \in DocsJobs /\ docsJob'.pc = "batch" /\ docsJob'.before = docsJob.before
    BY <1>0, <2>0, <2>1 DEF DocsJobs
  <2>3. DocsTypeOK'
    BY <1>0, <1>5, <2>2 DEF BatchEmbedded
  <2> QED
    BY <1>5, <2>1, <2>2, <2>3, InsideRebuildKeeps DEF BatchEmbedded
<1>6. ASSUME NEW rateLimited \in BOOLEAN, BatchFails(rateLimited) PROVE DocsInv'
  <2> DEFINE failed == docsJob.failed + 1
             limited == IF rateLimited THEN docsJob.limited + 1 ELSE docsJob.limited
             Inside(job) == job \in DocsJobs /\ job.pc \in BeforeRename /\ job.before = docsJob.before
  <2>1. /\ docsJob.start + 1 \in 0 .. Batches /\ docsJob.pc = "batch"
        /\ failed \in Nat /\ limited \in Nat
    BY <1>0, <1>6 DEF BatchFails, InBatches, DocsJobs
  <2>2. \/ docsJob' = [docsJob EXCEPT !.pc = "limited"]
        \/ docsJob' = [docsJob EXCEPT !.pc = "failed", !.failed = failed]
        \/ docsJob' = [docsJob EXCEPT !.start = @ + 1, !.failed = failed, !.limited = limited]
    BY <1>6 DEF BatchFails
  <2> HIDE DEF failed, limited
  <2>3. Inside([docsJob EXCEPT !.pc = "limited"])
    BY <1>0 DEF DocsJobs
  <2>4. Inside([docsJob EXCEPT !.pc = "failed", !.failed = failed])
    BY <1>0, <2>1 DEF DocsJobs
  <2>5. Inside([docsJob EXCEPT !.start = @ + 1, !.failed = failed, !.limited = limited])
    BY <1>0, <2>1 DEF DocsJobs
  <2>6. Inside(docsJob')
    BY <2>2, <2>3, <2>4, <2>5
  <2>7. DocsTypeOK'
    BY <1>0, <1>6, <2>6 DEF BatchFails
  <2> QED
    BY <1>6, <2>1, <2>6, <2>7, InsideRebuildKeeps DEF BatchFails
<1>7. CASE LimitedLeaves
  <2>1. DocsTypeOK'
    BY <1>0, <1>7 DEF LimitedLeaves, Dead, Step, DocsJobs
  <2> QED
    BY <1>0, <1>7, <2>1, InsideRebuildKeeps DEF LimitedLeaves, Step, DocsJobs
<1>8. CASE Finalize
  <2>1. DocsTypeOK'
    BY <1>0, <1>8 DEF Finalize, Step, Kinds, DocsJobs
  <2> QED
    BY <1>0, <1>8, <2>1, InsideRebuildKeeps DEF Finalize, Step, DocsJobs
<1>9. CASE RenameVectors \/ UpdateManifest
  <2>1. index' \in Builds
    BY <1>0, <1>9 DEF RenameVectors, UpdateManifest, Builds, DocsJobs
  <2>2. DocsTypeOK'
    BY <1>0, <1>9, <2>1 DEF RenameVectors, UpdateManifest, Step, DocsJobs
  <2> QED
    BY <1>0, <1>9, <2>2, InsideRebuildKeeps DEF RenameVectors, UpdateManifest, Step, DocsJobs
<1> QED
  BY <1>1, <1>2, <1>3, <1>4, <1>5, <1>6, <1>7, <1>8, <1>9 DEF Rebuild

\* Every step keeps the invariant.
LEMMA DocsStepInv == DocsInv /\ [DocsNext]_docsVars => DocsInv'
<1> SUFFICES ASSUME DocsInv, [DocsNext]_docsVars PROVE DocsInv'
  OBVIOUS
<1>1. CASE StartDownload \/ Download
  BY <1>1, DownloadKeeps
<1>2. CASE StartRebuild \/ Rebuild
  BY <1>2, RebuildKeeps
<1> USE DocsBounds, NoDocsJobType DEF DocsInv, DocsTypeOK
<1>3. CASE Cancel
  <2>1. PICK k \in Kinds : liveJobs' = [liveJobs EXCEPT ![k].cancelled = TRUE]
    BY <1>3 DEF Cancel
  <2>2. liveJobs' \in [Kinds -> [phase : Phases, cancelled : BOOLEAN]]
    BY <2>1
  <2> QED
    BY <1>3, <2>2 DEF Cancel
<1>4. CASE DocsCrash
  <2>1. DocsTypeOK' /\ docsJob' = NoDocsJob /\ slotOwner' = "none"
    BY <1>4 DEF DocsCrash
  <2> QED
    BY <2>1 DEF DownloadAt, RebuildAt, BeforeRename
<1>5. CASE UNCHANGED docsVars
  BY <1>5 DEF docsVars
<1> QED
  BY <1>1, <1>2, <1>3, <1>4, <1>5 DEF DocsNext

\* The types of the job, the slot and the index, and which step belongs to
\* which holder of the slot (docs-embed-rebuild.ts, onboarding-docs-index.ts).
THEOREM DocsInvAlways == DocsSpec => []DocsInv
BY DocsInitInv, DocsStepInv, PTL DEF DocsSpec

\* However jobs start, fail, are cancelled or killed, the slot is held exactly
\* while one is between claiming it and its end (onboarding-docs-index.ts,
\* claimJobSlot and releaseJobSlot).
THEOREM SlotFollowsJobAlways == DocsSpec => []SlotFollowsJob
<1>1. DocsInv => SlotFollowsJob
  BY DEF DocsInv, SlotFollowsJob, DownloadAt, NoDocsJob
<1> QED
  BY <1>1, DocsInvAlways, PTL

\* A rebuild that ends without being done has left both files as they were,
\* unless it ended between the two renames (docs-embed-rebuild.ts, runEmbedJob).
THEOREM UndoneRebuildLeavesIndexAlways == DocsSpec => UndoneRebuildLeavesIndex
<1> DEFINE Leaves ==
      slotOwner = "docs-embed-rebuild" /\ slotOwner' = "none" /\ stateFile' # "done"
         => index' = docsJob.before \/ docsJob.pc \in {"renameManifest", "finish"}
<1>1. ASSUME DocsInv, [DocsNext]_docsVars PROVE Leaves
  <2> SUFFICES ASSUME slotOwner = "docs-embed-rebuild", slotOwner' = "none",
                      docsJob.pc \notin {"renameManifest", "finish"}
               PROVE  index' = index
    BY <1>1 DEF DocsInv, RebuildAt
  <2>1. docsJob.pc \in BeforeRename
    BY <1>1 DEF DocsInv, RebuildAt
  <2> USE DEF BeforeRename
  <2>2. CASE StartDownload \/ StartRebuild
    BY <2>2 DEF StartDownload, StartRebuild, Claim
  <2>3. CASE Download
    BY <2>3, <2>1 DEF Download, Spawn, SpawnThrows, ChildInstalls, ChildSucceeds, ChildFails, SpawnErrors
  <2>4. CASE Rebuild
    BY <2>4, <2>1 DEF Rebuild, LoadFails, StagingFails, Loaded, BatchEmbedded, BatchFails, BatchCancelled, TooManyFailed,
                 LimitedLeaves, LimitedWrites, Finalize, RenameVectors, UpdateManifest, RebuildDone,
                 RebuildThrows, EndRebuild
  <2>5. CASE Cancel \/ DocsCrash \/ UNCHANGED docsVars
    BY <2>5 DEF Cancel, DocsCrash, docsVars
  <2> QED
    BY <1>1, <2>2, <2>3, <2>4, <2>5 DEF DocsNext
<1>2. DocsInv /\ [DocsNext]_docsVars => [Leaves]_docsVars
  BY <1>1
<1> QED
  BY <1>2, DocsInvAlways, PTL DEF DocsSpec, UndoneRebuildLeavesIndex

----------------------------------------------------------------------------
(***************************************************************************)
(* The review in the browser, for any students and any number of edits and *)
(* saves.                                                                  *)
(***************************************************************************)

Names == Reviewed \cup {NoStudent}
SessionRecords == [content : Nat, student : Names, generated : BOOLEAN]

Pages == [content : Nat, student : Names, id : ReviewIds \cup {0}, dirty : BOOLEAN,
          typed : BOOLEAN, generated : BOOLEAN, edits : Nat]
Saves == [pc : {"none", "put", "clear"}, session : SessionRecords, id : ReviewIds \cup {0}]
Disks == [current : SessionRecords, reviews : [ReviewIds -> SessionRecords], used : Nat]

SessionTypeOK == page \in Pages /\ timer \in SessionRecords /\ saving \in Saves /\ disk \in Disks

\* What EntriesKept needs: a pending auto-save of what was typed is of the last
\* edit; a save under way has captured what was typed, or an auto-save of a
\* later edit is pending; between its two writes its review is on the disk.
TypedCovered ==
    LET mine == Session(page.content)
    IN  /\ page.typed = TRUE /\ timer # Nothing => timer = mine
        /\ saving.pc # "none" => saving.id \in ReviewIds
        /\ saving.pc # "none" /\ page.typed = TRUE => mine \in {saving.session, timer}
        /\ saving.pc = "clear" => disk.reviews[saving.id] = saving.session

Kept ==
    page.typed = TRUE =>
        \/ Session(page.content) \in {timer, disk.current}
        \/ \E r \in ReviewIds : disk.reviews[r] = Session(page.content)

SessionInv == SessionTypeOK /\ TypedCovered /\ Kept

\* A step that leaves nothing typed in the page, and no save under way.
LEMMA UntypedKeeps ==
    ASSUME SessionTypeOK', page'.typed = FALSE,
           saving'.pc = "none" \/ (TypedCovered /\ saving' = saving /\ disk'.reviews = disk.reviews)
    PROVE  SessionInv'
BY DEF SessionInv, TypedCovered, Kept

\* The page as the session records it.
LEMMA SessionType ==
    ASSUME SessionTypeOK, NEW v \in Nat
    PROVE  Session(v) \in SessionRecords /\ Nothing \in SessionRecords /\ NotSaving \in Saves
BY DEF SessionTypeOK, SessionRecords, Saves, Session, Nothing, NotSaving, Names, Pages

\* The steps that write the page keep the types.
LEMMA PageTypes ==
    ASSUME SessionTypeOK, Edit \/ Undo \/ Generate \/ Reload \/ (\E r \in ReviewIds : LoadById(r))
                          \/ \E student \in Reviewed, same \in BOOLEAN : StartReview(student, same)
    PROVE  SessionTypeOK'
<1> USE DEF SessionTypeOK
<1>0. /\ page.edits \in Nat /\ page.content \in Nat /\ page.edits + 1 \in Nat
      /\ Session(page.content) \in SessionRecords /\ Nothing \in SessionRecords /\ NotSaving \in Saves
  BY SessionType DEF Pages
<1>1. CASE Edit
  <2> DEFINE e == page.edits + 1
  <2>1. /\ page' = [page EXCEPT !.content = e, !.edits = e, !.dirty = TRUE, !.typed = TRUE]
        /\ timer' = Session(e) /\ UNCHANGED <<saving, disk>>
    BY <1>1 DEF Edit, Arm
  <2>2. e \in Nat
    BY <1>0
  <2> HIDE DEF e
  <2>3. page' \in Pages
    BY <2>1, <2>2 DEF Pages
  <2> QED
    BY <2>1, <2>2, <2>3, SessionType
<1>2. CASE Undo
  <2>1. PICK v \in 0 .. page.edits : page' = [page EXCEPT !.content = v, !.dirty = TRUE, !.typed = FALSE]
    BY <1>2 DEF Undo
  <2>2. v \in Nat
    BY <1>0
  <2>3. page' \in Pages
    BY <2>1, <2>2 DEF Pages
  <2> QED
    BY <1>2, <2>3 DEF Undo
<1>3. CASE Generate
  <2>1. page' \in Pages
    BY <1>3 DEF Generate, Pages
  <2>2. [Session(page.content) EXCEPT !.generated = TRUE] \in SessionRecords
    BY <1>0 DEF SessionRecords
  <2>3. disk' \in Disks
    BY <1>3, <2>2 DEF Generate, Disks
  <2> QED
    BY <1>0, <1>3, <2>1, <2>3 DEF Generate
<1>4. ASSUME NEW session \in SessionRecords, NEW id \in ReviewIds \cup {0}, NEW dirty \in BOOLEAN, Open(session, id, dirty)
      PROVE  page' \in Pages
  BY <1>4 DEF Open, Pages, SessionRecords
<1>5. CASE Reload
  <2>1. disk.current \in SessionRecords /\ (disk.current # Nothing) \in BOOLEAN
    BY DEF Disks
  <2>2. Open(disk.current, 0, disk.current # Nothing)
    BY <1>5 DEF Reload
  <2>3. page' \in Pages
    BY <1>4, <2>1, <2>2
  <2> QED
    BY <1>0, <1>5, <2>3 DEF Reload
<1>6. ASSUME NEW r \in ReviewIds, LoadById(r) PROVE SessionTypeOK'
  <2>1. disk.reviews[r] \in SessionRecords /\ FALSE \in BOOLEAN
    BY DEF Disks
  <2>2. page' \in Pages
    BY <1>4, <1>6, <2>1 DEF LoadById
  <2> QED
    BY <1>6, <2>2 DEF LoadById
<1>7. ASSUME NEW student \in Reviewed, NEW same \in BOOLEAN, StartReview(student, same) PROVE SessionTypeOK'
  <2> DEFINE kept == same /\ page.generated
             content == IF same THEN page.content ELSE 0
             id == IF kept THEN page.id ELSE 0
             dirty == kept /\ page.dirty
  <2>1. /\ page' = [page EXCEPT !.student = student, !.content = content, !.typed = FALSE,
                                !.id = id, !.dirty = dirty, !.generated = kept]
        /\ timer' = (IF kept THEN timer ELSE Nothing) /\ UNCHANGED <<saving, disk>>
    BY <1>7 DEF StartReview
  <2>2. content \in Nat /\ id \in ReviewIds \cup {0} /\ dirty \in BOOLEAN /\ kept \in BOOLEAN /\ student \in Names
    BY <1>0 DEF Pages, Names
  <2> HIDE DEF content, id, dirty, kept
  <2>3. page' \in Pages
    BY <2>1, <2>2 DEF Pages
  <2> QED
    BY <1>0, <2>1, <2>3
<1> QED
  BY <1>1, <1>2, <1>3, <1>5, <1>6, <1>7

\* So do the steps that write the disk.
LEMMA DiskTypes ==
    ASSUME SessionTypeOK, TypedCovered, AutoSaved \/ Save \/ ClearAllData \/ \E r \in ReviewIds : DeleteReview(r)
    PROVE  SessionTypeOK'
<1> USE DEF SessionTypeOK
<1>0. /\ Nothing \in SessionRecords /\ Session(page.content) \in SessionRecords /\ NotSaving \in Saves
      /\ disk.used \in Nat
  BY SessionType DEF Pages, Disks
<1>1. CASE AutoSaved
  BY <1>0, <1>1 DEF AutoSaved, Disks
<1>2. CASE SaveStart
  <2>1. PICK id \in ReviewIds \cup {0} : saving' = [pc |-> "put", session |-> Session(page.content), id |-> id]
    <3>1. (IF page.id = 0 THEN disk.used + 1 ELSE page.id) \in ReviewIds
      BY <1>0, <1>2, SessionBounds DEF SaveStart, ReviewIds, Pages
    <3> QED
      BY <1>2, <3>1 DEF SaveStart
  <2>2. saving' \in Saves
    BY <1>0, <2>1 DEF Saves
  <2> QED
    BY <1>2, <2>2 DEF SaveStart
<1>3. CASE SavePut
  <2>1. saving.id \in ReviewIds /\ saving.session \in SessionRecords
    BY <1>3 DEF SavePut, TypedCovered, Saves
  <2>2. PICK used \in Nat : disk' = [disk EXCEPT !.reviews[saving.id] = saving.session, !.used = used]
    <3>1. (IF saving.id > disk.used THEN saving.id ELSE disk.used) \in Nat
      BY <1>0, <2>1 DEF ReviewIds
    <3> QED
      BY <1>3, <3>1 DEF SavePut
  <2>3. disk' \in Disks
    BY <2>1, <2>2 DEF Disks
  <2>4. page' \in Pages
    BY <1>3, <2>1 DEF SavePut, Pages
  <2>5. saving' \in Saves
    BY <1>3 DEF SavePut, Saves
  <2> QED
    BY <1>3, <2>3, <2>4, <2>5 DEF SavePut
<1>4. CASE SaveClear
  BY <1>0, <1>4 DEF SaveClear, Disks
<1>5. CASE ClearAllData
  <2>1. disk' \in Disks
    BY <1>0, <1>5 DEF ClearAllData, Disks
  <2>2. page' \in Pages
    BY <1>5 DEF ClearAllData, Pages
  <2> QED
    BY <1>5, <2>1, <2>2 DEF ClearAllData
<1>6. ASSUME NEW r \in ReviewIds, DeleteReview(r) PROVE SessionTypeOK'
  <2> DEFINE typed == page.typed /\ Session(page.content) # disk.reviews[r]
  <2>1. typed \in BOOLEAN
    OBVIOUS
  <2>2. page' = [page EXCEPT !.typed = typed]
    BY <1>6 DEF DeleteReview
  <2> HIDE DEF typed
  <2>3. page' \in Pages
    BY <2>1, <2>2 DEF Pages
  <2>4. disk' \in Disks
    BY <1>0, <1>6 DEF DeleteReview, Disks
  <2> QED
    BY <1>6, <2>3, <2>4 DEF DeleteReview
<1> QED
  BY <1>1, <1>2, <1>3, <1>4, <1>5, <1>6 DEF Save

\* No step loses what was typed.
LEMMA SessionStep == SessionInv /\ [SessionNext]_sessionVars => SessionInv'
<1> SUFFICES ASSUME SessionInv, [SessionNext]_sessionVars PROVE SessionInv'
  OBVIOUS
<1>0. SessionTypeOK /\ TypedCovered /\ Kept
  BY DEF SessionInv
<1>1. CASE Edit
  <2>1. SessionTypeOK'
    BY <1>0, <1>1, PageTypes
  <2> DEFINE e == page.edits + 1
  <2>2. /\ page' = [page EXCEPT !.content = e, !.edits = e, !.dirty = TRUE, !.typed = TRUE]
        /\ timer' = Session(e) /\ saving' = saving /\ disk' = disk
    BY <1>1 DEF Edit, Arm
  <2> HIDE DEF e
  <2>3. page'.content = e /\ page'.student = page.student /\ page'.generated = page.generated
    BY <1>0, <2>2 DEF SessionTypeOK, Pages
  <2>4. timer' = Session(page.content)'
    BY <2>2, <2>3 DEF Session
  <2> QED
    BY <1>0, <2>1, <2>2, <2>4 DEF SessionInv, TypedCovered, Kept
<1>2. CASE Undo \/ Reload \/ (\E r \in ReviewIds : LoadById(r)) \/ (\E student \in Reviewed, same \in BOOLEAN : StartReview(student, same))
  <2>1. SessionTypeOK'
    BY <1>0, <1>2, PageTypes
  <2>2. page'.typed = FALSE
    BY <1>0, <1>2 DEF Undo, Reload, LoadById, StartReview, Open, SessionTypeOK, Pages
  <2>3. saving'.pc = "none" \/ (saving' = saving /\ disk' = disk)
    <3>1. CASE Undo
      BY <3>1 DEF Undo
    <3>2. CASE Reload
      BY <3>2 DEF Reload, NotSaving
    <3>3. CASE \E r \in ReviewIds : LoadById(r)
      BY <3>3 DEF LoadById
    <3>4. CASE \E student \in Reviewed, same \in BOOLEAN : StartReview(student, same)
      BY <3>4 DEF StartReview
    <3> QED
      BY <1>2, <3>1, <3>2, <3>3, <3>4
  <2> QED
    BY <1>0, <2>1, <2>2, <2>3, UntypedKeeps
<1>3. CASE Generate
  <2>1. SessionTypeOK'
    BY <1>0, <1>3, PageTypes
  <2>2. /\ page'.content = page.content /\ page'.student = page.student /\ page'.generated = TRUE
        /\ disk'.current = [Session(page.content) EXCEPT !.generated = TRUE]
    BY <1>0, <1>3 DEF Generate, SessionTypeOK, Pages, Disks
  <2>3. timer' = Nothing /\ saving' = saving /\ saving.pc = "none"
    BY <1>3 DEF Generate, NotSaving
  <2>4. disk'.current = Session(page.content)'
    BY <2>2 DEF Session
  <2> QED
    BY <1>0, <2>1, <2>3, <2>4 DEF SessionInv, TypedCovered, Kept
<1>4. CASE AutoSaved \/ SaveStart \/ SavePut \/ SaveClear
  <2> DEFINE mine == Session(page.content)
  <2>1. SessionTypeOK'
    BY <1>0, <1>4, DiskTypes DEF Save
  <2>2. page'.typed = page.typed /\ Session(page.content)' = mine
    <3>1. /\ page'.typed = page.typed /\ page'.content = page.content /\ page'.student = page.student
          /\ page'.generated = page.generated
      BY <1>0, <1>4 DEF AutoSaved, SaveStart, SavePut, SaveClear, SessionTypeOK, Pages
    <3> QED
      BY <3>1 DEF Session
  <2> HIDE DEF mine
  <2>3. /\ page.typed = TRUE /\ timer # Nothing => timer = mine
        /\ saving.pc # "none" => saving.id \in ReviewIds
        /\ saving.pc # "none" /\ page.typed = TRUE => mine \in {saving.session, timer}
        /\ saving.pc = "clear" => disk.reviews[saving.id] = saving.session
        /\ page.typed = TRUE => mine \in {timer, disk.current} \/ \E r \in ReviewIds : disk.reviews[r] = mine
    BY <1>0 DEF TypedCovered, Kept, mine
  <2>4. CASE AutoSaved
    <3>1. /\ timer # Nothing /\ (saving.pc # "none" => timer = saving.session)
          /\ disk'.current = timer /\ disk'.reviews = disk.reviews
          /\ timer' = Nothing /\ saving' = saving
      BY <1>0, <2>4 DEF AutoSaved, SessionTypeOK, Pages, Saves, Disks
    <3> QED
      BY <2>1, <2>2, <2>3, <3>1 DEF SessionInv, TypedCovered, Kept
  <2>5. CASE SaveStart
    <3>1. /\ saving'.pc = "put" /\ saving'.session = mine /\ saving'.id \in ReviewIds
          /\ timer' = timer /\ disk' = disk
      <4>1. saving'.id = IF page.id = 0 THEN disk.used + 1 ELSE page.id
        BY <2>5 DEF SaveStart
      <4>2. saving'.id \in ReviewIds
        BY <1>0, <2>5, <4>1, SessionBounds DEF SaveStart, SessionTypeOK, Pages, Disks, ReviewIds
      <4> QED
        BY <2>5, <4>2 DEF SaveStart, mine
    <3> QED
      BY <2>1, <2>2, <2>3, <3>1 DEF SessionInv, TypedCovered, Kept
  <2>6. CASE SavePut
    <3>1. /\ saving'.pc = "clear" /\ saving'.session = saving.session /\ saving'.id = saving.id
          /\ saving.id \in ReviewIds
          /\ disk'.reviews[saving.id] = saving.session
          /\ disk'.current = disk.current
          /\ saving.pc # "none" /\ timer' = timer
      BY <1>0, <2>3, <2>6 DEF SavePut, SessionTypeOK, Pages, Saves, Disks
    <3> QED
      BY <2>1, <2>2, <2>3, <3>1 DEF SessionInv, TypedCovered, Kept
  <2>7. CASE SaveClear
    <3>1. /\ saving'.pc = "none" /\ saving.pc = "clear"
          /\ disk'.reviews = disk.reviews /\ timer' = timer
      BY <1>0, <2>7 DEF SaveClear, SessionTypeOK, NotSaving
    <3> QED
      BY <2>1, <2>2, <2>3, <3>1 DEF SessionInv, TypedCovered, Kept
  <2> QED
    BY <1>4, <2>4, <2>5, <2>6, <2>7
<1>5. CASE ClearAllData
  <2>1. SessionTypeOK'
    BY <1>0, <1>5, DiskTypes
  <2>2. page'.typed = FALSE /\ saving'.pc = "none"
    BY <1>0, <1>5 DEF ClearAllData, SessionTypeOK, NotSaving
  <2> QED
    BY <2>1, <2>2, UntypedKeeps
<1>6. ASSUME NEW r \in ReviewIds, DeleteReview(r) PROVE SessionInv'
  <2> DEFINE mine == Session(page.content)
  <2>1. SessionTypeOK'
    BY <1>0, <1>6, DiskTypes
  <2>2. /\ page'.typed = TRUE => page.typed = TRUE /\ mine # disk.reviews[r]
        /\ Session(page.content)' = mine
        /\ disk'.current = disk.current /\ timer' = timer /\ saving' = saving /\ saving.pc = "none"
        /\ \A q \in ReviewIds \ {r} : disk'.reviews[q] = disk.reviews[q]
    <3> DEFINE typed == page.typed /\ mine # disk.reviews[r]
    <3>1. page' = [page EXCEPT !.typed = typed]
      BY <1>6 DEF DeleteReview
    <3>2. typed = TRUE => page.typed = TRUE /\ mine # disk.reviews[r]
      BY <1>0 DEF SessionTypeOK, Pages
    <3> HIDE DEF typed
    <3>3. /\ page'.typed = typed /\ page'.content = page.content /\ page'.student = page.student
          /\ page'.generated = page.generated
      BY <1>0, <3>1 DEF SessionTypeOK, Pages
    <3>4. Session(page.content)' = mine
      BY <3>3 DEF Session
    <3> HIDE DEF mine
    <3>5. /\ disk'.current = disk.current /\ timer' = timer /\ saving' = saving /\ saving.pc = "none"
          /\ \A q \in ReviewIds \ {r} : disk'.reviews[q] = disk.reviews[q]
      BY <1>0, <1>6 DEF DeleteReview, SessionTypeOK, Disks, NotSaving
    <3> QED
      BY <3>2, <3>3, <3>4, <3>5
  <2> HIDE DEF mine
  <2>3. /\ page.typed = TRUE /\ timer # Nothing => timer = mine
        /\ page.typed = TRUE => mine \in {timer, disk.current} \/ \E q \in ReviewIds : disk.reviews[q] = mine
    BY <1>0 DEF TypedCovered, Kept, mine
  <2> QED
    BY <2>1, <2>2, <2>3 DEF SessionInv, TypedCovered, Kept
<1>7. CASE UNCHANGED sessionVars
  BY <1>0, <1>7 DEF sessionVars, SessionInv, SessionTypeOK, TypedCovered, Kept, Session
<1> QED
  BY <1>1, <1>2, <1>3, <1>4, <1>5, <1>6, <1>7 DEF SessionNext, Save

\* What the teacher has entered since a review was opened is never in the page
\* alone, for any number of edits, saves and students (stores/review,
\* stores/session, services/db): neither the auto-save that is not cleared by
\* a save nor the draft that the save deletes loses it.
THEOREM EntriesKeptAlways == SessionSpec => []EntriesKept
<1>1. SessionInit => SessionInv
  <2>1. SessionInit => SessionTypeOK
    <3>1. NoStudent \in Names /\ Nothing \in SessionRecords
      BY DEF Nothing, SessionRecords, Names
    <3>2. NotSaving \in Saves
      BY <3>1 DEF NotSaving, Saves
    <3> QED
      BY <3>1, <3>2 DEF SessionInit, SessionTypeOK, Pages, Disks
  <2>2. SessionInit => page.typed = FALSE /\ saving.pc = "none"
    BY DEF SessionInit, NotSaving
  <2> QED
    BY <2>1, <2>2 DEF SessionInv, TypedCovered, Kept
<1>2. SessionInv => EntriesKept
  BY DEF SessionInv, Kept, EntriesKept
<1> QED
  BY <1>1, <1>2, SessionStep, PTL DEF SessionSpec

----------------------------------------------------------------------------
(***************************************************************************)
(* The page of the plagiarism check, for any assignments and any number of *)
(* calls under way.                                                        *)
(***************************************************************************)

CallAnswers == [of : Shown \cup {"none"}, revision : Nat]
ReviewCalls == [op : {"none", "load", "run", "setStatus", "done"}, seq : Nat, of : Shown \cup {"none"},
          answered : BOOLEAN, answer : CallAnswers]

Views == [of : Shown \cup {"none"}, revision : Nat, status : {"idle", "loading", "error"}]
Lasts == [of : Shown \cup {"none"}, alone : BOOLEAN, answer : CallAnswers]

PageTypeOK ==
    /\ view \in Views
    /\ flights \in [Flights -> ReviewCalls]
    /\ loadSeq \in Nat
    /\ revision \in [Shown -> Nat]
    /\ last \in Lasts
    /\ \A c \in Pending : flights[c].of \in Shown

\* The call under way that loads what was asked for last.
Latest(c) == flights[c].op = "load" /\ flights[c].seq = loadSeq

ShowsLast ==
    /\ view.of = last.answer.of
    /\ view.revision = last.answer.revision

\* What LastLoadWins needs: sequence numbers are not handed out twice, only
\* loads have one; while only loads have been made, an idle page shows the
\* answer to the last, which is no longer under way, and the answer on its
\* way is the one the server gave.
LoadsOrdered ==
    /\ \A c \in Flights : flights[c].seq <= loadSeq
    /\ \A c, d \in Flights : Latest(c) /\ Latest(d) => c = d
    /\ last.alone = TRUE =>
          /\ \A c \in Flights : flights[c].op \in {"none", "load", "done"}
          /\ view.status = "idle" => ShowsLast
          /\ \A c \in Flights : Latest(c) =>
                /\ view.status # "idle"
                /\ flights[c].answered = TRUE => flights[c].answer = last.answer

PageInv == PageTypeOK /\ LoadsOrdered

\* A call the page posts is the first of those not sent.
PostedBy(op, a, seq) ==
    \E c \in Flights :
       /\ flights[c].op = "none"
       /\ flights' \in [Flights -> ReviewCalls]
       /\ flights'[c].op = op /\ flights'[c].of = a /\ flights'[c].seq = seq /\ flights'[c].answered = FALSE
       /\ \A d \in Flights \ {c} : flights'[d] = flights[d]

\* A call of the review is posted to a flight that was free.
LEMMA Posted ==
    ASSUME PageTypeOK, NEW op, op \in {"load", "run", "setStatus"}, NEW a, a \in Shown, NEW seq, seq \in Nat,
           Post(op, a, seq)
    PROVE  PostedBy(op, a, seq)
<1>1. PICK c \in Flights : /\ flights[c].op = "none"
                           /\ flights' = [flights EXCEPT ![c] = [NoCallMade EXCEPT !.op = op, !.of = a, !.seq = seq]]
  BY DEF Post, Unsent
<1> DEFINE made == [NoCallMade EXCEPT !.op = op, !.of = a, !.seq = seq]
<1>2. NoCallMade \in ReviewCalls /\ NoCallMade.answered = FALSE
  BY DEF NoCallMade, NoAnswer, ReviewCalls, CallAnswers
<1>3. made \in ReviewCalls /\ made.op = op /\ made.of = a /\ made.seq = seq /\ made.answered = NoCallMade.answered
  BY <1>2 DEF ReviewCalls
<1> HIDE DEF made
<1> QED
  BY <1>1, <1>2, <1>3 DEF PageTypeOK, PostedBy, made

\* A load takes a sequence number of its own.
LEMMA LoadKeeps ==
    ASSUME PageInv, NEW a \in Shown, Load(a)
    PROVE  PageInv'
<1>0. PageTypeOK /\ LoadsOrdered /\ loadSeq + 1 \in Nat
  BY DEF PageInv, PageTypeOK
<1>1. PICK c \in Flights :
              /\ flights[c].op = "none"
              /\ flights' \in [Flights -> ReviewCalls]
              /\ flights'[c].op = "load" /\ flights'[c].of = a /\ flights'[c].seq = loadSeq + 1 /\ flights'[c].answered = FALSE
              /\ \A d \in Flights \ {c} : flights'[d] = flights[d]
  <2> DEFINE seq == loadSeq + 1
  <2>1. Post("load", a, seq) /\ seq \in Nat /\ "load" \in {"load", "run", "setStatus"}
    BY <1>0 DEF Load
  <2> HIDE DEF seq
  <2>2. PostedBy("load", a, seq)
    BY <1>0, <2>1, Posted
  <2> QED
    BY <2>2 DEF seq, PostedBy
<1> DEFINE alone == \A d \in Pending : flights[d].op = "load"
<1>2. /\ loadSeq' = loadSeq + 1 /\ revision' = revision
      /\ view' = [view EXCEPT !.status = "loading"]
      /\ last' = [of |-> a, alone |-> alone, answer |-> NoAnswer]
  BY DEF Load, Post
<1>3. alone \in BOOLEAN /\ (alone = TRUE => \A d \in Flights : flights[d].op \in {"none", "load", "done"})
  BY <1>0 DEF PageTypeOK, ReviewCalls, Pending
<1>4. NoAnswer \in CallAnswers
  BY DEF NoAnswer, CallAnswers
<1> HIDE DEF alone
<1>5. /\ last'.alone = alone /\ last' \in Lasts
      /\ view' \in Views
      /\ view'.status = "loading"
  BY <1>0, <1>2, <1>3, <1>4 DEF PageTypeOK, Views, Lasts
<1>6. PageTypeOK'
  BY <1>0, <1>1, <1>2, <1>5 DEF PageTypeOK, Pending
<1>7. \A d \in Flights : flights[d].seq \in Nat /\ flights[d].seq <= loadSeq
  BY <1>0 DEF PageTypeOK, ReviewCalls, LoadsOrdered
<1>8. \A d \in Flights : d # c => ~Latest(d)' /\ flights'[d].seq <= loadSeq'
  BY <1>0, <1>1, <1>2, <1>7 DEF Latest, PageTypeOK
<1>9. LoadsOrdered'
  <2>1. \A d \in Flights : flights'[d].seq <= loadSeq'
    BY <1>0, <1>1, <1>2, <1>8
  <2>2. \A d, e \in Flights : Latest(d)' /\ Latest(e)' => d = e
    BY <1>8
  <2>3. last'.alone = TRUE => \A d \in Flights : flights'[d].op \in {"none", "load", "done"}
    BY <1>1, <1>3, <1>5
  <2> QED
    BY <1>1, <1>5, <1>8, <2>1, <2>2, <2>3 DEF LoadsOrdered
<1> QED
  BY <1>6, <1>9 DEF PageInv

\* A check or a review carries no sequence number.
LEMMA ChangeKeeps ==
    ASSUME PageInv, NEW a \in Shown, NEW op \in {"run", "setStatus"}, Change(op, a)
    PROVE  PageInv'
<1>0. PageTypeOK /\ LoadsOrdered
  BY DEF PageInv
<1>1. PICK c \in Flights :
              /\ flights[c].op = "none"
              /\ flights' \in [Flights -> ReviewCalls]
              /\ flights'[c].op = op /\ flights'[c].of = a /\ flights'[c].seq = 0 /\ flights'[c].answered = FALSE
              /\ \A d \in Flights \ {c} : flights'[d] = flights[d]
  <2>1. Post(op, a, 0) /\ 0 \in Nat /\ op \in {"load", "run", "setStatus"}
    BY DEF Change
  <2>2. PostedBy(op, a, 0)
    BY <1>0, <2>1, Posted
  <2> QED
    BY <2>2 DEF PostedBy
<1>2. /\ loadSeq' = loadSeq /\ revision' = revision /\ view' = view
      /\ last' = [last EXCEPT !.alone = FALSE]
  BY DEF Change, Post
<1>3. last'.alone = FALSE /\ last' \in Lasts
  BY <1>0, <1>2 DEF PageTypeOK, Lasts
<1>4. \A d \in Flights : Latest(d)' => d # c /\ Latest(d)
  BY <1>1, <1>2 DEF Latest
<1>5. \A d \in Flights : flights'[d].seq <= loadSeq'
  BY <1>0, <1>1, <1>2 DEF LoadsOrdered, PageTypeOK
<1> QED
  BY <1>0, <1>1, <1>2, <1>3, <1>4, <1>5 DEF PageInv, PageTypeOK, LoadsOrdered, Pending

\* The server's answer to the last load is what the page has yet to show.
LEMMA AnswerKeeps ==
    ASSUME PageInv, NEW c \in Flights, ServerAnswers(c)
    PROVE  PageInv'
<1>0. PageTypeOK /\ LoadsOrdered
  BY DEF PageInv
<1>1. PICK answer, new :
        /\ new = IF flights[c].op = "load" THEN revision[flights[c].of] ELSE revision[flights[c].of] + 1
        /\ answer = IF new = 0 THEN NoAnswer ELSE [of |-> flights[c].of, revision |-> new]
        /\ revision' = [revision EXCEPT ![flights[c].of] = new]
        /\ flights' = [flights EXCEPT ![c].answered = TRUE, ![c].answer = answer]
        /\ last' = IF flights[c].seq = loadSeq THEN [last EXCEPT !.answer = answer] ELSE last
  BY DEF ServerAnswers
<1>2. /\ c \in Pending /\ view' = view /\ loadSeq' = loadSeq
      /\ flights[c].op \in {"load", "run", "setStatus"}
  BY DEF ServerAnswers, Pending
<1>3. flights[c].of \in Shown /\ new \in Nat /\ answer \in CallAnswers
  <2>1. flights[c].of \in Shown /\ revision[flights[c].of] \in Nat
    BY <1>0, <1>2 DEF PageTypeOK
  <2>2. new \in Nat
    BY <1>1, <2>1
  <2> QED
    BY <1>1, <2>1, <2>2 DEF CallAnswers, NoAnswer
<1>4. /\ flights' \in [Flights -> ReviewCalls]
      /\ flights'[c].op = flights[c].op /\ flights'[c].seq = flights[c].seq /\ flights'[c].of = flights[c].of
      /\ flights'[c].answer = answer
      /\ \A d \in Flights \ {c} : flights'[d] = flights[d]
  BY <1>0, <1>1, <1>3 DEF PageTypeOK, ReviewCalls
<1>5. /\ last' \in Lasts /\ last'.alone = last.alone
      /\ last'.answer = IF flights[c].seq = loadSeq THEN answer ELSE last.answer
  BY <1>0, <1>1, <1>3 DEF PageTypeOK, Lasts
<1>6. revision' \in [Shown -> Nat]
  BY <1>0, <1>1, <1>3 DEF PageTypeOK
<1>7. PageTypeOK'
  BY <1>0, <1>2, <1>4, <1>5, <1>6 DEF PageTypeOK, Pending
<1>8. \A d \in Flights : Latest(d)' <=> Latest(d)
  BY <1>2, <1>4 DEF Latest
<1>9. CASE flights[c].seq # loadSeq \/ last.alone = FALSE
  <2>1. last.alone = TRUE => last'.answer = last.answer /\ ~Latest(c)
    BY <1>5, <1>9 DEF Latest
  <2> QED
    BY <1>0, <1>2, <1>4, <1>5, <1>7, <1>8, <2>1 DEF PageInv, LoadsOrdered, ShowsLast
<1>10. CASE flights[c].seq = loadSeq /\ last.alone = TRUE
  <2>1. Latest(c)
    BY <1>0, <1>2, <1>10 DEF LoadsOrdered, Latest
  <2>2. view.status # "idle" /\ \A d \in Flights : Latest(d) => d = c
    BY <1>0, <1>10, <2>1 DEF LoadsOrdered
  <2> QED
    BY <1>0, <1>2, <1>4, <1>5, <1>7, <1>8, <1>10, <2>2 DEF PageInv, LoadsOrdered
<1> QED
  BY <1>0, <1>9, <1>10 DEF PageTypeOK, Lasts

\* A call that lands, on a page that shows what it shows.
LEMMA LandKeeps ==
    ASSUME PageInv, NEW c \in Flights, c \in Pending, Landed(c), view' \in Views,
           \/ view' = view /\ ~Latest(c)
           \/ view'.status = "error"
           \/ Latest(c) /\ flights[c].answered = TRUE
                /\ view' = [of |-> flights[c].answer.of, revision |-> flights[c].answer.revision, status |-> "idle"]
           \/ flights[c].op # "load"
    PROVE  PageInv'
<1>0. PageTypeOK /\ LoadsOrdered
  BY DEF PageInv
<1>1. /\ flights' = [flights EXCEPT ![c].op = "done"]
      /\ loadSeq' = loadSeq /\ revision' = revision /\ last' = last
  BY DEF Landed
<1>2. /\ flights' \in [Flights -> ReviewCalls]
      /\ flights'[c].op = "done" /\ flights'[c].seq = flights[c].seq
      /\ \A d \in Flights \ {c} : flights'[d] = flights[d]
  BY <1>0, <1>1 DEF PageTypeOK, ReviewCalls
<1>3. PageTypeOK'
  BY <1>0, <1>1, <1>2 DEF PageTypeOK, Pending
<1>4. \A d \in Flights : Latest(d)' => d # c /\ Latest(d)
  BY <1>1, <1>2 DEF Latest
<1>5. last.alone = TRUE => flights[c].op = "load"
  BY <1>0 DEF LoadsOrdered, Pending
<1>6. ASSUME last.alone = TRUE, view'.status = "idle"
      PROVE  ShowsLast' /\ \A d \in Flights : ~Latest(d)'
  <2>1. CASE view' = view /\ ~Latest(c)
    BY <1>0, <1>1, <1>4, <1>6, <2>1 DEF LoadsOrdered, ShowsLast
  <2>2. CASE Latest(c) /\ flights[c].answered = TRUE
                /\ view' = [of |-> flights[c].answer.of, revision |-> flights[c].answer.revision, status |-> "idle"]
    BY <1>0, <1>1, <1>4, <1>6, <2>2 DEF LoadsOrdered, ShowsLast
  <2> QED
    BY <1>5, <1>6, <2>1, <2>2
<1> QED
  BY <1>0, <1>1, <1>2, <1>3, <1>4, <1>6 DEF PageInv, LoadsOrdered

\* Every step keeps the loads in order.
LEMMA PageStep ==
    ASSUME PageInv, PagePart
    PROVE  PageInv'
<1>0. PageTypeOK /\ \A c \in Flights : flights[c].answer \in CallAnswers
  BY DEF PageInv, PageTypeOK, ReviewCalls
<1>1. ASSUME NEW answer \in CallAnswers, Show(answer, "idle")
      PROVE  view' \in Views /\ view' = [of |-> answer.of, revision |-> answer.revision, status |-> "idle"]
  BY <1>1 DEF Show, Views, CallAnswers
<1>2. ASSUME NEW c \in Flights, LoadedResult(c) PROVE PageInv'
  <2>1. c \in Pending /\ flights[c].op = "load" /\ flights[c].answered = TRUE /\ Landed(c)
    BY <1>0, <1>2 DEF LoadedResult, Pending, PageTypeOK, ReviewCalls
  <2>2. CASE flights[c].seq = loadSeq
    <3>1. Show(flights[c].answer, "idle") /\ Latest(c)
      BY <1>2, <2>1, <2>2 DEF LoadedResult, Latest
    <3> QED
      BY <1>0, <1>1, <2>1, <3>1, LandKeeps
  <2>3. CASE flights[c].seq # loadSeq
    <3>1. view' = view /\ ~Latest(c)
      BY <1>2, <2>1, <2>3 DEF LoadedResult, Latest
    <3> QED
      BY <1>0, <2>1, <3>1, LandKeeps DEF PageTypeOK
  <2> QED
    BY <2>2, <2>3
<1>3. ASSUME NEW c \in Flights, Changed(c) PROVE PageInv'
  <2>1. c \in Pending /\ flights[c].op # "load" /\ Landed(c)
    BY <1>3 DEF Changed, Pending
  <2>2. view' \in Views
    BY <1>0, <1>3 DEF Changed, Show, Views, CallAnswers, PageTypeOK
  <2> QED
    BY <2>1, <2>2, LandKeeps
<1>4. ASSUME NEW c \in Flights, CallLost(c) PROVE PageInv'
  <2>1. c \in Pending /\ Landed(c)
    BY <1>4 DEF CallLost
  <2>2. CASE view' = [view EXCEPT !.status = "error"]
    <3>1. view' \in Views /\ view'.status = "error"
      BY <1>0, <2>2 DEF PageTypeOK, Views
    <3> QED
      BY <2>1, <3>1, LandKeeps
  <2>3. CASE view' = view /\ ~Latest(c)
    BY <1>0, <2>1, <2>3, LandKeeps DEF PageTypeOK
  <2> QED
    BY <1>4, <2>2, <2>3 DEF CallLost, Latest
<1> QED
  BY <1>2, <1>3, <1>4, LoadKeeps, ChangeKeeps, AnswerKeeps DEF PagePart

\* However the answers to loads for different assignments overtake each other,
\* once no call is under way and unless a check or a review was, the page
\* shows the answer to the last load (services/plagiarism-store, loadSequence).
THEOREM LastLoadWinsAlways == PlagiarismSpec => []LastLoadWins
<1>1. PlagiarismInit => PageInv
  <2>1. NoCallMade \in ReviewCalls /\ NoCallMade.op = "none" /\ NoCallMade.seq = 0 /\ NoAnswer \in CallAnswers
    BY DEF NoCallMade, NoAnswer, ReviewCalls, CallAnswers
  <2>2. PlagiarismInit => PageTypeOK
    BY <2>1 DEF PlagiarismInit, PageTypeOK, Views, Lasts, Pending
  <2>3. PlagiarismInit => LoadsOrdered
    BY <2>1 DEF PlagiarismInit, LoadsOrdered, Latest, ShowsLast, NoAnswer
  <2> QED
    BY <2>2, <2>3 DEF PageInv
<1>2. PageInv /\ [PlagiarismNext]_plagiarismVars => PageInv'
  <2>1. PageInv /\ UNCHANGED pageVars => PageInv'
    BY DEF pageVars, PageInv, PageTypeOK, LoadsOrdered, Latest, ShowsLast, Pending
  <2>2. ServerPart => UNCHANGED pageVars
    BY DEF ServerPart, Begun, HandlerStep, CheckAssignment, Review, Move, Delete, Upload, Handle,
           ReadResult, WriteResult, WriteMarkdown, End
  <2>3. UNCHANGED plagiarismVars => UNCHANGED pageVars
    BY DEF plagiarismVars
  <2> QED
    BY <2>1, <2>2, <2>3, PageStep DEF PlagiarismNext
<1>3. PageInv => LastLoadWins
  <2> SUFFICES ASSUME PageInv, last.alone = TRUE, view.status = "idle"
               PROVE  view = [of |-> last.answer.of, revision |-> last.answer.revision, status |-> "idle"]
    BY DEF LastLoadWins, PageInv, PageTypeOK, Lasts
  <2> QED
    BY DEF PageInv, PageTypeOK, LoadsOrdered, ShowsLast, Views
<1> QED
  BY <1>1, <1>2, <1>3, PTL DEF PlagiarismSpec

----------------------------------------------------------------------------
(***************************************************************************)
(* The server of the plagiarism check, for any students and notebooks,     *)
(* when requests come one at a time.                                       *)
(***************************************************************************)

OneHandler == \A g, h \in Handlers : g = h

Reviewings == UNION {[D -> ReviewStatuses] : D \in SUBSET (Students \X Students)}
Stored == [exists : BOOLEAN, pairs : Reviewings]
HandlerLocals == [op : {"none", "check", "review", "archived", "active", "delete"},
                  pc : {"free", "read", "write", "markdown", "end"},
                  student : Nat, held : Stored]

CheckTypeOK ==
    /\ enrolled \in [Students -> {"active", "archived", "deleted"}]
    /\ cache \in Stored
    /\ cache.exists = FALSE => DOMAIN cache.pairs = {}
    /\ handler \in [Handlers -> HandlerLocals]

\* No pair of a stored result is of a deleted student, nor of one who is being
\* deleted once the result has been read for that.
Forgets(result) == \A p \in DOMAIN result.pairs : enrolled[p[1]] # "deleted" /\ enrolled[p[2]] # "deleted"
Spares(result, s) == \A p \in DOMAIN result.pairs : ~Involves(p, s)

\* What DeletedForgotten needs: the result is clean at every step, the one a
\* handler holds as well, and of the student to be deleted before the row goes.
CheckInv ==
    /\ CheckTypeOK
    /\ Forgets(cache)
    /\ \A h \in Handlers :
          /\ handler[h].op = "delete" => handler[h].student \in Students
          /\ handler[h].pc = "free" => handler[h] = Free
          /\ handler[h].pc = "write" => Forgets(handler[h].held)
          /\ handler[h].pc = "write" => handler[h].held.exists = TRUE
          /\ handler[h].op = "delete" /\ handler[h].pc = "write" => Spares(handler[h].held, handler[h].student)
          /\ handler[h].op = "delete" /\ handler[h].pc \in {"markdown", "end"} => Spares(cache, handler[h].student)

\* A result is a record of pairs.
LEMMA StoredType ==
    /\ NoResult \in Stored /\ NoResult.exists = FALSE /\ DOMAIN NoResult.pairs = {}
    /\ Free \in HandlerLocals /\ Free.pc = "free" /\ Free.op = "none"
    /\ \A pairs \in Reviewings : /\ Result(pairs) \in Stored
                                 /\ Result(pairs).pairs = pairs /\ Result(pairs).exists = TRUE
    /\ \A D \in SUBSET (Students \X Students) : \A f \in [D -> ReviewStatuses] : f \in Reviewings /\ DOMAIN f = D
<1>1. <<>> \in [{} -> ReviewStatuses]
  OBVIOUS
<1>2. \A D \in SUBSET (Students \X Students) : \A f \in [D -> ReviewStatuses] : f \in Reviewings /\ DOMAIN f = D
  BY DEF Reviewings
<1>3. <<>> \in Reviewings /\ DOMAIN <<>> = {}
  BY <1>1, <1>2
<1>4. \A pairs \in Reviewings : /\ Result(pairs) \in Stored
                                /\ Result(pairs).pairs = pairs /\ Result(pairs).exists = TRUE
  BY DEF Result, Stored
<1>5. NoResult \in Stored /\ NoResult.exists = FALSE /\ DOMAIN NoResult.pairs = {}
  BY <1>3 DEF NoResult, Stored
<1>6. Free \in HandlerLocals /\ Free.pc = "free" /\ Free.op = "none"
  BY <1>5 DEF Free, HandlerLocals
<1> QED
  BY <1>2, <1>4, <1>5, <1>6

\* A request that begins.
Began(h, op, pc, student, held) ==
    /\ handler[h].op = "none" /\ handler[h].pc = "free"
    /\ handler' \in [Handlers -> HandlerLocals]
    /\ handler'[h].op = op /\ handler'[h].pc = pc /\ handler'[h].student = student /\ handler'[h].held = held

\* A handler of the plagiarism routes begins where the last one has ended.
LEMMA HandleBegins ==
    ASSUME CheckInv, NEW h \in Handlers,
           NEW op, op \in {"check", "review", "archived", "active", "delete"},
           NEW pc, pc \in {"read", "write"}, NEW student, student \in Nat, NEW held, held \in Stored,
           Handle(h, op, pc, student, held)
    PROVE  Began(h, op, pc, student, held)
<1>1. handler[h].op = "none" /\ handler[h].pc = "free"
  BY StoredType DEF Handle
<1>2. handler' = [handler EXCEPT ![h] = [op |-> op, pc |-> pc, student |-> student, held |-> held]]
  BY DEF Handle
<1>3. [op |-> op, pc |-> pc, student |-> student, held |-> held] \in HandlerLocals
  BY DEF HandlerLocals
<1> QED
  BY <1>1, <1>2, <1>3 DEF CheckInv, CheckTypeOK, Began

\* A request begins.
LEMMA BegunKeeps ==
    ASSUME OneHandler, CheckInv, NEW h \in Handlers, Begun(h)
    PROVE  CheckInv'
<1>0. CheckTypeOK /\ Forgets(cache) /\ \A g \in Handlers : g = h
  BY DEF OneHandler, CheckInv
<1>1. CASE CheckAssignment(h)
  <2> DEFINE pairs == [p \in FlagPairs(Active) |-> "unreviewed"]
  <2>1. FlagPairs(Active) \in SUBSET (Students \X Students) /\ \A p \in FlagPairs(Active) : p[1] \in Active /\ p[2] \in Active
    BY DEF FlagPairs, Pairs, Active
  <2>2. pairs \in Reviewings /\ DOMAIN pairs = FlagPairs(Active)
    BY <2>1, StoredType DEF ReviewStatuses
  <2> HIDE DEF pairs
  <2>3. /\ Result(pairs) \in Stored /\ Result(pairs).pairs = pairs /\ Result(pairs).exists = TRUE
        /\ Handle(h, "check", "write", 0, Result(pairs)) /\ UNCHANGED <<enrolled, cache>>
    BY <1>1, <2>2, StoredType DEF CheckAssignment, pairs
  <2>4. Began(h, "check", "write", 0, Result(pairs))
    BY <2>3, HandleBegins
  <2>5. Forgets(Result(pairs)) /\ \A p \in FlagPairs(Active) : enrolled[p[1]] # "deleted" /\ enrolled[p[2]] # "deleted"
    BY <2>1, <2>2, <2>3 DEF Forgets, Active
  <2> QED
    BY <1>0, <2>3, <2>4, <2>5 DEF CheckInv, CheckTypeOK, Began, Forgets, Spares
<1>2. ASSUME NEW p \in DOMAIN cache.pairs, NEW status \in ReviewStatuses, Review(h, p, status)
      PROVE  CheckInv'
  <2> DEFINE held == [cache EXCEPT !.pairs[p] = status]
  <2>1. held \in Stored /\ held.exists = cache.exists /\ DOMAIN held.pairs = DOMAIN cache.pairs
    <3>1. PICK D \in SUBSET (Students \X Students) : cache.pairs \in [D -> ReviewStatuses]
      BY <1>0 DEF CheckTypeOK, Stored, Reviewings
    <3>2. [cache.pairs EXCEPT ![p] = status] \in [D -> ReviewStatuses]
      BY <3>1
    <3>3. [cache.pairs EXCEPT ![p] = status] \in Reviewings
      BY <3>2, StoredType
    <3>4. held = [cache EXCEPT !.pairs = [cache.pairs EXCEPT ![p] = status]]
      BY <1>0 DEF CheckTypeOK, Stored
    <3> QED
      BY <1>0, <3>1, <3>2, <3>3, <3>4 DEF CheckTypeOK, Stored
  <2>2. cache.exists = TRUE
    BY <1>0, <1>2 DEF CheckTypeOK, Stored
  <2> HIDE DEF held
  <2>3. Handle(h, "review", "write", 0, held) /\ UNCHANGED <<enrolled, cache>>
    BY <1>2 DEF Review, held
  <2>4. Began(h, "review", "write", 0, held)
    BY <2>1, <2>3, HandleBegins
  <2>5. Forgets(held)
    BY <1>0, <2>1 DEF Forgets
  <2> QED
    BY <1>0, <2>1, <2>2, <2>3, <2>4, <2>5 DEF CheckInv, CheckTypeOK, Began, Forgets, Spares
<1>3. ASSUME NEW s \in Students, NEW from \in {"active", "archived"}, NEW to \in {"active", "archived"}, Move(h, s, from, to)
      PROVE  CheckInv'
  <2>1. s \in Nat
    BY PlagiarismBounds DEF Students
  <2>2. /\ Handle(h, to, "read", s, NoResult) /\ cache' = cache
        /\ enrolled[s] = from /\ enrolled' = [enrolled EXCEPT ![s] = to]
    BY <1>3 DEF Move
  <2>3. Began(h, to, "read", s, NoResult)
    BY <2>1, <2>2, HandleBegins, StoredType
  <2>4. Forgets(cache)'
    BY <1>0, <2>2 DEF Forgets, CheckTypeOK, Stored
  <2>5. CheckTypeOK'
    BY <1>0, <2>2, <2>3 DEF CheckTypeOK, Began
  <2> QED
    BY <1>0, <2>3, <2>4, <2>5 DEF CheckInv, Began
<1>4. ASSUME NEW s \in Students, Delete(h, s) PROVE CheckInv'
  <2>1. s \in Nat
    BY PlagiarismBounds DEF Students
  <2>2. Handle(h, "delete", "read", s, NoResult) /\ cache' = cache /\ enrolled' = enrolled
    BY <1>4 DEF Delete
  <2>3. Began(h, "delete", "read", s, NoResult)
    BY <2>1, <2>2, HandleBegins, StoredType
  <2> QED
    BY <1>0, <2>2, <2>3 DEF CheckInv, CheckTypeOK, Began, Forgets
<1> QED
  BY <1>1, <1>2, <1>3, <1>4 DEF Begun

\* The result without the student, or with other reviews, names nobody new.
LEMMA UpdatedPairs ==
    ASSUME CheckTypeOK, NEW op, NEW s
    PROVE  /\ Updated(op, s) \in Reviewings
           /\ DOMAIN Updated(op, s) \subseteq DOMAIN cache.pairs
           /\ op = "delete" => \A p \in DOMAIN Updated(op, s) : ~Involves(p, s)
<1>1. PICK D \in SUBSET (Students \X Students) : cache.pairs \in [D -> ReviewStatuses]
  BY DEF CheckTypeOK, Stored, Reviewings
<1>2. CASE op = "delete"
  <2> DEFINE E == {q \in D : ~Involves(q, s)}
  <2>1. Updated(op, s) = [p \in E |-> cache.pairs[p]]
    BY <1>1, <1>2 DEF Updated
  <2>2. [p \in E |-> cache.pairs[p]] \in [E -> ReviewStatuses] /\ E \in SUBSET (Students \X Students)
    BY <1>1
  <2>3. Updated(op, s) \in Reviewings /\ DOMAIN Updated(op, s) = E
    BY <2>1, <2>2, StoredType
  <2> QED
    BY <1>1, <2>3
<1>3. CASE op # "delete"
  <2> DEFINE f == [p \in D |-> IF ~Involves(p, s) THEN cache.pairs[p] ELSE IF op = "archived" THEN "ignored" ELSE "unreviewed"]
  <2>1. Updated(op, s) = f
    BY <1>1, <1>3 DEF Updated
  <2>2. f \in [D -> ReviewStatuses]
    BY <1>1 DEF ReviewStatuses
  <2>3. Updated(op, s) \in Reviewings /\ DOMAIN Updated(op, s) = D
    BY <2>1, <2>2, StoredType
  <2> QED
    BY <1>1, <1>3, <2>3
<1> QED
  BY <1>2, <1>3

\* A request goes on.
LEMMA HandlerKeeps ==
    ASSUME OneHandler, CheckInv, NEW h \in Handlers, HandlerStep(h)
    PROVE  CheckInv'
<1>0. /\ CheckTypeOK /\ Forgets(cache) /\ (\A g \in Handlers : g = h)
      /\ handler[h] \in HandlerLocals /\ handler[h].held \in Stored
  BY DEF OneHandler, CheckInv, CheckTypeOK, HandlerLocals
<1>1. ASSUME NEW pc, pc \in {"write", "markdown", "end"}, NEW held, held \in Stored, Advance(h, pc, held)
      PROVE  /\ handler' \in [Handlers -> HandlerLocals]
             /\ handler'[h].op = handler[h].op /\ handler'[h].student = handler[h].student
             /\ handler'[h].pc = pc /\ handler'[h].held = held
  BY <1>0, <1>1 DEF Advance, CheckTypeOK, HandlerLocals
<1>2. CASE ReadResult(h)
  <2> DEFINE op == handler[h].op
             s == handler[h].student
             updated == Result(Updated(op, s))
  <2>1. /\ updated \in Stored /\ updated.exists = TRUE
        /\ DOMAIN updated.pairs \subseteq DOMAIN cache.pairs
        /\ op = "delete" => Spares(updated, s)
    BY <1>0, UpdatedPairs, StoredType DEF Spares
  <2>2. Forgets(updated)
    BY <1>0, <2>1 DEF Forgets
  <2> HIDE DEF updated
  <2>3. UNCHANGED <<enrolled, cache>>
    BY <1>2 DEF ReadResult
  <2>4. CASE Advance(h, "write", updated)
    BY <1>0, <1>1, <2>1, <2>2, <2>3, <2>4 DEF CheckInv, CheckTypeOK, Forgets, Spares
  <2>5. CASE Advance(h, "end", NoResult) /\ ~(cache.exists /\ updated # cache)
    <3>1. op = "delete" => Spares(cache, s)
      BY <1>0, <2>1, <2>5 DEF Spares, CheckTypeOK, Stored
    <3> QED
      BY <1>0, <1>1, <2>3, <2>5, <3>1, StoredType DEF CheckInv, CheckTypeOK, Forgets, Spares
  <2> QED
    BY <1>2, <2>4, <2>5 DEF ReadResult, updated
<1>3. CASE WriteResult(h)
  <2>1. /\ handler[h].pc = "write" /\ cache' = handler[h].held /\ enrolled' = enrolled
        /\ Advance(h, "markdown", handler[h].held)
    BY <1>3 DEF WriteResult
  <2>2. /\ Forgets(handler[h].held) /\ handler[h].held.exists = TRUE
        /\ handler[h].op = "delete" => Spares(handler[h].held, handler[h].student)
    BY <2>1 DEF CheckInv
  <2> QED
    BY <1>0, <1>1, <2>1, <2>2 DEF CheckInv, CheckTypeOK, Forgets, Spares
<1>4. CASE WriteMarkdown(h)
  <2>1. handler[h].pc = "markdown" /\ UNCHANGED <<enrolled, cache>> /\ Advance(h, "end", NoResult)
    BY <1>4 DEF WriteMarkdown
  <2> QED
    BY <1>0, <1>1, <2>1, StoredType DEF CheckInv, CheckTypeOK, Forgets, Spares
<1>5. CASE End(h)
  <2>1. /\ handler[h].pc = "end" /\ cache' = cache /\ handler' = [handler EXCEPT ![h] = Free]
        /\ enrolled' = IF handler[h].op = "delete" THEN [enrolled EXCEPT ![handler[h].student] = "deleted"] ELSE enrolled
    BY <1>5 DEF End
  <2>2. handler' \in [Handlers -> HandlerLocals] /\ handler'[h] = Free
    BY <1>0, <2>1, StoredType DEF CheckTypeOK
  <2>3. enrolled' \in [Students -> {"active", "archived", "deleted"}]
    BY <1>0, <2>1 DEF CheckTypeOK
  <2>4. Forgets(cache)'
    <3>1. CASE handler[h].op = "delete"
      <4>1. Spares(cache, handler[h].student)
        BY <2>1, <3>1 DEF CheckInv
      <4>2. \A t \in Students : t # handler[h].student => enrolled'[t] = enrolled[t]
        BY <1>0, <2>1, <3>1 DEF CheckTypeOK
      <4>3. \A p \in DOMAIN cache.pairs : p[1] \in Students /\ p[2] \in Students
        BY <1>0 DEF CheckTypeOK, Stored, Reviewings
      <4> QED
        BY <1>0, <2>1, <4>1, <4>2, <4>3 DEF Forgets, Spares, Involves
    <3>2. CASE handler[h].op # "delete"
      BY <1>0, <2>1, <3>2 DEF Forgets
    <3> QED
      BY <3>1, <3>2
  <2> QED
    BY <1>0, <2>1, <2>2, <2>3, <2>4, StoredType DEF CheckInv, CheckTypeOK
<1> QED
  BY <1>2, <1>3, <1>4, <1>5 DEF HandlerStep

\* A student uploads again.
LEMMA UploadKeeps ==
    ASSUME CheckInv, NEW s \in Students, Upload(s)
    PROVE  CheckInv'
<1>1. enrolled' = [enrolled EXCEPT ![s] = "active"] /\ UNCHANGED <<cache, handler>>
  BY DEF Upload
<1>2. enrolled' \in [Students -> {"active", "archived", "deleted"}] /\ \A t \in Students : enrolled'[t] = enrolled[t] \/ enrolled'[t] = "active"
  BY <1>1 DEF CheckInv, CheckTypeOK
<1>3. ASSUME NEW result \in Stored, Forgets(result)
      PROVE  \A p \in DOMAIN result.pairs : enrolled'[p[1]] # "deleted" /\ enrolled'[p[2]] # "deleted"
  <2>1. \A p \in DOMAIN result.pairs : p[1] \in Students /\ p[2] \in Students
    BY DEF Stored, Reviewings
  <2> QED
    BY <1>2, <1>3, <2>1 DEF Forgets
<1>4. Forgets(cache)'
  BY <1>1, <1>3 DEF Forgets, CheckInv, CheckTypeOK
<1>5. \A h \in Handlers : handler[h].held \in Stored
  BY DEF CheckInv, CheckTypeOK, HandlerLocals
<1>6. \A h \in Handlers : handler'[h].pc = "write" => Forgets(handler[h].held)'
  BY <1>1, <1>3, <1>5 DEF Forgets, CheckInv
<1> QED
  BY <1>1, <1>2, <1>4, <1>6 DEF CheckInv, CheckTypeOK, Spares

\* When requests come one at a time the result names, between them, no
\* deleted student, whatever checks, reviews, archives and uploads there were
\* (lib/server/plagiarism, routes/api/submissions/[id]).  Two at a time can
\* break it: a check that has listed the students writes after the deletion.
THEOREM DeletedForgottenAlways ==
    ASSUME OneHandler
    PROVE  PlagiarismSpec => []DeletedForgotten
<1>1. PlagiarismInit => CheckInv
  BY StoredType DEF PlagiarismInit, CheckInv, CheckTypeOK, Forgets
<1>2. CheckInv /\ [PlagiarismNext]_plagiarismVars => CheckInv'
  <2>1. CheckInv /\ UNCHANGED serverVars => CheckInv'
    BY DEF serverVars, CheckInv, CheckTypeOK, Forgets, Spares
  <2>2. PagePart => UNCHANGED serverVars
    BY DEF PagePart, Load, Change, Post, ServerAnswers, LoadedResult, Changed, CallLost, Landed
  <2>3. UNCHANGED plagiarismVars => UNCHANGED serverVars
    BY DEF plagiarismVars
  <2> QED
    BY <2>1, <2>2, <2>3, BegunKeeps, HandlerKeeps, UploadKeeps DEF PlagiarismNext, ServerPart
<1>3. CheckInv => DeletedForgotten
  BY DEF CheckInv, Forgets, DeletedForgotten
<1> QED
  BY <1>1, <1>2, <1>3, PTL DEF PlagiarismSpec

----------------------------------------------------------------------------
(***************************************************************************)
(* The executor, for any notebooks, any limit and any number of requests.  *)
(***************************************************************************)

RunRecords == [cells : Seq(Cells), ran : SUBSET Nat, errors : SUBSET Nat]

WorkRecords == [pc : {"idle", "execute", "verify", "pass", "rerun", "reply"}, id : Nat,
                kind : {"none", "execute", "patch"}, sent : Seq(Cells), target : Nat,
                patch : Patches \cup {"none"}, original : RunRecords, working : RunRecords,
                tried : SUBSET Nat, attempts : Nat, pass : Nat, fixed : RunRecords]

\* A request as it is accepted.
Untouched(w) ==
    /\ w.tried = {} /\ w.attempts = 0 /\ w.pass = 1 /\ w.fixed = NotRun
    /\ \/ w.pc = "execute" /\ w.kind = "execute"
       \/ w.pc = "verify" /\ w.kind = "patch" /\ w.target \in Code(w.sent) /\ w.patch \in Patches

\* The automatic stage: the working copy differs from what was sent in the
\* cells tried, which are code, one for each attempt.
InStage(w) ==
    /\ DOMAIN w.working.cells = DOMAIN w.sent
    /\ Code(w.working.cells) = Code(w.sent)
    /\ \A i \in DOMAIN w.sent : w.working.cells[i] # w.sent[i] => i \in w.tried
    /\ w.tried \subseteq Code(w.sent)
    /\ IsFiniteSet(w.tried) /\ Cardinality(w.tried) = w.attempts
    /\ w.attempts <= PassLimit
    /\ w.pc = "pass" => w.pass = w.attempts + 1 /\ w.working.errors \subseteq Code(w.working.cells)
    /\ w.pc = "rerun" => w.pass = w.attempts

\* The check of a teacher's patch: the version differs in the patched cell.
Patched(w) ==
    /\ w.attempts = 1 /\ w.target \in Code(w.sent)
    /\ w.fixed # NotRun =>
          /\ w.fixed.errors = {}
          /\ \A i \in DOMAIN w.sent : w.fixed.cells[i] # w.sent[i] => i = w.target

WorkInv(w) ==
    /\ w \in WorkRecords
    /\ w.pc \in {"execute", "verify"} => Untouched(w)
    /\ w.pc \in {"pass", "rerun", "reply"} => w.original.cells = w.sent /\ w.kind \in {"execute", "patch"}
    /\ w.pc \in {"pass", "rerun"} => w.kind = "execute" /\ w.fixed = NotRun
    /\ w.pc \in {"pass", "rerun", "reply"} /\ w.kind = "execute" => InStage(w)
    /\ w.pc = "reply" /\ w.kind = "execute" /\ w.fixed # NotRun => w.fixed = w.working /\ w.fixed.errors = {}
    /\ w.pc = "reply" /\ w.kind = "patch" => Patched(w)

Acceptable == {w \in WorkRecords : Untouched(w)}

Senders == Seq({"waiting", "gone", "answered"})

ExecutorInv == WorkInv(work) /\ inbox \in Seq(Acceptable) /\ clients \in Senders

\* The cells of a run are the ones given, and only code can be in error.
LEMMA RunOf ==
    ASSUME NEW cells \in Seq(Cells), NEW dies
    PROVE  /\ Run(cells, dies) \in RunRecords
           /\ Run(cells, dies).cells = cells
           /\ Run(cells, dies).errors \subseteq Code(cells)
<1>1. Code(cells) \subseteq Nat
  <2>1. DOMAIN cells \subseteq Nat
    BY DOMAIN cells = 1 .. Len(cells), Len(cells) \in Nat
  <2> QED
    BY <2>1 DEF Code
<1> QED
  BY <1>1 DEF Run, RunRecords

\* A set of cells in error has a first one.
LEMMA FirstError ==
    ASSUME NEW S \in SUBSET Nat, S # {}
    PROVE  (CHOOSE i \in S : \A j \in S : i <= j) \in S
<1>1. PICK i \in S : \A j \in S : ~(<<j, i>> \in OpToRel(<, Nat))
  BY WFMin, NatLessThanWellFounded
<1>2. \A j \in S : i <= j
  <2> SUFFICES ASSUME NEW j \in S PROVE i <= j
    OBVIOUS
  <2>1. j \in Nat /\ i \in Nat
    OBVIOUS
  <2>2. ~(<<j, i>> \in {ss \in Nat \X Nat : ss[1] < ss[2]})
    BY <1>1 DEF OpToRel
  <2>3. <<j, i>> \in Nat \X Nat /\ <<j, i>>[1] = j /\ <<j, i>>[2] = i
    BY <2>1
  <2>4. ~(j < i)
    BY <2>2, <2>3
  <2> QED
    BY <2>1, <2>4
<1> QED
  BY <1>2

\* Nothing at work is a record of work.
LEMMA NoWorkType ==
    /\ NotRun \in RunRecords
    /\ NoWork \in WorkRecords
    /\ NoWork.pc = "idle" /\ NoWork.tried = {} /\ NoWork.attempts = 0 /\ NoWork.pass = 1 /\ NoWork.fixed = NotRun
<1>1. NotRun \in RunRecords
  <2>1. <<>> \in Seq(Cells)
    OBVIOUS
  <2> QED
    BY <2>1 DEF NotRun, RunRecords
<1>2. <<>> \in Seq(Cells) /\ "none" \in Patches \cup {"none"}
  OBVIOUS
<1> QED
  BY <1>1, <1>2 DEF NoWork, WorkRecords

\* What is accepted can be begun.
LEMMA SendKeeps ==
    ASSUME ExecutorInv, Send
    PROVE  ExecutorInv'
<1>1. ASSUME NEW q, q \in Acceptable, Accept(q) PROVE ExecutorInv'
  <2> DEFINE n == Len(clients) + 1
  <2>1. [q EXCEPT !.id = n] \in Acceptable
    <3>1. n \in Nat
      BY DEF ExecutorInv, Senders
    <3> HIDE DEF n
    <3> QED
      BY <1>1, <3>1 DEF Acceptable, WorkRecords, Untouched, Code
  <2>2. inbox' = Append(inbox, [q EXCEPT !.id = n]) /\ work' = work
    BY <1>1 DEF Accept
  <2> HIDE DEF n
  <2>3. inbox' \in Seq(Acceptable)
    BY <2>1, <2>2 DEF ExecutorInv
  <2>4. clients' \in Senders
    BY <1>1 DEF Accept, ExecutorInv, Senders
  <2> QED
    BY <2>2, <2>3, <2>4 DEF ExecutorInv
<1>2. ASSUME NEW cells \in Submitted, SendExecute(cells) PROVE ExecutorInv'
  <2> DEFINE q == [NoWork EXCEPT !.pc = "execute", !.kind = "execute", !.sent = cells]
  <2>1. cells \in Seq(Cells)
    BY <1>2, ExecutorBounds
  <2>2. q \in Acceptable
    BY <2>1, NoWorkType DEF Acceptable, Untouched, WorkRecords
  <2>3. Accept(q)
    BY <1>2 DEF SendExecute
  <2> QED
    BY <1>1, <2>2, <2>3
<1>3. ASSUME NEW cells \in Submitted, NEW i \in DOMAIN cells, NEW patch \in Patches, SendPatch(cells, i, patch)
      PROVE  ExecutorInv'
  <2> DEFINE q == [NoWork EXCEPT !.pc = "verify", !.kind = "patch", !.sent = cells, !.target = i, !.patch = patch]
  <2>1. cells \in Seq(Cells) /\ i \in Code(cells)
    BY <1>3, ExecutorBounds DEF SendPatch
  <2>2. i \in Nat
    BY <2>1, DOMAIN cells = 1 .. Len(cells), Len(cells) \in Nat
  <2>3. q \in WorkRecords
    BY <2>1, <2>2, NoWorkType DEF WorkRecords
  <2>4. q \in Acceptable
    BY <2>1, <2>3, NoWorkType DEF Acceptable, Untouched, WorkRecords
  <2>5. Accept(q)
    BY <1>3 DEF SendPatch
  <2> QED
    BY <1>1, <2>4, <2>5
<1> QED
  BY <1>2, <1>3 DEF Send

\* What is begun is the first of the requests accepted.
LEMMA BeginKeeps ==
    ASSUME ExecutorInv, Begin
    PROVE  ExecutorInv'
<1>1. work' \in Acceptable /\ inbox' \in Seq(Acceptable) /\ clients' = clients
  BY DEF ExecutorInv, Begin
<1>2. WorkInv(work')
  BY <1>1 DEF Acceptable, Untouched, WorkInv
<1> QED
  BY <1>1, <1>2 DEF ExecutorInv

\* The first run of a notebook.
LEMMA RunOriginalKeeps ==
    ASSUME WorkInv(work), NEW dies, RunOriginal(dies)
    PROVE  WorkInv(work')
<1> DEFINE run == Run(work.sent, dies)
<1>1. work.sent \in Seq(Cells) /\ work \in WorkRecords /\ Untouched(work) /\ work.pc = "execute"
  BY DEF WorkInv, WorkRecords, RunOriginal
<1>2. run \in RunRecords /\ run.cells = work.sent /\ run.errors \subseteq Code(work.sent)
  BY <1>1, RunOf
<1>3. work' = [work EXCEPT !.original = run, !.working = run, !.pc = "pass"]
  BY DEF RunOriginal
<1> HIDE DEF run
<1>4. /\ work' \in WorkRecords
      /\ work'.pc = "pass" /\ work'.original = run /\ work'.working = run /\ work'.sent = work.sent
      /\ work'.kind = work.kind /\ work'.tried = work.tried /\ work'.attempts = work.attempts
      /\ work'.pass = work.pass /\ work'.fixed = work.fixed
  BY <1>1, <1>2, <1>3 DEF WorkRecords
<1>5. IsFiniteSet({}) /\ Cardinality({}) = 0 /\ 0 <= PassLimit /\ 1 = 0 + 1
  BY FS_EmptySet, ExecutorBounds
<1>6. InStage(work')
  BY <1>1, <1>2, <1>4, <1>5 DEF InStage, Untouched
<1> QED
  BY <1>1, <1>2, <1>4, <1>6 DEF WorkInv, Untouched

\* A stage that gives up answers with what it has.
LEMMA NoSuggestionKeeps ==
    ASSUME WorkInv(work), NoSuggestion
    PROVE  WorkInv(work')
<1>1. /\ work.pc \in {"pass", "rerun"} /\ work' = [work EXCEPT !.pc = "reply"] /\ work \in WorkRecords
      /\ work.kind = "execute" /\ work.fixed = NotRun /\ InStage(work) /\ work.original.cells = work.sent
  BY DEF NoSuggestion, Reply, WorkInv
<1>2. /\ work' \in WorkRecords
      /\ work'.pc = "reply" /\ work'.original = work.original /\ work'.working = work.working /\ work'.sent = work.sent
      /\ work'.kind = work.kind /\ work'.tried = work.tried /\ work'.attempts = work.attempts
      /\ work'.pass = work.pass /\ work'.fixed = work.fixed
  BY <1>1 DEF WorkRecords
<1>3. InStage(work')
  BY <1>1, <1>2 DEF InStage
<1> QED
  BY <1>1, <1>2, <1>3 DEF WorkInv

\* A fix changes the working copy in one more code cell.
LEMMA FixKeeps ==
    ASSUME WorkInv(work), NEW patch \in Patches, FixFirstError(patch)
    PROVE  WorkInv(work')
<1> DEFINE target == CHOOSE i \in work.working.errors : \A j \in work.working.errors : i <= j
           cells == work.working.cells
           more == work.tried \cup {target}
           n == work.attempts + 1
           copy == [work.working EXCEPT !.cells = [cells EXCEPT ![target] = patch]]
<1>1. /\ work.pc = "pass" /\ work \in WorkRecords /\ InStage(work) /\ work.original.cells = work.sent
      /\ work.kind = "execute" /\ work.fixed = NotRun /\ work.pass <= PassLimit /\ target \notin work.tried
  BY DEF FixFirstError, WorkInv
<1>2. work.working.errors # {} /\ work.working.errors \in SUBSET Nat /\ work.working.errors \subseteq Code(cells)
  BY <1>1 DEF FixFirstError, InStage, WorkRecords, RunRecords
<1>3. target \in work.working.errors
  BY <1>2, FirstError
<1>4. work' = [work EXCEPT !.pc = "rerun", !.tried = more, !.attempts = n, !.working = copy]
  <2>1. work' = [work EXCEPT !.pc = "rerun", !.tried = @ \cup {target}, !.attempts = @ + 1,
                             !.working.cells[target] = patch]
    BY DEF FixFirstError
  <2> QED
    BY <1>1, <2>1 DEF WorkRecords, RunRecords
<1>5. target \in Code(cells) /\ target \in Nat
  BY <1>2, <1>3
<1>6. n \in Nat /\ work.attempts \in Nat /\ n = work.attempts + 1 /\ work.pass = n
  BY <1>1 DEF WorkRecords, InStage
<1>7. n <= PassLimit
  BY <1>1, <1>6
<1>8. IsFiniteSet(more) /\ Cardinality(more) = n
  <2>1. IsFiniteSet(work.tried) /\ Cardinality(work.tried) = work.attempts
    BY <1>1 DEF InStage
  <2> HIDE DEF target
  <2>2. IsFiniteSet(more) /\ Cardinality(more) = Cardinality(work.tried) + 1
    BY <1>1, <2>1, FS_AddElement
  <2> QED
    BY <2>1, <2>2
<1> HIDE DEF n, target
<1>9. cells \in Seq(Cells) /\ work.working \in RunRecords
  BY <1>1 DEF WorkRecords, RunRecords
<1>10. /\ [cells EXCEPT ![target] = patch] \in Seq(Cells)
       /\ DOMAIN [cells EXCEPT ![target] = patch] = DOMAIN cells
       /\ \A i \in DOMAIN cells : [cells EXCEPT ![target] = patch][i] = IF i = target THEN patch ELSE cells[i]
  <2>1. patch \in Cells /\ target \in DOMAIN cells
    BY <1>5 DEF Patches, Cells, Code
  <2> QED
    BY <1>9, <2>1
<1>11. Code([cells EXCEPT ![target] = patch]) = Code(cells)
  <2>1. patch # "text"
    BY DEF Patches
  <2> QED
    BY <1>5, <1>10, <2>1 DEF Code
<1>12. copy \in RunRecords /\ copy.cells = [cells EXCEPT ![target] = patch]
  BY <1>9, <1>10 DEF RunRecords
<1>13. more \in SUBSET Nat
  BY <1>1, <1>5 DEF WorkRecords
<1> HIDE DEF copy, more
<1>14. /\ work' \in WorkRecords
       /\ work'.pc = "rerun" /\ work'.original = work.original /\ work'.working = copy /\ work'.sent = work.sent
       /\ work'.kind = work.kind /\ work'.tried = more /\ work'.attempts = n
       /\ work'.pass = work.pass /\ work'.fixed = work.fixed
  BY <1>1, <1>4, <1>6, <1>12, <1>13 DEF WorkRecords
<1>15. Code(cells) = Code(work.sent) /\ DOMAIN cells = DOMAIN work.sent /\ work.tried \subseteq Code(work.sent)
  BY <1>1 DEF InStage
<1>16. more \subseteq Code(work.sent)
  BY <1>5, <1>15 DEF more
<1>17. \A i \in DOMAIN work.sent : copy.cells[i] # work.sent[i] => i \in more
  BY <1>1, <1>10, <1>12, <1>15 DEF InStage, more
<1>18. InStage(work')
  BY <1>6, <1>7, <1>8, <1>10, <1>11, <1>12, <1>14, <1>15, <1>16, <1>17 DEF InStage
<1> QED
  BY <1>1, <1>14, <1>18 DEF WorkInv

\* A run of the working copy leaves its cells as they are, and only a run
\* without errors is called fixed.
LEMMA RerunKeeps ==
    ASSUME WorkInv(work), NEW dies, Rerun(dies)
    PROVE  WorkInv(work')
<1> DEFINE run == Run(work.working.cells, dies)
           worse == Cardinality(run.errors) > Cardinality(work.working.errors)
           fixed == IF run.errors = {} THEN run ELSE work.fixed
           pc == IF run.errors = {} \/ worse THEN "reply" ELSE "pass"
           n == work.pass + 1
<1>1. /\ work.pc = "rerun" /\ work \in WorkRecords /\ InStage(work) /\ work.original.cells = work.sent
      /\ work.kind = "execute" /\ work.fixed = NotRun
  BY DEF Rerun, WorkInv
<1>2. work' = [work EXCEPT !.working = run, !.pass = n, !.fixed = fixed, !.pc = pc]
  <2>1. work' = [work EXCEPT !.working = run, !.pass = @ + 1,
                             !.fixed = IF run.errors = {} THEN run ELSE @, !.pc = pc]
    BY DEF Rerun
  <2> HIDE DEF run, pc
  <2> QED
    BY <1>1, <2>1 DEF WorkRecords
<1>3. work.working.cells \in Seq(Cells)
  BY <1>1 DEF WorkRecords, RunRecords
<1>4. run \in RunRecords /\ run.cells = work.working.cells /\ run.errors \subseteq Code(work.working.cells)
  BY <1>3, RunOf
<1>5. pc \in {"pass", "reply"} /\ (pc = "pass" => run.errors # {}) /\ n \in Nat /\ n = work.attempts + 1
  BY <1>1 DEF WorkRecords, InStage
<1> HIDE DEF run, worse, pc, n
<1>6. fixed \in RunRecords /\ (pc = "pass" => fixed = NotRun) /\ (fixed # NotRun => fixed = run /\ run.errors = {})
  BY <1>1, <1>4, <1>5, NoWorkType
<1> HIDE DEF fixed
<1>7. /\ work' \in WorkRecords
      /\ work'.pc = pc /\ work'.original = work.original /\ work'.working = run /\ work'.sent = work.sent
      /\ work'.kind = work.kind /\ work'.tried = work.tried /\ work'.attempts = work.attempts
      /\ work'.pass = n /\ work'.fixed = fixed
  BY <1>1, <1>2, <1>4, <1>5, <1>6 DEF WorkRecords
<1>8. InStage(work')
  BY <1>1, <1>4, <1>5, <1>7 DEF InStage
<1> QED
  BY <1>1, <1>5, <1>6, <1>7, <1>8 DEF WorkInv

\* The check of a teacher's patch changes one code cell of a copy.
LEMMA VerifyKeeps ==
    ASSUME WorkInv(work), NEW dies, VerifyPatch(dies)
    PROVE  WorkInv(work')
<1> DEFINE cells == [work.sent EXCEPT ![work.target] = work.patch]
           run == Run(cells, dies)
           original == [NotRun EXCEPT !.cells = work.sent]
           fixed == IF run.errors = {} THEN run ELSE work.fixed
<1>1. work.pc = "verify" /\ work \in WorkRecords /\ Untouched(work) /\ work.sent \in Seq(Cells)
  BY DEF VerifyPatch, WorkInv, WorkRecords
<1>2. work.target \in Code(work.sent) /\ work.patch \in Patches /\ work.kind = "patch" /\ work.fixed = NotRun
  BY <1>1 DEF Untouched
<1>3. /\ cells \in Seq(Cells)
      /\ \A i \in DOMAIN work.sent : cells[i] # work.sent[i] => i = work.target
  <2>1. work.patch \in Cells /\ work.target \in DOMAIN work.sent
    BY <1>2 DEF Patches, Cells, Code
  <2> QED
    BY <1>1, <2>1
<1> HIDE DEF cells
<1>4. run \in RunRecords /\ run.cells = cells
  BY <1>3, RunOf
<1>5. original \in RunRecords /\ original.cells = work.sent
  BY <1>1, NoWorkType DEF RunRecords
<1>6. work' = [work EXCEPT !.original = original, !.attempts = 1, !.pc = "reply", !.fixed = fixed]
  <2>1. work' = [work EXCEPT !.original = original, !.attempts = 1, !.pc = "reply",
                             !.fixed = IF run.errors = {} THEN run ELSE @]
    BY DEF VerifyPatch, cells
  <2> HIDE DEF run, original
  <2> QED
    BY <1>1, <2>1 DEF WorkRecords
<1> HIDE DEF run, original
<1>7. fixed \in RunRecords /\ (fixed # NotRun => fixed = run /\ run.errors = {})
  BY <1>2, <1>4, NoWorkType
<1> HIDE DEF fixed
<1>8. /\ work' \in WorkRecords
      /\ work'.pc = "reply" /\ work'.original = original /\ work'.sent = work.sent
      /\ work'.kind = work.kind /\ work'.attempts = 1 /\ work'.fixed = fixed /\ work'.target = work.target
  BY <1>1, <1>5, <1>6, <1>7 DEF WorkRecords
<1>9. Patched(work')
  BY <1>2, <1>3, <1>4, <1>7, <1>8 DEF Patched
<1> QED
  BY <1>2, <1>5, <1>8, <1>9 DEF WorkInv

\* The invariant of the executor.
LEMMA ExecutorInvAlways == ExecutorSpec => []ExecutorInv
<1>1. ExecutorInit => ExecutorInv
  <2> SUFFICES ASSUME ExecutorInit PROVE ExecutorInv
    OBVIOUS
  <2>1. WorkInv(NoWork)
    BY NoWorkType DEF WorkInv
  <2> QED
    BY <2>1 DEF ExecutorInit, ExecutorInv, Senders
<1>2. ExecutorInv /\ [ExecutorNext]_executorVars => ExecutorInv'
  <2> SUFFICES ASSUME ExecutorInv, [ExecutorNext]_executorVars PROVE ExecutorInv'
    OBVIOUS
  <2>1. ASSUME UNCHANGED <<work, inbox>>, clients' \in Senders PROVE ExecutorInv'
    BY <2>1 DEF ExecutorInv
  <2>2. ASSUME WorkInv(work'), inbox' = inbox, clients' \in Senders PROVE ExecutorInv'
    BY <2>2 DEF ExecutorInv
  <2>3. WorkInv(work) /\ clients \in Senders
    BY DEF ExecutorInv
  <2>4. CASE Send
    BY <2>4, SendKeeps
  <2>5. CASE Begin
    BY <2>5, BeginKeeps
  <2>6. CASE NoSuggestion
    BY <2>2, <2>3, <2>6, NoSuggestionKeeps DEF NoSuggestion, Reply
  <2>7. CASE Respond
    <3>1. WorkInv(NoWork)
      BY NoWorkType DEF WorkInv
    <3>2. clients' \in Senders
      <4> DEFINE outcome == IF clients[work.id] = "waiting" THEN "answered" ELSE clients[work.id]
      <4>1. clients' = [clients EXCEPT ![work.id] = outcome]
        BY <2>7 DEF Respond
      <4>2. CASE work.id \in DOMAIN clients
        <5>1. outcome \in {"waiting", "gone", "answered"}
          BY <2>3, <4>2 DEF Senders
        <5> HIDE DEF outcome
        <5> QED
          BY <2>3, <4>1, <4>2, <5>1 DEF Senders
      <4>3. CASE work.id \notin DOMAIN clients
        <5> HIDE DEF outcome
        <5>1. clients' = clients
          BY <2>3, <4>1, <4>3 DEF Senders
        <5> QED
          BY <2>3, <5>1
      <4> QED
        BY <4>2, <4>3
    <3> QED
      BY <2>2, <2>7, <3>1, <3>2 DEF Respond
  <2>8. ASSUME NEW patch \in Patches, FixFirstError(patch) PROVE ExecutorInv'
    <3>1. inbox' = inbox /\ clients' = clients
      BY <2>8 DEF FixFirstError
    <3> QED
      BY <2>2, <2>3, <2>8, <3>1, FixKeeps
  <2>9. ASSUME NEW dies \in Deaths, RunOriginal(dies) PROVE ExecutorInv'
    <3>1. inbox' = inbox /\ clients' = clients
      BY <2>9 DEF RunOriginal
    <3> QED
      BY <2>2, <2>3, <2>9, <3>1, RunOriginalKeeps
  <2>10. ASSUME NEW dies \in Deaths, Rerun(dies) PROVE ExecutorInv'
    <3>1. inbox' = inbox /\ clients' = clients
      BY <2>10 DEF Rerun
    <3> QED
      BY <2>2, <2>3, <2>10, <3>1, RerunKeeps
  <2>11. ASSUME NEW dies \in Deaths, VerifyPatch(dies) PROVE ExecutorInv'
    <3>1. inbox' = inbox /\ clients' = clients
      BY <2>11 DEF VerifyPatch
    <3> QED
      BY <2>2, <2>3, <2>11, <3>1, VerifyKeeps
  <2>12. CASE \E id \in DOMAIN clients : HangUp(id)
    <3>1. clients' \in Senders
      BY <2>3, <2>12 DEF HangUp, Senders
    <3> QED
      BY <2>1, <2>12, <3>1 DEF HangUp
  <2>13. CASE UNCHANGED executorVars
    BY <2>1, <2>3, <2>13 DEF executorVars
  <2> QED
    BY <2>4, <2>5, <2>6, <2>7, <2>8, <2>9, <2>10, <2>11, <2>12, <2>13 DEF ExecutorNext, Serve
<1> QED
  BY <1>1, <1>2, PTL DEF ExecutorSpec

\* Whatever fixes were tried, the answer shows the notebook as it was sent; a
\* version is called fixed only if its last run shows no error, and it differs
\* in code cells only, at most one for each attempt, for any notebooks, any
\* limit of passes, any number of requests and whenever kernels die.
THEOREM ProposalVerifiedAlways == ExecutorSpec => []ProposalVerified
<1>1. ExecutorInv => ProposalVerified
  <2> SUFFICES ASSUME WorkInv(work), work.pc = "reply" PROVE ProposalVerified
    BY DEF ExecutorInv, ProposalVerified
  <2> DEFINE changed == {i \in DOMAIN work.sent : work.fixed.cells[i] # work.sent[i]}
  <2>1. work.original.cells = work.sent
    BY DEF WorkInv
  <2>2. CASE work.kind = "execute"
    <3>1. InStage(work) /\ (work.fixed # NotRun => work.fixed = work.working /\ work.fixed.errors = {})
      BY <2>2 DEF WorkInv
    <3>2. ASSUME work.fixed # NotRun
          PROVE  work.fixed.errors = {} /\ changed \subseteq Code(work.sent) /\ Cardinality(changed) <= work.attempts
      <4>1. changed \subseteq work.tried /\ work.tried \subseteq Code(work.sent)
        BY <3>1, <3>2 DEF InStage
      <4>2. Cardinality(changed) <= Cardinality(work.tried)
        <5> HIDE DEF changed
        <5> QED
          BY <3>1, <4>1, FS_Subset DEF InStage
      <4> QED
        BY <3>1, <3>2, <4>1, <4>2 DEF InStage
    <3> QED
      BY <2>1, <3>1, <3>2 DEF ProposalVerified, InStage
  <2>3. CASE work.kind = "patch"
    <3>1. Patched(work)
      BY <2>3 DEF WorkInv
    <3>2. ASSUME work.fixed # NotRun
          PROVE  work.fixed.errors = {} /\ changed \subseteq Code(work.sent) /\ Cardinality(changed) <= work.attempts
      <4>1. changed \subseteq {work.target} /\ work.target \in Code(work.sent) /\ work.fixed.errors = {}
        BY <3>1, <3>2 DEF Patched
      <4>2. IsFiniteSet({work.target}) /\ Cardinality({work.target}) = 1
        BY FS_Singleton
      <4>3. Cardinality(changed) <= 1
        <5> HIDE DEF changed
        <5> QED
          BY <4>1, <4>2, FS_Subset
      <4> QED
        BY <3>1, <4>1, <4>3 DEF Patched
    <3> QED
      BY <2>1, <2>3, <3>2 DEF ProposalVerified
  <2> QED
    BY <2>2, <2>3 DEF WorkInv
<1> QED
  BY <1>1, ExecutorInvAlways, PTL

----------------------------------------------------------------------------
(***************************************************************************)
(* The promise chain of lib/server/persist-lock.ts, for any number of      *)
(* calls.  Everything rests on ChainOfCalls: the sections behind the front *)
(* wait, so at most the one at the front runs.                             *)
(***************************************************************************)

\* The initial state is a chain of no calls.
LEMMA ChainInit == LockInit => ChainOfCalls
<1> SUFFICES ASSUME LockInit PROVE ChainOfCalls
  OBVIOUS
<1> USE MaxCallsAssumption
<1>1. LockTypeOK
  BY DEF LockInit, LockTypeOK, States
<1>2. 0 \in 0 .. calls /\ Front(0)
  BY DEF LockInit, Front, Settled
<1>3. \A n \in Calls : n > calls <=> state[n] = "uncalled"
  BY DEF LockInit, Calls
<1> QED
  BY <1>1, <1>2, <1>3 DEF ChainOfCalls, LockInit

\* Every step keeps the chain: a call joins behind all others, the section
\* at the front starts, the section at the front settles.
LEMMA ChainStep == ChainOfCalls /\ [LockNext]_lockVars => ChainOfCalls'
<1> SUFFICES ASSUME ChainOfCalls, [LockNext]_lockVars PROVE ChainOfCalls'
  OBVIOUS
<1> USE MaxCallsAssumption DEF Calls, Settled, States
<1>0. LockTypeOK
  BY DEF ChainOfCalls
<1>1. PICK d \in 0 .. calls : Front(d)
  BY DEF ChainOfCalls
<1>2. ASSUME NEW n \in Calls, Call(n) PROVE ChainOfCalls'
  <2>1. LockTypeOK'
    BY <1>0, <1>2 DEF LockTypeOK, Call
  <2>2. d \in 0 .. calls' /\ Front(d)'
    BY <1>0, <1>1, <1>2 DEF LockTypeOK, Call, Front
  <2> QED
    BY <1>0, <1>2, <2>1, <2>2 DEF ChainOfCalls, Call, LockTypeOK
<1>3. ASSUME NEW n \in Calls, Start(n) PROVE ChainOfCalls'
  <2>1. LockTypeOK'
    BY <1>0, <1>3 DEF LockTypeOK, Start
  <2>2. n <= d + 1
    BY <1>0, <1>1, <1>3 DEF LockTypeOK, Start, Front, ChainOfCalls
  <2>3. Front(d)'
    BY <1>0, <1>1, <1>3, <2>2 DEF LockTypeOK, Start, Front
  <2> QED
    BY <1>0, <1>3, <2>1, <2>3 DEF ChainOfCalls, Start, LockTypeOK
<1>4. ASSUME NEW n \in Calls, Settle(n) PROVE ChainOfCalls'
  <2>1. LockTypeOK'
    BY <1>0, <1>4 DEF LockTypeOK, Settle
  <2>2. n = d + 1 /\ n \in 0 .. calls
    BY <1>0, <1>1, <1>4 DEF LockTypeOK, Settle, Front, ChainOfCalls
  <2>3. Front(n)'
    BY <1>0, <1>1, <1>4, <2>2 DEF LockTypeOK, Settle, Front
  <2> QED
    BY <1>0, <1>4, <2>1, <2>2, <2>3 DEF ChainOfCalls, Settle, LockTypeOK
<1>5. CASE UNCHANGED lockVars
  BY <1>5 DEF ChainOfCalls, LockTypeOK, Front, lockVars
<1> QED
  BY <1>2, <1>3, <1>4, <1>5 DEF LockNext

\* The promises of withPersistLock always form one chain in the order of the
\* calls, whatever the sections' outcomes.
THEOREM ChainAlways == LockSpec => []ChainOfCalls
<1> QED
  BY ChainInit, ChainStep, PTL DEF LockSpec

\* At most one section of the persist lock runs at a time.
THEOREM MutualExclusionAlways == LockSpec => []MutualExclusion
<1>1. ChainOfCalls => MutualExclusion
  <2> SUFFICES ASSUME ChainOfCalls, NEW m \in Calls, NEW n \in Calls,
                      state[m] = "running", state[n] = "running"
               PROVE  m = n
    BY DEF MutualExclusion
  <2>1. PICK d \in 0 .. calls : Front(d)
    BY DEF ChainOfCalls
  <2>2. m \in 1 .. calls /\ n \in 1 .. calls /\ calls \in Nat
    BY MaxCallsAssumption DEF ChainOfCalls, LockTypeOK, Calls
  <2>3. m = d + 1 /\ n = d + 1
    BY <2>1, <2>2 DEF Front, Settled
  <2> QED
    BY <2>3
<1> QED
  BY <1>1, ChainAlways, PTL

\* A section starts only after the sections of all earlier calls settled.
THEOREM CallOrderAlways == LockSpec => []CallOrder
<1>1. ChainOfCalls => CallOrder
  BY MaxCallsAssumption
     DEF ChainOfCalls, LockTypeOK, Front, CallOrder, Calls, Settled, States
<1> QED
  BY <1>1, ChainAlways, PTL

----------------------------------------------------------------------------
\* The front is unique, so Gone is whatever front one has at hand.
FrontIsGone == \A d \in 0 .. calls : Front(d) => Gone = d

\* The chain has one front only.
LEMMA GoneIsTheFront == ChainOfCalls => FrontIsGone
<1> SUFFICES ASSUME ChainOfCalls, NEW d \in 0 .. calls, Front(d) PROVE Gone = d
  BY DEF FrontIsGone
<1>1. \A e \in 0 .. calls : Front(e) => e = d
  BY MaxCallsAssumption DEF ChainOfCalls, LockTypeOK, Front
<1> QED
  BY <1>1 DEF Gone

Queue == [i \in 1 .. calls - Gone |-> Gone + i]

\* The promise chain implements the lock its callers rely on: a FIFO queue
\* of sections of which only the head leaves.
THEOREM ChainImplementsFifoLock == LockSpec => ImplementsFifoLock
<1> USE MaxCallsAssumption DEF Calls, Settled, States
<1>1. LockInit => Fifo!Init
  <2> SUFFICES ASSUME LockInit PROVE Queue = <<>>
    BY DEF Fifo!Init, Queue
  <2>1. Front(0) /\ 0 \in 0 .. calls
    BY DEF LockInit, Front
  <2>2. Gone = 0
    BY <2>1, ChainInit, GoneIsTheFront DEF FrontIsGone
  <2> QED
    BY <2>2 DEF Queue, LockInit
<1>2. ChainOfCalls /\ ChainOfCalls' /\ FrontIsGone /\ FrontIsGone' /\ [LockNext]_lockVars
        => [Fifo!Next]_Queue
  <2> SUFFICES ASSUME ChainOfCalls, ChainOfCalls', FrontIsGone, FrontIsGone', [LockNext]_lockVars
               PROVE  [Fifo!Next]_Queue
    OBVIOUS
  <2>0. LockTypeOK /\ LockTypeOK'
    BY DEF ChainOfCalls
  <2>1. PICK d \in 0 .. calls : Front(d)
    BY DEF ChainOfCalls
  <2>2. Gone = d
    BY <2>1 DEF FrontIsGone
  <2>3. calls \in Nat /\ d \in Nat /\ d <= calls
    BY <2>0, <2>1 DEF LockTypeOK
  <2>4. Queue \in Seq(Nat) /\ Len(Queue) = calls - d
    BY <2>2, <2>3 DEF Queue
  <2>5. ASSUME NEW n \in Calls, Call(n) PROVE Fifo!Call(n)
    <3>1. d \in 0 .. calls' /\ Front(d)'
      BY <2>0, <2>1, <2>5 DEF LockTypeOK, Call, Front
    <3>2. Gone' = d
      BY <3>1 DEF FrontIsGone
    <3>3. calls' = calls + 1 /\ n = calls + 1
      BY <2>5 DEF Call
    <3>4. Queue' = [i \in 1 .. calls + 1 - d |-> d + i]
      BY <2>3, <3>2, <3>3 DEF Queue
    <3>5. Queue' \in Seq(Nat) /\ Len(Queue') = Len(Queue) + 1
      BY <3>4, <2>3, <2>4
    <3>6. Append(Queue, n) \in Seq(Nat) /\ Len(Append(Queue, n)) = Len(Queue) + 1
      BY <3>3, <2>3, <2>4
    <3>7. ASSUME NEW i \in 1 .. Len(Queue) + 1 PROVE Queue'[i] = Append(Queue, n)[i]
      <4>1. Queue'[i] = d + i
        BY <2>3, <2>4, <3>4
      <4>2. CASE i = Len(Queue) + 1
        BY <4>1, <4>2, <3>3, <2>3, <2>4
      <4>3. CASE i \in 1 .. Len(Queue)
        <5>1. Append(Queue, n)[i] = Queue[i]
          BY <4>3, <2>4, <3>3, <2>3, AppendProperties
        <5>2. Queue[i] = d + i
          BY <4>3, <2>2, <2>3, <2>4 DEF Queue
        <5> QED
          BY <4>1, <5>1, <5>2
      <4> QED
        BY <4>2, <4>3, <2>3, <2>4
    <3>8. Queue' = Append(Queue, n)
      BY <3>5, <3>6, <3>7, SeqEqual
    <3> QED
      BY <3>8 DEF Fifo!Call, Queue
  <2>6. ASSUME NEW n \in Calls, Start(n) PROVE UNCHANGED Queue
    <3>1. n <= d + 1
      BY <2>0, <2>1, <2>6 DEF LockTypeOK, Start, Front, ChainOfCalls
    <3>2. d \in 0 .. calls' /\ Front(d)'
      BY <2>0, <2>1, <2>6, <3>1 DEF LockTypeOK, Start, Front
    <3>3. Gone' = d
      BY <3>2 DEF FrontIsGone
    <3> QED
      BY <2>2, <2>6, <3>3 DEF Queue, Start
  <2>7. ASSUME NEW n \in Calls, Settle(n) PROVE Fifo!Settle
    <3>1. n = d + 1 /\ n \in 0 .. calls
      <4>1. n \in 1 .. calls
        BY <2>0, <2>7 DEF LockTypeOK, Settle, ChainOfCalls
      <4> QED
        BY <4>1, <2>1, <2>3, <2>7 DEF Settle, Front
    <3>2. n \in 0 .. calls' /\ Front(n)'
      BY <2>0, <2>1, <2>7, <3>1 DEF LockTypeOK, Settle, Front
    <3>3. Gone' = d + 1
      BY <3>1, <3>2 DEF FrontIsGone
    <3>4. Queue' = [i \in 1 .. calls - (d + 1) |-> d + 1 + i]
      BY <2>7, <3>3 DEF Queue, Settle
    <3>5. Queue # <<>> /\ Tail(Queue) \in Seq(Nat) /\ Len(Tail(Queue)) = calls - (d + 1)
      BY <2>3, <2>4, <3>1
    <3>6. Queue' \in Seq(Nat) /\ Len(Queue') = calls - (d + 1)
      BY <2>3, <3>1, <3>4
    <3>7. ASSUME NEW i \in 1 .. calls - (d + 1) PROVE Queue'[i] = Tail(Queue)[i]
      <4>1. Tail(Queue)[i] = Queue[i + 1]
        BY <2>3, <2>4, <3>5, HeadTailProperties
      <4>2. i + 1 \in 1 .. calls - d
        BY <2>3
      <4>3. Queue[i + 1] = d + (i + 1)
        BY <2>2, <4>2 DEF Queue
      <4>4. Queue'[i] = d + 1 + i
        BY <3>4
      <4>5. d + (i + 1) = d + 1 + i
        BY <2>3
      <4> QED
        BY <4>1, <4>3, <4>4, <4>5, Zenon
    <3>8. Queue' = Tail(Queue)
      BY <3>5, <3>6, <3>7, SeqEqual
    <3> QED
      BY <3>5, <3>8 DEF Fifo!Settle, Queue
  <2>8. CASE UNCHANGED lockVars
    BY <2>8 DEF lockVars, Queue, Gone, Front
  <2>9. CASE \E n \in Calls : Call(n) \/ Start(n) \/ Settle(n)
    BY <2>5, <2>6, <2>7, <2>9 DEF Fifo!Next
  <2> QED
    BY <2>8, <2>9 DEF LockNext
<1> QED
  BY <1>1, <1>2, ChainAlways, GoneIsTheFront, PTL
     DEF LockSpec, ImplementsFifoLock, Fifo!Spec, Queue
=============================================================================
