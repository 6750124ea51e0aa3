------------------------------ MODULE DocsIndex ------------------------------
(***************************************************************************)
(* The offline documentation index and the two jobs that replace it: the   *)
(* download of the released one by a child process, and the rebuild of its *)
(* vectors with the configured embedding model.  They share a slot, a      *)
(* state file the page polls, and a cancel request; the rebuild stages its *)
(* vectors and then renames two files, one after the other.                *)
(***************************************************************************)
EXTENDS Naturals, FiniteSets

CONSTANTS
    Batches,        \* bound: batches of chunks in a rebuild
    MaxFailed,      \* FAILED_BATCH_ABORT_FRACTION of them: so many may fail
    RateLimitAbort, \* RATE_LIMIT_ABORT_CONSECUTIVE, scaled down
    MaxJobs,        \* bound: jobs started
    DocsCrashes     \* whether the server may be killed

ASSUME DocsBounds ==
    /\ Batches \in Nat \ {0} /\ MaxFailed \in Nat
    /\ RateLimitAbort \in Nat \ {0} /\ MaxJobs \in Nat /\ DocsCrashes \in BOOLEAN

VARIABLES
    slotOwner,  \* "none", "docs-index-download" or "docs-embed-rebuild"
    liveJobs,   \* kind -> the live job, or NoJob
    stateFile,  \* the phase in .docs-embed-job.json
    index,      \* which build each file is of, 0 when there is none
    docsJob,    \* the locals of the job that runs
    child,      \* whether activeChild is a process that can be killed
    jobs        \* how many jobs have been started

docsVars == <<slotOwner, liveJobs, stateFile, index, docsJob, child, jobs>>

Kinds == {"fetch", "embed"}
Terminal == {"done", "failed", "cancelled"}
NoJob == [phase |-> "none", cancelled |-> FALSE]

\* dim: whether a batch has told the dimension; before: the index as the job
\* found it; build: the number of the build it makes.
NoDocsJob == [pc |-> "none", start |-> 0, failed |-> 0, limited |-> 0, dim |-> FALSE,
              before |-> [manifest |-> 0, vectors |-> 0], build |-> 0]

DocsInit ==
    /\ slotOwner = "none"
    /\ liveJobs = [k \in Kinds |-> NoJob]
    /\ stateFile = "none"
    /\ index = [manifest |-> 0, vectors |-> 0]
    /\ docsJob = NoDocsJob
    /\ child = FALSE
    /\ jobs = 0

Runs(kind, phase) == liveJobs' = [liveJobs EXCEPT ![kind] = [phase |-> phase, cancelled |-> FALSE]]
Dead(kind) == liveJobs' = [liveJobs EXCEPT ![kind] = NoJob]
Step(pc) == docsJob' = [docsJob EXCEPT !.pc = pc]

Claim(owner) ==
    /\ slotOwner = "none" /\ docsJob = NoDocsJob /\ jobs < MaxJobs
    /\ slotOwner' = owner
    /\ jobs' = jobs + 1

Release == slotOwner' = "none" /\ docsJob' = NoDocsJob

----------------------------------------------------------------------------
\* The download.

\* An index that is there is not downloaded again.
StartDownload ==
    /\ index.manifest = 0
    /\ Claim("docs-index-download")
    /\ docsJob' = [NoDocsJob EXCEPT !.pc = "spawn", !.before = index, !.build = jobs + 1]
    /\ Runs("fetch", "fetch-chunks")
    /\ stateFile' = "fetch-chunks"
    /\ UNCHANGED <<index, child>>

Spawn ==
    /\ docsJob.pc = "spawn"
    /\ child' = TRUE
    /\ Step("download")
    /\ UNCHANGED <<slotOwner, liveJobs, stateFile, index, jobs>>

\* spawn itself throws, before the try whose finally gives the slot back: the slot
\* and the live job stay until the server is restarted.
SpawnThrows ==
    /\ docsJob.pc = "spawn"
    /\ Step("stranded")
    /\ UNCHANGED <<slotOwner, liveJobs, stateFile, index, child, jobs>>

\* The child (external) renames the files it has verified, one by one.
ChildInstalls ==
    /\ \/ docsJob.pc = "download" /\ index' = [index EXCEPT !.manifest = docsJob.build] /\ Step("installing")
       \/ docsJob.pc = "installing" /\ index' = [index EXCEPT !.vectors = docsJob.build] /\ Step("closed")
    /\ UNCHANGED <<slotOwner, liveJobs, stateFile, child, jobs>>

EndDownload(phase) ==
    /\ stateFile' = phase
    /\ child' = FALSE
    /\ Dead("fetch")
    /\ Release
    /\ UNCHANGED <<index, jobs>>

ChildSucceeds == docsJob.pc = "closed" /\ EndDownload("done")

\* The child exits with an error, its own or the signal's.
ChildFails ==
    /\ docsJob.pc \in {"download", "installing"}
    /\ EndDownload(IF liveJobs["fetch"].cancelled THEN "cancelled" ELSE "failed")

\* The process cannot be started: the promise rejects before the state is
\* written, and only the slot is given back.
SpawnErrors ==
    /\ docsJob.pc = "download" /\ index = docsJob.before
    /\ Release
    /\ UNCHANGED <<liveJobs, stateFile, index, child, jobs>>

----------------------------------------------------------------------------
\* The rebuild.

StartRebuild ==
    /\ Claim("docs-embed-rebuild")
    /\ docsJob' = [NoDocsJob EXCEPT !.pc = "load", !.before = index, !.build = jobs + 1]
    /\ UNCHANGED <<liveJobs, stateFile, index, child>>

\* Mutant: the slot is given back by the job only.
LoadFailsHolding ==
    /\ docsJob.pc = "load"
    /\ docsJob' = NoDocsJob
    /\ UNCHANGED <<slotOwner, liveJobs, stateFile, index, child, jobs>>

\* No chunks, or no key: the slot is given back.
LoadFails ==
    /\ docsJob.pc = "load"
    /\ Release
    /\ UNCHANGED <<liveJobs, stateFile, index, child, jobs>>

\* The staging directory cannot be made: the slot is given back, the live job,
\* which is there already, stays.
StagingFails ==
    /\ docsJob.pc = "load" /\ index.manifest # 0
    /\ Runs("embed", "embed")
    /\ Release
    /\ UNCHANGED <<stateFile, index, child, jobs>>

Loaded ==
    /\ docsJob.pc = "load" /\ index.manifest # 0
    /\ Runs("embed", "embed")
    /\ stateFile' = "embed"
    /\ Step("batch")
    /\ UNCHANGED <<slotOwner, index, child, jobs>>

InBatches == docsJob.pc = "batch" /\ docsJob.start < Batches
Cancelled == liveJobs["embed"].cancelled

\* usable: the provider's answer has a vector in it.
BatchEmbedded(usable) ==
    /\ InBatches /\ ~Cancelled
    /\ docsJob' = [docsJob EXCEPT !.start = @ + 1, !.limited = 0, !.dim = @ \/ usable]
    /\ UNCHANGED <<slotOwner, liveJobs, stateFile, index, child, jobs>>

\* A batch that still fails after its retries is a hole of zeros, unless too
\* many have, or the provider keeps refusing.
BatchFails(rateLimited) ==
    LET failed == docsJob.failed + 1
        limited == IF rateLimited THEN docsJob.limited + 1 ELSE docsJob.limited IN
    /\ InBatches /\ ~Cancelled
    /\ docsJob' = IF rateLimited /\ limited >= RateLimitAbort THEN [docsJob EXCEPT !.pc = "limited"]
                  ELSE IF failed > MaxFailed THEN [docsJob EXCEPT !.pc = "failed", !.failed = failed]
                  ELSE [docsJob EXCEPT !.start = @ + 1, !.failed = failed, !.limited = limited]
    /\ UNCHANGED <<slotOwner, liveJobs, stateFile, index, child, jobs>>

\* The last state is written, the job leaves liveJobs, its staging directory
\* and its slot.
EndRebuild(phase) ==
    /\ stateFile' = phase
    /\ Dead("embed")
    /\ Release
    /\ UNCHANGED <<index, child, jobs>>

\* Mutant: the vectors are renamed before the flag is looked at.
BatchCancelledLate ==
    /\ InBatches /\ Cancelled
    /\ stateFile' = "cancelled"
    /\ Dead("embed")
    /\ Release
    /\ index' = [index EXCEPT !.vectors = docsJob.build]
    /\ UNCHANGED <<child, jobs>>

BatchCancelled == InBatches /\ Cancelled /\ EndRebuild("cancelled")
TooManyFailed == docsJob.pc = "failed" /\ EndRebuild("failed")

\* Here the job leaves liveJobs before its state is written.
LimitedLeaves ==
    /\ docsJob.pc = "limited"
    /\ Dead("embed")
    /\ Step("limitedWrite")
    /\ UNCHANGED <<slotOwner, stateFile, index, child, jobs>>

LimitedWrites == docsJob.pc = "limitedWrite" /\ EndRebuild("failed")

Finalize ==
    /\ docsJob.pc = "batch" /\ docsJob.start = Batches /\ docsJob.dim
    /\ stateFile' = "finalize"
    /\ liveJobs' = [liveJobs EXCEPT !["embed"].phase = "finalize"]
    /\ Step("renameVectors")
    /\ UNCHANGED <<slotOwner, index, child, jobs>>

RenameVectors ==
    /\ docsJob.pc = "renameVectors"
    /\ index' = [index EXCEPT !.vectors = docsJob.build]
    /\ Step("renameManifest")
    /\ UNCHANGED <<slotOwner, liveJobs, stateFile, child, jobs>>

UpdateManifest ==
    /\ docsJob.pc = "renameManifest"
    /\ index' = [index EXCEPT !.manifest = docsJob.build]
    /\ Step("finish")
    /\ UNCHANGED <<slotOwner, liveJobs, stateFile, child, jobs>>

RebuildDone == docsJob.pc = "finish" /\ EndRebuild("done")

\* The catch block: a write or a rename throws, or no vector came at all.
RebuildThrows ==
    /\ docsJob.pc \in {"batch", "renameVectors", "renameManifest"}
    /\ EndRebuild("failed")

----------------------------------------------------------------------------
\* cancelDocsIndexDownload: the fetch job if one is live, else the embed job;
\* a child that is up is killed.
Cancel ==
    /\ \E k \in Kinds :
          /\ liveJobs[k] # NoJob /\ ~liveJobs[k].cancelled
          /\ k = "embed" => liveJobs["fetch"] = NoJob
          /\ liveJobs' = [liveJobs EXCEPT ![k].cancelled = TRUE]
    /\ UNCHANGED <<slotOwner, stateFile, index, docsJob, child, jobs>>

\* getDocsEmbedJobStatus.
JobStatus ==
    IF liveJobs["fetch"] # NoJob THEN liveJobs["fetch"].phase
    ELSE IF liveJobs["embed"] # NoJob THEN liveJobs["embed"].phase
    ELSE IF stateFile \in Terminal \cup {"none"} THEN stateFile
    ELSE "interrupted"

\* The process is killed with its child (external): its memory is gone, the
\* files stay.
DocsCrash ==
    /\ DocsCrashes /\ docsJob # NoDocsJob
    /\ slotOwner' = "none" /\ docsJob' = NoDocsJob /\ child' = FALSE
    /\ liveJobs' = [k \in Kinds |-> NoJob]
    /\ UNCHANGED <<stateFile, index, jobs>>

Download == Spawn \/ SpawnThrows \/ ChildInstalls \/ ChildSucceeds \/ ChildFails \/ SpawnErrors
Rebuild ==
    \/ LoadFails \/ StagingFails \/ Loaded \/ \E b \in BOOLEAN : BatchEmbedded(b) \/ BatchFails(b)
    \/ BatchCancelled \/ TooManyFailed \/ LimitedLeaves \/ LimitedWrites
    \/ Finalize \/ RenameVectors \/ UpdateManifest \/ RebuildDone \/ RebuildThrows
DocsNext == StartDownload \/ StartRebuild \/ Download \/ Rebuild \/ Cancel \/ DocsCrash

DocsFairness == WF_docsVars(Download \/ Rebuild)
DocsSpec == DocsInit /\ [][DocsNext]_docsVars /\ DocsFairness

----------------------------------------------------------------------------
\* The slot is held exactly while a job is between claiming it and its end,
\* by the route that started it, on every path a job can fail, be cancelled
\* or be killed on (docs-embed-rebuild.ts: single-flight, 409 on contention).  A
\* job whose spawn has thrown never ends.
SlotFollowsJob ==
    /\ slotOwner = "none" <=> docsJob = NoDocsJob
    /\ slotOwner = "docs-index-download" => docsJob.pc \in {"spawn", "stranded", "download", "installing", "closed"}

\* A rebuild that ends without being done has left both files of the index
\* as they were, unless it ended between the two renames.
UndoneRebuildLeavesIndex ==
    [][slotOwner = "docs-embed-rebuild" /\ slotOwner' = "none" /\ stateFile' # "done"
          => index' = docsJob.before \/ docsJob.pc \in {"renameManifest", "finish"}]_docsVars

\* Whatever fails, the slot becomes free again, but where spawn throws.
SlotFreed == slotOwner # "none" ~> slotOwner = "none" \/ docsJob.pc = "stranded"

\* (Does not hold.)  A job that runs is the one the status shows and a cancel reaches.
StatusShowsJob ==
    /\ docsJob.pc \in {"batch", "renameVectors", "renameManifest"} => JobStatus \in {"embed", "finalize"}
    /\ docsJob = NoDocsJob => JobStatus \in Terminal \cup {"none", "interrupted"}

\* (Does not hold.)  The vectors and the manifest are of one build whenever no job works on
\* them (docs-embed-rebuild.ts: "the rename is the only commit point. A
\* failed/cancelled/crashed job never leaves a torn index").
NeverTorn == docsJob = NoDocsJob => index.vectors \in {0, index.manifest}
=============================================================================
