------------------------------- MODULE Stores -------------------------------
(***************************************************************************)
(* The state every route handler shares, and the ways a handler touches it.*)
(*                                                                         *)
(* Files (they survive a crash): metadata.json, results.json and, for each *)
(* student, the uploaded notebook.  Memory: the persist lock's chain of    *)
(* sections, the two progress records, and the handlers in flight.  Node   *)
(* runs a handler from one await to the next without interruption, so a    *)
(* handler is a sequence of steps; every store call is two of them, the    *)
(* read of the whole file and the rename that replaces it.                 *)
(*                                                                         *)
(* A handler runs on behalf of a request; the batch pre-evaluation also    *)
(* runs Concurrency workers for its request.                               *)
(***************************************************************************)
EXTENDS Submissions, Sequences

CONSTANTS
    Requests,      \* bound: HTTP requests in flight at a time
    Routes,        \* the routes a client calls in this instance
    MinConsensus,  \* MIN_OUTLIER_CONSENSUS, 4 in the code
    InitialRows    \* the kinds of rows the server may start with

Concurrency == 2

Workers == Requests \X (1 .. Concurrency)
Actors == Requests \cup Workers

AllRoutes == {"process", "preEvaluate", "resetPreEval",
              "save", "grade", "reset", "archive", "restore", "import",
              "upload", "delete", "run"}

ASSUME RoutesAssumption == Routes \subseteq AllRoutes
ASSUME MinConsensusAssumption == MinConsensus \in Nat \ {0}
ASSUME ActorsAssumption == Requests \cap Workers = {}

VARIABLES
    meta,         \* metadata.json
    results,      \* results.json
    notebook,     \* student -> the upload on disk, 0 when there is none
    chain,        \* persistChain: the sections not yet settled, head running
    processRun,   \* process-progress.ts
    evalRun,      \* pre-eval-progress.ts
    pc,           \* actor -> the await its handler is at
    loc,          \* actor -> the local variables of its handler
    metaSeen,     \* actor -> {} or {the metadata file it has read}
    resultsSeen   \* actor -> {} or {the results file it has read}

files == <<meta, results, notebook>>
runs == <<processRun, evalRun>>
seen == <<metaSeen, resultsSeen>>
vars == <<meta, results, notebook, chain, processRun, evalRun, pc, loc, metaSeen, resultsSeen>>

----------------------------------------------------------------------------
\* Where a handler can be: the label names the step it takes next.

\* Sections of the persist lock, and where in them each file is written.
SectionMeta == {"process.start", "process.executed", "process.clearError",
                "process.failed", "process.noteFailure",
                "process.caught", "process.noteCaught",
                "row.flip", "resetPre.flip"}
SectionResults == {"process.store", "process.storeFailure", "row.store"}
Section == SectionMeta \cup SectionResults \cup {"resetPre.load", "resetPre.write"}

\* Store calls outside the lock.
BareMeta == {"save", "grade.status", "grade.mark", "reset",
             "archive.status", "archive.mark", "restore.status", "restore.mark",
             "import.upsert", "import.save", "upload.upsert", "delete.record",
             "run.start", "run.executed", "run.clearError", "run.caught", "run.noteCaught"}
BareResults == {"calibrate", "upload.clear", "delete.result", "run.store"}

\* Other awaits: reads that nothing is written back from, files, the executor
\* and the language model.
Other == {"idle", "process.begin", "process.execute", "process.answered",
          "preEval.list", "preEval.begin", "preEval.rows",
          "row.next", "row.look", "row.ask",
          "resetPre.list", "resetPre.pick",
          "archive.look", "restore.look", "upload.file", "delete.file", "run.execute"}

Labels == Section \cup BareMeta \cup BareResults \cup Other

MetaCalls == SectionMeta \cup BareMeta
ResultsCalls == SectionResults \cup BareResults

----------------------------------------------------------------------------
\* Local variables of a handler.
Locals == [on : Students \cup {0},          \* the row it works on
           left : SUBSET Students,          \* rows of the batch still to do
           targets : SUBSET Students,       \* rows a reset of pre-evaluations takes
           run : Execution,                 \* an executor's outcome, or what was pre-evaluated
           kept : Submission,               \* the record archive and restore write back
           settled : Nat, succeeded : Nat]

NoLocals == [on |-> 0, left |-> {}, targets |-> {}, run |-> NoExecution,
             kept |-> NoSubmission, settled |-> 0, succeeded |-> 0]

Progress == [running : BOOLEAN, done : Nat, total : Nat]

\* The tallies of a run that has ended are for the dashboard alone and are
\* not kept here.
IdleRun == [running |-> FALSE, done |-> 0, total |-> 0]
Begun(n) == [running |-> TRUE, done |-> 0, total |-> n]

TypeOK ==
    /\ meta \in MetadataFile
    /\ results \in ResultsFile
    /\ notebook \in [Students -> 0 .. MaxVersion]
    /\ chain \in Seq(Actors)
    /\ processRun \in Progress
    /\ evalRun \in Progress
    /\ pc \in [Actors -> Labels]
    /\ loc \in [Actors -> Locals]
    /\ metaSeen \in [Actors -> SUBSET MetadataFile]
    /\ resultsSeen \in [Actors -> SUBSET ResultsFile]

----------------------------------------------------------------------------
\* A row at rest, as an earlier life of the server leaves it.
FirstUpload == [of |-> 1, ok |-> TRUE]

RestingSubmission(kind) ==
    CASE kind = "absent" -> NoSubmission
      [] kind = "pending" -> [NoSubmission EXCEPT !.status = "pending"]
      [] kind = "executed" -> [NoSubmission EXCEPT !.status = "executed"]
      [] kind = "error" -> [NoSubmission EXCEPT !.status = "error", !.error = TRUE]
      [] kind = "pre-evaluated" -> [NoSubmission EXCEPT !.status = "pre-evaluated"]
      [] kind = "graded" -> [NoSubmission EXCEPT !.status = "graded", !.teacherGrade = TRUE,
                                                 !.grading = Keys]

RestingResult(kind) ==
    CASE kind \in {"absent", "pending"} -> NoResult
      [] kind \in {"executed", "graded"} -> [NoResult EXCEPT !.run = FirstUpload]
      [] kind = "error" -> [NoResult EXCEPT !.run = [of |-> 1, ok |-> FALSE]]
      [] kind = "pre-evaluated" -> [NoResult EXCEPT !.run = FirstUpload, !.preEval.about = FirstUpload]

RowKinds == {"absent", "pending", "executed", "error", "pre-evaluated", "graded"}

ASSUME InitialRowsAssumption == InitialRows \subseteq RowKinds

StoresInit ==
    /\ \E kind \in [Students -> InitialRows] :
          /\ meta = [s \in Students |-> RestingSubmission(kind[s])]
          /\ results = [s \in Students |-> RestingResult(kind[s])]
          /\ notebook = [s \in Students |-> IF kind[s] = "absent" THEN 0 ELSE 1]
    /\ chain = <<>>
    /\ processRun = IdleRun
    /\ evalRun = IdleRun
    /\ pc = [a \in Actors |-> "idle"]
    /\ loc = [a \in Actors |-> NoLocals]
    /\ metaSeen = [a \in Actors |-> {}]
    /\ resultsSeen = [a \in Actors |-> {}]

----------------------------------------------------------------------------
\* withPersistLock: a call appends its section to the chain; the section at
\* the head runs; when it settles, either way, the next one runs.

Holds(a) == chain # <<>> /\ Head(chain) = a

\* Mutant: the sections are not serialized.
MayRunUnlocked(a) == TRUE

\* Inside a section a handler moves only at the head of the chain.
MayRun(a) == pc[a] \in Section => Holds(a)

\* The read half of a store call.
ReadMetadata(a) ==
    /\ pc[a] \in MetaCalls
    /\ MayRun(a)
    /\ metaSeen[a] = {}
    /\ metaSeen' = [metaSeen EXCEPT ![a] = {meta}]
    /\ UNCHANGED <<files, chain, runs, pc, loc, resultsSeen>>

ReadResults(a) ==
    /\ pc[a] \in ResultsCalls
    /\ MayRun(a)
    /\ resultsSeen[a] = {}
    /\ resultsSeen' = [resultsSeen EXCEPT ![a] = {results}]
    /\ UNCHANGED <<files, chain, runs, pc, loc, metaSeen>>

\* The write half: the file computed from the snapshot replaces the file.
WriteMetadata(a, file) ==
    /\ meta' = file
    /\ metaSeen' = [metaSeen EXCEPT ![a] = {}]
    /\ UNCHANGED <<results, notebook, resultsSeen>>

WriteResults(a, file) ==
    /\ results' = file
    /\ resultsSeen' = [resultsSeen EXCEPT ![a] = {}]
    /\ UNCHANGED <<meta, notebook, metaSeen>>

\* The call throws, or returns early, before it writes.
LeaveMetadata(a) ==
    /\ metaSeen' = [metaSeen EXCEPT ![a] = {}]
    /\ UNCHANGED <<files, resultsSeen>>

LeaveResults(a) ==
    /\ resultsSeen' = [resultsSeen EXCEPT ![a] = {}]
    /\ UNCHANGED <<files, metaSeen>>

GoTo(a, label) == pc' = [pc EXCEPT ![a] = label]

\* The handler returns, or its promise rejects: its locals are gone.
Finish(a) ==
    /\ pc' = [pc EXCEPT ![a] = "idle"]
    /\ loc' = [loc EXCEPT ![a] = NoLocals]

Enter(a) == chain' = Append(chain, a)
Leave == chain' = Tail(chain)
LeaveAndEnter(a) == chain' = Append(Tail(chain), a)
=============================================================================
