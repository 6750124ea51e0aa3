---------------------------- MODULE ToolsProofs ----------------------------
(***************************************************************************)
(* Proofs about the copilot's tools over the submission server, for one    *)
(* request at a time, be it a route or a tool: what RowsProofs shows of a  *)
(* teacher who works alone also holds when the copilot works for her, and  *)
(* no tool leaves anything running.                                        *)
(*                                                                         *)
(* A tool repeats the store calls of a route outside the lock, at labels of*)
(* its own.  So the state is either one of the server alone, of which all  *)
(* of ServerInv holds, or one where the only request is at work in a tool, *)
(* nobody is in a section and no worker lives (AtWork).                    *)
(***************************************************************************)
EXTENDS RowsProofs, CopilotTools

ToolLabels == ToolMetaCalls \cup ToolResultsCalls
                 \cup {"tool.look", "tool.list", "tool.read", "tool.ask", "all.list", "all.begin", "all.execute"}

\* Where a tool ends, or goes on as a route.
Exits == {"idle", "save", "archive.look", "run.start", "calibrate"}

\* The labels among these at which there is a row in hand.
ToolAtRow == (ToolLabels \ {"tool.list", "all.list", "all.begin"}) \cup {"save", "archive.look", "run.start"}

\* The invariant of the server, with no snapshot stale.
Home == ServerInv /\ Placed /\ MetadataFresh /\ ResultsFresh

\* Nobody but t does anything, and t is outside of every section.
AtWork(t) ==
    /\ t \in Requests
    /\ Data
    /\ pc \in [Actors -> Labels \cup ToolLabels]
    /\ chain = <<>> /\ ~evalRun.running
    /\ \A a \in Actors \ {t} : pc[a] = "idle" /\ metaSeen[a] = {} /\ resultsSeen[a] = {}
    /\ pc[t] \in ToolAtRow => loc[t].on \in Students
    /\ metaSeen[t] \subseteq {meta} /\ (metaSeen[t] # {} => pc[t] \in ToolMetaCalls)
    /\ resultsSeen[t] \subseteq {results} /\ (resultsSeen[t] # {} => pc[t] \in ToolResultsCalls)

AtTool(t) == AtWork(t) /\ pc[t] \in ToolLabels

ToolInv == AloneKept /\ (Home \/ \E t \in Requests : AtTool(t))

----------------------------------------------------------------------------
(***************************************************************************)
(* Between the server and a tool.                                          *)
(***************************************************************************)

\* The tools have no label of the server.
LEMMA ToolLabelsApart ==
    /\ \A l \in ToolLabels : l \notin Labels
    /\ Exits \subseteq Labels
    /\ \A l \in Exits : /\ l \notin Section /\ l \notin WorkerLabels
                        /\ l \notin {"preEval.rows", "process.begin"}
                        /\ l \in AtRow => l \in ToolAtRow
                        /\ l \notin ToolLabels
BY DEF ToolLabels, ToolMetaCalls, ToolResultsCalls, ToolAtRow, Exits, Labels, Other, Section, SectionMeta,
       SectionResults, BareMeta, BareResults, AtRow, WorkerLabels

\* A request that is idle, and the only one, leaves nothing in flight.
LEMMA IdleAtWork ==
    ASSUME OneRequest, Home, NEW t \in Requests, pc[t] = "idle"
    PROVE  AtWork(t)
<1>1. /\ Data /\ chain \in Seq(Actors) /\ pc \in [Actors -> Labels]
      /\ Requests \subseteq Actors /\ Workers \subseteq Actors /\ Actors = Requests \cup Workers
      /\ \A a \in Actors : /\ metaSeen[a] # {} => pc[a] \in MetaCalls
                           /\ resultsSeen[a] # {} => pc[a] \in Holding
  BY Facts DEF Home, Actors
<1>2. \A r \in Requests : r = t
  BY DEF OneRequest
<1>3. "idle" \notin MetaCalls /\ "idle" \notin Holding /\ "idle" \notin Section /\ "idle" \notin ToolAtRow
  BY DEF MetaCalls, Holding, ResultsCalls, Section, SectionMeta, SectionResults, BareMeta, BareResults,
         ToolAtRow, ToolLabels, ToolMetaCalls, ToolResultsCalls
<1>4. \A w \in Workers : w[1] \in Requests
  BY DEF Workers
<1>5. ~evalRun.running /\ \A w \in Workers : pc[w] = "idle"
  BY <1>2, <1>4 DEF Home, ServerInv, RunSlotExclusive
<1>6. \A a \in Actors : pc[a] = "idle" /\ metaSeen[a] = {} /\ resultsSeen[a] = {}
  BY <1>1, <1>2, <1>3, <1>5
<1>7. chain = <<>>
  <2>1. SUFFICES ASSUME chain # <<>> PROVE FALSE
    OBVIOUS
  <2>2. 1 \in 1 .. Len(chain) /\ chain[1] \in Actors
    BY <1>1, <2>1
  <2>3. InQueue(chain[1])
    BY <2>2 DEF InQueue
  <2> QED
    BY <1>3, <1>6, <2>2, <2>3 DEF Home, ServerInv, SectionsQueued
<1> QED
  BY <1>1, <1>3, <1>5, <1>6, <1>7 DEF AtWork

\* A tool that is over, or goes on as a route, leaves the server as it should be.
LEMMA HomeAgain ==
    ASSUME OneRequest, NEW t \in Requests, AtWork(t), pc[t] \in Exits
    PROVE  Home
<1>1. /\ Data /\ chain = <<>> /\ ~evalRun.running
      /\ Requests \subseteq Actors /\ Workers \subseteq Actors
      /\ \A a \in Actors \ {t} : pc[a] = "idle" /\ metaSeen[a] = {} /\ resultsSeen[a] = {}
  BY DEF AtWork, Actors
<1>2. \A a \in Actors : pc[a] \in Exits /\ metaSeen[a] = {} /\ resultsSeen[a] = {}
  <2>1. pc[t] \notin ToolMetaCalls /\ pc[t] \notin ToolResultsCalls
    BY ToolLabelsApart DEF ToolLabels
  <2> QED
    BY <1>1, <2>1 DEF AtWork, Exits
<1>3. pc \in [Actors -> Labels]
  BY <1>2, ToolLabelsApart DEF AtWork
<1>4. TypeOK
  <2>1. <<>> \in Seq(Actors)
    OBVIOUS
  <2> QED
    BY <1>1, <1>3, <2>1 DEF TypeOK, Data
<1>5. AtHand
  <2>1. "idle" \notin AtRow
    BY Destinations
  <2>2. \A a \in Actors : pc[a] # "process.begin"
    BY <1>2, ToolLabelsApart
  <2>3. pc[t] \in AtRow => loc[t].on \in Students
    BY <1>2, ToolLabelsApart DEF AtWork
  <2> QED
    BY <1>1, <2>1, <2>2, <2>3 DEF AtHand
<1>6. SectionsQueued
  <2>1. \A a \in Actors : pc[a] \notin Section
    BY <1>2, ToolLabelsApart
  <2>2. Len(chain) = 0
    BY <1>1
  <2> QED
    BY <1>2, <2>1, <2>2 DEF SectionsQueued, Distinct, InQueue
<1>7. \A w \in Workers : pc[w] = "idle"
  BY <1>1, ActorsAssumption
<1>8. RunSlotExclusive
  <2>1. \A a \in Actors : pc[a] # "preEval.rows"
    BY <1>2, ToolLabelsApart
  <2> QED
    BY <1>1, <1>7, <2>1 DEF RunSlotExclusive
<1>9. Placed
  BY <1>1, <1>2, <1>7, ToolLabelsApart DEF Placed
<1> QED
  BY <1>2, <1>4, <1>5, <1>6, <1>8, <1>9 DEF Home, ServerInv, MetadataFresh, ResultsFresh

\* Whoever goes on with what he has been called for is at a label of the server,
LEMMA StepsAtLabels ==
    ASSUME NEW a, RequestStep(a) \/ WorkStep(a)
    PROVE  pc[a] \in Labels \ {"idle"}
<1> USE DEF Labels, Other, Section, SectionMeta, SectionResults, BareMeta, BareResults
<1>1. CASE ReadMetadata(a) \/ ReadResults(a)
  BY <1>1 DEF ReadMetadata, ReadResults, MetaCalls, ResultsCalls
<1>2. CASE ProcessStep(a)
  BY <1>2 DEF ProcessStep, ProcessBegin, ProcessStart, ProcessExecute, ProcessAnswered, ProcessExecuted, ProcessMark, ProcessStore,
     ProcessClearError, ProcessFailed, ProcessNoteFailure, ProcessStoreFailure, ProcessCaught, ProcessNoteCaught
<1>3. CASE PreEvalStep(a) \/ ResetPreStep(a)
  BY <1>3 DEF PreEvalStep, PreEvalList, PreEvalBegin, PreEvalEnd, CalibrateCohort, ResetPreStep, ResetPreList,
     ResetPrePick, ResetPreLoad, ResetPreFlip, ResetPreWrite
<1>4. CASE TeacherStep(a)
  BY <1>4 DEF TeacherStep, Save, GradeStatus, GradeMark, Reset, ImportUpsert, ImportSave, ArchiveLook, ArchiveStatus,
     ArchiveMark, RestoreLook, RestoreStatus, RestoreMark, WriteBack, UploadFile, UploadUpsert, UploadClear,
     DeleteFile, DeleteResult, DeleteRecord, RunStart, RunExecute, RunExecuted, RunStore, RunClearError, RunCaught,
     RunNoteCaught
<1>5. CASE WorkerStep(a)
  BY <1>5 DEF WorkerStep, RowNext, RowLook, RowAsk, RowStore, RowFlip
<1> QED
  BY <1>1, <1>2, <1>3, <1>4, <1>5 DEF RequestStep, WorkStep

\* so the server takes no step while its only request is at work in a tool.
LEMMA ServerWaits ==
    ASSUME OneRequest, NEW t \in Requests, AtTool(t), NEW a \in Actors
    PROVE  ~StepOf(a)
<1>1. pc[t] \notin Labels /\ (a # t => pc[a] = "idle")
  BY ToolLabelsApart DEF AtTool, AtWork
<1>2. "idle" \in Labels
  BY ToolLabelsApart DEF Exits
<1>3. ASSUME ClientCall(a) PROVE pc[a] = "idle"
  BY <1>3 DEF ClientCall, ProcessList, PreEvalArrive, ResetPreArrive, TeacherCall, SaveArrive, GradeArrive,
     ResetArrive, ImportArrive, ArchiveArrive, RestoreArrive, UploadArrive, DeleteArrive, RunArrive, Arrive
<1>4. a \in Requests => a = t
  BY DEF OneRequest
<1> QED
  BY <1>1, <1>2, <1>3, <1>4, StepsAtLabels DEF StepOf

----------------------------------------------------------------------------
(***************************************************************************)
(* What a step of a tool does.  Of metadata.json it writes one row, at most*)
(* its status or the note of an error; it makes a row executing only on its*)
(* way to where it owns it, and leaves it so only where it is settled; and *)
(* the flag of a batch is up only in the loop over the rows.               *)
(***************************************************************************)
ToolOwning == {"all.execute", "all.executed", "all.failed", "all.caught"}

ToolBatching == (ToolMetaCalls \cup ToolResultsCalls \cup {"all.execute"}) \ {"tool.envelope"}

ServerBatching == {"process.start", "process.execute", "process.answered", "process.executed", "process.store", "process.clearError",
                   "process.failed", "process.noteFailure", "process.storeFailure", "process.caught",
                   "process.noteCaught"}

SettlesRow(a, owning) ==
    /\ \A s \in Students : meta'[s].status = "executing" =>
          meta[s].status = "executing" \/ (pc'[a] \in owning /\ loc'[a].on = s)
    /\ pc[a] \in owning =>
          \/ pc'[a] \in owning /\ loc'[a].on = loc[a].on
          \/ meta'[loc[a].on].status # "executing"

FlagFollows(a, batching) ==
    \/ ~processRun'.running
    \/ pc'[a] \in batching
    \/ processRun' = processRun /\ pc[a] \notin batching

\* t goes to l with the locals L, and gives up what it has read.
ToolGoes(t, l, L) ==
    /\ l \in ToolLabels \cup Exits
    /\ L \in Locals
    /\ l \in ToolAtRow => L.on \in Students
    /\ pc' = [pc EXCEPT ![t] = l]
    /\ loc' = [loc EXCEPT ![t] = L]

\* The files are still files, and t holds no snapshot.
GivesUp(t) ==
    /\ meta' \in MetadataFile /\ results' \in ResultsFile /\ notebook' = notebook
    /\ metaSeen' = [metaSeen EXCEPT ![t] = {}]
    /\ resultsSeen' = [resultsSeen EXCEPT ![t] = {}]

ToolWorks(t) ==
    /\ AtWork(t)'
    /\ pc'[t] \in ToolLabels \cup Exits
    /\ Writes(t)
    /\ SettlesRow(t, ToolOwning)
    /\ FlagFollows(t, ToolBatching)

\* Such a step leaves t, and nobody else, at work.
LEMMA GoesKeepsWork ==
    ASSUME NEW t \in Requests, NEW l, NEW L, AtWork(t), ToolGoes(t, l, L), GivesUp(t),
           processRun' \in Progress, UNCHANGED <<chain, evalRun>>
    PROVE  /\ AtWork(t)' /\ pc'[t] \in ToolLabels \cup Exits
           /\ pc'[t] = l /\ loc'[t] = L
<1>1. t \in Actors /\ Data /\ pc \in [Actors -> Labels \cup ToolLabels]
  BY DEF AtWork, Actors
<1>2. pc'[t] = l /\ loc'[t] = L
  BY <1>1 DEF ToolGoes, Data
<1>3. pc' \in [Actors -> Labels \cup ToolLabels]
  BY <1>1, ToolLabelsApart DEF ToolGoes
<1>4. Data'
  BY <1>1 DEF Data, ToolGoes, GivesUp
<1>5. \A a \in Actors \ {t} : pc'[a] = pc[a] /\ metaSeen'[a] = metaSeen[a] /\ resultsSeen'[a] = resultsSeen[a]
  BY <1>1 DEF Data, ToolGoes, GivesUp
<1>6. metaSeen'[t] = {} /\ resultsSeen'[t] = {}
  BY <1>1 DEF Data, GivesUp
<1> QED
  BY <1>2, <1>3, <1>4, <1>5, <1>6 DEF AtWork, ToolGoes

\* A step that touches neither file, and is none of their calls.
LEMMA NoCall ==
    ASSUME NEW t \in Requests, AtWork(t), pc[t] \notin ToolMetaCalls \cup ToolResultsCalls, UNCHANGED <<files, seen>>
    PROVE  GivesUp(t)
<1>1. t \in Actors /\ Data /\ metaSeen[t] = {} /\ resultsSeen[t] = {}
  BY DEF AtWork, Actors
<1> QED
  BY <1>1 DEF GivesUp, Data, files, seen

\* A call on metadata.json writes the file computed from its snapshot, or throws.
LEMMA MetaCall ==
    ASSUME NEW t \in Requests, AtWork(t), pc[t] \in ToolMetaCalls, NEW file \in MetadataFile,
           WriteMetadata(t, file) \/ LeaveMetadata(t)
    PROVE  GivesUp(t)
<1>1. t \in Actors /\ Data /\ resultsSeen[t] = {}
  BY DEF AtWork, Actors, ToolMetaCalls, ToolResultsCalls
<1> QED
  BY <1>1 DEF GivesUp, Data, WriteMetadata, LeaveMetadata, files

\* The same of results.json.
LEMMA ResultsCall ==
    ASSUME NEW t \in Requests, AtWork(t), pc[t] \in ToolResultsCalls, NEW file \in ResultsFile,
           WriteResults(t, file) \/ LeaveResults(t)
    PROVE  GivesUp(t)
<1>1. t \in Actors /\ Data /\ metaSeen[t] = {}
  BY DEF AtWork, Actors, ToolMetaCalls, ToolResultsCalls
<1> QED
  BY <1>1 DEF GivesUp, Data, WriteResults, LeaveResults, files

\* The labels with a row in hand and those of a call are labels of a tool.
LEMMA ToolPlaces ==
    /\ \A l \in ToolOwning \cup ToolBatching : l \in ToolLabels /\ l \in ToolAtRow
    /\ \A l \in ToolMetaCalls \cup ToolResultsCalls : l \in ToolLabels /\ l \in ToolAtRow
    /\ \A l \in Exits : l \notin ToolOwning /\ l \notin ToolBatching
    /\ "idle" \notin ToolAtRow
    /\ "idle" \notin ToolMetaCalls \cup ToolResultsCalls
BY DEF ToolOwning, ToolBatching, ToolLabels, ToolAtRow, ToolMetaCalls, ToolResultsCalls, Exits

\* A step that leaves the rows and the flag of the batch as they are, from and to
\* a place where no row is owned and no flag is up.
LEMMA QuietWorks ==
    ASSUME NEW t \in Requests, AtWork(t), NEW l, NEW L, ToolGoes(t, l, L),
           pc[t] \notin ToolMetaCalls \cup ToolResultsCalls \cup {"all.execute"},
           UNCHANGED <<files, chain, runs, seen>>
    PROVE  ToolWorks(t)
<1>1. GivesUp(t)
  BY NoCall
<1>2. processRun' \in Progress
  BY DEF AtWork, Data, runs
<1>3. AtWork(t)' /\ pc'[t] \in ToolLabels \cup Exits
  BY <1>1, <1>2, GoesKeepsWork DEF runs
<1>4. Writes(t)
  BY DEF Writes, files
<1>5. pc[t] \notin ToolOwning /\ pc[t] \notin ToolBatching
  BY DEF ToolOwning, ToolBatching, ToolMetaCalls
<1>6. SettlesRow(t, ToolOwning)
  BY <1>5 DEF SettlesRow, files
<1>7. FlagFollows(t, ToolBatching)
  BY <1>5 DEF FlagFollows, runs
<1> QED
  BY <1>3, <1>4, <1>6, <1>7 DEF ToolWorks

----------------------------------------------------------------------------
(***************************************************************************)
(* The tools, one by one.                                                  *)
(***************************************************************************)

\* The read half of a call takes its snapshot of the file as it is.
LEMMA ReadsWork ==
    ASSUME NEW t \in Requests, AtTool(t), ToolReads(t)
    PROVE  ToolWorks(t) /\ UNCHANGED <<meta, pc, loc>>
<1>1. /\ t \in Actors /\ Data
      /\ pc' = pc /\ loc' = loc /\ UNCHANGED <<files, chain, runs>>
      /\ meta \in MetadataFile /\ results \in ResultsFile
  BY DEF AtTool, AtWork, Actors, ToolReads, Data
<1>2. Data'
  BY <1>1 DEF Data, ToolReads, files, runs
<1>3. \A a \in Actors \ {t} : metaSeen'[a] = metaSeen[a] /\ resultsSeen'[a] = resultsSeen[a]
  BY <1>1 DEF Data, ToolReads
<1>4. /\ metaSeen'[t] \subseteq {meta} /\ (metaSeen'[t] # {} => pc[t] \in ToolMetaCalls)
      /\ resultsSeen'[t] \subseteq {results} /\ (resultsSeen'[t] # {} => pc[t] \in ToolResultsCalls)
  BY <1>1 DEF Data, ToolReads, AtTool, AtWork
<1>5. AtWork(t)'
  BY <1>1, <1>2, <1>3, <1>4 DEF AtTool, AtWork, files, runs
<1>6. Writes(t) /\ SettlesRow(t, ToolOwning) /\ FlagFollows(t, ToolBatching)
  BY <1>1 DEF Writes, SettlesRow, FlagFollows, files, runs
<1> QED
  BY <1>1, <1>5, <1>6 DEF ToolWorks, AtTool, files

\* What the teacher, or a turn of hers, calls.
LEMMA CallsWork ==
    ASSUME NEW t \in Requests, AtWork(t), ToolCall(t)
    PROVE  ToolWorks(t)
<1>1. t \in Actors /\ loc \in [Actors -> Locals] /\ loc[t] \in Locals /\ meta \in MetadataFile
  BY DEF AtWork, Actors, Data
<1>2. pc[t] = "idle" /\ UNCHANGED <<files, chain, runs, seen>>
  BY DEF ToolCall, SaveTool, ArchiveTool, ProcessSubmission, ProcessAll, PreEvaluateTool, PreEvaluateAll, CallTool
<1>3. PICK l \in {"save", "archive.look", "tool.look", "tool.read", "all.list", "tool.list"} :
          /\ pc' = [pc EXCEPT ![t] = l]
          /\ \/ l \in {"all.list", "tool.list"} /\ UNCHANGED loc
             \/ \E s \in Students : loc' = [loc EXCEPT ![t].on = s]
  BY DEF ToolCall, SaveTool, ArchiveTool, ProcessSubmission, ProcessAll, PreEvaluateTool, PreEvaluateAll, CallTool,
         GoTo, Rows
<1>4. \E L : ToolGoes(t, l, L)
  <2>1. l \in ToolLabels \cup Exits /\ (l \in {"all.list", "tool.list"} => l \notin ToolAtRow)
    BY DEF ToolLabels, Exits, ToolAtRow, ToolMetaCalls, ToolResultsCalls
  <2>2. CASE l \in {"all.list", "tool.list"} /\ UNCHANGED loc
    <3>1. loc' = [loc EXCEPT ![t] = loc[t]]
      BY <1>1, <2>2
    <3> QED
      BY <1>1, <1>3, <2>1, <2>2, <3>1 DEF ToolGoes
  <2>3. CASE \E s \in Students : loc' = [loc EXCEPT ![t].on = s]
    <3>1. PICK s \in Students : loc' = [loc EXCEPT ![t] = [loc[t] EXCEPT !.on = s]]
      BY <2>3
    <3>2. [loc[t] EXCEPT !.on = s] \in Locals /\ [loc[t] EXCEPT !.on = s].on = s
      BY <1>1, LocalsType DEF Locals
    <3> QED
      BY <1>3, <2>1, <3>1, <3>2 DEF ToolGoes
  <2> QED
    BY <1>3, <2>2, <2>3
<1>5. pc[t] \notin ToolMetaCalls \cup ToolResultsCalls \cup {"all.execute"}
  BY <1>2, ToolPlaces
<1> QED
  BY <1>2, <1>4, <1>5, QuietWorks

\* process-submission looks at the row and runs it, or refuses.
LEMMA LookWorks ==
    ASSUME NEW t \in Requests, AtWork(t), ProcessSubmissionLook(t)
    PROVE  ToolWorks(t)
<1>1. t \in Actors /\ loc \in [Actors -> Locals] /\ loc[t] \in Locals
  BY DEF AtWork, Actors, Data
<1>2. "tool.look" \in ToolAtRow /\ "run.start" \in Exits /\ "idle" \in Exits
      /\ "tool.look" \notin ToolMetaCalls \cup ToolResultsCalls \cup {"all.execute"}
  BY DEF ToolAtRow, ToolLabels, Exits, ToolMetaCalls, ToolResultsCalls
<1>3. loc[t].on \in Students
  BY <1>2 DEF AtWork, ProcessSubmissionLook
<1>4. CASE GoTo(t, "run.start") /\ UNCHANGED loc
  <2>1. loc' = [loc EXCEPT ![t] = loc[t]]
    BY <1>1, <1>4
  <2>2. ToolGoes(t, "run.start", loc[t])
    BY <1>1, <1>2, <1>3, <1>4, <2>1 DEF ToolGoes, GoTo
  <2> QED
    BY <1>2, <2>2, QuietWorks DEF ProcessSubmissionLook
<1>5. CASE Finish(t)
  <2>1. ToolGoes(t, "idle", NoLocals)
    BY <1>2, <1>5, LocalsType, ToolPlaces DEF ToolGoes, Finish
  <2> QED
    BY <1>2, <2>1, QuietWorks DEF ProcessSubmissionLook
<1> QED
  BY <1>4, <1>5 DEF ProcessSubmissionLook
\* The top of the loop of process-all: the flag goes down with the tool, and is up
\* with a row in hand.
LEMMA NextGoes ==
    ASSUME NEW t \in Requests, AtWork(t), NEW left \in SUBSET Students, NEW count \in Nat, NEW run \in Progress,
           AllNext(t, left, count, run)
    PROVE  /\ \E l \in {"idle", "all.start"} : \E L : ToolGoes(t, l, L)
           /\ pc'[t] \notin ToolOwning
           /\ processRun' \in Progress /\ UNCHANGED evalRun
           /\ FlagFollows(t, ToolBatching)
<1>1. t \in Actors /\ pc \in [Actors -> Labels \cup ToolLabels] /\ loc \in [Actors -> Locals]
  BY DEF AtWork, Actors, Data
<1>2. "idle" \in Exits /\ "all.start" \in ToolBatching /\ "all.start" \notin ToolOwning
  BY DEF Exits, ToolBatching, ToolOwning, ToolMetaCalls, ToolResultsCalls
<1>3. CASE AllEnd(t)
  <2>1. ToolGoes(t, "idle", NoLocals) /\ pc'[t] = "idle"
    BY <1>1, <1>2, <1>3, LocalsType, ToolPlaces DEF ToolGoes, AllEnd, Finish
  <2>2. processRun' \in Progress /\ ~processRun'.running /\ UNCHANGED evalRun
    BY <1>3, ProgressType DEF AllEnd, IdleRun
  <2> QED
    BY <1>2, <2>1, <2>2, ToolPlaces DEF FlagFollows
<1>4. CASE left # {} /\ ~AllEnd(t)
  <2> DEFINE L == [NoLocals EXCEPT !.left = left, !.on = FirstOf(left), !.settled = count]
  <2>1. loc' = [loc EXCEPT ![t] = L] /\ pc' = [pc EXCEPT ![t] = "all.start"]
        /\ processRun' = run /\ UNCHANGED evalRun
    BY <1>4 DEF AllNext, GoTo
  <2>2. FirstOf(left) \in Students
    BY <1>4, FirstOfType
  <2>3. L \in Locals /\ L.on \in Students
    BY <2>2, LocalsType DEF Locals, NoLocals
  <2>4. ToolGoes(t, "all.start", L) /\ pc'[t] = "all.start"
    BY <1>1, <1>2, <2>1, <2>3, ToolPlaces DEF ToolGoes
  <2> QED
    BY <1>2, <2>1, <2>4 DEF FlagFollows
<1> QED
  BY <1>3, <1>4 DEF AllNext

\* A step that settles the row in hand, or finds it settled, and goes to where no
\* row is owned.
LEMMA LeavesSettled ==
    ASSUME NEW t \in Requests, pc'[t] \notin ToolOwning,
           \A s \in Students : meta'[s].status = "executing" => meta[s].status = "executing",
           pc[t] \in ToolOwning => meta'[loc[t].on].status # "executing"
    PROVE  SettlesRow(t, ToolOwning)
BY DEF SettlesRow

\* The snapshot of a call on metadata.json is the file, and a row is in hand.
LEMMA ToolFresh ==
    ASSUME NEW t \in Requests, AtWork(t)
    PROVE  /\ t \in Actors /\ Data /\ meta \in MetadataFile /\ results \in ResultsFile
           /\ loc[t] \in Locals /\ pc \in [Actors -> Labels \cup ToolLabels] /\ loc \in [Actors -> Locals]
           /\ \A f \in metaSeen[t] : f = meta
           /\ \A f \in resultsSeen[t] : f = results
           /\ processRun \in Progress
           /\ pc[t] \in ToolAtRow => loc[t].on \in Students
BY DEF AtWork, Actors, Data

\* The list of process-all, and the start of its run.
LEMMA AllBeginWorks ==
    ASSUME NEW t \in Requests, AtWork(t), AllList(t) \/ AllBegin(t)
    PROVE  ToolWorks(t)
<1>0. {"all.list", "all.begin"} \cap (ToolMetaCalls \cup ToolResultsCalls \cup ToolOwning \cup ToolBatching) = {}
      /\ "all.begin" \in ToolLabels \ ToolAtRow /\ "idle" \in Exits
  BY DEF ToolMetaCalls, ToolResultsCalls, ToolOwning, ToolBatching, ToolLabels, ToolAtRow, Exits
<1>1. CASE AllList(t)
  <2>1. \E l, L : ToolGoes(t, l, L)
    <3>1. CASE Finish(t)
      <4>1. ToolGoes(t, "idle", NoLocals)
        BY <1>0, <3>1, LocalsType, ToolPlaces DEF ToolGoes, Finish
      <4> QED
        BY <4>1
    <3>2. CASE loc' = [loc EXCEPT ![t].left = Runnable] /\ GoTo(t, "all.begin")
      <4>1. [loc[t] EXCEPT !.left = Runnable] \in Locals
        BY ToolFresh, LocalsType DEF Runnable
      <4>2. ToolGoes(t, "all.begin", [loc[t] EXCEPT !.left = Runnable])
        BY <1>0, <3>2, <4>1 DEF ToolGoes, GoTo
      <4> QED
        BY <4>2
    <3> QED
      BY <1>1, <3>1, <3>2 DEF AllList
  <2> QED
    BY <1>0, <1>1, <2>1, QuietWorks DEF AllList, ToolOwning
<1>2. CASE AllBegin(t)
  <2> DEFINE left == loc[t].left
  <2>1. left \in SUBSET Students /\ Begun(Cardinality(left)) \in Progress
    <3>1. left \in SUBSET Students
      BY ToolFresh DEF Locals
    <3>2. Cardinality(left) \in Nat
      BY <3>1, RowsCount
    <3> QED
      BY <3>1, <3>2, ProgressType
  <2>2. /\ \E l \in {"idle", "all.start"} : \E L : ToolGoes(t, l, L)
        /\ pc'[t] \notin ToolOwning
        /\ processRun' \in Progress /\ UNCHANGED evalRun
        /\ FlagFollows(t, ToolBatching)
    BY <1>2, <2>1, NextGoes DEF AllBegin
  <2>3. GivesUp(t)
    BY <1>0, <1>2, NoCall DEF AllBegin
  <2>4. AtWork(t)' /\ pc'[t] \in ToolLabels \cup Exits
    BY <1>2, <2>2, <2>3, GoesKeepsWork DEF AllBegin
  <2>5. Writes(t)
    BY <1>2 DEF AllBegin, Writes, files
  <2>6. SettlesRow(t, ToolOwning)
    BY <1>0, <1>2, <2>2 DEF AllBegin, files, SettlesRow
  <2> QED
    BY <2>2, <2>4, <2>5, <2>6 DEF ToolWorks
<1> QED
  BY <1>1, <1>2

\* The label a step of a batch starts from is one of a tool with a row in hand.
LEMMA AllLabels ==
    /\ {"all.start", "all.executed", "all.clearError", "all.failed", "all.noteFailure", "all.caught",
        "all.noteCaught"} \subseteq ToolMetaCalls
    /\ {"all.store", "all.storeFailure", "tool.envelope"} \subseteq ToolResultsCalls
    /\ {"all.start", "all.store", "all.clearError", "all.noteFailure", "all.storeFailure", "all.noteCaught"}
          \subseteq ToolBatching \ ToolOwning
    /\ {"all.execute", "all.executed", "all.failed", "all.caught"} \subseteq ToolBatching \cap ToolOwning
    /\ ToolMetaCalls \cup ToolResultsCalls \cup {"all.execute", "tool.read", "tool.ask"}
          \subseteq ToolAtRow \cap ToolLabels
    /\ "all.execute" \notin ToolMetaCalls \cup ToolResultsCalls
    /\ {"idle", "calibrate"} \subseteq Exits \ ToolAtRow
    /\ {"tool.list", "tool.read", "tool.ask", "tool.envelope"} \cap (ToolOwning \cup ToolBatching) = {}
    /\ {"tool.list", "tool.read", "tool.ask"} \cap (ToolMetaCalls \cup ToolResultsCalls) = {}
BY DEF ToolMetaCalls, ToolResultsCalls, ToolBatching, ToolOwning, ToolAtRow, ToolLabels, Exits

\* t goes on with the locals it has.
LEMMA GoesWithLocals ==
    ASSUME NEW t \in Requests, AtWork(t), NEW l, l \in ToolLabels, GoTo(t, l), loc' = loc,
           pc[t] \in ToolAtRow
    PROVE  ToolGoes(t, l, loc[t])
<1>1. loc' = [loc EXCEPT ![t] = loc[t]]
  BY ToolFresh
<1> QED
  BY <1>1, ToolFresh DEF ToolGoes, GoTo

\* t is done.
LEMMA GoesHome ==
    ASSUME NEW t \in Requests, AtWork(t), Finish(t)
    PROVE  ToolGoes(t, "idle", NoLocals)
BY LocalsType, ToolPlaces, AllLabels DEF ToolGoes, Finish

\* A step of a batch whose call has been made, which settles the row in hand or
\* keeps it, and keeps the flag or puts it down.
LEMMA BatchWorks ==
    ASSUME NEW t \in Requests, AtWork(t), NEW l, NEW L, ToolGoes(t, l, L), GivesUp(t), Writes(t),
           UNCHANGED <<chain, evalRun>>,
           SettlesRow(t, ToolOwning),
           \/ l \in ToolBatching /\ processRun' = processRun
           \/ processRun' = IdleRun
    PROVE  ToolWorks(t)
<1>1. processRun' \in Progress
  BY ToolFresh, ProgressType
<1>2. AtWork(t)' /\ pc'[t] \in ToolLabels \cup Exits /\ pc'[t] = l
  BY <1>1, GoesKeepsWork
<1>3. FlagFollows(t, ToolBatching)
  BY <1>2 DEF FlagFollows, IdleRun
<1> QED
  BY <1>2, <1>3 DEF ToolWorks

\* updateStatus(executing): the row is taken, or the tool ends.
LEMMA AllStartWorks ==
    ASSUME NEW t \in Requests, AtWork(t), AllStart(t)
    PROVE  ToolWorks(t)
<1> DEFINE s == loc[t].on
<1>0. /\ pc[t] = "all.start" /\ "all.start" \in ToolMetaCalls /\ "all.start" \in ToolAtRow
      /\ "all.start" \notin ToolOwning /\ "all.execute" \in ToolLabels \cap ToolBatching \cap ToolOwning
  BY AllLabels DEF AllStart
<1>1. s \in Students /\ meta \in MetadataFile /\ "executing" \in Status /\ t \in Actors
  BY <1>0, ToolFresh DEF Status
<1>2. CASE /\ CanMove(meta, s, "executing")
           /\ WriteMetadata(t, SetStatus(meta, s, "executing"))
           /\ GoTo(t, "all.execute")
           /\ UNCHANGED <<loc, runs, chain>>
  <2>1. SetStatus(meta, s, "executing") \in MetadataFile
    BY <1>1, SetStatusType
  <2>2. GivesUp(t)
    BY <1>0, <1>2, <2>1, MetaCall
  <2>3. ToolGoes(t, "all.execute", loc[t])
    <3>1. "all.execute" \in ToolLabels /\ pc[t] \in ToolAtRow /\ GoTo(t, "all.execute") /\ loc' = loc
      BY <1>0, <1>2
    <3> QED
      BY <3>1, GoesWithLocals
  <2>4. Writes(t)
    BY <1>1, <1>2, MovesExist DEF Writes, WriteMetadata
  <2>5. pc'[t] = "all.execute" /\ loc'[t].on = s /\ meta' = SetStatus(meta, s, "executing")
    BY <1>1, <1>2, ToolFresh DEF GoTo, WriteMetadata
  <2>6. SettlesRow(t, ToolOwning)
    BY <1>0, <1>1, <2>5, SetStatusRow DEF SettlesRow
  <2> QED
    BY <1>0, <1>2, <2>2, <2>3, <2>4, <2>6, BatchWorks DEF runs
<1>3. CASE LeaveMetadata(t) /\ AllEnd(t) /\ UNCHANGED chain
  <2>1. GivesUp(t)
    BY <1>0, <1>1, <1>3, MetaCall
  <2>2. ToolGoes(t, "idle", NoLocals)
    BY <1>3, GoesHome DEF AllEnd
  <2>3. Writes(t)
    BY <1>3 DEF Writes, LeaveMetadata, files
  <2>4. SettlesRow(t, ToolOwning)
    BY <1>0, <1>3 DEF SettlesRow, LeaveMetadata, files
  <2> QED
    BY <1>3, <2>1, <2>2, <2>3, <2>4, BatchWorks DEF AllEnd
<1> QED
  BY <1>2, <1>3, ToolFresh DEF AllStart

\* The executor answers, or the call throws: the row stays in hand.
LEMMA AllExecuteWorks ==
    ASSUME NEW t \in Requests, AtWork(t), AllExecute(t)
    PROVE  ToolWorks(t)
<1> DEFINE s == loc[t].on
<1>0. /\ pc[t] = "all.execute" /\ "all.execute" \in ToolAtRow
      /\ "all.execute" \notin ToolMetaCalls \cup ToolResultsCalls
      /\ \A l \in {"all.executed", "all.failed", "all.caught"} :
            l \in ToolLabels /\ l \in ToolBatching /\ l \in ToolOwning
      /\ UNCHANGED <<files, chain, runs, seen>>
  BY AllLabels DEF AllExecute
<1>1. s \in Students /\ t \in Actors /\ notebook \in [Students -> 0 .. MaxVersion]
  BY <1>0, ToolFresh DEF Data
<1>2. GivesUp(t) /\ Writes(t) /\ UNCHANGED <<meta, chain, evalRun>> /\ processRun' = processRun
  BY <1>0, NoCall DEF Writes, files, runs
<1>3. \E l \in {"all.executed", "all.failed", "all.caught"}, L \in Locals : L.on = s /\ ToolGoes(t, l, L)
  <2>1. ASSUME NEW ok \in BOOLEAN, loc' = [loc EXCEPT ![t].run = [of |-> notebook[s], ok |-> ok]],
               GoTo(t, IF ok THEN "all.executed" ELSE "all.failed")
        PROVE  \E l \in {"all.executed", "all.failed", "all.caught"}, L \in Locals : L.on = s /\ ToolGoes(t, l, L)
    <3> DEFINE run == [of |-> notebook[s], ok |-> ok]
               L == [loc[t] EXCEPT !.run = run]
               l == IF ok THEN "all.executed" ELSE "all.failed"
    <3>1. run \in Execution
      BY <1>1 DEF Execution
    <3>2. L \in Locals /\ L.on = s
      BY <3>1, ToolFresh, LocalsType DEF Locals
    <3>3. loc' = [loc EXCEPT ![t] = L] /\ l \in {"all.executed", "all.failed"} /\ pc' = [pc EXCEPT ![t] = l]
      BY <2>1 DEF GoTo
    <3> HIDE DEF L, l
    <3>4. ToolGoes(t, l, L)
      BY <1>0, <1>1, <3>2, <3>3 DEF ToolGoes
    <3> QED
      BY <3>2, <3>3, <3>4
  <2>2. CASE GoTo(t, "all.caught") /\ UNCHANGED loc
    <3>1. "all.caught" \in ToolLabels /\ pc[t] \in ToolAtRow /\ GoTo(t, "all.caught") /\ loc' = loc
      BY <1>0, <2>2
    <3>2. ToolGoes(t, "all.caught", loc[t])
      BY <3>1, GoesWithLocals
    <3> QED
      BY <3>2, ToolFresh
  <2> QED
    BY <2>1, <2>2 DEF AllExecute
<1>4. PICK l \in {"all.executed", "all.failed", "all.caught"}, L \in Locals : L.on = s /\ ToolGoes(t, l, L)
  BY <1>3
<1>5. pc'[t] = l /\ loc'[t] = L
  BY <1>1, <1>4, ToolFresh DEF ToolGoes
<1>6. SettlesRow(t, ToolOwning)
  BY <1>0, <1>2, <1>4, <1>5 DEF SettlesRow
<1> QED
  BY <1>0, <1>2, <1>4, <1>6, BatchWorks

\* updateStatus of the outcome: the row is settled, or still to be.
LEMMA AllMarkWorks ==
    ASSUME NEW t \in Requests, AtWork(t), NEW from \in {"all.executed", "all.failed"},
           NEW to \in {"executed", "error"}, NEW next \in {"all.store", "all.noteFailure"},
           AllMark(t, from, to, next)
    PROVE  ToolWorks(t)
<1> DEFINE s == loc[t].on
<1>0. /\ pc[t] = from /\ from \in ToolMetaCalls /\ from \in ToolAtRow
      /\ \A l \in {"all.store", "all.noteFailure"} : l \in ToolLabels /\ l \in ToolBatching
      /\ "all.caught" \in ToolLabels /\ "all.caught" \in ToolBatching /\ "all.caught" \in ToolOwning
  BY AllLabels DEF AllMark
<1>1. s \in Students /\ meta \in MetadataFile /\ to \in Status /\ t \in Actors
  BY <1>0, ToolFresh DEF Status
<1>2. UNCHANGED <<loc, chain, runs>>
  BY DEF AllMark
<1>3. CASE CanMove(meta, s, to) /\ WriteMetadata(t, SetStatus(meta, s, to)) /\ GoTo(t, next)
  <2>1. SetStatus(meta, s, to) \in MetadataFile
    BY <1>1, SetStatusType
  <2>2. GivesUp(t)
    BY <1>0, <1>3, <2>1, MetaCall
  <2>3. next \in ToolLabels /\ pc[t] \in ToolAtRow /\ GoTo(t, next) /\ loc' = loc
    BY <1>0, <1>2, <1>3
  <2>4. ToolGoes(t, next, loc[t])
    BY <2>3, GoesWithLocals
  <2>5. meta' = SetStatus(meta, s, to)
    BY <1>3 DEF WriteMetadata
  <2>6. Writes(t)
    BY <1>1, <1>3, <2>5, MovesExist DEF Writes
  <2>7. SettlesRow(t, ToolOwning)
    BY <1>1, <2>5, SetStatusRow DEF SettlesRow
  <2> QED
    BY <1>0, <1>2, <2>2, <2>4, <2>6, <2>7, BatchWorks DEF runs
<1>4. CASE LeaveMetadata(t) /\ GoTo(t, "all.caught")
  <2>1. GivesUp(t)
    BY <1>0, <1>1, <1>4, MetaCall
  <2>2. "all.caught" \in ToolLabels /\ pc[t] \in ToolAtRow /\ GoTo(t, "all.caught") /\ loc' = loc
    BY <1>0, <1>2, <1>4
  <2>3. ToolGoes(t, "all.caught", loc[t])
    BY <2>2, GoesWithLocals
  <2>4. Writes(t) /\ meta' = meta
    BY <1>4 DEF Writes, LeaveMetadata, files
  <2>5. pc'[t] = "all.caught" /\ loc'[t] = loc[t]
    BY <1>1, <2>2, ToolFresh DEF GoTo
  <2>6. SettlesRow(t, ToolOwning)
    BY <1>0, <2>4, <2>5 DEF SettlesRow
  <2> QED
    BY <1>0, <1>2, <2>1, <2>3, <2>4, <2>6, BatchWorks DEF runs
<1> QED
  BY <1>3, <1>4, ToolFresh DEF AllMark

\* The note of an error makes no row executing,
LEMMA AllNoteCall ==
    ASSUME NEW t \in Requests, AtWork(t),
           NEW from \in {"all.clearError", "all.noteFailure", "all.noteCaught"}, NEW e \in BOOLEAN,
           AllNote(t, from, e)
    PROVE  /\ GivesUp(t) /\ Writes(t) /\ pc[t] = from
           /\ \A s \in Students : meta'[s].status = "executing" => meta[s].status = "executing"
<1>0. pc[t] = from /\ from \in ToolMetaCalls /\ from \in ToolAtRow
  BY AllLabels DEF AllNote
<1>1. loc[t].on \in Students /\ meta \in MetadataFile
  BY <1>0, ToolFresh
<1>2. WriteMetadata(t, UpsertError(meta, loc[t].on, e))
  BY ToolFresh DEF AllNote
<1>3. UpsertError(meta, loc[t].on, e) \in MetadataFile
  BY <1>1, UpsertType
<1>4. GivesUp(t)
  BY <1>0, <1>2, <1>3, MetaCall
<1>5. meta' = UpsertError(meta, loc[t].on, e)
  BY <1>2 DEF WriteMetadata
<1>6. Writes(t)
  BY <1>1, <1>5 DEF Writes
<1>7. ASSUME NEW s \in Students, meta'[s].status = "executing" PROVE meta[s].status = "executing"
  BY <1>1, <1>5, <1>7, NotesError DEF Exists
<1> QED
  BY <1>0, <1>4, <1>6, <1>7

\* and the result touches no row.
LEMMA AllStoreCall ==
    ASSUME NEW t \in Requests, AtWork(t), NEW from \in {"all.store", "all.storeFailure"}, AllStore(t, from)
    PROVE  GivesUp(t) /\ Writes(t) /\ pc[t] = from /\ meta' = meta
<1>0. pc[t] = from /\ from \in ToolResultsCalls /\ from \in ToolAtRow
  BY AllLabels DEF AllStore
<1>1. loc[t].on \in Students /\ results \in ResultsFile /\ loc[t].run \in Execution
  BY <1>0, ToolFresh DEF Locals
<1>2. WriteResults(t, SetResult(results, loc[t].on, loc[t].run))
  BY ToolFresh DEF AllStore
<1>3. SetResult(results, loc[t].on, loc[t].run) \in ResultsFile
  BY <1>1, ResultsType
<1>4. GivesUp(t)
  BY <1>0, <1>2, <1>3, ResultsCall
<1> QED
  BY <1>0, <1>2, <1>4 DEF Writes, WriteResults

\* After the last call of a row the loop takes the next one, or ends.
LEMMA AllRowDoneWorks ==
    ASSUME NEW t \in Requests, AtWork(t), GivesUp(t), Writes(t), AllRowDone(t), chain' = chain,
           pc[t] \notin ToolOwning,
           \A s \in Students : meta'[s].status = "executing" => meta[s].status = "executing"
    PROVE  ToolWorks(t)
<1> DEFINE count == loc[t].settled + 1
           run == [processRun EXCEPT !.done = count]
           left == loc[t].left \ {loc[t].on}
<1>1. left \in SUBSET Students /\ count \in Nat
  BY ToolFresh DEF Locals
<1>2. run \in Progress
  BY <1>1, ToolFresh DEF Progress
<1>3. AllNext(t, left, count, run)
  BY DEF AllRowDone
<1> HIDE DEF count, run, left
<1>4. /\ \E l \in {"idle", "all.start"} : \E L : ToolGoes(t, l, L)
      /\ pc'[t] \notin ToolOwning
      /\ processRun' \in Progress /\ UNCHANGED evalRun
      /\ FlagFollows(t, ToolBatching)
  BY <1>1, <1>2, <1>3, NextGoes
<1>5. AtWork(t)' /\ pc'[t] \in ToolLabels \cup Exits
  BY <1>4, GoesKeepsWork
<1>6. SettlesRow(t, ToolOwning)
  BY <1>4, LeavesSettled
<1> QED
  BY <1>4, <1>5, <1>6 DEF ToolWorks

\* A row that succeeds.
LEMMA AllSucceedsWorks ==
    ASSUME NEW t \in Requests, AtWork(t), AllSucceeds(t)
    PROVE  ToolWorks(t)
<1>1. CASE AllMark(t, "all.executed", "executed", "all.store")
  BY <1>1, AllMarkWorks
<1>2. CASE AllStore(t, "all.store") /\ GoTo(t, "all.clearError") /\ UNCHANGED <<loc, runs>>
  <2>1. GivesUp(t) /\ Writes(t) /\ pc[t] = "all.store" /\ meta' = meta
    BY <1>2, AllStoreCall
  <2>2. "all.clearError" \in ToolLabels /\ pc[t] \in ToolAtRow /\ GoTo(t, "all.clearError") /\ loc' = loc
        /\ "all.clearError" \in ToolBatching /\ pc[t] \notin ToolOwning
    BY <1>2, <2>1, AllLabels
  <2>3. ToolGoes(t, "all.clearError", loc[t])
    BY <2>2, GoesWithLocals
  <2>4. SettlesRow(t, ToolOwning)
    BY <2>1, <2>2 DEF SettlesRow
  <2> QED
    BY <1>2, <2>1, <2>2, <2>3, <2>4, BatchWorks DEF AllStore, runs
<1>3. CASE AllNote(t, "all.clearError", FALSE) /\ AllRowDone(t)
  <2>1. /\ GivesUp(t) /\ Writes(t) /\ pc[t] = "all.clearError"
        /\ \A s \in Students : meta'[s].status = "executing" => meta[s].status = "executing"
    BY <1>3, AllNoteCall
  <2>2. pc[t] \notin ToolOwning /\ chain' = chain
    BY <1>3, <2>1, AllLabels DEF AllNote
  <2> QED
    BY <1>3, <2>1, <2>2, AllRowDoneWorks
<1> QED
  BY <1>1, <1>2, <1>3 DEF AllSucceeds

\* A row with a cell error.
LEMMA AllFailsWorks ==
    ASSUME NEW t \in Requests, AtWork(t), AllFails(t)
    PROVE  ToolWorks(t)
<1>1. CASE AllMark(t, "all.failed", "error", "all.noteFailure")
  BY <1>1, AllMarkWorks
<1>2. CASE AllNote(t, "all.noteFailure", TRUE) /\ GoTo(t, "all.storeFailure") /\ UNCHANGED <<loc, runs>>
  <2>1. /\ GivesUp(t) /\ Writes(t) /\ pc[t] = "all.noteFailure"
        /\ \A s \in Students : meta'[s].status = "executing" => meta[s].status = "executing"
    BY <1>2, AllNoteCall
  <2>2. "all.storeFailure" \in ToolLabels /\ pc[t] \in ToolAtRow /\ GoTo(t, "all.storeFailure") /\ loc' = loc
        /\ "all.storeFailure" \in ToolBatching /\ pc[t] \notin ToolOwning
    BY <1>2, <2>1, AllLabels
  <2>3. ToolGoes(t, "all.storeFailure", loc[t])
    BY <2>2, GoesWithLocals
  <2>4. SettlesRow(t, ToolOwning)
    BY <2>1, <2>2 DEF SettlesRow
  <2> QED
    BY <1>2, <2>1, <2>2, <2>3, <2>4, BatchWorks DEF AllNote, runs
<1>3. CASE AllStore(t, "all.storeFailure") /\ AllRowDone(t)
  <2>1. GivesUp(t) /\ Writes(t) /\ pc[t] = "all.storeFailure" /\ meta' = meta
    BY <1>3, AllStoreCall
  <2>2. pc[t] \notin ToolOwning /\ chain' = chain
    BY <1>3, <2>1, AllLabels DEF AllStore
  <2> QED
    BY <1>3, <2>1, <2>2, AllRowDoneWorks
<1> QED
  BY <1>1, <1>2, <1>3 DEF AllFails

\* The catch block: the row is settled, or was not executing and the tool ends.
LEMMA AllCaughtWorks ==
    ASSUME NEW t \in Requests, AtWork(t), AllCaught(t)
    PROVE  ToolWorks(t)
<1> DEFINE s == loc[t].on
<1>1. ASSUME pc[t] = "all.caught", chain' = chain, CanMove(meta, s, "error"),
             WriteMetadata(t, SetStatus(meta, s, "error")), GoTo(t, "all.noteCaught"), UNCHANGED <<loc, runs>>
      PROVE  ToolWorks(t)
  <2>0. /\ pc[t] \in ToolMetaCalls /\ pc[t] \in ToolAtRow
        /\ "all.noteCaught" \in ToolLabels /\ "all.noteCaught" \in ToolBatching
    BY <1>1, AllLabels
  <2>1. s \in Students /\ meta \in MetadataFile /\ "error" \in Status
    BY <2>0, ToolFresh DEF Status
  <2>2. SetStatus(meta, s, "error") \in MetadataFile
    BY <2>1, SetStatusType
  <2>3. GivesUp(t)
    BY <1>1, <2>0, <2>2, MetaCall
  <2>4. GoTo(t, "all.noteCaught") /\ loc' = loc
    BY <1>1
  <2>5. ToolGoes(t, "all.noteCaught", loc[t])
    BY <2>0, <2>4, GoesWithLocals
  <2>6. meta' = SetStatus(meta, s, "error")
    BY <1>1 DEF WriteMetadata
  <2>7. Writes(t)
    BY <1>1, <2>1, <2>6, MovesExist DEF Writes
  <2>8. SettlesRow(t, ToolOwning)
    BY <2>1, <2>6, SetStatusRow DEF SettlesRow
  <2> QED
    BY <1>1, <2>0, <2>3, <2>5, <2>7, <2>8, BatchWorks DEF runs
<1>2. ASSUME pc[t] = "all.caught", chain' = chain, ~CanMove(meta, s, "error"), LeaveMetadata(t), AllEnd(t)
      PROVE  ToolWorks(t)
  <2>0. /\ pc[t] \in ToolMetaCalls /\ pc[t] \in ToolAtRow
    BY <1>2, AllLabels
  <2>1. meta \in MetadataFile
    BY ToolFresh
  <2>2. GivesUp(t)
    BY <1>2, <2>0, <2>1, MetaCall
  <2>3. ToolGoes(t, "idle", NoLocals)
    BY <1>2, GoesHome DEF AllEnd
  <2>4. Writes(t) /\ meta' = meta
    BY <1>2 DEF Writes, LeaveMetadata, files
  <2>5. meta[s].status # "executing"
    BY <1>2 DEF CanMove, Transitions
  <2>6. SettlesRow(t, ToolOwning)
    BY <2>4, <2>5 DEF SettlesRow
  <2> QED
    BY <1>2, <2>2, <2>3, <2>4, <2>6, BatchWorks DEF AllEnd
<1>3. CASE AllNote(t, "all.noteCaught", TRUE) /\ AllRowDone(t)
  <2>1. /\ GivesUp(t) /\ Writes(t) /\ pc[t] = "all.noteCaught"
        /\ \A r \in Students : meta'[r].status = "executing" => meta[r].status = "executing"
    BY <1>3, AllNoteCall
  <2>2. pc[t] \notin ToolOwning /\ chain' = chain
    BY <1>3, <2>1, AllLabels DEF AllNote
  <2> QED
    BY <1>3, <2>1, <2>2, AllRowDoneWorks
<1> QED
  BY <1>1, <1>2, <1>3, ToolFresh DEF AllCaught

\* After a row the pre-evaluation ends, calibrates or takes the next one.
LEMMA PreEvaluateGoes ==
    ASSUME NEW t \in Requests, AtWork(t),
           \/ PreEvaluateSettled(t)
           \/ \E left \in SUBSET Students : PreEvaluateNext(t, left)
    PROVE  \E l, L : ToolGoes(t, l, L)
<1>1. ASSUME NEW left \in SUBSET Students, PreEvaluateNext(t, left) PROVE \E l, L : ToolGoes(t, l, L)
  <2>1. CASE loc' = [loc EXCEPT ![t] = NoLocals] /\ GoTo(t, "calibrate")
    <3>1. ToolGoes(t, "calibrate", NoLocals)
      BY <2>1, LocalsType, AllLabels DEF ToolGoes, GoTo
    <3> QED
      BY <3>1
  <2>2. CASE Finish(t)
    <3>1. ToolGoes(t, "idle", NoLocals)
      BY <2>2, GoesHome
    <3> QED
      BY <3>1
  <2>3. CASE /\ left # {}
             /\ loc' = [loc EXCEPT ![t] = [NoLocals EXCEPT !.left = left, !.on = FirstOf(left)]]
             /\ GoTo(t, "tool.read")
    <3> DEFINE L == [NoLocals EXCEPT !.left = left, !.on = FirstOf(left)]
    <3>1. FirstOf(left) \in Students
      BY <2>3, FirstOfType
    <3>2. L \in Locals /\ L.on \in Students
      BY <3>1, LocalsType DEF Locals, NoLocals
    <3>3. "tool.read" \in ToolLabels
      BY AllLabels
    <3>4. ToolGoes(t, "tool.read", L)
      BY <2>3, <3>2, <3>3 DEF ToolGoes, GoTo
    <3> QED
      BY <3>4
  <2> QED
    BY <1>1, <2>1, <2>2, <2>3 DEF PreEvaluateNext
<1>2. CASE Finish(t)
  <2>1. ToolGoes(t, "idle", NoLocals)
    BY <1>2, GoesHome
  <2> QED
    BY <2>1
<1>3. loc[t].left \ {loc[t].on} \in SUBSET Students
  BY ToolFresh DEF Locals
<1> QED
  BY <1>1, <1>2, <1>3 DEF PreEvaluateSettled

\* pre-evaluate and pre-evaluate-all touch no row.
LEMMA PreEvaluateWorks ==
    ASSUME NEW t \in Requests, AtWork(t),
           PreEvaluateList(t) \/ PreEvaluateRead(t) \/ PreEvaluateAsk(t) \/ PreEvaluateStore(t)
    PROVE  ToolWorks(t)
<1>1. CASE PreEvaluateList(t)
  <2>1. pc[t] \notin ToolMetaCalls \cup ToolResultsCalls \cup {"all.execute"}
        /\ UNCHANGED <<files, chain, runs, seen>> /\ PreEvaluateNext(t, Rows)
    BY <1>1, AllLabels DEF PreEvaluateList
  <2>2. \E l, L : ToolGoes(t, l, L)
    BY <2>1, PreEvaluateGoes DEF Rows
  <2> QED
    BY <2>1, <2>2, QuietWorks
<1>2. CASE PreEvaluateRead(t) \/ PreEvaluateAsk(t)
  <2>1. /\ pc[t] \notin ToolMetaCalls \cup ToolResultsCalls \cup {"all.execute"}
        /\ pc[t] \in ToolAtRow /\ UNCHANGED <<files, chain, runs, seen>>
    BY <1>2, AllLabels DEF PreEvaluateRead, PreEvaluateAsk
  <2>2. CASE PreEvaluateSettled(t)
    BY <2>1, <2>2, PreEvaluateGoes, QuietWorks
  <2>3. CASE loc' = [loc EXCEPT ![t].run = results[loc[t].on].run] /\ GoTo(t, "tool.ask")
    <3> DEFINE L == [loc[t] EXCEPT !.run = results[loc[t].on].run]
    <3>1. loc[t].on \in Students
      BY <2>1, ToolFresh
    <3>2. results[loc[t].on].run \in Execution
      BY <3>1, ToolFresh DEF ResultsFile, Result
    <3>3. L \in Locals /\ L.on = loc[t].on
      BY <3>2, ToolFresh, LocalsType DEF Locals
    <3>4. "tool.ask" \in ToolLabels
      BY AllLabels
    <3>5. ToolGoes(t, "tool.ask", L)
      BY <2>3, <3>1, <3>3, <3>4 DEF ToolGoes, GoTo
    <3> QED
      BY <2>1, <3>5, QuietWorks
  <2>4. CASE GoTo(t, "tool.envelope") /\ UNCHANGED loc
    <3>1. "tool.envelope" \in ToolLabels /\ GoTo(t, "tool.envelope") /\ loc' = loc
      BY <2>4, AllLabels
    <3>2. ToolGoes(t, "tool.envelope", loc[t])
      BY <2>1, <3>1, GoesWithLocals
    <3> QED
      BY <2>1, <3>2, QuietWorks
  <2> QED
    BY <1>2, <2>2, <2>3, <2>4 DEF PreEvaluateRead, PreEvaluateAsk
<1>3. CASE PreEvaluateStore(t)
  <2>0. /\ pc[t] \in ToolResultsCalls /\ pc[t] \in ToolAtRow
        /\ pc[t] \notin ToolOwning /\ pc[t] \notin ToolBatching
        /\ UNCHANGED <<chain, runs>> /\ PreEvaluateSettled(t)
    BY <1>3, AllLabels DEF PreEvaluateStore
  <2>1. PICK l, L : ToolGoes(t, l, L)
    BY <2>0, PreEvaluateGoes
  <2>2. loc[t].on \in Students /\ results \in ResultsFile /\ loc[t].run \in Execution
    BY <2>0, ToolFresh DEF Locals
  <2>3. SetPreEvaluation(results, loc[t].on, loc[t].run) \in ResultsFile
    BY <2>2, ResultsType
  <2>4. WriteResults(t, SetPreEvaluation(results, loc[t].on, loc[t].run)) \/ LeaveResults(t)
    BY <1>3, ToolFresh DEF PreEvaluateStore
  <2>5. GivesUp(t)
    BY <2>0, <2>2, <2>3, <2>4, ResultsCall
  <2>6. meta' = meta
    BY <2>4 DEF WriteResults, LeaveResults, files
  <2>7. processRun' = processRun /\ UNCHANGED <<chain, evalRun>> /\ processRun' \in Progress
    BY <2>0, ToolFresh DEF runs
  <2>8. AtWork(t)' /\ pc'[t] \in ToolLabels \cup Exits
    BY <2>1, <2>5, <2>7, GoesKeepsWork
  <2>9. Writes(t) /\ SettlesRow(t, ToolOwning) /\ FlagFollows(t, ToolBatching)
    BY <2>0, <2>6, <2>7 DEF Writes, SettlesRow, FlagFollows
  <2> QED
    BY <2>8, <2>9 DEF ToolWorks
<1> QED
  BY <1>1, <1>2, <1>3

\* So does every step of a tool.
LEMMA ToolStepWorks ==
    ASSUME NEW t \in Requests, AtTool(t), ToolReads(t) \/ ToolStep(t)
    PROVE  ToolWorks(t)
<1>1. AtWork(t)
  BY DEF AtTool
<1>2. CASE ToolReads(t)
  BY <1>2, ReadsWork
<1>3. CASE ToolStep(t)
  BY <1>1, <1>3, LookWorks, AllBeginWorks, AllStartWorks, AllExecuteWorks, AllSucceedsWorks, AllFailsWorks,
     AllCaughtWorks, PreEvaluateWorks DEF ToolStep
<1> QED
  BY <1>2, <1>3

\* A tool goes on only from a label of a tool.
LEMMA ToolGoesOnAt ==
    ASSUME NEW t, ToolReads(t) \/ ToolStep(t)
    PROVE  pc[t] \in ToolLabels
BY DEF ToolReads, ToolStep, ProcessSubmissionLook, AllList, AllBegin, AllStart, AllExecute, AllSucceeds, AllMark,
       AllNote, AllStore, AllFails, AllCaught, PreEvaluateList, PreEvaluateRead, PreEvaluateAsk, PreEvaluateStore,
       ToolLabels, ToolMetaCalls, ToolResultsCalls

----------------------------------------------------------------------------
(***************************************************************************)
(* The invariant of one request at a time.                                 *)
(***************************************************************************)

\* A tool is called by a request that is idle,
LEMMA CalledIdle ==
    ASSUME NEW t, ToolCall(t)
    PROVE  pc[t] = "idle"
BY DEF ToolCall, SaveTool, ArchiveTool, ProcessSubmission, ProcessAll, PreEvaluateTool, PreEvaluateAll, CallTool

\* (what HomeAgain says of a request holds in every state)
LEMMA HomeAgainAlways == \A u \in Requests : OneRequest /\ AtWork(u) /\ pc[u] \in Exits => Home
BY HomeAgain

\* so the step of a tool leaves it at work, or the server as it should be,
LEMMA WorkedInv ==
    ASSUME OneRequest, AloneKept, NEW t \in Requests, AtWork(t), ToolWorks(t),
           pc[t] \in ToolLabels \cup {"idle"}
    PROVE  ToolInv' /\ Blanks' /\ \A s \in Students : OrdinaryRow(t, s)
<1>1. AtTool(t)' \/ Home'
  <2>1. OneRequest' /\ t \in Requests'
    BY DEF OneRequest
  <2>2. CASE pc'[t] \in ToolLabels
    BY <2>2 DEF ToolWorks, AtTool
  <2>3. CASE pc'[t] \in Exits
    <3>1. AtWork(t)'
      BY DEF ToolWorks
    <3>2. (\A u \in Requests : OneRequest /\ AtWork(u) /\ pc[u] \in Exits => Home)'
      BY HomeAgainAlways, PTL
    <3> QED
      BY <2>1, <2>3, <3>1, <3>2
  <2> QED
    BY <2>2, <2>3 DEF ToolWorks
<1>2. pc[t] \notin {"reset", "delete.record"}
  BY ToolLabelsApart DEF Labels, BareMeta
<1>3. \A s \in Students : OrdinaryRow(t, s)
  BY <1>2, ToolFresh, WritesRow DEF ToolWorks, AloneKept
<1>4. Blanks'
  BY <1>3 DEF OrdinaryRow, Blanks
<1>5. \A r \in Requests : KeptBy(r)'
  <2>1. \A r \in Requests : r = t
    BY DEF OneRequest
  <2>2. pc'[t] \notin {"import.upsert", "import.save", "reset", "archive.status", "archive.mark",
                       "restore.look", "restore.status", "restore.mark"}
    BY ToolLabelsApart DEF ToolWorks, Labels, Other, BareMeta, Exits
  <2> QED
    BY <2>1, <2>2 DEF KeptBy, Called, RestoreLabels
<1> QED
  BY <1>1, <1>3, <1>4, <1>5 DEF ToolInv, AloneKept

\* A request is in a tool.
ToolActs(t) == ToolCall(t) \/ ToolReads(t) \/ ToolStep(t)

\* A step is one of the server alone, a crash, or one of the only request in a tool.
LEMMA ToolNextCases ==
    ASSUME OneRequest, ToolInv, [ToolNext]_vars
    PROVE  \/ UNCHANGED vars
           \/ Crash /\ Data
           \/ Home /\ \E a \in Actors : StepOf(a) /\ Stands(a) /\ Next
           \/ \E t \in Requests :
                 AtWork(t) /\ ToolWorks(t) /\ pc[t] \in ToolLabels \cup {"idle"} /\ ToolActs(t)
<1>1. CASE Next
  <2>1. CASE Crash
    BY <2>1, Facts DEF ToolInv, AtTool, AtWork, Home
  <2>2. CASE Home /\ ~Crash
    <3>1. ServerInv
      BY <2>2 DEF Home
    <3>2. \E a \in Actors : StepOf(a) /\ Stands(a)
      BY <1>1, <2>2, <3>1, NextStands
    <3> QED
      BY <1>1, <2>2, <3>2
  <2>3. ASSUME NEW t \in Requests, AtTool(t), ~Crash PROVE FALSE
    <3>1. PICK a \in Actors : StepOf(a)
      BY <1>1, <2>3 DEF Next, StepOf, Actors
    <3> QED
      BY <2>3, <3>1, ServerWaits
  <2> QED
    BY <2>1, <2>2, <2>3 DEF ToolInv
<1>2. ASSUME NEW t \in Requests, ToolCall(t) PROVE AtWork(t) /\ ToolWorks(t) /\ pc[t] = "idle"
  <2>1. pc[t] = "idle" /\ \A r \in Requests : r = t
    BY <1>2, CalledIdle DEF OneRequest
  <2>2. Home
    BY <2>1, ToolLabelsApart DEF ToolInv, AtTool, Exits
  <2>3. AtWork(t)
    BY <2>1, <2>2, IdleAtWork
  <2> QED
    BY <1>2, <2>1, <2>3, CallsWork
<1>3. ASSUME NEW t \in Requests, ToolReads(t) \/ ToolStep(t)
      PROVE  AtWork(t) /\ ToolWorks(t) /\ pc[t] \in ToolLabels
  <2>1. pc[t] \in ToolLabels /\ \A r \in Requests : r = t
    BY <1>3, ToolGoesOnAt DEF OneRequest
  <2>2. ~Home
    BY <2>1, ToolLabelsApart, Facts DEF Home, Actors
  <2>3. AtTool(t)
    BY <2>1, <2>2 DEF ToolInv
  <2> QED
    BY <1>3, <2>1, <2>3, ToolStepWorks DEF AtTool
<1> QED
  BY <1>1, <1>2, <1>3 DEF ToolNext, ToolActs

\* The step of the server alone leaves the server as it should be.
LEMMA HomeNext ==
    ASSUME OneRequest, Home, AloneKept, Next
    PROVE  Home' /\ AloneKept'
BY ServerNext, PlacedStep, AloneFreshStep, AloneKeptNext DEF Home

\* A crash too, at whatever await of a tool.
LEMMA CrashedInv ==
    ASSUME AloneKept, Data, Crash
    PROVE  Home' /\ AloneKept'
<1>1. ServerInv'
  BY CrashKeeps
<1>2. Placed' /\ MetadataFresh' /\ ResultsFresh'
  BY DEF Crash, Placed, MetadataFresh, ResultsFresh, WorkerLabels, Actors
<1>3. AloneKept'
  BY DEF Crash, files, AloneKept, Blanks, KeptBy, Called, RestoreLabels, Actors
<1> QED
  BY <1>1, <1>2, <1>3 DEF Home

\* So the invariant is kept.
LEMMA ToolInvNext ==
    ASSUME OneRequest, ToolInv, [ToolNext]_vars
    PROVE  ToolInv'
<1>1. CASE UNCHANGED vars
  <2>1. AloneKept'
    BY <1>1 DEF vars, ToolInv, AloneKept, Blanks, KeptBy, Called
  <2>2. Home => Home'
    <3>1. Home => ServerInv'
      BY <1>1, ServerNext DEF Home
    <3>2. Home => Placed'
      BY <1>1, PlacedStep DEF Home
    <3>3. Home => MetadataFresh' /\ ResultsFresh'
      BY <1>1 DEF vars, Home, MetadataFresh, ResultsFresh
    <3> QED
      BY <3>1, <3>2, <3>3 DEF Home
  <2>3. ASSUME NEW t \in Requests, AtTool(t) PROVE AtTool(t)'
    BY <1>1, <2>3 DEF vars, AtTool, AtWork, Data
  <2> QED
    BY <2>1, <2>2, <2>3 DEF ToolInv
<1>2. CASE Crash /\ Data
  BY <1>2, CrashedInv DEF ToolInv
<1>3. CASE Home /\ Next
  BY <1>3, HomeNext DEF ToolInv
<1>4. ASSUME NEW t \in Requests, AtWork(t), ToolWorks(t), pc[t] \in ToolLabels \cup {"idle"} PROVE ToolInv'
  BY <1>4, WorkedInv DEF ToolInv
<1> QED
  BY <1>1, <1>2, <1>3, <1>4, ToolNextCases

\* It holds in every behaviour of the server with the tools, crashes included.
LEMMA ToolInvAlways ==
    ASSUME OneRequest
    PROVE  ToolSpec => []ToolInv
<1>1. Init => ToolInv
  <2>1. Init => Home
    BY ServerInit DEF Home, Init, StoresInit, Placed, WorkerLabels, MetadataFresh, ResultsFresh, Actors
  <2> QED
    BY <2>1, AloneKeptInit DEF ToolInv
<1>2. ToolInv /\ [ToolNext]_vars => ToolInv'
  BY ToolInvNext
<1> QED
  BY <1>1, <1>2, PTL DEF ToolSpec

----------------------------------------------------------------------------
(***************************************************************************)
(* What a teacher who works alone is promised holds with the tools too.    *)
(***************************************************************************)

\* With the copilot's tools among the requests, what a teacher has filled in
\* still disappears only when the row is reset or deleted: archiving, saving,
\* running and pre-evaluating through a tool take none of it, nor does a crash.
THEOREM ToolsKeepGrading ==
    ASSUME OneRequest
    PROVE  ToolSpec => GradingOnlyCleared
<1>1. ToolInv /\ [ToolNext]_vars
        => [\A s \in Students :
              ~(meta[s].grading \subseteq meta'[s].grading) =>
                  \E r \in Requests : Doing(r, {"reset", "delete.record"}, s)]_vars
  <2> SUFFICES ASSUME ToolInv, [ToolNext]_vars,
                      NEW s \in Students, ~(meta[s].grading \subseteq meta'[s].grading)
               PROVE  \E r \in Requests : Doing(r, {"reset", "delete.record"}, s)
    OBVIOUS
  <2>1. meta' # meta /\ ~Crash
    BY DEF Crash, files
  <2>2. ASSUME Home, NEW a \in Actors, StepOf(a) PROVE \E r \in Requests : Doing(r, {"reset", "delete.record"}, s)
    <3>1. ServerInv /\ MetadataFresh /\ AloneKept /\ Placed
      BY <2>2 DEF ToolInv, Home
    <3>2. Ordinary(a) /\ OrdinaryRow(a, s)
      BY <2>1, <2>2, <3>1, AloneRows DEF MarksRow
    <3>3. pc[a] \in {"reset", "delete.record"} /\ loc[a].on = s
      BY <3>2 DEF OrdinaryRow
    <3>4. a \in Requests
      BY <3>1, <3>3 DEF Placed, WorkerLabels, Actors
    <3> QED
      BY <3>3, <3>4 DEF Doing
  <2>3. ASSUME NEW t \in Requests, AtWork(t), ToolWorks(t), pc[t] \in ToolLabels \cup {"idle"}
        PROVE  \E r \in Requests : Doing(r, {"reset", "delete.record"}, s)
    <3>1. OrdinaryRow(t, s)
      BY <2>3, WorkedInv DEF ToolInv
    <3> QED
      BY <3>1 DEF OrdinaryRow, Doing
  <2> QED
    BY <2>1, <2>2, <2>3, ToolNextCases DEF vars
<1> QED
  BY <1>1, ToolInvAlways, PTL DEF ToolSpec, GradingOnlyCleared

\* A step of a tool, in terms of the rows: it is nowhere in a marking route.
LEMMA WorkedRows ==
    ASSUME OneRequest, ToolInv, NEW t \in Requests, AtWork(t), ToolWorks(t), pc[t] \in ToolLabels \cup {"idle"}
    PROVE  /\ \A s \in Students : OrdinaryRow(t, s)
           /\ \A r \in Requests : r = t
           /\ \A l \in {"archive.mark", "grade.mark", "restore.mark", "import.upsert", "reset"} :
                 pc[t] # l /\ pc'[t] # l
<1>1. \A l \in {"archive.mark", "grade.mark", "restore.mark", "import.upsert", "reset"} : pc[t] # l /\ pc'[t] # l
  <2>1. \A l \in {"archive.mark", "grade.mark", "restore.mark", "import.upsert", "reset"} :
           l \in Labels /\ l \notin Exits /\ l # "idle"
    BY DEF Labels, BareMeta, Exits
  <2> QED
    BY <2>1, ToolLabelsApart DEF ToolWorks
<1> QED
  BY <1>1, WorkedInv DEF OneRequest, ToolInv

\* With the tools, too, an archived row remembers at rest the status it was
\* archived from, be it archived by a route or by archive-submission.
THEOREM ToolsArchivedRemember ==
    ASSUME OneRequest, ~Crashes, "archived" \notin RestoreTargets
    PROVE  ToolSpec => []ArchivedRemembers
<1>1. Init => Remembered
  BY RememberedInit
<1>2. ToolInv /\ Remembered /\ [ToolNext]_vars => Remembered'
  <2> SUFFICES ASSUME ToolInv, Remembered, [ToolNext]_vars PROVE Remembered'
    OBVIOUS
  <2>1. CASE UNCHANGED vars
    BY <2>1 DEF vars, Remembered
  <2>2. CASE Home /\ Next
    BY <2>2, RememberedNext DEF Home, ToolInv
  <2>3. ASSUME NEW t \in Requests, AtWork(t), ToolWorks(t), pc[t] \in ToolLabels \cup {"idle"} PROVE Remembered'
    <3>1. /\ \A s \in Students : OrdinaryRow(t, s)
          /\ \A r \in Requests : pc[r] # "archive.mark"
      BY <2>3, WorkedRows
    <3> QED
      BY <3>1 DEF OrdinaryRow, Remembered, Blank, Exists
  <2> QED
    BY <2>1, <2>2, <2>3, ToolNextCases DEF Crash
<1>3. Remembered => ArchivedRemembers
  BY DEF Remembered, ArchivedRemembers
<1> QED
  BY <1>1, <1>2, <1>3, ToolInvAlways, PTL DEF ToolSpec

\* With the tools, too, a graded row has a grade at rest.
THEOREM ToolsGradedHaveGrade ==
    ASSUME OneRequest, ~Crashes, "import" \notin Routes, "graded" \notin RestoreTargets,
           "reset" \notin Routes \/ "restore" \notin Routes
    PROVE  ToolSpec => []GradedHasGrade
<1>1. Init => GradesBacked
  BY BackedInit
<1>2. ToolInv /\ GradesBacked /\ [ToolNext]_vars => GradesBacked'
  <2> SUFFICES ASSUME ToolInv, GradesBacked, [ToolNext]_vars PROVE GradesBacked'
    OBVIOUS
  <2>1. CASE UNCHANGED vars
    BY <2>1 DEF vars, GradesBacked
  <2>2. CASE Home /\ Next
    BY <2>2, BackedNext DEF Home, ToolInv
  <2>3. ASSUME NEW t \in Requests, AtWork(t), ToolWorks(t), pc[t] \in ToolLabels \cup {"idle"} PROVE GradesBacked'
    <3>1. /\ \A s \in Students : OrdinaryRow(t, s)
          /\ \A r \in Requests : pc[r] # "grade.mark" /\ pc'[r] # "archive.mark"
          /\ pc[t] # "import.upsert" /\ pc[t] # "reset"
      BY <2>3, WorkedRows
    <3>2. ASSUME NEW s \in Students
          PROVE  /\ meta'[s].status = "graded" => meta[s].status = "graded" /\ meta'[s].teacherGrade = meta[s].teacherGrade
                 /\ meta'[s].archivedFrom = "graded" =>
                       meta[s].archivedFrom = "graded" /\ meta'[s].teacherGrade = meta[s].teacherGrade
      BY <3>1 DEF OrdinaryRow, Blank, Exists
    <3> QED
      BY <3>1, <3>2 DEF GradesBacked
  <2> QED
    BY <2>1, <2>2, <2>3, ToolNextCases DEF Crash
<1>3. GradesBacked => GradedHasGrade
  BY DEF GradesBacked, GradedHasGrade
<1> QED
  BY <1>1, <1>2, <1>3, ToolInvAlways, PTL DEF ToolSpec

----------------------------------------------------------------------------
(***************************************************************************)
(* Nothing is left running.  A row that is executing is in the hands of    *)
(* the request, the flag of a batch is up only while it is in a batch, and *)
(* no row is archived from executing, so a restore does not take one back. *)
(***************************************************************************)
NothingLost ==
    /\ \A s \in Students : meta[s].status = "executing" =>
          \E r \in Requests : pc[r] \in Owning \cup ToolOwning /\ loc[r].on = s
    /\ processRun.running => \E r \in Requests : pc[r] \in ServerBatching \cup ToolBatching
    /\ \A s \in Students : meta[s].archivedFrom # "executing"
    /\ \A r \in Requests : pc[r] = "archive.mark" => loc[r].kept.archivedFrom # "executing"

\* A restore takes a row where it was archived from, or where it is told to.
LEMMA RestoreSettles ==
    ASSUME "executing" \notin RestoreTargets, NEW t \in Requests, Fresh(t), KeptBy(t),
           \A s \in Students : meta[s].archivedFrom # "executing",
           RestoreArrive(t) \/ RestoreLook(t) \/ RestoreStatus(t) \/ RestoreMark(t)
    PROVE  SettlesRow(t, Owning)
<1> DEFINE s == loc[t].on
           kept == loc[t].kept
<1>0. meta \in MetadataFile /\ loc[t] \in Locals /\ pc[t] \notin Owning /\ t \in Actors
  BY DEF Fresh, Typed, Owning, RestoreArrive, Arrive, RestoreLook, RestoreStatus, RestoreMark, WriteBack
<1>1. CASE meta' = meta
  BY <1>0, <1>1 DEF SettlesRow
<1>2. CASE RestoreArrive(t) \/ RestoreLook(t)
  BY <1>1, <1>2 DEF RestoreArrive, Arrive, RestoreLook, files
<1>3. ASSUME pc[t] \in {"restore.status", "restore.mark"}
      PROVE  s \in Students /\ kept.status \in Status /\ kept.status # "executing"
  <2>1. s \in Students
    BY <1>3 DEF Fresh, Typed, AtRow
  <2>2. kept.status \in Status \cap (RestoreTargets \cup {PriorStatus(meta[s])})
    BY <1>3 DEF KeptBy
  <2>3. meta[s].archivedFrom \in Status \cup {"none"} /\ meta[s].archivedFrom # "executing"
    BY <1>0, <2>1 DEF MetadataFile, Submission
  <2> QED
    BY <2>1, <2>2, <2>3 DEF PriorStatus, Status
<1>4. CASE RestoreStatus(t)
  <2>0. s \in Students /\ kept.status \in Status /\ kept.status # "executing"
    BY <1>3, <1>4 DEF RestoreStatus
  <2>1. meta' = meta \/ meta' = SetStatus(meta, s, kept.status)
    BY <1>4 DEF RestoreStatus, WriteMetadata, LeaveMetadata, files, Fresh
  <2>2. CASE meta' = SetStatus(meta, s, kept.status)
    <3> HIDE DEF s, kept
    <3>1. \A r \in Students : meta'[r].status = "executing" => meta[r].status = "executing"
      BY <1>0, <2>0, <2>2, SetStatusRow
    <3> QED
      BY <1>0, <3>1 DEF SettlesRow
  <2> QED
    BY <1>1, <2>1, <2>2
<1>5. CASE RestoreMark(t)
  <2>0. s \in Students /\ kept.status # "executing"
    BY <1>3, <1>5 DEF RestoreMark, WriteBack
  <2>1. meta' = [meta EXCEPT ![s] = kept]
    BY <1>5 DEF RestoreMark, WriteBack, AttemptLast, WriteMetadata, Fresh
  <2>2. \A r \in Students : meta'[r].status = "executing" => meta[r].status = "executing"
    BY <1>0, <2>0, <2>1 DEF MetadataFile
  <2> QED
    BY <1>0, <2>2 DEF SettlesRow
<1> QED
  BY <1>2, <1>4, <1>5

\* Every step of the server makes a row executing only on its way to where it
\* owns it, and gives it up settled.
LEMMA ServerSettles ==
    ASSUME "executing" \notin RestoreTargets, ServerInv, MetadataFresh, AloneKept,
           \A s \in Students : meta[s].archivedFrom # "executing",
           NEW a \in Actors, StepOf(a)
    PROVE  SettlesRow(a, Owning)
<1>1. Fresh(a)
  BY FreshFacts
<1>2. CASE OwnedStep(a)
  BY <1>2 DEF OwnedStep, SettlesRow
<1>3. CASE ReadMetadata(a) \/ ReadResults(a)
  BY <1>3 DEF ReadMetadata, ReadResults, files, SettlesRow
<1>4. CASE a \in Requests /\ (TeacherCall(a) \/ TeacherStep(a))
  <2>1. KeptBy(a)
    BY <1>4 DEF AloneKept
  <2>2. CASE RestoreArrive(a) \/ RestoreLook(a) \/ RestoreStatus(a) \/ RestoreMark(a)
    BY <1>1, <1>4, <2>1, <2>2, RestoreSettles
  <2>3. CASE pc[a] \notin RestoreLabels /\ ~RestoreArrive(a)
    <3>1. pc[a] = "archive.mark" => loc[a].kept.status = "archived"
      BY <2>1 DEF KeptBy
    <3> QED
      BY <1>1, <1>2, <1>4, <2>3, <3>1, TeacherOwns
  <2>4. CASE pc[a] \in RestoreLabels
    <3>1. RestoreLook(a) \/ RestoreStatus(a) \/ RestoreMark(a)
      BY <1>4, <2>4 DEF RestoreLabels, TeacherCall, SaveArrive, GradeArrive, ResetArrive, ImportArrive, ArchiveArrive,
         RestoreArrive, UploadArrive, DeleteArrive, RunArrive, Arrive, TeacherStep, Save, GradeStatus, GradeMark, Reset,
         ImportUpsert, ImportSave, ArchiveLook, ArchiveStatus, ArchiveMark, WriteBack, UploadFile, UploadUpsert,
         UploadClear, DeleteFile, DeleteResult, DeleteRecord, RunStart, RunExecute, RunExecuted, RunStore,
         RunClearError, RunCaught, RunNoteCaught
    <3> QED
      BY <2>2, <3>1
  <2> QED
    BY <2>2, <2>3, <2>4
<1>5. CASE a \in Requests /\ (ProcessList(a) \/ ProcessStep(a))
  BY <1>1, <1>2, <1>5, ProcessOwns
<1>6. CASE a \in Requests /\ (PreEvalArrive(a) \/ PreEvalStep(a) \/ ResetPreArrive(a) \/ ResetPreStep(a))
  BY <1>1, <1>2, <1>6, EvaluationOwns
<1>7. CASE a \in Workers /\ WorkerStep(a)
  BY <1>1, <1>2, <1>7, WorkerOwns
<1> QED
  BY <1>3, <1>4, <1>5, <1>6, <1>7 DEF StepOf, ClientCall, RequestStep, WorkStep

\* The flag of the batch follows the handler of the route.
LEMMA ProcessFlag ==
    ASSUME NEW b \in Requests, b \in Actors, pc \in [Actors -> Labels], ProcessStep(b)
    PROVE  FlagFollows(b, ServerBatching)
<1> USE DEF FlagFollows, ServerBatching, GoTo
<1>0. ~IdleRun.running
  BY DEF IdleRun
<1>1. CASE ProcessNext(b)
  BY <1>0, <1>1 DEF ProcessNext
<1>2. CASE ProcessBegin(b)
  BY <1>2 DEF ProcessBegin
<1>3. CASE ProcessStart(b) \/ ProcessCaught(b)
  BY <1>0, <1>3 DEF ProcessStart, ProcessCaught, ProcessAbort, runs
<1>4. CASE ProcessExecute(b) \/ ProcessAnswered(b)
  BY <1>4 DEF ProcessExecute, ProcessAnswered, runs
<1>5. CASE ProcessExecuted(b) \/ ProcessFailed(b)
  BY <1>5 DEF ProcessExecuted, ProcessFailed, ProcessMark, runs
<1>6. CASE ProcessStore(b) \/ ProcessNoteFailure(b)
  BY <1>6 DEF ProcessStore, ProcessNoteFailure, runs
<1> QED
  BY <1>1, <1>2, <1>3, <1>4, <1>5, <1>6
  DEF ProcessStep, ProcessClearError, ProcessStoreFailure, ProcessNoteCaught

\* Nobody else touches it, or is where it is up.
LEMMA StepFlag ==
    ASSUME ServerInv, NEW a \in Actors, StepOf(a)
    PROVE  FlagFollows(a, ServerBatching)
<1> USE DEF ServerBatching, runs
<1>1. CASE a \in Requests /\ ProcessStep(a)
  BY <1>1, TypedFacts, ProcessFlag DEF Typed
<1>2. CASE ReadMetadata(a) \/ ReadResults(a)
  BY <1>2 DEF FlagFollows, ReadMetadata, ReadResults
<1>3. CASE ProcessList(a) \/ PreEvalArrive(a) \/ ResetPreArrive(a) \/ TeacherCall(a)
  BY <1>3 DEF FlagFollows, ProcessList, PreEvalArrive, ResetPreArrive, TeacherCall, SaveArrive, GradeArrive, ResetArrive,
     ImportArrive, ArchiveArrive, RestoreArrive, UploadArrive, DeleteArrive, RunArrive, Arrive
<1>4. CASE PreEvalStep(a) \/ ResetPreStep(a)
  BY <1>4 DEF FlagFollows, PreEvalStep, PreEvalList, PreEvalBegin, PreEvalEnd, CalibrateCohort, ResetPreStep,
     ResetPreList, ResetPrePick, ResetPreLoad, ResetPreFlip, ResetPreWrite
<1>5. CASE WorkerStep(a)
  <2>1. processRun' = processRun
    BY <1>5 DEF WorkerStep, RowNext, RowLook, RowAsk, RowStore, RowFlip, RowSettled
  <2>2. pc[a] \notin ServerBatching
    BY <1>5 DEF WorkerStep, RowNext, RowLook, RowAsk, RowStore, RowFlip
  <2> QED
    BY <2>1, <2>2 DEF FlagFollows
<1>6. CASE TeacherStep(a)
  <2>1. processRun' = processRun
    BY <1>6 DEF TeacherStep, Save, GradeStatus, GradeMark, Reset, ImportUpsert, ImportSave, ArchiveLook,
       ArchiveStatus, ArchiveMark, RestoreLook, RestoreStatus, RestoreMark, WriteBack, UploadFile, UploadUpsert,
       UploadClear, DeleteFile, DeleteResult, DeleteRecord, RunStart, RunExecute, RunExecuted, RunStore,
       RunClearError, RunCaught, RunNoteCaught
  <2>2. pc[a] \notin ServerBatching
    BY <1>6 DEF TeacherStep, Save, GradeStatus, GradeMark, Reset, ImportUpsert, ImportSave, ArchiveLook,
       ArchiveStatus, ArchiveMark, RestoreLook, RestoreStatus, RestoreMark, WriteBack, UploadFile, UploadUpsert,
       UploadClear, DeleteFile, DeleteResult, DeleteRecord, RunStart, RunExecute, RunExecuted, RunStore,
       RunClearError, RunCaught, RunNoteCaught
  <2> QED
    BY <2>1, <2>2 DEF FlagFollows
<1> QED
  BY <1>1, <1>2, <1>3, <1>4, <1>5, <1>6 DEF StepOf, ClientCall, RequestStep, WorkStep

\* What the two lemmas say of one mover carries over, as long as nobody else is
\* where a row is owned or the flag is up.
LEMMA SettledNext ==
    ASSUME NothingLost, NEW a, NEW owning, NEW batching, owning \subseteq Owning \cup ToolOwning,
           batching \subseteq ServerBatching \cup ToolBatching,
           SettlesRow(a, owning), FlagFollows(a, batching),
           \A r \in Requests : r = a \/ pc[r] \notin Owning \cup ToolOwning \cup ServerBatching \cup ToolBatching,
           a \in Requests => (pc[a] \in Owning \cup ToolOwning => pc[a] \in owning)
                          /\ (pc[a] \in ServerBatching \cup ToolBatching => pc[a] \in batching),
           pc'[a] \in owning \cup batching => a \in Requests
    PROVE  /\ \A s \in Students : meta'[s].status = "executing" =>
                 \E r \in Requests : pc'[r] \in Owning \cup ToolOwning /\ loc'[r].on = s
           /\ processRun'.running => \E r \in Requests : pc'[r] \in ServerBatching \cup ToolBatching
<1>1. ASSUME NEW s \in Students, meta'[s].status = "executing"
      PROVE  \E r \in Requests : pc'[r] \in Owning \cup ToolOwning /\ loc'[r].on = s
  <2>1. CASE pc'[a] \in owning /\ loc'[a].on = s
    BY <2>1
  <2>2. CASE meta[s].status = "executing"
    <3>1. PICK r \in Requests : pc[r] \in Owning \cup ToolOwning /\ loc[r].on = s
      BY <2>2 DEF NothingLost
    <3>2. r = a /\ pc[a] \in owning
      BY <3>1
    <3> QED
      BY <1>1, <3>1, <3>2 DEF SettlesRow
  <2> QED
    BY <1>1, <2>1, <2>2 DEF SettlesRow
<1>2. ASSUME processRun'.running PROVE \E r \in Requests : pc'[r] \in ServerBatching \cup ToolBatching
  <2>1. CASE pc'[a] \in batching
    BY <2>1
  <2>2. CASE processRun' = processRun /\ pc[a] \notin batching
    <3>1. PICK r \in Requests : pc[r] \in ServerBatching \cup ToolBatching
      BY <1>2, <2>2 DEF NothingLost
    <3> QED
      BY <2>2, <3>1
  <2> QED
    BY <1>2, <2>1, <2>2 DEF FlagFollows
<1> QED
  BY <1>1, <1>2

\* No step of the server alone loses anything,
LEMMA HomeLosesNothing ==
    ASSUME OneRequest, "executing" \notin RestoreTargets, Home, AloneKept, NothingLost,
           NEW a \in Actors, StepOf(a), Next
    PROVE  NothingLost'
<1>0. /\ ServerInv /\ MetadataFresh /\ Placed /\ Placed'
      /\ pc \in [Actors -> Labels] /\ meta \in MetadataFile
      /\ \A s \in Students : meta[s].archivedFrom # "executing"
  BY PlacedStep, Facts DEF Home, Data, NothingLost
<1>1. \/ \A r \in Requests : r = a
      \/ \A r \in Requests : pc[r] = "preEval.rows" /\ pc'[r] = "preEval.rows"
  BY <1>0, AloneMoves
<1>2. SettlesRow(a, Owning) /\ FlagFollows(a, ServerBatching)
  BY <1>0, ServerSettles, StepFlag
<1>3. /\ \A s \in Students : meta'[s].status = "executing" =>
            \E r \in Requests : pc'[r] \in Owning \cup ToolOwning /\ loc'[r].on = s
      /\ processRun'.running => \E r \in Requests : pc'[r] \in ServerBatching \cup ToolBatching
  <2>1. \A l \in ToolOwning \cup ToolBatching : l \notin Labels
    BY ToolLabelsApart, ToolPlaces
  <2>2. "preEval.rows" \notin Owning \cup ToolOwning \cup ServerBatching \cup ToolBatching
    BY <2>1 DEF Owning, ServerBatching, Labels, Other
  <2>3. \A r \in Requests : r = a \/ pc[r] \notin Owning \cup ToolOwning \cup ServerBatching \cup ToolBatching
    BY <1>1, <2>2
  <2>4. a \in Requests => pc[a] \notin ToolOwning \cup ToolBatching
    BY <1>0, <2>1
  <2>5. pc'[a] \in Owning \cup ServerBatching => a \in Requests
    BY <1>0 DEF Placed, WorkerLabels, Owning, ServerBatching, Actors
  <2> QED
    BY <1>2, <2>3, <2>4, <2>5, SettledNext
<1>4. ASSUME NEW s \in Students PROVE meta'[s].archivedFrom # "executing"
  <2>1. CASE UNCHANGED <<meta, pc, loc>>
    BY <1>0, <2>1
  <2>2. CASE Ordinary(a) /\ OrdinaryRow(a, s)
    BY <1>0, <2>2 DEF OrdinaryRow, Blank
  <2>3. CASE Marks(a) /\ a \in Requests /\ KeptBy(a) /\ MarksRow(a, s)
    BY <1>0, <2>3 DEF MarksRow, KeptBy, NothingLost
  <2> QED
    BY <1>0, <2>1, <2>2, <2>3, AloneRows
<1>5. ASSUME NEW r \in Requests, pc'[r] = "archive.mark" PROVE loc'[r].kept.archivedFrom # "executing"
  <2>1. r = a
    BY <1>1, <1>5
  <2>2. CASE UNCHANGED <<meta, pc, loc>>
    BY <1>5, <2>2 DEF NothingLost
  <2>3. CASE Ordinary(a)
    BY <1>5, <2>1, <2>3 DEF Ordinary, MarkLabels
  <2>4. CASE Marks(a) /\ KeptBy(a)
    <3>1. /\ pc[a] = "archive.status" /\ loc[a].on \in Students
          /\ loc'[a].kept = [meta[loc[a].on] EXCEPT !.status = "archived", !.archivedFrom = loc[a].kept.archivedFrom]
      BY <1>5, <2>1, <2>4 DEF Marks
    <3>2. loc[a].kept.archivedFrom = meta[loc[a].on].status /\ meta[loc[a].on] \in Submission
      BY <1>0, <2>4, <3>1 DEF KeptBy, MetadataFile
    <3>3. meta[loc[a].on].status # "executing"
      <4>1. \A q \in Requests : pc[q] = "archive.status"
        BY <2>1, <3>1 DEF OneRequest
      <4> QED
        BY <3>1, <4>1 DEF NothingLost, Owning, ToolOwning
    <3> QED
      BY <2>1, <3>1, <3>2, <3>3 DEF Submission
  <2> QED
    BY <1>0, <2>2, <2>3, <2>4, AloneRowsOf
<1> QED
  BY <1>3, <1>4, <1>5 DEF NothingLost

\* and none of a tool.
LEMMA ToolLosesNothing ==
    ASSUME OneRequest, ToolInv, NothingLost, NEW t \in Requests, AtWork(t), ToolWorks(t),
           pc[t] \in ToolLabels \cup {"idle"}
    PROVE  NothingLost'
<1>1. /\ \A s \in Students : OrdinaryRow(t, s)
      /\ \A r \in Requests : r = t
      /\ pc'[t] # "archive.mark"
  BY WorkedRows
<1>2. pc[t] \notin Owning /\ pc[t] \notin ServerBatching
  <2>1. \A l \in Owning \cup ServerBatching : l \in Labels /\ l # "idle"
    BY DEF Owning, ServerBatching, Labels, Other, Section, SectionMeta, SectionResults, BareMeta
  <2> QED
    BY <2>1, ToolLabelsApart
<1>3. /\ \A s \in Students : meta'[s].status = "executing" =>
            \E r \in Requests : pc'[r] \in Owning \cup ToolOwning /\ loc'[r].on = s
      /\ processRun'.running => \E r \in Requests : pc'[r] \in ServerBatching \cup ToolBatching
  BY <1>1, <1>2, SettledNext DEF ToolWorks
<1>4. \A s \in Students : meta'[s].archivedFrom # "executing"
  BY <1>1 DEF OrdinaryRow, Blank, NothingLost
<1> QED
  BY <1>1, <1>3, <1>4 DEF NothingLost

\* However a route or a tool ends, by a refusal, a throw or an aborted turn:
\* when the only request there is is over, no row is left executing and no batch
\* is shown as running, so none is refused for good.  A crash leaves both, and a
\* restore that names executing as its target makes a row that nobody executes.
THEOREM NothingLeftRunningHolds ==
    ASSUME OneRequest, ~Crashes, "executing" \notin RestoreTargets
    PROVE  ToolSpec => []NothingLeftRunning
<1>1. Init => NothingLost
  <2>1. ASSUME NEW kind \in RowKinds
        PROVE  /\ RestingSubmission(kind).status # "executing"
               /\ RestingSubmission(kind).archivedFrom = "none"
    BY DEF RowKinds, RestingSubmission, NoSubmission
  <2>2. ASSUME Init, NEW s \in Students
        PROVE  meta[s].status # "executing" /\ meta[s].archivedFrom # "executing"
    <3>1. PICK kind \in RowKinds : meta[s] = RestingSubmission(kind)
      BY <2>2, InitialRowsAssumption DEF Init, StoresInit
    <3> QED
      BY <2>1, <3>1
  <2> QED
    BY <2>2 DEF Init, StoresInit, NothingLost, Actors, IdleRun
<1>2. ToolInv /\ NothingLost /\ [ToolNext]_vars => NothingLost'
  <2> SUFFICES ASSUME ToolInv, NothingLost, [ToolNext]_vars PROVE NothingLost'
    OBVIOUS
  <2>1. CASE UNCHANGED vars
    BY <2>1 DEF vars, NothingLost
  <2>2. ASSUME Home, Next, NEW a \in Actors, StepOf(a) PROVE NothingLost'
    BY <2>2, HomeLosesNothing DEF ToolInv
  <2>3. ASSUME NEW t \in Requests, AtWork(t), ToolWorks(t), pc[t] \in ToolLabels \cup {"idle"} PROVE NothingLost'
    BY <2>3, ToolLosesNothing
  <2> QED
    BY <2>1, <2>2, <2>3, ToolNextCases DEF Crash
<1>3. NothingLost => NothingLeftRunning
  <2>1. "idle" \notin Owning \cup ToolOwning \cup ServerBatching \cup ToolBatching
    BY DEF Owning, ToolOwning, ServerBatching, ToolBatching, ToolMetaCalls, ToolResultsCalls
  <2> QED
    BY <2>1 DEF NothingLost, NothingLeftRunning
<1> QED
  BY <1>1, <1>2, <1>3, ToolInvAlways, PTL DEF ToolSpec

----------------------------------------------------------------------------
(***************************************************************************)
(* The envelopes of a teacher who works alone, the copilot's tools among   *)
(* what she calls: runs and batches replace executions here, and a row may *)
(* be pre-evaluated, run again and pre-evaluated once more.                *)
(***************************************************************************)

\* The end of a row's pre-evaluation is not on its way to another envelope,
LEMMA SettledOwn ==
    ASSUME NEW t \in Requests, AtWork(t), PreEvaluateSettled(t) \/ \E left : PreEvaluateNext(t, left)
    PROVE  pc'[t] \notin Asking
BY ToolFresh DEF PreEvaluateSettled, PreEvaluateNext, Finish, GoTo, Asking

\* and a step of a tool keeps every envelope with its execution.
LEMMA ToolOwn ==
    ASSUME NEW t \in Requests, AtWork(t), EnvelopesOwn, ToolActs(t)
    PROVE  OwnStep(t)
<1>0. /\ pc \in [Actors -> Labels \cup ToolLabels] /\ loc \in [Actors -> Locals] /\ t \in Actors
      /\ results \in ResultsFile /\ EnvelopeMatchesResult /\ AsksAbout(t)
      /\ \A f \in resultsSeen[t] : f = results
  BY ToolFresh DEF EnvelopesOwn
<1>1. CASE ToolCall(t)
  <2>1. results' = results /\ pc'[t] \notin Asking
    BY <1>0, <1>1 DEF ToolCall, SaveTool, ArchiveTool, ProcessSubmission, ProcessAll, PreEvaluateTool, PreEvaluateAll,
       CallTool, GoTo, files, Asking
  <2> QED
    BY <1>0, <2>1, OwnStands
<1>2. CASE ToolReads(t)
  <2>1. UNCHANGED <<results, pc, loc>>
    BY <1>2 DEF ToolReads, files
  <2> QED
    BY <1>0, <2>1 DEF OwnStep, AsksAbout, SameRuns, EnvelopeMatchesResult, HasPreEval
<1>3. CASE ProcessSubmissionLook(t) \/ AllList(t) \/ AllExecute(t)
  <2>1. results' = results /\ pc'[t] \notin Asking
    BY <1>0, <1>3 DEF ProcessSubmissionLook, AllList, AllExecute, Finish, GoTo, files, Asking
  <2> QED
    BY <1>0, <2>1, OwnStands
<1>4. ASSUME NEW left, NEW count, NEW run, AllNext(t, left, count, run) PROVE pc'[t] \notin Asking
  BY <1>0, <1>4 DEF AllNext, AllEnd, Finish, GoTo, Asking
<1>5. CASE AllBegin(t) \/ AllStart(t) \/ AllCaught(t)
  <2>1. results' = results
    BY <1>5 DEF AllBegin, AllStart, AllCaught, AllNote, WriteMetadata, LeaveMetadata, files
  <2>2. pc'[t] \notin Asking
    BY <1>0, <1>4, <1>5 DEF AllBegin, AllStart, AllCaught, AllRowDone, AllEnd, Finish, GoTo, Asking
  <2> QED
    BY <1>0, <2>1, <2>2, OwnStands
<1>6. CASE AllSucceeds(t) \/ AllFails(t)
  <2>1. CASE AllStore(t, "all.store") \/ AllStore(t, "all.storeFailure")
    <3>1. /\ loc[t].on \in Students /\ pc[t] \in Replacing
          /\ results' = SetResult(results, loc[t].on, loc[t].run)
      BY <1>0, <2>1, ToolFresh, AllLabels DEF AllStore, WriteResults, Replacing
    <3>2. pc'[t] \notin Asking
      BY <1>0, <1>4, <1>6, <3>1 DEF AllSucceeds, AllFails, AllMark, AllNote, AllRowDone, GoTo, Asking
    <3> QED
      BY <1>0, <3>1, <3>2, OwnWrites DEF OwnStep
  <2>2. CASE ~(AllStore(t, "all.store") \/ AllStore(t, "all.storeFailure"))
    <3>1. results' = results
      BY <1>6, <2>2 DEF AllSucceeds, AllFails, AllMark, AllNote, WriteMetadata, LeaveMetadata, files
    <3>2. pc'[t] \notin Asking
      BY <1>0, <1>4, <1>6, <2>2 DEF AllSucceeds, AllFails, AllMark, AllRowDone, GoTo, Asking
    <3> QED
      BY <1>0, <3>1, <3>2, OwnStands
  <2> QED
    BY <2>1, <2>2
<1>7. CASE PreEvaluateList(t)
  BY <1>0, <1>7, SettledOwn, OwnStands DEF PreEvaluateList, files
<1>8. CASE PreEvaluateRead(t)
  <2>1. CASE PreEvaluateSettled(t)
    BY <1>0, <1>8, <2>1, SettledOwn, OwnStands DEF PreEvaluateRead, files
  <2>2. CASE loc' = [loc EXCEPT ![t].run = results[loc[t].on].run]
    <3>1. loc'[t].on = loc[t].on /\ loc'[t].run = results[loc[t].on].run
      BY <1>0, <2>2 DEF Locals
    <3>2. results' = results
      BY <1>8 DEF PreEvaluateRead, files
    <3> QED
      BY <1>0, <3>1, <3>2 DEF OwnStep, SameRuns, EnvelopeMatchesResult, HasPreEval
  <2> QED
    BY <1>8, <2>1, <2>2 DEF PreEvaluateRead
<1>9. CASE PreEvaluateAsk(t)
  <2>1. CASE PreEvaluateSettled(t)
    BY <1>0, <1>9, <2>1, SettledOwn, OwnStands DEF PreEvaluateAsk, files
  <2>2. CASE UNCHANGED loc
    <3>1. results' = results /\ loc[t].run = results[loc[t].on].run
      BY <1>0, <1>9 DEF PreEvaluateAsk, files, AsksAbout, Asking
    <3> QED
      BY <1>0, <2>2, <3>1 DEF OwnStep, SameRuns, EnvelopeMatchesResult, HasPreEval
  <2> QED
    BY <1>9, <2>1, <2>2 DEF PreEvaluateAsk
<1>10. CASE PreEvaluateStore(t)
  <2>1. pc'[t] \notin Asking
    BY <1>10, SettledOwn DEF PreEvaluateStore
  <2>2. CASE LeaveResults(t)
    BY <1>0, <2>1, <2>2, OwnStands DEF LeaveResults, files
  <2>3. CASE WriteResults(t, SetPreEvaluation(results, loc[t].on, loc[t].run))
    <3>1. loc[t].on \in Students /\ loc[t].run = results[loc[t].on].run
      BY <1>0, <1>10, ToolFresh, AllLabels DEF PreEvaluateStore, AsksAbout, Asking
    <3>2. EnvelopeMatchesResult' /\ SameRuns
      BY <1>0, <2>3, <3>1, OwnWrites DEF WriteResults
    <3> QED
      BY <2>1, <3>2 DEF OwnStep
  <2> QED
    BY <1>0, <1>10, <2>2, <2>3 DEF PreEvaluateStore
<1> QED
  BY <1>1, <1>2, <1>3, <1>5, <1>6, <1>7, <1>8, <1>9, <1>10 DEF ToolActs, ToolStep

\* With one request at a time, be it a route or a tool of the copilot, the
\* envelope of a row is about the execution stored next to it: no run, batch or
\* upload leaves an envelope of the old execution beside a new one, and no
\* pre-evaluation stores one about an execution that was replaced while it asked
\* for the scores; a crash at any await makes no such pair either.
THEOREM EnvelopesStayWithResults ==
    ASSUME OneRequest
    PROVE  ToolSpec => []EnvelopeMatchesResult
<1>1. ToolInv /\ EnvelopesOwn /\ [ToolNext]_vars => EnvelopesOwn'
  <2> SUFFICES ASSUME ToolInv, EnvelopesOwn, [ToolNext]_vars PROVE EnvelopesOwn'
    OBVIOUS
  <2>1. CASE UNCHANGED vars
    BY <2>1 DEF vars, files, EnvelopesOwn, AsksAbout, EnvelopeMatchesResult, HasPreEval
  <2>2. CASE Crash
    BY <2>2 DEF Crash, files, EnvelopesOwn, AsksAbout, Asking, EnvelopeMatchesResult, HasPreEval
  <2>3. ASSUME Home, NEW a \in Actors, StepOf(a), Stands(a) PROVE EnvelopesOwn'
    BY <2>3, EnvelopesOwnNext DEF Home
  <2>4. ASSUME NEW t \in Requests, AtWork(t), ToolWorks(t), ToolActs(t)
        PROVE  EnvelopesOwn'
    <3>1. OwnStep(t)
      BY <2>4, ToolOwn
    <3>2. \A a \in Actors \ {t} : pc'[a] = "idle"
      BY <2>4 DEF ToolWorks, AtWork
    <3> QED
      BY <3>1, <3>2 DEF OwnStep, EnvelopesOwn, AsksAbout, Asking
  <2> QED
    BY <2>1, <2>2, <2>3, <2>4, ToolNextCases
<1> QED
  BY <1>1, EnvelopesOwnInit, ToolInvAlways, PTL DEF ToolSpec, EnvelopesOwn
=============================================================================
