----------------------- MODULE SubmissionServerProofs -----------------------
(***************************************************************************)
(* Proofs about the submission server, for any students, any number of     *)
(* requests in flight and any choice of routes, with and without crashes.  *)
(*                                                                         *)
(* The inductive invariant joins four statements that need each other: the *)
(* data and the queue are typed (TypeOK), the handlers in a section are the*)
(* ones in the queue (SectionsQueued), a handler that works on a row has one*)
(* (AtHand), and workers live, and change the locals of their request, only*)
(* while it runs them (RunSlotExclusive).                                  *)
(***************************************************************************)
EXTENDS SubmissionServer, FiniteSetTheorems, SequenceTheorems, TLAPS

----------------------------------------------------------------------------
(***************************************************************************)
(* What the pure operators on the two files return: every operation turns  *)
(* a well-formed file into a well-formed file, and FirstOf picks a row.    *)
(***************************************************************************)
\* A non-empty set of students has a first one, so the batches that iterate
\* over their rows in order always have a next row.
LEMMA FirstOfType ==
    ASSUME NEW S \in SUBSET Students, S # {}
    PROVE  FirstOf(S) \in S
<1>1. S \subseteq Nat
  BY StudentsAssumption
<1>2. PICK s \in S : \A t \in S : ~(<<t, s>> \in OpToRel(<, Nat))
  BY <1>1, WFMin, NatLessThanWellFounded
<1>3. \A t \in S : s <= t
  <2> TAKE t \in S
  <2>1. s \in Nat /\ t \in Nat
    BY <1>1
  <2>2. ~(t < s)
    BY <1>2, <2>1 DEF OpToRel
  <2> QED
    BY <2>1, <2>2
<1> QED
  BY <1>3 DEF FirstOf

\* The rows of a batch can be counted.
LEMMA RowsCount ==
    ASSUME NEW S \in SUBSET Students
    PROVE  IsFiniteSet(S) /\ Cardinality(S) \in Nat
BY StudentsAssumption, FS_Subset, FS_CardinalityType

\* The row of a student that is not in the file.
LEMMA NoSubmissionType == NoSubmission \in Submission
BY DEF NoSubmission, Submission, Status

\* updateStatus stores a row of the file again, with another status.
LEMMA SetStatusType ==
    ASSUME NEW f \in MetadataFile, NEW s, NEW to \in Status \cup {"absent"}
    PROVE  SetStatus(f, s, to) \in MetadataFile
BY DEF MetadataFile, Submission, SetStatus

\* upsertSubmission starts from the stored row or from a fresh pending one.
LEMMA UpsertBaseType ==
    ASSUME NEW f \in MetadataFile, NEW s \in Students
    PROVE  UpsertBase(f, s) \in Submission
BY NoSubmissionType DEF UpsertBase, MetadataFile, Submission, Status

\* The four patches of upsertSubmission.
LEMMA UpsertType ==
    ASSUME NEW f \in MetadataFile, NEW s \in Students, NEW b \in BOOLEAN
    PROVE  /\ UpsertError(f, s, b) \in MetadataFile
           /\ UpsertGrade(f, s) \in MetadataFile
           /\ UpsertUpload(f, s) \in MetadataFile
           /\ UpsertImport(f, s, b) \in MetadataFile
<1> DEFINE u == UpsertBase(f, s)
<1>1. u \in Submission
  BY UpsertBaseType
<1> HIDE DEF u
<1>2. /\ [u EXCEPT !.error = b] \in Submission
      /\ [u EXCEPT !.teacherGrade = TRUE] \in Submission
      /\ [u EXCEPT !.status = "pending", !.error = FALSE] \in Submission
      /\ [u EXCEPT !.teacherGrade = b, !.error = FALSE,
                   !.status = IF b THEN "graded" ELSE @] \in Submission
  BY <1>1 DEF Submission, Status
<1> QED
  BY <1>2 DEF MetadataFile, UpsertError, UpsertGrade, UpsertUpload, UpsertImport, u

\* saveGrading, resetSubmission and removeSubmission.
LEMMA GradingType ==
    ASSUME NEW f \in MetadataFile, NEW s \in Students, NEW keys \in SUBSET Keys
    PROVE  /\ SaveGrading(f, s, keys) \in MetadataFile
           /\ ResetSubmission(f, s) \in MetadataFile
           /\ RemoveSubmission(f, s) \in MetadataFile
BY NoSubmissionType
   DEF MetadataFile, Submission, Status, SaveGrading, ResetSubmission, RemoveSubmission

\* The entry of a student without a result.
LEMMA NoResultType == NoResult \in Result /\ NoExecution \in Execution
BY MaxVersionAssumption DEF NoResult, Result, NoExecution, Execution, NoEnvelope, Envelope

\* setResult, clearResult and setPreEvaluation.
LEMMA ResultsType ==
    ASSUME NEW f \in ResultsFile, NEW s \in Students, NEW run \in Execution
    PROVE  /\ SetResult(f, s, run) \in ResultsFile
           /\ ClearResult(f, s) \in ResultsFile
           /\ SetPreEvaluation(f, s, run) \in ResultsFile
BY NoResultType
   DEF ResultsFile, Result, Envelope, SetResult, ClearResult, SetPreEvaluation

\* The reset of pre-evaluations and the calibration.
LEMMA CohortType ==
    ASSUME NEW f \in ResultsFile, NEW S \in SUBSET Students
    PROVE  DropPreEval(f, S) \in ResultsFile /\ Calibrate(f, S) \in ResultsFile
BY NoResultType
   DEF ResultsFile, Result, Envelope, NoEnvelope, DropPreEval, Calibrate

----------------------------------------------------------------------------

\* The labels at which a handler has a row in hand.
AtRow == {"process.start", "process.execute", "process.answered", "process.executed", "process.store",
          "process.clearError", "process.failed", "process.noteFailure",
          "process.storeFailure", "process.caught", "process.noteCaught",
          "row.look", "row.ask", "row.store", "row.flip",
          "save", "grade.status", "grade.mark", "reset",
          "import.upsert", "import.save",
          "archive.look", "archive.status", "archive.mark",
          "restore.look", "restore.status", "restore.mark",
          "upload.file", "upload.upsert", "upload.clear",
          "delete.file", "delete.result", "delete.record",
          "run.start", "run.execute", "run.executed", "run.store", "run.clearError",
          "run.caught", "run.noteCaught"}

AtHand ==
    \A a \in Actors :
        /\ pc[a] \in AtRow => loc[a].on \in Students
        /\ pc[a] = "process.begin" => loc[a].left # {}

ServerInv == TypeOK /\ AtHand /\ SectionsQueued /\ RunSlotExclusive

----------------------------------------------------------------------------
(***************************************************************************)
(* Queues.                                                                 *)
(***************************************************************************)
Within(q, a) == \E i \in 1 .. Len(q) : q[i] = a

\* A new section joins at the end.
LEMMA AppendQueue ==
    ASSUME NEW S, NEW q \in Seq(S), NEW a \in S, Distinct(q), ~Within(q, a)
    PROVE  LET p == Append(q, a)
           IN  /\ p \in Seq(S)
               /\ Distinct(p)
               /\ \A b : Within(p, b) <=> Within(q, b) \/ b = a
               /\ q # <<>> => p # <<>> /\ Head(p) = Head(q)
<1> DEFINE p == Append(q, a)
<1>1. p \in Seq(S) /\ Len(p) = Len(q) + 1 /\ p[Len(q) + 1] = a
      /\ \A i \in 1 .. Len(q) : p[i] = q[i]
  BY AppendProperties
<1>2. Len(q) \in Nat
  OBVIOUS
<1> HIDE DEF p
<1>3. Distinct(p)
  BY <1>1, <1>2 DEF Distinct, Within
<1>4. \A b : Within(p, b) <=> Within(q, b) \/ b = a
  BY <1>1, <1>2 DEF Within
<1>5. q # <<>> => p # <<>> /\ Head(p) = Head(q)
  BY <1>1, <1>2 
<1> QED
  BY <1>1, <1>3, <1>4, <1>5 DEF p

\* The section at the head leaves.
LEMMA TailQueue ==
    ASSUME NEW S, NEW q \in Seq(S), q # <<>>, Distinct(q)
    PROVE  /\ Tail(q) \in Seq(S)
           /\ Distinct(Tail(q))
           /\ \A b : Within(Tail(q), b) <=> Within(q, b) /\ b # Head(q)
<1> DEFINE p == Tail(q)
<1>1. p \in Seq(S) /\ Len(p) = Len(q) - 1 /\ \A i \in 1 .. Len(p) : p[i] = q[i + 1]
  BY HeadTailProperties
<1>2. Len(q) \in Nat \ {0} /\ Head(q) = q[1]
  BY EmptySeq
<1> HIDE DEF p
<1>3. Distinct(p)
  BY <1>1, <1>2 DEF Distinct
<1>4. ASSUME NEW b, Within(p, b) PROVE Within(q, b) /\ b # Head(q)
  BY <1>1, <1>2, <1>4 DEF Within, Distinct
<1>5. ASSUME NEW b, Within(q, b), b # Head(q) PROVE Within(p, b)
  <2>1. PICK i \in 1 .. Len(q) : q[i] = b
    BY <1>5 DEF Within
  <2>2. i - 1 \in 1 .. Len(p) /\ p[i - 1] = b
    BY <1>1, <1>2, <1>5, <2>1
  <2> QED
    BY <2>2 DEF Within
<1> QED
  BY <1>1, <1>3, <1>4, <1>5 DEF p

----------------------------------------------------------------------------
(***************************************************************************)
(* The shape of a step.  Of what a handler does, SectionsQueued sees only  *)
(* where it goes, what it does to the queue, and whether it keeps a        *)
(* snapshot; almost every action has one shape with these choices.         *)
(***************************************************************************)
SameQueue(a, l) ==
    /\ chain' = chain
    /\ pc[a] \in Section <=> l \in Section
    /\ l \in Section /\ (metaSeen'[a] # {} \/ resultsSeen'[a] # {}) => Holds(a)

Joins(a, l) == Enter(a) /\ pc[a] \notin Section /\ l \in Section

Leaves(a, l) == Leave /\ Holds(a) /\ pc[a] \in Section /\ l \notin Section

JoinsAgain(a, l) == LeaveAndEnter(a) /\ Holds(a) /\ pc[a] \in Section /\ l \in Section

Goes(a, l) ==
    /\ pc' = [pc EXCEPT ![a] = l]
    /\ \A c \in Actors \ {a} : metaSeen'[c] = metaSeen[c] /\ resultsSeen'[c] = resultsSeen[c]
    /\ metaSeen'[a] # {} => l \in MetaCalls
    /\ resultsSeen'[a] # {} => l \in Holding
    /\ \/ SameQueue(a, l)
       \/ /\ metaSeen'[a] = {} /\ resultsSeen'[a] = {}
          /\ Joins(a, l) \/ JoinsAgain(a, l)
       \/ Leaves(a, l)

\* A step of this shape keeps the sections queued: only the head of the queue
\* leaves, only an actor outside joins, and only the head holds a snapshot.
LEMMA GoesKeepsQueue ==
    ASSUME TypeOK, SectionsQueued, NEW a \in Actors, NEW l \in Labels, Goes(a, l)
    PROVE  chain' \in Seq(Actors) /\ SectionsQueued'
<1>0. /\ chain \in Seq(Actors) /\ pc \in [Actors -> Labels]
      /\ Distinct(chain)
      /\ \A c \in Actors : pc[c] \in Section <=> Within(chain, c)
      /\ \A c \in Actors : metaSeen[c] # {} => pc[c] \in MetaCalls /\ (pc[c] \in Section => Holds(c))
      /\ \A c \in Actors : resultsSeen[c] # {} => pc[c] \in Holding /\ (pc[c] \in Section => Holds(c))
  BY DEF TypeOK, SectionsQueued, InQueue, Within, MayRun
<1>1. /\ pc'[a] = l
      /\ \A c \in Actors \ {a} : /\ pc'[c] = pc[c]
                                 /\ metaSeen'[c] = metaSeen[c]
                                 /\ resultsSeen'[c] = resultsSeen[c]
      /\ metaSeen'[a] # {} => l \in MetaCalls
      /\ resultsSeen'[a] # {} => l \in Holding
  BY <1>0 DEF Goes
<1>2. SUFFICES /\ chain' \in Seq(Actors)
               /\ Distinct(chain')
               /\ \A c \in Actors : pc'[c] \in Section <=> Within(chain', c)
               /\ \A c \in Actors : (metaSeen'[c] # {} \/ resultsSeen'[c] # {}) /\ pc'[c] \in Section
                      => chain' # <<>> /\ Head(chain') = c
  BY <1>0, <1>1 DEF SectionsQueued, InQueue, Within, MayRun, Holds
<1>3. CASE SameQueue(a, l)
  BY <1>0, <1>1, <1>3 DEF SameQueue, Holds
<1>4. CASE Joins(a, l) /\ metaSeen'[a] = {} /\ resultsSeen'[a] = {}
  <2>1. /\ chain' \in Seq(Actors) /\ Distinct(chain')
        /\ \A c : Within(chain', c) <=> Within(chain, c) \/ c = a
        /\ chain # <<>> => chain' # <<>> /\ Head(chain') = Head(chain)
    BY <1>0, <1>4, AppendQueue DEF Joins, Enter
  <2> QED
    BY <1>0, <1>1, <1>4, <2>1 DEF Joins, Holds
<1>5. CASE Leaves(a, l)
  <2>1. /\ chain' \in Seq(Actors) /\ Distinct(chain')
        /\ \A c : Within(chain', c) <=> Within(chain, c) /\ c # a
    BY <1>0, <1>5, TailQueue DEF Leaves, Leave, Holds
  <2> QED
    BY <1>0, <1>1, <1>5, <2>1 DEF Leaves, Holds
<1>6. CASE JoinsAgain(a, l) /\ metaSeen'[a] = {} /\ resultsSeen'[a] = {}
  <2> DEFINE q == Tail(chain)
  <2>1. /\ q \in Seq(Actors) /\ Distinct(q)
        /\ \A c : Within(q, c) <=> Within(chain, c) /\ c # a
    BY <1>0, <1>6, TailQueue DEF JoinsAgain, Holds
  <2>2. chain' = Append(q, a)
    BY <1>6 DEF JoinsAgain, LeaveAndEnter
  <2> HIDE DEF q
  <2>3. /\ chain' \in Seq(Actors) /\ Distinct(chain')
        /\ \A c : Within(chain', c) <=> Within(q, c) \/ c = a
    BY <2>1, <2>2, AppendQueue
  <2> QED
    BY <1>0, <1>1, <1>6, <2>1, <2>3 DEF JoinsAgain, Holds
<1> QED
  BY <1>3, <1>4, <1>5, <1>6 DEF Goes

----------------------------------------------------------------------------
(***************************************************************************)
(* The run slot.  A step leaves it alone when its request is not, and does *)
(* not become, the owner of a run, or when it is one of a live worker.     *)
(***************************************************************************)
LeavesSlot(a, l) ==
    /\ evalRun'.running = evalRun.running
    /\ pc' = [pc EXCEPT ![a] = l]
    /\ \/ a \in Requests /\ pc[a] # "preEval.rows" /\ l # "preEval.rows"
       \/ a \in Workers /\ pc[a] # "idle"

\* Such a step keeps the run slot exclusive.
LEMMA LeavesSlotKeeps ==
    ASSUME TypeOK, RunSlotExclusive, NEW a \in Actors, NEW l \in Labels, LeavesSlot(a, l)
    PROVE  RunSlotExclusive'
<1>1. \A w \in Workers : w[1] \in Requests /\ w \notin Requests
  BY ActorsAssumption DEF Workers
<1>2. pc \in [Actors -> Labels] /\ Requests \subseteq Actors /\ Workers \subseteq Actors
  BY DEF TypeOK, Actors
<1> QED
  BY <1>1, <1>2 DEF RunSlotExclusive, LeavesSlot

----------------------------------------------------------------------------
(***************************************************************************)
(* What is shown of each action: the data stay typed, the handler goes     *)
(* somewhere in the shape above, leaves the slot alone, and has a row in   *)
(* hand where it needs one.                                                *)
(***************************************************************************)
Data ==
    /\ meta \in MetadataFile
    /\ results \in ResultsFile
    /\ notebook \in [Students -> 0 .. MaxVersion]
    /\ processRun \in Progress
    /\ evalRun \in Progress
    /\ loc \in [Actors -> Locals]
    /\ metaSeen \in [Actors -> SUBSET MetadataFile]
    /\ resultsSeen \in [Actors -> SUBSET ResultsFile]

InHand(a, l) ==
    /\ \A c \in Actors \ {a} : loc'[c].on = loc[c].on /\ (pc[c] = "process.begin" => loc'[c].left = loc[c].left)
    /\ l \in AtRow => loc'[a].on \in Students
    /\ l = "process.begin" => loc'[a].left # {}

Keeps(a) ==
    /\ Data'
    /\ \E l \in Labels : Goes(a, l) /\ LeavesSlot(a, l) /\ InHand(a, l)

\* A step that does what Keeps says preserves the invariant.
LEMMA KeepsInv ==
    ASSUME ServerInv, NEW a \in Actors, Keeps(a)
    PROVE  ServerInv'
<1>1. PICK l \in Labels : Goes(a, l) /\ LeavesSlot(a, l) /\ InHand(a, l)
  BY DEF Keeps
<1>2. chain' \in Seq(Actors) /\ SectionsQueued'
  BY <1>1, GoesKeepsQueue DEF ServerInv
<1>3. RunSlotExclusive'
  BY <1>1, LeavesSlotKeeps DEF ServerInv
<1>4. pc \in [Actors -> Labels] /\ pc' = [pc EXCEPT ![a] = l]
  BY <1>1 DEF ServerInv, TypeOK, Goes
<1>5. TypeOK'
  BY <1>2, <1>4 DEF Keeps, Data, TypeOK
<1>6. AtHand'
  BY <1>1, <1>4 DEF ServerInv, AtHand, InHand
<1> QED
  BY <1>2, <1>3, <1>5, <1>6 DEF ServerInv

\* What the invariant says of one handler and the snapshots it holds.
LEMMA Facts ==
    ASSUME ServerInv
    PROVE  /\ Data
           /\ chain \in Seq(Actors)
           /\ pc \in [Actors -> Labels]
           /\ Requests \subseteq Actors /\ Workers \subseteq Actors
           /\ \A a \in Actors :
                 /\ pc[a] \in AtRow => loc[a].on \in Students
                 /\ pc[a] = "process.begin" => loc[a].left # {}
                 /\ metaSeen[a] # {} => pc[a] \in MetaCalls /\ (pc[a] \in Section => Holds(a))
                 /\ resultsSeen[a] # {} => pc[a] \in Holding /\ (pc[a] \in Section => Holds(a))
BY DEF ServerInv, TypeOK, Data, AtHand, SectionsQueued, MayRun, Actors

\* The read half of a store call moves nobody.
LEMMA ReadKeeps ==
    ASSUME ServerInv, NEW a \in Actors, a \in Workers => pc[a] # "idle",
           ReadMetadata(a) \/ ReadResults(a)
    PROVE  Keeps(a)
<1> DEFINE l == pc[a]
<1>0. l \in Labels /\ pc' = [pc EXCEPT ![a] = l]
  BY Facts DEF ReadMetadata, ReadResults
<1>1. Data'
  BY Facts DEF Data, ReadMetadata, ReadResults, files, runs
<1> USE DEF Section, SectionMeta, SectionResults, BareMeta, BareResults,
            MetaCalls, ResultsCalls, Holding
<1>2. Goes(a, l)
  BY <1>0, Facts DEF Data, ReadMetadata, ReadResults, Goes, SameQueue, MayRun
<1>3. LeavesSlot(a, l)
  BY <1>0, Facts DEF ReadMetadata, ReadResults, LeavesSlot, runs, Actors
<1>4. InHand(a, l)
  BY Facts DEF ReadMetadata, ReadResults, InHand
<1> QED
  BY <1>0, <1>1, <1>2, <1>3, <1>4 DEF Keeps

\* The awaits outside every section and every store call.
LEMMA OtherOutside ==
    \A l \in Other : l \in Labels /\ l \notin Section /\ l \notin MetaCalls /\ l \notin Holding
BY DEF Labels, Other, Section, SectionMeta, SectionResults, BareMeta, BareResults,
       MetaCalls, ResultsCalls, Holding

\* A handler that touches neither files nor the lock nor a run: it goes from
\* one await outside every section to another one, or ends.
LEMMA QuietKeeps ==
    ASSUME ServerInv, NEW r \in Requests, NEW l \in Other, NEW L \in Locals,
           pc[r] \in Other, pc[r] # "preEval.rows", l # "preEval.rows",
           pc' = [pc EXCEPT ![r] = l],
           loc' = [loc EXCEPT ![r] = L],
           l \in AtRow => L.on \in Students,
           l = "process.begin" => L.left # {},
           UNCHANGED <<files, chain, runs, seen>>
    PROVE  Keeps(r)
<1>1. Data'
  BY Facts DEF Data, files, runs, seen
<1>2. l \in Labels /\ Goes(r, l)
  BY Facts, OtherOutside DEF Goes, SameQueue, seen
<1>3. LeavesSlot(r, l)
  BY DEF LeavesSlot, runs
<1>4. InHand(r, l)
  BY Facts DEF InHand, Data
<1> QED
  BY <1>1, <1>2, <1>3, <1>4 DEF Keeps

----------------------------------------------------------------------------
(***************************************************************************)
(* Batch execution.                                                        *)
(***************************************************************************)
\* Which labels are sections and which are store calls is looked up by every
\* proof from here on.
USE DEF Labels, Other, Section, SectionMeta, SectionResults, BareMeta, BareResults,
        MetaCalls, ResultsCalls, Holding, AtRow

\* The locals of a handler at rest, and of one that has only a row.
LEMMA LocalsType ==
    /\ NoLocals \in Locals
    /\ \A L \in Locals :
          /\ \A S \in SUBSET Students : [L EXCEPT !.left = S] \in Locals
          /\ \A s \in Students : [L EXCEPT !.on = s] \in Locals
          /\ \A run \in Execution : [L EXCEPT !.run = run] \in Locals
          /\ \A row \in Submission : [L EXCEPT !.kept = row] \in Locals
BY NoSubmissionType, NoResultType DEF NoLocals, Locals

\* The records of a run in progress and of an idle one.
LEMMA ProgressType ==
    IdleRun \in Progress /\ \A n \in Nat : Begun(n) \in Progress /\ Begun(n).running
BY DEF IdleRun, Begun, Progress

\* A batch that has listed its targets has at least one.
LEMMA ProcessListKeeps ==
    ASSUME ServerInv, NEW b \in Requests, ProcessList(b)
    PROVE  Keeps(b)
<1> DEFINE l == "process.begin"
<1>1. PICK S \in SUBSET Students : S # {} /\ loc' = [loc EXCEPT ![b].left = S]
  BY DEF ProcessList, Runnable
<1>2. Data'
  BY <1>1, Facts, LocalsType DEF Data, ProcessList, files, runs, seen
<1>3. l \in Labels /\ Goes(b, l)
  BY Facts DEF ProcessList, Goes, GoTo, seen, SameQueue
<1>4. LeavesSlot(b, l)
  BY DEF ProcessList, LeavesSlot, GoTo, runs
<1>5. InHand(b, l)
  BY <1>1, Facts DEF InHand, Data, Locals
<1> QED
  BY <1>2, <1>3, <1>4, <1>5 DEF Keeps

\* It starts with the first of them, and joins the queue.
LEMMA ProcessBeginKeeps ==
    ASSUME ServerInv, NEW b \in Requests, ProcessBegin(b)
    PROVE  Keeps(b)
<1> DEFINE l == "process.start"
<1>1. loc[b].left \in SUBSET Students /\ loc[b].left # {}
  BY Facts DEF Data, Locals, ProcessBegin
<1>2. FirstOf(loc[b].left) \in Students /\ Cardinality(loc[b].left) \in Nat
  BY <1>1, FirstOfType, RowsCount
<1>3. Data'
  BY <1>2, Facts, LocalsType, ProgressType DEF Data, ProcessBegin, files, seen
<1>4. l \in Labels /\ Goes(b, l)
  BY Facts DEF ProcessBegin, Goes, GoTo, seen, Joins
<1>5. LeavesSlot(b, l)
  BY DEF ProcessBegin, LeavesSlot, GoTo
<1>6. InHand(b, l)
  BY <1>2, Facts DEF ProcessBegin, InHand, Data, Locals
<1> QED
  BY <1>3, <1>4, <1>5, <1>6 DEF Keeps

\* A throw nobody catches leaves the queue and ends the run.
LEMMA ProcessAbortKeeps ==
    ASSUME ServerInv, NEW b \in Requests, metaSeen[b] # {},
           pc[b] \in {"process.start", "process.caught"}, ProcessAbort(b)
    PROVE  Keeps(b)
<1> DEFINE l == "idle"
<1>1. Data'
  BY Facts, LocalsType, ProgressType DEF Data, ProcessAbort, LeaveMetadata, Finish, files
<1>2. l \in Labels /\ Goes(b, l)
  BY Facts DEF ProcessAbort, LeaveMetadata, Finish, Goes, Leaves, Data
<1>3. LeavesSlot(b, l)
  BY DEF ProcessAbort, LeavesSlot, Finish
<1>4. InHand(b, l)
  BY Facts DEF ProcessAbort, Finish, InHand, Data
<1> QED
  BY <1>1, <1>2, <1>3, <1>4 DEF Keeps

\* The last call of a row's section, whatever typed files it has written: the
\* handler is at its next row, or it leaves the lock and the run behind.
LEMMA ProcessNextKeeps ==
    ASSUME ServerInv, NEW b \in Requests, ProcessNext(b),
           pc[b] \in {"process.clearError", "process.storeFailure", "process.noteCaught"},
           Holds(b),
           meta' \in MetadataFile, results' \in ResultsFile, notebook' = notebook,
           \A c \in Actors \ {b} : metaSeen'[c] = metaSeen[c] /\ resultsSeen'[c] = resultsSeen[c],
           metaSeen' \in [Actors -> SUBSET MetadataFile],
           resultsSeen' \in [Actors -> SUBSET ResultsFile],
           metaSeen'[b] = {}, resultsSeen'[b] = {}
    PROVE  Keeps(b)
<1> DEFINE rest == loc[b].left \ {loc[b].on}
           count == loc[b].settled + 1
<1>0. rest \in SUBSET Students /\ count \in Nat
  BY Facts DEF Data, Locals
<1> DEFINE more == [NoLocals EXCEPT !.left = rest, !.on = FirstOf(rest), !.settled = count]
<1>1. CASE /\ rest # {}
           /\ loc' = [loc EXCEPT ![b] = more]
           /\ processRun' = [processRun EXCEPT !.done = count]
           /\ LeaveAndEnter(b)
           /\ GoTo(b, "process.start")
           /\ UNCHANGED evalRun
  <2> DEFINE l == "process.start"
  <2>1. FirstOf(rest) \in Students
    BY <1>0, <1>1, FirstOfType
  <2>2. more \in Locals /\ more.on \in Students
    BY <1>0, <2>1, NoSubmissionType, NoResultType DEF NoLocals, Locals
  <2> HIDE DEF more
  <2>3. Data'
    BY <1>0, <1>1, <2>2, Facts DEF Data, Progress
  <2>4. l \in Labels /\ Goes(b, l)
    BY <1>1, Facts DEF Goes, GoTo, JoinsAgain
  <2>5. LeavesSlot(b, l)
    BY <1>1 DEF LeavesSlot, GoTo
  <2>6. InHand(b, l)
    BY <1>1, <2>2, Facts DEF InHand, Data
  <2> QED
    BY <2>3, <2>4, <2>5, <2>6 DEF Keeps
<1>2. CASE rest = {} /\ processRun' = IdleRun /\ Leave /\ Finish(b) /\ UNCHANGED evalRun
  <2> DEFINE l == "idle"
  <2>1. Data'
    BY <1>2, Facts, LocalsType, ProgressType DEF Data, Finish
  <2>2. l \in Labels /\ Goes(b, l)
    BY <1>2, Facts DEF Goes, Finish, Leaves
  <2>3. LeavesSlot(b, l)
    BY <1>2 DEF LeavesSlot, Finish
  <2>4. InHand(b, l)
    BY <1>2, Facts DEF InHand, Data, Finish
  <2> QED
    BY <2>1, <2>2, <2>3, <2>4 DEF Keeps
<1> QED
  BY <1>1, <1>2 DEF ProcessNext

\* The section that marks a row executing: it leaves, or the batch ends.
LEMMA ProcessStartKeeps ==
    ASSUME ServerInv, NEW b \in Requests, ProcessStart(b)
    PROVE  Keeps(b)
<1>1. PICK f \in metaSeen[b] :
          \/ /\ WriteMetadata(b, SetStatus(f, loc[b].on, "executing"))
             /\ Leave
             /\ GoTo(b, "process.execute")
             /\ UNCHANGED <<loc, runs>>
          \/ ProcessAbort(b)
  BY DEF ProcessStart
<1>2. CASE ProcessAbort(b)
  BY <1>2, ProcessAbortKeeps DEF ProcessStart
<1>3. CASE /\ WriteMetadata(b, SetStatus(f, loc[b].on, "executing"))
           /\ Leave
           /\ GoTo(b, "process.execute")
           /\ UNCHANGED <<loc, runs>>
  <2> DEFINE l == "process.execute"
  <2>1. Data'
    BY <1>3, Facts, SetStatusType DEF Data, WriteMetadata, runs, Status
  <2>2. l \in Labels /\ Goes(b, l)
    BY <1>3, Facts DEF ProcessStart, Goes, GoTo, WriteMetadata, Leaves, Data
  <2>3. LeavesSlot(b, l)
    BY <1>3 DEF ProcessStart, LeavesSlot, GoTo, runs
  <2>4. InHand(b, l)
    BY <1>3, Facts DEF ProcessStart, InHand
  <2> QED
    BY <2>1, <2>2, <2>3, <2>4 DEF Keeps
<1> QED
  BY <1>1, <1>2, <1>3

\* The executor's answer is kept until the handler is in its next section,
LEMMA ProcessExecuteKeeps ==
    ASSUME ServerInv, NEW b \in Requests, ProcessExecute(b)
    PROVE  Keeps(b)
<1> DEFINE l == "process.answered"
<1>1. PICK run \in Execution : loc' = [loc EXCEPT ![b].run = run]
  <2>1. notebook[loc[b].on] # 0 => notebook[loc[b].on] \in 0 .. MaxVersion
    BY Facts DEF ProcessExecute, Data, InHand, AtRow, ServerInv
  <2>2. NoExecution \in Execution
    BY MaxVersionAssumption DEF NoExecution, Execution
  <2> QED
    BY <2>1, <2>2 DEF ProcessExecute, Execution
<1>2. Data'
  <2>1. loc \in [Actors -> Locals] /\ [loc[b] EXCEPT !.run = run] \in Locals
    BY Facts, LocalsType DEF Data
  <2>2. loc' = [loc EXCEPT ![b] = [loc[b] EXCEPT !.run = run]]
    BY <1>1
  <2>3. loc' \in [Actors -> Locals]
    BY <2>1, <2>2
  <2> QED
    BY <2>3, Facts DEF Data, ProcessExecute, files, runs, seen
<1>3. l \in Labels /\ Goes(b, l)
  BY Facts DEF ProcessExecute, Goes, GoTo, seen, SameQueue
<1>4. LeavesSlot(b, l)
  BY DEF ProcessExecute, LeavesSlot, GoTo, runs
<1>5. InHand(b, l)
  BY <1>1, Facts DEF ProcessExecute, InHand, Data, Locals
<1> QED
  BY <1>2, <1>3, <1>4, <1>5 DEF Keeps

\* and however it is, the handler joins the queue again.
LEMMA ProcessAnsweredKeeps ==
    ASSUME ServerInv, NEW b \in Requests, ProcessAnswered(b)
    PROVE  Keeps(b)
<1>1. PICK l \in {"process.executed", "process.failed", "process.caught"} : GoTo(b, l)
  BY DEF ProcessAnswered
<1>2. Data'
  BY Facts DEF Data, ProcessAnswered, files, runs, seen
<1>3. l \in Labels /\ Goes(b, l)
  BY <1>1, Facts DEF ProcessAnswered, Goes, GoTo, seen, Joins
<1>4. LeavesSlot(b, l)
  BY <1>1 DEF ProcessAnswered, LeavesSlot, GoTo, runs
<1>5. InHand(b, l)
  BY <1>1, Facts DEF ProcessAnswered, InHand
<1> QED
  BY <1>2, <1>3, <1>4, <1>5 DEF Keeps

\* A status set inside the inner try: the section goes on, or another begins.
LEMMA ProcessMarkKeeps ==
    ASSUME ServerInv, NEW b \in Requests, ProcessExecuted(b) \/ ProcessFailed(b)
    PROVE  Keeps(b)
<1>1. PICK from \in {"process.executed", "process.failed"}, to \in Status,
           next \in {"process.store", "process.noteFailure"} :
             /\ ProcessMark(b, from, to, next)
             /\ pc[b] = from
  BY DEF ProcessExecuted, ProcessFailed, ProcessMark, Status
<1>2. PICK f \in metaSeen[b] :
          \/ /\ WriteMetadata(b, SetStatus(f, loc[b].on, to))
             /\ GoTo(b, next)
             /\ UNCHANGED chain
          \/ /\ LeaveMetadata(b)
             /\ GoTo(b, "process.caught")
             /\ LeaveAndEnter(b)
  BY <1>1 DEF ProcessMark
<1>3. UNCHANGED <<loc, runs>>
  BY <1>1 DEF ProcessMark
<1>4. Data'
  <2>1. SetStatus(f, loc[b].on, to) \in MetadataFile
    BY Facts, SetStatusType DEF Data
  <2>2. CASE WriteMetadata(b, SetStatus(f, loc[b].on, to))
    BY <1>3, <2>1, <2>2, Facts DEF Data, WriteMetadata, runs
  <2>3. CASE LeaveMetadata(b)
    BY <1>3, <2>3, Facts DEF Data, LeaveMetadata, runs, files
  <2> QED
    BY <1>2, <2>2, <2>3
<1>5. CASE WriteMetadata(b, SetStatus(f, loc[b].on, to)) /\ GoTo(b, next) /\ UNCHANGED chain
  <2>1. next \in Labels /\ Goes(b, next)
    BY <1>1, <1>5, Facts DEF Goes, GoTo, WriteMetadata, SameQueue, Data
  <2>2. LeavesSlot(b, next)
    BY <1>1, <1>3, <1>5 DEF LeavesSlot, GoTo, runs
  <2>3. InHand(b, next)
    BY <1>1, <1>3, Facts DEF InHand
  <2> QED
    BY <1>4, <2>1, <2>2, <2>3 DEF Keeps
<1>6. CASE LeaveMetadata(b) /\ GoTo(b, "process.caught") /\ LeaveAndEnter(b)
  <2> DEFINE l == "process.caught"
  <2>1. l \in Labels /\ Goes(b, l)
    BY <1>1, <1>2, <1>6, Facts DEF Goes, GoTo, LeaveMetadata, JoinsAgain, Data
  <2>2. LeavesSlot(b, l)
    BY <1>1, <1>3, <1>6 DEF LeavesSlot, GoTo, runs
  <2>3. InHand(b, l)
    BY <1>1, <1>3, Facts DEF InHand
  <2> QED
    BY <1>4, <2>1, <2>2, <2>3 DEF Keeps
<1> QED
  BY <1>2, <1>5, <1>6

\* The first call of a section that records an outcome: setResult on success,
\* the upsert of the message on a cell error, the status in the catch block.
LEMMA ProcessRecordKeeps ==
    ASSUME ServerInv, NEW b \in Requests,
           ProcessStore(b) \/ ProcessNoteFailure(b) \/ ProcessCaught(b)
    PROVE  Keeps(b)
<1>1. CASE ProcessStore(b)
  <2> DEFINE l == "process.clearError"
  <2>1. PICK f \in resultsSeen[b] : WriteResults(b, SetResult(f, loc[b].on, loc[b].run))
    BY <1>1 DEF ProcessStore
  <2>2. f \in ResultsFile /\ loc[b].run \in Execution /\ loc[b].on \in Students
    BY <1>1, Facts DEF ProcessStore, Data, Locals
  <2>3. Data'
    BY <1>1, <2>1, <2>2, Facts, ResultsType DEF Data, ProcessStore, WriteResults, runs
  <2>4. l \in Labels /\ Goes(b, l)
    BY <1>1, <2>1, Facts DEF ProcessStore, Goes, GoTo, WriteResults, SameQueue, Data
  <2>5. LeavesSlot(b, l) /\ InHand(b, l)
    BY <1>1, <2>2 DEF ProcessStore, LeavesSlot, InHand, GoTo, runs
  <2> QED
    BY <2>3, <2>4, <2>5 DEF Keeps
<1>2. CASE ProcessNoteFailure(b)
  <2> DEFINE l == "process.storeFailure"
  <2>1. PICK f \in metaSeen[b] : WriteMetadata(b, UpsertError(f, loc[b].on, TRUE))
    BY <1>2 DEF ProcessNoteFailure
  <2>2. f \in MetadataFile /\ loc[b].on \in Students
    BY <1>2, Facts DEF ProcessNoteFailure, Data
  <2>3. Data'
    BY <1>2, <2>1, <2>2, Facts, UpsertType DEF Data, ProcessNoteFailure, WriteMetadata, runs
  <2>4. l \in Labels /\ Goes(b, l)
    BY <1>2, <2>1, Facts DEF ProcessNoteFailure, Goes, GoTo, WriteMetadata, SameQueue, Data
  <2>5. LeavesSlot(b, l) /\ InHand(b, l)
    BY <1>2, <2>2 DEF ProcessNoteFailure, LeavesSlot, InHand, GoTo, runs
  <2> QED
    BY <2>3, <2>4, <2>5 DEF Keeps
<1>3. CASE ProcessCaught(b)
  <2> DEFINE l == "process.noteCaught"
  <2>1. PICK f \in metaSeen[b] :
            \/ /\ WriteMetadata(b, SetStatus(f, loc[b].on, "error"))
               /\ GoTo(b, l)
               /\ UNCHANGED <<loc, chain, runs>>
            \/ ProcessAbort(b)
    BY <1>3 DEF ProcessCaught
  <2>2. CASE ProcessAbort(b)
    BY <1>3, <2>1, <2>2, ProcessAbortKeeps DEF ProcessCaught
  <2>3. CASE /\ WriteMetadata(b, SetStatus(f, loc[b].on, "error"))
             /\ GoTo(b, l)
             /\ UNCHANGED <<loc, chain, runs>>
    <3>1. Data'
      BY <2>3, Facts, SetStatusType DEF Data, WriteMetadata, runs, Status
    <3>2. l \in Labels /\ Goes(b, l)
      BY <1>3, <2>1, <2>3, Facts DEF ProcessCaught, Goes, GoTo, WriteMetadata, SameQueue, Data
    <3>3. LeavesSlot(b, l) /\ InHand(b, l)
      BY <1>3, <2>3, Facts DEF ProcessCaught, LeavesSlot, InHand, GoTo, runs
    <3> QED
      BY <3>1, <3>2, <3>3 DEF Keeps
  <2> QED
    BY <2>1, <2>2, <2>3
<1> QED
  BY <1>1, <1>2, <1>3

\* The last call of such a section goes on to the next row or ends the run.
LEMMA ProcessLastKeeps ==
    ASSUME ServerInv, NEW b \in Requests,
           ProcessClearError(b) \/ ProcessStoreFailure(b) \/ ProcessNoteCaught(b)
    PROVE  Keeps(b)
<1>1. CASE ProcessStoreFailure(b)
  <2>1. PICK f \in resultsSeen[b] : WriteResults(b, SetResult(f, loc[b].on, loc[b].run))
    BY <1>1 DEF ProcessStoreFailure
  <2>2. f \in ResultsFile /\ loc[b].run \in Execution /\ loc[b].on \in Students
    BY <1>1, Facts DEF ProcessStoreFailure, Data, Locals
  <2>3. SetResult(f, loc[b].on, loc[b].run) \in ResultsFile
    BY <2>2, ResultsType
  <2>4. metaSeen[b] = {}
    BY <1>1, Facts DEF ProcessStoreFailure
  <2> QED
    BY <1>1, <2>1, <2>3, <2>4, Facts, ProcessNextKeeps DEF ProcessStoreFailure, WriteResults, Data
<1>2. CASE ProcessClearError(b) \/ ProcessNoteCaught(b)
  <2>1. PICK f \in metaSeen[b], e \in BOOLEAN : WriteMetadata(b, UpsertError(f, loc[b].on, e))
    BY <1>2 DEF ProcessClearError, ProcessNoteCaught
  <2>2. f \in MetadataFile /\ loc[b].on \in Students
    BY <1>2, Facts DEF ProcessClearError, ProcessNoteCaught, Data
  <2>3. UpsertError(f, loc[b].on, e) \in MetadataFile
    BY <2>2, UpsertType
  <2>4. resultsSeen[b] = {}
    BY <1>2, Facts DEF ProcessClearError, ProcessNoteCaught
  <2> QED
    BY <1>2, <2>1, <2>3, <2>4, Facts, ProcessNextKeeps
    DEF ProcessClearError, ProcessNoteCaught, WriteMetadata, Data
<1> QED
  BY <1>1, <1>2

\* Batch execution as a whole.
LEMMA ProcessKeeps ==
    ASSUME ServerInv, NEW b \in Requests, ProcessStep(b)
    PROVE  Keeps(b)
BY ProcessBeginKeeps, ProcessStartKeeps, ProcessExecuteKeeps, ProcessAnsweredKeeps, ProcessMarkKeeps,
   ProcessRecordKeeps, ProcessLastKeeps DEF ProcessStep

----------------------------------------------------------------------------
(***************************************************************************)
(* Batch pre-evaluation.                                                   *)
(***************************************************************************)
\* A pre-evaluation is called and lists its rows.
LEMMA PreEvalArriveKeeps ==
    ASSUME ServerInv, NEW e \in Requests, PreEvalArrive(e) \/ PreEvalList(e)
    PROVE  Keeps(e)
<1>0. loc \in [Actors -> Locals] /\ e \in Actors
  BY Facts DEF Data
<1>1. CASE PreEvalArrive(e)
  <2>1. loc' = [loc EXCEPT ![e] = loc[e]]
    BY <1>0, <1>1 DEF PreEvalArrive
  <2>2. loc[e] \in Locals
    BY <1>0
  <2>3. /\ pc[e] = "idle" /\ pc' = [pc EXCEPT ![e] = "preEval.list"]
        /\ UNCHANGED <<files, chain, runs, seen>>
    BY <1>1 DEF PreEvalArrive, GoTo
  <2> QED
    BY <2>1, <2>2, <2>3, QuietKeeps
<1>2. CASE PreEvalList(e) /\ Finish(e)
  BY <1>0, <1>2, LocalsType, QuietKeeps DEF PreEvalList, Finish
<1>3. CASE PreEvalList(e) /\ loc' = [loc EXCEPT ![e].left = Evaluable] /\ GoTo(e, "preEval.begin")
  <2>1. [loc[e] EXCEPT !.left = Evaluable] \in Locals
    BY <1>0, LocalsType DEF Evaluable
  <2> QED
    BY <1>0, <1>3, <2>1, QuietKeeps DEF PreEvalList, GoTo
<1> QED
  BY <1>1, <1>2, <1>3 DEF PreEvalList

\* A worker's row that settles: the worker lets go of it, the request it works
\* for counts it.
LEMMA RowSettledType ==
    ASSUME ServerInv, NEW w \in Workers, NEW success, RowSettled(w, success)
    PROVE  /\ loc' \in [Actors -> Locals] /\ processRun' \in Progress /\ evalRun' \in Progress
           /\ evalRun'.running = evalRun.running
           /\ pc' = [pc EXCEPT ![w] = "row.next"]
           /\ InHand(w, "row.next")
<1>1. w \in Actors /\ w[1] \in Actors /\ w # w[1]
  BY ActorsAssumption DEF Actors, Workers
<1>2. Data
  BY Facts
<1>3. loc' \in [Actors -> Locals]
  <2> DEFINE L == loc[w[1]]
             M == [L EXCEPT !.settled = @ + 1, !.succeeded = IF success THEN @ + 1 ELSE @]
  <2>1. L \in Locals
    BY <1>1, <1>2 DEF Data
  <2>2. M \in Locals
    <3> DEFINE n == IF success THEN L.succeeded + 1 ELSE L.succeeded
    <3>1. L.settled + 1 \in Nat /\ L.succeeded \in Nat /\ L.succeeded + 1 \in Nat
      BY <2>1 DEF Locals
    <3>2. n \in Nat
      BY <3>1
    <3> HIDE DEF n
    <3>3. [L EXCEPT !.settled = L.settled + 1, !.succeeded = n] \in Locals
      BY <2>1, <3>1, <3>2 DEF Locals
    <3> QED
      BY <3>3 DEF n
  <2>3. loc' = [loc EXCEPT ![w] = NoLocals, ![w[1]] = M]
    BY <1>1, <1>2 DEF RowSettled, Data
  <2> HIDE DEF M
  <2> QED
    BY <1>1, <1>2, <2>2, <2>3, LocalsType DEF Data
<1>4. processRun' \in Progress /\ evalRun' \in Progress /\ evalRun'.running = evalRun.running
  <2>1. loc[w[1]].settled + 1 \in Nat
    BY <1>1, <1>2 DEF Data, Locals
  <2> QED
    BY <1>2, <2>1 DEF RowSettled, Data, Progress
<1>5. \A c \in Actors \ {w} : loc'[c].on = loc[c].on /\ loc'[c].left = loc[c].left
  BY <1>1, <1>2 DEF RowSettled, Data, Locals
<1> QED
  BY <1>3, <1>4, <1>5 DEF RowSettled, GoTo, InHand

\* A worker takes a row of its request, or is done.
LEMMA RowNextKeeps ==
    ASSUME ServerInv, NEW w \in Workers, RowNext(w)
    PROVE  Keeps(w)
<1>1. w \in Actors /\ w[1] \in Actors /\ w # w[1]
  BY ActorsAssumption DEF Actors, Workers
<1>2. Data /\ pc[w[1]] = "preEval.rows"
  BY Facts DEF RowNext, ServerInv, RunSlotExclusive
<1> DEFINE left == loc[w[1]].left
<1>3. left \in SUBSET Students
  BY <1>1, <1>2 DEF Data, Locals
<1>4. CASE /\ left # {}
           /\ loc' = [loc EXCEPT ![w[1]].left = left \ {FirstOf(left)}, ![w].on = FirstOf(left)]
           /\ GoTo(w, "row.look")
  <2>1. FirstOf(left) \in Students
    BY <1>3, <1>4, FirstOfType
  <2>2. loc' \in [Actors -> Locals]
    <3> DEFINE L == [loc[w[1]] EXCEPT !.left = left \ {FirstOf(left)}]
               M == [loc[w] EXCEPT !.on = FirstOf(left)]
    <3>1. L \in Locals /\ M \in Locals
      BY <1>1, <1>2, <1>3, <2>1, LocalsType DEF Data
    <3>2. loc' = [loc EXCEPT ![w[1]] = L, ![w] = M]
      BY <1>1, <1>2, <1>4 DEF Data
    <3> HIDE DEF L, M
    <3> QED
      BY <1>1, <1>2, <3>1, <3>2 DEF Data
  <2>3. Data'
    BY <1>2, <2>2 DEF Data, RowNext, files, runs, seen
  <2>4. Goes(w, "row.look")
    BY <1>1, <1>4, Facts DEF RowNext, Goes, GoTo, SameQueue, seen
  <2>5. LeavesSlot(w, "row.look")
    BY <1>4 DEF RowNext, LeavesSlot, GoTo, runs
  <2>6. InHand(w, "row.look")
    BY <1>1, <1>2, <1>4, <2>1 DEF InHand, Data, Locals
  <2> QED
    BY <2>3, <2>4, <2>5, <2>6 DEF Keeps
<1>5. CASE Finish(w)
  <2>1. Data'
    BY <1>1, <1>2, <1>5, LocalsType DEF Data, Finish, RowNext, files, runs, seen
  <2>2. Goes(w, "idle")
    BY <1>1, <1>5, Facts DEF RowNext, Goes, Finish, SameQueue, seen
  <2>3. LeavesSlot(w, "idle") /\ InHand(w, "idle")
    BY <1>1, <1>2, <1>5 DEF RowNext, LeavesSlot, InHand, Finish, runs, Data
  <2> QED
    BY <2>1, <2>2, <2>3 DEF Keeps
<1> QED
  BY <1>4, <1>5 DEF RowNext

\* A worker looks at the result and asks the model; only an answer leads it
\* into the queue.
LEMMA RowAskKeeps ==
    ASSUME ServerInv, NEW w \in Workers, RowLook(w) \/ RowAsk(w)
    PROVE  Keeps(w)
<1>1. w \in Actors /\ pc[w] \in {"row.look", "row.ask"} /\ UNCHANGED files /\ UNCHANGED seen
  BY DEF Actors, RowLook, RowAsk
<1>2. Data /\ metaSeen[w] = {} /\ resultsSeen[w] = {} /\ loc[w].on \in Students
  BY <1>1, Facts
<1>3. ASSUME NEW success, RowSettled(w, success), UNCHANGED chain PROVE Keeps(w)
  <2>1. Data'
    BY <1>1, <1>2, <1>3, RowSettledType DEF Data, files, seen
  <2>2. Goes(w, "row.next")
    BY <1>1, <1>2, <1>3, RowSettledType, Facts DEF Goes, SameQueue, seen
  <2>3. LeavesSlot(w, "row.next") /\ InHand(w, "row.next")
    BY <1>1, <1>3, RowSettledType DEF LeavesSlot
  <2> QED
    BY <2>1, <2>2, <2>3 DEF Keeps
<1>4. CASE /\ RowLook(w) /\ GoTo(w, "row.ask") /\ UNCHANGED runs
           /\ loc' = [loc EXCEPT ![w].run = results[loc[w].on].run]
  <2>1. results[loc[w].on].run \in Execution
    BY <1>2 DEF Data, ResultsFile, Result
  <2>2. [loc[w] EXCEPT !.run = results[loc[w].on].run] \in Locals
    BY <1>1, <1>2, <2>1, LocalsType DEF Data
  <2>3. Data'
    BY <1>1, <1>2, <1>4, <2>2 DEF Data, files, runs, seen
  <2>4. Goes(w, "row.ask")
    BY <1>1, <1>2, <1>4, Facts DEF RowLook, Goes, GoTo, SameQueue, seen
  <2>5. LeavesSlot(w, "row.ask")
    BY <1>1, <1>4 DEF LeavesSlot, GoTo, runs
  <2>6. InHand(w, "row.ask")
    BY <1>1, <1>2, <1>4 DEF InHand, Data, Locals
  <2> QED
    BY <2>3, <2>4, <2>5, <2>6 DEF Keeps
<1>5. CASE RowAsk(w) /\ Enter(w) /\ GoTo(w, "row.store") /\ UNCHANGED <<loc, runs>>
  <2>1. Data'
    BY <1>1, <1>2, <1>5 DEF Data, files, runs, seen
  <2>2. Goes(w, "row.store")
    BY <1>1, <1>2, <1>5, Facts DEF Goes, GoTo, Joins, seen
  <2>3. LeavesSlot(w, "row.store") /\ InHand(w, "row.store")
    BY <1>1, <1>2, <1>5 DEF LeavesSlot, InHand, GoTo, runs
  <2> QED
    BY <2>1, <2>2, <2>3 DEF Keeps
<1> QED
  BY <1>3, <1>4, <1>5 DEF RowLook, RowAsk

\* The section that stores an envelope and flips the row.
LEMMA RowStoreKeeps ==
    ASSUME ServerInv, NEW w \in Workers, RowStore(w) \/ RowFlip(w)
    PROVE  Keeps(w)
<1>1. w \in Actors /\ pc[w] \in {"row.store", "row.flip"}
  BY DEF Actors, RowStore, RowFlip
<1>2. Data /\ loc[w].on \in Students /\ loc[w].run \in Execution
  BY <1>1, Facts DEF Data, Locals
<1>3. CASE RowStore(w)
  <2>1. PICK f \in resultsSeen[w] :
            \/ /\ WriteResults(w, SetPreEvaluation(f, loc[w].on, loc[w].run))
               /\ GoTo(w, "row.flip")
               /\ UNCHANGED <<chain, loc, runs>>
            \/ /\ LeaveResults(w)
               /\ Leave
               /\ RowSettled(w, FALSE)
    BY <1>3 DEF RowStore
  <2>2. Holds(w) /\ metaSeen[w] = {} /\ SetPreEvaluation(f, loc[w].on, loc[w].run) \in ResultsFile
    BY <1>1, <1>2, <1>3, <2>1, Facts, ResultsType DEF RowStore, Data
  <2>3. CASE /\ WriteResults(w, SetPreEvaluation(f, loc[w].on, loc[w].run))
             /\ GoTo(w, "row.flip")
             /\ UNCHANGED <<chain, loc, runs>>
    <3>1. Data'
      BY <1>1, <1>2, <2>2, <2>3 DEF Data, WriteResults, runs
    <3>2. Goes(w, "row.flip")
      BY <1>1, <1>2, <1>3, <2>2, <2>3 DEF RowStore, Goes, GoTo, WriteResults, SameQueue, Data
    <3>3. LeavesSlot(w, "row.flip") /\ InHand(w, "row.flip")
      BY <1>1, <1>2, <2>3 DEF LeavesSlot, InHand, GoTo, runs
    <3> QED
      BY <3>1, <3>2, <3>3 DEF Keeps
  <2>4. CASE LeaveResults(w) /\ Leave /\ RowSettled(w, FALSE)
    <3>1. Data'
      BY <1>1, <1>2, <2>4, RowSettledType DEF Data, LeaveResults, files
    <3>2. Goes(w, "row.next")
      BY <1>1, <1>2, <1>3, <2>2, <2>4, RowSettledType DEF RowStore, Goes, LeaveResults, Leaves, Data
    <3>3. LeavesSlot(w, "row.next") /\ InHand(w, "row.next")
      BY <1>1, <2>4, RowSettledType DEF LeavesSlot
    <3> QED
      BY <3>1, <3>2, <3>3 DEF Keeps
  <2> QED
    BY <2>1, <2>3, <2>4
<1>4. CASE RowFlip(w)
  <2>1. PICK f \in metaSeen[w], success \in BOOLEAN :
            /\ \/ WriteMetadata(w, SetStatus(f, loc[w].on, "pre-evaluated"))
               \/ LeaveMetadata(w)
            /\ RowSettled(w, success)
    BY <1>4 DEF RowFlip
  <2>2. SetStatus(f, loc[w].on, "pre-evaluated") \in MetadataFile
    BY <1>1, <1>2, SetStatusType DEF Data, Status
  <2>3. /\ meta' \in MetadataFile /\ results' = results /\ notebook' = notebook
        /\ metaSeen' = [metaSeen EXCEPT ![w] = {}] /\ resultsSeen' = resultsSeen
    BY <1>2, <2>1, <2>2 DEF WriteMetadata, LeaveMetadata, files, Data
  <2>4. Data'
    BY <1>1, <1>2, <2>1, <2>3, RowSettledType DEF Data
  <2>5. Goes(w, "row.next")
    <3>1. Holds(w) /\ resultsSeen[w] = {} /\ pc' = [pc EXCEPT ![w] = "row.next"]
      BY <1>1, <1>4, <2>1, Facts, RowSettledType DEF RowFlip
    <3> QED
      BY <1>1, <1>2, <1>4, <2>3, <3>1 DEF RowFlip, Goes, Leaves, Data
  <2>6. LeavesSlot(w, "row.next") /\ InHand(w, "row.next")
    BY <1>1, <2>1, RowSettledType DEF LeavesSlot
  <2> QED
    BY <2>4, <2>5, <2>6 DEF Keeps
<1> QED
  BY <1>3, <1>4

\* A worker as a whole.
LEMMA WorkKeeps ==
    ASSUME ServerInv, NEW w \in Workers, WorkerStep(w)
    PROVE  Keeps(w)
BY RowNextKeeps, RowAskKeeps, RowStoreKeeps DEF WorkerStep

\* Without a run every worker is at rest, so a request that claims the slot is
\* its only owner, and the workers it starts are its own.
LEMMA PreEvalBeginKeeps ==
    ASSUME ServerInv, NEW e \in Requests, PreEvalBegin(e)
    PROVE  ServerInv'
<1>1. e \in Actors /\ loc \in [Actors -> Locals] /\ pc \in [Actors -> Labels]
  BY Facts DEF Data
<1>2. CASE Finish(e) /\ UNCHANGED evalRun
  <2>1. Keeps(e)
    BY <1>1, <1>2, LocalsType, QuietKeeps DEF PreEvalBegin, Finish, runs
  <2> QED
    BY <1>1, <2>1, KeepsInv
<1>3. CASE /\ ~evalRun.running
           /\ evalRun' = Begun(Cardinality(loc[e].left))
           /\ pc' = [a \in Actors |-> IF a = e THEN "preEval.rows"
                                      ELSE IF a \in Started(e) THEN "row.next" ELSE pc[a]]
           /\ UNCHANGED loc
  <2>1. \A w \in Workers : w \notin Requests /\ w[1] \in Requests /\ pc[w] = "idle"
    BY <1>3, ActorsAssumption DEF ServerInv, RunSlotExclusive, Workers
  <2>2. Started(e) \subseteq Workers /\ \A w \in Started(e) : w[1] = e
    BY DEF Started
  <2>3. Cardinality(loc[e].left) \in Nat
    BY <1>1, RowsCount DEF Locals
  <2>4. pc' \in [Actors -> Labels] /\ Data' /\ evalRun'.running
    BY <1>1, <1>3, <2>3, Facts, ProgressType DEF Data, PreEvalBegin, files, seen
  <2>5. \A a \in Actors : pc'[a] = pc[a] \/ (pc[a] \in Other /\ pc'[a] \in Other \ AtRow /\ pc'[a] # "process.begin")
    BY <1>1, <1>3, <2>1, <2>2 DEF PreEvalBegin
  <2>6. TypeOK' /\ AtHand'
    BY <1>3, <2>4, <2>5 DEF PreEvalBegin, ServerInv, TypeOK, Data, AtHand
  <2>7. SectionsQueued'
    <3>1. \A a \in Actors : pc'[a] = pc[a] \/ (/\ pc[a] \notin Section \cup MetaCalls \cup Holding
                                              /\ pc'[a] \notin Section)
      BY <2>5, OtherOutside
    <3> HIDE DEF Section, MetaCalls, Holding
    <3> QED
      BY <3>1 DEF PreEvalBegin, seen, ServerInv, SectionsQueued, InQueue, MayRun, Holds
  <2>8. RunSlotExclusive'
    BY <1>1, <1>3, <2>1, <2>2, <2>4 DEF ServerInv, RunSlotExclusive, Actors
  <2> QED
    BY <2>6, <2>7, <2>8 DEF ServerInv
<1> QED
  BY <1>2, <1>3 DEF PreEvalBegin

\* The run ends when its workers are at rest, and the slot is free.
LEMMA PreEvalEndKeeps ==
    ASSUME ServerInv, NEW e \in Requests, PreEvalEnd(e)
    PROVE  ServerInv'
<1>1. e \in Actors /\ Data /\ chain \in Seq(Actors) /\ pc \in [Actors -> Labels]
  BY Facts
<1>2. PICK l \in {"calibrate", "idle"} : /\ pc' = [pc EXCEPT ![e] = l]
                                        /\ loc' = [loc EXCEPT ![e] = NoLocals]
  BY DEF PreEvalEnd, Finish, GoTo
<1>3. Data' /\ ~evalRun'.running
  BY <1>1, <1>2, LocalsType, ProgressType DEF Data, PreEvalEnd, files, seen, IdleRun
<1>4. TypeOK' /\ AtHand'
  BY <1>1, <1>2, <1>3 DEF PreEvalEnd, ServerInv, TypeOK, Data, AtHand
<1>5. SectionsQueued'
  <2>1. Goes(e, l)
    BY <1>1, <1>2, Facts DEF PreEvalEnd, Goes, SameQueue, seen
  <2> QED
    BY <1>1, <1>2, <2>1, GoesKeepsQueue DEF ServerInv
<1>6. RunSlotExclusive'
  <2>1. \A w \in Workers : w[1] = e => pc[w] = "idle"
    <3> SUFFICES ASSUME NEW w \in Workers, w[1] = e PROVE pc[w] = "idle"
      OBVIOUS
    <3>1. PICK i \in 1 .. Concurrency : w = <<e, i>>
      BY DEF Workers
    <3> QED
      BY <3>1 DEF PreEvalEnd
  <2>2. \A w \in Workers : w \notin Requests /\ w[1] \in Requests
    BY ActorsAssumption DEF Workers
  <2> QED
    BY <1>1, <1>2, <1>3, <2>1, <2>2 DEF PreEvalEnd, ServerInv, RunSlotExclusive, Actors
<1> QED
  BY <1>4, <1>5, <1>6 DEF ServerInv

\* The calibration, outside the lock and after the run.
LEMMA CalibrateKeeps ==
    ASSUME ServerInv, NEW e \in Requests, CalibrateCohort(e)
    PROVE  Keeps(e)
<1>1. e \in Actors /\ Data /\ metaSeen[e] = {}
  BY Facts DEF CalibrateCohort
<1>2. PICK f \in resultsSeen[e] :
          \/ \E S \in SUBSET Students : WriteResults(e, Calibrate(f, S))
          \/ LeaveResults(e)
  BY DEF CalibrateCohort
<1>3. /\ results' \in ResultsFile /\ meta' = meta /\ notebook' = notebook
      /\ resultsSeen' = [resultsSeen EXCEPT ![e] = {}] /\ metaSeen' = metaSeen
  <2>1. f \in ResultsFile
    BY <1>1 DEF Data
  <2>2. CASE LeaveResults(e)
    BY <1>1, <2>2 DEF LeaveResults, files, Data
  <2>3. ASSUME NEW S \in SUBSET Students, WriteResults(e, Calibrate(f, S))
        PROVE  /\ results' \in ResultsFile /\ meta' = meta /\ notebook' = notebook
              /\ resultsSeen' = [resultsSeen EXCEPT ![e] = {}] /\ metaSeen' = metaSeen
    BY <2>1, <2>3, CohortType DEF WriteResults
  <2> QED
    BY <1>2, <2>2, <2>3
<1>4. Data'
  BY <1>1, <1>3, LocalsType DEF Data, CalibrateCohort, Finish, runs
<1>5. Goes(e, "idle")
  BY <1>1, <1>3, Facts DEF CalibrateCohort, Finish, Goes, SameQueue, Data
<1>6. LeavesSlot(e, "idle") /\ InHand(e, "idle")
  BY <1>1 DEF CalibrateCohort, Finish, LeavesSlot, InHand, runs, Data
<1> QED
  BY <1>4, <1>5, <1>6 DEF Keeps

----------------------------------------------------------------------------
(***************************************************************************)
(* Reset of pre-evaluations.                                               *)
(***************************************************************************)
\* A reset joins the queue, unless there is nothing to reset.
LEMMA ResetPreEnterKeeps ==
    ASSUME ServerInv, NEW x \in Requests, NEW targets \in SUBSET Students,
           pc[x] \in {"resetPre.list", "resetPre.pick"},
           ResetPreEnter(x, targets), UNCHANGED <<files, runs, seen>>
    PROVE  Keeps(x)
<1>1. x \in Actors /\ Data /\ metaSeen[x] = {} /\ resultsSeen[x] = {}
  BY Facts
<1>2. CASE Finish(x) /\ UNCHANGED chain
  BY <1>1, <1>2, LocalsType, QuietKeeps DEF Finish
<1>3. CASE /\ loc' = [loc EXCEPT ![x].left = targets, ![x].targets = targets]
           /\ Enter(x)
           /\ GoTo(x, "resetPre.load")
  <2>1. [loc[x] EXCEPT !.left = targets, !.targets = targets] \in Locals
    BY <1>1 DEF Data, Locals
  <2>2. Data'
    BY <1>1, <1>3, <2>1 DEF Data, files, runs, seen
  <2>3. Goes(x, "resetPre.load")
    BY <1>1, <1>3, Facts DEF Goes, GoTo, Joins, seen
  <2>4. LeavesSlot(x, "resetPre.load") /\ InHand(x, "resetPre.load")
    BY <1>1, <1>3 DEF LeavesSlot, InHand, GoTo, runs, Data
  <2> QED
    BY <2>2, <2>3, <2>4 DEF Keeps
<1> QED
  BY <1>2, <1>3 DEF ResetPreEnter

\* A reset is called, lists the rows, and looks for envelopes.
LEMMA ResetPreListKeeps ==
    ASSUME ServerInv, NEW x \in Requests,
           ResetPreArrive(x) \/ ResetPreList(x) \/ ResetPrePick(x)
    PROVE  Keeps(x)
<1>1. x \in Actors /\ Data /\ loc[x] \in Locals
  BY Facts DEF Data
<1>2. CASE ResetPreArrive(x)
  <2>1. loc' = [loc EXCEPT ![x] = loc[x]]
    BY <1>1, <1>2 DEF ResetPreArrive, Data
  <2>2. /\ pc[x] \in Other /\ pc[x] # "preEval.rows" /\ "resetPre.list" \in Other \ AtRow
        /\ pc' = [pc EXCEPT ![x] = "resetPre.list"] /\ UNCHANGED <<files, chain, runs, seen>>
    BY <1>2 DEF ResetPreArrive, GoTo
  <2> HIDE DEF Other, AtRow
  <2> QED
    BY <1>1, <2>1, <2>2, QuietKeeps
<1>3. CASE ResetPrePick(x)
  <2> DEFINE T == loc[x].targets \cup {s \in loc[x].left : HasPreEval(results, s)}
  <2>1. T \in SUBSET Students
    BY <1>1 DEF Locals
  <2>2. ResetPreEnter(x, T) /\ pc[x] = "resetPre.pick" /\ UNCHANGED <<files, runs, seen>>
    BY <1>3 DEF ResetPrePick
  <2> HIDE DEF T
  <2> QED
    BY <2>1, <2>2, ResetPreEnterKeeps
<1>4. CASE ResetPreList(x)
  <2> DEFINE rows == {s \in Students : Exists(meta, s)}
             evaluated == {s \in rows : meta[s].status = "pre-evaluated"}
  <2>1. ASSUME NEW ids \in SUBSET Students, ResetPreEnter(x, ids \cap rows) PROVE Keeps(x)
    <3>1. ids \cap rows \in SUBSET Students /\ pc[x] = "resetPre.list" /\ UNCHANGED <<files, runs, seen>>
      BY <1>4 DEF ResetPreList
    <3> HIDE DEF rows
    <3> QED
      BY <2>1, <3>1, ResetPreEnterKeeps
  <2>2. CASE /\ loc' = [loc EXCEPT ![x].left = rows, ![x].targets = evaluated]
             /\ GoTo(x, "resetPre.pick")
             /\ UNCHANGED chain
    <3>1. [loc[x] EXCEPT !.left = rows, !.targets = evaluated] \in Locals
      BY <1>1 DEF Locals
    <3>2. loc' = [loc EXCEPT ![x] = [loc[x] EXCEPT !.left = rows, !.targets = evaluated]]
      BY <1>1, <2>2 DEF Data
    <3> QED
      BY <1>4, <2>2, <3>1, <3>2, QuietKeeps DEF ResetPreList, GoTo
  <2> QED
    BY <1>4, <2>1, <2>2 DEF ResetPreList
<1> QED
  BY <1>2, <1>3, <1>4

\* The section of a reset: its snapshot of results.json is taken at the head
\* of the queue and held there.
LEMMA ResetPreSectionKeeps ==
    ASSUME ServerInv, NEW x \in Requests,
           ResetPreLoad(x) \/ ResetPreFlip(x) \/ ResetPreWrite(x)
    PROVE  Keeps(x)
<1>1. x \in Actors /\ Data /\ loc[x] \in Locals
  BY Facts DEF Data
<1>2. CASE ResetPreLoad(x)
  <2>1. Data'
    BY <1>1, <1>2 DEF Data, ResetPreLoad, files, runs
  <2>2. Goes(x, "resetPre.flip")
    BY <1>1, <1>2, Facts DEF ResetPreLoad, Goes, GoTo, SameQueue, Data
  <2>3. LeavesSlot(x, "resetPre.flip") /\ InHand(x, "resetPre.flip")
    BY <1>1, <1>2 DEF ResetPreLoad, LeavesSlot, InHand, GoTo, runs
  <2> QED
    BY <2>1, <2>2, <2>3 DEF Keeps
<1>3. CASE ResetPreFlip(x)
  <2> DEFINE s == FirstOf(loc[x].left)
  <2>1. PICK f \in metaSeen[x] :
            \/ /\ WriteMetadata(x, SetStatus(f, s, "executed"))
               /\ loc' = [loc EXCEPT ![x].left = @ \ {s}]
               /\ GoTo(x, IF loc[x].left = {s} THEN "resetPre.write" ELSE "resetPre.flip")
               /\ UNCHANGED chain
            \/ /\ metaSeen' = [metaSeen EXCEPT ![x] = {}]
               /\ resultsSeen' = [resultsSeen EXCEPT ![x] = {}]
               /\ Leave
               /\ Finish(x)
               /\ UNCHANGED files
    BY <1>3 DEF ResetPreFlip
  <2>2. Holds(x) /\ SetStatus(f, s, "executed") \in MetadataFile
    BY <1>1, <1>3, <2>1, Facts, SetStatusType DEF ResetPreFlip, Data, Status
  <2>3. CASE /\ WriteMetadata(x, SetStatus(f, s, "executed"))
             /\ loc' = [loc EXCEPT ![x].left = @ \ {s}]
             /\ GoTo(x, IF loc[x].left = {s} THEN "resetPre.write" ELSE "resetPre.flip")
             /\ UNCHANGED chain
    <3> DEFINE l == IF loc[x].left = {s} THEN "resetPre.write" ELSE "resetPre.flip"
               L == [loc[x] EXCEPT !.left = @ \ {s}]
    <3>0. l \in {"resetPre.write", "resetPre.flip"} /\ L \in Locals
      BY <1>1, LocalsType DEF Locals
    <3>1. loc' = [loc EXCEPT ![x] = L] /\ pc' = [pc EXCEPT ![x] = l]
      BY <1>1, <2>3 DEF Data, GoTo
    <3> HIDE DEF l, L, s
    <3>2. Data'
      BY <1>1, <1>3, <2>2, <2>3, <3>0, <3>1 DEF Data, ResetPreFlip, WriteMetadata, runs
    <3>3. l \in Labels /\ Goes(x, l)
      BY <1>1, <1>3, <2>2, <2>3, <3>0, <3>1 DEF ResetPreFlip, Goes, WriteMetadata, SameQueue, Data
    <3>4. LeavesSlot(x, l) /\ InHand(x, l)
      BY <1>1, <1>3, <3>0, <3>1 DEF ResetPreFlip, LeavesSlot, InHand, runs, Data
    <3> QED
      BY <3>2, <3>3, <3>4 DEF Keeps
  <2>4. CASE /\ metaSeen' = [metaSeen EXCEPT ![x] = {}]
             /\ resultsSeen' = [resultsSeen EXCEPT ![x] = {}]
             /\ Leave
             /\ Finish(x)
             /\ UNCHANGED files
    <3>1. Data'
      BY <1>1, <1>3, <2>4, LocalsType DEF Data, ResetPreFlip, Finish, files, runs
    <3>2. Goes(x, "idle")
      BY <1>1, <1>3, <2>2, <2>4 DEF ResetPreFlip, Goes, Finish, Leaves, Data
    <3>3. LeavesSlot(x, "idle") /\ InHand(x, "idle")
      BY <1>1, <1>3, <2>4 DEF ResetPreFlip, LeavesSlot, InHand, Finish, runs, Data
    <3> QED
      BY <3>1, <3>2, <3>3 DEF Keeps
  <2> QED
    BY <2>1, <2>3, <2>4
<1>4. CASE ResetPreWrite(x)
  <2>1. PICK f \in resultsSeen[x] :
            \/ WriteResults(x, DropPreEval(f, loc[x].targets))
            \/ LeaveResults(x)
    BY <1>4 DEF ResetPreWrite
  <2>2. Holds(x) /\ metaSeen[x] = {} /\ DropPreEval(f, loc[x].targets) \in ResultsFile
    BY <1>1, <1>4, <2>1, Facts, CohortType DEF ResetPreWrite, Data, Locals
  <2>3. /\ results' \in ResultsFile /\ meta' = meta /\ notebook' = notebook
        /\ resultsSeen' = [resultsSeen EXCEPT ![x] = {}] /\ metaSeen' = metaSeen
    BY <1>1, <2>1, <2>2 DEF WriteResults, LeaveResults, files, Data
  <2>4. Data'
    BY <1>1, <1>4, <2>3, LocalsType DEF Data, ResetPreWrite, Finish, runs
  <2>5. Goes(x, "idle")
    BY <1>1, <1>4, <2>2, <2>3 DEF ResetPreWrite, Goes, Finish, Leaves, Data
  <2>6. LeavesSlot(x, "idle") /\ InHand(x, "idle")
    BY <1>1, <1>4 DEF ResetPreWrite, LeavesSlot, InHand, Finish, runs, Data
  <2> QED
    BY <2>4, <2>5, <2>6 DEF Keeps
<1> QED
  BY <1>2, <1>3, <1>4

----------------------------------------------------------------------------
(***************************************************************************)
(* The routes on one row.                                                  *)
(***************************************************************************)
HIDE DEF Labels, Other, Section, SectionMeta, SectionResults, BareMeta, BareResults,
         MetaCalls, ResultsCalls, Holding, AtRow

\* The store calls outside the lock.
LEMMA BareOutside ==
    /\ \A l \in BareMeta : /\ l \in Labels \ Section /\ l \notin Holding
                           /\ l \in AtRow /\ l # "preEval.rows" /\ l # "process.begin"
    /\ \A l \in BareResults : /\ l \in Labels \ Section /\ l \notin MetaCalls
                              /\ l # "preEval.rows" /\ l # "process.begin"
BY DEF Labels, Other, Section, SectionMeta, SectionResults, BareMeta, BareResults,
       MetaCalls, ResultsCalls, Holding, AtRow

\* A call outside the lock ends: a file is written, or none, and the route goes
\* on to a label outside the lock.
LEMMA CallKeeps ==
    ASSUME ServerInv, NEW t \in Requests, NEW l \in Labels \ Section, NEW L \in Locals,
           pc[t] \in BareMeta \cup BareResults, l # "preEval.rows", l # "process.begin",
           pc' = [pc EXCEPT ![t] = l],
           loc' = [loc EXCEPT ![t] = L],
           l \in AtRow => L.on \in Students,
           meta' \in MetadataFile, results' \in ResultsFile, notebook' = notebook,
           metaSeen' = [metaSeen EXCEPT ![t] = {}],
           resultsSeen' = [resultsSeen EXCEPT ![t] = {}],
           UNCHANGED <<chain, runs>>
    PROVE  Keeps(t)
<1>1. Data'
  BY Facts DEF Data, runs
<1>2. Goes(t, l)
  BY Facts, BareOutside DEF Goes, SameQueue, Data
<1>3. LeavesSlot(t, l)
  BY BareOutside DEF LeavesSlot, runs
<1>4. InHand(t, l)
  BY Facts DEF InHand, Data
<1> QED
  BY <1>1, <1>2, <1>3, <1>4 DEF Keeps

\* What a metadata call outside the lock does to the files and snapshots.
LEMMA BareMetaCall ==
    ASSUME ServerInv, NEW t \in Requests, pc[t] \in BareMeta, NEW file \in MetadataFile,
           WriteMetadata(t, file) \/ LeaveMetadata(t)
    PROVE  /\ meta' \in MetadataFile /\ results' \in ResultsFile /\ notebook' = notebook
           /\ metaSeen' = [metaSeen EXCEPT ![t] = {}]
           /\ resultsSeen' = [resultsSeen EXCEPT ![t] = {}]
<1>1. resultsSeen[t] = {} /\ t \in Actors /\ Data
  BY Facts, BareOutside
<1>2. resultsSeen = [resultsSeen EXCEPT ![t] = {}]
  BY <1>1 DEF Data
<1> QED
  BY <1>1, <1>2 DEF Data, WriteMetadata, LeaveMetadata, files

\* The same for a results call outside the lock.
LEMMA BareResultsCall ==
    ASSUME ServerInv, NEW t \in Requests, pc[t] \in BareResults, NEW file \in ResultsFile,
           WriteResults(t, file) \/ LeaveResults(t)
    PROVE  /\ meta' \in MetadataFile /\ results' \in ResultsFile /\ notebook' = notebook
           /\ metaSeen' = [metaSeen EXCEPT ![t] = {}]
           /\ resultsSeen' = [resultsSeen EXCEPT ![t] = {}]
<1>1. metaSeen[t] = {} /\ t \in Actors /\ Data
  BY Facts, BareOutside
<1>2. metaSeen = [metaSeen EXCEPT ![t] = {}]
  BY <1>1 DEF Data
<1> QED
  BY <1>1, <1>2 DEF Data, WriteResults, LeaveResults, files

\* The labels a route of this kind goes to.
LEMMA Destinations ==
    /\ \A l \in BareMeta \cup BareResults \cup {"idle", "run.execute"} :
          l \in Labels \ Section /\ l # "preEval.rows" /\ l # "process.begin"
    /\ "idle" \notin AtRow
BY DEF Labels, Other, Section, SectionMeta, SectionResults, BareMeta, BareResults, AtRow

\* A call that ends its route.
LEMMA AttemptLastKeeps ==
    ASSUME ServerInv, NEW t \in Requests, NEW ok, NEW file \in MetadataFile,
           pc[t] \in BareMeta, AttemptLast(t, ok, file), UNCHANGED <<chain, runs>>
    PROVE  Keeps(t)
<1>1. WriteMetadata(t, file) \/ LeaveMetadata(t)
  BY DEF AttemptLast
<1> QED
  BY <1>1, BareMetaCall, LocalsType, Destinations, CallKeeps DEF AttemptLast, Finish

\* A call after which the route goes on, or ends because the call throws.
LEMMA AttemptKeeps ==
    ASSUME ServerInv, NEW t \in Requests, NEW ok, NEW file \in MetadataFile,
           NEW next \in BareMeta \cup BareResults,
           pc[t] \in BareMeta, Attempt(t, ok, file, next), UNCHANGED <<chain, runs>>
    PROVE  Keeps(t)
<1>1. WriteMetadata(t, file) \/ LeaveMetadata(t)
  BY DEF Attempt
<1>2. loc \in [Actors -> Locals] /\ t \in Actors /\ loc[t].on \in Students
  BY Facts, BareOutside DEF Data
<1>3. CASE GoTo(t, next) /\ UNCHANGED loc
  <2>1. loc' = [loc EXCEPT ![t] = loc[t]]
    BY <1>2, <1>3
  <2> QED
    BY <1>1, <1>2, <1>3, <2>1, BareMetaCall, Destinations, CallKeeps DEF GoTo
<1>4. CASE Finish(t)
  BY <1>1, <1>4, BareMetaCall, LocalsType, Destinations, CallKeeps DEF Finish
<1> QED
  BY <1>3, <1>4 DEF Attempt

\* Save, grade, reset and import.
LEMMA GradingKeeps ==
    ASSUME ServerInv, NEW t \in Requests,
           Save(t) \/ GradeStatus(t) \/ GradeMark(t) \/ Reset(t) \/ ImportUpsert(t) \/ ImportSave(t)
    PROVE  Keeps(t)
<1>1. pc[t] \in BareMeta /\ UNCHANGED <<chain, runs>>
  BY DEF Save, GradeStatus, GradeMark, Reset, ImportUpsert, ImportSave, BareMeta
<1>2. loc[t].on \in Students /\ metaSeen[t] \subseteq MetadataFile
  BY <1>1, Facts, BareOutside DEF Data
<1>3. CASE Save(t) \/ ImportSave(t)
  <2>1. PICK f \in metaSeen[t], keys \in SUBSET Keys :
            AttemptLast(t, Exists(f, loc[t].on), SaveGrading(f, loc[t].on, keys))
    BY <1>3 DEF Save, ImportSave
  <2> QED
    BY <1>1, <1>2, <2>1, GradingType, AttemptLastKeeps
<1>4. CASE GradeStatus(t)
  <2>1. PICK f \in metaSeen[t] :
            Attempt(t, CanMove(f, loc[t].on, "graded"), SetStatus(f, loc[t].on, "graded"), "grade.mark")
    BY <1>4 DEF GradeStatus
  <2>2. SetStatus(f, loc[t].on, "graded") \in MetadataFile /\ "grade.mark" \in BareMeta
    BY <1>2, SetStatusType DEF Status, BareMeta
  <2> QED
    BY <1>1, <2>1, <2>2, AttemptKeeps
<1>5. CASE GradeMark(t)
  <2>1. PICK f \in metaSeen[t] : AttemptLast(t, TRUE, UpsertGrade(f, loc[t].on))
    BY <1>5 DEF GradeMark
  <2> QED
    BY <1>1, <1>2, <2>1, UpsertType, AttemptLastKeeps
<1>6. CASE Reset(t)
  <2>1. PICK f \in metaSeen[t] :
            AttemptLast(t, Exists(f, loc[t].on), ResetSubmission(f, loc[t].on))
    BY <1>6 DEF Reset
  <2> QED
    BY <1>1, <1>2, <2>1, GradingType, AttemptLastKeeps
<1>7. CASE ImportUpsert(t)
  <2>1. PICK f \in metaSeen[t], graded \in BOOLEAN :
            Attempt(t, TRUE, UpsertImport(f, loc[t].on, graded), "import.save")
    BY <1>7 DEF ImportUpsert
  <2>2. "import.save" \in BareMeta
    BY DEF BareMeta
  <2> QED
    BY <1>1, <1>2, <2>1, <2>2, UpsertType, AttemptKeeps
<1> QED
  BY <1>3, <1>4, <1>5, <1>6, <1>7

\* The first read of archive and restore, and their two writes.
LEMMA ArchiveKeeps ==
    ASSUME ServerInv, NEW t \in Requests,
           ArchiveLook(t) \/ ArchiveStatus(t) \/ ArchiveMark(t)
             \/ RestoreLook(t) \/ RestoreStatus(t) \/ RestoreMark(t)
    PROVE  Keeps(t)
<1>1. t \in Actors /\ Data /\ loc[t] \in Locals /\ loc[t].kept \in Submission
  BY Facts DEF Data, Locals
<1>2. CASE ArchiveLook(t) \/ RestoreLook(t)
  <2>1. pc[t] \in Other /\ pc[t] # "preEval.rows" /\ loc[t].on \in Students
        /\ UNCHANGED <<files, chain, runs, seen>>
    BY <1>2, Facts DEF ArchiveLook, RestoreLook, Other, AtRow
  <2>2. meta[loc[t].on] \in Submission
    BY <1>1, <2>1 DEF Data, MetadataFile
  <2>3. CASE Finish(t)
    <3>1. "idle" \in Other \ AtRow
      BY DEF Other, AtRow
    <3> QED
      BY <2>1, <2>3, <3>1, LocalsType, QuietKeeps DEF Finish
  <2>4. ASSUME NEW row \in Submission, NEW l \in {"archive.status", "restore.status"},
               loc' = [loc EXCEPT ![t].kept = row], GoTo(t, l)
        PROVE  Keeps(t)
    <3> DEFINE L == [loc[t] EXCEPT !.kept = row]
    <3>1. L \in Locals /\ L.on \in Students
      BY <1>1, <2>1, LocalsType DEF Locals
    <3>2. loc' = [loc EXCEPT ![t] = L]
      BY <1>1, <2>4 DEF Data
    <3> HIDE DEF L
    <3>3. /\ l \in Labels \ Section /\ l # "preEval.rows" /\ l # "process.begin"
          /\ pc[t] \notin Section /\ metaSeen[t] = {} /\ resultsSeen[t] = {}
      BY <1>1, <2>1, Facts, OtherOutside, BareOutside DEF BareMeta
    <3>4. Data'
      BY <1>1, <2>1, <3>1, <3>2 DEF Data, files, runs, seen
    <3>5. Goes(t, l)
      BY <1>1, <2>1, <2>4, <3>3 DEF Goes, GoTo, SameQueue, seen
    <3>6. LeavesSlot(t, l) /\ InHand(t, l)
      BY <1>1, <2>1, <2>4, <3>1, <3>2, <3>3 DEF LeavesSlot, InHand, GoTo, runs, Data
    <3> QED
      BY <3>3, <3>4, <3>5, <3>6 DEF Keeps
  <2>5. CASE ArchiveLook(t) /\ meta[loc[t].on].status # "absent"
    <3> DEFINE row == meta[loc[t].on]
    <3>1. [row EXCEPT !.archivedFrom = row.status] \in Submission
      BY <2>2, <2>5 DEF Submission, Status
    <3> QED
      BY <2>4, <2>5, <3>1 DEF ArchiveLook
  <2>6. CASE RestoreLook(t) /\ meta[loc[t].on].status # "absent"
    <3> DEFINE row == meta[loc[t].on]
    <3>1. CASE Finish(t)
      BY <2>3, <3>1
    <3> SUFFICES ASSUME ~Finish(t) PROVE Keeps(t)
      BY <3>1
    <3>2. PICK target \in Status : /\ loc' = [loc EXCEPT ![t].kept = [row EXCEPT !.status = target]]
                                   /\ GoTo(t, "restore.status")
      BY <2>6 DEF RestoreLook
    <3>3. [row EXCEPT !.status = target] \in Submission
      BY <2>2 DEF Submission
    <3> QED
      BY <2>4, <3>2, <3>3
  <2> QED
    BY <1>2, <2>3, <2>5, <2>6 DEF ArchiveLook, RestoreLook
<1>3. CASE ArchiveStatus(t) \/ RestoreStatus(t)
  <2>1. pc[t] \in BareMeta /\ UNCHANGED <<chain, runs>>
    BY <1>3 DEF ArchiveStatus, RestoreStatus, BareMeta
  <2>2. loc[t].on \in Students
    BY <1>1, <2>1, Facts, BareOutside
  <2>3. ASSUME LeaveMetadata(t), Finish(t) PROVE Keeps(t)
    BY <1>1, <2>1, <2>3, BareMetaCall, LocalsType, Destinations, CallKeeps DEF Finish, Data
  <2>4. ASSUME NEW f \in metaSeen[t], NEW to \in Status \cup {"absent"}, NEW from \in Status \cup {"none"},
               NEW l \in {"archive.mark", "restore.mark"},
               WriteMetadata(t, SetStatus(f, loc[t].on, to)),
               loc' = [loc EXCEPT ![t].kept = Moved(t, f, to, from)],
               GoTo(t, l)
        PROVE  Keeps(t)
    <3> DEFINE L == [loc[t] EXCEPT !.kept = Moved(t, f, to, from)]
    <3>1. f \in MetadataFile /\ SetStatus(f, loc[t].on, to) \in MetadataFile
      BY <1>1, SetStatusType DEF Data
    <3>2. f[loc[t].on] \in Submission
      BY <2>2, <3>1 DEF MetadataFile
    <3>3. Moved(t, f, to, from) \in Submission
      BY <3>2 DEF Moved, Submission
    <3>4. L \in Locals /\ L.on \in Students
      BY <1>1, <2>2, <3>3, LocalsType DEF Locals
    <3>5. loc' = [loc EXCEPT ![t] = L]
      BY <1>1, <2>4 DEF Data
    <3> HIDE DEF L
    <3>6. l \in BareMeta
      BY DEF BareMeta
    <3> QED
      BY <2>1, <2>4, <3>1, <3>4, <3>5, <3>6, BareMetaCall, Destinations, CallKeeps DEF GoTo
  <2>5. CASE ArchiveStatus(t)
    <3>1. "archived" \in Status /\ loc[t].kept.archivedFrom \in Status \cup {"none"}
      BY <1>1 DEF Submission, Status
    <3> QED
      BY <2>3, <2>4, <2>5, <3>1 DEF ArchiveStatus
  <2>6. CASE RestoreStatus(t)
    <3>1. PICK f \in metaSeen[t] :
              \/ /\ WriteMetadata(t, SetStatus(f, loc[t].on, loc[t].kept.status))
                 /\ loc' = [loc EXCEPT ![t].kept = Moved(t, f, loc[t].kept.status, "none")]
                 /\ GoTo(t, "restore.mark")
              \/ LeaveMetadata(t) /\ Finish(t)
      BY <2>6 DEF RestoreStatus
    <3>2. loc[t].kept.status \in Status \cup {"absent"}
      BY <1>1 DEF Submission
    <3> QED
      BY <2>3, <2>4, <3>1, <3>2
  <2> QED
    BY <1>3, <2>5, <2>6
<1>4. CASE ArchiveMark(t) \/ RestoreMark(t)
  <2>1. PICK f \in metaSeen[t] : AttemptLast(t, TRUE, [f EXCEPT ![loc[t].on] = loc[t].kept])
    BY <1>4 DEF ArchiveMark, RestoreMark, WriteBack
  <2>2. [f EXCEPT ![loc[t].on] = loc[t].kept] \in MetadataFile
    BY <1>1 DEF Data, MetadataFile
  <2>3. pc[t] \in BareMeta /\ UNCHANGED <<chain, runs>>
    BY <1>4 DEF ArchiveMark, RestoreMark, WriteBack, BareMeta
  <2> QED
    BY <2>1, <2>2, <2>3, AttemptLastKeeps
<1> QED
  BY <1>2, <1>3, <1>4

\* Upload and delete.
LEMMA UploadKeeps ==
    ASSUME ServerInv, NEW t \in Requests,
           UploadFile(t) \/ UploadUpsert(t) \/ UploadClear(t)
             \/ DeleteFile(t) \/ DeleteResult(t) \/ DeleteRecord(t)
    PROVE  Keeps(t)
<1>1. t \in Actors /\ Data /\ loc[t] \in Locals
  BY Facts DEF Data
<1>2. CASE UploadFile(t) \/ DeleteFile(t)
  <2>1. /\ pc[t] \in {"upload.file", "delete.file"} /\ loc[t].on \in Students
        /\ UNCHANGED <<meta, results, chain, runs, seen>>
    BY <1>2, Facts DEF UploadFile, DeleteFile, AtRow
  <2>2. pc[t] \notin Section /\ metaSeen[t] = {} /\ resultsSeen[t] = {}
    BY <1>1, <2>1, Facts, OtherOutside DEF Other
  <2>3. notebook' \in [Students -> 0 .. MaxVersion]
    <3>1. notebook[loc[t].on] \in 0 .. MaxVersion
      BY <1>1, <2>1 DEF Data
    <3> QED
      BY <1>1, <1>2, <3>1, MaxVersionAssumption DEF UploadFile, DeleteFile, Data
  <2>4. ASSUME NEW l \in {"upload.upsert", "delete.result", "idle"}, GoTo(t, l),
               loc' = loc \/ (l = "idle" /\ loc' = [loc EXCEPT ![t] = NoLocals])
        PROVE  Keeps(t)
    <3>1. l \in Labels \ Section /\ l # "preEval.rows" /\ l # "process.begin"
      BY Destinations DEF BareMeta, BareResults
    <3>2. Data'
      BY <1>1, <2>1, <2>3, <2>4, LocalsType DEF Data, runs, seen
    <3>3. Goes(t, l)
      BY <1>1, <2>1, <2>2, <2>4, <3>1 DEF Goes, GoTo, SameQueue, seen
    <3>4. LeavesSlot(t, l)
      BY <2>1, <2>4, <3>1 DEF LeavesSlot, GoTo, runs
    <3>5. InHand(t, l)
      BY <1>1, <2>1, <2>4, <3>1, Destinations DEF InHand, Data
    <3> QED
      BY <3>1, <3>2, <3>3, <3>4, <3>5 DEF Keeps
  <2> QED
    BY <1>2, <2>4 DEF UploadFile, DeleteFile, Finish, GoTo
<1>3. CASE UploadUpsert(t)
  <2>1. PICK f \in metaSeen[t] : Attempt(t, TRUE, UpsertUpload(f, loc[t].on), "upload.clear")
    BY <1>3 DEF UploadUpsert
  <2>2. pc[t] \in BareMeta /\ UNCHANGED <<chain, runs>> /\ "upload.clear" \in BareResults
    BY <1>3 DEF UploadUpsert, BareMeta, BareResults
  <2>3. UpsertUpload(f, loc[t].on) \in MetadataFile
    BY <1>1, <2>2, Facts, BareOutside, UpsertType DEF Data
  <2> QED
    BY <2>1, <2>2, <2>3, AttemptKeeps
<1>4. CASE UploadClear(t) \/ DeleteResult(t)
  <2>1. pc[t] \in BareResults /\ pc[t] \in AtRow /\ UNCHANGED <<chain, runs>>
    BY <1>4 DEF UploadClear, DeleteResult, BareResults, AtRow
  <2>2. PICK f \in resultsSeen[t] : WriteResults(t, ClearResult(f, loc[t].on)) \/ LeaveResults(t)
    BY <1>4 DEF UploadClear, DeleteResult, ClearCall
  <2>3. loc[t].on \in Students /\ ClearResult(f, loc[t].on) \in ResultsFile
    BY <1>1, <2>1, Facts, ResultsType, NoResultType DEF Data
  <2>4. CASE UploadClear(t)
    BY <2>1, <2>2, <2>3, <2>4, BareResultsCall, LocalsType, Destinations, CallKeeps
    DEF UploadClear, Finish
  <2>5. CASE DeleteResult(t)
    <3>1. loc' = [loc EXCEPT ![t] = loc[t]] /\ "delete.record" \in BareMeta
      BY <1>1, <2>5 DEF DeleteResult, Data, BareMeta
    <3> QED
      BY <1>1, <2>1, <2>2, <2>3, <2>5, <3>1, BareResultsCall, Destinations, CallKeeps
      DEF DeleteResult, GoTo
  <2> QED
    BY <1>4, <2>4, <2>5
<1>5. CASE DeleteRecord(t)
  <2>1. PICK f \in metaSeen[t] :
            AttemptLast(t, Exists(f, loc[t].on), RemoveSubmission(f, loc[t].on))
    BY <1>5 DEF DeleteRecord
  <2>2. pc[t] \in BareMeta /\ UNCHANGED <<chain, runs>>
    BY <1>5 DEF DeleteRecord, BareMeta
  <2>3. RemoveSubmission(f, loc[t].on) \in MetadataFile
    BY <1>1, <2>2, Facts, BareOutside, GradingType DEF Data
  <2> QED
    BY <2>1, <2>2, <2>3, AttemptLastKeeps
<1> QED
  BY <1>2, <1>3, <1>4, <1>5

\* The run of a single row.
LEMMA RunKeeps ==
    ASSUME ServerInv, NEW t \in Requests,
           RunStart(t) \/ RunExecute(t) \/ RunExecuted(t) \/ RunStore(t)
             \/ RunClearError(t) \/ RunCaught(t) \/ RunNoteCaught(t)
    PROVE  Keeps(t)
<1>1. t \in Actors /\ Data /\ loc[t] \in Locals
  BY Facts DEF Data
<1>2. CASE RunStart(t) \/ RunExecuted(t)
  <2>1. PICK f \in metaSeen[t], to \in Status, l \in {"run.execute", "run.store", "run.caught"} :
            /\ WriteMetadata(t, SetStatus(f, loc[t].on, to)) \/ LeaveMetadata(t)
            /\ GoTo(t, l)
            /\ UNCHANGED loc
    BY <1>2 DEF RunStart, RunExecuted, Try, Status
  <2>2. pc[t] \in BareMeta /\ UNCHANGED <<chain, runs>> /\ loc' = [loc EXCEPT ![t] = loc[t]]
    BY <1>1, <1>2, <2>1 DEF RunStart, RunExecuted, BareMeta, Data
  <2>3. loc[t].on \in Students /\ SetStatus(f, loc[t].on, to) \in MetadataFile
    BY <1>1, <2>2, Facts, BareOutside, SetStatusType DEF Data
  <2>4. l \in BareMeta \cup BareResults \cup {"idle", "run.execute"}
    BY DEF BareMeta, BareResults
  <2> QED
    BY <1>1, <2>1, <2>2, <2>3, <2>4, BareMetaCall, Destinations, CallKeeps DEF GoTo
<1>3. CASE RunExecute(t)
  <2>1. PICK l \in {"run.executed", "run.caught"} : GoTo(t, l)
    BY <1>3 DEF RunExecute
  <2>2. /\ pc[t] = "run.execute" /\ loc[t].on \in Students
        /\ UNCHANGED <<files, chain, runs, seen>>
    BY <1>1, <1>3, Facts DEF RunExecute, AtRow
  <2>3. PICK L \in Locals : loc' = [loc EXCEPT ![t] = L] /\ L.on = loc[t].on
    <3>1. CASE UNCHANGED loc
      BY <1>1, <3>1 DEF Data
    <3>2. ASSUME NEW ok \in BOOLEAN,
                 loc' = [loc EXCEPT ![t].run = [of |-> notebook[loc[t].on], ok |-> ok]]
          PROVE  \E L \in Locals : loc' = [loc EXCEPT ![t] = L] /\ L.on = loc[t].on
      <4> DEFINE run == [of |-> notebook[loc[t].on], ok |-> ok]
                 L == [loc[t] EXCEPT !.run = run]
      <4>1. run \in Execution
        BY <1>1, <2>2 DEF Data, Execution
      <4>2. L \in Locals /\ L.on = loc[t].on
        BY <1>1, <4>1, LocalsType DEF Locals
      <4>3. loc' = [loc EXCEPT ![t] = L]
        BY <1>1, <3>2 DEF Data
      <4> QED
        BY <4>2, <4>3
    <3> QED
      BY <1>3, <3>1, <3>2 DEF RunExecute
  <2>4. /\ l \in Labels \ Section /\ l # "preEval.rows" /\ l # "process.begin"
        /\ pc[t] \notin Section /\ metaSeen[t] = {} /\ resultsSeen[t] = {}
    BY <1>1, <2>2, Facts, OtherOutside, BareOutside DEF BareMeta, Other
  <2>5. Data'
    BY <1>1, <2>2, <2>3 DEF Data, files, runs, seen
  <2>6. Goes(t, l)
    BY <1>1, <2>1, <2>2, <2>4 DEF Goes, GoTo, SameQueue, seen
  <2>7. LeavesSlot(t, l) /\ InHand(t, l)
    BY <1>1, <2>1, <2>2, <2>3, <2>4 DEF LeavesSlot, InHand, GoTo, runs, Data
  <2> QED
    BY <2>4, <2>5, <2>6, <2>7 DEF Keeps
<1>4. CASE RunStore(t)
  <2>1. PICK f \in resultsSeen[t] : WriteResults(t, SetResult(f, loc[t].on, loc[t].run))
    BY <1>4 DEF RunStore
  <2>2. /\ pc[t] \in BareResults /\ pc[t] \in AtRow /\ UNCHANGED <<chain, runs>>
        /\ loc' = [loc EXCEPT ![t] = loc[t]] /\ "run.clearError" \in BareMeta
    BY <1>1, <1>4 DEF RunStore, BareResults, BareMeta, AtRow, Data
  <2>3. loc[t].on \in Students /\ SetResult(f, loc[t].on, loc[t].run) \in ResultsFile
    BY <1>1, <2>2, Facts, ResultsType DEF Data, Locals
  <2> QED
    BY <1>1, <1>4, <2>1, <2>2, <2>3, BareResultsCall, Destinations, CallKeeps DEF RunStore, GoTo
<1>5. CASE RunClearError(t) \/ RunNoteCaught(t)
  <2>1. PICK f \in metaSeen[t], e \in BOOLEAN : AttemptLast(t, TRUE, UpsertError(f, loc[t].on, e))
    BY <1>5 DEF RunClearError, RunNoteCaught
  <2>2. pc[t] \in BareMeta /\ UNCHANGED <<chain, runs>>
    BY <1>5 DEF RunClearError, RunNoteCaught, BareMeta
  <2>3. UpsertError(f, loc[t].on, e) \in MetadataFile
    BY <1>1, <2>2, Facts, BareOutside, UpsertType DEF Data
  <2> QED
    BY <2>1, <2>2, <2>3, AttemptLastKeeps
<1>6. CASE RunCaught(t)
  <2>1. PICK f \in metaSeen[t] :
            Attempt(t, CanMove(f, loc[t].on, "error"), SetStatus(f, loc[t].on, "error"), "run.noteCaught")
    BY <1>6 DEF RunCaught
  <2>2. pc[t] \in BareMeta /\ UNCHANGED <<chain, runs>> /\ "run.noteCaught" \in BareMeta
    BY <1>6 DEF RunCaught, BareMeta
  <2>3. SetStatus(f, loc[t].on, "error") \in MetadataFile
    BY <1>1, SetStatusType DEF Data, Status
  <2> QED
    BY <2>1, <2>2, <2>3, AttemptKeeps
<1> QED
  BY <1>2, <1>3, <1>4, <1>5, <1>6

\* A route on one row has been called: it is at its first await, with a row.
LEMMA CalledKeeps ==
    ASSUME ServerInv, NEW t \in Requests, TeacherCall(t)
    PROVE  Keeps(t)
<1> DEFINE Firsts == {"save", "grade.status", "reset", "import.upsert", "archive.look",
                      "restore.look", "upload.file", "delete.file", "run.start"}
<1>1. PICK l \in Firsts : /\ pc[t] = "idle"
                         /\ \E s \in Students : loc' = [loc EXCEPT ![t].on = s]
                         /\ GoTo(t, l)
                         /\ UNCHANGED <<files, chain, runs, seen>>
  BY DEF TeacherCall, SaveArrive, GradeArrive, ResetArrive, ImportArrive, ArchiveArrive,
         RestoreArrive, UploadArrive, DeleteArrive, RunArrive, Arrive, Rows
<1>2. t \in Actors /\ Data /\ loc[t] \in Locals /\ metaSeen[t] = {} /\ resultsSeen[t] = {}
      /\ pc[t] \notin Section
  BY <1>1, Facts, OtherOutside DEF Data, Other
<1>3. l \in Labels \ Section /\ l # "preEval.rows" /\ l # "process.begin"
  BY DEF Labels, Section, SectionMeta, SectionResults, BareMeta, BareResults, Other
<1>4. PICK L \in Locals : loc' = [loc EXCEPT ![t] = L] /\ L.on \in Students
  <2>1. PICK s \in Students : loc' = [loc EXCEPT ![t].on = s]
    BY <1>1
  <2> DEFINE L == [loc[t] EXCEPT !.on = s]
  <2>2. L \in Locals /\ L.on = s
    BY <1>2, LocalsType DEF Locals
  <2>3. loc' = [loc EXCEPT ![t] = L]
    BY <1>2, <2>1 DEF Data
  <2> QED
    BY <2>2, <2>3
<1>5. Data'
  BY <1>1, <1>2, <1>4 DEF Data, files, runs, seen
<1>6. Goes(t, l)
  BY <1>1, <1>2, <1>3 DEF Goes, GoTo, SameQueue, seen
<1>7. LeavesSlot(t, l) /\ InHand(t, l)
  BY <1>1, <1>2, <1>3, <1>4 DEF LeavesSlot, InHand, GoTo, runs, Data
<1> QED
  BY <1>3, <1>5, <1>6, <1>7 DEF Keeps

\* The routes on one row as a whole.
LEMMA TeacherKeeps ==
    ASSUME ServerInv, NEW t \in Requests, TeacherStep(t)
    PROVE  Keeps(t)
BY GradingKeeps, ArchiveKeeps, UploadKeeps, RunKeeps DEF TeacherStep

----------------------------------------------------------------------------
(***************************************************************************)
(* The server.                                                             *)
(***************************************************************************)

\* What an earlier life of the server leaves is a row and a result.
LEMMA RestingType ==
    \A kind \in InitialRows :
        /\ RestingSubmission(kind) \in Submission
        /\ RestingResult(kind) \in Result
<1> SUFFICES ASSUME NEW kind \in InitialRows
             PROVE  RestingSubmission(kind) \in Submission /\ RestingResult(kind) \in Result
  OBVIOUS
<1>1. kind \in RowKinds
  BY InitialRowsAssumption
<1>2. RestingSubmission(kind) \in Submission
  BY <1>1, NoSubmissionType DEF RowKinds, RestingSubmission, NoSubmission, Submission, Status
<1>3. FirstUpload \in Execution /\ [of |-> 1, ok |-> FALSE] \in Execution
  BY MaxVersionAssumption DEF FirstUpload, Execution
<1>4. \A run \in Execution : /\ [NoResult EXCEPT !.run = run] \in Result
                             /\ [NoResult EXCEPT !.run = run, !.preEval.about = run] \in Result
  BY NoResultType DEF Result, NoResult, Envelope, NoEnvelope
<1>5. RestingResult(kind) \in Result
  BY <1>1, <1>3, <1>4, NoResultType DEF RowKinds, RestingResult
<1> QED
  BY <1>2, <1>5

\* The server starts in the invariant,
LEMMA ServerInit == Init => ServerInv
<1> SUFFICES ASSUME Init PROVE ServerInv
  OBVIOUS
<1>1. meta \in MetadataFile /\ results \in ResultsFile /\ notebook \in [Students -> 0 .. MaxVersion]
  <2>1. PICK kind \in [Students -> InitialRows] :
            /\ meta = [s \in Students |-> RestingSubmission(kind[s])]
            /\ results = [s \in Students |-> RestingResult(kind[s])]
            /\ notebook = [s \in Students |-> IF kind[s] = "absent" THEN 0 ELSE 1]
    BY DEF Init, StoresInit
  <2> QED
    BY <2>1, RestingType, MaxVersionAssumption DEF MetadataFile, ResultsFile
<1>2. TypeOK
  <2>1. "idle" \in Labels /\ <<>> \in Seq(Actors)
    BY DEF Labels, Other
  <2> QED
    BY <1>1, <2>1, LocalsType, ProgressType DEF Init, StoresInit, TypeOK
<1>3. AtHand
  BY DEF Init, StoresInit, AtHand, AtRow
<1>4. SectionsQueued
  <2>1. "idle" \notin Section
    BY OtherOutside DEF Other
  <2> QED
    BY <2>1 DEF Init, StoresInit, SectionsQueued, Distinct, InQueue
<1>5. RunSlotExclusive
  BY DEF Init, StoresInit, RunSlotExclusive, IdleRun, Actors
<1> QED
  BY <1>2, <1>3, <1>4, <1>5 DEF ServerInv

\* A restart forgets the queue, the snapshots and the run with the handlers.
LEMMA CrashKeeps == ASSUME Data, Crash PROVE ServerInv'
<1>1. TypeOK'
  <2>1. "idle" \in Labels /\ <<>> \in Seq(Actors)
    BY DEF Labels, Other
  <2> QED
    BY <2>1, LocalsType, ProgressType DEF Data, TypeOK, Crash, files
<1>2. AtHand'
  BY DEF Crash, AtHand, AtRow
<1>3. SectionsQueued'
  <2>1. "idle" \notin Section
    BY OtherOutside DEF Other
  <2> QED
    BY <2>1 DEF Crash, SectionsQueued, Distinct, InQueue
<1>4. RunSlotExclusive'
  BY DEF Crash, RunSlotExclusive, IdleRun, Actors
<1> QED
  BY <1>1, <1>2, <1>3, <1>4 DEF ServerInv

\* A step is one of one handler, or a crash.
StepOf(a) ==
    \/ a \in Requests /\ (ClientCall(a) \/ RequestStep(a))
    \/ a \in Workers /\ WorkStep(a)

\* Every step of a handler has the shape above, but the two that give a
\* request the run slot and take it back.
LEMMA StepKeeps ==
    ASSUME ServerInv, NEW a \in Actors, StepOf(a)
    PROVE  Keeps(a) \/ (a \in Requests /\ (PreEvalBegin(a) \/ PreEvalEnd(a)))
<1>1. ASSUME a \in Requests, ClientCall(a) PROVE Keeps(a)
  BY <1>1, ProcessListKeeps, PreEvalArriveKeeps, ResetPreListKeeps, CalledKeeps DEF ClientCall
<1>2. ASSUME a \in Requests, RequestStep(a) PROVE Keeps(a) \/ PreEvalBegin(a) \/ PreEvalEnd(a)
  <2>1. a \notin Workers
    BY <1>2, ActorsAssumption
  <2>2. CASE ReadMetadata(a) \/ ReadResults(a)
    BY <2>1, <2>2, ReadKeeps
  <2>3. CASE ProcessStep(a) \/ PreEvalList(a) \/ CalibrateCohort(a) \/ ResetPreStep(a) \/ TeacherStep(a)
    BY <1>2, <2>3, ProcessKeeps, PreEvalArriveKeeps, CalibrateKeeps, ResetPreListKeeps,
       ResetPreSectionKeeps, TeacherKeeps DEF ResetPreStep
  <2> QED
    BY <1>2, <2>2, <2>3 DEF RequestStep, PreEvalStep
<1>3. ASSUME a \in Workers, WorkStep(a) PROVE Keeps(a)
  <2>1. CASE ReadMetadata(a) \/ ReadResults(a)
    <3>1. pc[a] # "idle"
      BY <2>1, OtherOutside DEF ReadMetadata, ReadResults, Other, MetaCalls, ResultsCalls,
         SectionMeta, SectionResults, BareMeta, BareResults
    <3> QED
      BY <2>1, <3>1, ReadKeeps
  <2> QED
    BY <1>3, <2>1, WorkKeeps DEF WorkStep
<1> QED
  BY <1>1, <1>2, <1>3 DEF StepOf

\* and every step keeps it.
LEMMA ServerNext == ServerInv /\ [Next]_vars => ServerInv'
<1> SUFFICES ASSUME ServerInv, [Next]_vars PROVE ServerInv'
  OBVIOUS
<1>1. ASSUME NEW a \in Actors, StepOf(a) PROVE ServerInv'
  BY <1>1, StepKeeps, KeepsInv, PreEvalBeginKeeps, PreEvalEndKeeps
<1>2. CASE Next
  BY <1>1, <1>2, Facts, CrashKeeps DEF Next, StepOf
<1>3. CASE UNCHANGED vars
  BY <1>3 DEF vars, ServerInv, TypeOK, AtHand, SectionsQueued, InQueue, MayRun, Holds, RunSlotExclusive
<1> QED
  BY <1>2, <1>3

\* The invariant of the submission server, for any students, any requests in
\* flight, any routes and starting rows, with and without crashes.
THEOREM ServerInvariant == Spec => []ServerInv
BY ServerInit, ServerNext, PTL DEF Spec

\* The stores, the queue, the progress records and the locals of every
\* handler keep their types: a file computed from a snapshot is a file.
THEOREM ServerTypes == Spec => []TypeOK
<1>1. ServerInv => TypeOK
  BY DEF ServerInv
<1> QED
  BY <1>1, ServerInvariant, PTL

\* withPersistLock: the handlers inside a section are those in the queue, once
\* each, and inside a section only the one at the head holds a snapshot of a
\* file; so two sections never interleave their reads and writes.
THEOREM ServerSectionsQueued == Spec => []SectionsQueued
<1>1. ServerInv => SectionsQueued
  BY DEF ServerInv
<1> QED
  BY <1>1, ServerInvariant, PTL

\* pre-eval-progress.ts: at most one batch pre-evaluation runs at a time, its
\* flag is up exactly while it does, and workers live only for its request.
THEOREM ServerRunSlotExclusive == Spec => []RunSlotExclusive
<1>1. ServerInv => RunSlotExclusive
  BY DEF ServerInv
<1> QED
  BY <1>1, ServerInvariant, PTL

----------------------------------------------------------------------------
(***************************************************************************)
(* Who moves.  A step is one of one handler, or a crash; it leaves every   *)
(* other handler where it is with the locals it has, but that a worker     *)
(* notes its rows at the request it works for, and the start of a run      *)
(* wakes its workers.                                                      *)
(***************************************************************************)
WorkerLabels == {"row.next", "row.look", "row.ask", "row.store", "row.flip"}

\* A worker is at a row, or idle; nobody else is at one.
Placed ==
    /\ \A w \in Workers : pc[w] \in WorkerLabels \cup {"idle"}
    /\ \A r \in Requests : pc[r] \notin WorkerLabels

OthersStand(a) ==
    \A c \in Actors \ {a} :
        /\ pc'[c] = pc[c] \/ (c \in Workers /\ pc[c] = "idle" /\ pc'[c] = "row.next")
        /\ loc'[c] = loc[c] \/ (a \in Workers /\ c = a[1] /\ pc[c] = "preEval.rows" /\ loc'[c].on = loc[c].on)

Stands(a) ==
    /\ OthersStand(a)
    /\ a \in Requests => pc'[a] = pc[a] \/ pc'[a] \notin WorkerLabels
    /\ a \in Workers => pc'[a] = pc[a] \/ pc'[a] \in WorkerLabels \cup {"idle"}

\* A request that goes somewhere with new locals, or with the ones it had.
LEMMA RequestStands ==
    ASSUME ServerInv, NEW r \in Requests, NEW l, l \notin WorkerLabels,
           pc' = [pc EXCEPT ![r] = l],
           UNCHANGED loc \/ \E L : loc' = [loc EXCEPT ![r] = L]
    PROVE  Stands(r)
<1>1. r \in Actors /\ r \notin Workers /\ pc \in [Actors -> Labels] /\ loc \in [Actors -> Locals]
  BY Facts, ActorsAssumption DEF Data
<1> QED
  BY <1>1 DEF Stands, OthersStand

\* Each batch route,
LEMMA ProcessStands ==
    ASSUME ServerInv, NEW b \in Requests, ProcessList(b) \/ ProcessStep(b)
    PROVE  Stands(b)
<1>1. \E l : l \notin WorkerLabels /\ pc' = [pc EXCEPT ![b] = l]
  <2>1. CASE ProcessList(b) \/ ProcessBegin(b) \/ ProcessExecute(b) \/ ProcessAnswered(b)
    BY <2>1 DEF ProcessList, ProcessBegin, ProcessExecute, ProcessAnswered, GoTo, WorkerLabels
  <2>2. CASE ProcessStart(b) \/ ProcessCaught(b)
    BY <2>2 DEF ProcessStart, ProcessCaught, ProcessAbort, GoTo, Finish, WorkerLabels
  <2>3. CASE ProcessExecuted(b) \/ ProcessFailed(b)
    BY <2>3 DEF ProcessExecuted, ProcessFailed, ProcessMark, GoTo, WorkerLabels
  <2>4. CASE ProcessStore(b) \/ ProcessNoteFailure(b)
    BY <2>4 DEF ProcessStore, ProcessNoteFailure, GoTo, WorkerLabels
  <2>5. CASE ProcessStoreFailure(b) \/ ProcessClearError(b) \/ ProcessNoteCaught(b)
    BY <2>5 DEF ProcessStoreFailure, ProcessClearError, ProcessNoteCaught, ProcessNext, GoTo, Finish, WorkerLabels
  <2> QED
    BY <2>1, <2>2, <2>3, <2>4, <2>5 DEF ProcessStep
<1>2. UNCHANGED loc \/ \E L : loc' = [loc EXCEPT ![b] = L]
  <2>1. CASE ProcessList(b) \/ ProcessBegin(b) \/ ProcessExecute(b) \/ ProcessAnswered(b)
    BY <2>1 DEF ProcessList, ProcessBegin, ProcessExecute, ProcessAnswered
  <2>2. CASE ProcessStart(b) \/ ProcessCaught(b)
    BY <2>2 DEF ProcessStart, ProcessCaught, ProcessAbort, Finish
  <2>3. CASE ProcessExecuted(b) \/ ProcessFailed(b)
    BY <2>3 DEF ProcessExecuted, ProcessFailed, ProcessMark
  <2>4. CASE ProcessStore(b) \/ ProcessNoteFailure(b)
    BY <2>4 DEF ProcessStore, ProcessNoteFailure
  <2>5. CASE ProcessStoreFailure(b) \/ ProcessClearError(b) \/ ProcessNoteCaught(b)
    BY <2>5 DEF ProcessStoreFailure, ProcessClearError, ProcessNoteCaught, ProcessNext, Finish
  <2> QED
    BY <2>1, <2>2, <2>3, <2>4, <2>5 DEF ProcessStep
<1> QED
  BY <1>1, <1>2, RequestStands

\* A request of the evaluation routes moves its own label and locals, starts its
\* workers, and is never where a worker is.
LEMMA EvaluationStands ==
    ASSUME ServerInv, NEW e \in Requests,
           PreEvalArrive(e) \/ PreEvalStep(e) \/ ResetPreArrive(e) \/ ResetPreStep(e)
    PROVE  Stands(e)
<1>1. CASE PreEvalArrive(e) \/ PreEvalList(e) \/ PreEvalEnd(e) \/ CalibrateCohort(e)
  <2>1. \E l : l \notin WorkerLabels /\ pc' = [pc EXCEPT ![e] = l]
    BY <1>1 DEF PreEvalArrive, PreEvalList, PreEvalEnd, CalibrateCohort, GoTo, Finish, WorkerLabels
  <2>2. UNCHANGED loc \/ \E L : loc' = [loc EXCEPT ![e] = L]
    BY <1>1 DEF PreEvalArrive, PreEvalList, PreEvalEnd, CalibrateCohort, Finish
  <2> QED
    BY <2>1, <2>2, RequestStands
<1>2. CASE ResetPreArrive(e) \/ ResetPreList(e) \/ ResetPrePick(e)
  <2>1. \E l : l \notin WorkerLabels /\ pc' = [pc EXCEPT ![e] = l]
    BY <1>2 DEF ResetPreArrive, ResetPreList, ResetPrePick, ResetPreEnter, GoTo, Finish, WorkerLabels
  <2>2. UNCHANGED loc \/ \E L : loc' = [loc EXCEPT ![e] = L]
    BY <1>2, Facts DEF Data, ResetPreArrive, ResetPreList, ResetPrePick, ResetPreEnter, Finish
  <2> QED
    BY <2>1, <2>2, RequestStands
<1>3. CASE ResetPreLoad(e) \/ ResetPreFlip(e) \/ ResetPreWrite(e)
  <2>1. \E l : l \notin WorkerLabels /\ pc' = [pc EXCEPT ![e] = l]
    BY <1>3 DEF ResetPreLoad, ResetPreFlip, ResetPreWrite, GoTo, Finish, WorkerLabels
  <2>2. UNCHANGED loc \/ \E L : loc' = [loc EXCEPT ![e] = L]
    BY <1>3 DEF ResetPreLoad, ResetPreFlip, ResetPreWrite, Finish
  <2> QED
    BY <2>1, <2>2, RequestStands
<1>4. CASE PreEvalBegin(e)
  <2>1. e \in Actors /\ e \notin Workers /\ pc \in [Actors -> Labels] /\ loc \in [Actors -> Locals]
    BY Facts, ActorsAssumption DEF Data
  <2>2. CASE Finish(e)
    BY <2>2, RequestStands DEF Finish, WorkerLabels
  <2>3. CASE /\ ~evalRun.running
             /\ pc' = [a \in Actors |-> IF a = e THEN "preEval.rows"
                                       ELSE IF a \in Started(e) THEN "row.next" ELSE pc[a]]
             /\ UNCHANGED loc
    <3>1. \A w \in Workers : pc[w] = "idle"
      BY <2>3 DEF ServerInv, RunSlotExclusive, Workers
    <3>2. Started(e) \subseteq Workers
      BY DEF Started
    <3> QED
      BY <2>1, <2>3, <3>1, <3>2 DEF Stands, OthersStand, WorkerLabels
  <2> QED
    BY <1>4, <2>2, <2>3 DEF PreEvalBegin
<1> QED
  BY <1>1, <1>2, <1>3, <1>4 DEF PreEvalStep, ResetPreStep

\* each route on one row,
LEMMA TeacherStands ==
    ASSUME ServerInv, NEW t \in Requests, TeacherCall(t) \/ TeacherStep(t)
    PROVE  Stands(t)
<1> USE DEF WorkerLabels
<1> DEFINE There == \E l : l \notin WorkerLabels /\ pc' = [pc EXCEPT ![t] = l]
           Own == UNCHANGED loc \/ \E L : loc' = [loc EXCEPT ![t] = L]
<1>1. CASE TeacherCall(t)
  <2>1. There /\ Own
    BY <1>1 DEF TeacherCall, SaveArrive, GradeArrive, ResetArrive, ImportArrive, ArchiveArrive,
      RestoreArrive, UploadArrive, DeleteArrive, RunArrive, Arrive, GoTo
  <2> QED
    BY <2>1, RequestStands
<1>2. CASE Save(t) \/ GradeStatus(t) \/ GradeMark(t) \/ Reset(t) \/ ImportUpsert(t) \/ ImportSave(t)
  <2>1. There /\ Own
    BY <1>2 DEF Save, GradeStatus, GradeMark, Reset, ImportUpsert, ImportSave, Attempt, AttemptLast, GoTo, Finish
  <2> QED
    BY <2>1, RequestStands
<1>3. CASE ArchiveLook(t) \/ RestoreLook(t)
  <2>1. There /\ Own
    BY <1>3 DEF ArchiveLook, RestoreLook, GoTo, Finish
  <2> QED
    BY <2>1, RequestStands
<1>4. CASE ArchiveStatus(t) \/ RestoreStatus(t) \/ ArchiveMark(t) \/ RestoreMark(t)
  <2>1. There /\ Own
    BY <1>4 DEF ArchiveStatus, RestoreStatus, ArchiveMark, RestoreMark, WriteBack, AttemptLast, GoTo, Finish
  <2> QED
    BY <2>1, RequestStands
<1>5. CASE UploadFile(t) \/ DeleteFile(t) \/ UploadUpsert(t) \/ DeleteRecord(t) \/ UploadClear(t) \/ DeleteResult(t)
  <2>1. There /\ Own
    BY <1>5 DEF UploadFile, DeleteFile, UploadUpsert, DeleteRecord, UploadClear, DeleteResult,
      Attempt, AttemptLast, GoTo, Finish
  <2> QED
    BY <2>1, RequestStands
<1>6. CASE RunStart(t) \/ RunExecuted(t) \/ RunExecute(t) \/ RunStore(t)
  <2>1. There /\ Own
    BY <1>6 DEF RunStart, RunExecuted, RunExecute, RunStore, Try, GoTo
  <2> QED
    BY <2>1, RequestStands
<1>7. CASE RunClearError(t) \/ RunCaught(t) \/ RunNoteCaught(t)
  <2>1. There /\ Own
    BY <1>7 DEF RunClearError, RunCaught, RunNoteCaught, Attempt, AttemptLast, GoTo, Finish
  <2> QED
    BY <2>1, RequestStands
<1> QED
  BY <1>1, <1>2, <1>3, <1>4, <1>5, <1>6, <1>7 DEF TeacherStep

\* and the worker, which has locals of its request to change.
LEMMA WorkerStands ==
    ASSUME ServerInv, NEW w \in Workers, WorkerStep(w)
    PROVE  Stands(w)
<1>1. /\ w \in Actors /\ w[1] \in Actors /\ w \notin Requests /\ w # w[1]
      /\ pc \in [Actors -> Labels] /\ loc \in [Actors -> Locals]
  BY Facts, ActorsAssumption DEF Data, Workers
<1>0. pc[w[1]] = "preEval.rows"
  BY DEF WorkerStep, RowNext, RowLook, RowAsk, RowStore, RowFlip, ServerInv, RunSlotExclusive
<1>2. ASSUME NEW success, RowSettled(w, success) PROVE Stands(w)
  BY <1>0, <1>1, <1>2 DEF RowSettled, GoTo, Stands, OthersStand, WorkerLabels, Locals
<1>3. CASE RowNext(w)
  BY <1>0, <1>1, <1>3 DEF RowNext, GoTo, Finish, Stands, OthersStand, WorkerLabels, Locals
<1>4. CASE RowLook(w) \/ RowAsk(w)
  BY <1>1, <1>2, <1>4 DEF RowLook, RowAsk, GoTo, Stands, OthersStand, WorkerLabels
<1>5. CASE RowStore(w) \/ RowFlip(w)
  BY <1>1, <1>2, <1>5 DEF RowStore, RowFlip, GoTo, Stands, OthersStand, WorkerLabels
<1> QED
  BY <1>3, <1>4, <1>5 DEF WorkerStep

\* A handler moves, and the others stand.
LEMMA StepStands ==
    ASSUME ServerInv, NEW a \in Actors, StepOf(a)
    PROVE  Stands(a)
<1>1. CASE ReadMetadata(a) \/ ReadResults(a)
  BY <1>1 DEF ReadMetadata, ReadResults, Stands, OthersStand
<1> QED
  BY <1>1, ProcessStands, EvaluationStands, TeacherStands, WorkerStands
  DEF StepOf, ClientCall, RequestStep, WorkStep

\* A step is a crash or one of one handler.
LEMMA NextStands ==
    ASSUME ServerInv, Next
    PROVE  Crash \/ \E a \in Actors : StepOf(a) /\ Stands(a)
BY StepStands, Facts DEF Next, StepOf

\* So every handler stays at the awaits of its kind.
LEMMA PlacedStep == ServerInv /\ Placed /\ [Next]_vars => Placed'
<1> SUFFICES ASSUME ServerInv, Placed, [Next]_vars PROVE Placed'
  OBVIOUS
<1>1. CASE UNCHANGED vars
  BY <1>1 DEF vars, Placed
<1>2. CASE Crash
  BY <1>2 DEF Crash, Placed, WorkerLabels, Actors
<1>3. ASSUME NEW a \in Actors, Stands(a) PROVE Placed'
  BY <1>3, ActorsAssumption DEF Placed, Stands, OthersStand, Actors, WorkerLabels
<1> QED
  BY <1>1, <1>2, <1>3, NextStands

\* In every behaviour requests and workers are at labels of their own.
LEMMA PlacedAlways == Spec => []Placed
<1>1. Init => Placed
  BY DEF Init, StoresInit, Placed, WorkerLabels, Actors
<1> QED
  BY <1>1, PlacedStep, ServerInvariant, PTL DEF Spec

\* Nobody takes the section of the head of the queue from it.
LEMMA HolderStays ==
    ASSUME ServerInv, NEW a \in Actors, NEW c \in Actors, c # a, Holds(c), StepOf(a)
    PROVE  Holds(c)'
<1>1. CASE Keeps(a)
  <2>1. PICK l \in Labels : Goes(a, l)
    BY <1>1 DEF Keeps
  <2>2. CASE SameQueue(a, l)
    BY <2>2 DEF SameQueue, Holds
  <2>3. CASE Joins(a, l)
    BY <2>3, Facts, AppendProperties DEF Joins, Enter, Holds
  <2> QED
    BY <2>1, <2>2, <2>3 DEF Goes, Leaves, JoinsAgain, Holds
<1>2. CASE PreEvalBegin(a) \/ PreEvalEnd(a)
  BY <1>2 DEF PreEvalBegin, PreEvalEnd, Holds
<1> QED
  BY <1>1, <1>2, StepKeeps

----------------------------------------------------------------------------
(***************************************************************************)
(* Which handlers can lose an update of a JSON file.  The persist lock     *)
(* protects its sections from each other and from nobody else: as long as  *)
(* no handler writes a file outside the lock, no snapshot of that file     *)
(* goes stale.                                                             *)
(***************************************************************************)
NoBareMetaWriter == \A a \in Actors : pc[a] \notin BareMeta
NoBareResultsWriter == \A a \in Actors : pc[a] \notin BareResults

----------------------------------------------------------------------------
(***************************************************************************)
(* A step of one handler replaces a file only by what it computed from its *)
(* snapshot, which it gives up, and takes a snapshot only of the file as   *)
(* it is.                                                                  *)
(***************************************************************************)

OthersKeep(a) ==
    \A c \in Actors \ {a} : metaSeen'[c] = metaSeen[c] /\ resultsSeen'[c] = resultsSeen[c]

MetaStep(a) ==
    \/ meta' = meta /\ metaSeen'[a] \subseteq metaSeen[a] \cup {meta}
    \/ metaSeen[a] # {} /\ metaSeen'[a] = {}

ResultsStep(a) ==
    \/ results' = results /\ resultsSeen'[a] \subseteq resultsSeen[a] \cup {results}
    \/ resultsSeen[a] # {} /\ resultsSeen'[a] = {}

StoreStep(a) == OthersKeep(a) /\ MetaStep(a) /\ ResultsStep(a)

\* The four outcomes of the write half of a call, and a step that calls
\* neither file.
LEMMA CallStep ==
    ASSUME ServerInv, NEW a \in Actors, NEW file,
           \/ metaSeen[a] # {} /\ WriteMetadata(a, file)
           \/ metaSeen[a] # {} /\ LeaveMetadata(a)
           \/ resultsSeen[a] # {} /\ WriteResults(a, file)
           \/ resultsSeen[a] # {} /\ LeaveResults(a)
           \/ UNCHANGED <<files, seen>>
    PROVE  StoreStep(a)
<1>1. metaSeen \in [Actors -> SUBSET MetadataFile] /\ resultsSeen \in [Actors -> SUBSET ResultsFile]
  BY Facts DEF Data
<1> QED
  BY <1>1 DEF WriteMetadata, LeaveMetadata, WriteResults, LeaveResults, files, seen,
              StoreStep, OthersKeep, MetaStep, ResultsStep

\* The read half takes its snapshot of the file as it is.
LEMMA ReadStep ==
    ASSUME ServerInv, NEW a \in Actors, ReadMetadata(a) \/ ReadResults(a)
    PROVE  StoreStep(a)
<1>1. metaSeen \in [Actors -> SUBSET MetadataFile] /\ resultsSeen \in [Actors -> SUBSET ResultsFile]
  BY Facts DEF Data
<1> QED
  BY <1>1 DEF ReadMetadata, ReadResults, files, StoreStep, OthersKeep, MetaStep, ResultsStep

\* Batch execution writes a file only from its snapshot of it.
LEMMA ProcessStores ==
    ASSUME ServerInv, NEW b \in Requests, ProcessList(b) \/ ProcessStep(b)
    PROVE  StoreStep(b)
<1>1. b \in Actors
  BY Facts
<1>2. CASE ProcessList(b) \/ ProcessBegin(b) \/ ProcessExecute(b) \/ ProcessAnswered(b)
  BY <1>1, <1>2, CallStep DEF ProcessList, ProcessBegin, ProcessExecute, ProcessAnswered, seen
<1>3. CASE ProcessStart(b) \/ ProcessCaught(b)
  BY <1>1, <1>3, CallStep DEF ProcessStart, ProcessCaught, ProcessAbort
<1>4. CASE ProcessExecuted(b) \/ ProcessFailed(b)
  BY <1>1, <1>4, CallStep DEF ProcessExecuted, ProcessFailed, ProcessMark
<1>5. CASE ProcessStore(b) \/ ProcessStoreFailure(b)
  BY <1>1, <1>5, CallStep DEF ProcessStore, ProcessStoreFailure
<1>6. CASE ProcessClearError(b) \/ ProcessNoteFailure(b) \/ ProcessNoteCaught(b)
  BY <1>1, <1>6, CallStep DEF ProcessClearError, ProcessNoteFailure, ProcessNoteCaught
<1> QED
  BY <1>2, <1>3, <1>4, <1>5, <1>6 DEF ProcessStep

\* So does the request of a batch pre-evaluation, its calibration included,
LEMMA PreEvaluateStores ==
    ASSUME ServerInv, NEW e \in Requests, PreEvalArrive(e) \/ PreEvalStep(e)
    PROVE  StoreStep(e)
<1>1. e \in Actors
  BY Facts
<1>2. CASE PreEvalArrive(e) \/ PreEvalList(e) \/ PreEvalBegin(e) \/ PreEvalEnd(e)
  BY <1>1, <1>2, CallStep DEF PreEvalArrive, PreEvalList, PreEvalBegin, PreEvalEnd, seen
<1>3. CASE CalibrateCohort(e)
  BY <1>1, <1>3, CallStep DEF CalibrateCohort
<1> QED
  BY <1>2, <1>3 DEF PreEvalStep

\* and so do its workers.
LEMMA WorkerStores ==
    ASSUME ServerInv, NEW w \in Workers, WorkerStep(w)
    PROVE  StoreStep(w)
<1>1. w \in Actors
  BY Facts
<1>2. CASE RowNext(w) \/ RowLook(w) \/ RowAsk(w)
  BY <1>1, <1>2, CallStep DEF RowNext, RowLook, RowAsk, seen
<1>3. CASE RowStore(w)
  BY <1>1, <1>3, CallStep DEF RowStore
<1>4. CASE RowFlip(w)
  BY <1>1, <1>4, CallStep DEF RowFlip
<1> QED
  BY <1>2, <1>3, <1>4 DEF WorkerStep

\* The reset of pre-evaluations holds a snapshot of results.json while it
\* writes metadata.json.
LEMMA ResetPreStores ==
    ASSUME ServerInv, NEW x \in Requests, ResetPreArrive(x) \/ ResetPreStep(x)
    PROVE  StoreStep(x)
<1>1. /\ x \in Actors
      /\ metaSeen \in [Actors -> SUBSET MetadataFile]
      /\ resultsSeen \in [Actors -> SUBSET ResultsFile]
  BY Facts DEF Data
<1>2. CASE ResetPreArrive(x) \/ ResetPreList(x) \/ ResetPrePick(x)
  BY <1>1, <1>2, CallStep DEF ResetPreArrive, ResetPreList, ResetPrePick, seen
<1>3. CASE ResetPreLoad(x)
  BY <1>1, <1>3 DEF ResetPreLoad, files, StoreStep, OthersKeep, MetaStep, ResultsStep
<1>4. CASE ResetPreFlip(x)
  BY <1>1, <1>4 DEF ResetPreFlip, WriteMetadata, files, StoreStep, OthersKeep, MetaStep, ResultsStep
<1>5. CASE ResetPreWrite(x)
  BY <1>1, <1>5, CallStep DEF ResetPreWrite
<1> QED
  BY <1>2, <1>3, <1>4, <1>5 DEF ResetPreStep

\* So does every route on one row: what it lacks is the lock.
LEMMA TeacherStores ==
    ASSUME ServerInv, NEW t \in Requests, TeacherCall(t) \/ TeacherStep(t)
    PROVE  StoreStep(t)
<1>1. /\ t \in Actors
      /\ metaSeen \in [Actors -> SUBSET MetadataFile]
      /\ resultsSeen \in [Actors -> SUBSET ResultsFile]
  BY Facts DEF Data
<1>2. CASE TeacherCall(t)
  BY <1>1, <1>2, CallStep
  DEF TeacherCall, SaveArrive, GradeArrive, ResetArrive, ImportArrive, ArchiveArrive,
      RestoreArrive, UploadArrive, DeleteArrive, RunArrive, Arrive
<1>3. CASE Save(t) \/ GradeStatus(t) \/ GradeMark(t) \/ Reset(t) \/ ImportUpsert(t) \/ ImportSave(t)
  BY <1>1, <1>3, CallStep
  DEF Save, GradeStatus, GradeMark, Reset, ImportUpsert, ImportSave, Attempt, AttemptLast
<1>4. CASE ArchiveLook(t) \/ RestoreLook(t) \/ RunExecute(t)
  BY <1>1, <1>4, CallStep DEF ArchiveLook, RestoreLook, RunExecute, seen
<1>5. CASE ArchiveStatus(t) \/ RestoreStatus(t) \/ ArchiveMark(t) \/ RestoreMark(t)
  BY <1>1, <1>5, CallStep
  DEF ArchiveStatus, RestoreStatus, ArchiveMark, RestoreMark, WriteBack, AttemptLast
<1>6. CASE UploadFile(t) \/ DeleteFile(t)
  BY <1>1, <1>6 DEF UploadFile, DeleteFile, seen, StoreStep, OthersKeep, MetaStep, ResultsStep
<1>7. CASE UploadUpsert(t) \/ DeleteRecord(t)
  BY <1>1, <1>7, CallStep DEF UploadUpsert, DeleteRecord, Attempt, AttemptLast
<1>8. CASE UploadClear(t) \/ DeleteResult(t)
  BY <1>1, <1>8, CallStep DEF UploadClear, DeleteResult, ClearCall
<1>9. CASE RunStart(t) \/ RunExecuted(t)
  BY <1>1, <1>9, CallStep DEF RunStart, RunExecuted, Try
<1>10. CASE RunStore(t)
  BY <1>1, <1>10, CallStep DEF RunStore
<1>11. CASE RunClearError(t) \/ RunCaught(t) \/ RunNoteCaught(t)
  BY <1>1, <1>11, CallStep DEF RunClearError, RunCaught, RunNoteCaught, Attempt, AttemptLast
<1> QED
  BY <1>2, <1>3, <1>4, <1>5, <1>6, <1>7, <1>8, <1>9, <1>10, <1>11 DEF TeacherStep

\* Every step of a handler is such a step,
LEMMA StepStores ==
    ASSUME ServerInv, NEW a \in Actors, StepOf(a)
    PROVE  StoreStep(a)
BY ReadStep, ProcessStores, PreEvaluateStores, WorkerStores, ResetPreStores, TeacherStores
DEF StepOf, ClientCall, RequestStep, WorkStep

\* and every other step a crash.
LEMMA NextStores ==
    ASSUME ServerInv, Next
    PROVE  Crash \/ \E a \in Actors : StoreStep(a)
BY StepStores, Facts DEF Next, StepOf

----------------------------------------------------------------------------
(***************************************************************************)
(* Nobody but the head of the queue holds a snapshot, so the one who       *)
(* replaces the file is the only one who had read it.                      *)
(***************************************************************************)

\* Without a writer outside the lock, no step makes a snapshot of
\* metadata.json stale,
LEMMA MetadataFreshStep ==
    ASSUME ServerInv, NoBareMetaWriter, MetadataFresh, [Next]_vars
    PROVE  MetadataFresh'
<1>1. CASE UNCHANGED vars
  BY <1>1 DEF vars, MetadataFresh
<1>2. CASE Crash
  BY <1>2 DEF Crash, MetadataFresh
<1>3. ASSUME NEW a \in Actors, StoreStep(a) PROVE MetadataFresh'
  <2>1. \A c \in Actors : metaSeen[c] # {} => Holds(c)
    BY Facts DEF NoBareMetaWriter, MetaCalls, Section
  <2>2. metaSeen[a] # {} => \A c \in Actors \ {a} : metaSeen[c] = {}
    BY <2>1 DEF Holds
  <2> QED
    BY <1>3, <2>2 DEF MetadataFresh, StoreStep, OthersKeep, MetaStep
<1> QED
  BY <1>1, <1>2, <1>3, NextStores

\* and none one of results.json.
LEMMA ResultsFreshStep ==
    ASSUME ServerInv, NoBareResultsWriter, ResultsFresh, [Next]_vars
    PROVE  ResultsFresh'
<1>1. CASE UNCHANGED vars
  BY <1>1 DEF vars, ResultsFresh
<1>2. CASE Crash
  BY <1>2 DEF Crash, ResultsFresh
<1>3. ASSUME NEW a \in Actors, StoreStep(a) PROVE ResultsFresh'
  <2>1. \A c \in Actors : resultsSeen[c] # {} => Holds(c)
    BY Facts DEF NoBareResultsWriter, Holding, ResultsCalls, Section, SectionMeta
  <2>2. resultsSeen[a] # {} => \A c \in Actors \ {a} : resultsSeen[c] = {}
    BY <2>1 DEF Holds
  <2> QED
    BY <1>3, <2>2 DEF ResultsFresh, StoreStep, OthersKeep, ResultsStep
<1> QED
  BY <1>1, <1>2, <1>3, NextStores

\* An update of metadata.json is lost only to a handler that writes the file
\* outside the lock: while there is none, every snapshot is the file.
THEOREM MetadataLostOnlyOutside == Spec /\ []NoBareMetaWriter => []MetadataFresh
<1>1. Init => MetadataFresh
  BY DEF Init, StoresInit, MetadataFresh
<1>2. ServerInv /\ NoBareMetaWriter /\ MetadataFresh /\ [Next]_vars => MetadataFresh'
  BY MetadataFreshStep
<1> QED
  BY <1>1, <1>2, ServerInvariant, PTL DEF Spec

\* The same for results.json, whose writers outside the lock are the cohort
\* calibration, upload, delete and the run of a single row.
THEOREM ResultsLostOnlyOutside == Spec /\ []NoBareResultsWriter => []ResultsFresh
<1>1. Init => ResultsFresh
  BY DEF Init, StoresInit, ResultsFresh
<1>2. ServerInv /\ NoBareResultsWriter /\ ResultsFresh /\ [Next]_vars => ResultsFresh'
  BY ResultsFreshStep
<1> QED
  BY <1>1, <1>2, ServerInvariant, PTL DEF Spec

----------------------------------------------------------------------------
(***************************************************************************)
(* The batch routes among themselves.                                      *)
(***************************************************************************)

BatchRoutes == {"process", "preEvaluate", "resetPreEval"}

\* Where only the routes on one row lead.
TeacherLabels ==
    BareMeta \cup (BareResults \ {"calibrate"})
      \cup {"archive.look", "restore.look", "upload.file", "delete.file", "run.execute"}

OnlyBatches == \A a \in Actors : pc[a] \notin TeacherLabels

\* A step that sends one handler, or none, to a label of a batch route.
BatchStep(a) == \E l \in Labels \ TeacherLabels : pc' = [pc EXCEPT ![a] = l]

\* Where the batch routes lead.
LEMMA BatchLabels ==
    \A l \in Section \cup {"calibrate", "idle", "process.begin", "process.execute", "process.answered", "preEval.list",
                           "preEval.begin", "preEval.rows", "row.next", "row.look", "row.ask",
                           "resetPre.list", "resetPre.pick"} :
        l \in Labels \ TeacherLabels
BY DEF Labels, Other, Section, SectionMeta, SectionResults, BareMeta, BareResults, TeacherLabels

\* A batch execution leads to no route on one row,
LEMMA ProcessStaysBatch ==
    ASSUME NEW b \in Requests, ProcessList(b) \/ ProcessStep(b)
    PROVE  BatchStep(b)
<1>1. \A l \in {"idle", "process.begin", "process.start", "process.execute", "process.answered",
                "process.executed", "process.store", "process.clearError", "process.failed", "process.noteFailure",
                "process.storeFailure", "process.caught", "process.noteCaught"} :
        l \in Labels \ TeacherLabels
  BY BatchLabels DEF Section, SectionMeta, SectionResults
<1>2. CASE ProcessList(b) \/ ProcessBegin(b) \/ ProcessExecute(b) \/ ProcessAnswered(b)
  BY <1>1, <1>2 DEF ProcessList, ProcessBegin, ProcessExecute, ProcessAnswered, GoTo, BatchStep
<1>3. CASE ProcessStart(b) \/ ProcessCaught(b)
  BY <1>1, <1>3 DEF ProcessStart, ProcessCaught, ProcessAbort, GoTo, Finish, BatchStep
<1>4. CASE ProcessExecuted(b) \/ ProcessFailed(b)
  BY <1>1, <1>4 DEF ProcessExecuted, ProcessFailed, ProcessMark, GoTo, BatchStep
<1>5. CASE ProcessStore(b) \/ ProcessNoteFailure(b)
  BY <1>1, <1>5 DEF ProcessStore, ProcessNoteFailure, GoTo, BatchStep
<1>6. CASE ProcessStoreFailure(b) \/ ProcessClearError(b) \/ ProcessNoteCaught(b)
  BY <1>1, <1>6 DEF ProcessStoreFailure, ProcessClearError, ProcessNoteCaught, ProcessNext,
                    GoTo, Finish, BatchStep
<1> QED
  BY <1>2, <1>3, <1>4, <1>5, <1>6 DEF ProcessStep

\* nor does a pre-evaluation or a reset of pre-evaluations,
LEMMA EvaluationStaysBatch ==
    ASSUME NEW e \in Requests,
           PreEvalArrive(e) \/ PreEvalList(e) \/ PreEvalEnd(e) \/ CalibrateCohort(e)
             \/ ResetPreArrive(e) \/ ResetPreStep(e)
    PROVE  BatchStep(e)
<1>1. \A l \in {"idle", "calibrate", "preEval.list", "preEval.begin", "resetPre.list",
                "resetPre.pick", "resetPre.load", "resetPre.flip", "resetPre.write"} :
        l \in Labels \ TeacherLabels
  BY BatchLabels DEF Section, SectionMeta
<1>2. CASE PreEvalArrive(e) \/ PreEvalList(e) \/ PreEvalEnd(e) \/ CalibrateCohort(e)
  BY <1>1, <1>2 DEF PreEvalArrive, PreEvalList, PreEvalEnd, CalibrateCohort, GoTo, Finish, BatchStep
<1>3. CASE ResetPreArrive(e) \/ ResetPreList(e) \/ ResetPrePick(e)
  BY <1>1, <1>3 DEF ResetPreArrive, ResetPreList, ResetPrePick, ResetPreEnter, GoTo, Finish, BatchStep
<1>4. CASE ResetPreLoad(e) \/ ResetPreFlip(e) \/ ResetPreWrite(e)
  BY <1>1, <1>4 DEF ResetPreLoad, ResetPreFlip, ResetPreWrite, GoTo, Finish, BatchStep
<1> QED
  BY <1>2, <1>3, <1>4 DEF ResetPreStep

\* nor a worker.
LEMMA WorkerStaysBatch ==
    ASSUME NEW w \in Workers, WorkerStep(w)
    PROVE  BatchStep(w)
<1>1. \A l \in {"idle", "row.next", "row.look", "row.ask", "row.store", "row.flip"} :
        l \in Labels \ TeacherLabels
  BY BatchLabels DEF Section, SectionMeta, SectionResults
<1> QED
  BY <1>1 DEF WorkerStep, RowNext, RowLook, RowAsk, RowStore, RowFlip, RowSettled, GoTo, Finish, BatchStep

\* The routes on one row are not called, and nothing else leads to them.
LEMMA NoTeacher ==
    ASSUME Routes \subseteq BatchRoutes, OnlyBatches, NEW t \in Requests, t \in Actors
    PROVE  ~TeacherCall(t) /\ ~TeacherStep(t)
<1>1. ~TeacherCall(t)
  BY DEF BatchRoutes, TeacherCall, SaveArrive, GradeArrive, ResetArrive, ImportArrive,
         ArchiveArrive, RestoreArrive, UploadArrive, DeleteArrive, RunArrive, Arrive
<1>2. pc[t] \notin TeacherLabels
  BY DEF OnlyBatches
<1>3. ~TeacherStep(t)
  BY <1>2 DEF TeacherLabels, BareMeta, BareResults, TeacherStep,
         Save, GradeStatus, GradeMark, Reset, ImportUpsert, ImportSave,
         ArchiveLook, ArchiveStatus, ArchiveMark, RestoreLook, RestoreStatus, RestoreMark, WriteBack,
         UploadFile, UploadUpsert, UploadClear, DeleteFile, DeleteResult, DeleteRecord,
         RunStart, RunExecute, RunExecuted, RunStore, RunClearError, RunCaught, RunNoteCaught
<1> QED
  BY <1>1, <1>3

\* When only batch routes are called, only they are ever in flight.
LEMMA OnlyBatchesStep ==
    ASSUME Routes \subseteq BatchRoutes, ServerInv, OnlyBatches, [Next]_vars
    PROVE  OnlyBatches'
<1>0. pc \in [Actors -> Labels] /\ Requests \subseteq Actors /\ Workers \subseteq Actors
  BY Facts
<1>1. CASE UNCHANGED vars
  BY <1>1 DEF vars, OnlyBatches
<1>2. CASE Crash
  BY <1>2, BatchLabels DEF Crash, OnlyBatches
<1>3. ASSUME NEW a \in Actors, BatchStep(a) PROVE OnlyBatches'
  BY <1>0, <1>3 DEF BatchStep, OnlyBatches
<1>4. ASSUME NEW a \in Actors, ReadMetadata(a) \/ ReadResults(a) PROVE OnlyBatches'
  BY <1>4 DEF ReadMetadata, ReadResults, OnlyBatches
<1>5. ASSUME NEW e \in Requests, PreEvalBegin(e) PROVE OnlyBatches'
  <2>1. CASE Finish(e)
    BY <1>0, <2>1, BatchLabels DEF Finish, OnlyBatches
  <2>2. CASE pc' = [a \in Actors |-> IF a = e THEN "preEval.rows"
                                     ELSE IF a \in Started(e) THEN "row.next" ELSE pc[a]]
    BY <1>0, <2>2, BatchLabels DEF OnlyBatches
  <2> QED
    BY <1>5, <2>1, <2>2 DEF PreEvalBegin
<1>6. ASSUME NEW r \in Requests, ClientCall(r) \/ RequestStep(r) PROVE OnlyBatches'
  <2>1. r \in Actors /\ ~TeacherCall(r) /\ ~TeacherStep(r)
    BY <1>0, NoTeacher
  <2> QED
    BY <1>3, <1>4, <1>5, <1>6, <2>1, ProcessStaysBatch, EvaluationStaysBatch
    DEF ClientCall, RequestStep, PreEvalStep
<1>7. ASSUME NEW w \in Workers, WorkStep(w) PROVE OnlyBatches'
  BY <1>0, <1>3, <1>4, <1>7, WorkerStaysBatch DEF WorkStep
<1> QED
  BY <1>1, <1>2, <1>6, <1>7 DEF Next

\* While clients call only the batch routes, no update of metadata.json is
\* lost: every one of their writes is inside the persist lock.
THEOREM BatchesLoseNoMetadata ==
    ASSUME Routes \subseteq BatchRoutes
    PROVE  Spec => []MetadataFresh
<1>1. Init => OnlyBatches
  BY BatchLabels DEF Init, StoresInit, OnlyBatches
<1>2. ServerInv /\ OnlyBatches /\ [Next]_vars => OnlyBatches'
  BY OnlyBatchesStep
<1>3. OnlyBatches => NoBareMetaWriter
  BY DEF OnlyBatches, TeacherLabels, NoBareMetaWriter
<1> QED
  BY <1>1, <1>2, <1>3, ServerInvariant, MetadataLostOnlyOutside, PTL DEF Spec

----------------------------------------------------------------------------
(***************************************************************************)
(* One request at a time: a teacher who works alone.                       *)
(***************************************************************************)

OneRequest == \A d, e \in Requests : d = e

\* A second holder of a snapshot would be a worker beside its own request,
\* which then only waits, or beside the other worker, in the same queue.
LEMMA SoleHolder ==
    ASSUME OneRequest, ServerInv, Placed, NEW a \in Actors, NEW c \in Actors, a # c
    PROVE  /\ metaSeen[a] = {} \/ metaSeen[c] = {}
           /\ resultsSeen[a] = {} \/ resultsSeen[c] = {}
<1>1. \A b \in Actors : metaSeen[b] # {} \/ resultsSeen[b] # {} =>
          /\ pc[b] \in MetaCalls \cup Holding
          /\ pc[b] \in Section => Holds(b)
  BY Facts
<1>2. SUFFICES ASSUME metaSeen[a] # {} \/ resultsSeen[a] # {}, metaSeen[c] # {} \/ resultsSeen[c] # {}
               PROVE  FALSE
  OBVIOUS
<1>3. \A b \in {a, c} : pc[b] \notin {"idle", "preEval.rows"}
  BY <1>1, <1>2 DEF MetaCalls, Holding, ResultsCalls, SectionMeta, SectionResults, BareMeta, BareResults
<1>4. \A b \in {a, c} \cap Workers : b[1] \in Requests /\ pc[b[1]] = "preEval.rows"
  BY <1>3 DEF ServerInv, RunSlotExclusive, Workers
<1>5. CASE a \in Requests /\ c \in Requests
  BY <1>5 DEF OneRequest
<1>6. CASE (a \in Requests /\ c \in Workers) \/ (a \in Workers /\ c \in Requests)
  BY <1>3, <1>4, <1>6 DEF OneRequest
<1>7. CASE a \in Workers /\ c \in Workers
  <2>1. \A b \in Workers : pc[b] \notin BareMeta \cup BareResults
    BY DEF Placed, WorkerLabels, BareMeta, BareResults
  <2>2. \A b \in {a, c} : pc[b] \in Section
    BY <1>1, <1>2, <1>7, <2>1 DEF MetaCalls, Holding, ResultsCalls, Section, SectionMeta, SectionResults
  <2> QED
    BY <1>1, <1>2, <2>2 DEF Holds
<1> QED
  BY <1>5, <1>6, <1>7 DEF Actors

\* An actor who replaces a file is the only one who has read it.
LEMMA AloneFreshStep ==
    ASSUME OneRequest, ServerInv, Placed, MetadataFresh, ResultsFresh, [Next]_vars
    PROVE  MetadataFresh' /\ ResultsFresh'
<1>1. CASE UNCHANGED vars
  BY <1>1 DEF vars, MetadataFresh, ResultsFresh
<1>2. CASE Crash
  BY <1>2 DEF Crash, MetadataFresh, ResultsFresh
<1>3. ASSUME NEW a \in Actors, StoreStep(a) PROVE MetadataFresh' /\ ResultsFresh'
  <2>1. \A c \in Actors \ {a} : /\ metaSeen[a] # {} => metaSeen[c] = {}
                                /\ resultsSeen[a] # {} => resultsSeen[c] = {}
    BY SoleHolder
  <2>2. MetadataFresh'
    BY <1>3, <2>1 DEF MetadataFresh, StoreStep, OthersKeep, MetaStep
  <2>3. ResultsFresh'
    BY <1>3, <2>1 DEF ResultsFresh, StoreStep, OthersKeep, ResultsStep
  <2> QED
    BY <2>2, <2>3
<1> QED
  BY <1>1, <1>2, <1>3, NextStores

\* A teacher who works alone loses nothing, whichever routes are called: with
\* one request in flight no snapshot of either file ever goes stale, not even
\* those taken outside the lock.
THEOREM AloneLosesNothing ==
    ASSUME OneRequest
    PROVE  Spec => [](MetadataFresh /\ ResultsFresh)
<1>1. Init => MetadataFresh /\ ResultsFresh
  BY DEF Init, StoresInit, MetadataFresh, ResultsFresh
<1>2. ServerInv /\ Placed /\ MetadataFresh /\ ResultsFresh /\ [Next]_vars
        => MetadataFresh' /\ ResultsFresh'
  BY AloneFreshStep
<1> QED
  BY <1>1, <1>2, ServerInvariant, PlacedAlways, PTL DEF Spec
=============================================================================
