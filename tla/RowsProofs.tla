----------------------------- MODULE RowsProofs -----------------------------
(***************************************************************************)
(* What becomes of the rows of a cohort: who owns a row that is executing, *)
(* what stands behind a row that is pre-evaluated, graded or archived, and *)
(* how the rows of a batch are accounted for.                              *)
(***************************************************************************)
EXTENDS SubmissionServerProofs

----------------------------------------------------------------------------
(***************************************************************************)
(* What an operation on metadata.json writes: one row, and of that row     *)
(* only the fields of its patch.                                           *)
(***************************************************************************)

\* updateStatus writes the status of one row.
LEMMA SetStatusRow ==
    ASSUME NEW f \in MetadataFile, NEW s \in Students, NEW to \in Status
    PROVE  /\ \A t \in Students \ {s} : SetStatus(f, s, to)[t] = f[t]
           /\ SetStatus(f, s, to)[s].status = to
           /\ SetStatus(f, s, to)[s].teacherGrade = f[s].teacherGrade
           /\ SetStatus(f, s, to)[s].grading = f[s].grading
           /\ SetStatus(f, s, to)[s].archivedFrom = f[s].archivedFrom
BY DEF MetadataFile, Submission, SetStatus

\* upsertSubmission starts from the row, or from a pending one with nothing
\* filled in.
LEMMA UpsertBaseRow ==
    ASSUME NEW f \in MetadataFile, NEW s \in Students
    PROVE  /\ UpsertBase(f, s) \in Submission
           /\ UpsertBase(f, s).status # "absent"
           /\ Exists(f, s) => UpsertBase(f, s) = f[s]
           /\ ~Exists(f, s) => /\ UpsertBase(f, s).status = "pending"
                               /\ UpsertBase(f, s).teacherGrade = FALSE
                               /\ UpsertBase(f, s).grading = {}
                               /\ UpsertBase(f, s).archivedFrom = "none"
BY UpsertBaseType, NoSubmissionType DEF UpsertBase, Exists, MetadataFile, Submission, NoSubmission

\* The patch that notes or clears an error leaves the rest of the row.
LEMMA UpsertErrorRow ==
    ASSUME NEW f \in MetadataFile, NEW s \in Students, NEW e
    PROVE  /\ \A t \in Students \ {s} : UpsertError(f, s, e)[t] = f[t]
           /\ UpsertError(f, s, e)[s].status = UpsertBase(f, s).status
           /\ UpsertError(f, s, e)[s].teacherGrade = UpsertBase(f, s).teacherGrade
           /\ UpsertError(f, s, e)[s].grading = UpsertBase(f, s).grading
           /\ UpsertError(f, s, e)[s].archivedFrom = UpsertBase(f, s).archivedFrom
BY UpsertBaseRow DEF MetadataFile, Submission, UpsertError

\* So it leaves the status of a row that is there.
LEMMA NotesError ==
    ASSUME NEW f \in MetadataFile, NEW s \in Students, NEW e, NEW t \in Students
    PROVE  /\ Exists(f, t) => UpsertError(f, s, e)[t].status = f[t].status
           /\ ~Exists(f, t) => UpsertError(f, s, e)[t].status \in {"absent", "pending"}
           /\ Exists(f, s) => UpsertError(f, s, e)[t].status = f[t].status
<1>1. /\ UpsertError(f, s, e)[s].status = UpsertBase(f, s).status
      /\ t # s => UpsertError(f, s, e)[t] = f[t]
  BY UpsertErrorRow
<1>2. /\ Exists(f, s) => UpsertBase(f, s) = f[s]
      /\ ~Exists(f, s) => UpsertBase(f, s).status = "pending"
  BY UpsertBaseRow
<1> QED
  BY <1>1, <1>2 DEF Exists

\* The grade route's patch.
LEMMA UpsertGradeRow ==
    ASSUME NEW f \in MetadataFile, NEW s \in Students
    PROVE  /\ \A t \in Students \ {s} : UpsertGrade(f, s)[t] = f[t]
           /\ UpsertGrade(f, s)[s].status = UpsertBase(f, s).status
           /\ UpsertGrade(f, s)[s].teacherGrade = TRUE
           /\ UpsertGrade(f, s)[s].grading = UpsertBase(f, s).grading
           /\ UpsertGrade(f, s)[s].archivedFrom = UpsertBase(f, s).archivedFrom
BY UpsertBaseRow DEF MetadataFile, Submission, UpsertGrade

\* The upload's patch.
LEMMA UpsertUploadRow ==
    ASSUME NEW f \in MetadataFile, NEW s \in Students
    PROVE  /\ \A t \in Students \ {s} : UpsertUpload(f, s)[t] = f[t]
           /\ UpsertUpload(f, s)[s].status = "pending"
           /\ UpsertUpload(f, s)[s].teacherGrade = UpsertBase(f, s).teacherGrade
           /\ UpsertUpload(f, s)[s].grading = UpsertBase(f, s).grading
           /\ UpsertUpload(f, s)[s].archivedFrom = UpsertBase(f, s).archivedFrom
BY UpsertBaseRow DEF MetadataFile, Submission, UpsertUpload

\* The import's patch.
LEMMA UpsertImportRow ==
    ASSUME NEW f \in MetadataFile, NEW s \in Students, NEW g
    PROVE  /\ \A t \in Students \ {s} : UpsertImport(f, s, g)[t] = f[t]
           /\ UpsertImport(f, s, g)[s].status
                = IF g THEN "graded" ELSE UpsertBase(f, s).status
           /\ UpsertImport(f, s, g)[s].teacherGrade = g
           /\ UpsertImport(f, s, g)[s].grading = UpsertBase(f, s).grading
           /\ UpsertImport(f, s, g)[s].archivedFrom = UpsertBase(f, s).archivedFrom
BY UpsertBaseRow DEF MetadataFile, Submission, UpsertImport

\* saveGrading, resetSubmission and removeSubmission.
LEMMA SaveGradingRow ==
    ASSUME NEW f \in MetadataFile, NEW s \in Students, NEW keys \in SUBSET Keys
    PROVE  /\ \A t \in Students \ {s} : SaveGrading(f, s, keys)[t] = f[t]
           /\ SaveGrading(f, s, keys)[s].status = f[s].status
           /\ SaveGrading(f, s, keys)[s].teacherGrade = f[s].teacherGrade
           /\ SaveGrading(f, s, keys)[s].grading = f[s].grading \cup keys
           /\ SaveGrading(f, s, keys)[s].archivedFrom = f[s].archivedFrom
BY DEF MetadataFile, Submission, SaveGrading

\* resetSubmission makes one row executed and clears its grade.
LEMMA ResetRow ==
    ASSUME NEW f \in MetadataFile, NEW s \in Students
    PROVE  /\ \A t \in Students \ {s} : ResetSubmission(f, s)[t] = f[t]
           /\ ResetSubmission(f, s)[s].status = "executed"
           /\ ResetSubmission(f, s)[s].teacherGrade = FALSE
           /\ ResetSubmission(f, s)[s].grading = {}
           /\ ResetSubmission(f, s)[s].archivedFrom = f[s].archivedFrom
BY DEF MetadataFile, Submission, ResetSubmission

\* removeSubmission makes one row absent.
LEMMA RemoveRow ==
    ASSUME NEW f \in MetadataFile, NEW s \in Students
    PROVE  /\ \A t \in Students \ {s} : RemoveSubmission(f, s)[t] = f[t]
           /\ RemoveSubmission(f, s)[s].status = "absent"
           /\ RemoveSubmission(f, s)[s].teacherGrade = FALSE
           /\ RemoveSubmission(f, s)[s].grading = {}
           /\ RemoveSubmission(f, s)[s].archivedFrom = "none"
BY DEF MetadataFile, Submission, NoSubmission, RemoveSubmission

\* Of the status of a row, the operations of the routes on one row make:
LEMMA TeacherStatuses ==
    ASSUME NEW f \in MetadataFile, NEW s \in Students, NEW t \in Students
    PROVE  /\ UpsertGrade(f, s)[t].status \in {f[t].status, "pending"}
           /\ UpsertUpload(f, s)[t].status \in {f[t].status, "pending"}
           /\ \A g : UpsertImport(f, s, g)[t].status \in {f[t].status, "pending", "graded"}
           /\ ResetSubmission(f, s)[t].status \in {f[t].status, "executed"}
           /\ RemoveSubmission(f, s)[t].status \in {f[t].status, "absent"}
<1>1. UpsertBase(f, s).status \in {f[s].status, "pending"}
  BY UpsertBaseRow
<1>2. UpsertGrade(f, s)[t].status \in {f[t].status, "pending"}
  BY <1>1, UpsertGradeRow
<1>3. UpsertUpload(f, s)[t].status \in {f[t].status, "pending"}
  BY UpsertUploadRow
<1>4. ASSUME NEW g
      PROVE  UpsertImport(f, s, g)[t].status \in {f[t].status, "pending", "graded"}
  <2>1. CASE t = s
    <3>1. UpsertImport(f, s, g)[s].status = IF g THEN "graded" ELSE UpsertBase(f, s).status
      BY UpsertImportRow
    <3> QED
      BY <1>1, <2>1, <3>1
  <2>2. CASE t # s
    <3>1. UpsertImport(f, s, g)[t] = f[t]
      BY <2>2, UpsertImportRow
    <3> QED
      BY <3>1
  <2> QED
    BY <2>1, <2>2
<1>5. ResetSubmission(f, s)[t].status \in {f[t].status, "executed"}
  BY DEF ResetSubmission, MetadataFile, Submission
<1>6. RemoveSubmission(f, s)[t].status \in {f[t].status, "absent"}
  BY RemoveRow
<1> QED
  BY <1>2, <1>3, <1>4, <1>5, <1>6

----------------------------------------------------------------------------
(***************************************************************************)
(* A row that is executing has an owner.  A step makes a row executing     *)
(* only on its way to where the mover owns it, and an owner goes away only *)
(* from a row that is executing no more.                                   *)
(***************************************************************************)
Owning == {"process.execute", "process.answered", "process.executed", "process.failed", "process.caught",
           "run.execute", "run.executed", "run.caught"}

RestoreLabels == {"restore.look", "restore.status", "restore.mark"}

\* Nobody restores a row, and the record an archive is about to write back
\* says that the row is archived.
NoRestore ==
    \A r \in Actors :
        /\ pc[r] \notin RestoreLabels
        /\ pc[r] = "archive.mark" => loc[r].kept.status = "archived"

OwnedStep(a) ==
    /\ \A s \in Students : meta'[s].status = "executing" =>
          meta[s].status = "executing" \/ (pc'[a] \in Owning /\ loc'[a].on = s)
    /\ pc[a] \in Owning =>
          \/ pc'[a] \in Owning /\ loc'[a].on = loc[a].on
          \/ meta'[loc[a].on].status # "executing"
    /\ pc'[a] \notin RestoreLabels
    /\ pc'[a] = "archive.mark" => loc'[a].kept.status = "archived"

\* What is known before such a step.
Typed(a) ==
    /\ a \in Actors
    /\ meta \in MetadataFile
    /\ pc \in [Actors -> Labels]
    /\ loc \in [Actors -> Locals]
    /\ pc[a] \in AtRow => loc[a].on \in Students

Fresh(a) == Typed(a) /\ metaSeen[a] \subseteq {meta}

\* The invariant of the server gives it.
LEMMA TypedFacts ==
    ASSUME ServerInv, NEW a \in Actors
    PROVE  Typed(a)
BY Facts DEF Data, Typed

\* Where no snapshot is stale, that of a handler is the file.
LEMMA FreshFacts ==
    ASSUME ServerInv, MetadataFresh, NEW a \in Actors
    PROVE  Fresh(a)
BY TypedFacts DEF Fresh, MetadataFresh

\* A batch execution takes a row to executing, executes it and settles it.
LEMMA ProcessOwns ==
    ASSUME NEW b \in Requests, Fresh(b), ProcessList(b) \/ ProcessStep(b)
    PROVE  OwnedStep(b)
<1> USE DEF Fresh, Typed, AtRow, Owning, RestoreLabels, OwnedStep, GoTo
<1>1. CASE ProcessList(b) \/ ProcessBegin(b) \/ ProcessExecute(b) \/ ProcessAnswered(b)
  BY <1>1 DEF ProcessList, ProcessBegin, ProcessExecute, ProcessAnswered, files, Locals
<1>2. CASE ProcessStart(b)
  BY <1>2, SetStatusRow DEF ProcessStart, ProcessAbort, WriteMetadata, LeaveMetadata, Finish, files, Status
<1>3. CASE ProcessCaught(b)
  <2>1. CASE WriteMetadata(b, SetStatus(meta, loc[b].on, "error"))
    BY <1>3, <2>1, SetStatusRow DEF ProcessCaught, ProcessAbort, WriteMetadata, LeaveMetadata, Finish, Status
  <2>2. CASE ~CanMove(meta, loc[b].on, "error") /\ ProcessAbort(b)
    <3>1. UNCHANGED meta /\ meta[loc[b].on].status # "executing"
      BY <2>2 DEF ProcessAbort, LeaveMetadata, files, CanMove, Transitions
    <3> QED
      BY <1>3, <2>2, <3>1 DEF ProcessCaught, ProcessAbort, Finish
  <2> QED
    BY <1>3, <2>1, <2>2 DEF ProcessCaught
<1>4. CASE ProcessExecuted(b) \/ ProcessFailed(b)
  BY <1>4, SetStatusRow DEF ProcessExecuted, ProcessFailed, ProcessMark, WriteMetadata, LeaveMetadata, files,
     Status
<1>5. CASE ProcessStore(b)
  BY <1>5 DEF ProcessStore, WriteResults
<1>6. CASE ProcessNoteFailure(b)
  <2>1. \A t \in Students : UpsertError(meta, loc[b].on, TRUE)[t].status = "executing"
                              => meta[t].status = "executing"
    BY <1>6, NotesError DEF ProcessNoteFailure, Exists
  <2> QED
    BY <1>6, <2>1 DEF ProcessNoteFailure, WriteMetadata
<1>7. CASE ProcessStoreFailure(b)
  BY <1>7 DEF ProcessStoreFailure, WriteResults, ProcessNext, Finish
<1>8. CASE ProcessClearError(b) \/ ProcessNoteCaught(b)
  <2>1. PICK e \in BOOLEAN : meta' = UpsertError(meta, loc[b].on, e)
    BY <1>8 DEF ProcessClearError, ProcessNoteCaught, WriteMetadata
  <2>2. \A t \in Students : meta'[t].status = "executing" => meta[t].status = "executing"
    BY <1>8, <2>1, NotesError DEF ProcessClearError, ProcessNoteCaught, Exists
  <2> QED
    BY <1>8, <2>2 DEF ProcessClearError, ProcessNoteCaught, ProcessNext, Finish
<1> QED
  BY <1>1, <1>2, <1>3, <1>4, <1>5, <1>6, <1>7, <1>8 DEF ProcessStep

\* A batch pre-evaluation and a reset of pre-evaluations execute nothing.
LEMMA EvaluationOwns ==
    ASSUME NEW e \in Requests, Fresh(e),
           PreEvalArrive(e) \/ PreEvalStep(e) \/ ResetPreArrive(e) \/ ResetPreStep(e)
    PROVE  OwnedStep(e)
<1> USE DEF Fresh, Typed, AtRow, Owning, RestoreLabels, OwnedStep, GoTo
<1>1. CASE PreEvalArrive(e) \/ PreEvalList(e) \/ PreEvalEnd(e)
  BY <1>1 DEF PreEvalArrive, PreEvalList, PreEvalEnd, Finish, files
<1>2. CASE PreEvalBegin(e)
  BY <1>2 DEF PreEvalBegin, Finish, files
<1>3. CASE CalibrateCohort(e)
  BY <1>3 DEF CalibrateCohort, WriteResults, LeaveResults, Finish, files
<1>4. CASE ResetPreArrive(e) \/ ResetPreList(e) \/ ResetPrePick(e)
  BY <1>4 DEF ResetPreArrive, ResetPreList, ResetPrePick, ResetPreEnter, Finish, files
<1>5. CASE ResetPreLoad(e)
  BY <1>5 DEF ResetPreLoad, files
<1>6. CASE ResetPreFlip(e)
  <2>1. \A s \in Students : meta'[s].status = "executing" => meta[s].status = "executing"
    <3>1. CASE UNCHANGED files
      BY <3>1 DEF files
    <3>2. CASE \E f \in metaSeen[e] : WriteMetadata(e, SetStatus(f, FirstOf(loc[e].left), "executed"))
      BY <3>2 DEF WriteMetadata, SetStatus, MetadataFile, Submission
    <3> QED
      BY <1>6, <3>1, <3>2 DEF ResetPreFlip
  <2> QED
    BY <1>6, <2>1 DEF ResetPreFlip, Finish
<1>7. CASE ResetPreWrite(e)
  BY <1>7 DEF ResetPreWrite, WriteResults, LeaveResults, Finish, files
<1> QED
  BY <1>1, <1>2, <1>3, <1>4, <1>5, <1>6, <1>7 DEF PreEvalStep, ResetPreStep

\* Nor does a worker.
LEMMA WorkerOwns ==
    ASSUME NEW w \in Workers, Fresh(w), WorkerStep(w)
    PROVE  OwnedStep(w)
<1> USE DEF Fresh, Typed, AtRow, Owning, RestoreLabels, OwnedStep, GoTo
<1>1. CASE RowNext(w) \/ RowLook(w) \/ RowAsk(w)
  BY <1>1 DEF RowNext, RowLook, RowAsk, RowSettled, Finish, files
<1>2. CASE RowStore(w)
  BY <1>2 DEF RowStore, RowSettled, WriteResults, LeaveResults, files
<1>3. CASE RowFlip(w)
  BY <1>3, SetStatusRow DEF RowFlip, RowSettled, WriteMetadata, LeaveMetadata, files, Status
<1> QED
  BY <1>1, <1>2, <1>3 DEF WorkerStep

\* Of the routes on one row the run takes a row to executing and settles it,
\* and the others leave it, or take it elsewhere.
LEMMA TeacherOwns ==
    ASSUME NEW t \in Requests, Fresh(t), ~RestoreArrive(t),
           pc[t] \notin RestoreLabels,
           pc[t] = "archive.mark" => loc[t].kept.status = "archived",
           TeacherCall(t) \/ TeacherStep(t)
    PROVE  OwnedStep(t)
<1> USE DEF Fresh, Typed, AtRow, Owning, RestoreLabels, OwnedStep, GoTo
<1>1. CASE TeacherCall(t)
  BY <1>1 DEF TeacherCall, SaveArrive, GradeArrive, ResetArrive, ImportArrive, ArchiveArrive,
      RestoreArrive, UploadArrive, DeleteArrive, RunArrive, Arrive, files
<1>2. CASE Save(t) \/ ImportSave(t)
  BY <1>2, SaveGradingRow DEF Save, ImportSave, AttemptLast, WriteMetadata, LeaveMetadata, Finish, files
<1>3. CASE GradeStatus(t)
  BY <1>3, SetStatusRow DEF GradeStatus, Attempt, WriteMetadata, LeaveMetadata, Finish, files, Status
<1>4. CASE GradeMark(t)
  BY <1>4, TeacherStatuses DEF GradeMark, AttemptLast, WriteMetadata, Finish
<1>5. CASE Reset(t)
  BY <1>5, TeacherStatuses DEF Reset, AttemptLast, WriteMetadata, LeaveMetadata, Finish, files
<1>6. CASE ImportUpsert(t)
  BY <1>6, TeacherStatuses DEF ImportUpsert, Attempt, WriteMetadata, Finish
<1>7. CASE ArchiveLook(t)
  BY <1>7 DEF ArchiveLook, Finish, files
<1>8. CASE ArchiveStatus(t)
  <2>1. CASE LeaveMetadata(t) /\ Finish(t)
    BY <1>8, <2>1 DEF ArchiveStatus, LeaveMetadata, Finish, files
  <2>2. CASE WriteMetadata(t, SetStatus(meta, loc[t].on, "archived"))
    <3>1. loc' = [loc EXCEPT ![t].kept = Moved(t, meta, "archived", @.archivedFrom)] => loc'[t].kept.status = "archived"
      BY <1>8 DEF ArchiveStatus, Moved, MetadataFile, Submission, Locals
    <3> QED
      BY <1>8, <2>2, <3>1, SetStatusRow DEF ArchiveStatus, WriteMetadata, LeaveMetadata, Finish, Status
  <2> QED
    BY <1>8, <2>1, <2>2 DEF ArchiveStatus
<1>9. CASE ArchiveMark(t)
  BY <1>9 DEF ArchiveMark, WriteBack, AttemptLast, MetadataFile, WriteMetadata, Finish
<1>10. CASE UploadFile(t) \/ DeleteFile(t)
  BY <1>10 DEF UploadFile, DeleteFile, Finish
<1>11. CASE UploadUpsert(t)
  BY <1>11, UpsertUploadRow DEF UploadUpsert, Attempt, WriteMetadata, Finish
<1>12. CASE UploadClear(t) \/ DeleteResult(t)
  BY <1>12 DEF UploadClear, DeleteResult, ClearCall, WriteResults, LeaveResults, Finish, files
<1>13. CASE DeleteRecord(t)
  BY <1>13, TeacherStatuses DEF DeleteRecord, AttemptLast, WriteMetadata, LeaveMetadata, Finish, files
<1>14. CASE RunStart(t) \/ RunExecuted(t)
  BY <1>14, SetStatusRow DEF RunStart, RunExecuted, Try, WriteMetadata, LeaveMetadata, files, Status
<1>15. CASE RunExecute(t)
  BY <1>15 DEF RunExecute, files, Locals
<1>16. CASE RunStore(t)
  BY <1>16 DEF RunStore, WriteResults
<1>17. CASE RunCaught(t)
  <2>1. \/ /\ WriteMetadata(t, SetStatus(meta, loc[t].on, "error"))
           /\ GoTo(t, "run.noteCaught") /\ UNCHANGED loc
        \/ ~CanMove(meta, loc[t].on, "error") /\ LeaveMetadata(t) /\ Finish(t)
    BY <1>17 DEF RunCaught, Attempt
  <2>2. CASE WriteMetadata(t, SetStatus(meta, loc[t].on, "error")) /\ GoTo(t, "run.noteCaught") /\ UNCHANGED loc
    BY <1>17, <2>2, SetStatusRow DEF RunCaught, WriteMetadata, Status
  <2>3. CASE ~CanMove(meta, loc[t].on, "error") /\ LeaveMetadata(t) /\ Finish(t)
    <3>1. UNCHANGED meta /\ meta[loc[t].on].status # "executing"
      BY <2>3 DEF LeaveMetadata, files, CanMove, Transitions
    <3> QED
      BY <1>17, <2>3, <3>1 DEF RunCaught, Finish
  <2> QED
    BY <2>1, <2>2, <2>3
<1>18. CASE RunClearError(t) \/ RunNoteCaught(t)
  <2>1. PICK e \in BOOLEAN : meta' = UpsertError(meta, loc[t].on, e)
    BY <1>18 DEF RunClearError, RunNoteCaught, AttemptLast, WriteMetadata
  <2>2. \A s \in Students : meta'[s].status = "executing" => meta[s].status = "executing"
    BY <1>18, <2>1, NotesError DEF RunClearError, RunNoteCaught, Exists
  <2> QED
    BY <1>18, <2>2 DEF RunClearError, RunNoteCaught, AttemptLast, Finish
<1> QED
  BY <1>1, <1>2, <1>3, <1>4, <1>5, <1>6, <1>7, <1>8, <1>9, <1>10, <1>11, <1>12, <1>13, <1>14,
     <1>15, <1>16, <1>17, <1>18 DEF TeacherStep, RestoreLook, RestoreStatus, RestoreMark, WriteBack

\* So every step but a crash is one that leaves the rows owned,
LEMMA StepOwns ==
    ASSUME "restore" \notin Routes, ServerInv, MetadataFresh, NoRestore, NEW a \in Actors, StepOf(a)
    PROVE  OwnedStep(a)
<1>1. Fresh(a) /\ pc[a] \notin RestoreLabels /\ (pc[a] = "archive.mark" => loc[a].kept.status = "archived")
  BY FreshFacts DEF NoRestore
<1>2. CASE ReadMetadata(a) \/ ReadResults(a)
  BY <1>1, <1>2 DEF ReadMetadata, ReadResults, files, OwnedStep
<1>3. ~RestoreArrive(a)
  BY DEF RestoreArrive, Arrive
<1> QED
  BY <1>1, <1>2, <1>3, ProcessOwns, EvaluationOwns, WorkerOwns, TeacherOwns
  DEF StepOf, ClientCall, RequestStep, WorkStep

\* and with the others standing the invariant is kept.
LEMMA OwnedNext ==
    ASSUME ~Crashes, "restore" \notin Routes,
           ServerInv, Placed, MetadataFresh, NoRestore, ExecutingIsOwned, [Next]_vars
    PROVE  NoRestore' /\ ExecutingIsOwned'
<1>1. CASE UNCHANGED vars
  BY <1>1 DEF vars, NoRestore, ExecutingIsOwned
<1>2. ASSUME NEW a \in Actors, StepOf(a), Stands(a) PROVE NoRestore' /\ ExecutingIsOwned'
  <2>1. OwnedStep(a)
    BY <1>2, StepOwns
  <2>2. \A r \in Requests \ {a} : pc'[r] = pc[r] /\ loc'[r].on = loc[r].on
    BY <1>2, ActorsAssumption DEF Stands, OthersStand, Actors
  <2>3. NoRestore'
    <3>1. ASSUME NEW c \in Actors \ {a} PROVE pc'[c] = pc[c] \/ pc'[c] = "row.next"
      BY <1>2 DEF Stands, OthersStand
    <3>2. ASSUME NEW c \in Actors \ {a}, pc[c] = "archive.mark" PROVE loc'[c] = loc[c]
      BY <1>2, <3>2 DEF Stands, OthersStand
    <3> QED
      BY <2>1, <3>1, <3>2 DEF NoRestore, OwnedStep, RestoreLabels
  <2>4. ASSUME NEW s \in Students, meta'[s].status = "executing"
        PROVE  \E r \in Requests : loc'[r].on = s /\ pc'[r] \in Owning
    <3>1. pc'[a] \in Owning => a \in Requests
      BY <1>2 DEF StepOf, Stands, WorkerLabels, Owning, Placed, Actors
    <3> QED
      BY <2>1, <2>2, <2>4, <3>1 DEF OwnedStep, ExecutingIsOwned, Owning
  <2> QED
    BY <2>3, <2>4 DEF ExecutingIsOwned, Owning
<1> QED
  BY <1>1, <1>2, NextStands DEF Crash

\* A row that is executing is in the hands of a handler that will settle it,
\* in every behaviour without a crash, without a restore and without a lost
\* update of metadata.json.  Each of the three can leave a row executing for
\* good: nothing at start-up settles it, a restore takes a row that was
\* archived while executing back there, and a stale file brings it back.
THEOREM ExecutingOwned ==
    ASSUME ~Crashes, "restore" \notin Routes
    PROVE  Spec /\ []MetadataFresh => []ExecutingIsOwned
<1>1. Init => NoRestore /\ ExecutingIsOwned
  <2>1. ASSUME NEW kind \in RowKinds PROVE RestingSubmission(kind).status = kind
    BY RestingType DEF RowKinds, RestingSubmission, NoSubmission, Submission
  <2>2. Init => \A s \in Students : meta[s].status \in RowKinds
    BY <2>1, InitialRowsAssumption DEF Init, StoresInit
  <2> QED
    BY <2>2 DEF Init, StoresInit, NoRestore, RestoreLabels, ExecutingIsOwned, RowKinds
<1>2. ServerInv /\ Placed /\ MetadataFresh /\ NoRestore /\ ExecutingIsOwned /\ [Next]_vars
        => NoRestore' /\ ExecutingIsOwned'
  BY OwnedNext
<1> QED
  BY <1>1, <1>2, ServerInvariant, PlacedAlways, PTL DEF Spec

\* The batch routes among themselves own what they execute, whatever they do
\* to each other, as long as the process lives.
COROLLARY BatchesOwnWhatTheyExecute ==
    ASSUME ~Crashes, Routes \subseteq BatchRoutes
    PROVE  Spec => []ExecutingIsOwned
<1>1. Spec /\ []MetadataFresh => []ExecutingIsOwned
  BY ExecutingOwned DEF BatchRoutes
<1> QED
  BY <1>1, BatchesLoseNoMetadata, PTL

\* And so does a teacher who works alone.
COROLLARY AloneOwnsWhatIsExecuted ==
    ASSUME ~Crashes, "restore" \notin Routes, OneRequest
    PROVE  Spec => []ExecutingIsOwned
<1>1. Spec => [](MetadataFresh /\ ResultsFresh)
  BY AloneLosesNothing
<1> QED
  BY <1>1, ExecutingOwned, PTL

----------------------------------------------------------------------------
(***************************************************************************)
(* The batch routes move rows along the lifecycle.  What a section has     *)
(* written it can rely on until it leaves: the batch routes write          *)
(* metadata.json only as the head of the queue.                            *)
(***************************************************************************)

\* In the middle of a section, after its first call.
Amid == {"process.store", "process.clearError", "process.noteFailure", "process.storeFailure",
         "process.noteCaught", "row.flip", "resetPre.flip", "resetPre.write"}

\* What the section of a has done to its rows.
MidRow(a) ==
    /\ pc[a] \in Amid => Holds(a)
    /\ pc[a] \in {"process.store", "process.clearError"} => meta[loc[a].on].status = "executed"
    /\ pc[a] \in {"process.noteFailure", "process.storeFailure", "process.noteCaught"}
          => meta[loc[a].on].status = "error"
    /\ pc[a] \in {"resetPre.load", "resetPre.flip"} => loc[a].left # {}
    /\ pc[a] = "resetPre.load" => loc[a].targets = loc[a].left
    /\ pc[a] \in {"resetPre.flip", "resetPre.write"} =>
          \A s \in loc[a].targets \ loc[a].left : meta[s].status # "pre-evaluated"
    /\ pc[a] = "resetPre.write" => loc[a].left = {}

MidRows == \A a \in Actors : MidRow(a)

\* A step moves one row along the lifecycle, or none.
Moves(s, to) ==
    /\ <<meta[s].status, to>> \in Transitions \cup (Status \X {"executed", "pre-evaluated"})
    /\ meta'[s].status = to
    /\ \A t \in Students \ {s} : meta'[t].status = meta[t].status

RowStep(a) ==
    /\ MidRow(a)'
    /\ \/ \A t \in Students : meta'[t].status = meta[t].status
       \/ \E s \in Students, to \in Status : Moves(s, to)

\* updateStatus along the lifecycle is such a step.
LEMMA MovesAlong ==
    ASSUME meta \in MetadataFile, NEW s \in Students, NEW to \in Status,
           meta' = SetStatus(meta, s, to),
           \/ CanMove(meta, s, to)
           \/ Exists(meta, s) /\ to \in {"executed", "pre-evaluated"}
    PROVE  /\ \E t \in Students, l \in Status : Moves(t, l)
           /\ meta'[s].status = to
BY SetStatusRow DEF Moves, CanMove, Exists, MetadataFile, Submission

\* What is known before such a step: no snapshot is stale, and a snapshot
\* inside a section is the head's.
Settled(a) ==
    /\ Fresh(a)
    /\ metaSeen[a] # {} \/ resultsSeen[a] # {} => (pc[a] \in Section => Holds(a))
    /\ MidRow(a)

\* Batch execution.
LEMMA ProcessMoves ==
    ASSUME NEW b \in Requests, Settled(b), ProcessList(b) \/ ProcessStep(b)
    PROVE  RowStep(b)
<1> USE DEF Settled, Fresh, Typed, AtRow, Amid, MidRow, RowStep, GoTo
<1>0. \A l \in {"process.executed", "process.failed", "process.caught", "process.store",
                "process.noteFailure"} : l \in Section
  BY DEF Section, SectionMeta, SectionResults
<1>1. CASE ProcessList(b) \/ ProcessBegin(b) \/ ProcessExecute(b) \/ ProcessAnswered(b)
  BY <1>1 DEF ProcessList, ProcessBegin, ProcessExecute, ProcessAnswered, files, Locals
<1>2. CASE ProcessStart(b)
  BY <1>2, MovesAlong DEF ProcessStart, ProcessAbort, WriteMetadata, LeaveMetadata, Finish, files, Status
<1>3. CASE ProcessCaught(b)
  BY <1>0, <1>3, MovesAlong DEF ProcessCaught, ProcessAbort, WriteMetadata, LeaveMetadata, Finish, files,
     Status, Holds
<1>4. CASE ProcessExecuted(b) \/ ProcessFailed(b)
  BY <1>0, <1>4, MovesAlong DEF ProcessExecuted, ProcessFailed, ProcessMark, WriteMetadata, LeaveMetadata, files,
     Status, Holds
<1>5. CASE ProcessStore(b)
  BY <1>0, <1>5 DEF ProcessStore, WriteResults, Holds
<1>6. CASE ProcessNoteFailure(b)
  <2>0. PICK e \in BOOLEAN : meta' = UpsertError(meta, loc[b].on, e)
    BY <1>6 DEF ProcessNoteFailure, WriteMetadata
  <2>1. \A t \in Students : meta'[t].status = meta[t].status
    <3>1. Exists(meta, loc[b].on) /\ loc[b].on \in Students
      BY <1>6 DEF ProcessNoteFailure, Exists
    <3> QED
      BY <2>0, <3>1, NotesError
  <2> QED
    BY <1>0, <1>6, <2>1 DEF ProcessNoteFailure, WriteMetadata, Holds
<1>7. CASE ProcessStoreFailure(b)
  BY <1>7 DEF ProcessStoreFailure, WriteResults, ProcessNext, Finish
<1>8. CASE ProcessClearError(b) \/ ProcessNoteCaught(b)
  <2>1. PICK e \in BOOLEAN : meta' = UpsertError(meta, loc[b].on, e)
    BY <1>8 DEF ProcessClearError, ProcessNoteCaught, WriteMetadata
  <2>2. \A t \in Students : meta'[t].status = meta[t].status
    <3>1. Exists(meta, loc[b].on) /\ loc[b].on \in Students
      BY <1>8 DEF ProcessClearError, ProcessNoteCaught, Exists
    <3> QED
      BY <2>1, <3>1, NotesError
  <2> QED
    BY <1>8, <2>2 DEF ProcessClearError, ProcessNoteCaught, ProcessNext, Finish
<1> QED
  BY <1>1, <1>2, <1>3, <1>4, <1>5, <1>6, <1>7, <1>8 DEF ProcessStep

\* Pre-evaluation and its reset.
LEMMA EvaluationMoves ==
    ASSUME NEW e \in Requests, Settled(e),
           PreEvalArrive(e) \/ PreEvalStep(e) \/ ResetPreArrive(e) \/ ResetPreStep(e)
    PROVE  RowStep(e)
<1> USE DEF Settled, Fresh, Typed, AtRow, Amid, MidRow, RowStep, GoTo
<1>1. CASE PreEvalArrive(e) \/ PreEvalList(e) \/ PreEvalEnd(e)
  BY <1>1 DEF PreEvalArrive, PreEvalList, PreEvalEnd, Finish, files
<1>2. CASE PreEvalBegin(e)
  BY <1>2 DEF PreEvalBegin, Finish, files
<1>3. CASE CalibrateCohort(e)
  BY <1>3 DEF CalibrateCohort, WriteResults, LeaveResults, Finish, files
<1>4. CASE ResetPreArrive(e) \/ ResetPreList(e) \/ ResetPrePick(e)
  <2>1. UNCHANGED files
    BY <1>4 DEF ResetPreArrive, ResetPreList, ResetPrePick
  <2>2. ASSUME NEW T, ResetPreEnter(e, T)
        PROVE  \/ pc'[e] = "idle"
               \/ pc'[e] = "resetPre.load" /\ loc'[e].left = T /\ loc'[e].targets = T /\ T # {}
    BY <2>2 DEF ResetPreEnter, Finish, Locals
  <2>3. \/ pc'[e] \in {"idle", "resetPre.list", "resetPre.pick"}
        \/ pc'[e] = "resetPre.load" /\ loc'[e].left # {} /\ loc'[e].targets = loc'[e].left
    BY <1>4, <2>2 DEF ResetPreArrive, ResetPreList, ResetPrePick
  <2> QED
    BY <2>1, <2>3 DEF files
<1>5. CASE ResetPreLoad(e)
  BY <1>5 DEF ResetPreLoad, files, Holds
<1>6. CASE ResetPreFlip(e)
  <2> DEFINE s == FirstOf(loc[e].left)
  <2>1. s \in Students /\ s \in loc[e].left
    BY <1>6, FirstOfType DEF ResetPreFlip, Locals
  <2> HIDE DEF s
  <2>2. CASE UNCHANGED files /\ Finish(e)
    BY <2>2 DEF files, Finish
  <2>3. CASE /\ Exists(meta, s) /\ metaSeen[e] # {}
             /\ WriteMetadata(e, SetStatus(meta, s, "executed"))
             /\ loc' = [loc EXCEPT ![e].left = @ \ {s}]
             /\ pc' = [pc EXCEPT ![e] = IF loc[e].left = {s} THEN "resetPre.write" ELSE "resetPre.flip"]
             /\ UNCHANGED chain
    <3>1. meta'[s].status = "executed" /\ \A t \in Students \ {s} : meta'[t] = meta[t]
      BY <2>1, <2>3, SetStatusRow DEF WriteMetadata, Status
    <3>2. \E t \in Students, to \in Status : Moves(t, to)
      BY <2>1, <2>3, MovesAlong DEF WriteMetadata, Status
    <3>3. loc'[e].left = loc[e].left \ {s} /\ loc'[e].targets = loc[e].targets /\ loc[e].targets \subseteq Students
      BY <2>3 DEF Locals
    <3>4. pc[e] = "resetPre.flip" /\ pc'[e] \in {"resetPre.write", "resetPre.flip"}
          /\ (pc'[e] = "resetPre.write" <=> loc[e].left = {s})
      BY <1>6, <2>3 DEF ResetPreFlip
    <3>5. Holds(e)'
      BY <2>3, <3>4 DEF Holds
    <3>6. \A t \in loc'[e].targets \ loc'[e].left : meta'[t].status # "pre-evaluated"
      BY <3>1, <3>3, <3>4
    <3> QED
      BY <2>1, <3>2, <3>3, <3>4, <3>5, <3>6
  <2> QED
    BY <1>6, <2>2, <2>3 DEF ResetPreFlip, s
<1>7. CASE ResetPreWrite(e)
  BY <1>7 DEF ResetPreWrite, WriteResults, LeaveResults, Finish, files
<1> QED
  BY <1>1, <1>2, <1>3, <1>4, <1>5, <1>6, <1>7 DEF PreEvalStep, ResetPreStep

\* The worker, whose move to pre-evaluated is forced.
LEMMA WorkerMoves ==
    ASSUME NEW w \in Workers, Settled(w), WorkerStep(w)
    PROVE  RowStep(w)
<1> USE DEF Settled, Fresh, Typed, AtRow, Amid, MidRow, RowStep, GoTo
<1>1. CASE RowNext(w) \/ RowLook(w) \/ RowAsk(w)
  BY <1>1 DEF RowNext, RowLook, RowAsk, RowSettled, Finish, files
<1>2. CASE RowStore(w)
  BY <1>2 DEF RowStore, RowSettled, WriteResults, LeaveResults, files, Section, SectionResults, Holds
<1>3. CASE RowFlip(w)
  BY <1>3, MovesAlong DEF RowFlip, RowSettled, WriteMetadata, LeaveMetadata, files, Status
<1> QED
  BY <1>1, <1>2, <1>3 DEF WorkerStep

\* So a step of a handler, when only batch routes are called,
LEMMA StepMoves ==
    ASSUME Routes \subseteq BatchRoutes, ServerInv, OnlyBatches, MetadataFresh,
           NEW a \in Actors, MidRow(a), StepOf(a)
    PROVE  RowStep(a)
<1>1. Settled(a)
  BY FreshFacts, Facts DEF Settled
<1>2. CASE ReadMetadata(a) \/ ReadResults(a)
  BY <1>2 DEF ReadMetadata, ReadResults, files, RowStep, MidRow, Holds
<1> QED
  BY <1>1, <1>2, ProcessMoves, EvaluationMoves, WorkerMoves, NoTeacher
  DEF StepOf, ClientCall, RequestStep, WorkStep

\* and it leaves the sections of the others what they have written: it writes
\* metadata.json only as the head of the queue.
LEMMA WritesAsHead ==
    ASSUME ServerInv, OnlyBatches, NEW a \in Actors, StoreStep(a), ~Holds(a)
    PROVE  meta' = meta
<1>1. metaSeen[a] # {} => Holds(a)
  BY Facts DEF OnlyBatches, TeacherLabels, MetaCalls, Section
<1> QED
  BY <1>1 DEF StoreStep, MetaStep

\* Every step of the batch routes keeps each handler in the middle of its row, and
\* moves at most one row, along the lifecycle.
LEMMA MidRowNext ==
    ASSUME Routes \subseteq BatchRoutes, ServerInv, OnlyBatches, MetadataFresh,
           \A a \in Actors : MidRow(a), [Next]_vars
    PROVE  /\ \A a \in Actors : MidRow(a)'
           /\ \/ \A t \in Students : meta'[t].status = meta[t].status
              \/ \E s \in Students, to \in Status : Moves(s, to)
<1>1. CASE UNCHANGED vars
  BY <1>1 DEF vars, MidRow, Holds
<1>2. CASE Crash
  BY <1>2 DEF Crash, files, MidRow, Amid
<1>3. ASSUME NEW a \in Actors, StepOf(a), StoreStep(a), Stands(a)
      PROVE  RowStep(a) /\ \A c \in Actors : MidRow(c)'
  <2>1. RowStep(a)
    BY <1>3, StepMoves
  <2>2. ASSUME NEW c \in Actors \ {a} PROVE MidRow(c)'
    <3>1. CASE pc[c] \in Amid \cup {"resetPre.load"}
      <4>1. pc'[c] = pc[c] /\ loc'[c] = loc[c]
        BY <1>3, <3>1 DEF Stands, OthersStand, Amid
      <4>2. CASE Holds(c)
        <5>1. meta' = meta /\ Holds(c)'
          BY <1>3, <4>2, WritesAsHead, HolderStays DEF Holds
        <5> QED
          BY <4>1, <5>1 DEF MidRow
      <4>3. CASE ~Holds(c)
        BY <3>1, <4>1, <4>3 DEF MidRow, Amid
      <4> QED
        BY <4>2, <4>3
    <3>2. CASE pc[c] \notin Amid \cup {"resetPre.load"}
      <4>1. pc'[c] \notin Amid \cup {"resetPre.load"}
        BY <1>3, <3>2 DEF Stands, OthersStand, Amid
      <4> QED
        BY <4>1 DEF MidRow, Amid
    <3> QED
      BY <3>1, <3>2
  <2> QED
    BY <2>1, <2>2 DEF RowStep
<1>4. CASE \E a \in Actors : StepOf(a)
  BY <1>3, <1>4, StepStores, StepStands DEF RowStep
<1> QED
  BY <1>1, <1>2, <1>4, Facts DEF Next, StepOf

\* What the sections of the batch routes rely on holds throughout.
LEMMA MidRowAlways ==
    ASSUME Routes \subseteq BatchRoutes
    PROVE  Spec => [](OnlyBatches /\ MidRows)
<1>1. Init => OnlyBatches /\ MidRows
  BY BatchLabels DEF Init, StoresInit, OnlyBatches, MidRows, MidRow, Amid
<1>2. ServerInv /\ OnlyBatches /\ MetadataFresh /\ MidRows /\ [Next]_vars
        => OnlyBatches' /\ MidRows'
  BY MidRowNext, OnlyBatchesStep DEF MidRows
<1>3. Spec => []MetadataFresh
  BY BatchesLoseNoMetadata
<1> QED
  BY <1>1, <1>2, <1>3, ServerInvariant, PTL DEF Spec

\* The statuses of the first rows.
LEMMA InitialStatuses == Init => \A s \in Students : meta[s].status \in InitialRows
<1>1. ASSUME NEW kind \in RowKinds PROVE RestingSubmission(kind).status = kind
  BY DEF RowKinds, RestingSubmission, NoSubmission
<1> QED
  BY <1>1, InitialRowsAssumption DEF Init, StoresInit

\* The batch routes implement the lifecycle of rows: whatever two batches, a
\* pre-evaluation, resets and restarts do to each other, each write of
\* metadata.json moves one row along STATUS_TRANSITIONS, or by force to
\* executed or pre-evaluated; no row appears, vanishes, or is taken back by a
\* stale record.
THEOREM BatchesFollowLifecycle ==
    ASSUME Routes \subseteq BatchRoutes
    PROVE  Spec => RowsFollowLifecycle
<1>1. Init => LifecycleOfRows!Init
  BY InitialStatuses DEF LifecycleOfRows!Init, RowStatus
<1>2. ServerInv /\ OnlyBatches /\ MetadataFresh /\ MidRows /\ [Next]_vars
        => [LifecycleOfRows!Next]_RowStatus
  <2> SUFFICES ASSUME ServerInv, OnlyBatches, MetadataFresh, MidRows, [Next]_vars
               PROVE  [LifecycleOfRows!Next]_RowStatus
    OBVIOUS
  <2>1. CASE \A t \in Students : meta'[t].status = meta[t].status
    BY <2>1 DEF RowStatus
  <2>2. ASSUME NEW s \in Students, NEW to \in Status, Moves(s, to)
        PROVE  LifecycleOfRows!Next
    <3>1. RowStatus' = [RowStatus EXCEPT ![s] = to]
      BY <2>2 DEF Moves, RowStatus
    <3>2. RowStatus[s] = meta[s].status
      BY DEF RowStatus
    <3> QED
      BY <2>2, <3>1, <3>2
      DEF Moves, LifecycleOfRows!Next, LifecycleOfRows!Move, LifecycleOfRows!Transitions,
          LifecycleOfRows!Status, Transitions, Status
  <2> QED
    BY <2>1, <2>2, MidRowNext DEF MidRows
<1>3. Spec => []MetadataFresh
  BY BatchesLoseNoMetadata
<1>4. Spec => [](OnlyBatches /\ MidRows)
  BY MidRowAlways
<1> QED
  BY <1>1, <1>2, <1>3, <1>4, ServerInvariant, PTL DEF Spec, RowsFollowLifecycle, LifecycleOfRows!Spec

----------------------------------------------------------------------------
(***************************************************************************)
(* A row that is pre-evaluated has its envelope.  The two are written in   *)
(* two steps of one section, and dropped in two steps of another.          *)
(***************************************************************************)

\* What an operation on one entry of results.json does to the envelopes,
LEMMA EntryEnvelopes ==
    ASSUME NEW f \in ResultsFile, NEW s \in Students, NEW run
    PROVE  /\ \A t \in Students \ {s} : /\ SetResult(f, s, run)[t] = f[t]
                                        /\ ClearResult(f, s)[t] = f[t]
                                        /\ SetPreEvaluation(f, s, run)[t] = f[t]
           /\ SetPreEvaluation(f, s, run)[s].preEval.about = run
           /\ SetPreEvaluation(f, s, run)[s].run = f[s].run
           /\ ClearResult(f, s)[s] = NoResult
<1>1. f[s] \in Result
  BY DEF ResultsFile
<1> QED
  BY <1>1 DEF ResultsFile, Result, SetResult, ClearResult, SetPreEvaluation

\* and what one on the entries of a cohort does.
LEMMA CohortEnvelopes ==
    ASSUME NEW f \in ResultsFile, NEW t \in Students, NEW S
    PROVE  /\ DropPreEval(f, S)[t].run = f[t].run
           /\ t \notin S => DropPreEval(f, S)[t] = f[t]
           /\ t \in S => DropPreEval(f, S)[t].preEval = NoEnvelope
           /\ Calibrate(f, S)[t].run = f[t].run
           /\ Calibrate(f, S)[t].preEval.about = f[t].preEval.about
<1>1. f[t] \in Result
  BY DEF ResultsFile
<1> QED
  BY <1>1 DEF Result, Envelope, DropPreEval, Calibrate

\* A worker has an execution to pre-evaluate, and between the two writes of
\* its section the envelope is there.
MidEnvelope(a) ==
    /\ pc[a] \in {"row.ask", "row.store"} => loc[a].run.of # 0
    /\ pc[a] = "row.flip" => HasPreEval(results, loc[a].on)

MidEnvelopes == \A a \in Actors : MidEnvelope(a)

EnvelopeStep(a) ==
    /\ MidEnvelope(a)'
    /\ PreEvaluatedHasEnvelope'
    /\ pc[a] = "calibrate" =>
          \A s \in Students : HasPreEval(results, s) => HasPreEval(results', s)

\* What is known before such a step.
Backed(a) ==
    /\ Settled(a)
    /\ results \in ResultsFile
    /\ resultsSeen[a] \subseteq {results}
    /\ MidEnvelope(a)
    /\ PreEvaluatedHasEnvelope

\* A step that writes no file, or moves a row to another status.
LEMMA EnvelopesStand ==
    ASSUME PreEvaluatedHasEnvelope, UNCHANGED results,
           \A s \in Students : meta'[s].status = "pre-evaluated" => meta[s].status = "pre-evaluated"
    PROVE  /\ PreEvaluatedHasEnvelope'
           /\ \A s \in Students : HasPreEval(results, s) => HasPreEval(results', s)
BY DEF PreEvaluatedHasEnvelope, HasPreEval

\* Batch execution drops the envelope of a row that is no more pre-evaluated.
LEMMA ProcessBacks ==
    ASSUME NEW b \in Requests, Backed(b), ProcessList(b) \/ ProcessStep(b)
    PROVE  EnvelopeStep(b)
<1> USE DEF Backed, Settled, Fresh, Typed, AtRow, MidEnvelope, EnvelopeStep, GoTo
<1>1. CASE ProcessList(b) \/ ProcessBegin(b) \/ ProcessExecute(b) \/ ProcessAnswered(b)
  BY <1>1, EnvelopesStand DEF ProcessList, ProcessBegin, ProcessExecute, ProcessAnswered, files
<1>2. CASE ProcessStart(b) \/ ProcessCaught(b)
  BY <1>2, EnvelopesStand, SetStatusRow DEF ProcessStart, ProcessCaught, ProcessAbort, WriteMetadata, LeaveMetadata, Finish, files, Status
<1>3. CASE ProcessExecuted(b) \/ ProcessFailed(b)
  BY <1>3, EnvelopesStand, SetStatusRow DEF ProcessExecuted, ProcessFailed, ProcessMark, WriteMetadata, LeaveMetadata, files,
     Status
<1>4. CASE ProcessStore(b) \/ ProcessStoreFailure(b)
  <2>1. /\ loc[b].on \in Students /\ loc[b].run \in Execution
        /\ meta[loc[b].on].status # "pre-evaluated"
        /\ meta' = meta
        /\ results' = SetResult(results, loc[b].on, loc[b].run)
    BY <1>4 DEF ProcessStore, ProcessStoreFailure, WriteResults, MidRow, Locals
  <2>2. PreEvaluatedHasEnvelope'
    BY <2>1, EntryEnvelopes DEF PreEvaluatedHasEnvelope, HasPreEval
  <2> QED
    BY <1>4, <2>2 DEF ProcessStore, ProcessStoreFailure, ProcessNext, Finish
<1>5. CASE ProcessClearError(b) \/ ProcessNoteFailure(b) \/ ProcessNoteCaught(b)
  <2>1. PICK e \in BOOLEAN : meta' = UpsertError(meta, loc[b].on, e)
    BY <1>5 DEF ProcessClearError, ProcessNoteFailure, ProcessNoteCaught, WriteMetadata
  <2>2. loc[b].on \in Students /\ UNCHANGED results
    BY <1>5 DEF ProcessClearError, ProcessNoteFailure, ProcessNoteCaught, WriteMetadata
  <2>3. \A t \in Students : meta'[t].status = "pre-evaluated" => meta[t].status = "pre-evaluated"
    BY <2>1, <2>2, NotesError
  <2> QED
    BY <1>5, <2>2, <2>3, EnvelopesStand
    DEF ProcessClearError, ProcessNoteFailure, ProcessNoteCaught, ProcessNext, Finish
<1> QED
  BY <1>1, <1>2, <1>3, <1>4, <1>5 DEF ProcessStep

\* A calibration rewrites envelopes and drops none; a reset drops those of
\* the rows it has taken out of pre-evaluated.
LEMMA EvaluationBacks ==
    ASSUME NEW e \in Requests, Backed(e),
           PreEvalArrive(e) \/ PreEvalStep(e) \/ ResetPreArrive(e) \/ ResetPreStep(e)
    PROVE  EnvelopeStep(e)
<1> USE DEF Backed, Settled, Fresh, Typed, AtRow, MidEnvelope, EnvelopeStep, GoTo
<1>1. CASE PreEvalArrive(e) \/ PreEvalList(e) \/ PreEvalEnd(e)
  BY <1>1, EnvelopesStand DEF PreEvalArrive, PreEvalList, PreEvalEnd, Finish, files
<1>2. CASE PreEvalBegin(e)
  BY <1>2, EnvelopesStand DEF PreEvalBegin, Finish, files
<1>3. CASE CalibrateCohort(e)
  <2>1. CASE LeaveResults(e)
    BY <1>3, <2>1, EnvelopesStand DEF CalibrateCohort, LeaveResults, Finish, files
  <2>2. ASSUME NEW S \in SUBSET Students, WriteResults(e, Calibrate(results, S))
        PROVE  /\ PreEvaluatedHasEnvelope'
               /\ \A s \in Students : HasPreEval(results, s) => HasPreEval(results', s)
    BY <2>2, CohortEnvelopes DEF WriteResults, PreEvaluatedHasEnvelope, HasPreEval
  <2> QED
    BY <1>3, <2>1, <2>2 DEF CalibrateCohort, Finish
<1>4. CASE ResetPreArrive(e) \/ ResetPreList(e) \/ ResetPrePick(e)
  BY <1>4, EnvelopesStand DEF ResetPreArrive, ResetPreList, ResetPrePick, ResetPreEnter, Finish, files
<1>5. CASE ResetPreLoad(e)
  BY <1>5, EnvelopesStand DEF ResetPreLoad, files
<1>6. CASE ResetPreFlip(e)
  <2>1. UNCHANGED results
    BY <1>6 DEF ResetPreFlip, WriteMetadata, files
  <2>2. \A s \in Students : meta'[s].status = "pre-evaluated" => meta[s].status = "pre-evaluated"
    <3>1. CASE UNCHANGED files
      BY <3>1 DEF files
    <3>2. CASE \E f \in metaSeen[e] : WriteMetadata(e, SetStatus(f, FirstOf(loc[e].left), "executed"))
      BY <3>2 DEF WriteMetadata, SetStatus, MetadataFile, Submission
    <3> QED
      BY <1>6, <3>1, <3>2 DEF ResetPreFlip
  <2> QED
    BY <1>6, <2>1, <2>2, EnvelopesStand DEF ResetPreFlip, Finish
<1>7. CASE ResetPreWrite(e)
  <2>1. CASE LeaveResults(e)
    BY <1>7, <2>1, EnvelopesStand DEF ResetPreWrite, LeaveResults, Finish, files
  <2>2. CASE WriteResults(e, DropPreEval(results, loc[e].targets))
    <3>1. /\ \A s \in loc[e].targets : meta[s].status # "pre-evaluated"
          /\ loc[e].targets \in SUBSET Students
      BY <1>7 DEF ResetPreWrite, MidRow, Locals
    <3>2. PreEvaluatedHasEnvelope'
      BY <2>2, <3>1, CohortEnvelopes DEF WriteResults, PreEvaluatedHasEnvelope, HasPreEval
    <3> QED
      BY <1>7, <3>2 DEF ResetPreWrite, Finish
  <2> QED
    BY <1>7, <2>1, <2>2 DEF ResetPreWrite
<1> QED
  BY <1>1, <1>2, <1>3, <1>4, <1>5, <1>6, <1>7 DEF PreEvalStep, ResetPreStep

\* A worker stores the envelope before it moves the row.
LEMMA WorkerBacks ==
    ASSUME NEW w \in Workers, Backed(w), WorkerStep(w)
    PROVE  EnvelopeStep(w)
<1> USE DEF Backed, Settled, Fresh, Typed, AtRow, MidEnvelope, EnvelopeStep, GoTo
<1>1. CASE RowNext(w)
  BY <1>1, EnvelopesStand DEF RowNext, Finish, files
<1>2. CASE RowLook(w)
  BY <1>2, EnvelopesStand DEF RowLook, RowSettled, files, HasResult, Locals
<1>3. CASE RowAsk(w)
  BY <1>3, EnvelopesStand DEF RowAsk, RowSettled, files
<1>4. CASE RowStore(w)
  <2>1. CASE LeaveResults(w) /\ RowSettled(w, FALSE)
    BY <2>1, EnvelopesStand DEF LeaveResults, RowSettled, files
  <2>2. CASE /\ WriteResults(w, SetPreEvaluation(results, loc[w].on, loc[w].run))
             /\ pc' = [pc EXCEPT ![w] = "row.flip"] /\ UNCHANGED loc
    <3>1. loc[w].on \in Students /\ loc[w].run \in Execution /\ loc[w].run.of # 0
      BY <1>4 DEF RowStore, Locals
    <3>2. \A t \in Students : HasPreEval(results, t) \/ t = loc[w].on => HasPreEval(results', t)
      BY <2>2, <3>1, EntryEnvelopes DEF WriteResults, HasPreEval
    <3> QED
      BY <2>2, <3>1, <3>2 DEF WriteResults, PreEvaluatedHasEnvelope
  <2> QED
    BY <1>4, <2>1, <2>2 DEF RowStore
<1>5. CASE RowFlip(w)
  <2>1. CASE LeaveMetadata(w)
    BY <1>5, <2>1, EnvelopesStand DEF RowFlip, RowSettled, LeaveMetadata, files
  <2>2. CASE WriteMetadata(w, SetStatus(meta, loc[w].on, "pre-evaluated"))
    <3>1. loc[w].on \in Students /\ HasPreEval(results, loc[w].on)
      BY <1>5 DEF RowFlip
    <3>2. PreEvaluatedHasEnvelope'
      BY <2>2, <3>1, SetStatusRow DEF WriteMetadata, PreEvaluatedHasEnvelope, HasPreEval, Status
    <3> QED
      BY <1>5, <3>2 DEF RowFlip, RowSettled
  <2> QED
    BY <1>5, <2>1, <2>2 DEF RowFlip
<1> QED
  BY <1>1, <1>2, <1>3, <1>4, <1>5 DEF WorkerStep

\* So a step of a handler keeps envelopes behind pre-evaluated rows,
LEMMA StepBacks ==
    ASSUME Routes \subseteq BatchRoutes, ServerInv, OnlyBatches, MetadataFresh, ResultsFresh,
           MidRows, MidEnvelopes, PreEvaluatedHasEnvelope, NEW a \in Actors, StepOf(a)
    PROVE  EnvelopeStep(a)
<1>1. Backed(a)
  BY FreshFacts, Facts DEF Settled, Backed, ResultsFresh, MidRows, MidEnvelopes, Data
<1>2. CASE ReadMetadata(a) \/ ReadResults(a)
  BY <1>1, <1>2, EnvelopesStand DEF Backed, ReadMetadata, ReadResults, files, EnvelopeStep, MidEnvelope
<1> QED
  BY <1>1, <1>2, ProcessBacks, EvaluationBacks, WorkerBacks, NoTeacher
  DEF StepOf, ClientCall, RequestStep, WorkStep

\* and leaves the others the envelopes they have written.
LEMMA EnvelopesNext ==
    ASSUME Routes \subseteq BatchRoutes, ServerInv, OnlyBatches, MetadataFresh, ResultsFresh,
           MidRows, MidEnvelopes, PreEvaluatedHasEnvelope, [Next]_vars
    PROVE  MidEnvelopes' /\ PreEvaluatedHasEnvelope'
<1>1. CASE UNCHANGED vars
  BY <1>1 DEF vars, MidEnvelopes, MidEnvelope, PreEvaluatedHasEnvelope, HasPreEval
<1>2. CASE Crash
  BY <1>2 DEF Crash, files, MidEnvelopes, MidEnvelope, PreEvaluatedHasEnvelope, HasPreEval
<1>3. ASSUME NEW a \in Actors, StepOf(a), StoreStep(a), Stands(a)
      PROVE  MidEnvelopes' /\ PreEvaluatedHasEnvelope'
  <2>1. EnvelopeStep(a)
    BY <1>3, StepBacks
  <2>2. ASSUME NEW c \in Actors \ {a} PROVE MidEnvelope(c)'
    <3>1. CASE pc[c] \in {"row.ask", "row.store", "row.flip"}
      <4>1. pc'[c] = pc[c] /\ loc'[c] = loc[c]
        BY <1>3, <3>1 DEF Stands, OthersStand
      <4>2. CASE pc[c] = "row.flip"
        <5>1. Holds(c) /\ HasPreEval(results, loc[c].on) /\ loc[c].on \in Students
          BY <4>2, Facts DEF MidRows, MidRow, Amid, MidEnvelopes, MidEnvelope, AtRow
        <5>2. resultsSeen[a] # {} => pc[a] = "calibrate"
          BY <5>1, Facts DEF Holds, Section, Holding, ResultsCalls, SectionMeta, OnlyBatches, TeacherLabels
        <5>3. results' = results \/ pc[a] = "calibrate"
          BY <1>3, <5>2 DEF StoreStep, ResultsStep
        <5> QED
          BY <2>1, <4>1, <4>2, <5>1, <5>3 DEF EnvelopeStep, MidEnvelope
      <4> QED
        BY <3>1, <4>1, <4>2 DEF MidEnvelopes, MidEnvelope
    <3>2. CASE pc[c] \notin {"row.ask", "row.store", "row.flip"}
      BY <1>3, <3>2 DEF Stands, OthersStand, MidEnvelope
    <3> QED
      BY <3>1, <3>2
  <2> QED
    BY <2>1, <2>2 DEF EnvelopeStep, MidEnvelopes
<1> QED
  BY <1>1, <1>2, <1>3, StepStores, StepStands, Facts DEF Next, StepOf

\* A row in status pre-evaluated has its envelope in results.json, for any
\* number of batch executions, pre-evaluations, resets and restarts, as long
\* as the calibration, which works outside the lock, loses no update of the
\* file.
THEOREM PreEvaluatedBacked ==
    ASSUME Routes \subseteq BatchRoutes
    PROVE  Spec /\ []ResultsFresh => []PreEvaluatedHasEnvelope
<1>1. Init => MidEnvelopes /\ PreEvaluatedHasEnvelope
  <2>1. ASSUME NEW kind \in RowKinds, RestingSubmission(kind).status = "pre-evaluated"
        PROVE  RestingResult(kind).preEval.about.of # 0
    BY <2>1 DEF RowKinds, RestingSubmission, RestingResult, NoSubmission, NoResult, NoEnvelope, NoExecution, FirstUpload
  <2> QED
    BY <2>1, InitialRowsAssumption DEF Init, StoresInit, MidEnvelopes, MidEnvelope, PreEvaluatedHasEnvelope, HasPreEval
<1>2. ServerInv /\ OnlyBatches /\ MetadataFresh /\ ResultsFresh /\ MidRows
        /\ MidEnvelopes /\ PreEvaluatedHasEnvelope /\ [Next]_vars
        => MidEnvelopes' /\ PreEvaluatedHasEnvelope'
  BY EnvelopesNext
<1>3. Spec => []MetadataFresh
  BY BatchesLoseNoMetadata
<1>4. Spec => [](OnlyBatches /\ MidRows)
  BY MidRowAlways
<1> QED
  BY <1>1, <1>2, <1>3, <1>4, ServerInvariant, PTL DEF Spec

----------------------------------------------------------------------------
(***************************************************************************)
(* The accounts of a pre-evaluation run.  A target is taken by one worker, *)
(* and settles once; the tally is written for the two workers one by one.  *)
(***************************************************************************)

InHands(w) == IF loc[w].on = 0 THEN 0 ELSE 1

Tally(e) ==
    LET one == <<e, 1>>
        two == <<e, 2>>
    IN  /\ loc[one].on \notin loc[e].left /\ loc[two].on \notin loc[e].left
        /\ loc[one].on = loc[two].on => loc[one].on = 0
        /\ loc[e].settled + InHands(one) + InHands(two) + Cardinality(loc[e].left) = evalRun.total
        /\ evalRun.done = loc[e].settled
        /\ loc[e].succeeded <= loc[e].settled
        /\ evalRun.total <= Cardinality(Students)

\* A handler that is called has fresh locals, and a worker between two rows
\* has none in hand.
Fresher(a) ==
    /\ pc[a] = "idle" => loc[a] = NoLocals
    /\ pc[a] = "row.next" => loc[a].on = 0
    /\ pc[a] \in {"preEval.list", "preEval.begin"} => loc[a].settled = 0 /\ loc[a].succeeded = 0

Tallied ==
    /\ \A a \in Actors : Fresher(a)
    /\ \A e \in Requests : pc[e] = "preEval.rows" => Tally(e)

\* A request that neither starts nor ends a run leaves the accounts alone.
LeavesTally(r) ==
    /\ evalRun' = evalRun
    /\ pc'[r] # "preEval.rows"
    /\ Fresher(r)'

\* A worker takes a row, settles it, or goes on with it.
Takes(w) ==
    /\ pc[w] = "row.next"
    /\ \E s \in loc[w[1]].left : loc'[w].on = s /\ loc'[w[1]].left = loc[w[1]].left \ {s}
    /\ loc'[w[1]].settled = loc[w[1]].settled /\ loc'[w[1]].succeeded = loc[w[1]].succeeded
    /\ evalRun' = evalRun

Settles(w) ==
    /\ loc[w].on \in Students /\ loc'[w].on = 0
    /\ loc'[w[1]].left = loc[w[1]].left
    /\ loc'[w[1]].settled = loc[w[1]].settled + 1
    /\ loc'[w[1]].succeeded \in {loc[w[1]].succeeded, loc[w[1]].succeeded + 1}
    /\ evalRun' = [evalRun EXCEPT !.done = loc[w[1]].settled + 1]

GoesOn(w) ==
    /\ loc'[w].on = loc[w].on
    /\ loc'[w[1]] = loc[w[1]]
    /\ evalRun' = evalRun

Works(w) == (Takes(w) \/ Settles(w) \/ GoesOn(w)) /\ Fresher(w)'

\* The requests of the other batch routes.
LEMMA ProcessLeavesTally ==
    ASSUME NEW b \in Requests, Typed(b), Fresher(b), ProcessList(b) \/ ProcessStep(b)
    PROVE  LeavesTally(b)
<1> USE DEF Typed, LeavesTally, Fresher, GoTo
<1>1. CASE ProcessList(b) \/ ProcessBegin(b) \/ ProcessExecute(b) \/ ProcessAnswered(b)
  BY <1>1 DEF ProcessList, ProcessBegin, ProcessExecute, ProcessAnswered, runs
<1>2. CASE ProcessStart(b) \/ ProcessCaught(b)
  BY <1>2 DEF ProcessStart, ProcessCaught, ProcessAbort, Finish, runs
<1>3. CASE ProcessExecuted(b) \/ ProcessFailed(b)
  BY <1>3 DEF ProcessExecuted, ProcessFailed, ProcessMark, runs
<1>4. CASE ProcessStore(b) \/ ProcessNoteFailure(b)
  BY <1>4 DEF ProcessStore, ProcessNoteFailure, runs
<1>5. CASE ProcessStoreFailure(b) \/ ProcessClearError(b) \/ ProcessNoteCaught(b)
  BY <1>5 DEF ProcessStoreFailure, ProcessClearError, ProcessNoteCaught, ProcessNext, Finish
<1> QED
  BY <1>1, <1>2, <1>3, <1>4, <1>5 DEF ProcessStep

\* The rest of the evaluation routes leave flag, targets and workers of a run alone.
LEMMA EvaluationLeavesTally ==
    ASSUME NEW e \in Requests, Typed(e), Fresher(e),
           PreEvalArrive(e) \/ PreEvalList(e) \/ CalibrateCohort(e) \/ ResetPreArrive(e) \/ ResetPreStep(e)
    PROVE  LeavesTally(e)
<1> USE DEF Typed, LeavesTally, Fresher, GoTo
<1>1. CASE PreEvalArrive(e) \/ PreEvalList(e)
  <2>1. CASE PreEvalArrive(e)
    BY <2>1 DEF PreEvalArrive, NoLocals, runs
  <2>2. CASE PreEvalList(e) /\ Finish(e)
    BY <2>2 DEF PreEvalList, Finish, runs
  <2>3. CASE PreEvalList(e) /\ loc' = [loc EXCEPT ![e].left = Evaluable] /\ pc' = [pc EXCEPT ![e] = "preEval.begin"]
    <3>1. loc'[e].settled = loc[e].settled /\ loc'[e].succeeded = loc[e].succeeded
      BY <2>3 DEF Locals
    <3> QED
      BY <2>3, <3>1 DEF PreEvalList, runs
  <2> QED
    BY <1>1, <2>1, <2>2, <2>3 DEF PreEvalList
<1>2. CASE CalibrateCohort(e)
  BY <1>2 DEF CalibrateCohort, Finish, runs
<1>3. CASE ResetPreArrive(e) \/ ResetPreList(e) \/ ResetPrePick(e)
  BY <1>3 DEF ResetPreArrive, ResetPreList, ResetPrePick, ResetPreEnter, Finish, runs
<1>4. CASE ResetPreLoad(e) \/ ResetPreFlip(e) \/ ResetPreWrite(e)
  BY <1>4 DEF ResetPreLoad, ResetPreFlip, ResetPreWrite, Finish, runs
<1> QED
  BY <1>1, <1>2, <1>3, <1>4 DEF ResetPreStep

\* So do the routes on one submission.
LEMMA TeacherLeavesTally ==
    ASSUME NEW t \in Requests, Typed(t), Fresher(t), TeacherCall(t) \/ TeacherStep(t)
    PROVE  LeavesTally(t)
<1> USE DEF Typed, LeavesTally, Fresher, GoTo
<1>1. CASE TeacherCall(t)
  BY <1>1 DEF TeacherCall, SaveArrive, GradeArrive, ResetArrive, ImportArrive, ArchiveArrive,
      RestoreArrive, UploadArrive, DeleteArrive, RunArrive, Arrive, runs
<1>2. CASE Save(t) \/ GradeStatus(t) \/ GradeMark(t) \/ Reset(t) \/ ImportUpsert(t) \/ ImportSave(t)
  BY <1>2 DEF Save, GradeStatus, GradeMark, Reset, ImportUpsert, ImportSave, Attempt, AttemptLast, Finish, runs
<1>3. CASE ArchiveLook(t) \/ RestoreLook(t)
  BY <1>3 DEF ArchiveLook, RestoreLook, Finish, runs
<1>4. CASE ArchiveStatus(t) \/ RestoreStatus(t) \/ ArchiveMark(t) \/ RestoreMark(t)
  BY <1>4 DEF ArchiveStatus, RestoreStatus, ArchiveMark, RestoreMark, WriteBack, AttemptLast, Finish, runs
<1>5. CASE UploadFile(t) \/ DeleteFile(t) \/ UploadUpsert(t) \/ DeleteRecord(t) \/ UploadClear(t) \/ DeleteResult(t)
  BY <1>5 DEF UploadFile, DeleteFile, UploadUpsert, DeleteRecord, UploadClear, DeleteResult,
      Attempt, AttemptLast, Finish, runs
<1>6. CASE RunStart(t) \/ RunExecuted(t) \/ RunExecute(t) \/ RunStore(t)
  BY <1>6 DEF RunStart, RunExecuted, RunExecute, RunStore, Try, runs
<1>7. CASE RunClearError(t) \/ RunCaught(t) \/ RunNoteCaught(t)
  BY <1>7 DEF RunClearError, RunCaught, RunNoteCaught, Attempt, AttemptLast, Finish, runs
<1> QED
  BY <1>1, <1>2, <1>3, <1>4, <1>5, <1>6, <1>7 DEF TeacherStep

\* The worker.
LEMMA WorkerWorks ==
    ASSUME NEW w \in Workers, Typed(w), Fresher(w), w[1] \in Actors, w[1] # w, WorkerStep(w)
    PROVE  Works(w)
<1> USE DEF Typed, AtRow, Works, Fresher, GoTo
<1>1. ASSUME NEW success, RowSettled(w, success), loc[w].on \in Students PROVE Works(w)
  BY <1>1 DEF RowSettled, Settles, NoLocals, Locals
<1>2. CASE RowNext(w)
  <2>1. CASE loc[w[1]].left = {}
    BY <1>2, <2>1 DEF RowNext, Finish, GoesOn, NoLocals, runs
  <2>2. CASE loc[w[1]].left # {}
    <3> DEFINE s == FirstOf(loc[w[1]].left)
    <3>1. s \in loc[w[1]].left
      BY <2>2, FirstOfType DEF Locals
    <3> HIDE DEF s
    <3>2. /\ loc' = [loc EXCEPT ![w[1]].left = loc[w[1]].left \ {s}, ![w].on = s]
          /\ pc' = [pc EXCEPT ![w] = "row.look"] /\ UNCHANGED runs
      BY <1>2, <2>2 DEF RowNext, s
    <3> QED
      BY <1>2, <3>1, <3>2 DEF RowNext, Takes, Locals, runs
  <2> QED
    BY <2>1, <2>2
<1>3. CASE RowLook(w) \/ RowAsk(w)
  BY <1>1, <1>3 DEF RowLook, RowAsk, GoesOn, Locals, runs
<1>4. CASE RowStore(w) \/ RowFlip(w)
  BY <1>1, <1>4 DEF RowStore, RowFlip, GoesOn, runs
<1> QED
  BY <1>2, <1>3, <1>4 DEF WorkerStep

\* So every step of a handler, but the start and the end of a run, is one of
\* these.
LEMMA StepTallies ==
    ASSUME ServerInv, NEW a \in Actors, Fresher(a), StepOf(a)
    PROVE  \/ a \in Requests /\ (LeavesTally(a) \/ PreEvalBegin(a) \/ PreEvalEnd(a))
           \/ a \in Workers /\ Works(a)
<1>1. Typed(a)
  BY TypedFacts
<1>2. CASE ReadMetadata(a) \/ ReadResults(a)
  <2>1. UNCHANGED <<pc, loc, evalRun>> /\ pc[a] # "preEval.rows"
    BY <1>2 DEF ReadMetadata, ReadResults, runs, MetaCalls, ResultsCalls, SectionMeta, SectionResults,
       BareMeta, BareResults
  <2> QED
    BY <2>1 DEF LeavesTally, Works, GoesOn, Fresher, Actors
<1>3. CASE a \in Requests /\ ~(ReadMetadata(a) \/ ReadResults(a))
  BY <1>1, <1>3, ProcessLeavesTally, EvaluationLeavesTally, TeacherLeavesTally, ActorsAssumption
  DEF StepOf, ClientCall, RequestStep, PreEvalStep
<1>4. CASE a \in Workers /\ ~(ReadMetadata(a) \/ ReadResults(a))
  <2>1. a[1] \in Actors /\ a[1] # a
    BY <1>4, ActorsAssumption DEF Workers, Actors
  <2> QED
    BY <1>1, <1>4, <2>1, WorkerWorks, ActorsAssumption DEF StepOf, WorkStep
<1> QED
  BY <1>2, <1>3, <1>4 DEF Actors

\* What the tally reads.
LEMMA TallyType ==
    ASSUME ServerInv, NEW e \in Requests
    PROVE  /\ e \in Actors /\ <<e, 1>> \in Workers /\ <<e, 2>> \in Workers
           /\ <<e, 1>> # <<e, 2>> /\ <<e, 1>> # e /\ <<e, 2>> # e
           /\ \A w \in Workers : w[1] = e => w = <<e, 1>> \/ w = <<e, 2>>
           /\ loc[e].left \in SUBSET Students /\ loc[e].settled \in Nat /\ loc[e].succeeded \in Nat
           /\ Cardinality(loc[e].left) \in Nat
           /\ \A w \in Workers : loc[w].on \in Students \cup {0}
           /\ evalRun \in Progress /\ evalRun.total \in Nat
           /\ Cardinality(Students) \in Nat
<1>1. loc \in [Actors -> Locals] /\ evalRun \in Progress /\ Requests \subseteq Actors /\ Workers \subseteq Actors
  BY Facts DEF Data
<1>2. /\ e \in Actors /\ <<e, 1>> \in Workers /\ <<e, 2>> \in Workers
      /\ <<e, 1>> # <<e, 2>> /\ <<e, 1>> # e /\ <<e, 2>> # e
      /\ \A w \in Workers : w[1] = e => w = <<e, 1>> \/ w = <<e, 2>>
  <2>1. /\ <<e, 1>> \in Workers /\ <<e, 2>> \in Workers
        /\ \A w \in Workers : w[1] = e => w = <<e, 1>> \/ w = <<e, 2>>
    BY DEF Workers, Concurrency
  <2> QED
    BY <1>1, <2>1, ActorsAssumption
<1>3. loc[e].left \in SUBSET Students /\ loc[e].settled \in Nat /\ loc[e].succeeded \in Nat
  BY <1>1 DEF Locals
<1>4. Cardinality(loc[e].left) \in Nat /\ Cardinality(Students) \in Nat
  BY <1>3, RowsCount
<1>5. \A w \in Workers : loc[w].on \in Students \cup {0}
  BY <1>1 DEF Locals
<1>6. evalRun.total \in Nat
  BY <1>1 DEF Progress
<1> QED
  BY <1>1, <1>2, <1>3, <1>4, <1>5, <1>6

\* The step of a worker keeps the accounts of its run.
LEMMA WorkerTallies ==
    ASSUME ServerInv, Tallied, NEW e \in Requests, pc[e] = "preEval.rows",
           NEW w \in Workers, w[1] = e, Works(w), Stands(w)
    PROVE  Tally(e)'
<1> DEFINE v == IF w = <<e, 1>> THEN <<e, 2>> ELSE <<e, 1>>
<1>1. /\ e \in Actors /\ v \in Workers /\ v # w /\ v # e /\ w # e
      /\ (w = <<e, 1>> /\ v = <<e, 2>>) \/ (w = <<e, 2>> /\ v = <<e, 1>>)
      /\ loc[e].left \in SUBSET Students /\ loc[e].settled \in Nat /\ loc[e].succeeded \in Nat
      /\ Cardinality(loc[e].left) \in Nat
      /\ loc[v].on \in Students \cup {0} /\ loc[w].on \in Students \cup {0}
      /\ evalRun \in Progress /\ evalRun.total \in Nat
      /\ Cardinality(Students) \in Nat
      /\ v \in Actors
  BY TallyType, Facts
<1>2. /\ loc[v].on \notin loc[e].left /\ loc[w].on \notin loc[e].left
      /\ loc[v].on = loc[w].on => loc[w].on = 0
      /\ loc[e].settled + InHands(v) + InHands(w) + Cardinality(loc[e].left) = evalRun.total
      /\ evalRun.done = loc[e].settled
      /\ loc[e].succeeded <= loc[e].settled
      /\ evalRun.total <= Cardinality(Students)
  BY <1>1 DEF Tallied, Tally, InHands
<1>3. loc'[v] = loc[v]
  BY <1>1 DEF Stands, OthersStand
<1> HIDE DEF v
<1>4. InHands(v) \in {0, 1} /\ InHands(v)' = InHands(v) /\ InHands(w)' \in {0, 1}
  BY <1>3 DEF InHands
<1>5. SUFFICES /\ loc'[v].on \notin loc'[e].left /\ loc'[w].on \notin loc'[e].left
               /\ loc'[v].on = loc'[w].on => loc'[w].on = 0
               /\ loc'[e].settled + InHands(v) + InHands(w)' + Cardinality(loc'[e].left) = evalRun'.total
               /\ evalRun'.done = loc'[e].settled
               /\ loc'[e].succeeded <= loc'[e].settled
               /\ evalRun'.total <= Cardinality(Students)
  <2>0. loc'[e].settled \in Nat /\ loc'[e].left \in SUBSET Students
    BY <1>1 DEF Works, Takes, Settles, GoesOn
  <2>1. loc'[e].settled \in Nat /\ Cardinality(loc'[e].left) \in Nat
    BY <2>0, RowsCount
  <2>2. CASE w = <<e, 1>> /\ v = <<e, 2>>
    BY <1>3, <1>4, <2>1, <2>2 DEF Tally
  <2>3. CASE w = <<e, 2>> /\ v = <<e, 1>>
    BY <1>3, <1>4, <2>1, <2>3 DEF Tally
  <2> QED
    BY <1>1, <2>2, <2>3
<1>6. CASE Takes(w)
  <2>1. loc[w].on = 0
    BY <1>6, Facts DEF Takes, Tallied, Fresher
  <2>2. PICK s \in loc[e].left : loc'[w].on = s /\ loc'[e].left = loc[e].left \ {s}
    BY <1>6 DEF Takes
  <2>3. Cardinality(loc'[e].left) = Cardinality(loc[e].left) - 1
    BY <1>1, <2>2, RowsCount, FS_RemoveElement
  <2>4. s # 0
    BY <1>1, <2>2, StudentsAssumption
  <2> QED
    BY <1>1, <1>2, <1>3, <1>6, <2>1, <2>2, <2>3, <2>4 DEF Takes, InHands
<1>7. CASE Settles(w)
  <2>1. loc[w].on # 0
    BY <1>7, StudentsAssumption DEF Settles
  <2>2. evalRun'.total = evalRun.total /\ evalRun'.done = loc[e].settled + 1
    BY <1>1, <1>7 DEF Settles, Progress
  <2>3. 0 \notin loc[e].left
    BY <1>1, StudentsAssumption
  <2> QED
    BY <1>1, <1>2, <1>3, <1>7, <2>1, <2>2, <2>3 DEF Settles, InHands
<1>8. CASE GoesOn(w)
  BY <1>2, <1>3, <1>8 DEF GoesOn, InHands
<1> QED
  BY <1>6, <1>7, <1>8 DEF Works

\* An idle worker does nothing.
LEMMA WorkerBusy ==
    ASSUME ServerInv, NEW w \in Workers, WorkStep(w)
    PROVE  pc[w] # "idle" /\ w[1] \in Requests /\ pc[w[1]] = "preEval.rows"
<1>1. pc[w] # "idle"
  BY DEF WorkStep, ReadMetadata, ReadResults, WorkerStep, RowNext, RowLook, RowAsk, RowStore, RowFlip,
         MetaCalls, ResultsCalls, SectionMeta, SectionResults, BareMeta, BareResults
<1> QED
  BY <1>1 DEF ServerInv, RunSlotExclusive, Workers

\* No step puts the accounts of a run out.
LEMMA TalliedNext ==
    ASSUME ServerInv, Placed, Tallied, [Next]_vars
    PROVE  Tallied'
<1>0. /\ Requests \subseteq Actors /\ Workers \subseteq Actors
      /\ pc \in [Actors -> Labels] /\ loc \in [Actors -> Locals]
      /\ \A d, e \in Requests : pc[d] = "preEval.rows" /\ pc[e] = "preEval.rows" => d = e
      /\ evalRun.running <=> \E e \in Requests : pc[e] = "preEval.rows"
      /\ \A r \in Requests : r \notin Workers
  BY Facts, ActorsAssumption DEF Data, ServerInv, RunSlotExclusive
<1>1. CASE UNCHANGED vars
  BY <1>1 DEF vars, Tallied, Tally, Fresher, InHands
<1>2. CASE Crash
  BY <1>0, <1>2 DEF Crash, Tallied, Fresher
<1>3. ASSUME NEW a \in Actors, Stands(a), NEW c \in Actors \ {a},
             a \in Workers => pc[a[1]] = "preEval.rows"
      PROVE  Fresher(c)'
  <2>1. /\ pc'[c] = pc[c] \/ (pc[c] = "idle" /\ pc'[c] = "row.next")
        /\ loc'[c] = loc[c] \/ pc[c] = "preEval.rows"
    BY <1>3 DEF Stands, OthersStand
  <2>2. Fresher(c)
    BY DEF Tallied
  <2> QED
    BY <2>1, <2>2 DEF Fresher, NoLocals
<1>4. ASSUME NEW r \in Requests, Stands(r), LeavesTally(r) PROVE Tallied'
  <2>1. \A a \in Actors : Fresher(a)'
    BY <1>0, <1>3, <1>4 DEF LeavesTally
  <2>2. ASSUME NEW e \in Requests, pc'[e] = "preEval.rows" PROVE Tally(e)'
    <3>1. /\ e # r /\ pc[e] = "preEval.rows" /\ loc'[e] = loc[e] /\ evalRun' = evalRun
          /\ loc'[<<e, 1>>] = loc[<<e, 1>>] /\ loc'[<<e, 2>>] = loc[<<e, 2>>]
      BY <1>0, <1>4, <2>2, TallyType DEF LeavesTally, Stands, OthersStand
    <3> QED
      BY <3>1 DEF Tallied, Tally, InHands
  <2> QED
    BY <2>1, <2>2 DEF Tallied
<1>5. ASSUME NEW r \in Requests, Stands(r), PreEvalBegin(r) PROVE Tallied'
  <2>1. CASE Finish(r) /\ UNCHANGED evalRun
    BY <1>0, <1>4, <1>5, <2>1 DEF Finish, LeavesTally, Fresher
  <2>2. CASE /\ ~evalRun.running
             /\ evalRun' = Begun(Cardinality(loc[r].left))
             /\ UNCHANGED loc
    <3>1. \A w \in Workers : pc[w] = "idle" /\ loc[w].on = 0
      BY <1>0, <2>2 DEF ServerInv, RunSlotExclusive, Workers, Tallied, Fresher, NoLocals
    <3>2. \A a \in Actors : Fresher(a)'
      <4>1. pc'[r] = "preEval.rows"
        BY <1>0, <1>5, <2>2 DEF PreEvalBegin
      <4> QED
        BY <1>0, <1>3, <1>5, <4>1 DEF Fresher
    <3>3. ASSUME NEW e \in Requests, pc'[e] = "preEval.rows" PROVE Tally(e)'
      <4>1. e = r
        BY <1>0, <1>5, <2>2, <3>3 DEF Stands, OthersStand
      <4>2. loc[r].settled = 0 /\ loc[r].succeeded = 0
        BY <1>0, <1>5 DEF PreEvalBegin, Tallied, Fresher
      <4>3. loc[r].left \in SUBSET Students /\ 0 \notin loc[r].left
        BY TallyType, StudentsAssumption
      <4>4. /\ Cardinality(loc[r].left) \in Nat
            /\ Cardinality(loc[r].left) <= Cardinality(Students)
        BY <4>3, RowsCount, StudentsAssumption, FS_Subset
      <4> QED
        BY <2>2, <3>1, <4>1, <4>2, <4>3, <4>4, TallyType DEF Tally, InHands, Begun
    <3> QED
      BY <3>2, <3>3 DEF Tallied
  <2> QED
    BY <1>5, <2>1, <2>2 DEF PreEvalBegin
<1>6. ASSUME NEW r \in Requests, Stands(r), PreEvalEnd(r) PROVE Tallied'
  <2>1. pc[r] = "preEval.rows" /\ pc'[r] # "preEval.rows" /\ Fresher(r)'
    BY <1>0, <1>6 DEF PreEvalEnd, Finish, GoTo, Fresher
  <2>2. \A e \in Requests : pc'[e] # "preEval.rows"
    BY <1>0, <1>6, <2>1 DEF Stands, OthersStand
  <2> QED
    BY <1>0, <1>3, <1>6, <2>1, <2>2 DEF Tallied
<1>7. ASSUME NEW w \in Workers, Stands(w), WorkStep(w), Works(w) PROVE Tallied'
  <2>1. w[1] \in Requests /\ pc[w[1]] = "preEval.rows"
    BY <1>7, WorkerBusy
  <2>2. \A a \in Actors : Fresher(a)'
    BY <1>0, <1>3, <1>7, <2>1 DEF Works
  <2>3. \A e \in Requests : pc'[e] = "preEval.rows" => e = w[1]
    BY <1>0, <1>7, <2>1 DEF Stands, OthersStand
  <2> QED
    BY <1>7, <2>1, <2>2, <2>3, WorkerTallies DEF Tallied
<1>8. ASSUME NEW a \in Actors, StepOf(a) PROVE Tallied'
  BY <1>0, <1>4, <1>5, <1>6, <1>7, <1>8, StepStands, StepTallies DEF Tallied, StepOf
<1> QED
  BY <1>0, <1>1, <1>2, <1>8 DEF Next, StepOf

\* How many elements none, one and two elements are.
LEMMA FewElements ==
    /\ Cardinality({}) = 0
    /\ \A x : Cardinality({x}) = 1
    /\ \A x, y : x # y => Cardinality({x, y}) = 2
<1>1. Cardinality({}) = 0
  BY FS_EmptySet
<1>2. ASSUME NEW x PROVE IsFiniteSet({x}) /\ Cardinality({x}) = 1
  BY FS_Singleton
<1>3. ASSUME NEW x, NEW y, x # y PROVE Cardinality({x, y}) = 2
  <2>1. y \notin {x} /\ {x, y} = {x} \cup {y}
    BY <1>3
  <2>2. Cardinality({x} \cup {y}) = Cardinality({x}) + 1
    BY <1>2, <2>1, FS_AddElement
  <2>3. Cardinality({x}) = 1
    BY <1>2
  <2>4. Cardinality({x, y}) = Cardinality({x} \cup {y})
    BY <2>1
  <2> QED
    BY <2>2, <2>3, <2>4
<1> QED
  BY <1>1, <1>2, <1>3

\* The tally is what the property says of the sets of rows and workers.
LEMMA TallyMeans ==
    ASSUME ServerInv, Tallied
    PROVE  EveryTargetAccounted
<1> SUFFICES ASSUME NEW e \in Requests, pc[e] = "preEval.rows"
             PROVE  LET busy == {i \in 1 .. Concurrency : loc[<<e, i>>].on # 0}
                        taken == {loc[<<e, i>>].on : i \in busy}
                    IN  /\ taken \cap loc[e].left = {}
                        /\ Cardinality(taken) = Cardinality(busy)
                        /\ loc[e].settled + Cardinality(busy) + Cardinality(loc[e].left) = evalRun.total
                        /\ evalRun.done = loc[e].settled
  BY DEF EveryTargetAccounted
<1> DEFINE busy == {i \in 1 .. Concurrency : loc[<<e, i>>].on # 0}
           taken == {loc[<<e, i>>].on : i \in busy}
           one == <<e, 1>>
           two == <<e, 2>>
<1>1. Tally(e)
  BY DEF Tallied
<1>2. /\ loc[one].on \notin loc[e].left /\ loc[two].on \notin loc[e].left
      /\ loc[one].on = loc[two].on => loc[one].on = 0
      /\ loc[e].settled + InHands(one) + InHands(two) + Cardinality(loc[e].left) = evalRun.total
      /\ evalRun.done = loc[e].settled
      /\ loc[e].settled \in Nat /\ Cardinality(loc[e].left) \in Nat
  BY <1>1, TallyType DEF Tally
<1>3. 1 .. Concurrency = {1, 2}
  BY DEF Concurrency
<1>4. taken \cap loc[e].left = {}
  BY <1>2, <1>3
<1>5. Cardinality(busy) = InHands(one) + InHands(two) /\ Cardinality(taken) = Cardinality(busy)
  <2>0. /\ busy = {i \in {1, 2} : IF i = 1 THEN loc[one].on # 0 ELSE loc[two].on # 0}
        /\ taken = {IF i = 1 THEN loc[one].on ELSE loc[two].on : i \in busy}
    BY <1>3
  <2> HIDE DEF busy, taken, one, two
  <2>1. CASE loc[one].on = 0 /\ loc[two].on = 0
    <3>1. busy = {} /\ taken = {}
      BY <2>0, <2>1
    <3>2. InHands(one) = 0 /\ InHands(two) = 0
      BY <2>1 DEF InHands
    <3> QED
      BY <3>1, <3>2, FewElements
  <2>2. CASE loc[one].on # 0 /\ loc[two].on = 0
    <3>1. busy = {1} /\ taken = {loc[one].on}
      BY <2>0, <2>2
    <3>2. InHands(one) = 1 /\ InHands(two) = 0
      BY <2>2 DEF InHands
    <3>3. Cardinality(busy) = 1 /\ Cardinality(taken) = 1
      BY <3>1, FewElements, Zenon
    <3> QED
      BY <3>2, <3>3
  <2>3. CASE loc[one].on = 0 /\ loc[two].on # 0
    <3>1. busy = {2} /\ taken = {loc[two].on}
      BY <2>0, <2>3
    <3>2. InHands(one) = 0 /\ InHands(two) = 1
      BY <2>3 DEF InHands
    <3>3. Cardinality(busy) = 1 /\ Cardinality(taken) = 1
      BY <3>1, FewElements, Zenon
    <3> QED
      BY <3>2, <3>3
  <2>4. CASE loc[one].on # 0 /\ loc[two].on # 0
    <3>1. busy = {1, 2} /\ taken = {loc[one].on, loc[two].on}
      BY <2>0, <2>4
    <3>2. InHands(one) = 1 /\ InHands(two) = 1
      BY <2>4 DEF InHands
    <3>3. Cardinality(busy) = 2 /\ Cardinality(taken) = 2
      <4>1. 1 # 2 /\ loc[one].on # loc[two].on
        BY <1>2, <2>4
      <4> QED
        BY <3>1, <4>1, FewElements, Zenon
    <3> QED
      BY <3>2, <3>3
  <2> QED
    BY <2>1, <2>2, <2>3, <2>4
<1>6. InHands(one) \in {0, 1} /\ InHands(two) \in {0, 1}
  BY DEF InHands
<1> HIDE DEF busy, taken
<1>7. /\ taken \cap loc[e].left = {}
      /\ Cardinality(taken) = Cardinality(busy)
      /\ loc[e].settled + Cardinality(busy) + Cardinality(loc[e].left) = evalRun.total
      /\ evalRun.done = loc[e].settled
  BY <1>2, <1>4, <1>5, <1>6
<1> QED
  BY <1>7 DEF busy, taken

\* The tally of a run holds in every behaviour.
LEMMA TalliedAlways == Spec => []Tallied
<1>1. Init => Tallied
  BY DEF Init, StoresInit, Tallied, Fresher, Actors
<1> QED
  BY <1>1, TalliedNext, ServerInvariant, PlacedAlways, PTL DEF Spec

\* Whatever else the server does, crashes included, every target of a
\* pre-evaluation run is waiting, in the hands of one worker, or settled: no
\* row is lost, none is given to both workers, and the progress the dashboard
\* polls counts the rows that have settled.
THEOREM TargetsAccounted == Spec => []EveryTargetAccounted
BY TalliedAlways, TallyMeans, ServerInvariant, PTL
----------------------------------------------------------------------------
(***************************************************************************)
(* An envelope belongs to the result beside it.  One request at a time:    *)
(* whoever asks the model about a row holds the execution that is stored,  *)
(* and whoever replaces an execution drops the envelope with it.           *)
(***************************************************************************)

\* The awaits between the look at an execution and the write of its envelope, in
\* the batch and in the tools of the copilot (CopilotTools), and those of the calls
\* that replace a result or clear it.
Asking == {"row.ask", "row.store", "tool.ask", "tool.envelope"}

Replacing == {"process.store", "process.storeFailure", "run.store", "upload.clear", "delete.result",
              "all.store", "all.storeFailure"}

AsksAbout(a) == pc[a] \in Asking => loc[a].run = results[loc[a].on].run

EnvelopesOwn == EnvelopeMatchesResult /\ \A a \in Actors : AsksAbout(a)

SameRuns == \A s \in Students : results'[s].run = results[s].run

\* What is known of a handler before its step.
OwnKnown(a) ==
    /\ a \in Actors
    /\ results \in ResultsFile /\ loc \in [Actors -> Locals]
    /\ resultsSeen[a] \subseteq {results}
    /\ pc[a] \in AtRow \cup {"tool.ask", "tool.envelope", "all.store", "all.storeFailure"} => loc[a].on \in Students
    /\ EnvelopeMatchesResult /\ AsksAbout(a)

\* What its step does about it.
OwnStep(a) ==
    /\ EnvelopeMatchesResult'
    /\ pc'[a] \in Asking => loc'[a].run = results'[loc'[a].on].run
    /\ SameRuns \/ pc[a] \in Replacing

\* Every operation on the file keeps each envelope with its execution.
LEMMA OwnWrites ==
    ASSUME results \in ResultsFile, EnvelopeMatchesResult, NEW s \in Students, NEW run, NEW S
    PROVE  /\ results' = results => EnvelopeMatchesResult' /\ SameRuns
           /\ results' = SetResult(results, s, run) => EnvelopeMatchesResult'
           /\ results' = ClearResult(results, s) => EnvelopeMatchesResult'
           /\ results' = SetPreEvaluation(results, s, results[s].run) => EnvelopeMatchesResult' /\ SameRuns
           /\ results' = DropPreEval(results, S) => EnvelopeMatchesResult' /\ SameRuns
           /\ results' = Calibrate(results, S) => EnvelopeMatchesResult' /\ SameRuns
<1>1. SetResult(results, s, run)[s].preEval = NoEnvelope
  BY DEF SetResult, ResultsFile, NoResult
<1>2. results' = SetResult(results, s, run) => EnvelopeMatchesResult'
  BY <1>1, EntryEnvelopes DEF EnvelopeMatchesResult, HasPreEval, NoEnvelope, NoExecution
<1>3. results' = ClearResult(results, s) => EnvelopeMatchesResult'
  BY EntryEnvelopes DEF EnvelopeMatchesResult, HasPreEval, NoResult, NoEnvelope, NoExecution
<1>4. results' = SetPreEvaluation(results, s, results[s].run) => EnvelopeMatchesResult' /\ SameRuns
  BY EntryEnvelopes DEF EnvelopeMatchesResult, HasPreEval, SameRuns
<1>5. results' = DropPreEval(results, S) => EnvelopeMatchesResult' /\ SameRuns
  BY CohortEnvelopes DEF EnvelopeMatchesResult, HasPreEval, SameRuns, NoEnvelope, NoExecution
<1>6. results' = Calibrate(results, S) => EnvelopeMatchesResult' /\ SameRuns
  BY CohortEnvelopes DEF EnvelopeMatchesResult, HasPreEval, SameRuns
<1> QED
  BY <1>2, <1>3, <1>4, <1>5, <1>6 DEF EnvelopeMatchesResult, HasPreEval, SameRuns

\* A step that leaves the file alone and is not on its way to an envelope.
LEMMA OwnStands ==
    ASSUME NEW a, EnvelopeMatchesResult, UNCHANGED results, pc'[a] \notin Asking
    PROVE  OwnStep(a)
BY DEF OwnStep, SameRuns, EnvelopeMatchesResult, HasPreEval

\* The two calls of a batch that store an execution replace the whole entry.
LEMMA ProcessOwn ==
    ASSUME NEW b \in Requests, OwnKnown(b), pc \in [Actors -> Labels], ProcessList(b) \/ ProcessStep(b)
    PROVE  OwnStep(b)
<1> USE DEF OwnKnown, AtRow, Asking, GoTo
<1>1. CASE ProcessList(b) \/ ProcessBegin(b) \/ ProcessExecute(b) \/ ProcessAnswered(b)
  BY <1>1, OwnStands DEF ProcessList, ProcessBegin, ProcessExecute, ProcessAnswered, files
<1>2. CASE ProcessStart(b) \/ ProcessCaught(b)
  BY <1>2, OwnStands DEF ProcessStart, ProcessCaught, ProcessAbort, WriteMetadata, LeaveMetadata, Finish, files
<1>3. CASE ProcessExecuted(b) \/ ProcessFailed(b)
  BY <1>3, OwnStands DEF ProcessExecuted, ProcessFailed, ProcessMark, WriteMetadata, LeaveMetadata, files
<1>4. CASE ProcessStore(b) \/ ProcessStoreFailure(b)
  <2>1. /\ loc[b].on \in Students /\ pc[b] \in Replacing
        /\ results' = SetResult(results, loc[b].on, loc[b].run)
    BY <1>4 DEF ProcessStore, ProcessStoreFailure, WriteResults, Replacing
  <2>2. EnvelopeMatchesResult'
    BY <2>1, OwnWrites
  <2>3. pc'[b] \notin Asking
    BY <1>4 DEF ProcessStore, ProcessStoreFailure, ProcessNext, Finish
  <2> QED
    BY <2>1, <2>2, <2>3 DEF OwnStep
<1>5. CASE ProcessClearError(b) \/ ProcessNoteFailure(b) \/ ProcessNoteCaught(b)
  BY <1>5, OwnStands
  DEF ProcessClearError, ProcessNoteFailure, ProcessNoteCaught, ProcessNext, WriteMetadata, Finish
<1> QED
  BY <1>1, <1>2, <1>3, <1>4, <1>5 DEF ProcessStep

\* A pre-evaluation and a reset rewrite envelopes or drop them.
LEMMA EvaluationOwn ==
    ASSUME NEW e \in Requests, OwnKnown(e), pc \in [Actors -> Labels],
           PreEvalArrive(e) \/ PreEvalStep(e) \/ ResetPreArrive(e) \/ ResetPreStep(e)
    PROVE  OwnStep(e)
<1> USE DEF OwnKnown, Asking, GoTo
<1>1. CASE PreEvalArrive(e) \/ PreEvalList(e) \/ PreEvalEnd(e)
  BY <1>1, OwnStands DEF PreEvalArrive, PreEvalList, PreEvalEnd, Finish, files
<1>2. CASE PreEvalBegin(e)
  BY <1>2, OwnStands DEF PreEvalBegin, Finish, files
<1>3. CASE CalibrateCohort(e)
  <2>1. CASE LeaveResults(e)
    BY <1>3, <2>1, OwnStands DEF CalibrateCohort, LeaveResults, Finish, files
  <2>2. ASSUME NEW S, S # {}, S \subseteq Students, WriteResults(e, Calibrate(results, S))
        PROVE  EnvelopeMatchesResult' /\ SameRuns
    BY <2>2, OwnWrites DEF WriteResults
  <2>3. PICK f \in resultsSeen[e] :
           \/ \E S \in (SUBSET {s \in Students : HasPreEval(f, s)}) \ {{}} :
                 WriteResults(e, Calibrate(f, S))
           \/ LeaveResults(e)
    BY <1>3 DEF CalibrateCohort
  <2>4. f = results
    BY <2>3
  <2>5. pc'[e] = "idle"
    BY <1>3 DEF CalibrateCohort, Finish
  <2>6. ASSUME NEW S \in (SUBSET {s \in Students : HasPreEval(f, s)}) \ {{}},
               WriteResults(e, Calibrate(f, S))
        PROVE  EnvelopeMatchesResult' /\ SameRuns
    <3>1. S # {} /\ S \subseteq Students
      OBVIOUS
    <3>2. WriteResults(e, Calibrate(results, S))
      BY <2>4, <2>6
    <3> QED
      BY <3>1, <3>2, <2>2
  <2> QED
    BY <2>1, <2>3, <2>5, <2>6 DEF OwnStep
<1>4. CASE ResetPreArrive(e) \/ ResetPreList(e) \/ ResetPrePick(e)
  BY <1>4, OwnStands DEF ResetPreArrive, ResetPreList, ResetPrePick, ResetPreEnter, Finish, files
<1>5. CASE ResetPreLoad(e) \/ ResetPreFlip(e)
  <2>1. UNCHANGED results
    BY <1>5 DEF ResetPreLoad, ResetPreFlip, WriteMetadata, files
  <2>2. CASE ResetPreLoad(e)
    BY <2>1, <2>2, OwnStands DEF ResetPreLoad
  <2>3. CASE ResetPreFlip(e)
    <3>1. pc'[e] \in {"resetPre.write", "resetPre.flip", "idle"}
      BY <2>3 DEF ResetPreFlip, Finish
    <3> QED
      BY <2>1, <3>1, OwnStands
  <2> QED
    BY <1>5, <2>2, <2>3
<1>6. CASE ResetPreWrite(e)
  <2>1. CASE LeaveResults(e)
    BY <1>6, <2>1, OwnStands DEF ResetPreWrite, LeaveResults, Finish, files
  <2>2. ASSUME NEW s \in loc[e].targets, WriteResults(e, DropPreEval(results, loc[e].targets))
        PROVE  EnvelopeMatchesResult' /\ SameRuns
    <3>1. s \in Students
      BY DEF Locals
    <3> QED
      BY <2>2, <3>1, OwnWrites DEF WriteResults
  <2> QED
    BY <1>6, <2>1, <2>2 DEF ResetPreWrite, Finish, OwnStep
<1> QED
  BY <1>1, <1>2, <1>3, <1>4, <1>5, <1>6 DEF PreEvalStep, ResetPreStep

\* A worker stores an envelope about the execution it has read.
LEMMA WorkerOwn ==
    ASSUME NEW w \in Workers, OwnKnown(w), pc \in [Actors -> Labels], WorkerStep(w)
    PROVE  OwnStep(w)
<1> USE DEF OwnKnown, AtRow, Asking, GoTo
<1>1. CASE RowNext(w)
  BY <1>1, OwnStands DEF RowNext, Finish, files
<1>2. CASE RowLook(w)
  <2>1. CASE RowSettled(w, FALSE)
    BY <1>2, <2>1, OwnStands DEF RowLook, RowSettled, files
  <2>2. CASE loc' = [loc EXCEPT ![w].run = results[loc[w].on].run]
    <3>1. loc'[w].on = loc[w].on /\ loc'[w].run = results[loc[w].on].run
      BY <2>2 DEF Locals
    <3>2. results' = results /\ loc[w].on \in Students
      BY <1>2 DEF RowLook, files
    <3> QED
      BY <3>1, <3>2, OwnWrites DEF OwnStep
  <2> QED
    BY <1>2, <2>1, <2>2 DEF RowLook
<1>3. CASE RowAsk(w)
  <2>1. CASE RowSettled(w, FALSE)
    BY <1>3, <2>1, OwnStands DEF RowAsk, RowSettled, files
  <2>2. CASE UNCHANGED loc
    <3>1. results' = results /\ loc[w].on \in Students /\ loc[w].run = results[loc[w].on].run
      BY <1>3 DEF RowAsk, files, AsksAbout
    <3> QED
      BY <2>2, <3>1, OwnWrites DEF OwnStep
  <2> QED
    BY <1>3, <2>1, <2>2 DEF RowAsk
<1>4. CASE RowStore(w)
  <2>1. CASE LeaveResults(w) /\ RowSettled(w, FALSE)
    BY <2>1, OwnStands DEF LeaveResults, RowSettled, files
  <2>2. CASE WriteResults(w, SetPreEvaluation(results, loc[w].on, loc[w].run)) /\ pc' = [pc EXCEPT ![w] = "row.flip"]
    <3>1. loc[w].on \in Students /\ loc[w].run = results[loc[w].on].run
      BY <1>4 DEF RowStore, AsksAbout
    <3>2. EnvelopeMatchesResult' /\ SameRuns
      BY <2>2, <3>1, OwnWrites DEF WriteResults
    <3> QED
      BY <2>2, <3>2 DEF OwnStep
  <2> QED
    BY <1>4, <2>1, <2>2 DEF RowStore
<1>5. CASE RowFlip(w)
  BY <1>5, OwnStands DEF RowFlip, RowSettled, WriteMetadata, LeaveMetadata, files
<1> QED
  BY <1>1, <1>2, <1>3, <1>4, <1>5 DEF WorkerStep

\* Of the routes on one row, one replaces an execution and two clear it.
LEMMA TeacherOwn ==
    ASSUME NEW t \in Requests, OwnKnown(t), pc \in [Actors -> Labels], TeacherCall(t) \/ TeacherStep(t)
    PROVE  OwnStep(t)
<1> USE DEF OwnKnown, AtRow, Asking, GoTo
<1>1. CASE TeacherCall(t)
  BY <1>1, OwnStands DEF TeacherCall, SaveArrive, GradeArrive, ResetArrive, ImportArrive, ArchiveArrive,
      RestoreArrive, UploadArrive, DeleteArrive, RunArrive, Arrive, files
<1>2. CASE Save(t) \/ GradeStatus(t) \/ GradeMark(t) \/ Reset(t) \/ ImportUpsert(t) \/ ImportSave(t)
  BY <1>2, OwnStands DEF Save, GradeStatus, GradeMark, Reset, ImportUpsert, ImportSave, Attempt, AttemptLast,
      WriteMetadata, LeaveMetadata, Finish, files
<1>3. CASE ArchiveLook(t) \/ RestoreLook(t)
  BY <1>3, OwnStands DEF ArchiveLook, RestoreLook, Finish, files
<1>4. CASE ArchiveStatus(t) \/ RestoreStatus(t) \/ ArchiveMark(t) \/ RestoreMark(t)
  BY <1>4, OwnStands DEF ArchiveStatus, RestoreStatus, ArchiveMark, RestoreMark, WriteBack, AttemptLast,
      WriteMetadata, LeaveMetadata, Finish, files
<1>5. CASE UploadFile(t) \/ DeleteFile(t) \/ UploadUpsert(t) \/ DeleteRecord(t)
  BY <1>5, OwnStands DEF UploadFile, DeleteFile, UploadUpsert, DeleteRecord, Attempt, AttemptLast,
      WriteMetadata, LeaveMetadata, Finish, files
<1>6. CASE UploadClear(t) \/ DeleteResult(t)
  <2>1. loc[t].on \in Students /\ pc[t] \in Replacing /\ pc'[t] \notin Asking
    BY <1>6 DEF UploadClear, DeleteResult, ClearCall, Finish, Replacing
  <2>2. CASE LeaveResults(t)
    BY <2>1, <2>2, OwnStands DEF LeaveResults, files
  <2>3. CASE WriteResults(t, ClearResult(results, loc[t].on))
    BY <2>1, <2>3, OwnWrites DEF WriteResults, OwnStep
  <2> QED
    BY <1>6, <2>2, <2>3 DEF UploadClear, DeleteResult, ClearCall
<1>7. CASE RunStart(t) \/ RunExecuted(t) \/ RunExecute(t)
  BY <1>7, OwnStands DEF RunStart, RunExecuted, RunExecute, Try, WriteMetadata, LeaveMetadata, files
<1>8. CASE RunStore(t)
  <2>1. /\ loc[t].on \in Students /\ pc[t] \in Replacing /\ pc'[t] \notin Asking
        /\ results' = SetResult(results, loc[t].on, loc[t].run)
    BY <1>8 DEF RunStore, WriteResults, Replacing
  <2> QED
    BY <2>1, OwnWrites DEF OwnStep
<1>9. CASE RunClearError(t) \/ RunCaught(t) \/ RunNoteCaught(t)
  BY <1>9, OwnStands DEF RunClearError, RunCaught, RunNoteCaught, Attempt, AttemptLast, WriteMetadata, LeaveMetadata,
     Finish, files
<1> QED
  BY <1>1, <1>2, <1>3, <1>4, <1>5, <1>6, <1>7, <1>8, <1>9 DEF TeacherStep

\* So a step of a handler keeps every envelope with its execution,
LEMMA StepOwn ==
    ASSUME ServerInv, ResultsFresh, EnvelopesOwn, NEW a \in Actors, StepOf(a)
    PROVE  OwnStep(a)
<1>1. OwnKnown(a) /\ pc \in [Actors -> Labels]
  <2>1. pc[a] \notin {"tool.ask", "tool.envelope", "all.store", "all.storeFailure"}
    BY Facts DEF Labels, Other, Section, SectionMeta, SectionResults, BareMeta, BareResults
  <2> QED
    BY <2>1, TypedFacts, Facts DEF OwnKnown, Typed, Data, EnvelopesOwn, ResultsFresh
<1>2. CASE ReadMetadata(a) \/ ReadResults(a)
  <2>1. UNCHANGED <<results, pc, loc>>
    BY <1>2 DEF ReadMetadata, ReadResults, files
  <2> QED
    BY <1>1, <2>1 DEF OwnKnown, OwnStep, AsksAbout, SameRuns, EnvelopeMatchesResult, HasPreEval
<1> QED
  BY <1>1, <1>2, ProcessOwn, EvaluationOwn, WorkerOwn, TeacherOwn DEF StepOf, ClientCall, RequestStep, WorkStep

\* and leaves the workers what they ask about, for the only request replaces no
\* execution while they live.
LEMMA EnvelopesOwnNext ==
    ASSUME OneRequest, ServerInv, Placed, ResultsFresh, EnvelopesOwn, NEW a \in Actors, StepOf(a), Stands(a)
    PROVE  EnvelopesOwn'
<1>1. OwnStep(a)
  BY StepOwn
<1>2. ASSUME NEW c \in Actors \ {a} PROVE AsksAbout(c)'
  <2>1. CASE pc[c] \in Asking
    <3>1. c \in Workers /\ c[1] \in Requests /\ pc[c[1]] = "preEval.rows"
      <4>1. pc[c] \in WorkerLabels
        BY <2>1, Facts DEF Asking, WorkerLabels, Labels, Other, Section, SectionMeta, SectionResults, BareMeta, BareResults
      <4> QED
        BY <2>1, <4>1 DEF Placed, Actors, ServerInv, RunSlotExclusive, Workers, Asking
    <3>2. pc[a] \notin Replacing
      <4>1. CASE a \in Requests
        BY <3>1, <4>1 DEF OneRequest, Replacing
      <4>2. CASE a \in Workers
        BY <4>2 DEF Placed, WorkerLabels, Replacing
      <4> QED
        BY <4>1, <4>2 DEF Actors
    <3>3. SameRuns
      BY <1>1, <3>2 DEF OwnStep
    <3>4. loc[c].on \in Students /\ loc[c].run = results[loc[c].on].run
      <4>1. pc[c] \in AtRow
        BY <2>1, Facts DEF Asking, AtRow, Labels, Other, Section, SectionMeta, SectionResults, BareMeta, BareResults
      <4> QED
        BY <2>1, <4>1, TypedFacts DEF Typed, EnvelopesOwn, AsksAbout
    <3>5. loc'[c] = loc[c]
      BY <3>1, ActorsAssumption, <2>1 DEF Stands, OthersStand, Asking
    <3> QED
      BY <3>3, <3>4, <3>5 DEF SameRuns, AsksAbout
  <2>2. CASE pc[c] \notin Asking
    BY <2>2 DEF Stands, OthersStand, AsksAbout, Asking
  <2> QED
    BY <2>1, <2>2
<1> QED
  BY <1>1, <1>2 DEF OwnStep, EnvelopesOwn, AsksAbout

\* The rows a project is opened with have envelopes of their own.
LEMMA EnvelopesOwnInit == Init => EnvelopesOwn
<1> SUFFICES ASSUME Init PROVE EnvelopesOwn
  OBVIOUS
<1>1. PICK kind \in [Students -> InitialRows] : results = [s \in Students |-> RestingResult(kind[s])]
  BY DEF Init, StoresInit
<1>2. ASSUME NEW k \in InitialRows
      PROVE  RestingResult(k).preEval.about.of # 0 => RestingResult(k).preEval.about = RestingResult(k).run
  <2>1. CASE k = "pre-evaluated"
    <3>1. RestingResult(k) = [NoResult EXCEPT !.run = FirstUpload, !.preEval.about = FirstUpload]
      BY <2>1 DEF RestingResult
    <3> QED
      BY <3>1 DEF NoResult, NoEnvelope
  <2>2. CASE k # "pre-evaluated"
    <3>1. RestingResult(k).preEval = NoEnvelope
      BY <1>2, <2>2, InitialRowsAssumption DEF RowKinds, RestingResult, NoResult
    <3> QED
      BY <3>1 DEF NoEnvelope, NoExecution
  <2> QED
    BY <2>1, <2>2
<1>3. EnvelopeMatchesResult
  BY <1>1, <1>2 DEF EnvelopeMatchesResult, HasPreEval
<1>4. \A a \in Actors : AsksAbout(a)
  BY DEF Init, StoresInit, AsksAbout, Asking
<1> QED
  BY <1>3, <1>4 DEF EnvelopesOwn

----------------------------------------------------------------------------
(***************************************************************************)
(* A teacher who works alone.  What each step of a handler writes to       *)
(* metadata.json, given that its snapshot is the file: an ordinary write,  *)
(* or one of the steps of a grading, an archive or a restore, which take   *)
(* more than one write and keep a record between them.                     *)
(***************************************************************************)

MarkLabels == {"archive.status", "archive.mark", "restore.status", "restore.mark"}

\* A handler is in a route that is called.
Called(a) ==
    /\ pc[a] \in {"import.upsert", "import.save"} => "import" \in Routes
    /\ pc[a] = "reset" => "reset" \in Routes
    /\ pc[a] \in RestoreLabels => "restore" \in Routes

\* An ordinary write of metadata.json, or none.
Writes(a) ==
    \/ meta' = meta
    \/ \E s \in Students, to \in {"executing", "executed", "error", "pre-evaluated"} :
          Exists(meta, s) /\ meta' = SetStatus(meta, s, to)
    \/ \E s \in Students : \E e : meta' = UpsertError(meta, s, e)
    \/ \E s \in Students, keys \in SUBSET Keys : Exists(meta, s) /\ meta' = SaveGrading(meta, s, keys)
    \/ \E s \in Students : meta' = UpsertUpload(meta, s)
    \/ pc[a] = "import.upsert" /\ \E s \in Students : \E g : meta' = UpsertImport(meta, s, g)
    \/ pc[a] = "reset" /\ Exists(meta, loc[a].on) /\ meta' = ResetSubmission(meta, loc[a].on)
    \/ pc[a] = "delete.record" /\ meta' = RemoveSubmission(meta, loc[a].on)

Ordinary(a) ==
    /\ Writes(a)
    /\ pc[a] \notin {"grade.mark", "archive.mark", "restore.mark"}
    /\ pc'[a] \notin MarkLabels \cup {"grade.mark"}
    /\ Called(a)'

\* A step of a route that marks a row in more than one write.
Marks(a) ==
    LET s == loc[a].on
    IN  /\ a \in Requests
        /\ s \in Students
        /\ \/ /\ pc[a] = "grade.status" /\ pc'[a] = "grade.mark"
              /\ loc'[a].on = s
              /\ Exists(meta, s)
              /\ meta' = SetStatus(meta, s, "graded")
           \/ /\ pc[a] = "grade.mark" /\ pc'[a] = "idle"
              /\ meta' = UpsertGrade(meta, s)
           \/ /\ pc[a] = "archive.look" /\ pc'[a] = "archive.status"
              /\ loc'[a].on = s
              /\ loc'[a].kept.archivedFrom = meta[s].status
              /\ meta' = meta
           \/ /\ pc[a] = "archive.status" /\ pc'[a] = "archive.mark"
              /\ loc'[a].on = s
              /\ loc'[a].kept = [meta[s] EXCEPT !.status = "archived",
                                                !.archivedFrom = loc[a].kept.archivedFrom]
              /\ CanMove(meta, s, "archived")
              /\ meta' = SetStatus(meta, s, "archived")
           \/ /\ pc[a] \in {"archive.mark", "restore.mark"} /\ pc'[a] = "idle"
              /\ meta' = [meta EXCEPT ![s] = loc[a].kept]
           \/ /\ pc[a] = "restore.look" /\ pc'[a] = "restore.status"
              /\ loc'[a].on = s
              /\ loc'[a].kept.status \in Status \cap (RestoreTargets \cup {PriorStatus(meta[s])})
              /\ meta' = meta
           \/ /\ pc[a] = "restore.status" /\ pc'[a] = "restore.mark"
              /\ loc'[a].on = s
              /\ loc'[a].kept = [meta[s] EXCEPT !.status = loc[a].kept.status, !.archivedFrom = "none"]
              /\ Exists(meta, s)
              /\ meta' = SetStatus(meta, s, loc[a].kept.status)

Written(a) ==
    \/ UNCHANGED <<meta, pc, loc>>
    \/ Ordinary(a)
    \/ Marks(a)

\* A move along STATUS_TRANSITIONS starts from a row that is there.
LEMMA MovesExist ==
    ASSUME NEW f, NEW s, NEW to, CanMove(f, s, to)
    PROVE  Exists(f, s)
BY DEF CanMove, Exists, Transitions, Status

\* The batch routes only write ordinarily.
LEMMA ProcessWrites ==
    ASSUME NEW b \in Requests, Fresh(b), ProcessList(b) \/ ProcessStep(b)
    PROVE  Ordinary(b)
<1> USE DEF Fresh, Typed, AtRow, Ordinary, MarkLabels, Called, RestoreLabels, GoTo
<1>1. CASE ProcessList(b) \/ ProcessBegin(b) \/ ProcessExecute(b) \/ ProcessAnswered(b)
  BY <1>1 DEF ProcessList, ProcessBegin, ProcessExecute, ProcessAnswered, files, Writes
<1>2. CASE ProcessStart(b) \/ ProcessCaught(b)
  BY <1>2, MovesExist DEF ProcessStart, ProcessCaught, ProcessAbort, WriteMetadata, LeaveMetadata, Finish, files, Writes
<1>3. CASE ProcessExecuted(b) \/ ProcessFailed(b)
  BY <1>3, MovesExist DEF ProcessExecuted, ProcessFailed, ProcessMark, WriteMetadata, LeaveMetadata, files, Writes
<1>4. CASE ProcessStore(b) \/ ProcessStoreFailure(b)
  BY <1>4 DEF ProcessStore, ProcessStoreFailure, ProcessNext, WriteResults, Finish, Writes
<1>5. CASE ProcessNoteFailure(b) \/ ProcessClearError(b) \/ ProcessNoteCaught(b)
  <2>1. Writes(b)
    BY <1>5 DEF ProcessNoteFailure, ProcessClearError, ProcessNoteCaught, WriteMetadata, Writes
  <2> QED
    BY <1>5, <2>1 DEF ProcessNoteFailure, ProcessClearError, ProcessNoteCaught, ProcessNext, Finish
<1> QED
  BY <1>1, <1>2, <1>3, <1>4, <1>5 DEF ProcessStep

\* So do a pre-evaluation and a reset of pre-evaluations,
LEMMA EvaluationWrites ==
    ASSUME NEW e \in Requests, Fresh(e),
           PreEvalArrive(e) \/ PreEvalStep(e) \/ ResetPreArrive(e) \/ ResetPreStep(e)
    PROVE  Ordinary(e)
<1> USE DEF Fresh, Typed, AtRow, Ordinary, MarkLabels, Called, RestoreLabels, GoTo
<1>1. CASE PreEvalArrive(e) \/ PreEvalList(e) \/ PreEvalEnd(e)
  BY <1>1 DEF PreEvalArrive, PreEvalList, PreEvalEnd, Finish, files, Writes
<1>2. CASE PreEvalBegin(e)
  BY <1>2 DEF PreEvalBegin, Finish, files, Writes
<1>3. CASE CalibrateCohort(e)
  BY <1>3 DEF CalibrateCohort, WriteResults, LeaveResults, Finish, files, Writes
<1>4. CASE ResetPreArrive(e) \/ ResetPreList(e) \/ ResetPrePick(e)
  BY <1>4 DEF ResetPreArrive, ResetPreList, ResetPrePick, ResetPreEnter, Finish, files, Writes
<1>5. CASE ResetPreLoad(e)
  BY <1>5 DEF ResetPreLoad, files, Writes
<1>6. CASE ResetPreFlip(e)
  <2>1. meta' = meta \/ /\ Exists(meta, FirstOf(loc[e].left))
                        /\ meta' = SetStatus(meta, FirstOf(loc[e].left), "executed")
    BY <1>6 DEF ResetPreFlip, WriteMetadata, files
  <2>2. FirstOf(loc[e].left) \notin Students => SetStatus(meta, FirstOf(loc[e].left), "executed") = meta
    BY DEF SetStatus, MetadataFile
  <2>3. Writes(e)
    BY <2>1, <2>2 DEF Writes
  <2> QED
    BY <1>6, <2>3 DEF ResetPreFlip, Finish
<1>7. CASE ResetPreWrite(e)
  BY <1>7 DEF ResetPreWrite, WriteResults, LeaveResults, Finish, files, Writes
<1> QED
  BY <1>1, <1>2, <1>3, <1>4, <1>5, <1>6, <1>7 DEF PreEvalStep, ResetPreStep

\* and a worker.
LEMMA WorkerWrites ==
    ASSUME NEW w \in Workers, Fresh(w), WorkerStep(w)
    PROVE  Ordinary(w)
<1> USE DEF Fresh, Typed, AtRow, Ordinary, MarkLabels, Called, RestoreLabels, GoTo
<1>1. CASE RowNext(w) \/ RowLook(w) \/ RowAsk(w)
  BY <1>1 DEF RowNext, RowLook, RowAsk, RowSettled, Finish, files, Writes
<1>2. CASE RowStore(w)
  BY <1>2 DEF RowStore, RowSettled, WriteResults, LeaveResults, files, Writes
<1>3. CASE RowFlip(w)
  BY <1>3 DEF RowFlip, RowSettled, WriteMetadata, LeaveMetadata, files, Writes
<1> QED
  BY <1>1, <1>2, <1>3 DEF WorkerStep

\* A grading, an archive and a restore write in the steps of Marks; the other
\* routes on one row write ordinarily.
LEMMA TeacherWrites ==
    ASSUME NEW t \in Requests, Fresh(t), Called(t), TeacherCall(t) \/ TeacherStep(t)
    PROVE  Ordinary(t) \/ Marks(t)
<1> USE DEF Fresh, Typed, AtRow, MarkLabels, RestoreLabels, GoTo
<1>1. CASE TeacherCall(t)
  BY <1>1 DEF TeacherCall, SaveArrive, GradeArrive, ResetArrive, ImportArrive, ArchiveArrive,
      RestoreArrive, UploadArrive, DeleteArrive, RunArrive, Arrive, files, Ordinary, Called, Writes
<1>2. CASE Save(t) \/ ImportSave(t)
  BY <1>2 DEF Save, ImportSave, AttemptLast, WriteMetadata, LeaveMetadata, Finish, files, Ordinary, Called, Writes
<1>3. CASE GradeStatus(t)
  BY <1>3, MovesExist DEF GradeStatus, Attempt, WriteMetadata, LeaveMetadata, Finish, files, Ordinary, Called, Writes, Marks
<1>4. CASE GradeMark(t)
  BY <1>4 DEF GradeMark, AttemptLast, WriteMetadata, Finish, Marks
<1>5. CASE Reset(t)
  BY <1>5 DEF Reset, AttemptLast, WriteMetadata, LeaveMetadata, Finish, files, Ordinary, Called, Writes
<1>6. CASE ImportUpsert(t)
  BY <1>6 DEF ImportUpsert, Attempt, WriteMetadata, Finish, Ordinary, Called, Writes
<1>7. CASE ArchiveLook(t)
  <2>1. CASE Finish(t)
    BY <1>7, <2>1 DEF ArchiveLook, Finish, files, Ordinary, Called, Writes
  <2>2. CASE /\ loc' = [loc EXCEPT ![t].kept = [meta[loc[t].on] EXCEPT !.archivedFrom = meta[loc[t].on].status]]
             /\ pc' = [pc EXCEPT ![t] = "archive.status"]
    <3>1. meta[loc[t].on] \in Submission
      BY <1>7 DEF ArchiveLook, MetadataFile
    <3>2. loc'[t].on = loc[t].on /\ loc'[t].kept.archivedFrom = meta[loc[t].on].status
      BY <2>2, <3>1 DEF Locals, Submission
    <3> QED
      BY <1>7, <2>2, <3>2 DEF ArchiveLook, files, Marks
  <2> QED
    BY <1>7, <2>1, <2>2 DEF ArchiveLook
<1>8. CASE ArchiveStatus(t)
  <2>1. CASE LeaveMetadata(t) /\ Finish(t)
    BY <1>8, <2>1 DEF ArchiveStatus, LeaveMetadata, Finish, files, Ordinary, Called, Writes
  <2>2. CASE /\ CanMove(meta, loc[t].on, "archived")
             /\ WriteMetadata(t, SetStatus(meta, loc[t].on, "archived"))
             /\ loc' = [loc EXCEPT ![t].kept = Moved(t, meta, "archived", @.archivedFrom)]
             /\ pc' = [pc EXCEPT ![t] = "archive.mark"]
    <3>1. /\ loc'[t].on = loc[t].on
          /\ loc'[t].kept = [meta[loc[t].on] EXCEPT !.status = "archived",
                                                    !.archivedFrom = loc[t].kept.archivedFrom]
      BY <2>2 DEF Locals, Moved
    <3> QED
      BY <1>8, <2>2, <3>1 DEF ArchiveStatus, WriteMetadata, Marks
  <2> QED
    BY <1>8, <2>1, <2>2 DEF ArchiveStatus
<1>9. CASE ArchiveMark(t) \/ RestoreMark(t)
  BY <1>9 DEF ArchiveMark, RestoreMark, WriteBack, AttemptLast, WriteMetadata, Finish, Marks
<1>10. CASE RestoreLook(t)
  <2>1. CASE Finish(t)
    BY <1>10, <2>1 DEF RestoreLook, Finish, files, Ordinary, Called, Writes
  <2>2. ASSUME NEW target \in Status \cap (RestoreTargets \cup {PriorStatus(meta[loc[t].on])}),
               loc' = [loc EXCEPT ![t].kept = [meta[loc[t].on] EXCEPT !.status = target]],
               pc' = [pc EXCEPT ![t] = "restore.status"]
        PROVE  Marks(t)
    <3>1. meta[loc[t].on] \in Submission
      BY <1>10 DEF RestoreLook, MetadataFile
    <3>2. loc'[t].on = loc[t].on /\ loc'[t].kept.status = target
      BY <2>2, <3>1 DEF Locals, Submission
    <3> QED
      BY <1>10, <2>2, <3>2 DEF RestoreLook, files, Marks
  <2> QED
    BY <1>10, <2>1, <2>2 DEF RestoreLook
<1>11. CASE RestoreStatus(t)
  <2>1. CASE LeaveMetadata(t) /\ Finish(t)
    BY <1>11, <2>1 DEF RestoreStatus, LeaveMetadata, Finish, files, Ordinary, Called, Writes
  <2>2. CASE /\ Exists(meta, loc[t].on)
             /\ WriteMetadata(t, SetStatus(meta, loc[t].on, loc[t].kept.status))
             /\ loc' = [loc EXCEPT ![t].kept = Moved(t, meta, @.status, "none")]
             /\ pc' = [pc EXCEPT ![t] = "restore.mark"]
    <3>1. /\ loc'[t].on = loc[t].on
          /\ loc'[t].kept = [meta[loc[t].on] EXCEPT !.status = loc[t].kept.status, !.archivedFrom = "none"]
      BY <2>2 DEF Locals, Moved
    <3> QED
      BY <1>11, <2>2, <3>1 DEF RestoreStatus, WriteMetadata, Marks
  <2> QED
    BY <1>11, <2>1, <2>2 DEF RestoreStatus
<1>12. CASE UploadFile(t) \/ DeleteFile(t)
  BY <1>12 DEF UploadFile, DeleteFile, Finish, Ordinary, Called, Writes
<1>13. CASE UploadUpsert(t)
  BY <1>13 DEF UploadUpsert, Attempt, WriteMetadata, Finish, Ordinary, Called, Writes
<1>14. CASE UploadClear(t) \/ DeleteResult(t)
  BY <1>14 DEF UploadClear, DeleteResult, ClearCall, WriteResults, LeaveResults, Finish, files, Ordinary, Called, Writes
<1>15. CASE DeleteRecord(t)
  BY <1>15 DEF DeleteRecord, AttemptLast, WriteMetadata, LeaveMetadata, Finish, files, Ordinary, Called, Writes
<1>16. CASE RunStart(t) \/ RunExecuted(t)
  BY <1>16, MovesExist DEF RunStart, RunExecuted, Try, WriteMetadata, LeaveMetadata, files, Ordinary, Called, Writes
<1>17. CASE RunExecute(t) \/ RunStore(t)
  BY <1>17 DEF RunExecute, RunStore, WriteResults, files, Ordinary, Called, Writes
<1>18. CASE RunCaught(t)
  BY <1>18, MovesExist DEF RunCaught, Attempt, WriteMetadata, LeaveMetadata, Finish, files, Ordinary, Called, Writes
<1>19. CASE RunClearError(t) \/ RunNoteCaught(t)
  <2>1. Writes(t)
    BY <1>19 DEF RunClearError, RunNoteCaught, AttemptLast, WriteMetadata, Writes
  <2> QED
    BY <1>19, <2>1 DEF RunClearError, RunNoteCaught, AttemptLast, Finish, Ordinary, Called
<1> QED
  BY <1>1, <1>2, <1>3, <1>4, <1>5, <1>6, <1>7, <1>8, <1>9, <1>10, <1>11, <1>12, <1>13, <1>14,
     <1>15, <1>16, <1>17, <1>18, <1>19 DEF TeacherStep

\* A row that is not there has nothing filled in.
Blank(row) == row.teacherGrade = FALSE /\ row.grading = {} /\ row.archivedFrom = "none"

Blanks == \A s \in Students : ~Exists(meta, s) => Blank(meta[s])

\* What the record an archive or a restore keeps has to do with its row.
KeptBy(r) ==
    LET row == meta[loc[r].on]
        kept == loc[r].kept
        targets == Status \cap (RestoreTargets \cup {PriorStatus(row)})
    IN  /\ Called(r)
        /\ pc[r] = "archive.status" => kept.archivedFrom = row.status
        /\ pc[r] = "archive.mark" => kept.status = "archived" /\ kept.archivedFrom \in Status \ {"archived"}
        /\ pc[r] = "restore.status" => kept.status \in targets
        /\ pc[r] = "restore.mark" =>
              kept.status \in targets /\ kept.status = row.status /\ kept.archivedFrom = "none"
        /\ pc[r] \in {"archive.mark", "restore.mark"} =>
              kept.grading = row.grading /\ kept.teacherGrade = row.teacherGrade

AloneKept == Blanks /\ \A r \in Requests : KeptBy(r)

\* So an upsert starts from what the row has, whether it is there or not.
LEMMA BlankBase ==
    ASSUME meta \in MetadataFile, Blanks, NEW s \in Students
    PROVE  /\ UpsertBase(meta, s).teacherGrade = meta[s].teacherGrade
           /\ UpsertBase(meta, s).grading = meta[s].grading
           /\ UpsertBase(meta, s).archivedFrom = meta[s].archivedFrom
           /\ UpsertBase(meta, s).status # "absent"
           /\ UpsertBase(meta, s).status \in {meta[s].status, "pending"}
BY UpsertBaseRow DEF Blanks, Blank

\* What an ordinary write does to a row.
OrdinaryRow(a, t) ==
    /\ meta[t].grading \subseteq meta'[t].grading \/ (pc[a] \in {"reset", "delete.record"} /\ loc[a].on = t)
    /\ meta'[t].archivedFrom = meta[t].archivedFrom \/ ~Exists(meta', t)
    /\ meta'[t].status = "archived" => meta[t].status = "archived"
    /\ meta'[t].status = "graded" => meta[t].status = "graded" \/ pc[a] = "import.upsert"
    /\ \/ meta'[t].teacherGrade = meta[t].teacherGrade
       \/ pc[a] = "import.upsert"
       \/ pc[a] = "reset" /\ meta'[t].status = "executed"
       \/ ~Exists(meta', t)
    /\ ~Exists(meta', t) => Blank(meta'[t])

\* It takes nothing away but by a reset or a deletion, and neither archives
\* nor, but by an import, grades.
LEMMA WritesRow ==
    ASSUME meta \in MetadataFile, Blanks, NEW a, Writes(a),
           pc[a] \in {"reset", "delete.record"} => loc[a].on \in Students,
           NEW t \in Students
    PROVE  OrdinaryRow(a, t)
<1>1. CASE meta' = meta
  BY <1>1 DEF OrdinaryRow, Blanks
<1>2. ASSUME NEW s \in Students, NEW to \in {"executing", "executed", "error", "pre-evaluated"},
             meta' = SetStatus(meta, s, to)
      PROVE  OrdinaryRow(a, t)
  <2>1. to \in Status
    BY DEF Status
  <2> QED
    BY <1>2, <2>1, SetStatusRow DEF OrdinaryRow, Blanks, Exists
<1>3. ASSUME NEW s \in Students, NEW e, meta' = UpsertError(meta, s, e) PROVE OrdinaryRow(a, t)
  BY <1>3, UpsertErrorRow, BlankBase DEF OrdinaryRow, Blanks, Exists
<1>4. ASSUME NEW s \in Students, NEW keys \in SUBSET Keys, Exists(meta, s), meta' = SaveGrading(meta, s, keys)
      PROVE  OrdinaryRow(a, t)
  BY <1>4, SaveGradingRow DEF OrdinaryRow, Blanks, Exists
<1>5. ASSUME NEW s \in Students, meta' = UpsertUpload(meta, s) PROVE OrdinaryRow(a, t)
  BY <1>5, UpsertUploadRow, BlankBase DEF OrdinaryRow, Blanks, Exists
<1>6. ASSUME pc[a] = "import.upsert", NEW s \in Students, NEW g, meta' = UpsertImport(meta, s, g)
      PROVE  OrdinaryRow(a, t)
  BY <1>6, UpsertImportRow, BlankBase DEF OrdinaryRow, Blanks, Exists
<1>7. CASE pc[a] = "reset" /\ Exists(meta, loc[a].on) /\ meta' = ResetSubmission(meta, loc[a].on)
  <2>1. loc[a].on \in Students
    BY <1>7
  <2>2. /\ t # loc[a].on => meta'[t] = meta[t]
        /\ t = loc[a].on => /\ meta'[t].status = "executed"
                            /\ meta'[t].archivedFrom = meta[t].archivedFrom
    BY <1>7, <2>1 DEF ResetSubmission, MetadataFile, Submission
  <2> QED
    BY <1>7, <2>2 DEF OrdinaryRow, Blanks, Exists
<1>8. CASE pc[a] = "delete.record" /\ meta' = RemoveSubmission(meta, loc[a].on)
  <2>1. loc[a].on \in Students
    BY <1>8
  <2>2. /\ t # loc[a].on => meta'[t] = meta[t]
        /\ t = loc[a].on => meta'[t] = NoSubmission
    BY <1>8, <2>1 DEF RemoveSubmission, MetadataFile
  <2>3. NoSubmission.status = "absent" /\ Blank(NoSubmission)
    BY DEF NoSubmission, Blank
  <2> QED
    BY <1>8, <2>2, <2>3 DEF OrdinaryRow, Blanks, Exists
<1> QED
  BY <1>1, <1>2, <1>3, <1>4, <1>5, <1>6, <1>7, <1>8 DEF Writes

\* What the steps of Marks do to a row.
MarksRow(a, t) ==
    /\ meta[t].grading \subseteq meta'[t].grading
    /\ meta'[t].teacherGrade = meta[t].teacherGrade \/ meta'[t].teacherGrade = TRUE
    /\ \/ meta'[t].archivedFrom = meta[t].archivedFrom
       \/ pc[a] \in {"archive.mark", "restore.mark"} /\ loc[a].on = t /\ meta'[t].archivedFrom = loc[a].kept.archivedFrom
    /\ ~Exists(meta', t) => Blank(meta'[t])

\* They take nothing away either: the record written back is the row.
LEMMA MarksRows ==
    ASSUME meta \in MetadataFile, loc \in [Actors -> Locals], Blanks, NEW a \in Actors, Marks(a), KeptBy(a), NEW t \in Students
    PROVE  MarksRow(a, t)
<1> DEFINE s == loc[a].on
           kept == loc[a].kept
<1>1. s \in Students /\ kept \in Submission /\ meta[s] \in Submission
  BY DEF Marks, Locals, MetadataFile
<1>2. \A target \in Status \cap (RestoreTargets \cup {PriorStatus(meta[s])}) : target \in Status
  BY <1>1 DEF PriorStatus, Submission, Status
<1> HIDE DEF s, kept
<1>3. ASSUME NEW to \in Status, meta' = SetStatus(meta, s, to), Exists(meta, s) PROVE MarksRow(a, t)
  <2>1. \A u \in Students : /\ meta'[u].grading = meta[u].grading
                            /\ meta'[u].teacherGrade = meta[u].teacherGrade
                            /\ meta'[u].archivedFrom = meta[u].archivedFrom
                            /\ Exists(meta, u) => Exists(meta', u)
    BY <1>1, <1>3, SetStatusRow DEF Exists, Status
  <2> QED
    BY <2>1 DEF MarksRow, Blanks, Blank
<1>4. CASE meta' = UpsertGrade(meta, s)
  <2>1. /\ t # s => meta'[t] = meta[t]
        /\ t = s => /\ meta'[t].status = UpsertBase(meta, s).status
                    /\ meta'[t].teacherGrade = TRUE
                    /\ meta'[t].grading = UpsertBase(meta, s).grading
                    /\ meta'[t].archivedFrom = UpsertBase(meta, s).archivedFrom
    BY <1>1, <1>4, UpsertGradeRow
  <2>2. /\ UpsertBase(meta, s).status # "absent"
        /\ UpsertBase(meta, s).grading = meta[s].grading
        /\ UpsertBase(meta, s).archivedFrom = meta[s].archivedFrom
    BY <1>1, BlankBase
  <2> QED
    BY <2>1, <2>2 DEF MarksRow, Blanks, Exists
<1>5. CASE pc[a] \in {"archive.mark", "restore.mark"} /\ meta' = [meta EXCEPT ![s] = kept]
  <2>1. meta'[s] = kept /\ \A u \in Students \ {s} : meta'[u] = meta[u]
    BY <1>1, <1>5 DEF MetadataFile
  <2>2. kept.status # "absent" /\ kept.grading = meta[s].grading /\ kept.teacherGrade = meta[s].teacherGrade
    BY <1>2, <1>5 DEF KeptBy, Status, s, kept
  <2> QED
    BY <1>1, <1>5, <2>1, <2>2 DEF MarksRow, Blanks, Exists, s, kept
<1>6. CASE meta' = meta
  BY <1>6 DEF MarksRow, Blanks
<1>7. "graded" \in Status /\ "archived" \in Status
  BY DEF Status
<1>8. CASE pc[a] = "restore.status" /\ Exists(meta, s) /\ meta' = SetStatus(meta, s, kept.status)
  <2>1. kept.status \in Status
    BY <1>2, <1>8 DEF KeptBy, s, kept
  <2> QED
    BY <1>3, <1>8, <2>1
<1> QED
  BY <1>3, <1>4, <1>5, <1>6, <1>7, <1>8, MovesExist DEF Marks, s, kept

\* A step of one handler is one of these.
LEMMA StepWrites ==
    ASSUME ServerInv, MetadataFresh, AloneKept, NEW a \in Actors, StepOf(a)
    PROVE  Written(a)
<1>1. Fresh(a)
  BY FreshFacts
<1>2. CASE ReadMetadata(a) \/ ReadResults(a)
  BY <1>2 DEF ReadMetadata, ReadResults, files, Written
<1> QED
  BY <1>1, <1>2, ProcessWrites, EvaluationWrites, WorkerWrites, TeacherWrites
  DEF StepOf, ClientCall, RequestStep, WorkStep, Written, AloneKept, KeptBy

\* With one request in flight, either it moves, or it waits for its workers.
LEMMA AloneMoves ==
    ASSUME OneRequest, ServerInv, NEW a \in Actors, StepOf(a)
    PROVE  \/ \A r \in Requests : r = a
           \/ \A r \in Requests : pc[r] = "preEval.rows" /\ pc'[r] = "preEval.rows"
<1>1. CASE a \in Requests
  BY <1>1 DEF OneRequest
<1>2. CASE a \in Workers /\ WorkStep(a)
  <2>1. a[1] \in Requests /\ pc[a[1]] = "preEval.rows"
    BY <1>2, WorkerBusy
  <2>2. Stands(a)
    BY StepStands
  <2> QED
    BY <1>2, <2>1, <2>2, ActorsAssumption DEF OneRequest, Stands, OthersStand, Actors
<1> QED
  BY <1>1, <1>2 DEF StepOf

\* Nobody touches the row whose record an archive or a restore keeps.
LEMMA AloneKeptNext ==
    ASSUME OneRequest, ServerInv, MetadataFresh, AloneKept, [Next]_vars
    PROVE  AloneKept'
<1>1. CASE UNCHANGED vars
  BY <1>1 DEF vars, AloneKept, Blanks, KeptBy, Called
<1>2. CASE Crash
  BY <1>2, Facts DEF Crash, files, AloneKept, Blanks, KeptBy, Called, RestoreLabels
<1>3. ASSUME NEW a \in Actors, StepOf(a) PROVE AloneKept'
  <2>0. /\ meta \in MetadataFile /\ loc \in [Actors -> Locals] /\ Blanks
        /\ pc[a] \in AtRow => loc[a].on \in Students
    BY Facts DEF Data, AloneKept
  <2>1. Written(a)
    BY <1>3, StepWrites
  <2>2. CASE UNCHANGED <<meta, pc, loc>>
    BY <2>2 DEF AloneKept, Blanks, KeptBy, Called
  <2>3. CASE Ordinary(a)
    <3>1. Blanks'
      BY <2>0, <2>3, WritesRow DEF Ordinary, OrdinaryRow, Blanks, AtRow
    <3>2. \A r \in Requests : KeptBy(r)'
      BY <1>3, <2>3, AloneMoves DEF Ordinary, KeptBy, Called, MarkLabels, RestoreLabels
    <3> QED
      BY <3>1, <3>2 DEF AloneKept
  <2>4. CASE Marks(a)
    <3>0. /\ a \in Requests /\ KeptBy(a) /\ loc[a].on \in Students /\ meta[loc[a].on] \in Submission
          /\ \A r \in Requests : r = a
      BY <2>0, <2>4 DEF Marks, AloneKept, MetadataFile, OneRequest
    <3>1. Blanks'
      BY <2>0, <2>4, <3>0, MarksRows DEF MarksRow, Blanks
    <3>2. CASE pc'[a] \in {"grade.mark", "idle"}
      BY <3>0, <3>1, <3>2 DEF KeptBy, AloneKept, Called, RestoreLabels
    <3>3. CASE pc'[a] = "archive.status"
      <4>1. ASSUME NEW r \in Requests PROVE KeptBy(r)'
        BY <3>0, <2>4, <3>3 DEF Marks, KeptBy, Called, RestoreLabels
      <4> QED
        BY <3>1, <4>1 DEF AloneKept
    <3>4. CASE pc'[a] = "archive.mark"
      <4> DEFINE s == loc[a].on
      <4>1. /\ loc'[a].on = s /\ pc[a] = "archive.status"
            /\ loc'[a].kept = [meta[s] EXCEPT !.status = "archived", !.archivedFrom = loc[a].kept.archivedFrom]
            /\ CanMove(meta, s, "archived")
            /\ meta' = SetStatus(meta, s, "archived")
        BY <2>4, <3>4 DEF Marks
      <4>2. loc[a].kept.archivedFrom \in Status \ {"archived"}
        BY <3>0, <4>1 DEF KeptBy, CanMove, Transitions, Status
      <4>3. /\ meta'[s].grading = meta[s].grading /\ meta'[s].teacherGrade = meta[s].teacherGrade
            /\ loc'[a].kept.grading = meta[s].grading /\ loc'[a].kept.teacherGrade = meta[s].teacherGrade
            /\ loc'[a].kept.status = "archived"
            /\ loc'[a].kept.archivedFrom = loc[a].kept.archivedFrom
        BY <2>0, <3>0, <4>1, SetStatusRow DEF Submission, Status
      <4> HIDE DEF s
      <4>4. ASSUME NEW r \in Requests PROVE KeptBy(r)'
        <5>1. r = a /\ loc'[a].on = s
          BY <3>0, <4>1
        <5> QED
          BY <3>4, <4>2, <4>3, <5>1 DEF KeptBy, Called, RestoreLabels
      <4> QED
        BY <3>1, <4>4 DEF AloneKept
    <3>5. CASE pc'[a] = "restore.status"
      <4>1. ASSUME NEW r \in Requests PROVE KeptBy(r)'
        BY <2>4, <3>0, <3>5 DEF Marks, KeptBy, Called, RestoreLabels
      <4> QED
        BY <3>1, <4>1 DEF AloneKept
    <3>6. CASE pc'[a] = "restore.mark"
      <4> DEFINE s == loc[a].on
                 to == loc[a].kept.status
      <4>1. /\ loc'[a].on = s /\ pc[a] = "restore.status"
            /\ loc'[a].kept = [meta[s] EXCEPT !.status = to, !.archivedFrom = "none"]
            /\ meta' = SetStatus(meta, s, to)
        BY <2>4, <3>6 DEF Marks
      <4>2. to \in Status \cap (RestoreTargets \cup {PriorStatus(meta[s])}) /\ to \in Status
        BY <3>0, <4>1 DEF KeptBy, PriorStatus, Submission, Status
      <4>3. /\ meta'[s].status = to /\ meta'[s].archivedFrom = meta[s].archivedFrom
            /\ meta'[s].grading = meta[s].grading /\ meta'[s].teacherGrade = meta[s].teacherGrade
        BY <2>0, <3>0, <4>1, <4>2, SetStatusRow
      <4>4. /\ loc'[a].kept.status = to /\ loc'[a].kept.archivedFrom = "none"
            /\ loc'[a].kept.grading = meta[s].grading /\ loc'[a].kept.teacherGrade = meta[s].teacherGrade
        BY <3>0, <4>1 DEF Submission
      <4>5. "restore" \in Routes
        BY <3>0, <4>1 DEF KeptBy, Called, RestoreLabels
      <4> HIDE DEF s, to
      <4>6. ASSUME NEW r \in Requests PROVE KeptBy(r)'
        <5>1. PriorStatus(meta'[s]) = PriorStatus(meta[s])
          BY <4>3 DEF PriorStatus
        <5>2. r = a /\ loc'[a].on = s
          BY <3>0, <4>1
        <5> QED
          BY <3>6, <4>2, <4>3, <4>4, <4>5, <5>1, <5>2 DEF KeptBy, Called, RestoreLabels
      <4> QED
        BY <3>1, <4>6 DEF AloneKept
    <3> QED
      BY <2>4, <3>2, <3>3, <3>4, <3>5, <3>6 DEF Marks
  <2> QED
    BY <2>1, <2>2, <2>3, <2>4 DEF Written
<1> QED
  BY <1>1, <1>2, <1>3, NextStands

\* It holds at the start,
LEMMA AloneKeptInit == Init => AloneKept
<1>1. ASSUME NEW kind \in RowKinds, RestingSubmission(kind).status = "absent"
      PROVE  Blank(RestingSubmission(kind))
  BY <1>1 DEF RowKinds, RestingSubmission, NoSubmission, Blank
<1> QED
  BY <1>1, InitialRowsAssumption
  DEF Init, StoresInit, AloneKept, Blanks, Exists, KeptBy, Called, RestoreLabels, Actors

\* and at every step.
LEMMA AloneKeptAlways ==
    ASSUME OneRequest
    PROVE  Spec => []AloneKept
<1>1. ServerInv /\ MetadataFresh /\ AloneKept /\ [Next]_vars => AloneKept'
  BY AloneKeptNext
<1>2. Spec => [](MetadataFresh /\ ResultsFresh)
  BY AloneLosesNothing
<1> QED
  BY <1>1, <1>2, AloneKeptInit, ServerInvariant, PTL DEF Spec

\* What becomes of the rows in a step of a teacher who works alone.
LEMMA AloneRowsOf ==
    ASSUME ServerInv, MetadataFresh, AloneKept, NEW a \in Actors, StepOf(a)
    PROVE  \/ UNCHANGED <<meta, pc, loc>>
           \/ Ordinary(a) /\ \A t \in Students : OrdinaryRow(a, t)
           \/ Marks(a) /\ a \in Requests /\ KeptBy(a) /\ \A t \in Students : MarksRow(a, t)
<1>1. /\ meta \in MetadataFile /\ loc \in [Actors -> Locals] /\ Blanks
      /\ pc[a] \in AtRow => loc[a].on \in Students
  BY Facts DEF Data, AloneKept
<1>2. CASE Ordinary(a)
  BY <1>1, <1>2, WritesRow DEF Ordinary, AtRow
<1>3. CASE Marks(a)
  <2>1. a \in Requests /\ KeptBy(a)
    BY <1>3 DEF Marks, AloneKept
  <2> QED
    BY <1>1, <1>3, <2>1, MarksRows
<1> QED
  BY <1>2, <1>3, StepWrites DEF Written

\* The same of one row.
LEMMA AloneRows ==
    ASSUME ServerInv, MetadataFresh, AloneKept, NEW a \in Actors, StepOf(a), NEW t \in Students
    PROVE  \/ UNCHANGED <<meta, pc, loc>>
           \/ Ordinary(a) /\ OrdinaryRow(a, t)
           \/ Marks(a) /\ a \in Requests /\ KeptBy(a) /\ MarksRow(a, t)
BY AloneRowsOf

\* What a teacher who works alone has filled in disappears only when the row
\* is reset or deleted: not in a grading, an archive, a restore, an import, a
\* new upload, an execution or a pre-evaluation, and not in a crash.
THEOREM AloneGradingKept ==
    ASSUME OneRequest
    PROVE  Spec => GradingOnlyCleared
<1>1. ServerInv /\ Placed /\ MetadataFresh /\ AloneKept /\ [Next]_vars
        => [\A s \in Students :
              ~(meta[s].grading \subseteq meta'[s].grading) =>
                  \E r \in Requests : Doing(r, {"reset", "delete.record"}, s)]_vars
  <2> SUFFICES ASSUME ServerInv, Placed, MetadataFresh, AloneKept, [Next]_vars,
                      NEW s \in Students, ~(meta[s].grading \subseteq meta'[s].grading)
               PROVE  \E r \in Requests : Doing(r, {"reset", "delete.record"}, s)
    OBVIOUS
  <2>1. meta' # meta
    OBVIOUS
  <2>2. PICK a \in Actors : StepOf(a)
    BY <2>1, NextStands DEF vars, Crash, files
  <2>3. Ordinary(a) /\ OrdinaryRow(a, s)
    BY <2>1, <2>2, AloneRows DEF MarksRow
  <2>4. pc[a] \in {"reset", "delete.record"} /\ loc[a].on = s
    BY <2>3 DEF OrdinaryRow
  <2>5. a \in Requests
    BY <2>4 DEF Placed, WorkerLabels, Actors
  <2> QED
    BY <2>4, <2>5 DEF Doing
<1>2. Spec => [](MetadataFresh /\ ResultsFresh)
  BY AloneLosesNothing
<1>3. Spec => []AloneKept
  BY AloneKeptAlways
<1> QED
  BY <1>1, <1>2, <1>3, ServerInvariant, PlacedAlways, PTL DEF Spec, GradingOnlyCleared

\* A row that is archived knows where from, or is about to be told; no row
\* was archived from being archived.
Remembered ==
    \A s \in Students :
        /\ meta[s].archivedFrom # "archived"
        /\ meta[s].status = "archived" =>
              \/ meta[s].archivedFrom # "none"
              \/ \E r \in Requests : pc[r] = "archive.mark" /\ loc[r].on = s

\* Every step of a teacher who works alone keeps it so.
LEMMA RememberedNext ==
    ASSUME OneRequest, ~Crashes, "archived" \notin RestoreTargets,
           ServerInv, MetadataFresh, AloneKept, Remembered, [Next]_vars
    PROVE  Remembered'
<1>1. CASE UNCHANGED vars
  BY <1>1 DEF vars, Remembered
<1>2. ASSUME NEW a \in Actors, StepOf(a), NEW t \in Students
      PROVE  /\ meta'[t].archivedFrom # "archived"
             /\ meta'[t].status = "archived" =>
                   \/ meta'[t].archivedFrom # "none"
                   \/ \E r \in Requests : pc'[r] = "archive.mark" /\ loc'[r].on = t
  <2>0. meta \in MetadataFile /\ loc \in [Actors -> Locals]
    BY Facts DEF Data
  <2>1. CASE UNCHANGED <<meta, pc, loc>>
    BY <2>1 DEF Remembered
  <2>2. CASE Ordinary(a) /\ OrdinaryRow(a, t)
    <3>1. \A r \in Requests : pc[r] # "archive.mark"
      BY <1>2, <2>2, AloneMoves DEF Ordinary
    <3> QED
      BY <2>2, <3>1 DEF OrdinaryRow, Remembered, Blank, Exists
  <2>3. CASE Marks(a) /\ a \in Requests /\ KeptBy(a) /\ MarksRow(a, t)
    <3> DEFINE s == loc[a].on
               kept == loc[a].kept
    <3>1. \A r \in Requests : r = a
      BY <2>3 DEF OneRequest
    <3>2. s \in Students
      BY <2>3 DEF Marks
    <3>3. CASE pc[a] = "archive.mark" /\ meta' = [meta EXCEPT ![s] = kept]
      <4>1. kept.archivedFrom \notin {"archived", "none"}
        BY <2>3, <3>3 DEF KeptBy, Status
      <4>2. meta'[s] = kept /\ (t # s => meta'[t] = meta[t])
        BY <2>0, <3>2, <3>3 DEF MetadataFile
      <4>3. t # s => \A r \in Requests : ~(pc[r] = "archive.mark" /\ loc[r].on = t)
        BY <3>1
      <4> QED
        BY <4>1, <4>2, <4>3 DEF Remembered
    <3>4. CASE pc[a] = "restore.mark" /\ meta' = [meta EXCEPT ![s] = kept]
      <4>1. kept.archivedFrom = "none" /\ kept.status \in Status \cap (RestoreTargets \cup {PriorStatus(meta[s])})
        BY <2>3, <3>4 DEF KeptBy
      <4>2. kept.status # "archived"
        BY <3>2, <4>1 DEF PriorStatus, Remembered
      <4>3. meta'[s] = kept /\ (t # s => meta'[t] = meta[t])
        BY <2>0, <3>2, <3>4 DEF MetadataFile
      <4>4. \A r \in Requests : pc[r] # "archive.mark"
        BY <3>1, <3>4
      <4> QED
        BY <4>1, <4>2, <4>3, <4>4 DEF Remembered
    <3>5. CASE pc[a] \notin {"archive.mark", "restore.mark"}
      <4>1. meta'[t].archivedFrom = meta[t].archivedFrom
        BY <2>3, <3>5 DEF MarksRow
      <4>2. \A r \in Requests : pc[r] # "archive.mark"
        BY <3>1, <3>5
      <4>3. meta'[t].status = "archived" => meta[t].status = "archived" \/ (pc'[a] = "archive.mark" /\ loc'[a].on = t)
        <5>1. CASE meta' = meta
          BY <5>1
        <5>2. CASE meta' = SetStatus(meta, s, "graded")
          BY <2>0, <3>2, <5>2, SetStatusRow DEF Status
        <5>3. CASE meta' = UpsertGrade(meta, s)
          <6>1. /\ t # s => meta'[t] = meta[t]
                /\ t = s => meta'[t].status = UpsertBase(meta, s).status
            BY <2>0, <3>2, <5>3 DEF UpsertGrade, MetadataFile
          <6>2. UpsertBase(meta, s).status \in {meta[s].status, "pending"}
            BY <2>0, <3>2, BlankBase DEF AloneKept
          <6>3. CASE t # s
            BY <6>1, <6>3
          <6>4. CASE t = s
            BY <6>1, <6>2, <6>4
          <6> QED
            BY <6>3, <6>4
        <5>4. CASE pc'[a] = "archive.mark" /\ loc'[a].on = s /\ meta' = SetStatus(meta, s, "archived")
          BY <2>0, <3>2, <5>4, SetStatusRow DEF Status
        <5>5. CASE pc[a] = "restore.status" /\ meta' = SetStatus(meta, s, kept.status)
          <6>1. kept.status \in Status \cap (RestoreTargets \cup {PriorStatus(meta[s])})
            BY <2>3, <5>5 DEF KeptBy
          <6>2. kept.status # "archived"
            BY <3>2, <6>1 DEF PriorStatus, Remembered
          <6>3. t # s => meta'[t] = meta[t]
            BY <5>5 DEF SetStatus
          <6>4. meta'[s].status = kept.status
            BY <2>0, <3>2, <5>5 DEF SetStatus, MetadataFile, Submission
          <6> QED
            BY <6>2, <6>3, <6>4
        <5> QED
          BY <2>3, <3>5, <5>1, <5>2, <5>3, <5>4, <5>5 DEF Marks
      <4> QED
        BY <2>3, <4>1, <4>2, <4>3 DEF Remembered
    <3> QED
      BY <2>3, <3>3, <3>4, <3>5 DEF Marks
  <2> QED
    BY <1>2, <2>1, <2>2, <2>3, AloneRows
<1> QED
  BY <1>1, <1>2, NextStands DEF Remembered, Crash

\* It holds at the start.
LEMMA RememberedInit == Init => Remembered
<1>1. ASSUME NEW kind \in RowKinds
      PROVE  /\ RestingSubmission(kind).status # "archived"
             /\ RestingSubmission(kind).archivedFrom = "none"
  BY DEF RowKinds, RestingSubmission, NoSubmission
<1> QED
  BY <1>1, InitialRowsAssumption DEF Init, StoresInit, Remembered

\* At rest an archived row of a teacher who works alone remembers the status
\* it was archived from, so a restore can take it back there.  A crash between
\* the two writes of an archive leaves a row that does not, and a restore that
\* names archived as its target makes one.
THEOREM AloneArchivedRemembers ==
    ASSUME OneRequest, ~Crashes, "archived" \notin RestoreTargets
    PROVE  Spec => []ArchivedRemembers
<1>1. Init => Remembered
  BY RememberedInit
<1>2. ServerInv /\ MetadataFresh /\ AloneKept /\ Remembered /\ [Next]_vars => Remembered'
  BY RememberedNext
<1>3. Spec => [](MetadataFresh /\ ResultsFresh)
  BY AloneLosesNothing
<1>4. Spec => []AloneKept
  BY AloneKeptAlways
<1>5. Remembered => ArchivedRemembers
  BY DEF Remembered, ArchivedRemembers
<1> QED
  BY <1>1, <1>2, <1>3, <1>4, <1>5, ServerInvariant, PTL DEF Spec

\* A graded row has a grade, or is about to be given one; the same of a row
\* archived from graded, which a restore takes back there.
GradesBacked ==
    /\ \A s \in Students : meta[s].status = "graded" =>
          \/ meta[s].teacherGrade = TRUE
          \/ \E r \in Requests : pc[r] = "grade.mark" /\ loc[r].on = s
    /\ "restore" \in Routes =>
          /\ \A s \in Students : meta[s].archivedFrom = "graded" => meta[s].teacherGrade = TRUE
          /\ \A r \in Requests :
                pc[r] = "archive.mark" /\ loc[r].kept.archivedFrom = "graded" =>
                    meta[loc[r].on].teacherGrade = TRUE

\* The statuses a teacher who works alone can give a row, and the ones a
\* restore can take it to, keep it so.
LEMMA BackedNext ==
    ASSUME OneRequest, ~Crashes, "import" \notin Routes, "graded" \notin RestoreTargets,
           "reset" \notin Routes \/ "restore" \notin Routes,
           ServerInv, Placed, MetadataFresh, AloneKept, GradesBacked, [Next]_vars
    PROVE  GradesBacked'
<1>1. CASE UNCHANGED vars
  BY <1>1 DEF vars, GradesBacked
<1>2. ASSUME NEW a \in Actors, StepOf(a)
      PROVE  GradesBacked'
  <2>0. /\ meta \in MetadataFile /\ loc \in [Actors -> Locals]
        /\ pc[a] # "import.upsert"
        /\ pc[a] = "reset" => "restore" \notin Routes
    <3>1. meta \in MetadataFile /\ loc \in [Actors -> Locals]
      BY Facts DEF Data
    <3>2. CASE a \in Requests
      BY <3>1, <3>2 DEF AloneKept, KeptBy, Called
    <3>3. CASE a \in Workers
      BY <3>1, <3>3 DEF Placed, WorkerLabels
    <3> QED
      BY <3>2, <3>3 DEF Actors
  <2>1. CASE UNCHANGED <<meta, pc, loc>>
    BY <2>1 DEF GradesBacked
  <2>2. CASE Ordinary(a) /\ \A t \in Students : OrdinaryRow(a, t)
    <3>1. \A r \in Requests : pc[r] # "grade.mark" /\ pc'[r] # "archive.mark"
      BY <1>2, <2>2, AloneMoves DEF Ordinary, MarkLabels
    <3>2. ASSUME NEW t \in Students, meta'[t].status = "graded"
          PROVE  meta'[t].teacherGrade = TRUE
      <4>1. meta[t].status = "graded" /\ meta'[t].teacherGrade = meta[t].teacherGrade
        BY <2>0, <2>2, <3>2 DEF OrdinaryRow, Exists
      <4>2. meta[t].teacherGrade = TRUE
        BY <3>1, <4>1 DEF GradesBacked
      <4> QED
        BY <4>1, <4>2
    <3>3. ASSUME "restore" \in Routes, NEW t \in Students, meta'[t].archivedFrom = "graded"
          PROVE  meta'[t].teacherGrade = TRUE
      <4>1. Exists(meta', t)
        BY <2>2, <3>3 DEF OrdinaryRow, Blank
      <4>2. meta[t].archivedFrom = "graded" /\ meta'[t].teacherGrade = meta[t].teacherGrade
        BY <2>0, <2>2, <3>3, <4>1 DEF OrdinaryRow
      <4>3. meta[t].teacherGrade = TRUE
        BY <3>3, <4>2 DEF GradesBacked
      <4> QED
        BY <4>2, <4>3
    <3> QED
      BY <3>1, <3>2, <3>3 DEF GradesBacked
  <2>3. CASE Marks(a) /\ a \in Requests /\ KeptBy(a) /\ \A t \in Students : MarksRow(a, t)
    <3> DEFINE s == loc[a].on
               kept == loc[a].kept
    <3>1. (\A r \in Requests : r = a) /\ s \in Students
      BY <2>3 DEF OneRequest, Marks
    <3>2. "restore" \in Routes /\ kept.archivedFrom = "graded" /\ pc[a] \in {"archive.status", "archive.mark"}
            => meta[s].teacherGrade = TRUE
      <4>1. pc[a] = "archive.status" => kept.archivedFrom = meta[s].status
        BY <2>3 DEF KeptBy
      <4>2. pc[a] = "archive.status" /\ meta[s].status = "graded" => meta[s].teacherGrade = TRUE
        BY <3>1 DEF GradesBacked
      <4>3. "restore" \in Routes /\ pc[a] = "archive.mark" /\ kept.archivedFrom = "graded" => meta[s].teacherGrade = TRUE
        BY <2>3 DEF GradesBacked
      <4> QED
        BY <4>1, <4>2, <4>3
    <3>3. ASSUME NEW t \in Students, meta[t].teacherGrade = TRUE PROVE meta'[t].teacherGrade = TRUE
      BY <2>3, <3>3 DEF MarksRow
    <3>4. ASSUME "restore" \in Routes, NEW t \in Students, meta'[t].archivedFrom = "graded"
          PROVE  meta'[t].teacherGrade = TRUE
      <4>1. CASE meta'[t].archivedFrom = meta[t].archivedFrom
        <5>1. meta[t].teacherGrade = TRUE
          BY <3>4, <4>1 DEF GradesBacked
        <5> QED
          BY <3>3, <5>1
      <4>2. CASE pc[a] = "archive.mark" /\ s = t /\ meta'[t].archivedFrom = kept.archivedFrom
        BY <3>2, <3>3, <3>4, <4>2
      <4>3. CASE pc[a] = "restore.mark" /\ s = t /\ meta'[t].archivedFrom = kept.archivedFrom
        BY <2>3, <3>4, <4>3 DEF KeptBy
      <4> QED
        BY <2>3, <4>1, <4>2, <4>3 DEF MarksRow
    <3>5. ASSUME "restore" \in Routes, NEW r \in Requests,
                 pc'[r] = "archive.mark", loc'[r].kept.archivedFrom = "graded"
          PROVE  meta'[loc'[r].on].teacherGrade = TRUE
      <4>1. r = a
        BY <3>1
      <4>2. /\ pc[a] = "archive.status" /\ loc'[a].on = s
            /\ loc'[a].kept = [meta[s] EXCEPT !.status = "archived", !.archivedFrom = kept.archivedFrom]
        BY <2>3, <3>5, <4>1 DEF Marks
      <4>3. kept.archivedFrom = "graded"
        BY <2>0, <3>1, <3>5, <4>1, <4>2 DEF MetadataFile, Submission
      <4>4. meta[s].teacherGrade = TRUE
        BY <3>2, <3>5, <4>2, <4>3
      <4> QED
        BY <3>1, <3>3, <4>1, <4>2, <4>4
    <3>6. ASSUME NEW t \in Students, meta'[t].status = "graded"
          PROVE  meta'[t].teacherGrade = TRUE \/ (pc'[a] = "grade.mark" /\ loc'[a].on = t)
      <4>1. CASE meta[t].status = "graded" /\ pc[a] # "grade.mark"
        <5>1. meta[t].teacherGrade = TRUE
          BY <3>1, <4>1 DEF GradesBacked
        <5> QED
          BY <3>3, <5>1
      <4>2. CASE pc[a] = "grade.status" /\ pc'[a] = "grade.mark" /\ loc'[a].on = s /\ meta' = SetStatus(meta, s, "graded")
        <5>1. t # s => meta[t].status = "graded"
          BY <3>6, <4>2 DEF SetStatus
        <5> QED
          BY <4>1, <4>2, <5>1
      <4>3. CASE pc[a] = "grade.mark" /\ meta' = UpsertGrade(meta, s)
        <5>1. t # s => meta'[t] = meta[t]
          BY <2>0, <4>3 DEF UpsertGrade, MetadataFile
        <5>2. t = s => meta'[t].teacherGrade = TRUE
          BY <2>0, <3>1, <4>3, UpsertGradeRow
        <5>3. t # s /\ meta[t].status = "graded" => meta[t].teacherGrade = TRUE
          BY <3>1 DEF GradesBacked
        <5>4. t # s => meta[t].status = "graded"
          BY <3>6, <5>1
        <5> QED
          BY <3>3, <5>2, <5>3, <5>4
      <4>4. CASE pc[a] # "grade.mark" /\ meta' = meta
        BY <3>6, <4>1, <4>4
      <4>5. CASE pc[a] = "archive.status" /\ meta' = SetStatus(meta, s, "archived")
        <5>1. meta[t].status = "graded"
          BY <2>0, <3>1, <3>6, <4>5 DEF SetStatus, MetadataFile, Submission
        <5> QED
          BY <4>1, <4>5, <5>1
      <4>6. CASE pc[a] = "archive.mark" /\ meta' = [meta EXCEPT ![s] = kept]
        <5>1. kept.status = "archived"
          BY <2>3, <4>6 DEF KeptBy
        <5>2. meta[t].status = "graded"
          BY <2>0, <3>1, <3>6, <4>6, <5>1 DEF MetadataFile
        <5> QED
          BY <4>1, <4>6, <5>2
      <4>7. CASE pc[a] = "restore.mark" /\ meta' = [meta EXCEPT ![s] = kept]
        <5>1. kept.status = meta[s].status
          BY <2>3, <4>7 DEF KeptBy
        <5>2. meta[t].status = "graded"
          BY <2>0, <3>1, <3>6, <4>7, <5>1 DEF MetadataFile
        <5> QED
          BY <4>1, <4>7, <5>2
      <4>8. CASE pc[a] = "restore.status" /\ meta' = SetStatus(meta, s, kept.status)
        <5>1. kept.status \in Status \cap (RestoreTargets \cup {PriorStatus(meta[s])}) /\ "restore" \in Routes
          BY <2>3, <4>8 DEF KeptBy, Called, RestoreLabels
        <5>2. t # s => meta[t].status = "graded"
          BY <3>6, <4>8 DEF SetStatus
        <5>3. t = s => kept.status = "graded"
          BY <2>0, <3>1, <3>6, <4>8 DEF SetStatus, MetadataFile, Submission
        <5>4. kept.status = "graded" => meta[s].archivedFrom = "graded"
          BY <5>1 DEF PriorStatus
        <5>5. meta[s].archivedFrom = "graded" => meta[s].teacherGrade = TRUE
          BY <3>1, <5>1 DEF GradesBacked
        <5>6. CASE t = s
          <6>1. meta[t].teacherGrade = TRUE
            BY <5>3, <5>4, <5>5, <5>6
          <6> QED
            BY <3>3, <6>1
        <5>7. CASE t # s
          BY <4>1, <4>8, <5>2, <5>7
        <5> QED
          BY <5>6, <5>7
      <4> QED
        BY <2>3, <4>2, <4>3, <4>4, <4>5, <4>6, <4>7, <4>8 DEF Marks
    <3> QED
      BY <2>3, <3>4, <3>5, <3>6 DEF GradesBacked
  <2> QED
    BY <1>2, <2>1, <2>2, <2>3, AloneRowsOf
<1> QED
  BY <1>1, <1>2, NextStands DEF GradesBacked, Crash

\* It holds at the start.
LEMMA BackedInit == Init => GradesBacked
<1>1. ASSUME NEW kind \in RowKinds
      PROVE  /\ RestingSubmission(kind).status = "graded" => RestingSubmission(kind).teacherGrade = TRUE
             /\ RestingSubmission(kind).archivedFrom = "none"
  BY DEF RowKinds, RestingSubmission, NoSubmission
<1>2. ASSUME Init, NEW s \in Students
      PROVE  /\ meta[s].status = "graded" => meta[s].teacherGrade = TRUE
             /\ meta[s].archivedFrom = "none"
  <2>1. PICK kind \in RowKinds : meta[s] = RestingSubmission(kind)
    BY <1>2, InitialRowsAssumption DEF Init, StoresInit
  <2> QED
    BY <1>1, <2>1
<1>3. Init => \A r \in Requests : pc[r] = "idle"
  BY DEF Init, StoresInit, Actors
<1> QED
  BY <1>2, <1>3 DEF GradesBacked

\* At rest a graded row of a teacher who works alone has a grade.  An import
\* without a grade takes it away and leaves the status; a crash between the
\* two writes of a grading leaves the status alone; a restore that names
\* graded as its target, or of a row reset while it was archived, gives the
\* status back to a row without a grade.
THEOREM AloneGradedHasGrade ==
    ASSUME OneRequest, ~Crashes, "import" \notin Routes, "graded" \notin RestoreTargets,
           "reset" \notin Routes \/ "restore" \notin Routes
    PROVE  Spec => []GradedHasGrade
<1>1. Init => GradesBacked
  BY BackedInit
<1>2. ServerInv /\ Placed /\ MetadataFresh /\ AloneKept /\ GradesBacked /\ [Next]_vars => GradesBacked'
  BY BackedNext
<1>3. Spec => [](MetadataFresh /\ ResultsFresh)
  BY AloneLosesNothing
<1>4. Spec => []AloneKept
  BY AloneKeptAlways
<1>5. GradesBacked => GradedHasGrade
  BY DEF GradesBacked, GradedHasGrade
<1> QED
  BY <1>1, <1>2, <1>3, <1>4, <1>5, ServerInvariant, PlacedAlways, PTL DEF Spec

----------------------------------------------------------------------------
(***************************************************************************)
(* Cohorts too small to calibrate.                                         *)
(***************************************************************************)

NoCalibration == \A a \in Actors : pc[a] # "calibrate"

\* Only the end of a run with enough successes leads to the calibration.
LEMMA CalibrationStarts ==
    ASSUME NEW a \in Actors, Fresh(a), OnlyBatches, Routes \subseteq BatchRoutes, StepOf(a), pc'[a] = "calibrate"
    PROVE  pc[a] = "calibrate" \/ (a \in Requests /\ PreEvalEnd(a) /\ loc[a].succeeded >= MinConsensus)
<1> USE DEF Fresh, Typed, GoTo, Finish
<1>1. CASE ReadMetadata(a) \/ ReadResults(a)
  BY <1>1 DEF ReadMetadata, ReadResults
<1>2. CASE a \in Requests /\ (ProcessList(a) \/ ProcessStep(a))
  BY <1>2 DEF ProcessList, ProcessStep, ProcessBegin, ProcessExecute, ProcessAnswered, ProcessStart, ProcessCaught,
      ProcessAbort, ProcessExecuted, ProcessFailed, ProcessMark, ProcessStore, ProcessStoreFailure,
      ProcessNext, ProcessNoteFailure, ProcessClearError, ProcessNoteCaught
<1>3. CASE a \in Requests /\ (PreEvalArrive(a) \/ PreEvalStep(a))
  BY <1>3 DEF PreEvalArrive, PreEvalStep, PreEvalList, PreEvalBegin, PreEvalEnd, CalibrateCohort
<1>4. CASE a \in Requests /\ (ResetPreArrive(a) \/ ResetPreStep(a))
  BY <1>4 DEF ResetPreArrive, ResetPreStep, ResetPreList, ResetPrePick, ResetPreEnter, ResetPreLoad,
      ResetPreFlip, ResetPreWrite
<1>5. CASE a \in Workers /\ WorkerStep(a)
  BY <1>5 DEF WorkerStep, RowNext, RowLook, RowAsk, RowStore, RowFlip, RowSettled
<1> QED
  BY <1>1, <1>2, <1>3, <1>4, <1>5, NoTeacher DEF StepOf, ClientCall, RequestStep, WorkStep

\* With fewer students than MinConsensus no run has enough.
LEMMA SmallCohortNext ==
    ASSUME Routes \subseteq BatchRoutes, Cardinality(Students) < MinConsensus,
           ServerInv, OnlyBatches, MetadataFresh, Tallied, NoCalibration, [Next]_vars
    PROVE  NoCalibration'
<1>1. CASE UNCHANGED vars
  BY <1>1 DEF vars, NoCalibration
<1>2. CASE Crash
  BY <1>2 DEF Crash, NoCalibration
<1>3. ASSUME NEW a \in Actors, StepOf(a), pc'[a] = "calibrate" PROVE FALSE
  <2>1. a \in Requests /\ PreEvalEnd(a) /\ loc[a].succeeded >= MinConsensus
    BY <1>3, CalibrationStarts, FreshFacts DEF NoCalibration
  <2>2. /\ loc[a].settled + InHands(<<a, 1>>) + InHands(<<a, 2>>) + Cardinality(loc[a].left) = evalRun.total
        /\ loc[a].succeeded <= loc[a].settled
        /\ evalRun.total <= Cardinality(Students)
    BY <2>1 DEF Tallied, Tally, PreEvalEnd
  <2>3. /\ loc[a].settled \in Nat /\ loc[a].succeeded \in Nat /\ Cardinality(loc[a].left) \in Nat
        /\ evalRun.total \in Nat /\ Cardinality(Students) \in Nat
    BY <2>1, TallyType
  <2>4. InHands(<<a, 1>>) \in {0, 1} /\ InHands(<<a, 2>>) \in {0, 1}
    BY DEF InHands
  <2> QED
    BY <2>1, <2>2, <2>3, <2>4, MinConsensusAssumption
<1> QED
  BY <1>1, <1>2, <1>3, NextStands DEF NoCalibration, Stands, OthersStand

\* A cohort smaller than MinConsensus is never calibrated, and the calibration
\* is the only writer outside the lock among the batch routes: they lose no
\* update of either file, for any number of requests and restarts.
THEOREM SmallCohortLosesNothing ==
    ASSUME Routes \subseteq BatchRoutes, Cardinality(Students) < MinConsensus
    PROVE  Spec => [](MetadataFresh /\ ResultsFresh)
<1>1. Init => NoCalibration
  BY DEF Init, StoresInit, NoCalibration
<1>2. ServerInv /\ OnlyBatches /\ MetadataFresh /\ Tallied /\ NoCalibration /\ [Next]_vars => NoCalibration'
  BY SmallCohortNext
<1>3. Spec => []MetadataFresh
  BY BatchesLoseNoMetadata
<1>4. Spec => [](OnlyBatches /\ MidRows)
  BY MidRowAlways
<1>5. OnlyBatches /\ NoCalibration => NoBareResultsWriter
  BY DEF OnlyBatches, NoCalibration, NoBareResultsWriter, TeacherLabels, BareResults
<1>6. Spec /\ []NoBareResultsWriter => []ResultsFresh
  BY ResultsLostOnlyOutside
<1> QED
  BY <1>1, <1>2, <1>3, <1>4, <1>5, <1>6, TalliedAlways, ServerInvariant, PTL DEF Spec

\* So in a small cohort a row in status pre-evaluated has its envelope, with
\* nothing assumed about the interleaving,
COROLLARY SmallCohortBacked ==
    ASSUME Routes \subseteq BatchRoutes, Cardinality(Students) < MinConsensus
    PROVE  Spec => []PreEvaluatedHasEnvelope
<1>1. Spec => [](MetadataFresh /\ ResultsFresh)
  BY SmallCohortLosesNothing
<1>2. Spec /\ []ResultsFresh => []PreEvaluatedHasEnvelope
  BY PreEvaluatedBacked
<1> QED
  BY <1>1, <1>2, PTL

\* and in a cohort of any size when one batch runs at a time.
COROLLARY OneBatchBacked ==
    ASSUME Routes \subseteq BatchRoutes, OneRequest
    PROVE  Spec => []PreEvaluatedHasEnvelope
<1>1. Spec => [](MetadataFresh /\ ResultsFresh)
  BY AloneLosesNothing
<1>2. Spec /\ []ResultsFresh => []PreEvaluatedHasEnvelope
  BY PreEvaluatedBacked
<1> QED
  BY <1>1, <1>2, PTL
=============================================================================
