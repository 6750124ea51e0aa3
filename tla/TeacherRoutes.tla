---------------------------- MODULE TeacherRoutes ----------------------------
(***************************************************************************)
(* The routes that work on one row: save, grade, reset, archive, restore   *)
(* and import of its grading, upload and delete of its notebook, and run,  *)
(* its execution on its own (POST /api/submissions/[id]/process).  None of *)
(* them takes the persist lock.                                            *)
(***************************************************************************)
EXTENDS Stores

CONSTANT RestoreTargets   \* what a client names as the status of a restore, if anything

Rows == {s \in Students : Exists(meta, s)}

\* getSubmission answers 404 when the row is missing; the store calls of the
\* route come after other awaits, with reads of their own.
Arrive(t, route, rows, first) ==
    /\ route \in Routes
    /\ pc[t] = "idle"
    /\ \E s \in rows : loc' = [loc EXCEPT ![t].on = s]
    /\ GoTo(t, first)
    /\ UNCHANGED <<files, chain, runs, seen>>

\* One metadata call of a route, given the file f it has read: it writes and
\* the route goes on, or it throws and the route ends.
Attempt(t, ok, file, next) ==
    \/ ok /\ WriteMetadata(t, file) /\ GoTo(t, next) /\ UNCHANGED loc
    \/ ~ok /\ LeaveMetadata(t) /\ Finish(t)

\* The same for the last call of a route.
AttemptLast(t, ok, file) ==
    /\ \/ ok /\ WriteMetadata(t, file)
       \/ ~ok /\ LeaveMetadata(t)
    /\ Finish(t)

----------------------------------------------------------------------------
\* Grading: save merges keys; grade finalizes; reset un-grades; import upserts
\* the grade (or its absence) and then merges keys.
SaveArrive(t) == Arrive(t, "save", Rows, "save")

Save(t) ==
    /\ pc[t] = "save"
    /\ \E f \in metaSeen[t], keys \in SUBSET Keys :
          AttemptLast(t, Exists(f, loc[t].on), SaveGrading(f, loc[t].on, keys))
    /\ UNCHANGED <<chain, runs>>

GradeArrive(t) == Arrive(t, "grade", Rows, "grade.status")

GradeStatus(t) ==
    /\ pc[t] = "grade.status"
    /\ \E f \in metaSeen[t] :
          Attempt(t, CanMove(f, loc[t].on, "graded"), SetStatus(f, loc[t].on, "graded"),
                  "grade.mark")
    /\ UNCHANGED <<chain, runs>>

GradeMark(t) ==
    /\ pc[t] = "grade.mark"
    /\ \E f \in metaSeen[t] : AttemptLast(t, TRUE, UpsertGrade(f, loc[t].on))
    /\ UNCHANGED <<chain, runs>>

ResetArrive(t) == Arrive(t, "reset", Rows, "reset")

Reset(t) ==
    /\ pc[t] = "reset"
    /\ \E f \in metaSeen[t] :
          AttemptLast(t, Exists(f, loc[t].on), ResetSubmission(f, loc[t].on))
    /\ UNCHANGED <<chain, runs>>

ImportArrive(t) == Arrive(t, "import", Rows, "import.upsert")

ImportUpsert(t) ==
    /\ pc[t] = "import.upsert"
    /\ \E f \in metaSeen[t], graded \in BOOLEAN :
          Attempt(t, TRUE, UpsertImport(f, loc[t].on, graded), "import.save")
    /\ UNCHANGED <<chain, runs>>

ImportSave(t) ==
    /\ pc[t] = "import.save"
    /\ \E f \in metaSeen[t], keys \in SUBSET Keys :
          AttemptLast(t, Exists(f, loc[t].on), SaveGrading(f, loc[t].on, keys))
    /\ UNCHANGED <<chain, runs>>

----------------------------------------------------------------------------
\* Archive reads the row, moves it to archived, and in a third and fourth
\* access writes the moved record back with the status read first.
ArchiveArrive(t) == Arrive(t, "archive", Rows, "archive.look")

ArchiveLook(t) ==
    /\ pc[t] = "archive.look"
    /\ LET row == meta[loc[t].on]
       IN  \/ /\ row.status # "absent"
              /\ loc' = [loc EXCEPT ![t].kept = [row EXCEPT !.archivedFrom = row.status]]
              /\ GoTo(t, "archive.status")
           \/ /\ row.status = "absent"
              /\ Finish(t)
    /\ UNCHANGED <<files, chain, runs, seen>>

\* Mutant: the status the row comes from is not remembered.
MovedPlain(t, f, to, from) == [f[loc[t].on] EXCEPT !.status = to]

\* The record updateStatus returns is the one written back.
Moved(t, f, to, from) == [f[loc[t].on] EXCEPT !.status = to, !.archivedFrom = from]

ArchiveStatus(t) ==
    /\ pc[t] = "archive.status"
    /\ \E f \in metaSeen[t] :
          \/ /\ CanMove(f, loc[t].on, "archived")
             /\ WriteMetadata(t, SetStatus(f, loc[t].on, "archived"))
             /\ loc' = [loc EXCEPT ![t].kept = Moved(t, f, "archived", @.archivedFrom)]
             /\ GoTo(t, "archive.mark")
          \/ /\ ~CanMove(f, loc[t].on, "archived")
             /\ LeaveMetadata(t)
             /\ Finish(t)
    /\ UNCHANGED <<chain, runs>>

WriteBack(t, from) ==
    /\ pc[t] = from
    /\ \E f \in metaSeen[t] :
          AttemptLast(t, TRUE, [f EXCEPT ![loc[t].on] = loc[t].kept])
    /\ UNCHANGED <<chain, runs>>

ArchiveMark(t) == WriteBack(t, "archive.mark")

\* Restore: to the named target, else where it was archived from, else to
\* pending; the move is forced, but only a status the program knows is stored.
RestoreArrive(t) == Arrive(t, "restore", Rows, "restore.look")

PriorStatus(row) == IF row.archivedFrom = "none" THEN "pending" ELSE row.archivedFrom

\* Mutant: updateStatus takes the client's word for it.
RestoreLookUnchecked(t) ==
    /\ pc[t] = "restore.look"
    /\ LET row == meta[loc[t].on]
       IN  \/ /\ row.status # "absent"
              /\ \E target \in RestoreTargets \cup {PriorStatus(row)} :
                    loc' = [loc EXCEPT ![t].kept = [row EXCEPT !.status = target]]
              /\ GoTo(t, "restore.status")
           \/ row.status = "absent" /\ Finish(t)
    /\ UNCHANGED <<files, chain, runs, seen>>

RestoreLook(t) ==
    /\ pc[t] = "restore.look"
    /\ LET row == meta[loc[t].on]
       IN  \/ /\ row.status # "absent"
              /\ \E target \in RestoreTargets \cup {PriorStatus(row)} :
                    \/ /\ target \in Status
                       /\ loc' = [loc EXCEPT ![t].kept = [row EXCEPT !.status = target]]
                       /\ GoTo(t, "restore.status")
                    \/ target \notin Status /\ Finish(t)
           \/ /\ row.status = "absent"
              /\ Finish(t)
    /\ UNCHANGED <<files, chain, runs, seen>>

RestoreStatus(t) ==
    /\ pc[t] = "restore.status"
    /\ \E f \in metaSeen[t] :
          \/ /\ Exists(f, loc[t].on)
             /\ WriteMetadata(t, SetStatus(f, loc[t].on, loc[t].kept.status))
             /\ loc' = [loc EXCEPT ![t].kept = Moved(t, f, @.status, "none")]
             /\ GoTo(t, "restore.mark")
          \/ /\ ~Exists(f, loc[t].on)
             /\ LeaveMetadata(t)
             /\ Finish(t)
    /\ UNCHANGED <<chain, runs>>

RestoreMark(t) == WriteBack(t, "restore.mark")

----------------------------------------------------------------------------
\* Upload writes the notebook, makes the row pending, clears the result.
UploadArrive(t) == Arrive(t, "upload", Students, "upload.file")

\* Bound: a student's notebook is uploaded at most MaxVersion times.
UploadFile(t) ==
    /\ pc[t] = "upload.file"
    /\ \/ /\ notebook[loc[t].on] < MaxVersion
          /\ notebook' = [notebook EXCEPT ![loc[t].on] = @ + 1]
          /\ GoTo(t, "upload.upsert")
          /\ UNCHANGED loc
       \/ /\ notebook[loc[t].on] = MaxVersion
          /\ Finish(t)
          /\ UNCHANGED notebook
    /\ UNCHANGED <<meta, results, chain, runs, seen>>

UploadUpsert(t) ==
    /\ pc[t] = "upload.upsert"
    /\ \E f \in metaSeen[t] : Attempt(t, TRUE, UpsertUpload(f, loc[t].on), "upload.clear")
    /\ UNCHANGED <<chain, runs>>

\* clearResult writes only when the student has an entry.
ClearCall(t) ==
    \E f \in resultsSeen[t] :
       \/ HasResult(f, loc[t].on) /\ WriteResults(t, ClearResult(f, loc[t].on))
       \/ ~HasResult(f, loc[t].on) /\ LeaveResults(t)

UploadClear(t) ==
    /\ pc[t] = "upload.clear"
    /\ ClearCall(t)
    /\ Finish(t)
    /\ UNCHANGED <<chain, runs>>

\* Delete: the notebook, then the result, then the row.  An error of the disk on
\* the first ends it.
DeleteArrive(t) == Arrive(t, "delete", Rows, "delete.file")

DeleteFile(t) ==
    /\ pc[t] = "delete.file"
    /\ \/ /\ notebook' = [notebook EXCEPT ![loc[t].on] = 0]
          /\ GoTo(t, "delete.result")
          /\ UNCHANGED loc
       \/ Finish(t) /\ UNCHANGED notebook
    /\ UNCHANGED <<meta, results, chain, runs, seen>>

DeleteResult(t) ==
    /\ pc[t] = "delete.result"
    /\ ClearCall(t)
    /\ GoTo(t, "delete.record")
    /\ UNCHANGED <<loc, chain, runs>>

DeleteRecord(t) ==
    /\ pc[t] = "delete.record"
    /\ \E f \in metaSeen[t] :
          AttemptLast(t, Exists(f, loc[t].on), RemoveSubmission(f, loc[t].on))
    /\ UNCHANGED <<chain, runs>>

----------------------------------------------------------------------------
\* Run: 409 when the row read first is executing.  Everything after that is
\* in one try, whose catch marks the row failed and swallows its own throws.
RunArrive(t) ==
    Arrive(t, "run", {s \in Rows : meta[s].status # "executing"}, "run.start")

Try(t, f, to, next) ==
    /\ UNCHANGED loc
    /\ \/ /\ CanMove(f, loc[t].on, to)
          /\ WriteMetadata(t, SetStatus(f, loc[t].on, to))
          /\ GoTo(t, next)
       \/ /\ ~CanMove(f, loc[t].on, to)
          /\ LeaveMetadata(t)
          /\ GoTo(t, "run.caught")

RunStart(t) ==
    /\ pc[t] = "run.start"
    /\ \E f \in metaSeen[t] : Try(t, f, "executing", "run.execute")
    /\ UNCHANGED <<chain, runs>>

RunExecute(t) ==
    /\ pc[t] = "run.execute"
    /\ \/ /\ notebook[loc[t].on] # 0
          /\ \E ok \in BOOLEAN :
                loc' = [loc EXCEPT ![t].run = [of |-> notebook[loc[t].on], ok |-> ok]]
          /\ GoTo(t, "run.executed")
       \/ /\ GoTo(t, "run.caught")
          /\ UNCHANGED loc
    /\ UNCHANGED <<files, chain, runs, seen>>

\* A notebook with a failing cell is recorded as executed all the same.
RunExecuted(t) ==
    /\ pc[t] = "run.executed"
    /\ \E f \in metaSeen[t] : Try(t, f, "executed", "run.store")
    /\ UNCHANGED <<chain, runs>>

RunStore(t) ==
    /\ pc[t] = "run.store"
    /\ \E f \in resultsSeen[t] : WriteResults(t, SetResult(f, loc[t].on, loc[t].run))
    /\ GoTo(t, "run.clearError")
    /\ UNCHANGED <<loc, chain, runs>>

RunClearError(t) ==
    /\ pc[t] = "run.clearError"
    /\ \E f \in metaSeen[t] : AttemptLast(t, TRUE, UpsertError(f, loc[t].on, FALSE))
    /\ UNCHANGED <<chain, runs>>

RunCaught(t) ==
    /\ pc[t] = "run.caught"
    /\ \E f \in metaSeen[t] :
          Attempt(t, CanMove(f, loc[t].on, "error"), SetStatus(f, loc[t].on, "error"),
                  "run.noteCaught")
    /\ UNCHANGED <<chain, runs>>

RunNoteCaught(t) ==
    /\ pc[t] = "run.noteCaught"
    /\ \E f \in metaSeen[t] : AttemptLast(t, TRUE, UpsertError(f, loc[t].on, TRUE))
    /\ UNCHANGED <<chain, runs>>

----------------------------------------------------------------------------
\* The calls of these routes, and what they do after they are called.
TeacherCall(t) ==
    \/ SaveArrive(t) \/ GradeArrive(t) \/ ResetArrive(t) \/ ImportArrive(t)
    \/ ArchiveArrive(t) \/ RestoreArrive(t)
    \/ UploadArrive(t) \/ DeleteArrive(t) \/ RunArrive(t)

TeacherStep(t) ==
    \/ Save(t) \/ GradeStatus(t) \/ GradeMark(t) \/ Reset(t)
    \/ ImportUpsert(t) \/ ImportSave(t)
    \/ ArchiveLook(t) \/ ArchiveStatus(t) \/ ArchiveMark(t)
    \/ RestoreLook(t) \/ RestoreStatus(t) \/ RestoreMark(t)
    \/ UploadFile(t) \/ UploadUpsert(t) \/ UploadClear(t)
    \/ DeleteFile(t) \/ DeleteResult(t) \/ DeleteRecord(t)
    \/ RunStart(t) \/ RunExecute(t) \/ RunExecuted(t) \/ RunStore(t)
    \/ RunClearError(t) \/ RunCaught(t) \/ RunNoteCaught(t)
=============================================================================
