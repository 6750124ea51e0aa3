---------------------------- MODULE Submissions ----------------------------
(***************************************************************************)
(* The two JSON files of an assignment and the pure part of every          *)
(* operation on them: metadata.json (lib/server/metadata.ts) and           *)
(* results.json (lib/server/results-store.ts).  A file is a function from  *)
(* students to rows; a student that is no key of the file has the row      *)
(* NoSubmission or NoResult.  The operators say what a call writes, given  *)
(* the file it has read; when it reads and when it writes is the business  *)
(* of module Stores.                                                       *)
(***************************************************************************)
EXTENDS Naturals, FiniteSets

CONSTANTS
    Students,    \* the student ids, ordered as listSubmissions sorts them
    Keys,        \* what a teacher fills in: criteria, dimensions, feedback
    MaxVersion   \* bound: how often one student's notebook is uploaded

ASSUME StudentsAssumption == Students \subseteq Nat \ {0} /\ IsFiniteSet(Students)
ASSUME MaxVersionAssumption == MaxVersion \in Nat \ {0}

----------------------------------------------------------------------------
\* metadata.json

Status == {"pending", "executing", "executed", "error",
           "pre-evaluated", "graded", "archived"}

\* The row of one student.  Texts are reduced to whether they are there:
\* teacherGrade and error; a grading object is the set of keys it fills.
Submission == [status : Status \cup {"absent"},
               teacherGrade : BOOLEAN,
               error : BOOLEAN,
               grading : SUBSET Keys,
               archivedFrom : Status \cup {"none"}]

NoSubmission == [status |-> "absent", teacherGrade |-> FALSE, error |-> FALSE,
                 grading |-> {}, archivedFrom |-> "none"]

MetadataFile == [Students -> Submission]

Exists(f, s) == f[s].status # "absent"

\* STATUS_TRANSITIONS: the moves updateStatus makes without opts.force.
Transitions ==
    ({"pending", "error", "graded"} \X {"executing", "archived"})
      \cup ({"executing"} \X {"executed", "error", "archived"})
      \cup ({"executed"} \X {"graded", "executing", "error", "archived"})
      \cup ({"pre-evaluated"} \X {"graded", "executing", "archived"})
      \cup ({"archived"} \X (Status \ {"archived"}))

\* Mutant: every move is made as if opts.force were set.
MoveAnyway(f, s, to) == TRUE

\* updateStatus: throws (nothing is written) unless CanMove or forced.
CanMove(f, s, to) == <<f[s].status, to>> \in Transitions

SetStatus(f, s, to) == [f EXCEPT ![s].status = to]

\* upsertSubmission merges a patch over the row, or over a fresh pending one.
UpsertBase(f, s) ==
    IF Exists(f, s) THEN f[s] ELSE [NoSubmission EXCEPT !.status = "pending"]

UpsertError(f, s, e) == [f EXCEPT ![s] = [UpsertBase(f, s) EXCEPT !.error = e]]

\* Mutant: the grade route's patch without teacherGrade.
UpsertNoGrade(f, s) == [f EXCEPT ![s] = UpsertBase(f, s)]

UpsertGrade(f, s) == [f EXCEPT ![s] = [UpsertBase(f, s) EXCEPT !.teacherGrade = TRUE]]

\* The upload's patch.
UpsertUpload(f, s) ==
    [f EXCEPT ![s] = [UpsertBase(f, s) EXCEPT !.status = "pending", !.error = FALSE]]

\* The import's patch: teacherGrade is an own key of it even when undefined,
\* so the spread overwrites; status is looked up with ??, so it does not.
UpsertImport(f, s, graded) ==
    [f EXCEPT ![s] = [UpsertBase(f, s) EXCEPT
        !.teacherGrade = graded, !.error = FALSE,
        !.status = IF graded THEN "graded" ELSE @]]

\* Mutant: the grading a client sends replaces the stored one.
SaveGradingReplaces(f, s, keys) == [f EXCEPT ![s].grading = keys]

\* saveGrading merges key by key; resetSubmission empties and un-grades.
SaveGrading(f, s, keys) == [f EXCEPT ![s].grading = @ \cup keys]

ResetSubmission(f, s) ==
    [f EXCEPT ![s] = [@ EXCEPT !.status = "executed", !.teacherGrade = FALSE, !.grading = {}]]

RemoveSubmission(f, s) == [f EXCEPT ![s] = NoSubmission]

----------------------------------------------------------------------------
\* results.json

\* One execution of a notebook: which upload was run, and whether every cell
\* succeeded.  of = 0 stands for no execution.
Execution == [of : 0 .. MaxVersion, ok : BOOLEAN]

NoExecution == [of |-> 0, ok |-> FALSE]

\* A pre-evaluation envelope: the execution it was derived from, and whether
\* its scores are the calibrated ones.
Envelope == [about : Execution, calibrated : BOOLEAN]

NoEnvelope == [about |-> NoExecution, calibrated |-> FALSE]

\* adjusted: calibrationAdjustments, the audit trail of a calibration, is there.
Result == [run : Execution, preEval : Envelope, adjusted : BOOLEAN]

NoResult == [run |-> NoExecution, preEval |-> NoEnvelope, adjusted |-> FALSE]

ResultsFile == [Students -> Result]

HasResult(f, s) == f[s].run.of # 0

HasPreEval(f, s) == f[s].preEval.about.of # 0

\* Mutant: setResult spreads the entry it finds.
SetResultSpread(f, s, run) == [f EXCEPT ![s].run = run]

\* setResult replaces the whole entry.
SetResult(f, s, run) == [f EXCEPT ![s] = [NoResult EXCEPT !.run = run]]

ClearResult(f, s) == [f EXCEPT ![s] = NoResult]

\* setPreEvaluation spreads the entry it finds and sets the raw envelope.
SetPreEvaluation(f, s, about) ==
    [f EXCEPT ![s].preEval = [about |-> about, calibrated |-> FALSE]]

\* The reset deletes entry.preEval alone: the post-processed sibling and the audit
\* trail of a calibration stay with the entry until its next execution.
DropPreEval(f, S) == [s \in Students |-> IF s \in S THEN [f[s] EXCEPT !.preEval = NoEnvelope] ELSE f[s]]

\* runCohortCalibration rewrites the envelopes of the rows it adjusts.
Calibrate(f, S) ==
    [s \in Students |->
        IF s \in S THEN [f[s] EXCEPT !.preEval.calibrated = TRUE, !.adjusted = TRUE]
                   ELSE f[s]]

----------------------------------------------------------------------------
\* listSubmissions sorts by id: the next row of a batch is the least one left.
FirstOf(S) == CHOOSE s \in S : \A t \in S : s <= t
=============================================================================
