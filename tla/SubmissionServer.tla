-------------------------- MODULE SubmissionServer --------------------------
(***************************************************************************)
(* The submission server: every route over the shared stores, with crashes *)
(* and restarts of the process.                                            *)
(***************************************************************************)
EXTENDS BatchProcess, BatchPreEvaluate, TeacherRoutes

CONSTANT Crashes   \* whether the process may be killed and restarted

ASSUME CrashesAssumption == Crashes \in BOOLEAN

\* Killed and restarted: the files stay, all memory is as at start-up.
Crash ==
    /\ Crashes
    /\ chain' = <<>>
    /\ processRun' = IdleRun
    /\ evalRun' = IdleRun
    /\ pc' = [a \in Actors |-> "idle"]
    /\ loc' = [a \in Actors |-> NoLocals]
    /\ metaSeen' = [a \in Actors |-> {}]
    /\ resultsSeen' = [a \in Actors |-> {}]
    /\ UNCHANGED files

\* A client calls a route.
ClientCall(r) == ProcessList(r) \/ PreEvalArrive(r) \/ ResetPreArrive(r) \/ TeacherCall(r)

\* The server goes on with what it has been called for.
RequestStep(r) ==
    \/ ReadMetadata(r) \/ ReadResults(r)
    \/ ProcessStep(r) \/ PreEvalStep(r) \/ ResetPreStep(r) \/ TeacherStep(r)

WorkStep(w) == ReadMetadata(w) \/ ReadResults(w) \/ WorkerStep(w)

Next ==
    \/ \E r \in Requests : ClientCall(r) \/ RequestStep(r)
    \/ \E w \in Workers : WorkStep(w)
    \/ Crash

Init == StoresInit

Spec == Init /\ [][Next]_vars

\* Node runs every ready continuation, and each await ends: file operations
\* settle, the executor and the model are called with timeouts.
Fairness ==
    /\ \A r \in Requests : WF_vars(RequestStep(r))
    /\ \A w \in Workers : WF_vars(WorkStep(w))

FairSpec == Spec /\ Fairness

----------------------------------------------------------------------------
(***************************************************************************)
(* Safety.                                                                 *)
(***************************************************************************)

\* The persist lock and the snapshots: the actors inside a section are those
\* in the queue, once each, and inside a section only the head of the queue
\* holds a snapshot of a file.
Distinct(q) == \A i, j \in 1 .. Len(q) : q[i] = q[j] => i = j

InQueue(a) == \E i \in 1 .. Len(chain) : chain[i] = a

Holding == ResultsCalls \cup {"resetPre.flip", "resetPre.write"}

SectionsQueued ==
    /\ Distinct(chain)
    /\ \A a \in Actors : pc[a] \in Section <=> InQueue(a)
    /\ \A a \in Actors : metaSeen[a] # {} => pc[a] \in MetaCalls /\ MayRun(a)
    /\ \A a \in Actors : resultsSeen[a] # {} => pc[a] \in Holding /\ MayRun(a)

\* No lost update of metadata.json: between a handler's read of the file and
\* its write, nobody else has written it.
MetadataFresh == \A a \in Actors : metaSeen[a] \subseteq {meta}

\* No lost update of results.json.
ResultsFresh == \A a \in Actors : resultsSeen[a] \subseteq {results}

\* A row in status pre-evaluated has its envelope in results.json, although
\* the two are written in two steps by one route, dropped in two steps by
\* another, and the envelope disappears with every new execution.
PreEvaluatedHasEnvelope ==
    \A s \in Students : meta[s].status = "pre-evaluated" => HasPreEval(results, s)

\* A row in status executing is being executed: some handler in flight will
\* settle it.
ExecutingIsOwned ==
    \A s \in Students : meta[s].status = "executing" =>
        \E r \in Requests :
            /\ loc[r].on = s
            /\ pc[r] \in {"process.execute", "process.answered", "process.executed", "process.failed",
                          "process.caught", "run.execute", "run.executed", "run.caught"}

\* (Does not hold: a reset that names ids takes rows of any status there.)  A row
\* in status executed has a stored result, except between the two writes of the
\* section that records it.
ExecutedHasResult ==
    \A s \in Students : meta[s].status = "executed" =>
        \/ HasResult(results, s)
        \/ \E r \in Requests : loc[r].on = s /\ pc[r] \in {"process.store", "run.store"}

\* The envelope stored next to a result was derived from that result: a row that
\* is run, pre-evaluated and run again has lost its envelope (setResult replaces
\* the entry), and none is stored for an execution that is no longer there.
\* (Does not hold with a batch, or a run, beside a pre-evaluation.  Executions of
\* one upload that end alike are not told apart.)
EnvelopeMatchesResult ==
    \A s \in Students : HasPreEval(results, s) => results[s].preEval.about = results[s].run

\* One pre-evaluation run at a time: the flag is up exactly while one request
\* is between its begin and its end, and workers exist only for that request.
RunSlotExclusive ==
    /\ \A d, e \in Requests : pc[d] = "preEval.rows" /\ pc[e] = "preEval.rows" => d = e
    /\ evalRun.running <=> \E e \in Requests : pc[e] = "preEval.rows"
    /\ \A w \in Workers : pc[w] # "idle" => pc[w[1]] = "preEval.rows"

\* Every target of a pre-evaluation run is waiting, in the hands of one
\* worker, or settled: none is lost and none is taken twice.
EveryTargetAccounted ==
    \A e \in Requests : pc[e] = "preEval.rows" =>
        LET busy == {i \in 1 .. Concurrency : loc[<<e, i>>].on # 0}
            taken == {loc[<<e, i>>].on : i \in busy}
        IN  /\ taken \cap loc[e].left = {}
            /\ Cardinality(taken) = Cardinality(busy)
            /\ loc[e].settled + Cardinality(busy) + Cardinality(loc[e].left) = evalRun.total
            /\ evalRun.done = loc[e].settled

\* (Does not hold.)  A reset of pre-evaluations does not run in the middle of a run, whose
\* workers would store again what it drops.
ResetNotMidRun ==
    \A x \in Requests : pc[x] \in {"resetPre.flip", "resetPre.write"} => ~evalRun.running

\* At rest an archived row remembers the status it was archived from.
ArchivedRemembers ==
    (\A r \in Requests : pc[r] = "idle") =>
        \A s \in Students : meta[s].status = "archived" => meta[s].archivedFrom # "none"

\* At rest a graded row has a grade.
GradedHasGrade ==
    (\A r \in Requests : pc[r] = "idle") =>
        \A s \in Students : meta[s].status = "graded" => meta[s].teacherGrade

----------------------------------------------------------------------------
(***************************************************************************)
(* What a step may never do.                                               *)
(***************************************************************************)

\* r is about to take one of the steps named, on row s.
Doing(r, steps, s) == pc[r] \in steps /\ loc[r].on = s

\* What a teacher has filled in disappears only when the row is reset or
\* deleted.
GradingOnlyCleared ==
    [][\A s \in Students :
          ~(meta[s].grading \subseteq meta'[s].grading) =>
              \E r \in Requests : Doing(r, {"reset", "delete.record"}, s)]_vars

\* (Does not hold with an import, which may come without a grade.)  A final
\* grade disappears only when the row is reset or deleted.
GradeOnlyCleared ==
    [][\A s \in Students :
          meta[s].teacherGrade /\ ~meta'[s].teacherGrade =>
              \E r \in Requests : Doing(r, {"reset", "delete.record"}, s)]_vars

\* (Does not hold.)  A batch pre-evaluation leaves a graded row graded.
PreEvaluateLeavesGraded ==
    [][\A s \in Students : meta[s].status = "graded" => meta'[s].status # "pre-evaluated"]_vars

\* (Does not hold.)  A process batch ends only when every one of its rows has been settled.
BatchNotAborted ==
    [][\A b \in Requests :
          pc[b] \in {"process.start", "process.caught"} /\ pc'[b] = "idle" => FALSE]_vars

----------------------------------------------------------------------------
(***************************************************************************)
(* Liveness, under FairSpec.                                               *)
(***************************************************************************)

\* Every request is answered: nobody waits for the lock for ever.
RequestsAnswered == \A r \in Requests : pc[r] # "idle" ~> pc[r] = "idle"

\* A row in status executing leaves it.
ExecutingSettles ==
    \A s \in Students : meta[s].status = "executing" ~> meta[s].status # "executing"

\* A pre-evaluation run ends and frees the slot.
RunSlotFreed == evalRun.running ~> ~evalRun.running

----------------------------------------------------------------------------
\* The rows follow the lifecycle; only a reset of pre-evaluations enters
\* executed, and only a pre-evaluation enters pre-evaluated, by force.
RowStatus == [s \in Students |-> meta[s].status]

LifecycleOfRows == INSTANCE Lifecycle WITH status <- RowStatus,
                                 Forced <- {"executed", "pre-evaluated"}

RowsFollowLifecycle == LifecycleOfRows!Spec
=============================================================================
