---------------------------- MODULE BatchProcess ----------------------------
(***************************************************************************)
(* POST /api/submissions/process: executes the runnable rows one after the *)
(* other.  Each row costs two sections of the persist lock, one that marks *)
(* it executing and one that records the outcome; the executor is called   *)
(* between them.  The inner try surrounds the executor call and the second *)
(* section only: what it catches is recorded in a section of its own, and  *)
(* what the first or the last section throws ends the whole batch.         *)
(***************************************************************************)
EXTENDS Stores

Runnable == {s \in Students : meta[s].status \in {"pending", "error"}}

\* The request arrives and lists its targets; ids may name a subset.
ProcessList(b) ==
    /\ "process" \in Routes
    /\ pc[b] = "idle"
    /\ \E ids \in SUBSET {s \in Students : Exists(meta, s)} :
          /\ Runnable \cap ids # {}
          /\ loc' = [loc EXCEPT ![b].left = Runnable \cap ids]
    /\ GoTo(b, "process.begin")
    /\ UNCHANGED <<files, chain, runs, seen>>

\* beginProcessRun overwrites whatever run is in progress.
ProcessBegin(b) ==
    /\ pc[b] = "process.begin"
    /\ processRun' = Begun(Cardinality(loc[b].left))
    /\ loc' = [loc EXCEPT ![b].on = FirstOf(loc[b].left)]
    /\ Enter(b)
    /\ GoTo(b, "process.start")
    /\ UNCHANGED <<files, evalRun, seen>>

\* Mutant: the throw keeps the lock.
ProcessAbortHolding(b) ==
    /\ LeaveMetadata(b)
    /\ Finish(b)
    /\ processRun' = IdleRun
    /\ UNCHANGED <<chain, evalRun>>

\* An uncaught throw: finally ends the run, the request fails.
ProcessAbort(b) ==
    /\ LeaveMetadata(b)
    /\ Leave
    /\ Finish(b)
    /\ processRun' = IdleRun
    /\ UNCHANGED evalRun

\* updateStatus(executing), the only call of its section.
ProcessStart(b) ==
    /\ pc[b] = "process.start"
    /\ \E f \in metaSeen[b] :
          \/ /\ CanMove(f, loc[b].on, "executing")
             /\ WriteMetadata(b, SetStatus(f, loc[b].on, "executing"))
             /\ Leave
             /\ GoTo(b, "process.execute")
             /\ UNCHANGED <<loc, runs>>
          \/ /\ ~CanMove(f, loc[b].on, "executing")
             /\ ProcessAbort(b)

\* The executor opens the notebook and runs it, with a cell error or without, or
\* the call throws (unreachable, timed out, notebook gone).
ProcessExecute(b) ==
    /\ pc[b] = "process.execute"
    /\ \E run \in {NoExecution} \cup [of : {notebook[loc[b].on]} \ {0}, ok : BOOLEAN] :
          loc' = [loc EXCEPT ![b].run = run]
    /\ GoTo(b, "process.answered")
    /\ UNCHANGED <<files, chain, runs, seen>>

\* The answer, or the error, leads to a section of its own.
ProcessAnswered(b) ==
    LET run == loc[b].run IN
    /\ pc[b] = "process.answered"
    /\ \/ run.of # 0 /\ run.ok /\ GoTo(b, "process.executed")
       \/ run.of # 0 /\ ~run.ok /\ GoTo(b, "process.failed")
       \/ run.of = 0 /\ GoTo(b, "process.caught")
    /\ Enter(b)
    /\ UNCHANGED <<files, runs, loc, seen>>

\* updateStatus inside the inner try: a throw leads to the catch block.
ProcessMark(b, from, to, next) ==
    /\ pc[b] = from
    /\ \E f \in metaSeen[b] :
          \/ /\ CanMove(f, loc[b].on, to)
             /\ WriteMetadata(b, SetStatus(f, loc[b].on, to))
             /\ GoTo(b, next)
             /\ UNCHANGED chain
          \/ /\ ~CanMove(f, loc[b].on, to)
             /\ LeaveMetadata(b)
             /\ GoTo(b, "process.caught")
             /\ LeaveAndEnter(b)
    /\ UNCHANGED <<loc, runs>>

ProcessExecuted(b) == ProcessMark(b, "process.executed", "executed", "process.store")
ProcessFailed(b) == ProcessMark(b, "process.failed", "error", "process.noteFailure")

\* The last call of a row's section: the row is pushed to the results, the
\* progress updated, and the loop takes the next target or ends the run.
ProcessNext(b) ==
    LET rest == loc[b].left \ {loc[b].on}
        count == loc[b].settled + 1
    IN  \/ /\ rest # {}
           /\ loc' = [loc EXCEPT ![b] = [NoLocals EXCEPT
                         !.left = rest, !.on = FirstOf(rest), !.settled = count]]
           /\ processRun' = [processRun EXCEPT !.done = count]
           /\ LeaveAndEnter(b)
           /\ GoTo(b, "process.start")
           /\ UNCHANGED evalRun
        \/ /\ rest = {}
           /\ processRun' = IdleRun
           /\ Leave
           /\ Finish(b)
           /\ UNCHANGED evalRun

\* Success: setResult, then upsert of the cell summary and error: null.
ProcessStore(b) ==
    /\ pc[b] = "process.store"
    /\ \E f \in resultsSeen[b] : WriteResults(b, SetResult(f, loc[b].on, loc[b].run))
    /\ GoTo(b, "process.clearError")
    /\ UNCHANGED <<loc, chain, runs>>

ProcessClearError(b) ==
    /\ pc[b] = "process.clearError"
    /\ \E f \in metaSeen[b] : WriteMetadata(b, UpsertError(f, loc[b].on, FALSE))
    /\ ProcessNext(b)

\* Cell error: upsert of the message, then setResult.
ProcessNoteFailure(b) ==
    /\ pc[b] = "process.noteFailure"
    /\ \E f \in metaSeen[b] : WriteMetadata(b, UpsertError(f, loc[b].on, TRUE))
    /\ GoTo(b, "process.storeFailure")
    /\ UNCHANGED <<loc, chain, runs>>

ProcessStoreFailure(b) ==
    /\ pc[b] = "process.storeFailure"
    /\ \E f \in resultsSeen[b] : WriteResults(b, SetResult(f, loc[b].on, loc[b].run))
    /\ ProcessNext(b)

\* Mutant: the catch block notes the error without the status.
ProcessCaughtUnmarked(b) ==
    /\ pc[b] = "process.caught"
    /\ LeaveMetadata(b)
    /\ GoTo(b, "process.noteCaught")
    /\ UNCHANGED <<loc, chain, runs>>

\* The catch block: no result is stored, and its own throw is not caught.
ProcessCaught(b) ==
    /\ pc[b] = "process.caught"
    /\ \E f \in metaSeen[b] :
          \/ /\ CanMove(f, loc[b].on, "error")
             /\ WriteMetadata(b, SetStatus(f, loc[b].on, "error"))
             /\ GoTo(b, "process.noteCaught")
             /\ UNCHANGED <<loc, chain, runs>>
          \/ /\ ~CanMove(f, loc[b].on, "error")
             /\ ProcessAbort(b)

ProcessNoteCaught(b) ==
    /\ pc[b] = "process.noteCaught"
    /\ \E f \in metaSeen[b] : WriteMetadata(b, UpsertError(f, loc[b].on, TRUE))
    /\ ProcessNext(b)

\* Everything the handler does after it has been called.
ProcessStep(b) ==
    \/ ProcessBegin(b) \/ ProcessStart(b) \/ ProcessExecute(b) \/ ProcessAnswered(b)
    \/ ProcessExecuted(b) \/ ProcessStore(b) \/ ProcessClearError(b)
    \/ ProcessFailed(b) \/ ProcessNoteFailure(b) \/ ProcessStoreFailure(b)
    \/ ProcessCaught(b) \/ ProcessNoteCaught(b)
=============================================================================
