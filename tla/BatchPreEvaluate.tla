-------------------------- MODULE BatchPreEvaluate --------------------------
(***************************************************************************)
(* POST /api/submissions/pre-evaluate and .../pre-evaluate/reset.          *)
(*                                                                         *)
(* A pre-evaluation asks the language model about every executed or failed *)
(* row, two rows at a time, and stores each envelope and the new status in *)
(* one section of the persist lock.  After the run it calibrates the       *)
(* cohort, outside the lock.  A reset drops envelopes and sends rows back  *)
(* to executed, in one section, unless a run is in progress when it asks.  *)
(***************************************************************************)
EXTENDS Stores

\* The fast path: 409 while a run is in progress.
PreEvalArrive(e) ==
    /\ "preEvaluate" \in Routes
    /\ pc[e] = "idle"
    /\ ~evalRun.running
    /\ GoTo(e, "preEval.list")
    /\ UNCHANGED <<files, chain, runs, loc, seen>>

Evaluable == {s \in Students : meta[s].status \in {"executed", "error"}}

PreEvalList(e) ==
    /\ pc[e] = "preEval.list"
    /\ \/ /\ Evaluable = {}
          /\ Finish(e)
       \/ /\ Evaluable # {}
          /\ loc' = [loc EXCEPT ![e].left = Evaluable]
          /\ GoTo(e, "preEval.begin")
    /\ UNCHANGED <<files, chain, runs, seen>>

\* runWithConcurrency starts no more workers than there are rows.
Started(e) == {w \in Workers : w[1] = e /\ w[2] <= Cardinality(loc[e].left)}

\* Mutant: the slot is claimed without a second look.
PreEvalBeginUnchecked(e) ==
    /\ pc[e] = "preEval.begin"
    /\ evalRun' = Begun(Cardinality(loc[e].left))
    /\ pc' = [a \in Actors |->
                IF a = e THEN "preEval.rows"
                ELSE IF a \in Started(e) THEN "row.next" ELSE pc[a]]
    /\ UNCHANGED <<files, chain, processRun, loc, seen>>

\* beginPreEvalRun checks and claims the slot in one step, else 409.
PreEvalBegin(e) ==
    /\ pc[e] = "preEval.begin"
    /\ \/ /\ evalRun.running
          /\ Finish(e)
          /\ UNCHANGED evalRun
       \/ /\ ~evalRun.running
          /\ evalRun' = Begun(Cardinality(loc[e].left))
          /\ pc' = [a \in Actors |->
                      IF a = e THEN "preEval.rows"
                      ELSE IF a \in Started(e) THEN "row.next" ELSE pc[a]]
          /\ UNCHANGED loc
    /\ UNCHANGED <<files, chain, processRun, seen>>

----------------------------------------------------------------------------
\* Mutant: two workers can be given the same row.
RowNextShared(w) ==
    /\ pc[w] = "row.next"
    /\ LET left == loc[w[1]].left
       IN  \/ /\ left # {}
              /\ loc' = [loc EXCEPT ![w].on = FirstOf(left)]
              /\ GoTo(w, "row.look")
           \/ /\ left = {}
              /\ Finish(w)
    /\ UNCHANGED <<files, chain, runs, seen>>

\* A worker takes the next row until none is left.
RowNext(w) ==
    /\ pc[w] = "row.next"
    /\ LET left == loc[w[1]].left
       IN  \/ /\ left # {}
              /\ loc' = [loc EXCEPT ![w[1]].left = left \ {FirstOf(left)},
                                    ![w].on = FirstOf(left)]
              /\ GoTo(w, "row.look")
           \/ /\ left = {}
              /\ Finish(w)
    /\ UNCHANGED <<files, chain, runs, seen>>

\* A row settles: its outcome joins the results the workers share.
RowSettled(w, success) ==
    /\ loc' = [loc EXCEPT ![w] = NoLocals,
                          ![w[1]].settled = @ + 1,
                          ![w[1]].succeeded = IF success THEN @ + 1 ELSE @]
    /\ evalRun' = [evalRun EXCEPT !.done = loc[w[1]].settled + 1]
    /\ GoTo(w, "row.next")
    /\ UNCHANGED processRun

\* preEvaluateSubmission reads the stored execution; there must be one.
RowLook(w) ==
    /\ pc[w] = "row.look"
    /\ \/ /\ ~HasResult(results, loc[w].on)
          /\ RowSettled(w, FALSE)
       \/ /\ HasResult(results, loc[w].on)
          /\ loc' = [loc EXCEPT ![w].run = results[loc[w].on].run]
          /\ GoTo(w, "row.ask")
          /\ UNCHANGED runs
    /\ UNCHANGED <<files, chain, seen>>

\* The model answers with an envelope, or the call fails for good.
RowAsk(w) ==
    /\ pc[w] = "row.ask"
    /\ \/ /\ Enter(w)
          /\ GoTo(w, "row.store")
          /\ UNCHANGED <<loc, runs>>
       \/ /\ RowSettled(w, FALSE)
          /\ UNCHANGED chain
    /\ UNCHANGED <<files, seen>>

\* setPreEvaluation throws when no result is stored any more.
RowStore(w) ==
    /\ pc[w] = "row.store"
    /\ \E f \in resultsSeen[w] :
          \/ /\ HasResult(f, loc[w].on)
             /\ WriteResults(w, SetPreEvaluation(f, loc[w].on, loc[w].run))
             /\ GoTo(w, "row.flip")
             /\ UNCHANGED <<chain, loc, runs>>
          \/ /\ ~HasResult(f, loc[w].on)
             /\ LeaveResults(w)
             /\ Leave
             /\ RowSettled(w, FALSE)

\* updateStatus(pre-evaluated) is forced: only a missing row can throw.
RowFlip(w) ==
    /\ pc[w] = "row.flip"
    /\ \E f \in metaSeen[w] :
          \/ /\ Exists(f, loc[w].on)
             /\ WriteMetadata(w, SetStatus(f, loc[w].on, "pre-evaluated"))
             /\ RowSettled(w, TRUE)
          \/ /\ ~Exists(f, loc[w].on)
             /\ LeaveMetadata(w)
             /\ RowSettled(w, FALSE)
    /\ Leave

----------------------------------------------------------------------------
\* Mutant: a run that has settled all its rows leaves its flag up.
PreEvalEndFlagUp(e) ==
    /\ pc[e] = "preEval.rows"
    /\ \A i \in 1 .. Concurrency : pc[<<e, i>>] = "idle"
    /\ Finish(e)
    /\ UNCHANGED <<files, chain, runs, seen>>

\* When every worker is done the run ends; a cohort of MinConsensus rows is
\* then calibrated.
PreEvalEnd(e) ==
    /\ pc[e] = "preEval.rows"
    /\ \A i \in 1 .. Concurrency : pc[<<e, i>>] = "idle"
    /\ evalRun' = IdleRun
    /\ \/ /\ loc[e].succeeded >= MinConsensus
          /\ loc' = [loc EXCEPT ![e] = NoLocals]
          /\ GoTo(e, "calibrate")
       \/ /\ loc[e].succeeded < MinConsensus
          /\ Finish(e)
    /\ UNCHANGED <<files, chain, processRun, seen>>

\* runCohortCalibration: reads the file, writes it back when it adjusts rows.
CalibrateCohort(e) ==
    /\ pc[e] = "calibrate"
    /\ \E f \in resultsSeen[e] :
          \/ \E S \in (SUBSET {s \in Students : HasPreEval(f, s)}) \ {{}} :
                WriteResults(e, Calibrate(f, S))
          \/ LeaveResults(e)
    /\ Finish(e)
    /\ UNCHANGED <<chain, runs>>

----------------------------------------------------------------------------
\* Reset: 409 while a run is in progress, asked once, before the lists.
ResetPreArrive(x) ==
    /\ "resetPreEval" \in Routes
    /\ pc[x] = "idle"
    /\ ~evalRun.running
    /\ GoTo(x, "resetPre.list")
    /\ UNCHANGED <<files, chain, runs, loc, seen>>

ResetPreEnter(x, targets) ==
    \/ /\ targets # {}
       /\ loc' = [loc EXCEPT ![x].left = targets, ![x].targets = targets]
       /\ Enter(x)
       /\ GoTo(x, "resetPre.load")
    \/ /\ targets = {}
       /\ Finish(x)
       /\ UNCHANGED chain

\* listSubmissions; with submissionIds the targets are known at once, without
\* them the rows in status pre-evaluated are, and results.json names the rest.
ResetPreList(x) ==
    /\ pc[x] = "resetPre.list"
    /\ LET rows == {s \in Students : Exists(meta, s)}
       IN  \/ \E ids \in SUBSET Students : ResetPreEnter(x, ids \cap rows)
           \/ /\ loc' = [loc EXCEPT
                    ![x].left = rows,
                    ![x].targets = {s \in rows : meta[s].status = "pre-evaluated"}]
              /\ GoTo(x, "resetPre.pick")
              /\ UNCHANGED chain
    /\ UNCHANGED <<files, runs, seen>>

ResetPrePick(x) ==
    /\ pc[x] = "resetPre.pick"
    /\ ResetPreEnter(x, loc[x].targets \cup {s \in loc[x].left : HasPreEval(results, s)})
    /\ UNCHANGED <<files, runs, seen>>

\* Mutant: the envelopes are dropped before the rows are flipped.
ResetPreLoadDrops(x) ==
    /\ pc[x] = "resetPre.load"
    /\ Holds(x)
    /\ results' = DropPreEval(results, loc[x].targets)
    /\ resultsSeen' = [resultsSeen EXCEPT ![x] = {results'}]
    /\ GoTo(x, "resetPre.flip")
    /\ UNCHANGED <<meta, notebook, chain, runs, loc, metaSeen>>

\* Mutant: results.json is read before the section starts.
ResetPreLoadEarly(x) ==
    /\ pc[x] = "resetPre.load"
    /\ resultsSeen' = [resultsSeen EXCEPT ![x] = {results}]
    /\ GoTo(x, "resetPre.flip")
    /\ UNCHANGED <<files, chain, runs, loc, metaSeen>>

\* The section: results.json is read and held while the rows are flipped one
\* metadata write at a time, and written last, if an envelope was dropped.
ResetPreLoad(x) ==
    /\ pc[x] = "resetPre.load"
    /\ Holds(x)
    /\ resultsSeen' = [resultsSeen EXCEPT ![x] = {results}]
    /\ GoTo(x, "resetPre.flip")
    /\ UNCHANGED <<files, chain, runs, loc, metaSeen>>

\* updateStatus(executed) is forced: it throws only for a missing row, and
\* then the envelopes dropped so far are not written.
ResetPreFlip(x) ==
    /\ pc[x] = "resetPre.flip"
    /\ LET s == FirstOf(loc[x].left)
       IN \E f \in metaSeen[x] :
          \/ /\ Exists(f, s)
             /\ WriteMetadata(x, SetStatus(f, s, "executed"))
             /\ loc' = [loc EXCEPT ![x].left = @ \ {s}]
             /\ GoTo(x, IF loc[x].left = {s} THEN "resetPre.write" ELSE "resetPre.flip")
             /\ UNCHANGED chain
          \/ /\ ~Exists(f, s)
             /\ metaSeen' = [metaSeen EXCEPT ![x] = {}]
             /\ resultsSeen' = [resultsSeen EXCEPT ![x] = {}]
             /\ Leave
             /\ Finish(x)
             /\ UNCHANGED files
    /\ UNCHANGED runs

ResetPreWrite(x) ==
    /\ pc[x] = "resetPre.write"
    /\ \E f \in resultsSeen[x] :
          \/ /\ \E s \in loc[x].targets : HasPreEval(f, s)
             /\ WriteResults(x, DropPreEval(f, loc[x].targets))
          \/ /\ \A s \in loc[x].targets : ~HasPreEval(f, s)
             /\ LeaveResults(x)
    /\ Leave
    /\ Finish(x)
    /\ UNCHANGED runs

----------------------------------------------------------------------------
\* What a worker does, and what the two handlers do after they are called.
WorkerStep(w) == RowNext(w) \/ RowLook(w) \/ RowAsk(w) \/ RowStore(w) \/ RowFlip(w)

PreEvalStep(e) == PreEvalList(e) \/ PreEvalBegin(e) \/ PreEvalEnd(e) \/ CalibrateCohort(e)

ResetPreStep(x) ==
    \/ ResetPreList(x) \/ ResetPrePick(x) \/ ResetPreLoad(x)
    \/ ResetPreFlip(x) \/ ResetPreWrite(x)
=============================================================================
