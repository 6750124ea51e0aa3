---------------------------- MODULE CopilotTools ----------------------------
(***************************************************************************)
(* The copilot's tools that write the two files (copilot/tools), over the  *)
(* server: process-submission and process-all, archive-submission, the     *)
(* four tools that save grading, pre-evaluate and pre-evaluate-all.  A     *)
(* tool repeats the store calls of a route, outside the persist lock and   *)
(* without the slot of a pre-evaluation.  How a call of a tool comes to be *)
(* made is the subject of CopilotAgent; here it is one more request.       *)
(***************************************************************************)
EXTENDS SubmissionServer

CONSTANT Tools   \* the tools that are called in this instance

AllTools == {"process-submission", "process-all", "archive-submission", "save-grading",
             "pre-evaluate", "pre-evaluate-all"}

ASSUME ToolsAssumption == Tools \subseteq AllTools

ToolMetaCalls == {"all.start", "all.executed", "all.clearError", "all.failed",
                  "all.noteFailure", "all.caught", "all.noteCaught"}
ToolResultsCalls == {"all.store", "all.storeFailure", "tool.envelope"}

\* The read half of a store call.
ToolReads(t) ==
    \/ /\ pc[t] \in ToolMetaCalls /\ metaSeen[t] = {}
       /\ metaSeen' = [metaSeen EXCEPT ![t] = {meta}]
       /\ UNCHANGED <<files, chain, runs, pc, loc, resultsSeen>>
    \/ /\ pc[t] \in ToolResultsCalls /\ resultsSeen[t] = {}
       /\ resultsSeen' = [resultsSeen EXCEPT ![t] = {results}]
       /\ UNCHANGED <<files, chain, runs, pc, loc, metaSeen>>

CallTool(t, tool, rows, first) ==
    /\ tool \in Tools
    /\ pc[t] = "idle"
    /\ \E s \in rows : loc' = [loc EXCEPT ![t].on = s]
    /\ GoTo(t, first)
    /\ UNCHANGED <<files, chain, runs, seen>>

----------------------------------------------------------------------------
\* set-rubric-item, update-grade-dimension, write-notes, save-grading: after a
\* look at the row for the list of changes, the save of the route.
SaveTool(t) == CallTool(t, "save-grading", Students, "save")

\* archive-submission refuses a row that is archived, and archives like the
\* route.
ArchiveTool(t) ==
    CallTool(t, "archive-submission", {s \in Rows : meta[s].status # "archived"}, "archive.look")

\* process-submission: while no batch runs; it looks at the row later, and
\* goes on like the route that runs a row.
ProcessSubmission(t) == ~processRun.running /\ CallTool(t, "process-submission", Students, "tool.look")

ProcessSubmissionLook(t) ==
    /\ pc[t] = "tool.look"
    /\ \/ /\ meta[loc[t].on].status \notin {"absent", "executing"}
          /\ GoTo(t, "run.start")
          /\ UNCHANGED loc
       \/ /\ meta[loc[t].on].status \in {"absent", "executing"}
          /\ Finish(t)
    /\ UNCHANGED <<files, chain, runs, seen>>

----------------------------------------------------------------------------
\* process-all: whether a batch runs is asked once, before the rows are listed
\* and the settings loaded.
ProcessAll(t) ==
    /\ "process-all" \in Tools
    /\ pc[t] = "idle"
    /\ ~processRun.running
    /\ GoTo(t, "all.list")
    /\ UNCHANGED <<files, chain, runs, loc, seen>>

AllList(t) ==
    /\ pc[t] = "all.list"
    /\ \/ /\ Runnable = {}
          /\ Finish(t)
       \/ /\ Runnable # {}
          /\ loc' = [loc EXCEPT ![t].left = Runnable]
          /\ GoTo(t, "all.begin")
    /\ UNCHANGED <<files, chain, runs, seen>>

\* Mutant: a tool that throws leaves the flag up.
AllEndFlagUp(t) == Finish(t) /\ UNCHANGED runs

\* The batch ends, or is ended by a throw: finally.
AllEnd(t) ==
    /\ Finish(t)
    /\ processRun' = IdleRun
    /\ UNCHANGED evalRun

\* The top of the loop over the rows left: none is left, the turn was aborted,
\* or the next row is taken.
AllNext(t, left, count, run) ==
    \/ AllEnd(t)
    \/ /\ left # {}
       /\ loc' = [loc EXCEPT ![t] = [NoLocals EXCEPT
                     !.left = left, !.on = FirstOf(left), !.settled = count]]
       /\ processRun' = run
       /\ GoTo(t, "all.start")
       /\ UNCHANGED evalRun

\* beginProcessRun overwrites whatever run is in progress.
AllBegin(t) ==
    /\ pc[t] = "all.begin"
    /\ AllNext(t, loc[t].left, 0, Begun(Cardinality(loc[t].left)))
    /\ UNCHANGED <<files, chain, seen>>

\* updateStatus(executing) is outside the try of a row: its throw ends the tool.
AllStart(t) ==
    /\ pc[t] = "all.start"
    /\ \E f \in metaSeen[t] :
          \/ /\ CanMove(f, loc[t].on, "executing")
             /\ WriteMetadata(t, SetStatus(f, loc[t].on, "executing"))
             /\ GoTo(t, "all.execute")
             /\ UNCHANGED <<loc, runs>>
          \/ /\ ~CanMove(f, loc[t].on, "executing")
             /\ LeaveMetadata(t)
             /\ AllEnd(t)
    /\ UNCHANGED chain

AllExecute(t) ==
    /\ pc[t] = "all.execute"
    /\ \/ /\ notebook[loc[t].on] # 0
          /\ \E ok \in BOOLEAN :
                /\ loc' = [loc EXCEPT ![t].run = [of |-> notebook[loc[t].on], ok |-> ok]]
                /\ GoTo(t, IF ok THEN "all.executed" ELSE "all.failed")
       \/ /\ GoTo(t, "all.caught")
          /\ UNCHANGED loc
    /\ UNCHANGED <<files, chain, runs, seen>>

\* The outcome: a status, then the result and the note in either order.
AllMark(t, from, to, next) ==
    /\ pc[t] = from
    /\ \E f \in metaSeen[t] :
          \/ /\ CanMove(f, loc[t].on, to)
             /\ WriteMetadata(t, SetStatus(f, loc[t].on, to))
             /\ GoTo(t, next)
          \/ /\ ~CanMove(f, loc[t].on, to)
             /\ LeaveMetadata(t)
             /\ GoTo(t, "all.caught")
    /\ UNCHANGED <<loc, chain, runs>>

AllNote(t, from, error) ==
    /\ pc[t] = from
    /\ \E f \in metaSeen[t] : WriteMetadata(t, UpsertError(f, loc[t].on, error))
    /\ UNCHANGED chain

AllStore(t, from) ==
    /\ pc[t] = from
    /\ \E f \in resultsSeen[t] : WriteResults(t, SetResult(f, loc[t].on, loc[t].run))
    /\ UNCHANGED chain

\* The row is pushed to the results, and the progress updated.
AllRowDone(t) ==
    LET count == loc[t].settled + 1
    IN  AllNext(t, loc[t].left \ {loc[t].on}, count, [processRun EXCEPT !.done = count])

AllSucceeds(t) ==
    \/ AllMark(t, "all.executed", "executed", "all.store")
    \/ AllStore(t, "all.store") /\ GoTo(t, "all.clearError") /\ UNCHANGED <<loc, runs>>
    \/ AllNote(t, "all.clearError", FALSE) /\ AllRowDone(t)

AllFails(t) ==
    \/ AllMark(t, "all.failed", "error", "all.noteFailure")
    \/ AllNote(t, "all.noteFailure", TRUE) /\ GoTo(t, "all.storeFailure") /\ UNCHANGED <<loc, runs>>
    \/ AllStore(t, "all.storeFailure") /\ AllRowDone(t)

\* The catch block, whose own throw ends the tool.
AllCaught(t) ==
    \/ /\ pc[t] = "all.caught"
       /\ \E f \in metaSeen[t] :
             \/ /\ CanMove(f, loc[t].on, "error")
                /\ WriteMetadata(t, SetStatus(f, loc[t].on, "error"))
                /\ GoTo(t, "all.noteCaught")
                /\ UNCHANGED <<loc, runs>>
             \/ /\ ~CanMove(f, loc[t].on, "error")
                /\ LeaveMetadata(t)
                /\ AllEnd(t)
       /\ UNCHANGED chain
    \/ AllNote(t, "all.noteCaught", TRUE) /\ AllRowDone(t)

----------------------------------------------------------------------------
\* pre-evaluate takes any row; pre-evaluate-all takes every listed row, one
\* after the other, and calibrates.  Neither changes a status.  What is left is
\* empty for the one, and holds the row in hand for the other.
PreEvaluateTool(t) == CallTool(t, "pre-evaluate", Students, "tool.read")

\* The top of the loop: no row is left, the turn was aborted, or the next row.
PreEvaluateNext(t, left) ==
    \/ /\ left = {}
       /\ loc' = [loc EXCEPT ![t] = NoLocals]
       /\ GoTo(t, "calibrate")
    \/ /\ left # {}
       /\ Finish(t)
    \/ /\ left # {}
       /\ loc' = [loc EXCEPT ![t] = [NoLocals EXCEPT !.left = left, !.on = FirstOf(left)]]
       /\ GoTo(t, "tool.read")

PreEvaluateAll(t) ==
    /\ "pre-evaluate-all" \in Tools
    /\ pc[t] = "idle"
    /\ GoTo(t, "tool.list")
    /\ UNCHANGED <<files, chain, runs, loc, seen>>

PreEvaluateList(t) ==
    /\ pc[t] = "tool.list"
    /\ PreEvaluateNext(t, Rows)
    /\ UNCHANGED <<files, chain, runs, seen>>

\* The row is stored, or it failed: the one tool returns or throws, the other
\* notes the outcome and goes on.
PreEvaluateSettled(t) ==
    \/ /\ loc[t].left = {}
       /\ Finish(t)
    \/ /\ loc[t].left # {}
       /\ PreEvaluateNext(t, loc[t].left \ {loc[t].on})

\* preEvaluateSubmission: as for a row of the batch.
PreEvaluateRead(t) ==
    /\ pc[t] = "tool.read"
    /\ \/ /\ ~HasResult(results, loc[t].on)
          /\ PreEvaluateSettled(t)
       \/ /\ HasResult(results, loc[t].on)
          /\ loc' = [loc EXCEPT ![t].run = results[loc[t].on].run]
          /\ GoTo(t, "tool.ask")
    /\ UNCHANGED <<files, chain, runs, seen>>

PreEvaluateAsk(t) ==
    /\ pc[t] = "tool.ask"
    /\ \/ GoTo(t, "tool.envelope") /\ UNCHANGED loc
       \/ PreEvaluateSettled(t)
    /\ UNCHANGED <<files, chain, runs, seen>>

\* setPreEvaluation, which throws when the result is gone.
PreEvaluateStore(t) ==
    /\ pc[t] = "tool.envelope"
    /\ \E f \in resultsSeen[t] :
          \/ /\ HasResult(f, loc[t].on)
             /\ WriteResults(t, SetPreEvaluation(f, loc[t].on, loc[t].run))
          \/ /\ ~HasResult(f, loc[t].on)
             /\ LeaveResults(t)
    /\ PreEvaluateSettled(t)
    /\ UNCHANGED <<chain, runs>>

----------------------------------------------------------------------------
\* The calls of the tools, and what they do after they are called.
ToolCall(t) ==
    \/ SaveTool(t) \/ ArchiveTool(t) \/ ProcessSubmission(t) \/ ProcessAll(t)
    \/ PreEvaluateTool(t) \/ PreEvaluateAll(t)

ToolStep(t) ==
    \/ ProcessSubmissionLook(t)
    \/ AllList(t) \/ AllBegin(t) \/ AllStart(t) \/ AllExecute(t)
    \/ AllSucceeds(t) \/ AllFails(t) \/ AllCaught(t)
    \/ PreEvaluateList(t) \/ PreEvaluateRead(t) \/ PreEvaluateAsk(t) \/ PreEvaluateStore(t)

ToolNext == Next \/ \E t \in Requests : ToolCall(t) \/ ToolReads(t) \/ ToolStep(t)

ToolSpec == Init /\ [][ToolNext]_vars

----------------------------------------------------------------------------
\* However a call ends, a throw and an aborted turn included: when nothing is
\* in flight no row is left executing, and no batch is shown as running, which
\* would have the next process-all and process-submission refused for good.
NothingLeftRunning ==
    (\A r \in Requests : pc[r] = "idle") =>
        /\ ~processRun.running
        /\ \A s \in Students : meta[s].status # "executing"

\* (Does not hold with two requests.)  A process tool and a batch do not run at the
\* same time: the flag the tool looks at goes up after two more awaits, in the
\* tool and in the route alike.
BatchesExclusive ==
    \A d, e \in Requests :
        /\ pc[d] \in {"process.start", "process.execute", "process.answered", "all.start", "all.execute"}
        /\ pc[e] \in {"all.start", "all.execute"}
        => d = e
=============================================================================
