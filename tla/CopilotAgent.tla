---------------------------- MODULE CopilotAgent ----------------------------
(***************************************************************************)
(* The server's half of the copilot (lib/server/copilot/agent.ts, with     *)
(* permission.ts and the chat and approval routes): chat turns, the policy *)
(* that decides which tool calls run unattended, the approvals that        *)
(* suspend the others, and the checkpoint taken before a turn's first      *)
(* grading write.                                                          *)
(*                                                                         *)
(* A run is one chat turn.  Mastra's agent loop (external) makes the tool  *)
(* calls and feeds chunks to runChat, which may lag behind it; runChat     *)
(* turns chunks into the frames of the response stream.  Frames that only  *)
(* add to the transcript (text, plan, tool-call, suggestion) are left out. *)
(***************************************************************************)
EXTENDS Naturals, Sequences

CONSTANTS
    MaxRuns,       \* bound: chat turns
    MaxCalls,      \* bound: tool calls of a turn
    Threads,       \* the threads of the submission, each with its session
    Tools,         \* the tools the model calls in this instance
    DenyTools, AllowedTools, SessionCap,   \* settings.copilot
    Modes,         \* the values settings.copilot.mode takes; "unreadable":
                   \* the settings file cannot be parsed
    Selected,      \* whether the teacher has made the selection to begin with
    Restarts       \* whether the server process may be restarted

ASSUME BoundsAssumption == MaxRuns \in Nat /\ MaxCalls \in Nat /\ SessionCap \in Nat
ASSUME ModesAssumption == Modes \subseteq {"ask", "auto-approve-all", "read-only", "unreadable"}
ASSUME ChoicesAssumption == Restarts \in BOOLEAN /\ Selected \in BOOLEAN

VARIABLES
    run,        \* turn -> runChat's locals and Mastra's state of the run
    wire,       \* turn -> the frames the client has not read yet
    known,      \* _knownApprovalRunIds
    allowance,  \* thread -> autoApprovedCount of its session
    grading     \* one rubric selection of the submission: who made it

agentVars == <<run, wire, known, allowance, grading>>

Runs == 1 .. MaxRuns
Unset == <<0, 0>>       \* the criterion has no selection
ByTeacher == <<0, 1>>   \* the teacher's own; <<r, k>> is the k-th call's of turn r

\* The tools by what their declarations say of them.
GradingWriteTools == {"set-rubric-item", "update-grade-dimension", "write-notes", "save-grading"}
ApprovalTools == GradingWriteTools \cup {"archive-submission", "delete-assignment", "process-all"}
Destructive == {"archive-submission", "delete-assignment"}
AlwaysAskCost == {"process-all", "pre-evaluate-all"}

----------------------------------------------------------------------------
\* Mutant: the cap is compared after the increment it should bound.
ResolveLate(r, t) ==
    CASE t \in DenyTools -> "blocked"
      [] t \in Destructive -> "ask"
      [] run[r].mode = "read-only" -> IF t \in ApprovalTools THEN "blocked" ELSE "auto"
      [] run[r].mode = "auto-approve-all" -> IF t \in AlwaysAskCost THEN "ask" ELSE "auto"
      [] OTHER -> IF t \notin ApprovalTools \/ (t \in AllowedTools /\ allowance[run[r].thread] <= SessionCap)
                  THEN "auto" ELSE "ask"

\* resolveApprovalPolicy: the first rule that matches decides.
Resolve(r, t) ==
    CASE t \in DenyTools -> "blocked"
      [] t \in Destructive -> "ask"
      [] run[r].mode = "read-only" -> IF t \in ApprovalTools THEN "blocked" ELSE "auto"
      [] run[r].mode = "auto-approve-all" -> IF t \in AlwaysAskCost THEN "ask" ELSE "auto"
      [] OTHER -> IF t \notin ApprovalTools \/ (t \in AllowedTools /\ allowance[run[r].thread] < SessionCap)
                  THEN "auto" ELSE "ask"

\* Only the allow-list spends the session's allowance.
Spends(r, t) == run[r].mode = "ask" /\ t \in ApprovalTools /\ Resolve(r, t) = "auto"

----------------------------------------------------------------------------
NoRun == [phase |-> "none", mode |-> "ask", thread |-> CHOOSE th \in Threads : TRUE,
          feed |-> <<>>, calls |-> <<>>, over |-> FALSE, decisions |-> [t \in Tools |-> "none"],
          pending |-> 0, outcome |-> "none",
          aborted |-> FALSE, checkpointed |-> FALSE, at |-> 0]

Phases == {"none", "reading", "snapshot", "waiting", "ended", "lost"}

AgentInit ==
    /\ run = [r \in Runs |-> NoRun]
    /\ wire = [r \in Runs |-> <<>>]
    /\ known = {}
    /\ allowance = [th \in Threads |-> 0]
    /\ grading = IF Selected THEN ByTeacher ELSE Unset

Ended(r) == run[r].phase = "ended"

\* The generator returns: its locals are gone, Mastra's calls are not.
Return(r) == [NoRun EXCEPT !.phase = "ended", !.mode = run[r].mode, !.thread = run[r].thread,
                           !.calls = run[r].calls, !.over = run[r].over, !.aborted = run[r].aborted]

\* A chunk that nobody is left to read is dropped.
Feed(r, chunks) == IF Ended(r) \/ run[r].aborted THEN run[r].feed ELSE run[r].feed \o chunks
Last(r) == Len(run[r].calls)
CallOf(r, k) == run[r].calls[k]

\* Mastra is at the model, not at a tool call.
Thinking(r) ==
    /\ run[r].phase \notin {"none", "lost"}
    /\ ~run[r].over
    /\ run[r].calls # <<>> => CallOf(r, Last(r)).fate \in {"ran", "refused"}

\* POST of the chat route, up to the first pull of the agent's stream.  An
\* unreadable settings file ends the response without a single frame.
StartRun(r, th) ==
    /\ run[r].phase = "none"
    /\ \E mode \in Modes :
           run' = [run EXCEPT ![r].thread = th, ![r].mode = mode,
                              ![r].phase = IF mode = "unreadable" THEN "ended" ELSE "reading",
                              ![r].over = (mode = "unreadable")]

----------------------------------------------------------------------------
\* Mastra (external): what its loop does with a run, as the code uses it.

\* requireApproval is asked once per call and records its decision.
ModelCalls(r, t) ==
    LET d == Resolve(r, t)
        k == Last(r) + 1
    IN
    /\ Thinking(r) /\ ~run[r].aborted
    /\ k <= MaxCalls
    /\ run' = [run EXCEPT ![r].calls = Append(@, [tool |-> t, fate |-> d]),
                          ![r].decisions[t] = d,
                          ![r].feed = Feed(r, <<<<"tool-call", k>>>> \o
                               IF d = "auto" THEN <<>> ELSE <<<<"approval", k>>>>)]
    /\ allowance' = IF Spends(r, t) THEN [allowance EXCEPT ![run[r].thread] = @ + 1] ELSE allowance
    /\ UNCHANGED <<wire, known, grading>>

\* A call that may run does, and succeeds or not; a write that succeeds lands.
ToolRuns(r, ok) ==
    LET k == Last(r) IN
    /\ run[r].calls # <<>> /\ CallOf(r, k).fate \in {"auto", "granted"}
    /\ run[r].phase # "lost"
    /\ run' = [run EXCEPT ![r].calls[k].fate = "ran", ![r].feed = Feed(r, <<<<"tool-result", k>>>>)]
    /\ grading' = IF ok /\ CallOf(r, k).tool \in GradingWriteTools THEN <<r, k>> ELSE grading
    /\ UNCHANGED <<wire, known, allowance>>

\* The loop ends, after an error of the model or a tripwire perhaps, or
\* because the turn's signal was aborted.
ModelEnds(r, last) ==
    /\ Thinking(r)
    /\ run' = [run EXCEPT ![r].over = TRUE,
                          ![r].feed = Feed(r, last)]
    /\ UNCHANGED <<wire, known, allowance, grading>>

----------------------------------------------------------------------------
\* runChat: one chunk of the feed at a time, until the signal is aborted.

Emit(r, frames) == wire' = [wire EXCEPT ![r] = @ \o frames]

Reading(r, kind) ==
    /\ run[r].phase = "reading" /\ ~run[r].aborted
    /\ run[r].feed # <<>> /\ Head(run[r].feed)[1] = kind

\* Mutant: every grading write of the turn takes a checkpoint.
NeedsCheckpointAlways(r, k) == CallOf(r, k).tool \in GradingWriteTools

NeedsCheckpoint(r, k) == ~run[r].checkpointed /\ CallOf(r, k).tool \in GradingWriteTools

\* The first grading write of the turn: the snapshot is read before the
\* frame of the call goes out.
ReadToolCall(r) ==
    LET k == Head(run[r].feed)[2] IN
    /\ Reading(r, "tool-call")
    /\ IF NeedsCheckpoint(r, k)
       THEN run' = [run EXCEPT ![r].feed = Tail(@), ![r].checkpointed = TRUE,
                               ![r].phase = "snapshot"]
       ELSE run' = [run EXCEPT ![r].feed = Tail(@)]
    /\ UNCHANGED <<wire, known, allowance, grading>>

TakeSnapshot(r) ==
    /\ run[r].phase = "snapshot"
    /\ run' = [run EXCEPT ![r].phase = "reading"]
    /\ Emit(r, <<<<"checkpoint", <<r, grading>>>>>>)
    /\ UNCHANGED <<known, allowance, grading>>

ReadOther(r) ==
    /\ \E kind \in {"tool-result", "error"} : Reading(r, kind)
    /\ run' = [run EXCEPT ![r].feed = Tail(@)]
    /\ Emit(r, <<Head(run[r].feed)>>)
    /\ UNCHANGED <<known, allowance, grading>>

ReadFinish(r) ==
    /\ Reading(r, "finish")
    /\ run' = [run EXCEPT ![r] = Return(r)]
    /\ Emit(r, <<<<"done">>>>)
    /\ UNCHANGED <<known, allowance, grading>>

\* An aborted signal ends the generator, and with it the response, without a
\* terminal frame.
StopReading(r) ==
    /\ run[r].phase = "reading" /\ run[r].aborted
    /\ run' = [run EXCEPT ![r] = Return(r)]
    /\ UNCHANGED <<wire, known, allowance, grading>>

Recorded(r, k) ==
    IF run[r].decisions[CallOf(r, k).tool] = "blocked" THEN "blocked" ELSE "ask"

\* Mutant: nothing is registered, the request just goes out.
RequestApprovalUnregistered(r) ==
    LET k == Head(run[r].feed)[2] IN
    /\ Reading(r, "approval")
    /\ run' = [run EXCEPT ![r].feed = Tail(@), ![r].phase = "waiting",
                          ![r].outcome = "none", ![r].at = k]
    /\ Emit(r, <<<<"approval-request", k, Recorded(r, k)>>>>)
    /\ \E pruned \in SUBSET (known \ {r}) : known' = (known \ pruned) \cup {r}
    /\ UNCHANGED <<allowance, grading>>

\* waitForApproval registers the request, then its frame goes out; the chat
\* route notes the run as known, and forgets those whose grace has elapsed.
RequestApproval(r) ==
    LET k == Head(run[r].feed)[2] IN
    /\ Reading(r, "approval")
    /\ run' = [run EXCEPT ![r].feed = Tail(@), ![r].phase = "waiting",
                          ![r].pending = k, ![r].outcome = "none", ![r].at = k]
    /\ Emit(r, <<<<"approval-request", k, Recorded(r, k)>>>>)
    /\ \E pruned \in SUBSET (known \ {r}) : known' = (known \ pruned) \cup {r}
    /\ UNCHANGED <<allowance, grading>>

\* The timer of waitForApproval.
Expire(r) ==
    /\ run[r].pending # 0
    /\ run' = [run EXCEPT ![r].pending = 0, ![r].outcome = "expired"]
    /\ UNCHANGED <<wire, known, allowance, grading>>

Effective(r) == run[r].outcome = "approve" /\ Recorded(r, run[r].at) = "ask"

\* The awaited outcome is there: Mastra resumes the run with it.
Decide(r) ==
    /\ run[r].phase = "waiting" /\ run[r].outcome # "none" /\ ~run[r].aborted
    /\ run' = [run EXCEPT ![r].phase = "reading", ![r].outcome = "none",
                          ![r].calls[run[r].at].fate = IF Effective(r) THEN "granted" ELSE "refused"]
    /\ Emit(r, IF run[r].outcome = "expired" THEN <<<<"tool-result", run[r].at>>>> ELSE <<>>)
    /\ UNCHANGED <<known, allowance, grading>>

\* The signal was aborted while the run waited; the listener, or the timer,
\* has settled the approval.
StopWaiting(r) ==
    /\ run[r].phase = "waiting" /\ run[r].outcome # "none" /\ run[r].aborted
    /\ run' = [run EXCEPT ![r] = Return(r)]
    /\ UNCHANGED <<wire, known, allowance, grading>>

----------------------------------------------------------------------------
\* What the client does to a run.

\* The connection goes away: the abort listener of a pending approval fires.
AbortRun(r) ==
    run' = [run EXCEPT ![r].aborted = TRUE, ![r].feed = <<>>,
                       ![r].outcome = IF run[r].pending # 0 THEN "expired" ELSE @,
                       ![r].pending = 0]

\* POST of the approval route and approveRun.

\* Mutant: any run the route knows takes the answer, whatever it waits for.
MayAnswerKnown(r, k) == r \in known

MayAnswer(r, k) == r \in known /\ run[r].pending = k

AnswerApproval(r, k, w) ==
    /\ MayAnswer(r, k)
    /\ run' = [run EXCEPT ![r].pending = 0, ![r].outcome = w]

\* A restart of the process: every run, approval and session is gone.
Restart ==
    /\ Restarts
    /\ run' = [r \in Runs |->
                 IF run[r].phase = "none" THEN run[r]
                 ELSE [Return(r) EXCEPT !.phase = "lost", !.over = TRUE]]
    /\ known' = {}
    /\ allowance' = [th \in Threads |-> 0]
    /\ UNCHANGED <<wire, grading>>

Mastra(r) ==
    \/ \E t \in Tools : ModelCalls(r, t)
    \/ \E ok \in BOOLEAN : ToolRuns(r, ok)
    \/ \E last \in {<<<<"finish">>>>, <<<<"error">>, <<"finish">>>>} : ModelEnds(r, last)

RunChat(r) ==
    \/ ReadToolCall(r) \/ TakeSnapshot(r) \/ ReadOther(r) \/ ReadFinish(r) \/ StopReading(r)
    \/ RequestApproval(r) \/ Decide(r) \/ StopWaiting(r)
=============================================================================
