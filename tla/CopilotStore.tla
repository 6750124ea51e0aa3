---------------------------- MODULE CopilotStore ----------------------------
(***************************************************************************)
(* The browser's half of the copilot (copilot-store.svelte.ts): one store  *)
(* of one submission, turn after turn.  A turn reads the frames of its     *)
(* response stream; the teacher's decisions go out in requests of their    *)
(* own, whose answers come back at any later time.                         *)
(*                                                                         *)
(* The store has one set of variables for the turn in progress.  A turn it *)
(* has given up (the server refused a decision) still has a loop reading   *)
(* its stream, and the server still runs it, while the next one starts.    *)
(***************************************************************************)
EXTENDS CopilotAgent, FiniteSets

CONSTANT MaxQueued   \* bound: messages queued at a time

ASSUME MaxQueuedAssumption == MaxQueued \in Nat

VARIABLES
    isStreaming,
    card,          \* pendingApproval: {} or {<<turn, call>>}
    checkpoint,    \* {} or {<<turn, its snapshot>>}
    queued,        \* how many messages wait in queuedMessages
    stopRequested, \* {} or {the turn a steer was meant to stop}
    controller,    \* activeController: the turn it aborts, 0 for null
    hardCap,       \* the turn hardCap was last set for, 0 for undefined
    caps,          \* the turns whose hard-cap timer is pending
    loop,          \* turn -> sendOneTurn's loop over its stream
    thread,        \* activeThreadId
    posts          \* the decisions POSTed, and what has become of them

turnVars == <<isStreaming, queued, controller, hardCap, caps, loop>>
storeVars == <<turnVars, card, checkpoint, stopRequested, thread, posts>>
vars == <<agentVars, storeVars>>

Loops == {"none", "reading", "failing", "over"}
PostStates == {"sent", "accepted", "refused", "failed"}

Init ==
    /\ AgentInit
    /\ isStreaming = FALSE /\ card = {} /\ checkpoint = {}
    /\ queued = 0 /\ stopRequested = {}
    /\ controller = 0 /\ hardCap = 0 /\ caps = {}
    /\ loop = [r \in Runs |-> "none"]
    /\ thread \in Threads
    /\ posts = {}

\* sendOneTurn, up to the read of the first frame; ends the loops in over.
Open(r, over) ==
    /\ loop[r] = "none" /\ \A s \in Runs : s < r => loop[s] # "none"
    /\ StartRun(r, thread)
    /\ isStreaming' = TRUE
    /\ controller' = r /\ hardCap' = r /\ caps' = (caps \ over) \cup {r}
    /\ loop' = [s \in Runs |-> CASE s = r -> "reading" [] s \in over -> "over" [] OTHER -> loop[s]]

\* sendMessage: a new turn starts from a clean harness.
Send(r) ==
    /\ ~isStreaming
    /\ Open(r, {})
    /\ checkpoint' = {} /\ queued' = 0 /\ stopRequested' = {}
    /\ UNCHANGED <<wire, known, allowance, grading, card, thread, posts>>

----------------------------------------------------------------------------
\* The end of turn r's loop: the finally block clears the shared variables,
\* whichever turn they belong to by now, and sendMessage sends the next
\* queued message, in the same harness.  Taken while streaming, it is lost.
Close(r, streaming) ==
    /\ controller' = 0 /\ hardCap' = 0 /\ caps' = caps \ {hardCap}
    /\ loop' = [loop EXCEPT ![r] = "over"]
    /\ isStreaming' = streaming
    /\ UNCHANGED run

AllOpened == \A s \in Runs : loop[s] # "none"

Finish(r, streaming) ==
    \/ queued = 0 /\ Close(r, streaming) /\ UNCHANGED queued
    \/ queued > 0 /\ (streaming \/ AllOpened) /\ Close(r, streaming) /\ queued' = queued - 1
    \/ queued > 0 /\ ~streaming /\ queued' = queued - 1 /\ \E s \in Runs : Open(s, {r})

\* handleSseEvent: the frames that show or take down an approval card or
\* bring the turn's checkpoint.
Shows(r, frame) ==
    /\ card' = CASE frame[1] = "approval-request" -> {<<r, frame[2]>>}
                 [] frame[1] \in {"error", "done"} -> {}
                 [] OTHER -> card
    /\ checkpoint' = IF frame[1] = "checkpoint" THEN {frame[2]} ELSE checkpoint

\* After an error or done, or when the store is no longer streaming anyway,
\* the loop ends.  A steered turn is aborted at the first tool result.
ReadFrame(r) ==
    LET frame == Head(wire[r])
        steered == frame[1] = "tool-result" /\ stopRequested # {} /\ controller # 0
    IN
    /\ loop[r] = "reading" /\ wire[r] # <<>>
    /\ wire' = [wire EXCEPT ![r] = Tail(@)]
    /\ Shows(r, frame)
    /\ CASE ~isStreaming \/ frame[1] \in {"error", "done"} -> Finish(r, FALSE)
         [] isStreaming /\ steered ->
                /\ AbortRun(controller)
                /\ loop' = [loop EXCEPT ![controller] = "failing"]
                /\ UNCHANGED <<isStreaming, queued, controller, hardCap, caps>>
         [] OTHER -> UNCHANGED <<run, turnVars>>
    /\ UNCHANGED <<known, allowance, grading, stopRequested, thread, posts>>

\* The response ends without a terminal frame: nothing resets isStreaming.
StreamEnds(r) ==
    /\ loop[r] = "reading" /\ wire[r] = <<>> /\ Ended(r)
    /\ Finish(r, isStreaming)
    /\ UNCHANGED <<wire, known, allowance, grading, card, checkpoint, stopRequested, thread, posts>>

\* Mutant: a rejected read is tried again.
LoopFailsRetries(r) ==
    /\ loop[r] = "failing" \/ (loop[r] = "reading" /\ run[r].phase = "lost")
    /\ card' = {}
    /\ loop' = [loop EXCEPT ![r] = "reading"]
    /\ UNCHANGED <<run, isStreaming, queued, controller, hardCap, caps>>
    /\ UNCHANGED <<wire, known, allowance, grading, checkpoint, stopRequested, thread, posts>>

\* The read rejects, because the turn was aborted or the server is gone (what
\* it had sent may still be read, or not): handleStreamError.
LoopFails(r) ==
    /\ loop[r] = "failing" \/ (loop[r] = "reading" /\ run[r].phase = "lost")
    /\ card' = {}
    /\ Finish(r, FALSE)
    /\ UNCHANGED <<wire, known, allowance, grading, checkpoint, stopRequested, thread, posts>>

----------------------------------------------------------------------------
\* What cuts a turn short.

Abort(r) ==
    /\ loop[r] = "reading"
    /\ AbortRun(r)
    /\ loop' = [loop EXCEPT ![r] = "failing"]
    /\ UNCHANGED <<wire, known, allowance, grading, isStreaming, queued, controller, hardCap,
                   card, checkpoint, stopRequested, thread, posts>>

\* The Stop button, and the idle timer, abort through activeController.
Stop == \E r \in Runs : controller = r /\ Abort(r) /\ UNCHANGED caps

\* The timer of the hard cap aborts its own turn.
HardCapFires(r) == r \in caps /\ Abort(r) /\ caps' = caps \ {r}

----------------------------------------------------------------------------
\* What the teacher does while a turn runs, or between two.

\* queueMessage and steerMessage
Queue(steer) ==
    /\ isStreaming /\ queued < MaxQueued
    /\ queued' = queued + 1
    /\ stopRequested' = IF steer THEN {controller} ELSE stopRequested
    /\ UNCHANGED <<agentVars, isStreaming, controller, hardCap, caps, loop, card, checkpoint,
                   thread, posts>>

\* The decision is POSTed; the card is taken down at once.
Approve(w) == \E c \in card :
    /\ card' = {}
    /\ posts' = posts \cup {[call |-> c, word |-> w, state |-> "sent"]}
    /\ UNCHANGED <<agentVars, turnVars, checkpoint, stopRequested, thread>>

Becomes(p, state) == posts' = (posts \ {p}) \cup {[p EXCEPT !.state = state]}

ServerAnswers(p) ==
    /\ p.state = "sent"
    /\ \/ /\ AnswerApproval(p.call[1], p.call[2], p.word)
          /\ Becomes(p, "accepted")
       \/ /\ ~MayAnswer(p.call[1], p.call[2])
          /\ Becomes(p, "refused")
          /\ UNCHANGED run
    /\ UNCHANGED <<wire, known, allowance, grading, turnVars, card, checkpoint, stopRequested, thread>>

\* A refused decision ends the streaming of whichever turn is shown; no loop
\* is stopped and no run is aborted.
RefusalArrives(p) ==
    /\ p.state = "refused"
    /\ Becomes(p, "failed")
    /\ card' = {} /\ isStreaming' = FALSE
    /\ UNCHANGED <<agentVars, queued, controller, hardCap, caps, loop, checkpoint,
                   stopRequested, thread>>

\* openThread: the transcript is replaced; so is the card, unanswered.
OpenThread(th) ==
    /\ thread' = th
    /\ card' = {}
    /\ UNCHANGED <<agentVars, turnVars, checkpoint, stopRequested, posts>>

\* newConversation; the id is made up when the next turn is sent.
NewConversation(th) ==
    /\ thread' = th
    /\ card' = {} /\ checkpoint' = {} /\ queued' = 0 /\ stopRequested' = {}
    /\ UNCHANGED <<agentVars, isStreaming, controller, hardCap, caps, loop, posts>>

\* revertTurn, with its save: a merge, which leaves alone a selection that
\* the snapshot does not have.
Merged(snapshot) == IF snapshot = Unset THEN grading ELSE snapshot

Revert == \E c \in checkpoint :
    /\ ~isStreaming
    /\ grading' = Merged(c[2])
    /\ checkpoint' = {}
    /\ UNCHANGED <<run, wire, known, allowance, turnVars, card, stopRequested, thread, posts>>

----------------------------------------------------------------------------
Server(r) ==
    /\ RunChat(r) \/ Mastra(r) \/ Expire(r)
    /\ UNCHANGED storeVars

Teacher ==
    \/ \E r \in Runs : Send(r)
    \/ Stop
    \/ \E steer \in BOOLEAN : Queue(steer)
    \/ \E w \in {"approve", "deny"} : Approve(w)
    \/ \E th \in Threads : OpenThread(th) \/ NewConversation(th)
    \/ Revert

Browser(r) == ReadFrame(r) \/ StreamEnds(r) \/ HardCapFires(r)

\* The rejection that follows an abort is handled in the same task: the
\* browser does nothing in between.
Settled == \A r \in Runs : loop[r] # "failing"

Next ==
    \/ Settled /\ Teacher
    \/ Settled /\ \E r \in Runs : Browser(r)
    \/ Settled /\ \E p \in posts : RefusalArrives(p)
    \/ \E r \in Runs : Server(r) \/ LoopFails(r)
    \/ \E p \in posts : ServerAnswers(p)
    \/ Restart /\ UNCHANGED storeVars

Spec == Init /\ [][Next]_vars

\* The timers fire, the browser reads what there is to read, and the server
\* gets on with a turn; whoever the teacher is waited for may never come.
Fairness ==
    /\ \A r \in Runs :
        /\ WF_vars(Server(r))
        /\ WF_vars(Settled /\ Browser(r))
        /\ WF_vars(LoopFails(r))

FairSpec == Spec /\ Fairness

----------------------------------------------------------------------------
\* Every variable holds the kind of value the code puts there.
TypeOK ==
    /\ \A r \in Runs :
        /\ run[r].phase \in Phases /\ run[r].outcome \in {"none", "approve", "deny", "expired"}
        /\ Last(r) <= MaxCalls /\ run[r].pending \in 0 .. Last(r) /\ run[r].at \in 0 .. Last(r)
        /\ run[r].decisions \in [Tools -> {"none", "auto", "ask", "blocked"}]
    /\ known \subseteq Runs /\ allowance \in [Threads -> Nat]
    /\ isStreaming \in BOOLEAN /\ Cardinality(card) <= 1 /\ Cardinality(checkpoint) <= 1
    /\ queued \in 0 .. MaxQueued /\ stopRequested \subseteq Runs \cup {0}
    /\ controller \in 0 .. MaxRuns /\ hardCap \in 0 .. MaxRuns /\ caps \subseteq Runs
    /\ loop \in [Runs -> Loops] /\ thread \in Threads
    /\ \A p \in posts : p.state \in PostStates

Calls == Runs \X (1 .. MaxCalls)
Made(c) == c[2] <= Last(c[1])
Fate(c) == IF Made(c) THEN CallOf(c[1], c[2]).fate ELSE "none"
Said(c) == {p.word : p \in {q \in posts : q.call = c}}

Gate == INSTANCE ToolGate WITH
    fate <- [c \in Calls |-> Fate(c)],
    word <- [c \in Calls |-> Said(c)]

\* Whatever the order of timers, aborts, answers and restarts, what becomes
\* of a tool call follows the gate: only the policy, or the teacher's own
\* approval of that very call, lets it run (agent.ts decisions 3 and 4).
CallsPassTheGate == Gate!Spec

Unattended(c) ==
    /\ Made(c) /\ CallOf(c[1], c[2]).tool \in ApprovalTools
    /\ Fate(c) \in {"auto", "ran"} /\ "approve" \notin Said(c)

\* In ask mode the turns of a thread, however they overlap, run no more
\* approval-class calls unattended than the session's cap, for as long as the
\* process lives (permission.ts, rule 5).
CapBoundsUnattended == \A th \in Threads :
    Cardinality({c \in Calls : /\ Unattended(c)
                               /\ run[c[1]].mode = "ask" /\ run[c[1]].thread = th
                               /\ run[c[1]].phase # "lost"}) <= SessionCap

\* The checkpoint of a turn never shows a write of that turn, unless one ran
\* unattended while runChat was still behind it (agent.ts: the snapshot is
\* taken before the write lands).
CheckpointPrecedesWrite == \A c \in checkpoint :
    LET r == c[1] IN
    c[2][1] = r => \E k \in 1 .. Last(r) : Unattended(<<r, k>>)

\* While the store says it is streaming, some loop of its own will say when it
\* no longer is; only a turn whose settings could not be read is never ended.
StreamingHasLoop ==
    isStreaming => \/ \E r \in Runs : loop[r] \in {"reading", "failing"}
                   \/ \E r \in Runs : run[r].mode = "unreadable"

\* Every turn comes to an end on the server, also when the teacher never
\* answers: the timer of the approval denies it (agent.ts decision 4).
TurnsEnd == \A r \in Runs : run[r].phase # "none" ~> run[r].phase \in {"ended", "lost"}

\* Every loop of the browser over a turn ends.
LoopsEnd == \A r \in Runs : loop[r] = "reading" ~> loop[r] = "over"

\* (Does not hold.)  Reverting restores the pre-turn snapshot (copilot-store.svelte.ts,
\* revertTurn).
RevertRestores ==
    [][\A c \in checkpoint : Revert => grading' = c[2]]_vars

\* (Does not hold.)  A reverted turn writes no more (copilot-store.svelte.ts: the revert waits
\* for the end of the turn so that no remaining write lands on top).
RevertIsLast ==
    [][\A c \in checkpoint : Revert => run[c[1]].over]_vars
=============================================================================
