------------------------------- MODULE Executor -------------------------------
(***************************************************************************)
(* The executor service (src/executor): a queue of requests behind one     *)
(* event loop, the run of a notebook, the automatic fixes and the check of *)
(* a teacher's patch.  A notebook is a sequence of cells, a cell is what   *)
(* happens when it is run; texts, outputs and sandboxes are left out.      *)
(***************************************************************************)
EXTENDS Naturals, Sequences, FiniteSets

CONSTANTS
    Submitted,   \* the notebooks that may be sent
    PassLimit,   \* PASS_LIMIT of the automatic stage
    KernelDies,  \* whether a kernel may die
    MaxSent      \* bound: requests

\* A cell that "needs" fails with any broken one before it; an "endless" one
\* runs into the timeout.
Cells == {"text", "fine", "broken", "needs", "endless"}

ASSUME ExecutorBounds ==
    /\ PassLimit \in Nat /\ KernelDies \in BOOLEAN /\ MaxSent \in Nat
    /\ Submitted \subseteq Seq(Cells)

VARIABLES
    inbox,    \* requests accepted and not yet begun
    work,     \* the locals of the request that runs
    clients   \* request -> what its sender knows

executorVars == <<inbox, work, clients>>

Patches == {"fine", "broken", "endless"}

NotRun == [cells |-> <<>>, ran |-> {}, errors |-> {}]
NoWork == [pc |-> "idle", id |-> 0, kind |-> "none", sent |-> <<>>, target |-> 0, patch |-> "none", original |-> NotRun,
           working |-> NotRun, tried |-> {}, attempts |-> 0, pass |-> 1, fixed |-> NotRun]

ExecutorInit == inbox = <<>> /\ work = NoWork /\ clients = <<>>

Code(cells) == {i \in DOMAIN cells : cells[i] # "text"}

\* execute_notebook: a cell that times out, or a kernel that dies, ends the
\* run; the exception is logged, and the cells from there on have neither an
\* output nor an error.
Run(cells, dies) ==
    LET stops == {i \in DOMAIN cells : i = dies \/ cells[i] = "endless"}
        ran == {i \in Code(cells) : \A s \in stops : i < s}
    IN [cells |-> cells, ran |-> ran,
        errors |-> {i \in ran : \/ cells[i] = "broken"
                                \/ cells[i] = "needs" /\ \E j \in 1 .. i - 1 : cells[j] = "broken"}]

----------------------------------------------------------------------------
\* The handlers run their notebooks on the event loop: what arrives meanwhile
\* waits, and a sender that hangs up does not stop anything.
Accept(request) ==
    /\ inbox' = Append(inbox, [request EXCEPT !.id = Len(clients) + 1])
    /\ clients' = Append(clients, "waiting")
    /\ UNCHANGED work

\* /execute.
SendExecute(cells) ==
    /\ Len(clients) < MaxSent
    /\ Accept([NoWork EXCEPT !.pc = "execute", !.kind = "execute", !.sent = cells])

\* /execute/autofix-run; a patch that does not parse or is for a cell that
\* is not code is refused at once.
SendPatch(cells, i, patch) ==
    /\ Len(clients) < MaxSent /\ i \in Code(cells)
    /\ Accept([NoWork EXCEPT !.pc = "verify", !.kind = "patch", !.sent = cells, !.target = i, !.patch = patch])

HangUp(id) ==
    /\ clients[id] = "waiting"
    /\ clients' = [clients EXCEPT ![id] = "gone"]
    /\ UNCHANGED <<inbox, work>>

Begin ==
    /\ work.pc = "idle" /\ inbox # <<>>
    /\ work' = Head(inbox) /\ inbox' = Tail(inbox)
    /\ UNCHANGED clients

\* A kernel dies at no cell, or at any.
Deaths == IF KernelDies THEN 0 .. Len(work.sent) ELSE {0}

RunOriginal(dies) ==
    /\ work.pc = "execute"
    /\ LET run == Run(work.sent, dies) IN
       work' = [work EXCEPT !.original = run, !.working = run, !.pc = "pass"]
    /\ UNCHANGED <<inbox, clients>>

Reply == work' = [work EXCEPT !.pc = "reply"] /\ UNCHANGED <<inbox, clients>>

\* No model, no time, no usable suggestion, no sandbox for the next run.
NoSuggestion == work.pc \in {"pass", "rerun"} /\ Reply

\* Mutant: the fixes are tried on the cells of the response.
FixFirstErrorInPlace(patch) ==
    LET target == CHOOSE i \in work.working.errors : \A j \in work.working.errors : i <= j IN
    /\ work.pc = "pass" /\ work.pass <= PassLimit
    /\ work.working.errors # {} /\ target \notin work.tried
    /\ work' = [work EXCEPT !.pc = "rerun", !.tried = @ \cup {target}, !.attempts = @ + 1,
                            !.working.cells[target] = patch, !.original.cells[target] = patch]
    /\ UNCHANGED <<inbox, clients>>

\* The first cell in error is patched, once, in a copy.
FixFirstError(patch) ==
    LET target == CHOOSE i \in work.working.errors : \A j \in work.working.errors : i <= j IN
    /\ work.pc = "pass" /\ work.pass <= PassLimit
    /\ work.working.errors # {} /\ target \notin work.tried
    /\ work' = [work EXCEPT !.pc = "rerun", !.tried = @ \cup {target}, !.attempts = @ + 1,
                            !.working.cells[target] = patch]
    /\ UNCHANGED <<inbox, clients>>

\* The whole notebook is run again: clean, worse, or worth another pass.
Rerun(dies) ==
    LET run == Run(work.working.cells, dies)
        worse == Cardinality(run.errors) > Cardinality(work.working.errors)
    IN /\ work.pc = "rerun"
       /\ work' = [work EXCEPT !.working = run, !.pass = @ + 1,
                               !.fixed = IF run.errors = {} THEN run ELSE @,
                               !.pc = IF run.errors = {} \/ worse THEN "reply" ELSE "pass"]
       /\ UNCHANGED <<inbox, clients>>

\* apply_manual_fix: one run with the teacher's patch.
VerifyPatch(dies) ==
    LET run == Run([work.sent EXCEPT ![work.target] = work.patch], dies) IN
    /\ work.pc = "verify"
    /\ work' = [work EXCEPT !.original = [NotRun EXCEPT !.cells = work.sent], !.attempts = 1, !.pc = "reply",
                            !.fixed = IF run.errors = {} THEN run ELSE @]
    /\ UNCHANGED <<inbox, clients>>

\* The answer, or a status of 400 or 500 before there is anything to show.
Respond ==
    /\ work.pc \in {"execute", "verify", "reply"}
    /\ clients' = [clients EXCEPT ![work.id] = IF @ = "waiting" THEN "answered" ELSE @]
    /\ work' = NoWork
    /\ UNCHANGED inbox

Send ==
    \E cells \in Submitted :
        SendExecute(cells) \/ \E i \in DOMAIN cells, patch \in Patches : SendPatch(cells, i, patch)
Serve ==
    \/ Begin \/ NoSuggestion \/ Respond
    \/ \E patch \in Patches : FixFirstError(patch)
    \/ \E dies \in Deaths : RunOriginal(dies) \/ Rerun(dies) \/ VerifyPatch(dies)

ExecutorNext == Send \/ Serve \/ \E id \in DOMAIN clients : HangUp(id)

ExecutorSpec == ExecutorInit /\ [][ExecutorNext]_executorVars /\ WF_executorVars(Serve)

----------------------------------------------------------------------------
\* Whatever fixes were tried, the response shows the notebook that was sent as
\* it was, and a fixed version only if no cell of its last run is in error; the
\* two differ in code cells only, at most one per attempt, and the automatic
\* stage makes at most PassLimit attempts.
ProposalVerified ==
    work.pc = "reply" =>
        /\ work.original.cells = work.sent
        /\ work.attempts <= PassLimit \/ work.kind = "patch"
        /\ work.fixed # NotRun =>
              LET changed == {i \in DOMAIN work.sent : work.fixed.cells[i] # work.sent[i]} IN
              /\ work.fixed.errors = {}
              /\ changed \subseteq Code(work.sent) /\ Cardinality(changed) <= work.attempts

\* A request accepted is worked off, also when its sender has hung up.
InboxDrains == inbox # <<>> ~> inbox = <<>>

\* (Does not hold.)  A version is called fixed only when the whole notebook has been run.
FixedRanWhole == work.pc = "reply" /\ work.fixed # NotRun => work.fixed.ran = Code(work.sent)
=============================================================================
