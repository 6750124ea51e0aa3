------------------------------ MODULE ToolGate ------------------------------
(***************************************************************************)
(* What a teacher relies on when the copilot calls a tool: the policy says *)
(* what may become of a call, a call that needs the teacher runs only on   *)
(* the teacher's own word about that very call, a blocked one never does,  *)
(* and none runs twice.                                                    *)
(***************************************************************************)
CONSTANT Calls

VARIABLES
    fate,   \* call -> what has become of it
    word    \* call -> what the teacher has said about it

Fates == {"none", "auto", "ask", "blocked", "granted", "refused", "ran"}
Words == {"approve", "deny"}

TypeOK ==
    /\ fate \in [Calls -> Fates]
    /\ word \in [Calls -> SUBSET Words]

Init ==
    /\ fate = [c \in Calls |-> "none"]
    /\ word = [c \in Calls |-> {}]

Becomes(c, from, to) ==
    /\ fate[c] \in from
    /\ fate' = [fate EXCEPT ![c] = to]
    /\ UNCHANGED word

Propose(c) == \E d \in {"auto", "ask", "blocked"} : Becomes(c, {"none"}, d)
Grant(c) == "approve" \in word[c] /\ Becomes(c, {"ask"}, "granted")
Refuse(c) == Becomes(c, {"ask", "blocked"}, "refused")
Run(c) == Becomes(c, {"auto", "granted"}, "ran")

\* The teacher only speaks of a call that waits for it.
Say(c) == \E w \in Words :
    /\ fate[c] \notin {"none", "auto"}
    /\ word' = [word EXCEPT ![c] = @ \cup {w}]
    /\ UNCHANGED fate

Next == \E c \in Calls : Propose(c) \/ Grant(c) \/ Refuse(c) \/ Run(c) \/ Say(c)

Spec == Init /\ [][Next]_<<fate, word>>
=============================================================================
