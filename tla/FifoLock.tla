------------------------------ MODULE FifoLock ------------------------------
(***************************************************************************)
(* What callers of withPersistLock rely on: sections queue up in the order *)
(* of their calls, and the one at the head, alone, runs.                   *)
(***************************************************************************)
EXTENDS Sequences

CONSTANT Callers

VARIABLE queue   \* the calls whose section has not settled, in order

Init == queue = <<>>

Call(n) == queue' = Append(queue, n)

Settle == queue # <<>> /\ queue' = Tail(queue)

Next == Settle \/ \E n \in Callers : Call(n)

Spec == Init /\ [][Next]_queue
=============================================================================
