----------------------------- MODULE Lifecycle -----------------------------
(***************************************************************************)
(* What the batch routes promise about the rows of an assignment: each     *)
(* write of metadata.json is about one row, and moves it along             *)
(* STATUS_TRANSITIONS or to a status the route enters by force.            *)
(***************************************************************************)
EXTENDS Submissions

CONSTANTS InitialRows,   \* statuses a row may start with
          Forced         \* statuses entered with { force: true }

VARIABLE status

Init == status \in [Students -> InitialRows]

Move(s, to) ==
    /\ <<status[s], to>> \in Transitions \cup (Status \X Forced)
    /\ status' = [status EXCEPT ![s] = to]

Next == \E s \in Students, to \in Status : Move(s, to)

Spec == Init /\ [][Next]_status
=============================================================================
