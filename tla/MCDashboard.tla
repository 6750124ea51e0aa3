----------------------------- MODULE MCDashboard -----------------------------
(***************************************************************************)
(* The dashboard twice, each alone: over assignments of several rows, for  *)
(* the bulk actions, and over assignments of a single row, for runs,       *)
(* uploads, filters, reloads and other pages.                              *)
(***************************************************************************)
EXTENDS Dashboard

CONSTANTS
    SingleRow,        \* of the second: its row,
    SingleAtFirst,    \* what it may be at first,
    SingleDeeds,      \* what the teacher may do,
    SingleFlying      \* and how many calls may be under way then

VARIABLE several   \* the behaviour is one over several rows

vars == <<several, dashVars>>

Single ==
    INSTANCE Dashboard
    WITH RowIds <- SingleRow, AtFirst <- SingleAtFirst, Deeds <- SingleDeeds, MaxFlying <- SingleFlying

MCInit == several \in BOOLEAN /\ (several => Init) /\ (~several => Single!Init)

Either(overSeveral, overSingle) ==
    /\ \/ several /\ overSeveral
       \/ ~several /\ overSingle
    /\ UNCHANGED several

MCNext == Either(Next, Single!Next)

MCSpec ==
    /\ MCInit /\ [][MCNext]_vars
    /\ WF_vars(Either(Polling, Single!Polling))
    /\ WF_vars(Either(Refreshing, Single!Refreshing))
    /\ WF_vars(Either(Settling, Single!Settling))
=============================================================================
