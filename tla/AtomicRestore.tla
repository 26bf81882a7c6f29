----------------------------- MODULE AtomicRestore -----------------------------
(***************************************************************************)
(* What restoring a checkpoint promises: the world (the files of a profile *)
(* and the selection) is replaced in one step, or it stays as it was, and  *)
(* every restore that was opened is closed again.  How the Agent gets      *)
(* there, and that it may die on the way, cannot be seen.                  *)
(***************************************************************************)
CONSTANT Worlds

VARIABLES
    world,    \* what the stores hold
    planned,  \* what the open restore is to make of it
    open      \* a restore is under way

restore == <<world, planned, open>>

Init == world \in Worlds /\ planned \in Worlds /\ open = FALSE

\* A restore is requested.
Open ==
    /\ ~open /\ open' = TRUE
    /\ planned' \in Worlds
    /\ UNCHANGED world

\* It is decided: from here on the world is the planned one.
Take ==
    /\ open
    /\ world' = planned
    /\ UNCHANGED <<planned, open>>

\* It is over, taken or not.
Close ==
    /\ open /\ open' = FALSE
    /\ UNCHANGED <<world, planned>>

Next == Open \/ Take \/ Close

Spec == Init /\ [][Next]_restore

Ends == open ~> ~open
===============================================================================
