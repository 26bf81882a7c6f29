------------------------- MODULE MCCheckpointRestore --------------------------
(***************************************************************************)
(* Instances of CheckpointRestore.                                         *)
(***************************************************************************)
EXTENDS CheckpointRestore

CONSTANTS r1, r2, web, cli

TwoReleases == {r1, r2}
TwoProfiles == {web, cli}

\* Releases and profiles are interchangeable: the first selection may be fixed.
MCInit == Init /\ pointers.current = r1 /\ profile = web

MCSpec == MCInit /\ [][Next]_vars
MCFairSpec == MCSpec /\ Fairness
===============================================================================
