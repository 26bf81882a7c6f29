--------------------------- MODULE MCAgentStartup ---------------------------
(* Two Launchers with different installations of one data root, for TLC.   *)
EXTENDS AgentStartup, TLC

CONSTANTS desktop, console, c1, c2, c3, old, new

TwoLaunchers == {desktop, console}
ThreeCallers == {c1, c2, c3}
TwoBuilds == {old, new}
HomeOf == [c \in ThreeCallers |-> IF c = c1 THEN desktop ELSE console]
BuildOf == [l \in TwoLaunchers |-> IF l = desktop THEN new ELSE old]
ConsoleCallers == Permutations({c2, c3})
=============================================================================
