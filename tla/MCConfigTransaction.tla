------------------------- MODULE MCConfigTransaction -------------------------
(* The configuration pair for TLC: two or three documents.                 *)
EXTENDS ConfigTransaction

CONSTANTS d1, d2, d3

TwoDocs == {d1, d2}
ThreeDocs == {d1, d2, d3}
AgentOnly == {"agent"}
AgentAndLauncher == {"agent", "launcher"}
=============================================================================
