-------------------------- MODULE MCColdPublication --------------------------
(* The cold operations of the Agent for TLC.                               *)
EXTENDS ColdPublication

AllKinds == {"switch", "import", "select"}
Selections == {"select"}
Imports == {"import"}
=============================================================================
