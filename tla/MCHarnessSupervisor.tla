-------------------------- MODULE MCHarnessSupervisor --------------------------
(***************************************************************************)
(* Environments for model checking HarnessSupervisor: which kinds of       *)
(* mishap a run may inject.                                                *)
(***************************************************************************)
EXTENDS HarnessSupervisor

\* Service gaps, dropped requests and failed syscalls; the Agent survives.
AgentSurvives ==
    {"cancel", "gap", "persist", "clear", "rotate", "kill", "drain", "terminate",
     "poll", "spawn", "prepare", "context"}

\* The same and the death of the Agent.
AgentMayDie == AgentSurvives \cup {"crash"}

\* Every owner can carry out what it has to: nothing is left half done.
OwnersSucceed == {"crash", "cancel", "gap", "kill", "poll", "rotate"}

================================================================================
