---------------------------- MODULE AgentConfigsMC -----------------------------
(***************************************************************************)
(* Small instances of AgentConfigs: a process of the agent beside the one  *)
(* that is to replace it, and a restart beside an instruction.             *)
(***************************************************************************)
EXTENDS AgentConfigs, TLC

CONSTANTS i1, i2, p1, p2, t1, instr, router, none

TwoIds       == {i1, i2}
TwoProcesses == {p1, p2}
OneTimer     == {t1}

\* Ids and processes are interchangeable.
Symmetry == Permutations(Id) \cup Permutations(Proc)

================================================================================
