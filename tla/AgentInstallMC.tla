---------------------------- MODULE AgentInstallMC -----------------------------
(***************************************************************************)
(* Small instances of AgentInstall: the version that is linked, the one    *)
(* that is to replace it and one that failed before.                       *)
(***************************************************************************)
EXTENDS AgentInstall, TLC

CONSTANTS v1, v2, v3, none

TwoVersions   == {v1, v2}
ThreeVersions == {v1, v2, v3}

Symmetry == Permutations(Version)

================================================================================
