----------------------------- MODULE AgentVersions -----------------------------
(***************************************************************************)
(* What ProcessInstall promises of the versions of one agent, abstracting  *)
(* from downloads, archives and directories: a version becomes installed   *)
(* in one step, stays installed unless the Envoy comes to doubt it, and    *)
(* only an installed version is ever selected as the current one.          *)
(***************************************************************************)
CONSTANTS
    Version,    \* the versions of the agent
    NoVersion,  \* no version is selected
    MayDoubt    \* an installed version may be taken for one that is not

VARIABLES
    installed,  \* the versions that count as installed
    doubted,    \* the versions that were taken for not installed
    selected    \* the version that is started next

Init == installed = {} /\ doubted = {} /\ selected = NoVersion

\* A version that is downloaded completely is no longer doubted.
Install(v) ==
    /\ installed' = installed \cup {v}
    /\ doubted' \in {doubted, doubted \ {v}}
    /\ UNCHANGED selected

\* An installed version is taken for one that is not, and may be lost.
Doubt(v) ==
    /\ MayDoubt
    /\ v \in installed
    /\ installed' = installed \ {v}
    /\ doubted' = doubted \cup {v}
    /\ UNCHANGED selected

Deselect ==
    /\ selected' = NoVersion
    /\ UNCHANGED <<installed, doubted>>

Select(v) ==
    /\ selected = NoVersion
    /\ v \in installed
    /\ selected' = v
    /\ UNCHANGED <<installed, doubted>>

Next == Deselect \/ \E v \in Version : Install(v) \/ Doubt(v) \/ Select(v)

Spec == Init /\ [][Next]_<<installed, doubted, selected>>

================================================================================
