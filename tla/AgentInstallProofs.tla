-------------------------- MODULE AgentInstallProofs ---------------------------
(***************************************************************************)
(* TLAPS proofs about AgentInstall, for every set of versions and all      *)
(* events: only a failed stat makes the link dangle, only an end of the    *)
(* Envoy and a failed removal leave an incomplete version behind, and      *)
(* ProcessInstall implements AgentVersions.                                *)
(***************************************************************************)
EXTENDS AgentInstall, TLAPS

\* Every step of ProcessInstall, and a restart of the Envoy, keeps the variables in
\* their types.
LEMMA TypeStep == IndInv /\ [Next]_vars => TypeOK'
  <1> SUFFICES ASSUME IndInv, [Next]_vars PROVE TypeOK'
    OBVIOUS
  <1> USE VersionAssumption
      DEF history, IndInv, TypeOK, Progress, Downloading, InProgress, Linking
  <1>1. CASE MakeDir
    BY <1>1 DEF MakeDir, Return
  <1>2. CASE Download
    BY <1>2 DEF Download
  <1>3. CASE MakeBin
    BY <1>3 DEF MakeBin
  <1>4. CASE OpenExe
    BY <1>4 DEF OpenExe
  <1>5. CASE CopyExe
    BY <1>5 DEF CopyExe
  <1>6. CASE EndOfArchive
    BY <1>6 DEF EndOfArchive
  <1>7. CASE BrokenArchive
    BY <1>7 DEF BrokenArchive
  <1>8. CASE RemoveDir
    BY <1>8 DEF RemoveDir, OneLess, Return
  <1>9. CASE PostInstall
    BY <1>9 DEF PostInstall
  <1>10. CASE CheckLink
    BY <1>10 DEF CheckLink, Return
  <1>11. CASE StopAgent
    BY <1>11 DEF StopAgent
  <1>12. CASE CreateLink
    BY <1>12 DEF CreateLink, Return
  <1>13. CASE EnsureRunning
    BY <1>13 DEF EnsureRunning, Return
  <1>14. CASE EnvoyEnds
    BY <1>14 DEF EnvoyEnds
  <1>15. CASE EnvoyStarts
    BY <1>15 DEF EnvoyStarts
  <1>16. ASSUME NEW v \in Version, ProcessInstall(v) PROVE TypeOK'
    BY <1>16 DEF ProcessInstall, Exists
  <1>17. CASE Ended \/ UNCHANGED vars
    BY <1>17 DEF Ended, vars
  <1>18. CASE RemoveFails
    BY <1>18 DEF RemoveFails, Return
  <1> QED
    BY <1>1, <1>2, <1>3, <1>4, <1>5, <1>6, <1>7, <1>8, <1>9, <1>10,
       <1>11, <1>12, <1>13, <1>14, <1>15, <1>16, <1>17, <1>18
       DEF Next, Step

\* Each step of ProcessInstall establishes what the next one relies on
\* (agents_router.go:117-150).
LEMMA ProgressStep == IndInv /\ [Next]_vars => Progress'
  <1> SUFFICES ASSUME IndInv, [Next]_vars PROVE Progress'
    OBVIOUS
  <1> USE VersionAssumption
      DEF history, IndInv, TypeOK, Progress, Downloading, InProgress, Linking, Exists,
          LinkedVersionExists
  <1>1. CASE MakeDir
    BY <1>1 DEF MakeDir, Return
  <1>2. CASE Download
    BY <1>2 DEF Download
  <1>3. CASE MakeBin
    BY <1>3 DEF MakeBin
  <1>4. CASE OpenExe
    BY <1>4 DEF OpenExe
  <1>5. CASE CopyExe
    BY <1>5 DEF CopyExe
  <1>6. CASE EndOfArchive
    BY <1>6 DEF EndOfArchive
  <1>7. CASE BrokenArchive
    BY <1>7 DEF BrokenArchive
  <1>8. CASE RemoveDir
    BY <1>8 DEF RemoveDir, OneLess, Return
  <1>9. CASE PostInstall
    BY <1>9 DEF PostInstall
  <1>10. CASE CheckLink
    BY <1>10 DEF CheckLink, Return
  <1>11. CASE StopAgent
    BY <1>11 DEF StopAgent
  <1>12. CASE CreateLink
    BY <1>12 DEF CreateLink, Return
  <1>13. CASE EnsureRunning
    BY <1>13 DEF EnsureRunning, Return
  <1>14. CASE EnvoyEnds
    BY <1>14 DEF EnvoyEnds
  <1>15. CASE EnvoyStarts
    BY <1>15 DEF EnvoyStarts
  <1>16. ASSUME NEW v \in Version, ProcessInstall(v) PROVE Progress'
    BY <1>16 DEF ProcessInstall, FailedInstallForgotten
  <1>17. CASE Ended \/ UNCHANGED vars
    BY <1>17 DEF Ended, vars
  <1>18. CASE RemoveFails
    BY <1>18 DEF RemoveFails, Return
  <1> QED
    BY <1>1, <1>2, <1>3, <1>4, <1>5, <1>6, <1>7, <1>8, <1>9, <1>10,
       <1>11, <1>12, <1>13, <1>14, <1>15, <1>16, <1>17, <1>18
       DEF Next, Step

\* Only a failed stat makes the code take an existing version for an absent one
\* (agents.go:161).
LEMMA OnlyAfterStatStep == IndInv /\ [Next]_vars => OnlyAfterStat'
  BY DEF IndInv, OnlyAfterStat, Next, Step, MakeDir, Download, MakeBin, OpenExe, CopyExe,
         EndOfArchive, BrokenArchive, RemoveDir, RemoveFails, PostInstall, CheckLink,
         StopAgent, CreateLink, EnsureRunning, EnvoyEnds, EnvoyStarts, Ended,
         ProcessInstall, history, vars

\* Only the directory of the version that is being downloaded is ever removed,
\* and the link does not name that version (agents_router.go:126), unless it was
\* taken for absent.
LEMMA LinkedVersionExistsStep == IndInv /\ [Next]_vars => LinkedVersionExists'
  <1> SUFFICES ASSUME IndInv, [Next]_vars PROVE LinkedVersionExists'
    OBVIOUS
  <1> USE VersionAssumption
      DEF history, IndInv, TypeOK, Progress, Downloading, InProgress, Linking, Exists,
          LinkedVersionExists
  <1>1. CASE MakeDir
    BY <1>1 DEF MakeDir, Return
  <1>2. CASE Download
    BY <1>2 DEF Download
  <1>3. CASE MakeBin
    BY <1>3 DEF MakeBin
  <1>4. CASE OpenExe
    BY <1>4 DEF OpenExe
  <1>5. CASE CopyExe
    BY <1>5 DEF CopyExe
  <1>6. CASE EndOfArchive
    BY <1>6 DEF EndOfArchive
  <1>7. CASE BrokenArchive
    BY <1>7 DEF BrokenArchive
  <1>8. CASE RemoveDir
    BY <1>8 DEF RemoveDir, OneLess, Return
  <1>9. CASE PostInstall
    BY <1>9 DEF PostInstall
  <1>10. CASE CheckLink
    BY <1>10 DEF CheckLink, Return
  <1>11. CASE StopAgent
    BY <1>11 DEF StopAgent
  <1>12. CASE CreateLink
    BY <1>12 DEF CreateLink, Return
  <1>13. CASE EnsureRunning
    BY <1>13 DEF EnsureRunning, Return
  <1>14. CASE EnvoyEnds
    BY <1>14 DEF EnvoyEnds
  <1>15. CASE EnvoyStarts
    BY <1>15 DEF EnvoyStarts
  <1>16. ASSUME NEW v \in Version, ProcessInstall(v) PROVE LinkedVersionExists'
    BY <1>16 DEF ProcessInstall, Exists
  <1>17. CASE Ended \/ UNCHANGED vars
    BY <1>17 DEF Ended, vars
  <1>18. CASE RemoveFails
    BY <1>18 DEF RemoveFails, Return
  <1> QED
    BY <1>1, <1>2, <1>3, <1>4, <1>5, <1>6, <1>7, <1>8, <1>9, <1>10,
       <1>11, <1>12, <1>13, <1>14, <1>15, <1>16, <1>17, <1>18
       DEF Next, Step

\* A download that fails removes what it left before the next instruction is
\* processed (agents_router.go:126).
LEMMA FailedInstallForgottenStep == IndInv /\ [Next]_vars => FailedInstallForgotten'
  <1> SUFFICES ASSUME IndInv, [Next]_vars PROVE FailedInstallForgotten'
    OBVIOUS
  <1> USE VersionAssumption
      DEF history, IndInv, TypeOK, Progress, Downloading, InProgress, Linking, Exists,
          FailedInstallForgotten
  <1>1. CASE MakeDir
    BY <1>1 DEF MakeDir, Return
  <1>2. CASE Download
    BY <1>2 DEF Download
  <1>3. CASE MakeBin
    BY <1>3 DEF MakeBin
  <1>4. CASE OpenExe
    BY <1>4 DEF OpenExe
  <1>5. CASE CopyExe
    BY <1>5 DEF CopyExe
  <1>6. CASE EndOfArchive
    BY <1>6 DEF EndOfArchive
  <1>7. CASE BrokenArchive
    BY <1>7 DEF BrokenArchive
  <1>8. CASE RemoveDir
    BY <1>8 DEF RemoveDir, OneLess, Return
  <1>9. CASE PostInstall
    BY <1>9 DEF PostInstall
  <1>10. CASE CheckLink
    BY <1>10 DEF CheckLink, Return
  <1>11. CASE StopAgent
    BY <1>11 DEF StopAgent
  <1>12. CASE CreateLink
    BY <1>12 DEF CreateLink, Return
  <1>13. CASE EnsureRunning
    BY <1>13 DEF EnsureRunning, Return
  <1>14. CASE EnvoyEnds
    BY <1>14 DEF EnvoyEnds
  <1>15. CASE EnvoyStarts
    BY <1>15 DEF EnvoyStarts
  <1>16. ASSUME NEW v \in Version, ProcessInstall(v) PROVE FailedInstallForgotten'
    BY <1>16 DEF ProcessInstall, Exists
  <1>17. CASE Ended \/ UNCHANGED vars
    BY <1>17 DEF Ended, vars
  <1>18. CASE RemoveFails
    BY <1>18 DEF RemoveFails, Return
  <1> QED
    BY <1>1, <1>2, <1>3, <1>4, <1>5, <1>6, <1>7, <1>8, <1>9, <1>10,
       <1>11, <1>12, <1>13, <1>14, <1>15, <1>16, <1>17, <1>18
       DEF Next, Step

\* The inductive invariant holds in every reachable state, restarts included.
THEOREM IndInvCorrect == Spec => []IndInv
  <1>1. Init => IndInv
    BY VersionAssumption
       DEF Init, IndInv, TypeOK, Progress, Downloading, InProgress, Linking,
           LinkedVersionExists, FailedInstallForgotten, OnlyAfterStat
  <1>2. IndInv /\ [Next]_vars => IndInv'
    BY TypeStep, ProgressStep, OnlyAfterStatStep, LinkedVersionExistsStep, FailedInstallForgottenStep
       DEF IndInv
  <1> QED
    BY <1>1, <1>2, PTL DEF Spec

\* The link CURRENT never dangles (agents_router.go:126), whatever fails and
\* whenever the Envoy ends, but for a version that fileExists could not look at
\* (agents.go:161).
THEOREM LinkedVersionExistsCorrect == Spec => []LinkedVersionExists
  <1>1. IndInv => LinkedVersionExists
    BY DEF IndInv
  <1> QED
    BY <1>1, IndInvCorrect, PTL

\* Without a failed stat the link never dangles, although downloads, archives and
\* removals fail and the Envoy ends.
THEOREM LinkNeverDangles ==
    ASSUME "stat" \notin Events PROVE Spec => [](current # NoVersion => Exists(current))
  <1>1. IndInv => (current # NoVersion => Exists(current))
    BY DEF IndInv, LinkedVersionExists, OnlyAfterStat
  <1> QED
    BY <1>1, IndInvCorrect, PTL

\* An incomplete version is left behind only by an end of the Envoy before it was
\* removed or by a removal that failed (agents_router.go:117 and 126).
THEOREM FailedInstallForgottenCorrect == Spec => []FailedInstallForgotten
  <1>1. IndInv => FailedInstallForgotten
    BY DEF IndInv
  <1> QED
    BY <1>1, IndInvCorrect, PTL

\* The agent is started from a complete executable (agents_router_test.go:147) as
\* long as the Envoy is never restarted and removals succeed, whatever else fails.
THEOREM LinkedExecutableCorrect ==
    ASSUME "restart" \notin Events, "remove" \notin Events
    PROVE  Spec => []LinkedExecutable
  <1> DEFINE Undone == leftover = {}
  <1>1. Init => Undone
    BY DEF Init
  <1>2. Undone /\ [Next]_vars => Undone'
    BY DEF Next, Step, MakeDir, Download, MakeBin, OpenExe, CopyExe, EndOfArchive,
           BrokenArchive, RemoveDir, RemoveFails, PostInstall, CheckLink, StopAgent,
           CreateLink, EnsureRunning, EnvoyEnds, EnvoyStarts, Ended, ProcessInstall,
           history, vars
  <1>3. IndInv /\ Undone => LinkedExecutable
    BY DEF IndInv, Progress, InProgress, Downloading, Linking, Exists,
           FailedInstallForgotten, LinkedExecutable
  <1> HIDE DEF Undone
  <1> QED
    BY <1>1, <1>2, <1>3, IndInvCorrect, PTL DEF Spec

--------------------------------------------------------------------------------
\* What the abstract specification regards as installed.
Present == {v \in Version : Exists(v) /\ ~(version = v /\ InProgress)}

\* Every step is an Install, Doubt, Deselect or Select of the abstract versions,
\* or changes neither the versions nor the link.
LEMMA VersionsStep ==
    ASSUME IndInv, [Next]_vars PROVE [Versions!Next]_<<Present, misread, current>>
  <1> USE VersionAssumption
      DEF history, IndInv, TypeOK, Progress, Downloading, InProgress, Linking, Present, Exists
  <1>1. ASSUME Present' = Present, misread' = misread, current' = current
        PROVE  [Versions!Next]_<<Present, misread, current>>
    BY <1>1
  <1>2. ASSUME NEW v \in Version, Present' = Present \cup {v},
               misread' \in {misread, misread \ {v}}, current' = current
        PROVE  [Versions!Next]_<<Present, misread, current>>
    BY <1>2 DEF Versions!Next, Versions!Install
  <1>3. CASE Download
    <2>1. Present' = Present
      BY <1>3 DEF Download
    <2>2. misread' = misread /\ current' = current
      BY <1>3 DEF Download
    <2> QED
      BY <1>1, <2>1, <2>2
  <1>4. CASE MakeBin
    <2>1. Present' = Present
      BY <1>4 DEF MakeBin
    <2>2. misread' = misread /\ current' = current
      BY <1>4 DEF MakeBin
    <2> QED
      BY <1>1, <2>1, <2>2
  <1>5. CASE OpenExe
    <2>1. Present' = Present
      BY <1>5 DEF OpenExe
    <2>2. misread' = misread /\ current' = current
      BY <1>5 DEF OpenExe
    <2> QED
      BY <1>1, <2>1, <2>2
  <1>6. CASE CopyExe
    <2>1. Present' = Present
      BY <1>6 DEF CopyExe
    <2>2. misread' = misread /\ current' = current
      BY <1>6 DEF CopyExe
    <2> QED
      BY <1>1, <2>1, <2>2
  <1>7. CASE BrokenArchive
    <2>1. Present' = Present
      BY <1>7 DEF BrokenArchive
    <2>2. misread' = misread /\ current' = current
      BY <1>7 DEF BrokenArchive
    <2> QED
      BY <1>1, <2>1, <2>2
  <1>8. CASE RemoveDir
    <2>1. Present' = Present
      BY <1>8 DEF RemoveDir, OneLess, Return
    <2>2. misread' = misread /\ current' = current
      BY <1>8 DEF RemoveDir
    <2> QED
      BY <1>1, <2>1, <2>2
  <1>9. CASE StopAgent
    <2>1. Present' = Present
      BY <1>9 DEF StopAgent
    <2>2. misread' = misread /\ current' = current
      BY <1>9 DEF StopAgent
    <2> QED
      BY <1>1, <2>1, <2>2
  <1>10. CASE PostInstall
    <2>1. Present' = Present
      BY <1>10 DEF PostInstall
    <2>2. misread' = misread /\ current' = current
      BY <1>10 DEF PostInstall
    <2> QED
      BY <1>1, <2>1, <2>2
  <1>11. CASE EnsureRunning
    <2>1. Present' = Present
      BY <1>11 DEF EnsureRunning, Return
    <2>2. misread' = misread /\ current' = current
      BY <1>11 DEF EnsureRunning
    <2> QED
      BY <1>1, <2>1, <2>2
  <1>12. CASE EnvoyStarts
    <2>1. Present' = Present
      BY <1>12 DEF EnvoyStarts
    <2>2. misread' = misread /\ current' = current
      BY <1>12 DEF EnvoyStarts
    <2> QED
      BY <1>1, <2>1, <2>2
  <1>13. CASE MakeDir
    <2>1. current' = current /\ misread' \in {misread, misread \ {version}}
      BY <1>13 DEF MakeDir
    <2>2. \/ Present' = Present /\ misread' = misread
          \/ version \in Version /\ Present' = Present \cup {version}
      BY <1>13 DEF MakeDir, Return
    <2> QED
      BY <1>1, <1>2, <2>1, <2>2
  <1>14. CASE RemoveFails
    <2>1. current' = current /\ misread' \in {misread, misread \ {version}}
      BY <1>14 DEF RemoveFails
    <2>2. \/ Present' = Present /\ misread' = misread
          \/ version \in Version /\ Present' = Present \cup {version}
      BY <1>14 DEF RemoveFails, Return
    <2> QED
      BY <1>1, <1>2, <2>1, <2>2
  <1>15. CASE EndOfArchive
    <2>1. current' = current /\ misread' \in {misread, misread \ {version}}
      BY <1>15 DEF EndOfArchive
    <2>2. \/ Present' = Present /\ misread' = misread
          \/ version \in Version /\ Present' = Present \cup {version}
      BY <1>15 DEF EndOfArchive
    <2> QED
      BY <1>1, <1>2, <2>1, <2>2
  <1>16. CASE EnvoyEnds
    <2>1. current' = current /\ misread' \in {misread, misread \ {version}}
      BY <1>16 DEF EnvoyEnds
    <2>2. \/ Present' = Present /\ misread' = misread
          \/ version \in Version /\ Present' = Present \cup {version}
      BY <1>16 DEF EnvoyEnds
    <2> QED
      BY <1>1, <1>2, <2>1, <2>2
  <1>17. ASSUME NEW v \in Version, ProcessInstall(v)
        PROVE  [Versions!Next]_<<Present, misread, current>>
    <2>1. current' = current
      BY <1>17 DEF ProcessInstall
    <2>2. CASE misread' = misread /\ (pc' = "link" \/ ~Exists(v))
      <3>1. Present' = Present
        BY <1>17, <2>2 DEF ProcessInstall
      <3> QED
        BY <1>1, <2>1, <2>2, <3>1
    <2>3. CASE Exists(v) /\ "stat" \in Events /\ misread' = misread \cup {v} /\ pc' = "mkdir"
      <3>1. v \in Present /\ Present' = Present \ {v}
        BY <1>17, <2>3 DEF ProcessInstall
      <3> QED
        BY <2>1, <2>3, <3>1 DEF Versions!Next, Versions!Doubt
    <2> QED
      BY <1>17, <2>2, <2>3 DEF ProcessInstall
  <1>18. CASE CheckLink
    <2>1. Present' = Present /\ misread' = misread /\ current' \in {current, NoVersion}
      BY <1>18 DEF CheckLink, Return
    <2> QED
      BY <1>1, <2>1 DEF Versions!Next, Versions!Deselect
  <1>19. CASE CreateLink
    <2>1. Present' = Present /\ current = NoVersion /\ version \in Present
      BY <1>19 DEF CreateLink, Return
    <2>2. misread' = misread /\ current' \in {current, version}
      BY <1>19 DEF CreateLink
    <2>3. CASE current' = version
      BY <2>1, <2>2, <2>3 DEF Versions!Next, Versions!Select
    <2> QED
      BY <1>1, <2>1, <2>2, <2>3
  <1>20. CASE Ended \/ UNCHANGED vars
    <2>1. Present' = Present /\ misread' = misread /\ current' = current
      BY <1>20 DEF Ended, vars
    <2> QED
      BY <1>1, <2>1
  <1> QED
    BY <1>3, <1>4, <1>5, <1>6, <1>7, <1>8, <1>9, <1>10, <1>11, <1>12,
       <1>13, <1>14, <1>15, <1>16, <1>17, <1>18, <1>19, <1>20
       DEF Next, Step

\* ProcessInstall implements AgentVersions, whatever fails and whenever the Envoy
\* ends: what the code takes for an installed version stays one unless a look at it
\* fails, and only such a version is ever linked (agents_router.go:101-150).
THEOREM ImplementsVersions == Spec => VersionsSpec
  <1>1. Init => Versions!Init
    BY DEF Init, Versions!Init, Exists
  <1>2. IndInv /\ [Next]_vars => [Versions!Next]_<<Present, misread, current>>
    BY VersionsStep
  <1> QED
    BY <1>1, <1>2, IndInvCorrect, PTL DEF Spec, VersionsSpec, Versions!Spec, Present

================================================================================
