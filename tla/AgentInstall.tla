------------------------------ MODULE AgentInstall ------------------------------
(***************************************************************************)
(* ProcessInstall of the router for one agent: the download of a version   *)
(* into its directory, the link CURRENT and what is left of both on disk   *)
(* when a step fails or the Envoy ends in between. The disk outlives the   *)
(* Envoy, which its service unit always starts again.                      *)
(*                                                                         *)
(* The instructions of all connections are processed one at a time         *)
(* (mutetx), so that there is one control point. What Stop and             *)
(* EnsureRunningState do to the agent is the subject of AgentRunner.       *)
(***************************************************************************)
CONSTANTS
    Version,    \* the versions of the agent
    NoVersion,  \* no version
    Events      \* what may go wrong: see InstallEventsAssumption

ASSUME VersionAssumption == NoVersion \notin Version

(***************************************************************************)
(* fault: a download, the creation or the writing of a file or the search  *)
(* for the executable fails; truncated: the archive ends in its middle;    *)
(* stat: the look at an existing directory fails; remove: a directory is   *)
(* not removed, or not all of it; restart: the Envoy ends, at any point,   *)
(* and is started again.                                                   *)
(***************************************************************************)
ASSUME InstallEventsAssumption ==
    Events \subseteq {"fault", "truncated", "stat", "remove", "restart"}

VARIABLES
    pc,         \* control point of ProcessInstall, or "panicked", or "down"
    version,    \* the version of the instruction
    processed,  \* processedExe of downloadExtractTarGz
    dir,        \* what is on disk of each version
    current,    \* the target of the link CURRENT
    misread,    \* history: the versions taken for absent after a failed stat
    leftover    \* history: the versions whose failed download was not undone

history == <<misread, leftover>>
vars == <<pc, version, processed, dir, current, history>>

\* outputPath is there. What fileExists makes of it is in ProcessInstall.
Exists(v) == dir[v] # "absent"

\* The directory of version is being filled, or was when the Envoy panicked.
Downloading == {"mkdir", "download", "bin", "extract", "copy", "cleanup"}
InProgress == pc \in Downloading \cup {"panicked"}

Fault == "fault" \in Events

\* Reading the archive or writing the executable may fail.
Torn == Events \cap {"fault", "truncated"} # {}

Init ==
    /\ pc = "idle"
    /\ version = NoVersion
    /\ processed = FALSE
    /\ dir = [v \in Version |-> "absent"]
    /\ current = NoVersion
    /\ misread = {}
    /\ leftover = {}

\* ProcessInstall returns.
Return == pc' = "idle" /\ version' = NoVersion

--------------------------------------------------------------------------------
\* Slip: the version is downloaded again although it exists.
MutantProcessInstall(v) ==
    /\ pc = "idle"
    /\ version' = v
    /\ pc' = "mkdir"
    /\ UNCHANGED <<processed, dir, current, history>>

\* An instruction to install v. An existing directory is not downloaded again,
\* unless fileExists cannot look at it: it takes every error for its absence.
ProcessInstall(v) ==
    /\ pc = "idle"
    /\ version' = v
    /\ \/ pc' = "link" /\ Exists(v) /\ UNCHANGED misread
       \/ pc' = "mkdir" /\ ~Exists(v) /\ UNCHANGED misread
       \/ pc' = "mkdir" /\ Exists(v) /\ "stat" \in Events /\ misread' = misread \cup {v}
    /\ UNCHANGED <<processed, dir, current, leftover>>

\* os.MkdirAll, which accepts a directory that is there.
MakeDir ==
    /\ pc = "mkdir"
    /\ \/ /\ dir' = [dir EXCEPT ![version] = IF Exists(version) THEN @ ELSE "made"]
          /\ pc' = "download"
          /\ UNCHANGED version
       \/ Fault /\ Return /\ UNCHANGED dir
    /\ UNCHANGED <<processed, current, history>>

\* http.Get and the start of the gzip stream.
Download ==
    /\ pc = "download"
    /\ processed' = FALSE
    /\ pc' \in {"bin"} \cup (IF Torn THEN {"cleanup"} ELSE {})
    /\ UNCHANGED <<version, dir, current, history>>

\* os.Mkdir fails when there is a bin directory already.
MakeBin ==
    /\ pc = "bin"
    /\ \/ /\ dir[version] = "made"
          /\ dir' = [dir EXCEPT ![version] = "bin"]
          /\ pc' = "extract"
       \/ /\ Fault \/ dir[version] # "made"
          /\ pc' = "cleanup"
          /\ UNCHANGED dir
    /\ UNCHANGED <<version, processed, current, history>>

\* The archive's entry for the executable: the file is created, unless opening
\* it fails, which only skips the entry.
OpenExe ==
    /\ pc = "extract"
    /\ dir[version] = "bin"
    /\ dir' = [dir EXCEPT ![version] = "partial"]
    /\ pc' = "copy"
    /\ UNCHANGED <<version, processed, current, history>>

\* io.Copy writes the file; when that fails only the flag tells.
CopyExe ==
    /\ pc = "copy"
    /\ \/ dir' = [dir EXCEPT ![version] = "complete"] /\ processed' = TRUE
       \/ Torn /\ UNCHANGED <<dir, processed>>
    /\ pc' = "extract"
    /\ UNCHANGED <<version, current, history>>

\* Next returns io.EOF. The executable may be missing from the archive or could
\* not be written.
EndOfArchive ==
    /\ pc = "extract"
    /\ dir[version] # "bin" \/ Fault
    /\ IF processed
       THEN /\ pc' = "postinstall"
            /\ misread' = misread \ {version}
            /\ leftover' = leftover \ {version}
       ELSE pc' = "cleanup" /\ UNCHANGED history
    /\ UNCHANGED <<version, processed, dir, current>>

\* Next returns another error, which is not looked at, and no header: the
\* access to header.Name panics.
BrokenArchive ==
    /\ pc = "extract"
    /\ "truncated" \in Events
    /\ pc' = "panicked"
    /\ UNCHANGED <<version, processed, dir, current, history>>

\* What is left of a directory when RemoveAll has removed one more entry: the
\* executable, then bin, then the directory itself.
OneLess(d) == CASE d \in {"partial", "complete"} -> "bin"
                [] d = "bin"                      -> "made"
                [] OTHER                          -> "absent"

\* Slip: os.Remove, which does not remove what is not empty.
MutantRemoveDir ==
    /\ pc = "cleanup"
    /\ dir' = [dir EXCEPT ![version] = IF @ = "made" THEN "absent" ELSE @]
    /\ Return
    /\ UNCHANGED <<processed, current, history>>

\* Slip: no return after the cleanup.
MutantGoOn ==
    /\ pc = "cleanup"
    /\ dir' = [dir EXCEPT ![version] = OneLess(@)]
    /\ pc' = IF dir[version] = "made" THEN "link" ELSE pc
    /\ UNCHANGED <<version, processed, current, history>>

\* os.RemoveAll(outputPath) after a failed download, entry by entry.
RemoveDir ==
    /\ pc = "cleanup"
    /\ dir' = [dir EXCEPT ![version] = OneLess(@)]
    /\ IF dir[version] = "made"
       THEN Return /\ leftover' = leftover \ {version}
       ELSE UNCHANGED <<pc, version, leftover>>
    /\ UNCHANGED <<processed, current, misread>>

\* RemoveAll gives up at an entry; its error is ignored.
RemoveFails ==
    /\ pc = "cleanup"
    /\ "remove" \in Events
    /\ Return
    /\ leftover' = leftover \cup {version}
    /\ UNCHANGED <<processed, dir, current, misread>>

\* None of the runners makes PostInstall fail.
PostInstall ==
    /\ pc = "postinstall"
    /\ pc' = "link"
    /\ UNCHANGED <<version, processed, dir, current, history>>

--------------------------------------------------------------------------------
(* ensureCurrentSymlink. *)

\* The link is looked at and removed if it names another version.
CheckLink ==
    /\ pc = "link"
    /\ \/ /\ current = version
          /\ pc' = "ensure"
          /\ UNCHANGED <<version, current>>
       \/ /\ current # version
          /\ current' = NoVersion
          /\ pc' = "stop"
          /\ UNCHANGED version
       \/ Fault /\ Return /\ UNCHANGED current
    /\ UNCHANGED <<processed, dir, history>>

\* The runner's Stop, which may take the whole terminationTimeout.
StopAgent ==
    /\ pc = "stop"
    /\ pc' = "symlink"
    /\ UNCHANGED <<version, processed, dir, current, history>>

CreateLink ==
    /\ pc = "symlink"
    /\ \/ current' = version /\ pc' = "ensure" /\ UNCHANGED version
       \/ Fault /\ Return /\ UNCHANGED current
    /\ UNCHANGED <<processed, dir, history>>

\* EnsureRunningState, the last call of ProcessInstall.
EnsureRunning ==
    /\ pc = "ensure"
    /\ Return
    /\ UNCHANGED <<processed, dir, current, history>>

\* The Envoy ends, whatever it does ...
EnvoyEnds ==
    /\ "restart" \in Events
    /\ pc # "down"
    /\ pc' = "down"
    /\ version' = NoVersion
    /\ processed' = FALSE
    /\ leftover' = leftover \cup (IF InProgress THEN {version} ELSE {})
    /\ UNCHANGED <<dir, current, misread>>

\* ... and its service unit starts it again.
EnvoyStarts ==
    /\ pc = "down"
    /\ pc' = "idle"
    /\ UNCHANGED <<version, processed, dir, current, history>>

\* A panicked Envoy that nobody starts again.
Ended == pc = "panicked" /\ UNCHANGED vars

Step ==
    \/ MakeDir \/ Download \/ MakeBin
    \/ OpenExe \/ CopyExe \/ EndOfArchive \/ BrokenArchive
    \/ RemoveDir \/ RemoveFails \/ PostInstall
    \/ CheckLink \/ StopAgent \/ CreateLink \/ EnsureRunning

Next == Step \/ EnvoyEnds \/ EnvoyStarts \/ Ended \/ \E v \in Version : ProcessInstall(v)

Spec == Init /\ [][Next]_vars

--------------------------------------------------------------------------------
(* Properties. *)

TypeOK ==
    /\ pc \in Downloading \cup {"idle", "postinstall", "link", "stop", "symlink",
                                "ensure", "panicked", "down"}
    /\ version \in Version \cup {NoVersion}
    /\ processed \in BOOLEAN
    /\ dir \in [Version -> {"absent", "made", "bin", "partial", "complete"}]
    /\ current \in Version \cup {NoVersion}
    /\ misread \subseteq Version /\ leftover \subseteq Version

\* The link CURRENT does not dangle, whatever else fails and whenever the Envoy
\* ends: agents_router.go:126 removes only a directory that was not there before,
\* or that fileExists could not look at (agents.go:161), which the Envoy takes
\* for one that is not there until the version is downloaded completely.
LinkedVersionExists ==
    current # NoVersion => Exists(current) \/ current \in misread

\* A download that failed leaves nothing behind that would pass for the version
\* when it is to be installed again (agents_router.go:117 and 126); only the
\* end of the Envoy before all of it is removed, and a removal that fails, do.
FailedInstallForgotten ==
    \A v \in Version \ leftover :
        dir[v] \in {"absent", "complete"} \/ (version = v /\ InProgress)

\* agents_router_test.go:147, after ProcessInstall "CURRENT/bin/telegraf" is a
\* file, which the agent is then started from.
LinkedExecutable == pc = "ensure" => dir[current] = "complete"

\* agents_router.go:127, "failed to download and extract agent": an archive that
\* cannot be extracted is reported and does not end the Envoy.
NoPanic == pc # "panicked"

\* ProcessInstall implements the abstract versions. A version is installed when
\* its directory exists and is not being filled, which is what the code goes by
\* (agents_router.go:117), and doubted when a look at it failed.
Versions == INSTANCE AgentVersions
    WITH installed <- {v \in Version : Exists(v) /\ ~(version = v /\ InProgress)},
         doubted   <- misread,
         selected  <- current,
         MayDoubt  <- "stat" \in Events

VersionsSpec == Versions!Spec

--------------------------------------------------------------------------------
(***************************************************************************)
(* The inductive invariant behind LinkedVersionExists,                     *)
(* FailedInstallForgotten and the refinement.                              *)
(***************************************************************************)

\* Control points after the version was found or made.
Linking == {"postinstall", "link", "stop", "symlink", "ensure"}

\* What ProcessInstall relies on at each of its control points.
Progress ==
    /\ pc \in Linking => version \in Version /\ Exists(version)
    /\ InProgress => /\ version \in Version
                     /\ current # version \/ version \in misread
    /\ pc \in {"idle", "down"} => version = NoVersion
    /\ pc = "mkdir" => /\ dir[version] = "absent" \/ version \in misread
                       /\ dir[version] \in {"absent", "complete"} \/ version \in leftover
    /\ pc \in {"download", "bin", "cleanup"} => Exists(version)
    /\ pc \in {"download", "bin"} => dir[version] = "made" \/ version \in misread
    /\ pc = "copy" => dir[version] = "partial"
    /\ pc = "extract" => /\ dir[version] \in {"bin", "partial", "complete"}
                         /\ processed = (dir[version] = "complete")
    /\ pc \in {"bin", "copy"} => ~processed
    /\ pc \in {"stop", "symlink"} => current = NoVersion
    /\ pc = "ensure" => current = version

\* The directory of a version is misread only after a failed stat.
OnlyAfterStat == "stat" \notin Events => misread = {}

IndInv ==
    /\ TypeOK
    /\ Progress
    /\ OnlyAfterStat
    /\ LinkedVersionExists
    /\ FailedInstallForgotten

================================================================================
