----------------------------- MODULE AgentConfigs -----------------------------
(***************************************************************************)
(* The configurations of one agent, over any number of lives of the Envoy: *)
(* ProcessConfig of its runner, operation by operation, the purge by the   *)
(* router's goroutine, EnsureRunningState step by step, the agent that     *)
(* reads what is stored, and the addresses of the ingestors that agents    *)
(* are told to dial. Telegraf's configurations are a map that a config     *)
(* server hands out; those of the other agents are files.                  *)
(*                                                                         *)
(* Instructions hold mutetx, so that one goroutine (Instr) stands for all  *)
(* of them. Neither the router's goroutine nor the restarts of agents that *)
(* ended (Timers) take it. How a process is signalled and waited for is    *)
(* the matter of AgentRunner; here a Stop is its call and its return, and  *)
(* a start the execution, the wait for the agent's output and the record.  *)
(* Processes that outlive their Envoy are not followed.                    *)
(***************************************************************************)
CONSTANTS
    Kinds,      \* the runners to consider
    Id,         \* the ids of the configurations
    Sent,       \* the contents that are sent: see SentAssumption
    Proc,       \* bound: processes of the agent at the same time
    NoProc,     \* no process
    Timers,     \* bound: restarts that are pending or under way
    Instr,      \* the goroutine that processes an instruction
    Router      \* the goroutine of the router

ASSUME KindsAssumption ==
    Kinds \subseteq {"telegraf", "filebeat", "packages", "oracle"}

\* Contents of operations: two that the runner accepts, of different lengths,
\* one that it cannot convert, and the JSON value null. What is stored is named
\* after the content that it was converted from.
ASSUME SentAssumption == Sent \subseteq {"short", "long", "bad", "null"}

ASSUME ConfigNamesAssumption ==
    /\ NoProc \notin Proc
    /\ Instr \notin Timers /\ Router \notin Timers /\ Instr # Router

VARIABLES
    kind,       \* which SpecificAgentRunner
    envoy,      \* the Envoy: "down", "panicked", being set up, or "up"
    listening,  \* the ingestor that the agent reports to is bound
    main,       \* the address in the agent's main configuration
    dir,        \* the configs directory exists
    stored,     \* what is stored for each id
    old,        \* the ids whose configuration an earlier Envoy stored
    touched,    \* the ids of the operations that the instruction has applied
    todo,       \* the files that the router's RemoveAll still has to remove
    pc,         \* control point of each goroutine
    cur,        \* the process that a goroutine is starting or stopping
    proc,       \* processes: "none", "starting", "watched" or "orphan"
    dials,      \* the address that a process was given
    running,    \* the process of the context "running", while it runs
    reload,     \* it is still to read the configurations, or to read them again
    reading,    \* it is reading them
    behind,     \* history: the ids that changed since it began to read them
    missed,     \* history: those of which it is never told
    overtaken   \* history: the ids that changed while a goroutine was starting it

setup   == <<envoy, listening, main>>
configs == <<dir, stored, old>>
threads == <<pc, cur>>
procs   == <<proc, dials, running>>
views   == <<reload, reading, behind, missed>>
vars    == <<kind, setup, configs, touched, todo, threads, procs, views, overtaken>>

Threads == Timers \cup {Instr, Router}

\* Contents of files: also the end of a long one behind a short one, and what a
\* failed write left.
Content == {"short", "long", "bad", "null", "mixed", "torn"}

\* Control points. After the call of Stop a goroutine waits in it, and goes on:
\* "restart" with a start, "halt" not at all, "relink" with EnsureRunningState,
\* and "detach" with the purge.
StopCall == {"restart", "halt", "relink", "detach"}
InStop(label) == CASE label = "restart" -> "restarting"
                   [] label = "halt"    -> "halting"
                   [] label = "relink"  -> "relinking"
                   [] OTHER             -> "detaching"
AfterStop(label) == CASE label = "restarting" -> "start"
                      [] label = "halting"    -> "idle"
                      [] label = "relinking"  -> "ensure"
                      [] OTHER                -> "purge"
Stopping == {"restarting", "halting", "relinking", "detaching"}
Starting == {"await", "assign"}

Telegraf == kind = "telegraf"

\* Runners that give up at the first operation that fails, and that open files
\* without O_TRUNC.
Strict == kind \in {"packages", "oracle"}

\* Agents that do not find out by themselves that a configuration has changed.
Told == kind # "filebeat"

Up == envoy = "up"

Stored == {id \in Id : stored[id] # "none"}

\* GetListenerAddress
Address == IF listening THEN "current" ELSE "none"

\* hasConfigsAndExeReady of filebeat and packages, as to the configurations.
Ready == kind \in {"filebeat", "packages"} => Stored # {}

\* Stop of a context has been called and has not returned.
BeingStopped(p) == \E t \in Threads : cur[t] = p /\ pc[t] \in Stopping

\* The number of p may be given to a new process.
Fresh(p) == proc[p] = "none" /\ \A t \in Threads : cur[t] # p

\* Goroutine t goes on at the given control point, working on p.
Goto(t, label, p) ==
    /\ pc' = [pc EXCEPT ![t] = label]
    /\ cur' = [cur EXCEPT ![t] = p]

\* The router's goroutine has not set its ctx yet.
AtStart == [t \in Threads |-> IF t = Router THEN "new" ELSE "idle"]

Init ==
    /\ kind \in Kinds
    /\ envoy = "down"
    /\ listening = FALSE
    /\ main = "absent"
    /\ dir = FALSE
    /\ stored = [id \in Id |-> "none"]
    /\ old = {}
    /\ touched = {} /\ todo = {}
    /\ pc = AtStart
    /\ cur = [t \in Threads |-> NoProc]
    /\ proc = [p \in Proc |-> "none"]
    /\ dials = [p \in Proc |-> "none"]
    /\ running = NoProc
    /\ reload = FALSE /\ reading = FALSE
    /\ behind = {} /\ missed = {}
    /\ overtaken = [t \in Threads |-> {}]

--------------------------------------------------------------------------------
(* The beginning and the end of the Envoy. *)

\* Every ingestor is bound, unless it is disabled.
Bind ==
    /\ envoy \in {"down", "panicked"}
    /\ envoy' = "bound"
    /\ listening' \in BOOLEAN
    /\ UNCHANGED <<kind, main, configs, touched, todo, threads, procs, views, overtaken>>

\* Slip: the runners are loaded before the ingestors are bound.
MutantLoad ==
    /\ envoy = "bound"
    /\ envoy' = "loaded"
    /\ main' = IF Telegraf THEN "none" ELSE main
    /\ UNCHANGED <<kind, listening, configs, touched, todo, threads, procs, views, overtaken>>

\* The runner's Load; telegraf's makes its main configuration.
Load ==
    /\ envoy = "bound"
    /\ envoy' = "loaded"
    /\ main' = IF Telegraf THEN Address ELSE main
    /\ UNCHANGED <<kind, listening, configs, touched, todo, threads, procs, views, overtaken>>

\* Slip: an error of the purge at startup is ignored.
MutantStartupPurge ==
    /\ envoy = "loaded"
    /\ envoy' = "up"
    /\ \E keep \in SUBSET Stored :
          /\ stored' = [id \in Id |-> IF id \in keep THEN stored[id] ELSE "none"]
          /\ old' = old \cap keep
          /\ dir' = (keep # {})
    /\ UNCHANGED <<kind, listening, main, touched, todo, threads, procs, views, overtaken>>

\* NewAgentsRunner purges the configs; when that fails the Envoy ends.
StartupPurge ==
    /\ envoy = "loaded"
    /\ \E keep \in SUBSET Stored :
          /\ stored' = [id \in Id |-> IF id \in keep THEN stored[id] ELSE "none"]
          /\ old' = old \cap keep
          /\ dir' = (keep # {})
          /\ envoy' = IF keep = {} THEN "up" ELSE "down"
    /\ UNCHANGED <<kind, listening, main, touched, todo, threads, procs, views, overtaken>>

\* The Envoy ends: only files survive. The next one may listen elsewhere, since
\* the port of an ingestor may be left to the operating system.
Ends(how) ==
    /\ envoy' = how
    /\ listening' = FALSE
    /\ main' = IF kind # "filebeat" THEN "absent"
               ELSE IF main = "current" THEN "stale" ELSE main
    /\ stored' = IF Telegraf THEN [id \in Id |-> "none"] ELSE stored
    /\ old' = IF Telegraf THEN {} ELSE Stored
    /\ touched' = {} /\ todo' = {}
    /\ pc' = AtStart
    /\ cur' = [t \in Threads |-> NoProc]
    /\ proc' = [p \in Proc |-> "none"]
    /\ dials' = [p \in Proc |-> "none"]
    /\ running' = NoProc
    /\ reload' = FALSE /\ reading' = FALSE
    /\ behind' = {} /\ missed' = {}
    /\ overtaken' = [t \in Threads |-> {}]
    /\ UNCHANGED <<kind, dir>>

EnvoyEnds == envoy \notin {"down", "panicked"} /\ Ends("down")

--------------------------------------------------------------------------------
(* ProcessConfigure, under mutetx. *)

\* The stored configuration of the ids in S changes. An agent that is reading
\* meets the old or the new; one that is still to read is not behind.
Changed(S) ==
    /\ IF running = NoProc \/ ~Told \/ reload THEN UNCHANGED behind
       ELSE \E unmet \in SUBSET S : /\ reading \/ unmet = S
                                    /\ behind' = behind \cup unmet
    /\ overtaken' = [t \in Threads |->
                       overtaken[t] \cup (IF Told /\ pc[t] \in Starting THEN S ELSE {})]
    /\ UNCHANGED <<reload, reading>>

\* The agent that runs will not be told of the changes of S.
Miss(S) == missed' = missed \cup (S \cap behind')

\* ensureConfigsDir, then filebeat's main configuration, unless there is one.
\* Either may fail; then nothing is applied. A failed creation leaves a file.
BeginConfigure ==
    /\ Up
    /\ pc[Instr] = "idle"
    /\ \/ /\ Goto(Instr, "ops", NoProc)
          /\ dir' = ~Telegraf
          /\ main' = IF kind = "filebeat" /\ main = "absent" THEN Address ELSE main
       \/ /\ kind = "filebeat" /\ main = "absent"
          /\ dir' = TRUE
          /\ main' \in {"absent", "torn"}
          /\ UNCHANGED threads
    /\ UNCHANGED <<kind, envoy, listening, stored, old, touched, todo,
                   procs, views, overtaken>>

\* One of the operations is looked at.
Op == Up /\ pc[Instr] = "ops"

\* How the conversion of a content ends: filebeat's are taken as they are, null
\* gives telegraf no type, and the other runners a nil map to which they add.
Conversion(c) == CASE kind = "filebeat" \/ c \in {"short", "long"} -> "ok"
                   [] c = "null" /\ Strict                         -> "panic"
                   [] OTHER                                        -> "error"

\* What storing c makes of what was stored before.
Overwrite(before, c) ==
    IF Strict /\ c = "short" /\ before \in {"long", "mixed"} THEN "mixed" ELSE c

\* CREATE or MODIFY: the content is converted and stored.
Store(id, c) ==
    /\ Op
    /\ Conversion(c) = "ok"
    /\ Telegraf \/ dir
    /\ stored' = [stored EXCEPT ![id] = Overwrite(@, c)]
    /\ touched' = touched \cup {id}
    /\ old' = old \ {id}
    /\ Changed({id})
    /\ UNCHANGED <<kind, setup, dir, todo, threads, procs, missed>>

\* REMOVE of a configuration that is there.
Remove(id) ==
    /\ Op
    /\ id \in Stored
    /\ stored' = [stored EXCEPT ![id] = "none"]
    /\ touched' = touched \cup {id}
    /\ old' = old \ {id}
    /\ Changed({id})
    /\ UNCHANGED <<kind, setup, dir, todo, threads, procs, missed>>

\* REMOVE of one that is not: only filebeat counts it as applied.
RemoveAbsent(id) ==
    /\ Op
    /\ id \notin Stored
    /\ touched' = IF kind = "filebeat" THEN touched \cup {id} ELSE touched
    /\ UNCHANGED <<kind, setup, configs, todo, threads, procs, views, overtaken>>

\* The operation on id changes nothing: its content is not accepted, the
\* directory was purged meanwhile, or the disk fails, which may leave a file
\* with other contents. Telegraf and filebeat go on with the next operation,
\* the others return an error, whatever they have applied.
OpFails(id) ==
    /\ Op
    /\ \/ UNCHANGED <<stored, reload, reading, behind, overtaken>>
       \/ /\ dir
          /\ stored' = [stored EXCEPT ![id] = "torn"]
          /\ Changed({id})
    /\ IF Strict
       THEN Goto(Instr, "idle", NoProc) /\ touched' = {} /\ Miss(touched \cup {id})
       ELSE UNCHANGED <<threads, touched, missed>>
    /\ UNCHANGED <<kind, setup, dir, old, todo, procs>>

\* An assignment to the nil map that null was decoded into.
NilMap ==
    /\ Op
    /\ \E c \in Sent : Conversion(c) = "panic"
    /\ Ends("panicked")

\* The config server iterates over tomlConfigs while it is written: the runtime
\* may detect it and end the Envoy. Otherwise it is as in Changed.
MapRace ==
    /\ Op
    /\ Telegraf
    /\ reading \/ \E p \in Proc : proc[p] \in {"starting", "orphan"}
    /\ Ends("panicked")

\* No more operations. EnsureRunningState follows if one was applied.
EndOps ==
    /\ Op
    /\ Goto(Instr, IF touched # {} THEN "apply" ELSE "idle", NoProc)
    /\ touched' = {}
    /\ UNCHANGED <<kind, setup, configs, todo, procs, views, overtaken>>

\* ProcessInstall ends with EnsureRunningState, after a Stop if it has linked
\* another version.
Install ==
    /\ Up
    /\ pc[Instr] = "idle"
    /\ \E label \in {"ensure", "relink"} : Goto(Instr, label, NoProc)
    /\ UNCHANGED <<kind, setup, configs, touched, todo, procs, views, overtaken>>

--------------------------------------------------------------------------------
(* EnsureRunningState, of an instruction or of a restart. With applyConfigs it *)
(* begins at "apply", without at "ensure".                                     *)

\* The readiness check, which oracle does not make. It also fails when there is
\* no executable, or a file cannot be looked at.
CheckReady(t) ==
    /\ Up
    /\ pc[t] \in {"apply", "ensure"}
    /\ \/ Ready /\ Goto(t, IF pc[t] = "apply" THEN "applyrun" ELSE "ensurerun", NoProc)
       \/ kind # "oracle" /\ Goto(t, "halt", NoProc)
    /\ UNCHANGED <<kind, setup, configs, touched, todo, procs, views, overtaken>>

\* Slip: an agent that runs is not told of new configurations.
MutantCheckRunning(t) ==
    /\ Up
    /\ pc[t] \in {"applyrun", "ensurerun"}
    /\ Goto(t, IF running = NoProc THEN "start" ELSE "idle", NoProc)
    /\ UNCHANGED <<kind, setup, configs, touched, todo, procs, views, overtaken>>

\* running.IsRunning(). Of new configurations telegraf is told, packages and
\* oracle are restarted for them, and filebeat finds them by itself.
CheckRunning(t) ==
    /\ Up
    /\ pc[t] \in {"applyrun", "ensurerun"}
    /\ \/ running = NoProc /\ Goto(t, "start", NoProc)
       \/ /\ running # NoProc
          /\ Goto(t, IF pc[t] = "ensurerun" \/ ~Told THEN "idle"
                     ELSE IF Telegraf THEN "hup" ELSE "restart", NoProc)
    /\ UNCHANGED <<kind, setup, configs, touched, todo, procs, views, overtaken>>

\* handleConfigReload: the process that is recorded now is sent SIGHUP.
Hup(t) ==
    /\ Up
    /\ pc[t] = "hup"
    /\ Goto(t, "idle", NoProc)
    /\ reload' = (running # NoProc)
    /\ behind' = {} /\ missed' = {}
    /\ UNCHANGED <<kind, setup, configs, touched, todo, procs, reading, overtaken>>

\* CreateContext, in a context derived from the router's ctx, and cmd.Start.
\* Telegraf and filebeat find the address in the main configuration, the packages
\* agent on its command line.
Start(t, p) ==
    /\ Up
    /\ pc[t] = "start"
    /\ pc[Router] # "new"
    /\ Fresh(p)
    /\ Goto(t, "await", p)
    /\ proc' = [proc EXCEPT ![p] = "starting"]
    /\ dials' = [dials EXCEPT ![p] = CASE kind = "packages" -> Address
                                       [] kind = "oracle"   -> "none"
                                       [] OTHER             -> main]
    /\ UNCHANGED <<kind, setup, configs, touched, todo, running, views, overtaken>>

\* An instruction gets to CreateContext before the router has its ctx: deriving
\* a context from nil panics.
NilContext(t) ==
    /\ Up
    /\ pc[t] = "start"
    /\ pc[Router] = "new"
    /\ Ends("panicked")

\* The process is gone, or nobody cares for it any more.
Leave(p, what) ==
    /\ proc' = [proc EXCEPT ![p] = what]
    /\ dials' = IF what = "none" THEN [dials EXCEPT ![p] = "none"] ELSE dials

\* StartAgentCommand returns an error: the process could not be executed, has
\* ended, or runs but did not print what was expected in time. Nobody waits for
\* it then. For oracle the Envoy ends.
StartFails(t) ==
    /\ Up
    /\ pc[t] \in {"start", "await"}
    /\ IF kind = "oracle"
       THEN Ends("down")
       ELSE /\ Goto(t, "idle", NoProc)
            /\ IF pc[t] = "start" THEN UNCHANGED <<proc, dials>>
                                  ELSE Leave(cur[t], "none") \/ Leave(cur[t], "orphan")
            /\ overtaken' = [overtaken EXCEPT ![t] = {}]
            /\ UNCHANGED <<kind, setup, configs, touched, todo, running, views>>

\* StartAgentCommand succeeds: a goroutine is to wait for the process ...
Started(t) ==
    /\ Up
    /\ pc[t] = "await"
    /\ Goto(t, "assign", cur[t])
    /\ proc' = [proc EXCEPT ![cur[t]] = "watched"]
    /\ UNCHANGED <<kind, setup, configs, touched, todo, dials, running, views, overtaken>>

\* No process runs that is recorded.
NothingRecorded ==
    /\ running' = NoProc
    /\ reload' = FALSE /\ reading' = FALSE
    /\ behind' = {} /\ missed' = {}

\* ... and the process is recorded, unless it has ended already. By now it may
\* have read its configurations, telegraf has, and what has changed meanwhile it
\* may never know.
Assign(t) ==
    /\ Up
    /\ pc[t] = "assign"
    /\ Goto(t, "idle", NoProc)
    /\ IF proc[cur[t]] = "none" THEN NothingRecorded
       ELSE /\ running' = cur[t]
            /\ \/ reload' = FALSE /\ reading' = FALSE
               \/ Strict /\ reload' \in BOOLEAN /\ reading' = ~reload'
            /\ missed' = overtaken[t]
            /\ behind' = missed'
    /\ overtaken' = [overtaken EXCEPT ![t] = {}]
    /\ UNCHANGED <<kind, setup, configs, touched, todo, proc, dials>>

--------------------------------------------------------------------------------
(* Stop, by an instruction, a restart or the router. *)

\* There is nothing to stop if nothing runs or another goroutine is stopping it.
CallStop(t) ==
    /\ Up
    /\ pc[t] \in StopCall
    /\ Goto(t, InStop(pc[t]),
            IF running # NoProc /\ ~BeingStopped(running) THEN running ELSE NoProc)
    /\ UNCHANGED <<kind, setup, configs, touched, todo, procs, views, overtaken>>

\* The process has ended or was sent KILL. The runner's Stop sets running to nil,
\* whatever it is by now; what telegraf and filebeat call when they are not ready
\* does not.
StopReturns(t) ==
    /\ Up
    /\ pc[t] \in Stopping
    /\ Goto(t, AfterStop(pc[t]), NoProc)
    /\ IF cur[t] = NoProc THEN UNCHANGED <<proc, dials>> ELSE Leave(cur[t], "none")
    /\ IF pc[t] = "halting" /\ kind \in {"telegraf", "filebeat"} /\ running # cur[t]
       THEN UNCHANGED <<running, views>>
       ELSE NothingRecorded
    /\ UNCHANGED <<kind, setup, configs, touched, todo, overtaken>>

--------------------------------------------------------------------------------
(* The agent. *)

\* A process ends, and its restart is scheduled unless it was stopped.
AgentEnds(p) ==
    /\ Up
    /\ proc[p] = "watched"
    /\ \/ BeingStopped(p) /\ UNCHANGED threads
       \/ /\ ~BeingStopped(p)
          /\ \E t \in Timers : pc[t] = "idle" /\ Goto(t, "ensure", NoProc)
    /\ Leave(p, "none")
    /\ IF p = running THEN NothingRecorded ELSE UNCHANGED <<running, views>>
    /\ UNCHANGED <<kind, setup, configs, touched, todo, overtaken>>

\* A process that StartAgentCommand gave up on ends, which nobody notices.
OrphanEnds(p) ==
    /\ Up
    /\ proc[p] = "orphan"
    /\ Leave(p, "none")
    /\ UNCHANGED <<kind, setup, configs, touched, todo, threads, running, views, overtaken>>

\* The agent that is recorded starts to read: at its start and when told to.
\* When filebeat reads is its own matter.
BeginRead ==
    /\ Up
    /\ reload /\ ~reading
    /\ reload' = FALSE
    /\ reading' = TRUE
    /\ behind' = {} /\ missed' = {}
    /\ UNCHANGED <<kind, setup, configs, touched, todo, threads, procs, overtaken>>

EndRead ==
    /\ Up
    /\ reading
    /\ reading' = FALSE
    /\ UNCHANGED <<kind, setup, configs, touched, todo, threads, procs,
                   reload, behind, missed, overtaken>>

--------------------------------------------------------------------------------
(* The router handles a detach, without mutetx. *)

\* Its goroutine begins and sets ctx, at its own time.
RouterBegins ==
    /\ Up
    /\ pc[Router] = "new"
    /\ Goto(Router, "idle", NoProc)
    /\ UNCHANGED <<kind, setup, configs, touched, todo, procs, views, overtaken>>

\* stopAll gets to this runner; the purge follows when Stop returns.
Detach ==
    /\ Up
    /\ pc[Router] = "idle"
    /\ Goto(Router, "detach", NoProc)
    /\ UNCHANGED <<kind, setup, configs, touched, todo, procs, views, overtaken>>

\* The purge of an earlier runner failed: this one is not purged.
PurgeSkipped ==
    /\ Up
    /\ pc[Router] = "purge"
    /\ Goto(Router, "idle", NoProc)
    /\ UNCHANGED <<kind, setup, configs, touched, todo, procs, views, overtaken>>

\* Telegraf's purge replaces the map; the config server may go on with the old
\* one. RemoveAll of the others lists the files of the directory.
PurgeBegins ==
    /\ Up
    /\ pc[Router] = "purge"
    /\ \/ /\ Telegraf
          /\ Goto(Router, "idle", NoProc)
          /\ stored' = [id \in Id |-> "none"]
          /\ Changed(Stored)
          /\ Miss(Stored)
          /\ UNCHANGED todo
       \/ /\ ~Telegraf
          /\ Goto(Router, "purging", NoProc)
          /\ todo' = Stored
          /\ UNCHANGED <<stored, views, overtaken>>
    /\ UNCHANGED <<kind, setup, dir, old, touched, procs>>

\* RemoveAll removes one of the files, or finds it removed.
PurgeFile(id) ==
    /\ Up
    /\ id \in todo
    /\ todo' = todo \ {id}
    /\ stored' = [stored EXCEPT ![id] = "none"]
    /\ Changed({id} \cap Stored)
    /\ Miss({id})
    /\ UNCHANGED <<kind, setup, dir, old, touched, threads, procs>>

\* RemoveAll removes the directory, which fails if a file was added meanwhile.
PurgeEnds ==
    /\ Up
    /\ pc[Router] = "purging"
    /\ todo = {}
    /\ Goto(Router, "idle", NoProc)
    /\ dir' = (Stored # {})
    /\ UNCHANGED <<kind, setup, stored, old, touched, todo, procs, views, overtaken>>

\* RemoveAll gives up at one of the files; the error is only logged.
PurgeFails ==
    /\ Up
    /\ pc[Router] = "purging"
    /\ todo # {}
    /\ todo' = {}
    /\ Goto(Router, "idle", NoProc)
    /\ UNCHANGED <<kind, setup, configs, touched, procs, views, overtaken>>

--------------------------------------------------------------------------------
Configure ==
    \/ BeginConfigure \/ NilMap \/ MapRace \/ EndOps
    \/ \E id \in Id : \/ \E c \in Sent : Store(id, c)
                      \/ Remove(id) \/ RemoveAbsent(id) \/ OpFails(id)

EnsureRunning(t) ==
    \/ CheckReady(t) \/ CheckRunning(t) \/ Hup(t)
    \/ NilContext(t) \/ StartFails(t) \/ Started(t) \/ Assign(t)
    \/ \E p \in Proc : Start(t, p)

Next ==
    \/ Bind \/ Load \/ StartupPurge \/ EnvoyEnds
    \/ Configure \/ Install
    \/ \E t \in Threads : EnsureRunning(t) \/ CallStop(t) \/ StopReturns(t)
    \/ \E p \in Proc : AgentEnds(p) \/ OrphanEnds(p)
    \/ BeginRead \/ EndRead
    \/ RouterBegins \/ Detach \/ PurgeSkipped \/ PurgeBegins \/ PurgeEnds \/ PurgeFails
    \/ \E id \in Id : PurgeFile(id)

Spec == Init /\ [][Next]_vars

--------------------------------------------------------------------------------
(* Properties. *)

Labels == {"new", "idle", "ops", "apply", "ensure", "applyrun", "ensurerun", "hup",
           "start", "purge", "purging"} \cup Starting \cup StopCall \cup Stopping

TypeOK ==
    /\ kind \in Kinds
    /\ envoy \in {"down", "panicked", "bound", "loaded", "up"}
    /\ main \in {"absent", "torn", "none", "stale", "current"}
    /\ stored \in [Id -> Content \cup {"none"}]
    /\ old \subseteq Id /\ touched \subseteq Id /\ todo \subseteq Id
    /\ listening \in BOOLEAN /\ dir \in BOOLEAN
    /\ pc \in [Threads -> Labels]
    /\ cur \in [Threads -> Proc \cup {NoProc}]
    /\ proc \in [Proc -> {"none", "starting", "watched", "orphan"}]
    /\ dials \in [Proc -> {"absent", "torn", "none", "stale", "current"}]
    /\ running \in Proc \cup {NoProc}
    /\ reload \in BOOLEAN /\ reading \in BOOLEAN
    /\ behind \subseteq Id /\ missed \subseteq Id
    /\ overtaken \in [Threads -> SUBSET Id]

\* agents.go:54, "applyConfigs will be passed as true to indicate the runner
\* should take actions to reload configuration": between instructions the agent
\* that is recorded, and not being stopped, goes by what is stored, or is about
\* to read it, however its reading, crashes, restarts, instructions and detaches
\* interleave. What it is not told of is what changed in an instruction that
\* failed, in a purge, and while a restart, which does not hold mutetx, was
\* starting it; filebeat finds out by itself.
AgentUpToDate ==
    Up /\ pc[Instr] = "idle" /\ running # NoProc /\ ~BeingStopped(running)
        => behind \subseteq missed

\* agents_router.go:67: what an earlier Envoy stored is gone before this one
\* starts an agent, so that no agent ever reads it.
EarlierConfigsGone == Up => old = {}

\* run.go:38, "Bind ingestors before agents created since they need the
\* resolved, bound address of each ingestor": every process of telegraf and of
\* the packages agent, recorded or not, dials the ingestor of the Envoy that
\* started it.
AgentDialsThisEnvoy ==
    \A p \in Proc :
        proc[p] # "none" /\ listening /\ kind \in {"telegraf", "packages"}
            => dials[p] = "current"

\* README.md:48, "The port can be set to 0 or left off to allow any available
\* port to be used": so does filebeat. It does not, since its main configuration
\* is made once and never again (filebeat.go:129).
FilebeatDialsThisEnvoy ==
    \A p \in Proc : proc[p] # "none" /\ listening /\ kind = "filebeat" => dials[p] # "stale"

\* agents.go:54 without the exceptions of AgentUpToDate. A restart that began to
\* start its process before an instruction may record it after the process that
\* the instruction has started (command_handler.go:143), among others.
NothingMissed ==
    Up /\ pc[Instr] = "idle" /\ running # NoProc /\ ~BeingStopped(running)
        => behind = {}

\* oracle.go:110 and pkgagent.go:126, "(re)create file": an operation stores the
\* content it was sent. Opened without O_TRUNC, a file keeps the end of a longer
\* content before.
StoredAsSent == \A id \in Id : stored[id] # "mixed"

\* agents_router.go:168, "failed to process agent configuration": no content of
\* an instruction, and no moment at which it comes, ends the Envoy.
NoPanic == envoy # "panicked"

(***************************************************************************)
(* Why the properties hold. Processes, and goroutines that deal with them, *)
(* exist only in an Envoy that is up, and every process was given the      *)
(* address of the ingestor that this Envoy has bound. A process that is    *)
(* being started belongs to one goroutine. What a recorded agent is behind *)
(* with was changed by operations of an instruction that is still to tell  *)
(* it or to stop it, or belongs to what nobody tells it of.                *)
(***************************************************************************)
OnlyInEnvoy ==
    /\ ~Up => /\ \A p \in Proc : proc[p] = "none"
              /\ pc = AtStart /\ running = NoProc
    /\ Telegraf => ~dir /\ pc[Router] # "purging"
    /\ Telegraf /\ ~Up => Stored = {}

DialsAddress ==
    /\ Telegraf /\ envoy \in {"loaded", "up"} => main = Address
    /\ \A p \in Proc : proc[p] # "none" /\ kind \in {"telegraf", "packages"}
                          => dials[p] = Address

Owned ==
    /\ running # NoProc => proc[running] = "watched"
    /\ \A t \in Threads :
          /\ pc[t] = "await"  => cur[t] \in Proc /\ proc[cur[t]] = "starting"
          /\ pc[t] = "assign" => cur[t] \in Proc /\ proc[cur[t]] \in {"watched", "none"}
    /\ \A t, u \in Threads : pc[t] = "await" /\ cur[u] = cur[t] => u = t

TouchedInOps == pc[Instr] # "ops" => touched = {}

\* An instruction that has changed configurations is still to tell the agent.
Telling == {"apply", "applyrun", "hup", "restart", "halt"}

BehindIsTold ==
    /\ running # NoProc /\ ~BeingStopped(running) /\ pc[Instr] \notin Telling
           => behind \subseteq missed \cup touched
    /\ ~Told => behind = {} /\ \A t \in Threads : overtaken[t] = {}

IndInv ==
    /\ TypeOK
    /\ OnlyInEnvoy
    /\ DialsAddress
    /\ Owned
    /\ TouchedInOps
    /\ BehindIsTold
    /\ EarlierConfigsGone

================================================================================
