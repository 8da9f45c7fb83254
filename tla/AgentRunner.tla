------------------------------ MODULE AgentRunner ------------------------------
(***************************************************************************)
(* One SpecificAgentRunner (telegraf, filebeat, packages or oracle), the   *)
(* StandardCommandHandler it drives and the operating system processes     *)
(* they start, at the granularity at which the goroutines of the Envoy can *)
(* interleave:                                                             *)
(*                                                                         *)
(*   Instr    the goroutines that run watchForInstructions, one for each   *)
(*            connection that still has an instruction in hand; they call  *)
(*            ProcessInstall and ProcessConfigure under the router's       *)
(*            mutetx;                                                      *)
(*   Router   the goroutine of StandardAgentsRouter.Start, which stops the *)
(*            agents and purges their configs on a detach and stops them   *)
(*            when the application context is done, without mutetx;        *)
(*   Timers   the goroutines of restart timers that fired; they call       *)
(*            EnsureRunningState without mutetx;                           *)
(*   Ctx      the AgentRunningContexts, each with its WaitOnAgentCommand   *)
(*            goroutine (waiter), which may schedule a restart timer.      *)
(*                                                                         *)
(* pc[t] is the point of the code that goroutine t is about to execute and *)
(* cur[t] the AgentRunningContext its local variables refer to.            *)
(***************************************************************************)
CONSTANTS
    Kind,       \* which SpecificAgentRunner
    Ctx,        \* the AgentRunningContexts that may exist at the same time
    Instr,      \* the instruction goroutines
    Router,     \* the router's goroutine
    Timers,     \* the restart goroutines that may exist at the same time
    NoCtx,      \* the nil *AgentRunningContext
    Events      \* what the environment may do: see EventsAssumption

ASSUME KindAssumption == Kind \in {"telegraf", "filebeat", "packages", "oracle"}

(***************************************************************************)
(* crash: an agent process may end on its own; exec: starting a process    *)
(* may fail although its executable exists; await: StartAgentCommand may   *)
(* give up on the expected output; badop: ProcessConfig may return an      *)
(* error; install: install instructions arrive; detach: the router is told *)
(* of detaches; shutdown: the Envoy is interrupted.                        *)
(***************************************************************************)
ASSUME EventsAssumption ==
    Events \subseteq {"crash", "exec", "await", "badop",
                     "install", "detach", "shutdown"}

ASSUME NamesAssumption == /\ NoCtx \notin Ctx
                          /\ Instr \cap Timers = {}
                          /\ Router \notin Instr \cup Timers

VARIABLES
    running,    \* the runner's field "running"
    waiter,     \* progress of the context's WaitOnAgentCommand goroutine
    stopping,   \* the context's field "stopping"
    timer,      \* the context's restart timer is pending
    proc,       \* the process of the context's command
    sig,        \* the strongest signal that Stop sent to the process
    pc,         \* control point of each goroutine
    cur,        \* the context a goroutine works on
    ret,        \* where a goroutine continues once the runner's Stop returns
    apply,      \* the argument applyConfigs of EnsureRunningState
    exe,        \* CURRENT/bin/<exe> exists
    configs,    \* at least one agent configuration is stored
    envoy       \* the Envoy process itself

osVars    == <<proc, sig>>
threads   == <<pc, cur, ret, apply>>
contexts  == <<running, waiter, stopping, timer>>
files     == <<exe, configs>>
vars      == <<contexts, osVars, threads, files, envoy>>

Threads == Instr \cup {Router} \cup Timers

\* Control points at which cur[t] is in use.
Holding == {"sighup", "pid", "getpid", "await", "assign",
            "mark", "term", "select", "kill"}

Labels == Holding \cup {"idle", "ensure", "isrun", "hup", "start", "stop",
                        "stopped", "link", "purge", "exit"}

--------------------------------------------------------------------------------
(* What the fields of an AgentRunningContext say. *)

\* cmd is nil: the waiter has executed "runningContext.cmd = nil".
CmdNil(c) == waiter[c] \in {"nilled", "closed", "done"}

\* The channel stopped is closed.
StoppedClosed(c) == waiter[c] \in {"closed", "done"}

\* Slip: a context without a cmd counts as running.
MutantIsRunning(c) == waiter[c] = "reaped" => proc[c] = "signaled"

\* Once Wait returned ProcessState is set, and its Exited() is false for a
\* process that a signal ended.
IsRunning(c) == /\ ~CmdNil(c)
                /\ waiter[c] = "reaped" => proc[c] = "signaled"

\* running.IsRunning(), which accepts a nil receiver.
Running == running # NoCtx /\ IsRunning(running)

\* Nobody holds the mutex of context c.
LockFree(c) == \A t \in Threads : ~(pc[t] = "mark" /\ cur[t] = c)

\* Nobody holds the router's mutetx.
MutexFree == \A t \in Instr : pc[t] = "idle"

\* Slip: the check for configs is dropped.
MutantReady == exe

\* hasRequiredPaths of telegraf, hasConfigsAndExeReady of filebeat and
\* packages; oracle checks nothing.
Ready == CASE Kind = "telegraf" -> exe
           [] Kind = "oracle"   -> TRUE
           [] OTHER             -> exe /\ configs

\* Nothing refers to c any more: the garbage collector may reuse it.
Fresh(c) == /\ proc[c] # "alive"
            /\ waiter[c] \in {"none", "done"}
            /\ ~timer[c]
            /\ running # c
            /\ \A t \in Threads : cur[t] # c

Live == envoy \in {"up", "cancelled"}

--------------------------------------------------------------------------------
Init ==
    /\ running = NoCtx
    /\ waiter = [c \in Ctx |-> "none"]
    /\ stopping = [c \in Ctx |-> FALSE]
    /\ timer = [c \in Ctx |-> FALSE]
    /\ proc = [c \in Ctx |-> "none"]
    /\ sig = [c \in Ctx |-> "none"]
    /\ pc = [t \in Threads |-> "idle"]
    /\ cur = [t \in Threads |-> NoCtx]
    /\ ret = [t \in Threads |-> "idle"]
    /\ apply = [t \in Threads |-> FALSE]
    /\ exe \in BOOLEAN              \* installed by an earlier run of the Envoy
    /\ configs = FALSE              \* NewAgentsRunner purges the configs
    /\ envoy = "up"

\* Goroutine t goes on at the given control point, working on context c.
Goto(t, label, c) ==
    /\ pc' = [pc EXCEPT ![t] = label]
    /\ cur' = [cur EXCEPT ![t] = c]

\* Goroutine t calls the runner's Stop and then goes on at the label "next".
\* "keep" is the commandHandler.Stop(running) that does not clear the field.
CallStop(t, next) ==
    /\ Goto(t, "stop", NoCtx)
    /\ ret' = [ret EXCEPT ![t] = next]

--------------------------------------------------------------------------------
(* Instructions. *)

\* ProcessConfig applied at least one operation: EnsureRunningState(ctx, true).
ProcessConfigure(t) ==
    /\ Live
    /\ MutexFree
    /\ configs' \in BOOLEAN
    /\ Goto(t, "ensure", NoCtx)
    /\ apply' = [apply EXCEPT ![t] = TRUE]
    /\ UNCHANGED <<contexts, osVars, ret, exe, envoy>>

\* ProcessConfig returned an error. Packages and oracle may have applied the
\* operations before the failing one, filebeat left what it failed to write;
\* telegraf applied nothing.
ProcessConfigureFails(t) ==
    /\ Live
    /\ MutexFree
    /\ "badop" \in Events
    /\ configs' \in CASE Kind = "telegraf" -> {configs}
                      [] Kind = "filebeat" -> {configs, TRUE}
                      [] OTHER             -> BOOLEAN
    /\ UNCHANGED <<contexts, osVars, threads, exe, envoy>>

\* The link CURRENT already names the version: EnsureRunningState(ctx, false).
InstallLinked(t) ==
    /\ Live
    /\ "install" \in Events
    /\ MutexFree
    /\ Goto(t, "ensure", NoCtx)
    /\ UNCHANGED <<contexts, osVars, ret, apply, files, envoy>>

\* Slip: the previous version is not stopped.
MutantInstallUnlink(t) ==
    /\ Live
    /\ "install" \in Events
    /\ MutexFree
    /\ exe' = FALSE
    /\ Goto(t, "link", NoCtx)
    /\ UNCHANGED <<contexts, osVars, ret, apply, configs, envoy>>

\* ensureCurrentSymlink removes the link, if present, and calls Stop.
InstallUnlink(t) ==
    /\ Live
    /\ "install" \in Events
    /\ MutexFree
    /\ exe' = FALSE
    /\ CallStop(t, "link")
    /\ UNCHANGED <<contexts, osVars, apply, configs, envoy>>

\* The symlink is created, to a version that may lack its executable, and
\* EnsureRunningState follows; or creating it failed and ProcessInstall ends.
InstallLink(t) ==
    /\ Live
    /\ pc[t] = "link"
    /\ \/ exe' \in BOOLEAN /\ Goto(t, "ensure", NoCtx)
       \/ exe' = FALSE /\ Goto(t, "idle", NoCtx)
    /\ UNCHANGED <<contexts, osVars, ret, apply, configs, envoy>>

--------------------------------------------------------------------------------
(* EnsureRunningState. *)

Ensure(t) ==
    /\ Live
    /\ pc[t] = "ensure"
    /\ \/ Ready /\ Goto(t, "isrun", NoCtx) /\ UNCHANGED <<ret, apply>>
       \/ /\ ~Ready
          /\ CallStop(t, IF Kind = "packages" THEN "idle" ELSE "keep")
          /\ apply' = [apply EXCEPT ![t] = FALSE]
    /\ UNCHANGED <<contexts, osVars, files, envoy>>

\* Slip: the agent is started again without being stopped first.
MutantCheckRunning(t) ==
    /\ Live
    /\ pc[t] = "isrun"
    /\ Goto(t, IF Running /\ ~apply[t] THEN "idle" ELSE "start", NoCtx)
    /\ apply' = [apply EXCEPT ![t] = FALSE]
    /\ UNCHANGED <<contexts, osVars, ret, files, envoy>>

\* An agent that runs is left alone, told to reload (telegraf) or stopped to
\* be started again (packages, oracle); filebeat reloads by itself.
CheckRunning(t) ==
    /\ Live
    /\ pc[t] = "isrun"
    /\ \/ ~Running /\ Goto(t, "start", NoCtx) /\ UNCHANGED ret
       \/ /\ Running
          /\ ~apply[t] \/ Kind = "filebeat"
          /\ Goto(t, "idle", NoCtx)
          /\ UNCHANGED ret
       \/ /\ Running /\ apply[t] /\ Kind = "telegraf"
          /\ Goto(t, "hup", NoCtx)
          /\ UNCHANGED ret
       \/ /\ Running /\ apply[t] /\ Kind \in {"packages", "oracle"}
          /\ CallStop(t, "start")
    /\ apply' = [apply EXCEPT ![t] = FALSE]
    /\ UNCHANGED <<contexts, osVars, files, envoy>>

\* handleConfigReload: Signal reads running again and tests IsRunning.
Hup(t) ==
    /\ Live
    /\ pc[t] = "hup"
    /\ IF Running THEN Goto(t, "sighup", running) ELSE Goto(t, "idle", NoCtx)
    /\ UNCHANGED <<contexts, osVars, ret, apply, files, envoy>>

\* cmd.Process.Signal(SIGHUP). A reaped process makes it fail, and the
\* warning logs running.Pid().
SigHup(t) ==
    /\ Live
    /\ pc[t] = "sighup"
    /\ ~CmdNil(cur[t])
    /\ IF waiter[cur[t]] = "reaped" /\ running # NoCtx
       THEN Goto(t, "pid", running)
       ELSE Goto(t, "idle", NoCtx)
    /\ UNCHANGED <<contexts, osVars, ret, apply, files, envoy>>

\* Pid tests IsRunning ...
Pid(t) ==
    /\ Live
    /\ pc[t] = "pid"
    /\ IF IsRunning(cur[t]) THEN Goto(t, "getpid", cur[t])
                            ELSE Goto(t, "idle", NoCtx)
    /\ UNCHANGED <<contexts, osVars, ret, apply, files, envoy>>

\* ... and then reads cmd.Process.Pid.
GetPid(t) ==
    /\ Live
    /\ pc[t] = "getpid"
    /\ ~CmdNil(cur[t])
    /\ Goto(t, "idle", NoCtx)
    /\ UNCHANGED <<contexts, osVars, ret, apply, files, envoy>>

\* CreateContext and cmd.Start: a new context with a new process.
Start(t, c) ==
    /\ Live
    /\ pc[t] = "start"
    /\ exe
    /\ Fresh(c)
    /\ waiter' = [waiter EXCEPT ![c] = "none"]
    /\ stopping' = [stopping EXCEPT ![c] = FALSE]
    /\ proc' = [proc EXCEPT ![c] = "alive"]
    /\ sig' = [sig EXCEPT ![c] = "none"]
    /\ Goto(t, "await", c)
    /\ UNCHANGED <<running, timer, ret, apply, files, envoy>>

\* What a runner does when StartAgentCommand returns an error: oracle calls
\* log.Fatal, which ends the Envoy; the others only log.
GiveUp(t) ==
    /\ Goto(t, "idle", NoCtx)
    /\ envoy' = IF Kind = "oracle" THEN "fatal" ELSE envoy

StartFails(t) ==
    /\ Live
    /\ pc[t] = "start"
    /\ ~exe \/ "exec" \in Events
    /\ GiveUp(t)
    /\ UNCHANGED <<contexts, osVars, ret, apply, files>>

\* Slip: no goroutine is spawned to wait for the process.
MutantAwaitOutput(t) ==
    /\ Live
    /\ pc[t] = "await"
    /\ Goto(t, "assign", cur[t])
    /\ UNCHANGED <<contexts, osVars, ret, apply, files, envoy>>

\* StartAgentCommand saw the expected output, or expects none, and the runner
\* spawns go commandHandler.WaitOnAgentCommand(...). Nothing refers to the
\* context yet, so that the two are one step.
AwaitOutput(t) ==
    /\ Live
    /\ pc[t] = "await"
    /\ waiter' = [waiter EXCEPT ![cur[t]] = "waiting"]
    /\ Goto(t, "assign", cur[t])
    /\ UNCHANGED <<running, stopping, timer, osVars, ret, apply, files, envoy>>

\* StartAgentCommand gave up: the timer fired first (also when the runner
\* waits for no output, with a duration of 0), the output forwarders ended
\* because the application context is done, or the output of an agent that is
\* expected to say something ended. The process is not stopped.
AwaitFails(t) ==
    /\ Live
    /\ pc[t] = "await"
    /\ \/ "await" \in Events
       \/ envoy = "cancelled"
       \/ Kind \in {"telegraf", "oracle"} /\ proc[cur[t]] # "alive"
    /\ GiveUp(t)
    /\ UNCHANGED <<contexts, osVars, ret, apply, files>>

\* running = runningContext; telegraf then logs runningContext.Pid().
Assign(t) ==
    /\ Live
    /\ pc[t] = "assign"
    /\ running' = cur[t]
    /\ IF Kind = "telegraf" THEN Goto(t, "pid", cur[t])
                            ELSE Goto(t, "idle", NoCtx)
    /\ UNCHANGED <<waiter, stopping, timer, osVars, ret, apply, files, envoy>>

--------------------------------------------------------------------------------
(* Stop. *)

\* Slip: the context is tested without its lock.
MutantBeginStop(t) ==
    /\ Live
    /\ pc[t] = "stop"
    /\ IF Running /\ ~stopping[running] THEN Goto(t, "mark", running)
                                        ELSE Goto(t, "stopped", NoCtx)
    /\ UNCHANGED <<contexts, osVars, ret, apply, files, envoy>>

\* Stop(nil) returns; otherwise the context is locked and tested. The lock is
\* held from here to MarkStopping when there is something to stop.
BeginStop(t) ==
    /\ Live
    /\ pc[t] = "stop"
    /\ running # NoCtx => LockFree(running)
    /\ IF Running /\ ~stopping[running] THEN Goto(t, "mark", running)
                                        ELSE Goto(t, "stopped", NoCtx)
    /\ UNCHANGED <<contexts, osVars, ret, apply, files, envoy>>

MarkStopping(t) ==
    /\ Live
    /\ pc[t] = "mark"
    /\ stopping' = [stopping EXCEPT ![cur[t]] = TRUE]
    /\ Goto(t, "term", cur[t])
    /\ UNCHANGED <<running, waiter, timer, osVars, ret, apply, files, envoy>>

\* cmd.Process.Signal(s): nothing happens to a process that already ended.
Deliver(c, s) == sig' = IF proc[c] = "alive" THEN [sig EXCEPT ![c] = s] ELSE sig

Term(t) ==
    /\ Live
    /\ pc[t] = "term"
    /\ ~CmdNil(cur[t])
    /\ Deliver(cur[t], "term")
    /\ Goto(t, "select", cur[t])
    /\ UNCHANGED <<contexts, proc, ret, apply, files, envoy>>

\* case <-runningContext.stopped
SelectStopped(t) ==
    /\ Live
    /\ pc[t] = "select"
    /\ StoppedClosed(cur[t])
    /\ Goto(t, "stopped", cur[t])
    /\ UNCHANGED <<contexts, osVars, ret, apply, files, envoy>>

\* Slip: the timeout is only logged, KILL is not sent.
MutantSelectTimeout(t) ==
    /\ Live
    /\ pc[t] = "select"
    /\ Goto(t, "stopped", cur[t])
    /\ UNCHANGED <<contexts, osVars, ret, apply, files, envoy>>

\* case <-time.After(terminationTimeout)
SelectTimeout(t) ==
    /\ Live
    /\ pc[t] = "select"
    /\ Goto(t, "kill", cur[t])
    /\ UNCHANGED <<contexts, osVars, ret, apply, files, envoy>>

Kill(t) ==
    /\ Live
    /\ pc[t] = "kill"
    /\ ~CmdNil(cur[t])
    /\ Deliver(cur[t], "kill")
    /\ Goto(t, "stopped", cur[t])
    /\ UNCHANGED <<contexts, proc, ret, apply, files, envoy>>

\* Slip: the field running keeps naming the stopped context.
MutantStopReturns(t) ==
    /\ Live
    /\ pc[t] = "stopped"
    /\ Goto(t, IF ret[t] = "keep" THEN "idle" ELSE ret[t], NoCtx)
    /\ ret' = [ret EXCEPT ![t] = "idle"]
    /\ UNCHANGED <<contexts, osVars, apply, files, envoy>>

\* The command handler's Stop returned; the runner's Stop sets running to nil.
StopReturns(t) ==
    /\ Live
    /\ pc[t] = "stopped"
    /\ running' = IF ret[t] = "keep" THEN running ELSE NoCtx
    /\ Goto(t, IF ret[t] = "keep" THEN "idle" ELSE ret[t], NoCtx)
    /\ ret' = [ret EXCEPT ![t] = "idle"]
    /\ UNCHANGED <<waiter, stopping, timer, osVars, apply, files, envoy>>

\* cmd.Process with a nil cmd, in Stop, Signal or Pid: the Envoy panics.
NilDereference(t) ==
    /\ Live
    /\ pc[t] \in {"term", "kill", "sighup", "getpid"}
    /\ CmdNil(cur[t])
    /\ envoy' = "panicked"
    /\ UNCHANGED <<contexts, osVars, threads, files>>

--------------------------------------------------------------------------------
(* WaitOnAgentCommand and its restart timer. *)

\* cmd.Wait() returns and has set cmd.ProcessState.
Reap(c) ==
    /\ Live
    /\ waiter[c] = "waiting"
    /\ proc[c] \in {"exited", "signaled"}
    /\ waiter' = [waiter EXCEPT ![c] = "reaped"]
    /\ UNCHANGED <<running, stopping, timer, osVars, threads, files, envoy>>

\* runningContext.cmd = nil: how the process ended is no longer known.
NilCmd(c) ==
    /\ Live
    /\ waiter[c] = "reaped"
    /\ waiter' = [waiter EXCEPT ![c] = "nilled"]
    /\ proc' = [proc EXCEPT ![c] = "exited"]
    /\ UNCHANGED <<running, stopping, timer, sig, threads, files, envoy>>

\* close(runningContext.stopped)
CloseStopped(c) ==
    /\ Live
    /\ waiter[c] = "nilled"
    /\ waiter' = [waiter EXCEPT ![c] = "closed"]
    /\ UNCHANGED <<running, stopping, timer, osVars, threads, files, envoy>>

\* Slip: a restart is scheduled however the process came to its end.
MutantScheduleRestart(c) ==
    /\ Live
    /\ waiter[c] = "closed"
    /\ waiter' = [waiter EXCEPT ![c] = "done"]
    /\ timer' = [timer EXCEPT ![c] = TRUE]
    /\ UNCHANGED <<running, stopping, osVars, threads, files, envoy>>

\* A restart is scheduled unless stopping is set, and the goroutine ends.
ScheduleRestart(c) ==
    /\ Live
    /\ waiter[c] = "closed"
    /\ waiter' = [waiter EXCEPT ![c] = "done"]
    /\ timer' = [timer EXCEPT ![c] = ~stopping[c]]
    /\ UNCHANGED <<running, stopping, osVars, threads, files, envoy>>

\* A goroutine t for the timer of c calls EnsureRunningState(ctx, false).
TimerFires(c, t) ==
    /\ Live
    /\ timer[c]
    /\ pc[t] = "idle"
    /\ timer' = [timer EXCEPT ![c] = FALSE]
    /\ Goto(t, "ensure", NoCtx)
    /\ UNCHANGED <<running, waiter, stopping, osVars, ret, apply, files, envoy>>

--------------------------------------------------------------------------------
(* The router's goroutine and the end of the Envoy. *)

RouterDetach ==
    /\ Live
    /\ "detach" \in Events
    /\ pc[Router] = "idle"
    /\ CallStop(Router, "purge")
    /\ UNCHANGED <<contexts, osVars, apply, files, envoy>>

\* PurgeAgentConfigs gives up at the first runner that fails, which may be
\* one before this runner.
Purge ==
    /\ Live
    /\ pc[Router] = "purge"
    /\ configs' \in {FALSE, configs}
    /\ Goto(Router, "idle", NoCtx)
    /\ UNCHANGED <<contexts, osVars, ret, apply, exe, envoy>>

\* handleInterrupts: a signal arrives and the application context is cancelled.
Cancel ==
    /\ "shutdown" \in Events
    /\ envoy = "up"
    /\ envoy' = "cancelled"
    /\ UNCHANGED <<contexts, osVars, threads, files>>

RouterShutdown ==
    /\ envoy = "cancelled"
    /\ pc[Router] = "idle"
    /\ CallStop(Router, "exit")
    /\ UNCHANGED <<contexts, osVars, apply, files, envoy>>

\* os.Exit one second after the cancellation. That second is long for the
\* steps of the router that do not block, and short for its wait of
\* terminationTimeout (5 seconds by default).
MainExit ==
    /\ envoy = "cancelled"
    /\ pc[Router] \in {"select", "exit"}
    /\ envoy' = "exited"
    /\ UNCHANGED <<contexts, osVars, threads, files>>

\* A process ends because of a signal or, when it may crash, on its own.
ProcessDies(c) ==
    /\ Live
    /\ proc[c] = "alive"
    /\ sig[c] # "none" \/ "crash" \in Events
    /\ \E how \in {"exited", "signaled"} : proc' = [proc EXCEPT ![c] = how]
    /\ UNCHANGED <<contexts, sig, threads, files, envoy>>

\* Once the Envoy ended nothing more happens.
Ended == ~Live /\ UNCHANGED vars

--------------------------------------------------------------------------------
Instruction(t) ==
    \/ ProcessConfigure(t) \/ ProcessConfigureFails(t)
    \/ InstallLinked(t) \/ InstallUnlink(t)

\* The steps of a goroutine that has started something.
EnsureStep(t) ==
    \/ Ensure(t) \/ CheckRunning(t)
    \/ Hup(t) \/ SigHup(t) \/ Pid(t) \/ GetPid(t)
    \/ \E c \in Ctx : Start(t, c)
    \/ StartFails(t) \/ AwaitOutput(t) \/ AwaitFails(t)
    \/ Assign(t)

StopStep(t) ==
    \/ BeginStop(t) \/ MarkStopping(t) \/ Term(t)
    \/ SelectStopped(t) \/ SelectTimeout(t) \/ Kill(t)
    \/ StopReturns(t) \/ NilDereference(t)

ThreadStep(t) == EnsureStep(t) \/ StopStep(t) \/ InstallLink(t)

WaiterStep(c) == Reap(c) \/ NilCmd(c) \/ CloseStopped(c) \/ ScheduleRestart(c)

RouterStep == RouterDetach \/ Purge \/ RouterShutdown

Next ==
    \/ \E t \in Instr : Instruction(t)
    \/ \E t \in Threads : ThreadStep(t)
    \/ \E c \in Ctx : WaiterStep(c) \/ ProcessDies(c)
    \/ \E c \in Ctx, t \in Timers : TimerFires(c, t)
    \/ RouterStep \/ Cancel \/ MainExit \/ Ended

Spec == Init /\ [][Next]_vars

--------------------------------------------------------------------------------
(***************************************************************************)
(* Fairness: the Go scheduler runs every goroutine that can go on, and     *)
(* timers fire. Every process ends once it was sent KILL, but it may ignore *)
(* TERM. Nothing is assumed of instructions, detaches and crashes.         *)
(***************************************************************************)
Fairness ==
    /\ \A t \in Threads : WF_vars(ThreadStep(t))
    /\ \A c \in Ctx : /\ WF_vars(WaiterStep(c))
                      /\ WF_vars(\E t \in Timers : TimerFires(c, t))
                      /\ WF_vars(sig[c] = "kill" /\ ProcessDies(c))
    /\ WF_vars(Purge)

FairSpec == Spec /\ Fairness

--------------------------------------------------------------------------------
(* Properties. *)

TypeOK ==
    /\ running \in Ctx \cup {NoCtx}
    /\ waiter \in [Ctx -> {"none", "waiting", "reaped", "nilled", "closed", "done"}]
    /\ stopping \in [Ctx -> BOOLEAN]
    /\ timer \in [Ctx -> BOOLEAN]
    /\ proc \in [Ctx -> {"none", "alive", "exited", "signaled"}]
    /\ sig \in [Ctx -> {"none", "term", "kill"}]
    /\ pc \in [Threads -> Labels]
    /\ cur \in [Threads -> Ctx \cup {NoCtx}]
    /\ ret \in [Threads -> {"idle", "keep", "start", "link", "purge", "exit"}]
    /\ apply \in [Threads -> BOOLEAN]
    /\ exe \in BOOLEAN
    /\ configs \in BOOLEAN
    /\ envoy \in {"up", "cancelled", "exited", "panicked", "fatal"}

\* A process that Stop signalled is never the cause of a restart: whatever the
\* interleaving of Stop with WaitOnAgentCommand, no restart timer is ever set
\* for it (command_handler.go, stopping is set before TERM is sent and read
\* after the process was reaped).
SignalledAgentNotRestarted == \A c \in Ctx : sig[c] # "none" => ~timer[c]

\* Of the goroutines that call Stop at the same time (an instruction's, the
\* router's, a restart's) only one gets to stop a context: it alone sends TERM,
\* waits for the process and may send KILL (command_handler.go:222, the lock is
\* held from the test of stopping to its assignment).
OneStopper ==
    \A t, u \in Threads :
        /\ pc[t] \in {"mark", "term", "select", "kill", "stopped"}
        /\ pc[u] \in {"mark", "term", "select", "kill", "stopped"}
        /\ cur[t] = cur[u]
        /\ cur[t] # NoCtx
        => t = u

\* When the command handler's Stop returns after it had something to stop, the
\* process has ended or was sent KILL (command_handler.go, Stop): no agent
\* survives by ignoring TERM.
StopCompletes ==
    \A t \in Threads : \A c \in Ctx :
        pc[t] = "stopped" /\ cur[t] = c =>
            proc[c] \in {"exited", "signaled"} \/ sig[c] = "kill"

\* The context that the runner records as running always has a goroutine that
\* waits for its process, so that its end is noticed (EnsureRunningState
\* spawns WaitOnAgentCommand before it assigns the field).
RunningIsWatched == running # NoCtx => waiter[running] # "none"

\* The processes that nobody has decided to stop.
Unstopped == {c \in Ctx : proc[c] = "alive" /\ ~stopping[c]}

\* At most one process of the agent runs that nobody is stopping. The code
\* relies on it: the runner has one field "running" and only the process it
\* names can be signalled or stopped.
OneAgentProcess == \A c, d \in Unstopped : c = d

\* No goroutine has anything left to do for this agent.
Quiescent ==
    /\ envoy = "up"
    /\ \A t \in Threads : pc[t] = "idle"
    /\ \A c \in Ctx : /\ ~timer[c]
                      /\ waiter[c] \in {"none", "waiting", "done"}
                      /\ waiter[c] = "waiting" => proc[c] = "alive"

\* agents.go, EnsureRunningState: "It must ensure the agent process is running
\* if configs and executable are available".
AgentRunsWhenReady == Quiescent /\ configs /\ exe => Running

\* agents.go, EnsureRunningState: "It must also ensure that that the process
\* is stopped if no configuration remains". A process that was sent KILL
\* counts as stopped.
StoppedWithoutConfigs ==
    Quiescent /\ ~configs => \A c \in Ctx : proc[c] = "alive" => sig[c] = "kill"

\* An agent that was sent TERM ends, if need be because KILL follows, unless
\* the Envoy itself ends first (command_handler.go, Stop).
TerminatedAgentEnds ==
    \A c \in Ctx : sig[c] = "term" ~> proc[c] # "alive" \/ ~Live

\* WaitOnAgentCommand "will take care of restarting the agent": after an agent
\* ended on its own a process of it is started again, unless it is stopped, is
\* not ready to run any more or the Envoy ends.
FailedAgentRestarted ==
    \A c \in Ctx :
        (running = c /\ timer[c]) ~> \/ \E d \in Ctx : proc[d] = "alive"
                                     \/ running = NoCtx \/ ~Ready \/ ~Live

\* The pointer cmd is never dereferenced after the waiter set it to nil
\* (command_handler.go:134, "indicate child process termination for go
\* routines and Stop handling").
NoNilDereference == envoy # "panicked"

\* agents_router.go:260, "make sure a previous version is stopped": when the
\* link to a new version is created, every process of the agent has ended or
\* was sent KILL.
PreviousVersionStopped ==
    \A t \in Instr : pc[t] = "link" =>
        \A c \in Ctx : proc[c] = "alive" => sig[c] = "kill"

\* README.md:72, "If the timeout is exceeded, then a KILL signal is sent": no
\* agent that ignores TERM survives the shutdown of the Envoy (agents.go:72,
\* "when the ctx is done, then the managed SpecificAgentRunner instances will
\* be stopped").
ShutdownStopsAgents ==
    envoy = "exited" => \A c \in Ctx : proc[c] = "alive" => sig[c] = "kill"

--------------------------------------------------------------------------------
(***************************************************************************)
(* The inductive invariant behind SignalledAgentNotRestarted,              *)
(* StopCompletes and RunningIsWatched.                                     *)
(***************************************************************************)

\* A goroutine that works on a context works on an existing one, whose process
\* was started.
HoldsContext ==
    /\ \A t \in Threads : pc[t] \in Holding => cur[t] \in Ctx
    /\ \A t \in Threads : cur[t] \in Ctx => proc[cur[t]] # "none"

\* Only an ended process gets past Wait, and only past the end of the waiter is
\* its restart pending.
WaiterOrder ==
    \A c \in Ctx :
        /\ waiter[c] \in {"reaped", "nilled", "closed", "done"}
              => proc[c] \in {"exited", "signaled"}
        /\ timer[c] => waiter[c] = "done"

\* A context under construction belongs to one goroutine, and its waiter is
\* spawned before the context is recorded.
StartOrder ==
    /\ \A t \in Threads : pc[t] = "await" => waiter[cur[t]] = "none"
    /\ \A t \in Threads : pc[t] \in {"assign", "pid"} => waiter[cur[t]] # "none"
    /\ \A t, u \in Threads :
          pc[t] = "await" /\ cur[u] = cur[t] => u = t
    /\ running # NoCtx => proc[running] # "none" /\ waiter[running] # "none"

\* Past the marking, the context is marked as stopping; so is every context
\* whose process was signalled.
MarkedBeforeSignal ==
    /\ \A t \in Threads :
          /\ pc[t] \in {"term", "select", "kill"} => stopping[cur[t]]
          /\ pc[t] = "stopped" /\ cur[t] # NoCtx => stopping[cur[t]]
    /\ \A c \in Ctx : sig[c] # "none" => stopping[c]

IndInv ==
    /\ TypeOK
    /\ HoldsContext
    /\ WaiterOrder
    /\ StartOrder
    /\ MarkedBeforeSignal
    /\ OneStopper
    /\ SignalledAgentNotRestarted
    /\ StopCompletes

--------------------------------------------------------------------------------
(***************************************************************************)
(* When no agent ends by itself or is given up on, and no detach and no    *)
(* shutdown comes, mutetx orders all that happens to the agent. That is    *)
(* the invariant behind OneAgentProcess and PreviousVersionStopped; the    *)
(* other two promises of EnsureRunningState need more.                     *)
(***************************************************************************)
Calm == Events \cap {"crash", "await", "detach", "shutdown"} = {}

\* Only one instruction goroutine is at work, and no restart is pending.
OneAtATime ==
    /\ envoy \notin {"cancelled", "exited"}
    /\ \A t \in {Router} \cup Timers : pc[t] = "idle"
    /\ \A t, u \in Threads : pc[t] # "idle" /\ pc[u] # "idle" => t = u
    /\ \A c \in Ctx : ~timer[c]

\* A process that ended was stopped, and one that is being started was not.
EndedWereStopped ==
    /\ \A c \in Ctx : proc[c] \in {"exited", "signaled"} => stopping[c]
    /\ \A t \in Threads : pc[t] \in {"await", "assign"} =>
          proc[cur[t]] = "alive" /\ ~stopping[cur[t]]

\* The one process that nobody has decided to stop is the recorded one, or is
\* about to be; there is none when another may be started or linked.
OnlyRunning ==
    /\ \A t \in Threads :
          /\ pc[t] \in {"start", "term", "select", "kill", "stopped", "link"} =>
                Unstopped = {}
          /\ pc[t] \in {"await", "assign"} => Unstopped \subseteq {cur[t]}
          /\ pc[t] = "mark" => cur[t] = running
    /\ (\A t \in Threads : pc[t] \notin {"await", "assign"}) => Unstopped \subseteq {running}

\* A process that was marked but has not ended was sent KILL, or Stop is at it.
MarkedIsStopped ==
    \A c \in Ctx : proc[c] = "alive" /\ stopping[c] =>
        \/ sig[c] = "kill"
        \/ \E t \in Threads : cur[t] = c /\ pc[t] \in {"term", "select", "kill"}

CalmInv == OneAtATime /\ EndedWereStopped /\ OnlyRunning /\ MarkedIsStopped

\* What fails leaves nothing undone: an operation of telegraf that fails changes
\* no configuration, and an oracle agent that cannot be started ends the Envoy.
FailuresUndone ==
    /\ "badop" \in Events => Kind = "telegraf"
    /\ "exec" \in Events => Kind = "oracle"

InStop == {"stop", "mark", "term", "select", "kill", "stopped"}

\* AgentRunsWhenReady: the record of a stopped agent is kept only without an
\* executable, and a goroutine leaves no record only if the agent is not ready.
\* Filebeat keeps the record also without configs, and finds it when they come.
ReadyRuns ==
    /\ \A t \in Threads : pc[t] \in InStop =>
          /\ ret[t] = "idle" => ~(exe /\ configs)
          /\ ret[t] = "keep" => ~exe
    /\ \A t \in Threads : pc[t] = "link" => running = NoCtx
    /\ running # NoCtx /\ stopping[running] =>
          ~exe \/ \E t \in Threads : pc[t] \in {"term", "select", "kill", "stopped"}
    /\ /\ envoy = "up" /\ exe /\ configs
       /\ \A t \in Threads : pc[t] \in {"idle", "hup", "sighup", "pid", "getpid"}
       => running # NoCtx

\* StoppedWithoutConfigs: an agent is started or left running with configs only.
ConfiglessStopped ==
    /\ \A t \in Threads :
          /\ pc[t] \in {"isrun", "start", "await", "assign"} => configs
          /\ pc[t] \in InStop /\ ret[t] = "start" => configs
          /\ pc[t] \notin {"hup", "sighup", "pid", "getpid"}
    /\ ~configs /\ (\A t \in Threads : pc[t] = "idle") => Unstopped = {}

================================================================================
