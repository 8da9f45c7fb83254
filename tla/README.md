# Verification of the Salus telemetry Envoy

The Envoy (`src/`, Go) runs on a monitored host. It attaches to an Ambassador
over gRPC, receives instructions to install and configure monitoring agents
(telegraf, filebeat, a packages agent and an oracle agent), runs these agents as
child processes and forwards what they report. This directory holds TLA+ models
of its concurrent core, the TLC configurations that check them on small
instances, and TLAPS proofs for all instances.

## The system

| Component | Source | State | Operations | Interacts with |
|---|---|---|---|---|
| Connection | `ambassador/connection.go` | `attached`, `client`, `outgoingContext`, `grpcTlsDialOption`; per connection a context, an `errChan`, one `watchForInstructions` and a `sendKeepAlives` per Ready | dial, attach, serve, cancel, reload certificates, post metrics and log events | calls the router's `Process...` synchronously; signals detaches over `detachChan`; called by the ingestors |
| Router | `agents/agents_router.go` | `mutetx`, `ctx`, the `CURRENT` links | `ProcessInstall`, `ProcessConfigure`, `ProcessTestMonitor`, detach, purge, shutdown | calls the runners, from the connection's goroutines (under `mutetx`) and from its own (without) |
| Agent runners | `agents/telegraf.go`, `filebeat.go`, `oracle.go`, `pkgagent.go` | `running`, the agent's configs | `EnsureRunningState`, `ProcessConfig`, `PurgeConfig`, `PostInstall`, `Stop`, `ProcessTestMonitor` | drive the command handler; called by router and restart timers |
| Command handler | `agents/command_handler.go` | per process an `AgentRunningContext`: `cmd`, `stopping`, `stopped`, a mutex | start, wait, restart, signal, stop, forward output | operating system processes; calls back `EnsureRunningState` from a timer |
| Agent installation | `agents/agents.go`, `agents_router.go` | version directories on disk | download, extract, link | the router |
| Configurations | the four runners, `agents/agents.go`, `converters.go`, `config/listeners.go` | telegraf's `tomlConfigs`, files of the others, filebeat's main configuration, the ingestors' addresses | create, modify, remove, purge, read | written under `mutetx`, purged without, read by the agents and by the config server |
| Test monitors | `agents/telegraf.go`, `pkgagent.go`, `telegraf_test_config_runner.go` | a temporary config server and its error channel | run an agent once | the connection posts the result |
| Ingestors | `ingest/` | one channel each; rate, size and ticker of the performance test | bind, accept, decode, post; change rate and size | call the connection's `Post...`; register their addresses |
| Line protocol, labels, authentication | `lineproto/`, `config/labels.go`, `auth/` | none | pure conversions, reading of files | called at startup or per item |
| Process lifecycle | `cmd/common.go`, `cmd/run.go` | the application context | cancel on a signal, exit one second later | everything |

What is hard about it:

* **Concurrency without a common lock.** A runner's field `running` and the
  contexts are read and written by the connection's goroutines (under `mutetx`),
  by the router's goroutine, by restart timers and by `WaitOnAgentCommand`, the
  last three without `mutetx`.
* **Timeouts racing with late events.** Stop waits for `terminationTimeout` while
  the process may end at that moment; StartAgentCommand waits for an output that
  may never come.
* **Overlapping connections.** The goroutines of a lost connection end later than
  the next one is attached, and share `attached` and the router with it.
* **Asynchronous detach.** The router is told of a detach over a channel and
  purges when it gets to it.
* **Disk state that survives the Envoy.** A download that is interrupted leaves a
  directory which later counts as an installed version; configurations, and the
  address in filebeat's main configuration, are found by the next Envoy.
* **A channel that is read once.** The two forwarders of an agent's output share
  `waitForChan`, which has room for one result and no reader after the start.
* **Readers without a lock.** Telegraf's config server and the agents read
  configurations while an instruction or a purge changes them.

What makes each component correct: the runner keeps at most one agent process
that nobody stops, running exactly when it is ready and configured; Stop is
final; the connection lets data through only while a ready connection is served,
leaks no goroutines and always tries again; the configs present are those of the
present attachment, the agent goes by them and reports to this Envoy; its output
is always read; only completely installed versions are linked; every test
monitor is answered with metrics or a reason; what agents send reaches the
connection in order and is posted under the connection's own id.
`PROJECT.json` lists the hazards line by line with the properties about them.

## Modules

### `AgentRunner`: runner, command handler and processes of one agent

`Kind` selects which runner's `EnsureRunningState` is modelled: the four differ
in when they are ready (`Ready`), in how they apply configs to a running agent
(`CheckRunning`) and in what a failed start does (`GiveUp`). The goroutines are
`Instr` (connections that call the router), `Router`, and `Timers` (restart
timers that fired). `pc[t]` is where goroutine `t` is in the code, `cur[t]` the
`AgentRunningContext` its local variables name.

| Code | State and actions |
|---|---|
| `runner.running` | `running` |
| `AgentRunningContext.cmd`, `.stopped`, `cmd.ProcessState` | `waiter[c]`, how far `WaitOnAgentCommand` got, and `proc[c]`; read by `CmdNil`, `StoppedClosed`, `IsRunning` |
| `.stopping`, its mutex | `stopping[c]`, `LockFree` |
| `ProcessConfigure`, `ProcessInstall` | `ProcessConfigure`, `ProcessConfigureFails`, `InstallLinked`, `InstallUnlink`, `InstallLink` |
| `EnsureRunningState` | `Ensure`, `CheckRunning`, `Hup`, `SigHup`, `Pid`, `GetPid`, `Start`, `StartFails`, `AwaitOutput`, `AwaitFails`, `Assign` |
| `Stop` | `BeginStop`, `MarkStopping`, `Term`, `SelectStopped`, `SelectTimeout`, `Kill`, `StopReturns` |
| `WaitOnAgentCommand` | `Reap`, `NilCmd`, `CloseStopped`, `ScheduleRestart`, `TimerFires` |
| `Router.Start`, `handleInterrupts` | `RouterDetach`, `Purge`, `RouterShutdown`, `Cancel`, `MainExit` |

A dereference of a nil `cmd` is an explicit outcome (`NilDereference`). A context
to which nothing refers any more may be used again for a new process (`Fresh`),
so that a small set of contexts allows any number of starts.

Abstracted: the router's loop over all runners (each runner is modelled alone; a
purge that stops at an earlier runner's error is a choice), the contents of
configs (`AgentConfigs`), and the output of agents except whether the expected
line was seen (`OutputForwarder`).
`IsRunning` is read in one step, although it reads `cmd` more than once: a panic
inside it would be one more form of the `NilDereference` that the model has.
Two instruction goroutines contend only for `mutetx`.

### `EgressConnection`: the connection to the Ambassador

`main` is the control point of `Start` and `attach`; `errs`, `watcher`, `keepers`
and `ready` describe the goroutines of each connection in `Conn`; `detach` and
`router` are the channel to the router and its goroutine as far as the connection
depends on it. `configs` is the set of connections whose configs are stored.
A connection without goroutines and configs may be used again. Dialling is one
step (tcp6, then tcp4), and so is reacting to the errors of the backoff, whose
delays are not modelled.

### `AgentInstall`: versions on disk

`dir[v]` is what is on disk of version `v`, from absent over a created directory
and `bin` directory to a partial and a complete executable; `current` is the
target of `CURRENT`. `ProcessInstall` is split at every point where it can fail
or the Envoy can end. An archive holds at most one entry of the executable's
name. What may go wrong is the constant `Events`: faults of the download and the
disk, a truncated archive, a failing `stat` (which `fileExists` takes for absence,
so that an installed version is filled again, fails at its `bin` directory and is
removed), a `RemoveAll` that gives up halfway and whose error is ignored
(`RemoveFails`), and restarts. `EnvoyEnds`, possible at every point, loses
everything but the disk; `EnvoyStarts` follows. Two history variables, which no
guard reads: `misread` collects the versions whose directory was taken for absent
although it was there, until they are downloaded completely, and `leftover` those
of which a failed download left something, because the Envoy ended or the removal
failed.

### `AgentVersions`: the abstract specification of an install

A version is installed atomically, stays installed unless it was doubted
(`Doubt`, possible only if `MayDoubt`), and only installed versions are selected.
`AgentInstall` implements it, restarts and all failures included, with
`selected <- current`, `doubted <- misread` and `installed` mapped to what the code
itself takes for installed: the versions whose directory exists and is not being
filled. The end of the Envoy during a download, and a removal that fails, are
thereby an `Install` of what is there. That such a version may lack its executable
is a matter of its own: `LinkedExecutable`, which is proved without restarts and
failing removals and violated with either (see the deviations below).

### `TestMonitor`: one test monitor instruction

`pc` is the control point of the goroutine that `processTestMonitor` starts, from
the router's `ProcessTestMonitor` over the runner's to `PostTestMonitorResults`.
For telegraf there are the goroutine of the config server's `Serve` (`server`),
one goroutine per request (`handler[a]`, for the request of run `a`) and the
channel `configServerErrors`, of which only the number of errors put in (`sent`)
and taken out (`taken`) matters. The packages agent is run once, without a server;
the other two have no test monitors; an unknown type gets no answer at all. What
the output of the agent is like (`outcome`) is a choice, except that telegraf has
no metrics before it got its configuration. `link` says whether the context of
outgoing calls is done when the results are posted. Telegraf asks once per run;
that a client retries its request is left out. A send on the closed channel panics:
`net/http` recovers from it in the goroutine of a request, nobody does in that of
`Serve`. Test monitors share nothing but the connection, so that one is modelled.

### `Ingest`: from an agent's socket to the Ambassador

The goroutine of each socket decodes an item (`Receive`) and waits for room in the
ingestor's channel (`Enqueue`). The goroutine of `Start` takes one item after the
other and posts it: it reads `attached` (`CheckAttached`), then `outgoingContext`
(`TakeContext`), then calls over `client` (`CallSucceeds`, `CallFails`), with any
step of the connection in between. The connection is modelled as far as these
three fields and the contexts are concerned, in the order in which `attach` writes
them. Lumberjack's batches have several events and an acknowledgement; a metric of
TelegrafJson or LineProtocol is a batch of one, whose acknowledgement stands for
the end of the post. The channel of Lumberjack belongs to the library that receives
the batches. Histories (`accepted`, `handled`, `acked`, `posted`, `served`) are read
by properties only, and by the bound on what an agent sends.

The code acknowledges events that were dropped because the connection was not
attached, and the model shows that this happens; no document promises otherwise.
`PostedAsItself` excepts connections that could not be attached: their context is
never cancelled, and a call that took it before the flag was lowered could in
principle be sent over the connection after it.

### `OutputForwarder`: the output of one process

`start` is the select of `StartAgentCommand`, `chan` the buffer of `waitForChan`,
`fwd[s]` the control point of `handleCommandOutputPipe` for stdout and stderr, and
`pipe[s]` what the process wrote and nobody read, of which only matters which lines
have the expected phrase. The process may write on both streams, wait when a pipe is
full, close a stream or end at any time. `cmd.Wait` closes the reading ends, whatever
is left in them, and is called only after a successful start. Both cases of the
select may be ready, and either is then taken; a start that expects nothing finds its
result in the channel but may still time out, because its duration is zero. (`AgentRunner` has the
outcome of all this: `AwaitOutput` and `AwaitFails`.) The history `seen` is read by a
property only.

### `AgentConfigs`: the configurations of one agent

`kind` is one of the four runners, chosen in the initial state; the four differ in
where configurations are kept (telegraf's map, files), in what a failed operation does
(`Strict`), in what they accept (`Conversion`), in how files are overwritten
(`Overwrite`), and in how the agent learns of them (`CheckRunning`, `Told`).

| Code | State and actions |
|---|---|
| `run.go`: ingestors' `Bind`, `NewAgentsRunner` with `Load` and the first purge | `envoy`, `listening`, `main`; `Bind`, `Load`, `StartupPurge` |
| `GetListenerAddress`, main configurations, `--line-protocol-to-socket` | `Address`, `main`, `dials` |
| `tomlConfigs`, the files in `config.d` | `stored`, `dir`, `old` |
| `ProcessConfigure`, `ProcessConfig` | `BeginConfigure`, `Store`, `Remove`, `RemoveAbsent`, `OpFails`, `EndOps`, `NilMap`, `MapRace` |
| `ProcessInstall`, restarts of agents that ended | `Install`; `AgentEnds` makes a goroutine of `Timers` call `EnsureRunningState` |
| `EnsureRunningState` | `CheckReady`, `CheckRunning`, `Hup`, `Start`, `NilContext`, `StartFails`, `Started`, `Assign` |
| `Stop` | `CallStop`, `StopReturns` |
| the router's detach and `RemoveAll` | `RouterBegins`, `Detach`, `PurgeSkipped`, `PurgeBegins`, `PurgeFile`, `PurgeEnds`, `PurgeFails` |
| the agent and telegraf's config server | `BeginRead`, `EndRead`, `AgentEnds`, `OrphanEnds` |
| end of the Envoy | `EnvoyEnds`; the next one starts with `Bind` |

`EnsureRunningState` is taken apart where another goroutine can come in between: the
readiness check, `IsRunning`, the execution of the process, the return of
`StartAgentCommand` and the assignment of `running`. The instructions of all
connections are ordered by `mutetx` and therefore one goroutine (`Instr`); restarts
(`Timers`) and the router do not take it. So there may be several processes: the
recorded one, one that a restart is starting beside it, one that was recorded before
and is still waited for, and one that `StartAgentCommand` has given up on (`"orphan"`),
which nobody waits for or stops.

What the recorded agent does not know of is kept as the set of ids that changed since
it began to read (`behind`), so that contents need not be compared; a reader that meets
a change may get the old or the new. `missed` are those of which nobody will tell it:
what an instruction changed that then failed, what a purge removed, and what changed
while a goroutine was starting it (`overtaken`), because the process may have read before
and is recorded after. These three are histories; `old` too is read by properties only.
Contents are of two lengths, one that cannot be converted, and the JSON value `null`.
Main configurations hold the address of the present ingestor, of an earlier Envoy's
(`"stale"`), or none. That the executable is missing is a choice of `CheckReady`; the
signals and waits inside `Stop` are in `AgentRunner`; processes that outlive their Envoy
are not followed.

### `PerfTest`: the performance test ingestor

`loop` is the control point of `Start`, `pc[h]` that of the handler of request `h`. A
request has at most one number for the rate and one for the size; one that is not a
number stops the handler where an absent one goes on, and in both cases nothing more is
changed. The send on the unbuffered `newRateC` and its receipt are one step, and the
assignment of `floatsPerMetric` is another one, of any handler at any time. `Minute` is
the number of time units in a minute, so that a rate above it has the period zero. The
Envoy ends when a rate has no period (`ResetTicker`) and when the server cannot listen or
fails (`ServerFails`).

The modules `...MC` give the constants their values (those of `TestMonitor`,
`Ingest`, `OutputForwarder` and `PerfTest` are simple enough for their
configurations), the modules `...Proofs` hold the theorems. Definitions named `Mutant...` are plausible slips in the action
that follows them and occur in no specification; `PROJECT.json` says which
property detects which slip.

## Runs

All runs check for deadlock.

| Run | Shows | Bounds |
|---|---|---|
| `RunnerTelegraf` | a context is stopped by one goroutine; Stop is final, complete and restarts nothing, for telegraf | 2 contexts, 1 instruction goroutine, 1 timer; crashes, failing starts and startups given up, failing configurations, installs, detaches |
| `RunnerPackagesContract` | the contract of `EnsureRunningState` in quiet operation: one process, running when ready, stopped without configs, previous version stopped before the link | 2 contexts, 2 instruction goroutines, 1 timer; installs and configures, no crashes, detaches or timeouts at startup |
| `RunnerLiveness` | an agent that was sent TERM ends; a failed one is started again | filebeat, 2 contexts, 2 timers, router; crashes, detaches, shutdown; from the reachable state in which the agent has been started |
| `Connection` | `attached` is about the served connection; the other one is cancelled, its goroutines never block on `errChan` and end, but for a watcher whose instruction does not return; a lost connection is dialled again | 2 connections, 1 Ready each, `errChan` of 2, the least that suffices (the code has 10) |
| `InstallRestart` | the link dangles only after a failed `stat`; failed downloads leave nothing unless the removal fails or the Envoy ends; `AgentVersions` is implemented | 3 versions; all failures, and restarts at every point |
| `TestMonitor` | every instruction is dealt with; results have metrics or a reason and contain every error that got into the config server's channel; its goroutines end | the code's 3 runs and error channel of 2 |
| `Ingest` | nothing is lost or overtaken before it is posted; batches are acknowledged after their events; calls carry the id of their connection; no agent waits for ever | 2 sockets with 2 batches of at most 2 events, a channel of 1, 2 connections |
| `Forwarder` | a start succeeds only after the expected phrase; neither forwarder stalls an agent in service | pipes of one line; any number of lines |
| `Configs` | the recorded agent goes by what is stored, with the exceptions of `missed`, never by what an earlier Envoy stored, and every process reports to the Envoy that started it | all 4 runners, 2 configurations, 2 processes and 1 restart at a time, contents accepted and `null`; any number of operations, instructions, detaches, starts and lives of the Envoy |
| `PerfTest` | the ticker follows the last rate; requests are answered while the loop runs | 2 requests at a time, a minute of 3 units, rates 0, 1, 3 and 4 |

The bounds suffice for the cases of interest: two contexts are a process that is
being stopped and its successor; one instruction goroutine, the router and a timer
are the three ways into `EnsureRunningState` and `Stop`, and a second instruction
goroutine is kept out by `mutetx`; two connections are one that is served and one
whose goroutines are still ending, and each may be used again when it has ended;
three versions are the linked one, the one being installed and one that an earlier
run of the Envoy left; two sockets with a channel of one place contend for it, and
two connections let a post start on one and end on the next; a pipe of one line is
full after each write, and a larger one only delays that; two configurations are one
that an operation touches and one that it does not; two processes and a restart are
one that the restart starts and one that an instruction starts beside it; the rates are none, the lowest and the highest
that has a period, and one too high.
`RunnerTelegraf` identifies states that differ only in whether configurations are stored
(`VIEW TelegrafView`): of no step of the telegraf runner and of no property of the run
does that decide anything.
For all invariants and for the refinement the proofs remove the bounds; the bounds
matter for the liveness properties alone. The runs of `AgentRunner` have three of
its kinds; oracle, which differs in `Ready`, `CheckRunning` and `GiveUp`, is covered
by the proofs and by `AgentConfigs`.

The remaining runs end in a violation. Each checks a statement of the
documentation, a comment or a test that the code does not keep:

| Run | Statement | What happens |
|---|---|---|
| `RunnerKillRace` | `command_handler.go:134` | the process ends between the timeout and KILL; Stop dereferences the nil `cmd` |
| `ConnectionStaleConfigs` | `agents_router.go:45` | an instruction of a lost connection stores configs after the purge |

### Further deviations

The models show more of these, for which no configuration is kept. Each can be
reproduced by changing the named constants in the named configuration and checking
the one property:

| Property | Configuration | Change | What happens |
|---|---|---|---|
| `PreviousVersionStopped` (`agents_router.go:260`) | `RunnerPackagesContract` | `Kind = "filebeat"`, `Events = {"install", "detach"}` | somebody else is stopping the previous version, and the link is changed while it runs |
| `StoppedWithoutConfigs` (`agents.go:59`) | `RunnerPackagesContract` | `Kind = "telegraf"` | telegraf keeps running without configs |
| `AgentRunsWhenReady` (`agents.go:57`) | `RunnerPackagesContract` | `Kind = "filebeat"` | an agent that is being killed counts as running, then nothing starts it |
| `AgentRunsWhenReady` (`agents.go:57`, `README.md:75`) | `RunnerPackagesContract` | `Kind = "telegraf"`, `Events = {"crash"}`, no deadlock check | an agent that ends during its startup is not started again |
| `AgentRunsWhenReady` (`agents.go:54`, `agents.go:57`) | `RunnerPackagesContract` | `Events = {"badop"}` | a half applied instruction is not followed by `EnsureRunningState` |
| `PurgeSparesCurrent` (`agents_router.go:45`) | `ConnectionStaleConfigs` | as a `PROPERTY`, no symmetry | a late purge removes the configs of the next attachment |
| `NoPanic` (`connection.go:167`, "delaying until next attempt") | `ConnectionStaleConfigs` | none | a failed reload of certificates leaves a nil dial option, with which the next attempt panics |
| `LinkedExecutable` (`agents_router_test.go:147`) | `InstallRestart` | `Events = {"restart"}`, or `Events = {"fault", "remove"}` | an interrupted download, or what a failed removal left of one, is taken for an installed version |
| `NoPanic` (`agents_router.go:127`) | `InstallRestart` | `Events = {"truncated"}` | a truncated archive makes the Envoy panic |
| `ShutdownStopsAgents` (`README.md:72`, `agents.go:72`) | `RunnerLiveness` | as an `INVARIANT`, `Timers <- OneTimer`, `Events = {"shutdown"}` | the Envoy exits after 1 s, Stop would wait 5 s before KILL |
| `DefaultTimeoutApplied` (`README.md:77`) | `TestMonitor` | as an `INVARIANT` | the packages agent gets a timeout of zero when the instruction states none, and is not run |
| `NoPanic` (`telegraf.go:390`) | `TestMonitor` | as an `INVARIANT` | `Serve` fails and sends its error after the channel was closed |
| `ForwardersReturn` (`command_handler.go:255`) | `Forwarder` | as a `PROPERTY` | both streams end, the second forwarder waits for ever on `waitForChan`, for every agent that was started |
| `FilebeatDialsThisEnvoy` (`README.md:48`) | `Configs` | as an `INVARIANT` | filebeat's main configuration is created once; after a restart on another port filebeat dials the old one |
| `StoredAsSent` (`oracle.go:110`, `pkgagent.go:126`) | `Configs` | as an `INVARIANT`, `Sent = {"short", "long"}` | a file is overwritten without `O_TRUNC` and keeps the end of a longer content |
| `NothingMissed` (`agents.go:54`) | `Configs` | as an `INVARIANT`, one `kind` at a time | the agent is not told of what a failed instruction (packages, oracle) or a purge has changed; and a restart, without `mutetx`, records its process, which has read older configurations, over the one that an instruction has started meanwhile |
| `NoPanic` (`agents_router.go:168`) | `Configs` | as an `INVARIANT`, one `kind` at a time | the content `null` (packages, oracle), a map that is read while it is written (telegraf), an instruction before `Router.Start` has set `ctx` (all) |

## Fairness

`AgentRunner!Fairness`: every goroutine that can take a step takes one (the Go
scheduler), timers fire, and a process that was sent KILL ends (the operating
system). A process may ignore TERM for ever. Instructions, detaches, crashes and
the shutdown need not happen.

`EgressConnection!Fairness`: the goroutines run; `Recv` is only known to return
when its context is done, since gRPC then fails the call; no instruction need ever
arrive, and one that is being processed need not return, since `http.Get` has no
timeout and runs under `mutetx` (`agents.go:104`), so that `CancelledGoroutinesEnd`
leaves a watcher out as long as it has an instruction in hand; the router goes on (its Stop is bounded by `terminationTimeout` per
agent).

`TestMonitor!Fairness`: the goroutines run, and the context of a run expires and
its process is killed (every run has a timeout). The process need not end by itself,
`Serve` need not fail and the connection need not come back.

`Ingest!Fairness`: the ingestor's goroutine runs; a call is only known to fail, when
`GrpcCallLimit` has elapsed; and a socket's goroutine that waits for room in the
channel gets it in the end, which is strong fairness (`SF`) because the channel is
full again and again: Go serves the goroutines blocked on a channel in the order in
which they came.

`OutputForwarder!Fairness`: the goroutines run, the timer of the start fires and
`Wait` returns for a process that has ended. The agent need not write or end.

`PerfTest!Fairness`: the loop and the handlers run, a post returns (it has a time
limit), and a handler that keeps offering its rate is taken in the end, which is again
strong fairness: the select chooses at random among the cases that are ready. Ticks
and the end of the context need not come.

All other fairness is weak. `AgentInstall` and `AgentConfigs` state no
liveness: `http.Get` has no timeout and may never return, and agents read their
configurations when they like.

## Proofs

TLAPS checks the following for every value of the constants that satisfies the
named assumptions (distinct names, capacities of at least one, and so on). Each module
proves an inductive invariant `IndInv`, from which its properties follow.

* **`AgentRunnerProofs`**: `TypeOK`, `SignalledAgentNotRestarted`, `OneStopper`,
  `StopCompletes`, `RunningIsWatched`. None of the last four is inductive. `IndInv` adds:
  a goroutine past its first step works on a context whose process was started
  (`HoldsContext`); only an ended process gets past `Wait`, and only a finished
  waiter has a pending restart (`WaiterOrder`); a context under construction
  belongs to one goroutine and gets its waiter before it is recorded
  (`StartOrder`); the context is marked as stopping before any signal is sent
  (`MarkedBeforeSignal`); and the properties need one another: at most one goroutine
  gets to stop a context (`OneStopper`). `MarkedBeforeSignal` is the heart: the waiter reads `stopping`
  after the process ended, and a signalled process was marked before, so that no
  order of steps schedules a restart. `OneStopper` follows from the context's
  mutex and the test of `stopping`; `Fresh` matters because a context may be used
  again only when no goroutine holds it.
* **`EgressConnectionProofs`**: `TypeOK`, `OneLiveConnection`,
  `SendersNeverBlock` for any number of connections, if a stream carries fewer
  Ready instructions than `errChan` has places (`CapAssumption`); and
  `AttachedIsServed`, if a stream carries at most one Ready. The invariant counts
  errors reported and still to come per connection (`ErrorBudget`) and says that
  nobody gives up a connection before its first Ready while its watcher runs
  (`SilentUntilReady`). The assumption of one Ready is needed: a second one lets
  the watcher raise `attached` after a keep-alive failed.
* **`AgentInstallProofs`**: with all failures and with restarts at every point,
  `LinkedVersionExists`, `FailedInstallForgotten` and the refinement of
  `AgentVersions` (`ImplementsVersions`), from what each control point relies on
  (`Progress`: while a version is being downloaded the link does not name it, unless
  it was misread, and the directory is exactly as far as the control point). Nothing
  is misread unless a `stat` fails (`OnlyAfterStat`), so that without such a failure
  `CURRENT` never dangles (`LinkNeverDangles`). For an Envoy that is not restarted and
  whose removals succeed also `LinkedExecutable`: then nothing is ever left over.
* **`TestMonitorProofs`**: `TypeOK`, `AnswerExplained` and `ServerErrorsCaptured`,
  for any number of retries and any capacity of the error channel. The invariant says
  what is known of the results at each control point (`ResultsSoFar`), that nothing is
  taken out of the error channel before it is closed, and nothing put in afterwards
  (`ErrorsTaken`), and that an instruction without a config server has no errors of
  one (`ServerStarted`).
* **`OutputForwarderProofs`**: `TypeOK`, `StartedAsExpected` and
  `ForwardersNotBlocked`, for every size of pipe. A success in the channel, or about to
  be sent, means that the phrase was seen (`SuccessWasSeen`). As long as no stream was
  closed, only a forwarder that has found the phrase sends a result and stops looking,
  so that a result in the channel or taken by the start accounts for one of the two
  forwarders and both results for both (`ResultsCounted`): nobody is left to send a
  third, for which there would be no room.
* **`AgentConfigsProofs`**: `TypeOK`, `EarlierConfigsGone`, `AgentDialsThisEnvoy` and
  `AgentUpToDate`, for all four runners, any set of configurations, any number of
  processes, restarts under way, operations and lives of the Envoy. Processes and
  goroutines that deal with them exist only in an Envoy that is up (`OnlyInEnvoy`), and
  every process was given the address that this Envoy has bound (`DialsAddress`). A
  process that is being started belongs to one goroutine, and the recorded one is
  waited for (`Owned`). `BehindIsTold` is the heart: what the recorded agent is behind
  with was changed by the operations of an instruction that is still to tell it or to
  stop it (`touched`, `Telling`), or is missed for a reason that the property names.
  The lemma `ChangedFacts` bounds what one change can add, and `MoveInd` covers all
  steps that only move a goroutine.
* **`IngestProofs`**: `TypeOK`, `NothingLostOrReordered`, `AckedAreHandled` and
  `PostedAsItself`, for any number of sockets, batches, events and connections and any
  capacity of the channel. A socket numbers what it accepts (`Numbered`), so that what
  is acknowledged, being posted, queued and in hand can be compared by number, and
  each step moves the first batch of one of these sequences to the end of the next
  (`InPlace`, with a lemma for every kind of move). `PosterState` and `HandledSoFar` say how
  far the post of the current batch has got. `ContextsInOrder` orders the connections
  that a call read its context from, that the field names and that is dialled, and says
  that an attached one is cancelled before the next is dialled.
* **`PerfTestProofs`**: `TickerFollowsRate`, for any length of
  a minute, set of rates and set of requests; the lemma `PeriodRange` says that exactly
  the rates from 1 to `Minute` have a period.
* **The contract of `EnsureRunningState`** (the last part of `AgentRunnerProofs`). The
  code keeps it only as long as `mutetx` orders all that happens to the agent. `Calm`
  says so of the environment: no agent ends unless it is stopped, no startup is given
  up on, and neither a detach nor a shutdown comes; failing starts and failing
  configurations may occur. Then `OneAgentProcess` and `PreviousVersionStopped` hold
  for every kind, and `StoppedWithoutConfigs` for filebeat and, unless an operation
  fails, for the packages agent. `AgentRunsWhenReady` holds for every kind but filebeat
  if besides nothing fails in a way that leaves something undone (`FailuresUndone`): a
  failing configuration of telegraf changes nothing, and a failing start of oracle ends
  the Envoy. The invariant `CalmInv` says that the one
  process that nobody stops is the recorded one or about to be recorded, that there is
  none whenever another may be started or linked, and that a process marked as stopping
  is being stopped or was sent KILL; `ReadyRuns` and `ConfiglessStopped` say when a
  record of a stopped agent is kept and when an agent may be started. The hypotheses are
  needed: TLC finds `OneAgentProcess` and `PreviousVersionStopped` violated with any one
  of the events that `Calm` excludes (except a startup given up on by oracle, which ends
  the Envoy), and the other two for each kind and event left out, except for the shutdown
  (they speak only of the time before it) and that same startup of oracle. Some of these
  are among the deviations above. The hypotheses include the constants of the run
  `RunnerPackagesContract`.

Every invariant that a run checks is thereby proved, and so is the refinement. Each
inductive invariant was checked by TLC, on the instances of the runs, before it was
proved.

Two properties of `Ingest` are stated in the form in which they can be reasoned about.
`NothingLostOrReordered` could be written as one equation between sequences filtered
by socket, but what a filter yields is known only by induction over sequences, which
the provers lack; because a socket numbers what it accepts, the numbers say the same.
`AckedAreHandled` includes the order in which the events of a socket are handled.

Only model-checked: all liveness properties (`TerminatedAgentEnds`,
`FailedAgentRestarted`, `CancelledGoroutinesEnd`, `LostConnectionRedialled`,
`InstructionAnswered`, `ServerGoroutinesEnd`, `BatchesHandled`, `OutputFlows`,
`RequestsAnswered`), since fairness and `ENABLED` are out of the prover's reach, and
the violations, which are counterexamples of the small instances.

## Not modelled

* The text of configurations and metrics: how keys are renamed, numbers written,
  templates filled and lines parsed (`converters.go`, `lineproto/`, the main
  configurations). These are single calls of libraries without state; a model would
  restate them. What the callers tell apart (accepted, refused, panics) is modelled.
* Labels, authentication, the registry of runners, the command line, the detached
  runner and the stress test: they run once at startup or in one goroutine, and keep
  no state that others share. That loading certificates may fail is part of
  `EgressConnection`.
* Several runners at once: they share only `mutetx`, the router's goroutine and the
  exit of the Envoy. Each module follows one agent, and what the router does to the
  others first is a delay, or, for a purge that stops at an error, a choice.
* Processes that outlive their Envoy: they are not found by the next one, and no
  state of the Envoy depends on them.
* Real time: every timeout may fire at any moment. The one exception is the
  second before the Envoy exits, during which the router gets through all steps
  that do not block (`MainExit`).

## Plan

Done: the models above, and proofs of every invariant that a run checks. Next:

1. `AgentInstall`: a type invariant as a theorem of its own, and that a version once
   complete is never damaged by a later install as long as no `stat` fails, as an
   action property.
2. `EgressConnection`: what is still true of the stored configurations in spite of
   `ConnectionStaleConfigs`: under which order of detach and attach `NoStaleConfigs`
   and `PurgeSparesCurrent` hold.
3. An abstract specification of a runner (one agent, started and stopped atomically)
   that `AgentRunner` implements under `Calm`.
