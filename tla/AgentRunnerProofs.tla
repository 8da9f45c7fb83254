--------------------------- MODULE AgentRunnerProofs ---------------------------
(***************************************************************************)
(* TLAPS proofs about AgentRunner, for every kind of agent, every set of   *)
(* contexts, goroutines and events; the promises of EnsureRunningState, in *)
(* the last part, for the kinds and events of which they are true.         *)
(***************************************************************************)
EXTENDS AgentRunner, TLAPS

\* Every step of the goroutines, of the waiters and of the environment keeps
\* the variables in their types; in particular a goroutine that returns from
\* Stop goes on at a control point (agents_router.go, command_handler.go).
LEMMA TypeStep == TypeOK /\ [Next]_vars => TypeOK'
  <1> SUFFICES ASSUME TypeOK, [Next]_vars PROVE TypeOK'
    OBVIOUS
  <1> USE NamesAssumption DEF TypeOK, contexts, osVars, threads, files, Goto, CallStop,
                              Labels, Holding
  <1>1. ASSUME NEW t \in Instr, Instruction(t) PROVE TypeOK'
    <2> t \in Threads
      BY DEF Threads
    <2>1. CASE ProcessConfigure(t)
      BY <2>1 DEF ProcessConfigure
    <2>2. CASE ProcessConfigureFails(t)
      BY <2>2 DEF ProcessConfigureFails
    <2>3. CASE InstallLinked(t)
      BY <2>3 DEF InstallLinked
    <2>4. CASE InstallUnlink(t)
      BY <2>4 DEF InstallUnlink
    <2> QED
      BY <1>1, <2>1, <2>2, <2>3, <2>4 DEF Instruction
  <1>2. ASSUME NEW t \in Threads, EnsureStep(t) PROVE TypeOK'
    <2>1. CASE Ensure(t)
      BY <2>1 DEF Ensure
    <2>2. CASE CheckRunning(t)
      BY <2>2 DEF CheckRunning
    <2>3. CASE Hup(t)
      BY <2>3 DEF Hup
    <2>4. CASE SigHup(t)
      BY <2>4 DEF SigHup
    <2>5. CASE Pid(t)
      BY <2>5 DEF Pid
    <2>6. CASE GetPid(t)
      BY <2>6 DEF GetPid
    <2>7. CASE StartFails(t)
      BY <2>7 DEF StartFails, GiveUp
    <2>8. CASE AwaitOutput(t)
      BY <2>8 DEF AwaitOutput
    <2>9. CASE AwaitFails(t)
      BY <2>9 DEF AwaitFails, GiveUp
    <2>10. CASE Assign(t)
      BY <2>10 DEF Assign
    <2>11. ASSUME NEW c \in Ctx, Start(t, c) PROVE TypeOK'
      BY <2>11 DEF Start
    <2> QED
      BY <1>2, <2>1, <2>2, <2>3, <2>4, <2>5, <2>6, <2>7, <2>8, <2>9, <2>10, <2>11 DEF EnsureStep
  <1>3. ASSUME NEW t \in Threads, StopStep(t) PROVE TypeOK'
    <2>1. CASE BeginStop(t)
      BY <2>1 DEF BeginStop
    <2>2. CASE MarkStopping(t)
      BY <2>2 DEF MarkStopping
    <2>3. CASE Term(t)
      BY <2>3 DEF Term, Deliver
    <2>4. CASE SelectStopped(t)
      BY <2>4 DEF SelectStopped
    <2>5. CASE SelectTimeout(t)
      BY <2>5 DEF SelectTimeout
    <2>6. CASE Kill(t)
      BY <2>6 DEF Kill, Deliver
    <2>7. CASE StopReturns(t)
      BY <2>7 DEF StopReturns
    <2>8. CASE NilDereference(t)
      BY <2>8 DEF NilDereference
    <2> QED
      BY <1>3, <2>1, <2>2, <2>3, <2>4, <2>5, <2>6, <2>7, <2>8 DEF StopStep
  <1>4. ASSUME NEW t \in Threads, InstallLink(t) PROVE TypeOK'
    BY <1>4 DEF InstallLink
  <1>5. ASSUME NEW c \in Ctx, WaiterStep(c) PROVE TypeOK'
    <2>1. CASE Reap(c)
      BY <2>1 DEF Reap
    <2>2. CASE NilCmd(c)
      BY <2>2 DEF NilCmd
    <2>3. CASE CloseStopped(c)
      BY <2>3 DEF CloseStopped
    <2>4. CASE ScheduleRestart(c)
      BY <2>4 DEF ScheduleRestart
    <2> QED
      BY <1>5, <2>1, <2>2, <2>3, <2>4 DEF WaiterStep
  <1>6. ASSUME NEW c \in Ctx, ProcessDies(c) PROVE TypeOK'
    BY <1>6 DEF ProcessDies
  <1>7. ASSUME NEW c \in Ctx, NEW t \in Timers, TimerFires(c, t) PROVE TypeOK'
    BY <1>7 DEF TimerFires, Threads
  <1>8. CASE RouterStep
    <2> Router \in Threads
      BY DEF Threads
    <2>1. CASE RouterDetach
      BY <2>1 DEF RouterDetach
    <2>2. CASE Purge
      BY <2>2 DEF Purge
    <2>3. CASE RouterShutdown
      BY <2>3 DEF RouterShutdown
    <2> QED
      BY <1>8, <2>1, <2>2, <2>3 DEF RouterStep
  <1>9. CASE Cancel \/ MainExit \/ Ended
    BY <1>9 DEF Cancel, MainExit, Ended, vars
  <1>10. CASE UNCHANGED vars
    BY <1>10 DEF vars
  <1> QED
    BY <1>1, <1>2, <1>3, <1>4, <1>5, <1>6, <1>7, <1>8, <1>9, <1>10
       DEF Next, ThreadStep

\* The Envoy starts with the variables of the runner in their types.
LEMMA InitTypeOK == Init => TypeOK
  <1> SUFFICES ASSUME Init PROVE TypeOK
    OBVIOUS
  <1>1. "idle" \in Labels
    BY DEF Labels
  <1>2. /\ waiter \in [Ctx -> {"none", "waiting", "reaped", "nilled", "closed", "done"}]
        /\ stopping \in [Ctx -> BOOLEAN]
        /\ timer \in [Ctx -> BOOLEAN]
        /\ proc \in [Ctx -> {"none", "alive", "exited", "signaled"}]
        /\ sig \in [Ctx -> {"none", "term", "kill"}]
    BY DEF Init
  <1>3. /\ pc \in [Threads -> Labels]
        /\ cur \in [Threads -> Ctx \cup {NoCtx}]
        /\ ret \in [Threads -> {"idle", "keep", "start", "link", "purge", "exit"}]
        /\ apply \in [Threads -> BOOLEAN]
    BY <1>1 DEF Init
  <1> QED
    BY <1>2, <1>3 DEF Init, TypeOK

\* The variables of the runner always have their types.
THEOREM TypeCorrect == Spec => []TypeOK
  BY InitTypeOK, TypeStep, PTL DEF Spec

--------------------------------------------------------------------------------
\* What an action that only moves goroutine t has to establish.
Moves(t, label, c) ==
    /\ Goto(t, label, c)
    /\ UNCHANGED <<contexts, osVars>>

\* A goroutine that lets go of its context, or that works on none, preserves
\* the inductive invariant: this covers most steps of EnsureRunningState and of
\* the router (agents_router.go, telegraf.go, filebeat.go, pkgagent.go).
LEMMA ReleasePreserves ==
    ASSUME IndInv, TypeOK', NEW t \in Threads, NEW label \in Labels \ Holding,
           Moves(t, label, NoCtx)
    PROVE  IndInv'
  <1> USE NamesAssumption DEF Moves, Goto, contexts, osVars
  <1>1. HoldsContext'
    BY DEF IndInv, TypeOK, HoldsContext
  <1>2. WaiterOrder'
    BY DEF IndInv, TypeOK, WaiterOrder
  <1>3. StartOrder'
    BY DEF IndInv, TypeOK, StartOrder, HoldsContext, Holding
  <1>4. MarkedBeforeSignal'
    BY DEF IndInv, TypeOK, MarkedBeforeSignal, Holding
  <1>5. OneStopper'
    BY DEF IndInv, TypeOK, OneStopper, Holding
  <1>6. SignalledAgentNotRestarted'
    BY DEF IndInv, SignalledAgentNotRestarted
  <1>7. StopCompletes'
    BY DEF IndInv, TypeOK, StopCompletes, Holding
  <1> QED
    BY <1>1, <1>2, <1>3, <1>4, <1>5, <1>6, <1>7 DEF IndInv

\* So does every step that changes no context, no process and no control point,
\* whatever it does to the files or to the Envoy.
LEMMA IdlePreserves ==
    ASSUME IndInv, TypeOK', UNCHANGED <<contexts, osVars, pc, cur>>
    PROVE  IndInv'
  BY DEF IndInv, TypeOK, contexts, osVars, HoldsContext, WaiterOrder, StartOrder,
         MarkedBeforeSignal, OneStopper, SignalledAgentNotRestarted, StopCompletes

\* A goroutine of telegraf that takes up the recorded context, to signal it or to
\* read its Pid, does not interfere with starting or stopping it.
LEMMA ObtainPreserves ==
    ASSUME IndInv, TypeOK', NEW t \in Threads, NEW c \in Ctx,
           NEW label \in {"sighup", "pid", "getpid"},
           proc[c] # "none", waiter[c] # "none", Moves(t, label, c)
    PROVE  IndInv'
  <1> USE NamesAssumption DEF IndInv, TypeOK, contexts, osVars, Goto, Holding, Moves
  <1>1. HoldsContext'
    BY DEF HoldsContext
  <1>2. WaiterOrder'
    BY DEF WaiterOrder
  <1>3. StartOrder'
    BY DEF StartOrder, HoldsContext
  <1>4. MarkedBeforeSignal'
    BY DEF MarkedBeforeSignal
  <1>5. OneStopper'
    BY DEF OneStopper
  <1>6. SignalledAgentNotRestarted'
    BY DEF SignalledAgentNotRestarted
  <1>7. StopCompletes'
    BY DEF StopCompletes
  <1> QED
    BY <1>1, <1>2, <1>3, <1>4, <1>5, <1>6, <1>7

\* StartAgentCommand: a fresh context has no past.
LEMMA StartPreserves ==
    ASSUME IndInv, TypeOK', NEW t \in Threads, NEW c \in Ctx, Start(t, c)
    PROVE  IndInv'
  <1> USE NamesAssumption DEF IndInv, TypeOK, contexts, osVars, Goto, Holding, Start, Fresh
  <1>1. HoldsContext'
    BY DEF HoldsContext
  <1>2. WaiterOrder'
    BY DEF WaiterOrder
  <1>3. StartOrder'
    BY DEF StartOrder, HoldsContext
  <1>4. MarkedBeforeSignal'
    BY DEF MarkedBeforeSignal, HoldsContext
  <1>5. OneStopper'
    BY DEF OneStopper
  <1>6. SignalledAgentNotRestarted'
    BY DEF SignalledAgentNotRestarted, WaiterOrder
  <1>7. StopCompletes'
    BY DEF StopCompletes
  <1> QED
    BY <1>1, <1>2, <1>3, <1>4, <1>5, <1>6, <1>7

\* The waiter is spawned for a context that no other goroutine knows.
LEMMA AwaitOutputPreserves ==
    ASSUME IndInv, TypeOK', NEW t \in Threads, AwaitOutput(t)
    PROVE  IndInv'
  <1> USE NamesAssumption DEF IndInv, TypeOK, contexts, osVars, Goto, Holding, AwaitOutput
  <1>1. HoldsContext'
    BY DEF HoldsContext
  <1>2. WaiterOrder'
    BY DEF WaiterOrder, HoldsContext, StartOrder
  <1>3. StartOrder'
    BY DEF StartOrder, HoldsContext
  <1>4. MarkedBeforeSignal'
    BY DEF MarkedBeforeSignal
  <1>5. OneStopper'
    BY DEF OneStopper
  <1>6. SignalledAgentNotRestarted'
    BY DEF SignalledAgentNotRestarted
  <1>7. StopCompletes'
    BY DEF StopCompletes
  <1> QED
    BY <1>1, <1>2, <1>3, <1>4, <1>5, <1>6, <1>7

\* The context that becomes the recorded one has a waiter.
LEMMA AssignPreserves ==
    ASSUME IndInv, TypeOK', NEW t \in Threads, Assign(t)
    PROVE  IndInv'
  <1> USE NamesAssumption DEF IndInv, TypeOK, contexts, osVars, Goto, Holding, Assign
  <1>1. HoldsContext'
    BY DEF HoldsContext
  <1>2. WaiterOrder'
    BY DEF WaiterOrder
  <1>3. StartOrder'
    BY DEF StartOrder, HoldsContext
  <1>4. MarkedBeforeSignal'
    BY DEF MarkedBeforeSignal
  <1>5. OneStopper'
    BY DEF OneStopper
  <1>6. SignalledAgentNotRestarted'
    BY DEF SignalledAgentNotRestarted
  <1>7. StopCompletes'
    BY DEF StopCompletes
  <1> QED
    BY <1>1, <1>2, <1>3, <1>4, <1>5, <1>6, <1>7

\* Stop: the lock and the field stopping let one goroutine through.
LEMMA BeginStopPreserves ==
    ASSUME IndInv, TypeOK', NEW t \in Threads, BeginStop(t)
    PROVE  IndInv'
  <1> USE NamesAssumption DEF IndInv, TypeOK, contexts, osVars, Goto, Holding, BeginStop, Running, IsRunning
  <1>1. HoldsContext'
    BY DEF HoldsContext, StartOrder
  <1>2. WaiterOrder'
    BY DEF WaiterOrder
  <1>3. StartOrder'
    BY DEF StartOrder, HoldsContext
  <1>4. MarkedBeforeSignal'
    BY DEF MarkedBeforeSignal
  <1>5. OneStopper'
    BY DEF OneStopper, MarkedBeforeSignal, LockFree
  <1>6. SignalledAgentNotRestarted'
    BY DEF SignalledAgentNotRestarted
  <1>7. StopCompletes'
    BY DEF StopCompletes
  <1> QED
    BY <1>1, <1>2, <1>3, <1>4, <1>5, <1>6, <1>7

\* Stop: the mark is set before any signal is sent.
LEMMA MarkPreserves ==
    ASSUME IndInv, TypeOK', NEW t \in Threads, MarkStopping(t)
    PROVE  IndInv'
  <1> USE NamesAssumption DEF IndInv, TypeOK, contexts, osVars, Goto, Holding, MarkStopping
  <1>1. HoldsContext'
    BY DEF HoldsContext
  <1>2. WaiterOrder'
    BY DEF WaiterOrder
  <1>3. StartOrder'
    BY DEF StartOrder, HoldsContext
  <1>4. MarkedBeforeSignal'
    BY DEF MarkedBeforeSignal, HoldsContext
  <1>5. OneStopper'
    BY DEF OneStopper
  <1>6. SignalledAgentNotRestarted'
    BY DEF SignalledAgentNotRestarted
  <1>7. StopCompletes'
    BY DEF StopCompletes
  <1> QED
    BY <1>1, <1>2, <1>3, <1>4, <1>5, <1>6, <1>7

\* Stop: TERM reaches a process only while its waiter has not got past Wait.
LEMMA TermPreserves ==
    ASSUME IndInv, TypeOK', NEW t \in Threads, Term(t)
    PROVE  IndInv'
  <1> USE NamesAssumption DEF IndInv, TypeOK, contexts, osVars, Goto, Holding, Term, Deliver
  <1>1. HoldsContext'
    BY DEF HoldsContext
  <1>2. WaiterOrder'
    BY DEF WaiterOrder
  <1>3. StartOrder'
    BY DEF StartOrder
  <1>4. MarkedBeforeSignal'
    BY DEF MarkedBeforeSignal, HoldsContext
  <1>5. OneStopper'
    BY DEF OneStopper
  <1>6. SignalledAgentNotRestarted'
    BY DEF SignalledAgentNotRestarted, WaiterOrder, HoldsContext
  <1>7. StopCompletes'
    BY DEF StopCompletes, OneStopper, HoldsContext
  <1> QED
    BY <1>1, <1>2, <1>3, <1>4, <1>5, <1>6, <1>7

\* Stop: the channel stopped is closed only after the process ended.
LEMMA SelectPreserves ==
    ASSUME IndInv, TypeOK', NEW t \in Threads, SelectStopped(t) \/ SelectTimeout(t)
    PROVE  IndInv'
  <1> USE NamesAssumption DEF IndInv, TypeOK, contexts, osVars, Goto, Holding, SelectStopped, SelectTimeout, StoppedClosed
  <1>1. HoldsContext'
    BY DEF HoldsContext
  <1>2. WaiterOrder'
    BY DEF WaiterOrder
  <1>3. StartOrder'
    BY DEF StartOrder
  <1>4. MarkedBeforeSignal'
    BY DEF MarkedBeforeSignal, HoldsContext
  <1>5. OneStopper'
    BY DEF OneStopper
  <1>6. SignalledAgentNotRestarted'
    BY DEF SignalledAgentNotRestarted
  <1>7. StopCompletes'
    BY DEF StopCompletes, WaiterOrder, HoldsContext
  <1> QED
    BY <1>1, <1>2, <1>3, <1>4, <1>5, <1>6, <1>7

\* Stop: KILL follows the mark too.
LEMMA KillPreserves ==
    ASSUME IndInv, TypeOK', NEW t \in Threads, Kill(t)
    PROVE  IndInv'
  <1> USE NamesAssumption DEF IndInv, TypeOK, contexts, osVars, Goto, Holding, Kill, Deliver
  <1>1. HoldsContext'
    BY DEF HoldsContext
  <1>2. WaiterOrder'
    BY DEF WaiterOrder
  <1>3. StartOrder'
    BY DEF StartOrder
  <1>4. MarkedBeforeSignal'
    BY DEF MarkedBeforeSignal, HoldsContext
  <1>5. OneStopper'
    BY DEF OneStopper
  <1>6. SignalledAgentNotRestarted'
    BY DEF SignalledAgentNotRestarted, WaiterOrder, HoldsContext
  <1>7. StopCompletes'
    BY DEF StopCompletes, HoldsContext
  <1> QED
    BY <1>1, <1>2, <1>3, <1>4, <1>5, <1>6, <1>7

\* The runner forgets the stopped context.
LEMMA StopReturnsPreserves ==
    ASSUME IndInv, TypeOK', NEW t \in Threads, StopReturns(t)
    PROVE  IndInv'
  <1> USE NamesAssumption DEF IndInv, TypeOK, contexts, osVars, Goto, Holding, StopReturns
  <1>1. HoldsContext'
    BY DEF HoldsContext
  <1>2. WaiterOrder'
    BY DEF WaiterOrder
  <1>3. StartOrder'
    BY DEF StartOrder, HoldsContext
  <1>4. MarkedBeforeSignal'
    BY DEF MarkedBeforeSignal
  <1>5. OneStopper'
    BY DEF OneStopper
  <1>6. SignalledAgentNotRestarted'
    BY DEF SignalledAgentNotRestarted
  <1>7. StopCompletes'
    BY DEF StopCompletes
  <1> QED
    BY <1>1, <1>2, <1>3, <1>4, <1>5, <1>6, <1>7

\* WaitOnAgentCommand: each of its steps follows the end of the process, and the
\* restart is scheduled only if no mark was set.
LEMMA WaiterPreserves ==
    ASSUME IndInv, TypeOK', NEW c \in Ctx, WaiterStep(c)
    PROVE  IndInv'
  <1> USE NamesAssumption DEF IndInv, TypeOK, contexts, osVars, Goto, Holding, threads,
          WaiterStep, Reap, NilCmd, CloseStopped, ScheduleRestart
  <1>1. HoldsContext'
    BY DEF HoldsContext
  <1>2. WaiterOrder'
    BY DEF WaiterOrder
  <1>3. StartOrder'
    BY DEF StartOrder, HoldsContext
  <1>4. MarkedBeforeSignal'
    BY DEF MarkedBeforeSignal
  <1>5. OneStopper'
    BY DEF OneStopper
  <1>6. SignalledAgentNotRestarted'
    BY DEF SignalledAgentNotRestarted, MarkedBeforeSignal
  <1>7. StopCompletes'
    BY DEF StopCompletes
  <1> QED
    BY <1>1, <1>2, <1>3, <1>4, <1>5, <1>6, <1>7

\* A restart timer that fires takes a goroutine that had nothing in hand.
LEMMA TimerPreserves ==
    ASSUME IndInv, TypeOK', NEW c \in Ctx, NEW t \in Timers, TimerFires(c, t)
    PROVE  IndInv'
  <1> USE NamesAssumption DEF IndInv, TypeOK, contexts, osVars, Goto, Holding, TimerFires, Threads
  <1>1. HoldsContext'
    BY DEF HoldsContext
  <1>2. WaiterOrder'
    BY DEF WaiterOrder
  <1>3. StartOrder'
    BY DEF StartOrder, HoldsContext
  <1>4. MarkedBeforeSignal'
    BY DEF MarkedBeforeSignal
  <1>5. OneStopper'
    BY DEF OneStopper
  <1>6. SignalledAgentNotRestarted'
    BY DEF SignalledAgentNotRestarted
  <1>7. StopCompletes'
    BY DEF StopCompletes
  <1> QED
    BY <1>1, <1>2, <1>3, <1>4, <1>5, <1>6, <1>7

\* The end of a process disturbs none of the bookkeeping.
LEMMA ProcessDiesPreserves ==
    ASSUME IndInv, TypeOK', NEW c \in Ctx, ProcessDies(c)
    PROVE  IndInv'
  <1> USE NamesAssumption DEF IndInv, TypeOK, contexts, osVars, Goto, Holding, threads, ProcessDies
  <1>1. HoldsContext'
    BY DEF HoldsContext
  <1>2. WaiterOrder'
    BY DEF WaiterOrder
  <1>3. StartOrder'
    BY DEF StartOrder, HoldsContext
  <1>4. MarkedBeforeSignal'
    BY DEF MarkedBeforeSignal
  <1>5. OneStopper'
    BY DEF OneStopper
  <1>6. SignalledAgentNotRestarted'
    BY DEF SignalledAgentNotRestarted
  <1>7. StopCompletes'
    BY DEF StopCompletes
  <1> QED
    BY <1>1, <1>2, <1>3, <1>4, <1>5, <1>6, <1>7

--------------------------------------------------------------------------------
\* Every step of the runner preserves the inductive invariant: one case for each
\* action, settled by the lemma for what the action does to the contexts.
LEMMA IndInvStep == IndInv /\ [Next]_vars => IndInv'
  <1> SUFFICES ASSUME IndInv, [Next]_vars PROVE IndInv'
    OBVIOUS
  <1>0. TypeOK /\ TypeOK' /\ HoldsContext /\ StartOrder
    BY TypeStep DEF IndInv
  <1> USE <1>0 DEF Moves, CallStop
  <1> DEFINE Free == Labels \ Holding
  <1>a. {"idle", "ensure", "isrun", "hup", "start", "stop", "stopped", "link",
         "purge", "exit"} \subseteq Free
    BY DEF Labels, Holding
  <1>1. ASSUME NEW t \in Instr, Instruction(t) PROVE IndInv'
    <2> t \in Threads
      BY DEF Threads
    <2>1. CASE ProcessConfigure(t)
      BY <1>a, <2>1, ReleasePreserves DEF ProcessConfigure
    <2>2. CASE ProcessConfigureFails(t)
      BY <2>2, IdlePreserves DEF ProcessConfigureFails, threads
    <2>3. CASE InstallLinked(t)
      BY <1>a, <2>3, ReleasePreserves DEF InstallLinked
    <2>4. CASE InstallUnlink(t)
      BY <1>a, <2>4, ReleasePreserves DEF InstallUnlink
    <2> QED
      BY <1>1, <2>1, <2>2, <2>3, <2>4 DEF Instruction
  <1>2. ASSUME NEW t \in Threads, EnsureStep(t) PROVE IndInv'
    <2>a. running # NoCtx =>
            running \in Ctx /\ proc[running] # "none" /\ waiter[running] # "none"
      BY DEF TypeOK, StartOrder
    <2>1. CASE Ensure(t)
      BY <1>a, <2>1, ReleasePreserves DEF Ensure
    <2>2. CASE CheckRunning(t)
      BY <1>a, <2>2, ReleasePreserves DEF CheckRunning
    <2>3. CASE Hup(t)
      BY <1>a, <2>3, <2>a, ReleasePreserves, ObtainPreserves DEF Hup, Running
    <2>4. CASE SigHup(t)
      BY <1>a, <2>4, <2>a, ReleasePreserves, ObtainPreserves DEF SigHup
    <2>5. CASE Pid(t)
      <3>1. cur[t] \in Ctx /\ proc[cur[t]] # "none" /\ waiter[cur[t]] # "none"
        BY <2>5 DEF Pid, HoldsContext, StartOrder, Holding
      <3> QED
        BY <1>a, <2>5, <3>1, ReleasePreserves, ObtainPreserves DEF Pid
    <2>6. CASE GetPid(t)
      BY <1>a, <2>6, ReleasePreserves DEF GetPid
    <2>7. CASE StartFails(t)
      BY <1>a, <2>7, ReleasePreserves DEF StartFails, GiveUp
    <2>8. CASE AwaitOutput(t)
      BY <2>8, AwaitOutputPreserves
    <2>9. CASE AwaitFails(t)
      BY <1>a, <2>9, ReleasePreserves DEF AwaitFails, GiveUp
    <2>10. CASE Assign(t)
      BY <2>10, AssignPreserves
    <2>11. ASSUME NEW c \in Ctx, Start(t, c) PROVE IndInv'
      BY <2>11, StartPreserves
    <2> QED
      BY <1>2, <2>1, <2>2, <2>3, <2>4, <2>5, <2>6, <2>7, <2>8, <2>9, <2>10, <2>11
         DEF EnsureStep
  <1>3. ASSUME NEW t \in Threads, StopStep(t) PROVE IndInv'
    <2>1. CASE NilDereference(t)
      BY <2>1, IdlePreserves DEF NilDereference, threads
    <2> QED
      BY <1>3, <2>1, BeginStopPreserves, MarkPreserves, TermPreserves,
         SelectPreserves, KillPreserves, StopReturnsPreserves DEF StopStep
  <1>4. ASSUME NEW t \in Threads, InstallLink(t) PROVE IndInv'
    BY <1>a, <1>4, ReleasePreserves DEF InstallLink
  <1>5. ASSUME NEW c \in Ctx, WaiterStep(c) PROVE IndInv'
    BY <1>5, WaiterPreserves
  <1>6. ASSUME NEW c \in Ctx, ProcessDies(c) PROVE IndInv'
    BY <1>6, ProcessDiesPreserves
  <1>7. ASSUME NEW c \in Ctx, NEW t \in Timers, TimerFires(c, t) PROVE IndInv'
    BY <1>7, TimerPreserves
  <1>8. CASE RouterStep
    <2> Router \in Threads
      BY DEF Threads
    <2>1. CASE RouterDetach
      BY <1>a, <2>1, ReleasePreserves DEF RouterDetach
    <2>2. CASE Purge
      BY <1>a, <2>2, ReleasePreserves DEF Purge
    <2>3. CASE RouterShutdown
      BY <1>a, <2>3, ReleasePreserves DEF RouterShutdown
    <2> QED
      BY <1>8, <2>1, <2>2, <2>3 DEF RouterStep
  <1>9. CASE Cancel \/ MainExit \/ Ended \/ UNCHANGED vars
    BY <1>9, IdlePreserves DEF Cancel, MainExit, Ended, vars, threads
  <1> QED
    BY <1>1, <1>2, <1>3, <1>4, <1>5, <1>6, <1>7, <1>8, <1>9 DEF Next, ThreadStep

\* The inductive invariant holds in every reachable state of the runner.
THEOREM IndInvCorrect == Spec => []IndInv
  <1>1. Init => IndInv
    <2> SUFFICES ASSUME Init PROVE IndInv
      OBVIOUS
    <2>1. TypeOK
      BY InitTypeOK
    <2> USE NamesAssumption DEF Init
    <2>2. HoldsContext /\ WaiterOrder /\ StartOrder
      BY DEF HoldsContext, WaiterOrder, StartOrder, Holding
    <2>3. MarkedBeforeSignal /\ OneStopper
      BY DEF MarkedBeforeSignal, OneStopper
    <2>4. SignalledAgentNotRestarted /\ StopCompletes
      BY DEF SignalledAgentNotRestarted, StopCompletes
    <2> QED
      BY <2>1, <2>2, <2>3, <2>4 DEF IndInv
  <1> QED
    BY <1>1, IndInvStep, PTL DEF Spec

\* Whatever the interleaving of Stop with WaitOnAgentCommand, no restart is ever
\* scheduled for an agent that Stop signalled (command_handler.go:139).
THEOREM SignalledAgentNotRestartedCorrect == Spec => []SignalledAgentNotRestarted
  <1>1. IndInv => SignalledAgentNotRestarted
    BY DEF IndInv
  <1> QED
    BY <1>1, IndInvCorrect, PTL

\* However many goroutines call Stop, only one stops a context
\* (command_handler.go:222-226).
THEOREM OneStopperCorrect == Spec => []OneStopper
  <1>1. IndInv => OneStopper
    BY DEF IndInv
  <1> QED
    BY <1>1, IndInvCorrect, PTL

\* Whenever Stop returns after it had something to stop, the process has ended
\* or was sent KILL (command_handler.go:232).
THEOREM StopCompletesCorrect == Spec => []StopCompletes
  <1>1. IndInv => StopCompletes
    BY DEF IndInv
  <1> QED
    BY <1>1, IndInvCorrect, PTL

\* The end of the process that the runner records as running is always noticed
\* (telegraf.go:248, filebeat.go:109, pkgagent.go:100, oracle.go:81).
THEOREM RunningIsWatchedCorrect == Spec => []RunningIsWatched
  <1>1. IndInv => RunningIsWatched
    BY DEF IndInv, StartOrder, RunningIsWatched
  <1> QED
    BY <1>1, IndInvCorrect, PTL

--------------------------------------------------------------------------------
(* The promises of EnsureRunningState, while nothing but instructions happens. *)

\* The goroutine that is at work is one of an instruction, and the only one.
LEMMA OnlyWorker ==
    ASSUME TypeOK, OneAtATime, NEW t \in Threads, pc[t] # "idle"
    PROVE  t \in Instr /\ \A u \in Threads \ {t} : pc[u] = "idle"
  BY DEF OneAtATime, Threads

\* It stays so when that goroutine goes on.
LEMMA WorkerMoves ==
    ASSUME TypeOK, OneAtATime, NEW t \in Instr, NEW label,
           \A u \in Threads \ {t} : pc[u] = "idle",
           pc' = [pc EXCEPT ![t] = label], timer' = timer,
           envoy' \notin {"cancelled", "exited"}
    PROVE  OneAtATime' /\ pc'[t] = label /\ \A u \in Threads \ {t} : pc'[u] = "idle"
  <1>1. t \in Threads /\ Router \in Threads /\ Timers \subseteq Threads
        /\ t # Router /\ t \notin Timers
    BY NamesAssumption DEF Threads
  <1>2. pc'[t] = label /\ \A u \in Threads \ {t} : pc'[u] = "idle"
    BY <1>1 DEF TypeOK
  <1> QED
    BY <1>1, <1>2 DEF OneAtATime

\* A step that only moves a goroutine keeps the invariant, unless the goroutine
\* comes to where another agent is started or linked while one is not stopped,
\* or leaves one that it has marked.
LEMMA MoveKeepsCalm ==
    ASSUME IndInv, CalmInv, NEW t \in Instr, NEW label, NEW c,
           \A u \in Threads \ {t} : pc[u] = "idle",
           Moves(t, label, c), envoy' \notin {"cancelled", "exited"},
           label \notin {"await", "assign"},
           pc[t] \notin {"await", "assign"},
           label \in {"start", "term", "select", "kill", "stopped", "link"} => Unstopped = {},
           label = "mark" => c = running,
           pc[t] \in {"term", "select", "kill"} =>
              \/ label \in {"term", "select", "kill"} /\ c = cur[t]
              \/ proc[cur[t]] # "alive"
    PROVE  CalmInv'
  <1> t \in Threads
    BY DEF Threads
  <1>1. /\ pc' = [pc EXCEPT ![t] = label] /\ cur' = [cur EXCEPT ![t] = c]
        /\ UNCHANGED <<running, waiter, stopping, timer, proc, sig>>
    BY DEF Moves, Goto, contexts, osVars
  <1>2. TypeOK
    BY DEF IndInv
  <1>3. OneAtATime' /\ pc'[t] = label /\ \A u \in Threads \ {t} : pc'[u] = "idle"
    BY <1>1, <1>2, WorkerMoves DEF CalmInv
  <1>4. cur'[t] = c /\ \A u \in Threads \ {t} : cur'[u] = cur[u]
    BY <1>1, <1>2 DEF TypeOK
  <1>5. Unstopped' = Unstopped
    BY <1>1 DEF Unstopped
  <1>6. EndedWereStopped'
    BY <1>1, <1>3 DEF CalmInv, EndedWereStopped
  <1>7. OnlyRunning'
    BY <1>1, <1>3, <1>4, <1>5 DEF CalmInv, OnlyRunning
  <1>8. MarkedIsStopped'
    BY <1>1, <1>3, <1>4 DEF CalmInv, MarkedIsStopped
  <1> QED
    BY <1>3, <1>6, <1>7, <1>8 DEF CalmInv

\* A process that nobody has decided to stop counts as running.
LEMMA UnstoppedRuns ==
    ASSUME IndInv, NEW c \in Unstopped
    PROVE  c \in Ctx /\ c # NoCtx /\ IsRunning(c) /\ ~stopping[c] /\ proc[c] = "alive"
  BY NamesAssumption DEF IndInv, WaiterOrder, Unstopped, IsRunning, CmdNil

\* Instructions begin when no other is at work.
LEMMA InstructionCalm ==
    ASSUME IndInv, CalmInv, NEW t \in Instr, Instruction(t)
    PROVE  CalmInv'
  <1> t \in Threads
    BY DEF Threads
  <1>1. /\ \A u \in Threads : pc[u] = "idle"
        /\ envoy' = envoy
    BY DEF Instruction, ProcessConfigure, ProcessConfigureFails, InstallLinked,
           InstallUnlink, MutexFree, CalmInv, OneAtATime, Threads
  <1>2. envoy' \notin {"cancelled", "exited"}
    BY <1>1 DEF CalmInv, OneAtATime
  <1>3. CASE \E label \in {"ensure", "stop"} : Moves(t, label, NoCtx)
    BY <1>1, <1>2, <1>3, MoveKeepsCalm
  <1>4. CASE ProcessConfigureFails(t)
    BY <1>4 DEF ProcessConfigureFails, contexts, osVars, threads, CalmInv, OneAtATime,
                EndedWereStopped, OnlyRunning, MarkedIsStopped, Unstopped
  <1> QED
    BY <1>3, <1>4 DEF Instruction, ProcessConfigure, InstallLinked, InstallUnlink,
                      CallStop, Moves

\* EnsureRunningState starts an agent only when none is left that nobody stops.
LEMMA EnsureCalm ==
    ASSUME Calm, IndInv, CalmInv, NEW t \in Threads, EnsureStep(t) \/ InstallLink(t)
    PROVE  CalmInv'
  <1> USE DEF Moves
  <1>1. pc[t] # "idle"
    BY DEF EnsureStep, Ensure, CheckRunning, Hup, SigHup, Pid, GetPid, Start, StartFails,
           AwaitOutput, AwaitFails, Assign, InstallLink
  <1>2. TypeOK /\ OneAtATime /\ EndedWereStopped /\ OnlyRunning /\ MarkedIsStopped
    BY DEF IndInv, CalmInv
  <1>3. t \in Instr /\ \A u \in Threads \ {t} : pc[u] = "idle"
    BY <1>1, <1>2, OnlyWorker
  <1>4. envoy \notin {"cancelled", "exited"} /\ NoCtx \notin Ctx
    BY <1>2, NamesAssumption DEF OneAtATime
  <1>5. pc[t] \notin {"await", "assign"} => Unstopped \subseteq {running}
    BY <1>2, <1>3 DEF OnlyRunning
  <1>6. CASE Ensure(t) \/ Hup(t) \/ SigHup(t) \/ Pid(t) \/ GetPid(t)
    <2>1. \E label \in {"isrun", "stop", "sighup", "idle", "pid", "getpid"},
             c \in Ctx \cup {NoCtx, running, cur[t]} : Moves(t, label, c)
      BY <1>6 DEF Ensure, Hup, SigHup, Pid, GetPid, CallStop
    <2>2. envoy' = envoy /\ pc[t] \notin {"await", "assign", "term", "select", "kill"}
      BY <1>6 DEF Ensure, Hup, SigHup, Pid, GetPid
    <2> HIDE DEF Moves
    <2> QED
      BY <1>3, <1>4, <2>1, <2>2, MoveKeepsCalm
  <1>7. CASE CheckRunning(t)
    <2>1. ~Running => Unstopped = {}
      BY <1>5, <1>7, UnstoppedRuns DEF CheckRunning, Running
    <2>2. \E label \in {"start", "idle", "hup", "stop"} :
             Moves(t, label, NoCtx) /\ (label = "start" => ~Running)
      BY <1>7 DEF CheckRunning, CallStop
    <2>3. envoy' = envoy /\ pc[t] = "isrun"
      BY <1>7 DEF CheckRunning
    <2> HIDE DEF Moves
    <2> QED
      BY <1>3, <1>4, <2>1, <2>2, <2>3, MoveKeepsCalm
  <1>8. CASE StartFails(t)
    <2>1. Moves(t, "idle", NoCtx) /\ envoy' \in {"fatal", envoy} /\ pc[t] = "start"
      BY <1>8 DEF StartFails, GiveUp
    <2> HIDE DEF Moves
    <2> QED
      BY <1>3, <1>4, <2>1, MoveKeepsCalm
  <1>9. CASE InstallLink(t)
    <2>1. /\ Moves(t, "ensure", NoCtx) \/ Moves(t, "idle", NoCtx)
          /\ envoy' = envoy /\ pc[t] = "link"
      BY <1>9 DEF InstallLink
    <2> HIDE DEF Moves
    <2> QED
      BY <1>3, <1>4, <2>1, MoveKeepsCalm
  <1>10. CASE AwaitFails(t)
    BY <1>2, <1>4, <1>10 DEF AwaitFails, Calm, EndedWereStopped
  <1>11. ASSUME NEW c \in Ctx, Start(t, c) PROVE CalmInv'
    <2>1. /\ pc[t] = "start" /\ pc' = [pc EXCEPT ![t] = "await"]
          /\ cur' = [cur EXCEPT ![t] = c] /\ proc[c] # "alive"
          /\ stopping' = [stopping EXCEPT ![c] = FALSE]
          /\ proc' = [proc EXCEPT ![c] = "alive"]
          /\ sig' = [sig EXCEPT ![c] = "none"]
          /\ UNCHANGED <<running, timer, envoy>>
      BY <1>11 DEF Start, Goto, Fresh
    <2>2. OneAtATime' /\ pc'[t] = "await" /\ \A u \in Threads \ {t} : pc'[u] = "idle"
      BY <1>2, <1>3, <1>4, <2>1, WorkerMoves
    <2>3. cur'[t] = c
      BY <1>2, <2>1 DEF TypeOK
    <2>4. Unstopped = {}
      BY <1>2, <2>1 DEF OnlyRunning
    <2>5. Unstopped' \subseteq {c}
      BY <1>2, <2>1, <2>4 DEF Unstopped, TypeOK
    <2>6. EndedWereStopped'
      BY <1>2, <2>1, <2>2, <2>3 DEF EndedWereStopped, TypeOK
    <2>7. OnlyRunning'
      BY <2>2, <2>3, <2>5 DEF OnlyRunning
    <2>8. MarkedIsStopped'
      BY <1>2, <1>3, <2>1 DEF MarkedIsStopped, TypeOK
    <2> QED
      BY <2>2, <2>6, <2>7, <2>8 DEF CalmInv
  <1>12. CASE AwaitOutput(t)
    <2>1. /\ pc[t] = "await" /\ pc' = [pc EXCEPT ![t] = "assign"]
          /\ cur' = [cur EXCEPT ![t] = cur[t]]
          /\ UNCHANGED <<running, stopping, timer, proc, sig, envoy>>
      BY <1>12 DEF AwaitOutput, Goto, osVars
    <2>2. OneAtATime' /\ pc'[t] = "assign" /\ \A u \in Threads \ {t} : pc'[u] = "idle"
      BY <1>2, <1>3, <1>4, <2>1, WorkerMoves
    <2>3. cur' = cur
      BY <1>2, <2>1 DEF TypeOK
    <2>4. Unstopped' = Unstopped
      BY <2>1 DEF Unstopped
    <2>5. EndedWereStopped'
      BY <1>2, <2>1, <2>2, <2>3 DEF EndedWereStopped
    <2>6. OnlyRunning'
      BY <1>2, <2>1, <2>2, <2>3, <2>4 DEF OnlyRunning
    <2>7. MarkedIsStopped'
      BY <1>2, <1>3, <2>1, <2>2, <2>3 DEF MarkedIsStopped
    <2> QED
      BY <2>2, <2>5, <2>6, <2>7 DEF CalmInv
  <1>13. CASE Assign(t)
    <2>1. PICK label \in {"pid", "idle"} :
            /\ pc' = [pc EXCEPT ![t] = label] /\ pc[t] = "assign"
            /\ running' = cur[t]
            /\ UNCHANGED <<stopping, timer, proc, sig, envoy>>
      BY <1>13 DEF Assign, Goto, osVars
    <2>2. OneAtATime' /\ pc'[t] = label /\ \A u \in Threads \ {t} : pc'[u] = "idle"
      BY <1>2, <1>3, <1>4, <2>1, WorkerMoves
    <2>3. Unstopped' = Unstopped /\ Unstopped \subseteq {cur[t]}
      BY <1>2, <2>1 DEF Unstopped, OnlyRunning
    <2>4. EndedWereStopped'
      BY <1>2, <2>1, <2>2 DEF EndedWereStopped
    <2>5. OnlyRunning'
      BY <2>1, <2>2, <2>3 DEF OnlyRunning
    <2>6. MarkedIsStopped'
      BY <1>2, <1>3, <2>1 DEF MarkedIsStopped
    <2> QED
      BY <2>2, <2>4, <2>5, <2>6 DEF CalmInv
  <1> QED
    BY <1>6, <1>7, <1>8, <1>9, <1>10, <1>11, <1>12, <1>13 DEF EnsureStep

\* When Stop is past its mark no agent is left that nobody stops, and it leaves
\* none that it marked without KILL.
LEMMA StopCalm ==
    ASSUME IndInv, CalmInv, NEW t \in Threads, StopStep(t)
    PROVE  CalmInv'
  <1>1. pc[t] # "idle"
    BY DEF StopStep, BeginStop, MarkStopping, Term, SelectStopped, SelectTimeout, Kill,
           StopReturns, NilDereference
  <1>2. TypeOK /\ OneAtATime /\ EndedWereStopped /\ OnlyRunning /\ MarkedIsStopped
    BY DEF IndInv, CalmInv
  <1>3. t \in Instr /\ \A u \in Threads \ {t} : pc[u] = "idle"
    BY <1>1, <1>2, OnlyWorker
  <1>4. envoy \notin {"cancelled", "exited"} /\ NoCtx \notin Ctx
    BY <1>2, NamesAssumption DEF OneAtATime
  <1>5. pc[t] \in Holding => cur[t] \in Ctx
    BY DEF IndInv, HoldsContext
  <1>6. CASE BeginStop(t)
    <2>1. envoy' = envoy /\ pc[t] = "stop"
      BY <1>6 DEF BeginStop
    <2>2. CASE Running /\ ~stopping[running]
      <3>1. Moves(t, "mark", running)
        BY <1>6, <2>2 DEF BeginStop, Moves
      <3> QED
        BY <1>3, <1>4, <2>1, <3>1, MoveKeepsCalm
    <2>3. CASE ~(Running /\ ~stopping[running])
      <3>1. Moves(t, "stopped", NoCtx)
        BY <1>6, <2>3 DEF BeginStop, Moves
      <3>2. Unstopped \subseteq {running}
        BY <1>2, <1>3, <2>1 DEF OnlyRunning
      <3>3. Unstopped = {}
        BY <2>3, <3>2, UnstoppedRuns DEF Running
      <3> QED
        BY <1>3, <1>4, <2>1, <3>1, <3>3, MoveKeepsCalm
    <2> QED
      BY <2>2, <2>3
  <1>7. CASE SelectStopped(t)
    <2>1. Moves(t, "stopped", cur[t]) /\ envoy' = envoy /\ pc[t] = "select"
      BY <1>7 DEF SelectStopped, Moves
    <2>2. proc[cur[t]] # "alive" /\ Unstopped = {}
      BY <1>2, <1>5, <1>7, <2>1
         DEF SelectStopped, StoppedClosed, IndInv, WaiterOrder, Holding, OnlyRunning
    <2> QED
      BY <1>3, <1>4, <2>1, <2>2, MoveKeepsCalm
  <1>8. CASE SelectTimeout(t)
    <2>1. Moves(t, "kill", cur[t]) /\ envoy' = envoy /\ pc[t] = "select"
      BY <1>8 DEF SelectTimeout, Moves
    <2>2. Unstopped = {}
      BY <1>2, <2>1 DEF OnlyRunning
    <2> QED
      BY <1>3, <1>4, <2>1, <2>2, MoveKeepsCalm
  <1>9. CASE NilDereference(t)
    BY <1>2, <1>9 DEF NilDereference, contexts, osVars, threads, CalmInv, OneAtATime,
                      EndedWereStopped, OnlyRunning, MarkedIsStopped, Unstopped
  <1>10. CASE MarkStopping(t)
    <2>1. /\ pc[t] = "mark" /\ pc' = [pc EXCEPT ![t] = "term"]
          /\ cur' = [cur EXCEPT ![t] = cur[t]]
          /\ stopping' = [stopping EXCEPT ![cur[t]] = TRUE]
          /\ UNCHANGED <<running, timer, proc, sig, envoy>>
      BY <1>10 DEF MarkStopping, Goto, osVars
    <2>2. OneAtATime' /\ pc'[t] = "term" /\ \A u \in Threads \ {t} : pc'[u] = "idle"
      BY <1>2, <1>3, <1>4, <2>1, WorkerMoves
    <2>3. cur' = cur /\ cur[t] = running /\ cur[t] \in Ctx
      BY <1>2, <1>5, <2>1 DEF TypeOK, OnlyRunning, Holding
    <2>4. Unstopped \subseteq {running}
      BY <1>2, <1>3, <2>1 DEF OnlyRunning
    <2>5. Unstopped' = {}
      BY <1>2, <2>1, <2>3, <2>4 DEF Unstopped, TypeOK
    <2>6. EndedWereStopped'
      BY <1>2, <2>1, <2>2, <2>3 DEF EndedWereStopped, TypeOK
    <2>7. OnlyRunning'
      BY <2>2, <2>5 DEF OnlyRunning
    <2>8. MarkedIsStopped'
      BY <1>2, <1>3, <2>1, <2>2, <2>3 DEF MarkedIsStopped, TypeOK
    <2> QED
      BY <2>2, <2>6, <2>7, <2>8 DEF CalmInv
  <1>11. CASE Term(t)
    <2>1. /\ pc[t] = "term" /\ pc' = [pc EXCEPT ![t] = "select"]
          /\ cur' = [cur EXCEPT ![t] = cur[t]]
          /\ sig' \in {sig, [sig EXCEPT ![cur[t]] = "term"]}
          /\ UNCHANGED <<running, timer, stopping, proc, envoy>>
      BY <1>11 DEF Term, Deliver, Goto, contexts
    <2>2. OneAtATime' /\ pc'[t] = "select" /\ \A u \in Threads \ {t} : pc'[u] = "idle"
      BY <1>2, <1>3, <1>4, <2>1, WorkerMoves
    <2>3. cur' = cur /\ cur[t] \in Ctx
      BY <1>2, <1>5, <2>1 DEF TypeOK, Holding
    <2>4. Unstopped' = {}
      BY <1>2, <2>1 DEF Unstopped, OnlyRunning
    <2>5. EndedWereStopped'
      BY <1>2, <2>1, <2>2 DEF EndedWereStopped
    <2>6. OnlyRunning'
      BY <2>2, <2>4 DEF OnlyRunning
    <2>7. MarkedIsStopped'
      BY <1>2, <1>3, <2>1, <2>2, <2>3 DEF MarkedIsStopped, TypeOK
    <2> QED
      BY <2>2, <2>5, <2>6, <2>7 DEF CalmInv
  <1>12. CASE Kill(t)
    <2>1. /\ pc[t] = "kill" /\ pc' = [pc EXCEPT ![t] = "stopped"]
          /\ sig' = IF proc[cur[t]] = "alive" THEN [sig EXCEPT ![cur[t]] = "kill"] ELSE sig
          /\ UNCHANGED <<running, timer, stopping, proc, envoy>>
      BY <1>12 DEF Kill, Deliver, Goto, contexts
    <2>2. OneAtATime' /\ pc'[t] = "stopped" /\ \A u \in Threads \ {t} : pc'[u] = "idle"
      BY <1>2, <1>3, <1>4, <2>1, WorkerMoves
    <2>3. cur[t] \in Ctx
      BY <1>5, <2>1 DEF Holding
    <2>4. Unstopped' = {}
      BY <1>2, <2>1 DEF Unstopped, OnlyRunning
    <2>5. EndedWereStopped'
      BY <1>2, <2>1, <2>2 DEF EndedWereStopped
    <2>6. OnlyRunning'
      BY <2>2, <2>4 DEF OnlyRunning
    <2>7. MarkedIsStopped'
      BY <1>2, <1>3, <2>1, <2>3 DEF MarkedIsStopped, TypeOK
    <2> QED
      BY <2>2, <2>5, <2>6, <2>7 DEF CalmInv
  <1>13. CASE StopReturns(t)
    <2>1. PICK label \in {"idle", "keep", "start", "link", "purge", "exit"} :
            /\ pc' = [pc EXCEPT ![t] = label] /\ pc[t] = "stopped"
            /\ UNCHANGED <<timer, stopping, proc, sig, envoy>>
      BY <1>2, <1>13 DEF StopReturns, Goto, osVars, TypeOK
    <2>2. OneAtATime' /\ pc'[t] = label /\ \A u \in Threads \ {t} : pc'[u] = "idle"
      BY <1>2, <1>3, <1>4, <2>1, WorkerMoves
    <2>3. Unstopped' = {}
      BY <1>2, <2>1 DEF Unstopped, OnlyRunning
    <2>4. EndedWereStopped'
      BY <1>2, <2>1, <2>2 DEF EndedWereStopped
    <2>5. OnlyRunning'
      BY <2>2, <2>3 DEF OnlyRunning
    <2>6. MarkedIsStopped'
      BY <1>2, <1>3, <2>1 DEF MarkedIsStopped
    <2> QED
      BY <2>2, <2>4, <2>5, <2>6 DEF CalmInv
  <1> QED
    BY <1>6, <1>7, <1>8, <1>9, <1>10, <1>11, <1>12, <1>13 DEF StopStep

\* Only a marked process ends, so that its waiter schedules no restart.
LEMMA EndsCalm ==
    ASSUME Calm, IndInv, CalmInv, NEW c \in Ctx, WaiterStep(c) \/ ProcessDies(c)
    PROVE  CalmInv'
  <1>1. TypeOK /\ OneAtATime /\ EndedWereStopped /\ OnlyRunning /\ MarkedIsStopped
    BY DEF IndInv, CalmInv
  <1>2. UNCHANGED <<running, stopping, sig, pc, cur, envoy>>
    BY DEF WaiterStep, Reap, NilCmd, CloseStopped, ScheduleRestart, ProcessDies,
           contexts, osVars, threads
  <1>3. /\ \A d \in Ctx \ {c} : proc'[d] = proc[d]
        /\ proc'[c] # proc[c] => proc'[c] \in {"exited", "signaled"} /\ stopping[c]
    <2>1. CASE ProcessDies(c)
      BY <1>1, <2>1 DEF ProcessDies, Calm, IndInv, MarkedBeforeSignal, TypeOK
    <2>2. CASE NilCmd(c)
      BY <1>1, <2>2 DEF NilCmd, IndInv, WaiterOrder, EndedWereStopped, TypeOK
    <2>3. CASE Reap(c) \/ CloseStopped(c) \/ ScheduleRestart(c)
      BY <2>3 DEF Reap, CloseStopped, ScheduleRestart, osVars
    <2> QED
      BY <2>1, <2>2, <2>3 DEF WaiterStep
  <1>4. timer' = timer
    <2>1. CASE ScheduleRestart(c)
      <3>1. stopping[c] /\ ~timer[c] /\ timer \in [Ctx -> BOOLEAN]
        BY <1>1, <2>1 DEF ScheduleRestart, IndInv, WaiterOrder, EndedWereStopped,
                          OneAtATime, TypeOK
      <3>2. timer' = [timer EXCEPT ![c] = FALSE] /\ timer[c] = FALSE
        BY <2>1, <3>1 DEF ScheduleRestart
      <3> QED
        BY <3>1, <3>2
    <2>2. CASE ProcessDies(c) \/ Reap(c) \/ NilCmd(c) \/ CloseStopped(c)
      BY <2>2 DEF ProcessDies, Reap, NilCmd, CloseStopped, contexts
    <2> QED
      BY <2>1, <2>2 DEF WaiterStep
  <1>5. Unstopped' = Unstopped
    BY <1>2, <1>3 DEF Unstopped
  <1>6. OneAtATime'
    BY <1>1, <1>2, <1>4 DEF OneAtATime
  <1>7. EndedWereStopped'
    <2>1. \A t \in Threads : pc[t] \in {"await", "assign"} => cur[t] \in Ctx
      BY DEF IndInv, HoldsContext, Holding
    <2> QED
      BY <1>1, <1>2, <1>3, <2>1 DEF EndedWereStopped
  <1>8. OnlyRunning'
    BY <1>1, <1>2, <1>5 DEF OnlyRunning
  <1>9. MarkedIsStopped'
    BY <1>1, <1>2, <1>3 DEF MarkedIsStopped
  <1> QED
    BY <1>6, <1>7, <1>8, <1>9 DEF CalmInv

\* While the environment is calm every step keeps the invariant.
LEMMA CalmStep == Calm /\ IndInv /\ CalmInv /\ [Next]_vars => CalmInv'
  <1> SUFFICES ASSUME Calm, IndInv, CalmInv, [Next]_vars PROVE CalmInv'
    OBVIOUS
  <1>1. ASSUME NEW t \in Instr, Instruction(t) PROVE CalmInv'
    BY <1>1, InstructionCalm
  <1>2. ASSUME NEW t \in Threads, ThreadStep(t) PROVE CalmInv'
    BY <1>2, EnsureCalm, StopCalm DEF ThreadStep
  <1>3. ASSUME NEW c \in Ctx, WaiterStep(c) \/ ProcessDies(c) PROVE CalmInv'
    BY <1>3, EndsCalm
  <1>4. ASSUME NEW c \in Ctx, NEW t \in Timers, TimerFires(c, t) PROVE FALSE
    BY <1>4 DEF TimerFires, CalmInv, OneAtATime
  <1>5. CASE RouterStep \/ Cancel \/ MainExit
    BY <1>5 DEF RouterStep, RouterDetach, Purge, RouterShutdown, Cancel, MainExit, Calm,
                CalmInv, OneAtATime
  <1>6. CASE Ended \/ UNCHANGED vars
    BY <1>6 DEF Ended, vars, contexts, osVars, threads, CalmInv, OneAtATime,
                EndedWereStopped, OnlyRunning, MarkedIsStopped, Unstopped
  <1> QED
    BY <1>1, <1>2, <1>3, <1>4, <1>5, <1>6 DEF Next

\* Nothing runs when the Envoy starts.
LEMMA CalmInit == Init => CalmInv
  <1> SUFFICES ASSUME Init PROVE CalmInv
    OBVIOUS
  <1> USE DEF Init
  <1>1. Unstopped = {}
    BY DEF Unstopped
  <1>2. \A t \in Threads : pc[t] = "idle"
    OBVIOUS
  <1>3. {Router} \cup Timers \subseteq Threads
    BY DEF Threads
  <1>4. OneAtATime
    BY <1>2, <1>3 DEF OneAtATime
  <1>5. EndedWereStopped /\ OnlyRunning /\ MarkedIsStopped
    BY <1>1, <1>2 DEF EndedWereStopped, OnlyRunning, MarkedIsStopped
  <1> QED
    BY <1>4, <1>5 DEF CalmInv

\* While nothing but instructions happens they are all that happens to an agent,
\* one after the other.
THEOREM CalmInvCorrect == Calm /\ Spec => []CalmInv
  <1> SUFFICES ASSUME Calm PROVE Spec => []CalmInv
    OBVIOUS
  <1>1. IndInv /\ CalmInv /\ [Next]_vars => CalmInv'
    BY CalmStep
  <1> QED
    BY <1>1, CalmInit, IndInvCorrect, PTL DEF Spec

\* Whatever instructions come and however their starts, failures to start, stops
\* and kills interleave with the processes, at most one process of an agent runs
\* that nobody is stopping, for every kind of agent, as long as no agent ends by
\* itself or is given up on and no detach and no shutdown comes. Each of the four
\* breaks it.
THEOREM OneAgentProcessCorrect == Calm /\ Spec => []OneAgentProcess
  <1>1. CalmInv => OneAgentProcess
    BY DEF CalmInv, OnlyRunning, OneAgentProcess
  <1> QED
    BY <1>1, CalmInvCorrect, PTL

\* Under the same conditions every process of the previous version has ended or
\* was sent KILL when a new version is linked.
THEOREM PreviousVersionStoppedCorrect == Calm /\ Spec => []PreviousVersionStopped
  <1>1. IndInv /\ CalmInv => PreviousVersionStopped
    <2> SUFFICES ASSUME IndInv, CalmInv, NEW t \in Instr, pc[t] = "link",
                        NEW c \in Ctx, proc[c] = "alive"
                 PROVE  sig[c] = "kill"
      BY DEF PreviousVersionStopped
    <2>1. t \in Threads
      BY DEF Threads
    <2>2. stopping[c]
      BY <2>1 DEF CalmInv, OnlyRunning, Unstopped
    <2>3. \A u \in Threads : pc[u] \notin {"term", "select", "kill"}
      BY <2>1 DEF CalmInv, OneAtATime
    <2> QED
      BY <2>2, <2>3 DEF CalmInv, MarkedIsStopped
  <1> QED
    BY <1>1, CalmInvCorrect, IndInvCorrect, PTL

--------------------------------------------------------------------------------
\* hasRequiredPaths and hasConfigsAndExeReady, by kind of agent.
LEMMA ReadyFacts ==
    /\ Kind = "telegraf" => (Ready <=> exe)
    /\ Kind = "oracle" => Ready
    /\ Kind \in {"filebeat", "packages"} => (Ready <=> exe /\ configs)
  BY DEF Ready

\* What ReadyRuns says when at most one goroutine is at work.
LEMMA ReadyRunsMoves ==
    ASSUME TypeOK, NEW t \in Threads, NEW label,
           \A u \in Threads \ {t} : pc[u] = "idle",
           pc' = [pc EXCEPT ![t] = label],
           label \in InStop => /\ ret'[t] = "idle" => ~(exe' /\ configs')
                               /\ ret'[t] = "keep" => ~exe',
           label = "link" => running' = NoCtx,
           running' # NoCtx /\ stopping'[running'] =>
               ~exe' \/ label \in {"term", "select", "kill", "stopped"},
           envoy' = "up" /\ exe' /\ configs'
               /\ label \in {"idle", "hup", "sighup", "pid", "getpid"} => running' # NoCtx
    PROVE  ReadyRuns'
  <1>1. pc'[t] = label /\ \A u \in Threads \ {t} : pc'[u] = "idle"
    BY DEF TypeOK
  <1>2. "idle" \notin InStop
    BY DEF InStop
  <1>3. \A u \in Threads : pc'[u] \in InStop =>
          /\ ret'[u] = "idle" => ~(exe' /\ configs')
          /\ ret'[u] = "keep" => ~exe'
    BY <1>1, <1>2
  <1>4. \A u \in Threads : pc'[u] = "link" => running' = NoCtx
    BY <1>1
  <1>5. running' # NoCtx /\ stopping'[running'] =>
          ~exe' \/ \E u \in Threads : pc'[u] \in {"term", "select", "kill", "stopped"}
    BY <1>1
  <1>6. /\ envoy' = "up" /\ exe' /\ configs'
        /\ \A u \in Threads : pc'[u] \in {"idle", "hup", "sighup", "pid", "getpid"}
        => running' # NoCtx
    BY <1>1
  <1> QED
    BY <1>2, <1>3, <1>4, <1>5, <1>6, Zenon DEF ReadyRuns, InStop

\* A goroutine that is through with an agent that is ready leaves it recorded.
LEMMA ReadyRunsThread ==
    ASSUME Kind # "filebeat", FailuresUndone, Calm, IndInv, CalmInv, ReadyRuns,
           NEW t \in Threads, ThreadStep(t)
    PROVE  ReadyRuns'
  <1>1. pc[t] # "idle"
    BY DEF ThreadStep, EnsureStep, Ensure, CheckRunning, Hup, SigHup, Pid, GetPid, Start,
           StartFails, AwaitOutput, AwaitFails, Assign, InstallLink, StopStep, BeginStop,
           MarkStopping, Term, SelectStopped, SelectTimeout, Kill, StopReturns, NilDereference
  <1>2. TypeOK /\ OneAtATime /\ EndedWereStopped
    BY DEF IndInv, CalmInv
  <1>3. \A u \in Threads \ {t} : pc[u] = "idle"
    BY <1>1, <1>2, OnlyWorker
  <1>4. /\ pc[t] \in InStop => /\ ret[t] = "idle" => ~(exe /\ configs)
                               /\ ret[t] = "keep" => ~exe
        /\ pc[t] = "link" => running = NoCtx
        /\ running # NoCtx /\ stopping[running] =>
              ~exe \/ pc[t] \in {"term", "select", "kill", "stopped"}
        /\ envoy = "up" /\ exe /\ configs
              /\ pc[t] \in {"idle", "hup", "sighup", "pid", "getpid"} => running # NoCtx
    BY <1>3 DEF ReadyRuns
  <1>5. NoCtx \notin Ctx /\ envoy \notin {"cancelled", "exited"}
    BY <1>2, NamesAssumption DEF OneAtATime
  <1> USE <1>2, <1>3, <1>4, <1>5 DEF InStop, Goto, CallStop, contexts, files
  <1>6. CASE Ensure(t)
    <2>1. CASE Ready
      BY <1>6, <2>1, ReadyRunsMoves DEF Ensure
    <2>2. CASE ~Ready
      <3>1. /\ pc' = [pc EXCEPT ![t] = "stop"] /\ pc[t] = "ensure"
            /\ ret' = [ret EXCEPT ![t] = IF Kind = "packages" THEN "idle" ELSE "keep"]
            /\ UNCHANGED <<running, stopping, exe, configs, envoy>>
        BY <1>6, <2>2 DEF Ensure
      <3>2. ret'[t] = IF Kind = "packages" THEN "idle" ELSE "keep"
        BY <3>1 DEF TypeOK
      <3>3. ~(exe /\ configs) /\ (Kind # "packages" => ~exe)
        BY <2>2, ReadyFacts, KindAssumption
      <3>4. running' # NoCtx /\ stopping'[running'] => ~exe'
        BY <3>1
      <3>5. /\ ret'[t] = "idle" => ~(exe' /\ configs')
            /\ ret'[t] = "keep" => ~exe'
        BY <3>1, <3>2, <3>3
      <3> QED
        BY <3>1, <3>4, <3>5, ReadyRunsMoves
    <2> QED
      BY <2>1, <2>2
  <1>7. CASE CheckRunning(t)
    <2>1. /\ UNCHANGED <<running, stopping, exe, configs, envoy>> /\ pc[t] = "isrun"
      BY <1>7 DEF CheckRunning
    <2>2. \/ pc' = [pc EXCEPT ![t] = "start"]
          \/ pc' = [pc EXCEPT ![t] = "idle"] /\ running # NoCtx
          \/ pc' = [pc EXCEPT ![t] = "hup"] /\ running # NoCtx
          \/ pc' = [pc EXCEPT ![t] = "stop"] /\ ret' = [ret EXCEPT ![t] = "start"]
      BY <1>7 DEF CheckRunning, Running
    <2>3. ret' = [ret EXCEPT ![t] = "start"] => ret'[t] = "start"
      BY DEF TypeOK
    <2> QED
      BY <2>1, <2>2, <2>3, ReadyRunsMoves
  <1>8. CASE Hup(t) \/ SigHup(t) \/ Pid(t) \/ GetPid(t)
    <2>1. /\ UNCHANGED <<running, stopping, exe, configs, envoy>>
          /\ pc[t] \in {"hup", "sighup", "pid", "getpid"}
          /\ \E label \in {"sighup", "idle", "pid", "getpid"} : pc' = [pc EXCEPT ![t] = label]
      BY <1>8 DEF Hup, SigHup, Pid, GetPid
    <2> QED
      BY <2>1, ReadyRunsMoves
  <1>9. ASSUME NEW c \in Ctx, Start(t, c) PROVE ReadyRuns'
    <2>1. /\ UNCHANGED <<running, exe, configs, envoy>> /\ pc[t] = "start"
          /\ pc' = [pc EXCEPT ![t] = "await"]
      BY <1>9 DEF Start
    <2>2. running # NoCtx => stopping'[running] = stopping[running]
      BY <1>9 DEF Start, Fresh, TypeOK
    <2> QED
      BY <2>1, <2>2, ReadyRunsMoves
  <1>10. CASE StartFails(t)
    <2>1. /\ UNCHANGED <<running, stopping, exe, configs>>
          /\ ~exe \/ envoy' = "fatal"
          /\ pc[t] = "start" /\ pc' = [pc EXCEPT ![t] = "idle"]
      BY <1>10 DEF StartFails, GiveUp, FailuresUndone
    <2> QED
      BY <2>1, ReadyRunsMoves
  <1>11. CASE AwaitOutput(t)
    <2>1. /\ UNCHANGED <<running, stopping, exe, configs, envoy>> /\ pc[t] = "await"
          /\ pc' = [pc EXCEPT ![t] = "assign"]
      BY <1>11 DEF AwaitOutput
    <2> QED
      BY <2>1, ReadyRunsMoves
  <1>12. CASE AwaitFails(t)
    BY <1>12 DEF AwaitFails, EndedWereStopped, Calm
  <1>13. CASE Assign(t)
    <2>1. /\ UNCHANGED <<stopping, exe, configs, envoy>> /\ pc[t] = "assign"
          /\ running' = cur[t]
          /\ \E label \in {"idle", "pid"} : pc' = [pc EXCEPT ![t] = label]
      BY <1>13 DEF Assign
    <2>2. cur[t] \in Ctx /\ ~stopping[cur[t]]
      BY <2>1 DEF IndInv, HoldsContext, Holding, EndedWereStopped
    <2> QED
      BY <2>1, <2>2, ReadyRunsMoves
  <1>14. CASE BeginStop(t)
    <2>1. /\ UNCHANGED <<running, stopping, ret, exe, configs, envoy>> /\ pc[t] = "stop"
          /\ \E label \in {"mark", "stopped"} : pc' = [pc EXCEPT ![t] = label]
      BY <1>14 DEF BeginStop
    <2> QED
      BY <2>1, ReadyRunsMoves
  <1>15. CASE MarkStopping(t) \/ Term(t) \/ SelectStopped(t) \/ SelectTimeout(t) \/ Kill(t)
    <2>1. /\ UNCHANGED <<running, ret, exe, configs, envoy>>
          /\ pc[t] \in {"mark", "term", "select", "kill"}
          /\ \E label \in {"term", "select", "kill", "stopped"} : pc' = [pc EXCEPT ![t] = label]
      BY <1>15 DEF MarkStopping, Term, SelectStopped, SelectTimeout, Kill
    <2> QED
      BY <2>1, ReadyRunsMoves
  <1>16. CASE StopReturns(t)
    <2>1. /\ UNCHANGED <<stopping, exe, configs, envoy>> /\ pc[t] = "stopped"
          /\ running' = IF ret[t] = "keep" THEN running ELSE NoCtx
          /\ pc' = [pc EXCEPT ![t] = IF ret[t] = "keep" THEN "idle" ELSE ret[t]]
          /\ ret[t] \in {"idle", "keep", "start", "link", "purge", "exit"}
      BY <1>16 DEF StopReturns, TypeOK
    <2> QED
      BY <2>1, ReadyRunsMoves
  <1>17. CASE InstallLink(t)
    <2>1. /\ UNCHANGED <<running, stopping, configs, envoy>> /\ pc[t] = "link"
          /\ \/ pc' = [pc EXCEPT ![t] = "ensure"]
             \/ pc' = [pc EXCEPT ![t] = "idle"] /\ exe' = FALSE
      BY <1>17 DEF InstallLink
    <2> QED
      BY <2>1, ReadyRunsMoves
  <1>18. CASE NilDereference(t)
    BY <1>18 DEF NilDereference, threads, ReadyRuns
  <1> QED
    BY <1>6, <1>7, <1>8, <1>9, <1>10, <1>11, <1>12, <1>13, <1>14, <1>15, <1>16, <1>17, <1>18
       DEF ThreadStep, EnsureStep, StopStep

\* Every step keeps ReadyRuns while only installs and configurations come.
LEMMA ReadyRunsStep ==
    ASSUME Kind # "filebeat", FailuresUndone, Calm,
           IndInv, CalmInv, ReadyRuns, [Next]_vars
    PROVE  ReadyRuns'
  <1>1. ASSUME NEW t \in Instr, Instruction(t) PROVE ReadyRuns'
    <2>1. t \in Threads /\ TypeOK
      BY DEF Threads, IndInv
    <2>2. \A u \in Threads : pc[u] = "idle"
      BY <1>1 DEF Instruction, ProcessConfigure, ProcessConfigureFails, InstallLinked,
                  InstallUnlink, MutexFree, CalmInv, OneAtATime, Threads
    <2>3. running # NoCtx /\ stopping[running] => ~exe
      BY <2>2 DEF ReadyRuns
    <2>4. CASE ProcessConfigure(t) \/ InstallLinked(t)
      <3>1. /\ UNCHANGED <<running, stopping, exe>> /\ pc' = [pc EXCEPT ![t] = "ensure"]
        BY <2>4 DEF ProcessConfigure, InstallLinked, contexts, files, Goto
      <3> QED
        BY <2>1, <2>2, <2>3, <3>1, ReadyRunsMoves DEF InStop
    <2>5. CASE InstallUnlink(t)
      <3>1. /\ pc' = [pc EXCEPT ![t] = "stop"] /\ ret'[t] = "link" /\ exe' = FALSE
        BY <2>1, <2>5 DEF InstallUnlink, CallStop, Goto, TypeOK
      <3> QED
        BY <2>1, <2>2, <3>1, ReadyRunsMoves DEF InStop
    <2>6. CASE ProcessConfigureFails(t)
      <3>1. UNCHANGED <<running, stopping, pc, ret, exe, configs, envoy>>
        BY <2>6 DEF ProcessConfigureFails, FailuresUndone, contexts, threads
      <3> QED
        BY <3>1 DEF ReadyRuns
    <2> QED
      BY <1>1, <2>4, <2>5, <2>6 DEF Instruction
  <1>2. ASSUME NEW t \in Threads, ThreadStep(t) PROVE ReadyRuns'
    BY <1>2, ReadyRunsThread
  <1>3. ASSUME NEW c \in Ctx, WaiterStep(c) \/ ProcessDies(c) PROVE ReadyRuns'
    <2>1. UNCHANGED <<running, stopping, pc, ret, exe, configs, envoy>>
      BY <1>3 DEF WaiterStep, Reap, NilCmd, CloseStopped, ScheduleRestart, ProcessDies,
                  contexts, threads, files
    <2> QED
      BY <2>1 DEF ReadyRuns
  <1>4. ASSUME NEW c \in Ctx, NEW t \in Timers, TimerFires(c, t) PROVE FALSE
    BY <1>4 DEF TimerFires, CalmInv, OneAtATime
  <1>5. CASE RouterStep \/ Cancel \/ MainExit
    BY <1>5 DEF RouterStep, RouterDetach, Purge, RouterShutdown, Cancel, MainExit, Calm,
                CalmInv, OneAtATime
  <1>6. CASE Ended \/ UNCHANGED vars
    BY <1>6 DEF Ended, vars, contexts, threads, files, ReadyRuns
  <1> QED
    BY <1>1, <1>2, <1>3, <1>4, <1>5, <1>6 DEF Next

\* "It must ensure the agent process is running if configs and executable are
\* available" (agents.go): so it is whenever nothing is under way, for telegraf,
\* packages and oracle, in a calm environment. Filebeat breaks it, and so do
\* failing operations of packages and oracle and failing starts of telegraf and
\* packages.
THEOREM AgentRunsWhenReadyCorrect ==
    Kind # "filebeat" /\ FailuresUndone /\ Calm /\ Spec => []AgentRunsWhenReady
  <1> SUFFICES ASSUME Kind # "filebeat", FailuresUndone, Calm
               PROVE  Spec => []AgentRunsWhenReady
    OBVIOUS
  <1>1. Init => ReadyRuns
    BY DEF Init, ReadyRuns, InStop
  <1>2. IndInv /\ CalmInv /\ ReadyRuns /\ [Next]_vars => ReadyRuns'
    BY ReadyRunsStep
  <1>3. IndInv /\ CalmInv /\ ReadyRuns => AgentRunsWhenReady
    <2> SUFFICES ASSUME IndInv, CalmInv, ReadyRuns, Quiescent, configs, exe
                 PROVE  Running
      BY DEF AgentRunsWhenReady
    <2>1. running # NoCtx /\ running \in Ctx /\ ~stopping[running]
      BY DEF Quiescent, ReadyRuns, IndInv, TypeOK
    <2>2. proc[running] = "alive"
      BY <2>1 DEF IndInv, TypeOK, StartOrder, CalmInv, EndedWereStopped
    <2> QED
      BY <2>1, <2>2, UnstoppedRuns DEF Unstopped, Running
  <1> QED
    BY <1>1, <1>2, <1>3, IndInvCorrect, CalmInvCorrect, PTL DEF Spec

--------------------------------------------------------------------------------
\* What ConfiglessStopped says when at most one goroutine is at work.
LEMMA ConfiglessMoves ==
    ASSUME TypeOK, NEW t \in Threads, NEW label,
           \A u \in Threads \ {t} : pc[u] = "idle",
           pc' = [pc EXCEPT ![t] = label],
           label \in {"isrun", "start", "await", "assign"} => configs',
           label \in InStop /\ ret'[t] = "start" => configs',
           label \notin {"hup", "sighup", "pid", "getpid"},
           label = "idle" /\ ~configs' => Unstopped' = {}
    PROVE  ConfiglessStopped'
  <1>1. pc'[t] = label /\ \A u \in Threads \ {t} : pc'[u] = "idle"
    BY DEF TypeOK
  <1>2. "idle" \notin InStop
    BY DEF InStop
  <1> QED
    BY <1>1, <1>2 DEF ConfiglessStopped

\* A goroutine starts an agent, or leaves one running, only when there are
\* configurations.
LEMMA ConfiglessThread ==
    ASSUME Kind \in {"filebeat", "packages"}, Calm, IndInv, CalmInv, ConfiglessStopped,
           NEW t \in Threads, ThreadStep(t)
    PROVE  ConfiglessStopped'
  <1>1. pc[t] # "idle"
    BY DEF ThreadStep, EnsureStep, Ensure, CheckRunning, Hup, SigHup, Pid, GetPid, Start,
           StartFails, AwaitOutput, AwaitFails, Assign, InstallLink, StopStep, BeginStop,
           MarkStopping, Term, SelectStopped, SelectTimeout, Kill, StopReturns, NilDereference
  <1>2. TypeOK /\ OneAtATime /\ EndedWereStopped /\ OnlyRunning
    BY DEF IndInv, CalmInv
  <1>3. \A u \in Threads \ {t} : pc[u] = "idle"
    BY <1>1, <1>2, OnlyWorker
  <1>4. /\ pc[t] \in {"isrun", "start", "await", "assign"} => configs
        /\ pc[t] \in InStop /\ ret[t] = "start" => configs
        /\ pc[t] \notin {"hup", "sighup", "pid", "getpid"}
    BY DEF ConfiglessStopped
  <1>5. NoCtx \notin Ctx /\ envoy \notin {"cancelled", "exited"}
    BY <1>2, NamesAssumption DEF OneAtATime
  <1> USE <1>2, <1>3, <1>4, <1>5 DEF InStop, Goto, CallStop, contexts, files
  <1>6. CASE Ensure(t)
    <2>1. CASE Ready
      <3>1. pc' = [pc EXCEPT ![t] = "isrun"] /\ configs' = configs
        BY <1>6, <2>1 DEF Ensure
      <3>2. configs'
        BY <2>1, <3>1, ReadyFacts
      <3> QED
        BY <3>1, <3>2, ConfiglessMoves
    <2>2. CASE ~Ready
      <3>1. /\ pc' = [pc EXCEPT ![t] = "stop"]
            /\ ret' = [ret EXCEPT ![t] = IF Kind = "packages" THEN "idle" ELSE "keep"]
        BY <1>6, <2>2 DEF Ensure
      <3>2. ret'[t] # "start"
        BY <3>1 DEF TypeOK
      <3> QED
        BY <3>1, <3>2, ConfiglessMoves
    <2> QED
      BY <2>1, <2>2
  <1>7. CASE CheckRunning(t)
    <2>1. /\ configs' = configs /\ pc[t] = "isrun"
          /\ \E label \in {"start", "idle", "stop"} : pc' = [pc EXCEPT ![t] = label]
      BY <1>7 DEF CheckRunning
    <2> QED
      BY <2>1, ConfiglessMoves
  <1>8. CASE (\E c \in Ctx : Start(t, c)) \/ AwaitOutput(t)
    <2>1. /\ configs' = configs /\ pc[t] \in {"start", "await"}
          /\ \E label \in {"await", "assign"} : pc' = [pc EXCEPT ![t] = label]
      BY <1>8 DEF Start, AwaitOutput
    <2> QED
      BY <2>1, ConfiglessMoves
  <1>9. CASE StartFails(t) \/ Assign(t)
    <2>1. /\ configs' = configs /\ pc[t] \in {"start", "assign"}
          /\ pc' = [pc EXCEPT ![t] = "idle"]
      BY <1>9 DEF StartFails, Assign, GiveUp
    <2> QED
      BY <2>1, ConfiglessMoves
  <1>10. CASE AwaitFails(t)
    BY <1>10 DEF AwaitFails, EndedWereStopped, Calm
  <1>11. CASE \/ BeginStop(t) \/ MarkStopping(t) \/ Term(t) \/ SelectStopped(t)
              \/ SelectTimeout(t) \/ Kill(t)
    <2>1. /\ configs' = configs /\ ret' = ret /\ pc[t] \in InStop
          /\ \E label \in InStop : pc' = [pc EXCEPT ![t] = label]
      BY <1>11 DEF BeginStop, MarkStopping, Term, SelectStopped, SelectTimeout, Kill
    <2> QED
      BY <2>1, ConfiglessMoves
  <1>12. CASE StopReturns(t)
    <2>1. /\ configs' = configs /\ pc[t] = "stopped"
          /\ pc' = [pc EXCEPT ![t] = IF ret[t] = "keep" THEN "idle" ELSE ret[t]]
          /\ ret[t] \in {"idle", "keep", "start", "link", "purge", "exit"}
          /\ UNCHANGED <<proc, stopping>>
      BY <1>12 DEF StopReturns, TypeOK, osVars
    <2>2. Unstopped' = {}
      BY <2>1 DEF OnlyRunning, Unstopped
    <2> QED
      BY <2>1, <2>2, ConfiglessMoves
  <1>13. CASE InstallLink(t)
    <2>1. /\ pc[t] = "link" /\ UNCHANGED <<proc, stopping>>
          /\ \E label \in {"ensure", "idle"} : pc' = [pc EXCEPT ![t] = label]
      BY <1>13 DEF InstallLink, osVars
    <2>2. Unstopped' = {}
      BY <2>1 DEF OnlyRunning, Unstopped
    <2> QED
      BY <2>1, <2>2, ConfiglessMoves
  <1>14. CASE NilDereference(t)
    BY <1>14 DEF NilDereference, threads, osVars, ConfiglessStopped, Unstopped
  <1>15. CASE Hup(t) \/ SigHup(t) \/ Pid(t) \/ GetPid(t)
    BY <1>15 DEF Hup, SigHup, Pid, GetPid
  <1> QED
    BY <1>6, <1>7, <1>8, <1>9, <1>10, <1>11, <1>12, <1>13, <1>14, <1>15
       DEF ThreadStep, EnsureStep, StopStep

\* Every step keeps ConfiglessStopped.
LEMMA ConfiglessStep ==
    ASSUME Kind = "filebeat" \/ (Kind = "packages" /\ "badop" \notin Events), Calm,
           IndInv, CalmInv, ConfiglessStopped, [Next]_vars
    PROVE  ConfiglessStopped'
  <1>1. ASSUME NEW t \in Instr, Instruction(t) PROVE ConfiglessStopped'
    <2>1. t \in Threads /\ TypeOK
      BY DEF Threads, IndInv
    <2>2. \A u \in Threads : pc[u] = "idle"
      BY <1>1 DEF Instruction, ProcessConfigure, ProcessConfigureFails, InstallLinked,
                  InstallUnlink, MutexFree, CalmInv, OneAtATime, Threads
    <2>3. CASE ProcessConfigure(t) \/ InstallLinked(t)
      <3>1. pc' = [pc EXCEPT ![t] = "ensure"]
        BY <2>3 DEF ProcessConfigure, InstallLinked, Goto
      <3> QED
        BY <2>1, <2>2, <3>1, ConfiglessMoves DEF InStop
    <2>4. CASE InstallUnlink(t)
      <3>1. pc' = [pc EXCEPT ![t] = "stop"] /\ ret'[t] = "link"
        BY <2>1, <2>4 DEF InstallUnlink, CallStop, Goto, TypeOK
      <3> QED
        BY <2>1, <2>2, <3>1, ConfiglessMoves DEF InStop
    <2>5. CASE ProcessConfigureFails(t)
      <3>1. UNCHANGED <<pc, ret, proc, stopping>> /\ configs' \in {configs, TRUE}
        BY <2>5 DEF ProcessConfigureFails, threads, osVars, contexts
      <3>2. Unstopped' = Unstopped
        BY <3>1 DEF Unstopped
      <3>3. ~configs' => ~configs
        BY <3>1
      <3> QED
        BY <2>2, <3>1, <3>2, <3>3 DEF ConfiglessStopped, InStop
    <2> QED
      BY <1>1, <2>3, <2>4, <2>5 DEF Instruction
  <1>2. ASSUME NEW t \in Threads, ThreadStep(t) PROVE ConfiglessStopped'
    BY <1>2, ConfiglessThread
  <1>3. ASSUME NEW c \in Ctx, WaiterStep(c) \/ ProcessDies(c) PROVE ConfiglessStopped'
    <2>1. UNCHANGED <<stopping, pc, ret, configs>>
      BY <1>3 DEF WaiterStep, Reap, NilCmd, CloseStopped, ScheduleRestart, ProcessDies,
                  contexts, threads, files
    <2>2. \A d \in Ctx : proc'[d] = "alive" => proc[d] = "alive"
      BY <1>3 DEF WaiterStep, Reap, NilCmd, CloseStopped, ScheduleRestart, ProcessDies,
                  osVars, IndInv, TypeOK
    <2>3. Unstopped' \subseteq Unstopped
      BY <2>1, <2>2 DEF Unstopped
    <2> QED
      BY <2>1, <2>3 DEF ConfiglessStopped
  <1>4. ASSUME NEW c \in Ctx, NEW t \in Timers, TimerFires(c, t) PROVE FALSE
    BY <1>4 DEF TimerFires, CalmInv, OneAtATime
  <1>5. CASE RouterStep \/ Cancel \/ MainExit
    BY <1>5 DEF RouterStep, RouterDetach, Purge, RouterShutdown, Cancel, MainExit, Calm,
                CalmInv, OneAtATime
  <1>6. CASE Ended \/ UNCHANGED vars
    BY <1>6 DEF Ended, vars, contexts, osVars, threads, files, ConfiglessStopped, Unstopped
  <1> QED
    BY <1>1, <1>2, <1>3, <1>4, <1>5, <1>6 DEF Next

\* "It must also ensure that that the process is stopped if no configuration
\* remains" (agents.go): so it is whenever nothing is under way, for filebeat and
\* packages, in a calm environment in which no operation fails for packages.
\* Telegraf and oracle run without configurations.
THEOREM StoppedWithoutConfigsCorrect ==
    /\ Kind = "filebeat" \/ (Kind = "packages" /\ "badop" \notin Events)
    /\ Calm
    /\ Spec
    => []StoppedWithoutConfigs
  <1> SUFFICES ASSUME Kind = "filebeat" \/ (Kind = "packages" /\ "badop" \notin Events), Calm
               PROVE  Spec => []StoppedWithoutConfigs
    OBVIOUS
  <1>1. Init => ConfiglessStopped
    BY DEF Init, ConfiglessStopped, InStop, Unstopped
  <1>2. IndInv /\ CalmInv /\ ConfiglessStopped /\ [Next]_vars => ConfiglessStopped'
    BY ConfiglessStep
  <1>3. CalmInv /\ ConfiglessStopped => StoppedWithoutConfigs
    <2> SUFFICES ASSUME CalmInv, ConfiglessStopped, Quiescent, ~configs,
                        NEW c \in Ctx, proc[c] = "alive"
                 PROVE  sig[c] = "kill"
      BY DEF StoppedWithoutConfigs
    <2>1. Unstopped = {}
      BY DEF ConfiglessStopped, Quiescent
    <2>2. stopping[c]
      BY <2>1 DEF Unstopped
    <2> QED
      BY <2>2 DEF CalmInv, MarkedIsStopped, Quiescent
  <1> QED
    BY <1>1, <1>2, <1>3, IndInvCorrect, CalmInvCorrect, PTL DEF Spec

================================================================================
