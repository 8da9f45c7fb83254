---------------------------- MODULE AgentRunnerMC -----------------------------
(***************************************************************************)
(* Small instances of AgentRunner. At most one instruction goroutine is    *)
(* past its idle point at any time (mutetx), so that a second one adds     *)
(* nothing but the contention.                                             *)
(***************************************************************************)
EXTENDS AgentRunner, TLC

CONSTANTS c1, c2, c3, i1, i2, t1, t2, router, nil

TwoContexts   == {c1, c2}
ThreeContexts == {c1, c2, c3}
NoWatchers    == {}
OneWatcher    == {i1}
TwoWatchers   == {i1, i2}
OneTimer      == {t1}
TwoTimers     == {t1, t2}

\* Contexts, instruction goroutines and restart goroutines are interchangeable.
Symmetry == Permutations(Ctx) \cup Permutations(Instr) \cup Permutations(Timers)

\* No step of the telegraf runner, and no property of its run, depends on whether
\* a configuration is stored.
TelegrafView == <<contexts, osVars, threads, exe, envoy>>

\* A reachable start: one instruction has started the agent and the instruction
\* goroutines are done, so that only crashes, timers, detaches and the
\* shutdown remain.
StartedInit ==
    /\ running = c1
    /\ waiter = [c \in Ctx |-> IF c = c1 THEN "waiting" ELSE "none"]
    /\ stopping = [c \in Ctx |-> FALSE]
    /\ timer = [c \in Ctx |-> FALSE]
    /\ proc = [c \in Ctx |-> IF c = c1 THEN "alive" ELSE "none"]
    /\ sig = [c \in Ctx |-> "none"]
    /\ pc = [t \in Threads |-> "idle"]
    /\ cur = [t \in Threads |-> NoCtx]
    /\ ret = [t \in Threads |-> "idle"]
    /\ apply = [t \in Threads |-> FALSE]
    /\ exe = TRUE
    /\ configs = TRUE
    /\ envoy = "up"

StartedSpec == StartedInit /\ [][Next]_vars /\ Fairness

================================================================================
