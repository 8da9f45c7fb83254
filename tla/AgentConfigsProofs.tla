--------------------------- MODULE AgentConfigsProofs ---------------------------
(***************************************************************************)
(* TLAPS proofs about AgentConfigs, for every set of ids, any number of    *)
(* processes and pending restarts and any number of lives of the Envoy.    *)
(***************************************************************************)
EXTENDS AgentConfigs, TLAPS

\* The address that agents are told is one that a main configuration may have.
LEMMA AddressFacts == Address \in {"current", "none"}
  BY DEF Address

\* The goroutines of a new Envoy are at control points, none of them in a Stop.
LEMMA AtStartFacts ==
    /\ AtStart \in [Threads -> Labels]
    /\ AtStart[Router] = "new" /\ AtStart[Instr] = "idle"
    /\ \A t \in Threads : AtStart[t] \in {"new", "idle"}
  BY ConfigNamesAssumption DEF AtStart, Labels, Threads

\* Before the first Envoy nothing is stored and no agent runs.
LEMMA InitInd == Init => IndInv
  <1> SUFFICES ASSUME Init PROVE IndInv
    OBVIOUS
  <1>1. TypeOK
    <2>1. pc \in [Threads -> Labels]
      BY AtStartFacts DEF Init
    <2> QED
      BY <2>1 DEF Init, TypeOK, Content
  <1>2. Owned
    BY AtStartFacts DEF Init, Owned
  <1> QED
    BY <1>1, <1>2, AtStartFacts
       DEF Init, IndInv, OnlyInEnvoy, DialsAddress, TouchedInOps, BehindIsTold,
           EarlierConfigsGone, Up, Stored, Telegraf

\* The end of the Envoy, whatever the reason, keeps the invariant.
LEMMA EndsInd ==
    ASSUME IndInv, NEW how \in {"down", "panicked"}, Ends(how)
    PROVE  IndInv'
  <1> USE DEF Ends, IndInv
  <1>1. Stored \subseteq Id
    BY DEF Stored
  <1>2. TypeOK'
    <2>1. /\ main' \in {"absent", "torn", "none", "stale", "current"}
          /\ stored' \in [Id -> Content \cup {"none"}]
          /\ old' \subseteq Id
      BY <1>1 DEF TypeOK
    <2>2. pc' \in [Threads -> Labels]
      BY AtStartFacts
    <2> QED
      BY <2>1, <2>2 DEF TypeOK
  <1>3. OnlyInEnvoy'
    BY AtStartFacts DEF OnlyInEnvoy, Up, Stored, Telegraf
  <1>4. Owned'
    BY AtStartFacts DEF Owned
  <1> QED
    BY <1>2, <1>3, <1>4
       DEF DialsAddress, TouchedInOps, BehindIsTold, EarlierConfigsGone, Up, Telegraf

\* The beginning of the Envoy keeps the invariant: what an earlier one stored is
\* gone when it is up.
LEMMA SetupInd ==
    ASSUME IndInv, Bind \/ Load \/ StartupPurge
    PROVE  IndInv'
  <1> USE DEF IndInv, OnlyInEnvoy, DialsAddress, TouchedInOps, EarlierConfigsGone, Up,
              Telegraf, configs, threads, procs, views
  <1>1. Owned' /\ BehindIsTold'
    BY DEF Bind, Load, StartupPurge, Owned, BehindIsTold, BeingStopped, Told
  <1>2. CASE Bind
    BY <1>1, <1>2 DEF Bind, TypeOK, Stored
  <1>3. CASE Load
    BY <1>1, <1>3, AddressFacts DEF Load, TypeOK, Stored, Address
  <1>4. CASE StartupPurge
    <2> PICK keep \in SUBSET Stored :
            /\ stored' = [id \in Id |-> IF id \in keep THEN stored[id] ELSE "none"]
            /\ old' = old \cap keep
            /\ dir' = (keep # {})
            /\ envoy' = IF keep = {} THEN "up" ELSE "down"
      BY <1>4 DEF StartupPurge
    <2>1. TypeOK'
      BY <1>4 DEF StartupPurge, TypeOK
    <2>2. OnlyInEnvoy'
      BY <1>4 DEF StartupPurge, TypeOK, Stored
    <2>3. DialsAddress'
      BY <1>4 DEF StartupPurge, Address
    <2> QED
      BY <1>1, <1>4, <2>1, <2>2, <2>3 DEF StartupPurge
  <1> QED
    BY <1>2, <1>3, <1>4

--------------------------------------------------------------------------------
(* Steps that only move a goroutine. *)

\* A goroutine that is neither entering nor leaving a Stop or a start keeps the
\* invariant, if it tells a running agent what it has changed.
LEMMA MoveInd ==
    ASSUME IndInv, Up, NEW t \in Threads,
           NEW label \in Labels \ (Stopping \cup Starting \cup {"ops", "purging"}),
           pc[t] \notin Stopping \cup {"ops"},
           Goto(t, label, NoProc),
           UNCHANGED <<kind, setup, configs, touched, procs, views, overtaken>>,
           todo' \subseteq Id,
           t = Instr /\ pc[t] \in Telling /\ label \notin Telling
               => running = NoProc \/ behind \subseteq missed
    PROVE  IndInv'
  <1> USE ConfigNamesAssumption
      DEF IndInv, Goto, Up, Telegraf, Told, setup, configs, procs, views, Threads
  <1>1. TypeOK'
    BY DEF TypeOK
  <1>2. OnlyInEnvoy' /\ DialsAddress' /\ EarlierConfigsGone'
    BY DEF TypeOK, OnlyInEnvoy, DialsAddress, EarlierConfigsGone, Address
  <1>3. Owned'
    BY DEF TypeOK, Owned, Starting
  <1>4. TouchedInOps'
    BY DEF TypeOK, TouchedInOps
  <1>5. BehindIsTold'
    BY DEF TypeOK, BehindIsTold, BeingStopped
  <1> QED
    BY <1>1, <1>2, <1>3, <1>4, <1>5

\* The checks of EnsureRunningState, an install and the moves of the router.
LEMMA MovesInd ==
    ASSUME IndInv,
           \/ \E t \in Threads : CheckReady(t) \/ CheckRunning(t)
           \/ Install \/ RouterBegins \/ Detach \/ PurgeSkipped \/ PurgeFails
    PROVE  IndInv'
  <1> USE DEF Labels, Starting, StopCall, Stopping, Telling
  <1>1. ASSUME NEW t \in Threads, CheckReady(t) PROVE IndInv'
    BY <1>1, MoveInd DEF CheckReady, IndInv, TypeOK
  <1>2. ASSUME NEW t \in Threads, CheckRunning(t) PROVE IndInv'
    <2> DEFINE label == IF running = NoProc THEN "start"
                        ELSE IF pc[t] = "ensurerun" \/ ~Told THEN "idle"
                        ELSE IF Telegraf THEN "hup" ELSE "restart"
    <2>1. label \in {"start", "idle", "hup", "restart"}
      OBVIOUS
    <2>2. pc[t] \in Telling /\ label \notin Telling
              => running = NoProc \/ behind \subseteq missed
      BY <1>2 DEF CheckRunning, IndInv, BehindIsTold
    <2>3. Goto(t, label, NoProc)
      BY <1>2 DEF CheckRunning
    <2> HIDE DEF label
    <2> QED
      BY <1>2, <2>1, <2>2, <2>3, MoveInd DEF CheckRunning, IndInv, TypeOK
  <1>3. CASE Install
    BY <1>3, MoveInd DEF Install, IndInv, TypeOK, Threads
  <1>4. CASE RouterBegins
    BY <1>4, MoveInd DEF RouterBegins, IndInv, TypeOK, Threads
  <1>5. CASE Detach
    BY <1>5, MoveInd DEF Detach, IndInv, TypeOK, Threads
  <1>6. CASE PurgeSkipped
    BY <1>6, MoveInd DEF PurgeSkipped, IndInv, TypeOK, Threads
  <1>7. CASE PurgeFails
    BY <1>7, MoveInd DEF PurgeFails, IndInv, TypeOK, Threads, configs
  <1> QED
    BY <1>1, <1>2, <1>3, <1>4, <1>5, <1>6, <1>7

--------------------------------------------------------------------------------
(* Instructions. *)

\* What storing a content makes of what was stored is a content.
LEMMA OverwriteFacts ==
    ASSUME NEW c \in Sent, NEW before
    PROVE  Overwrite(before, c) \in Content
  BY SentAssumption DEF Overwrite, Content

\* A change of S makes the agent behind with at most S, and only if agents are told.
LEMMA ChangedFacts ==
    ASSUME NEW S \in SUBSET Id, IndInv, Changed(S)
    PROVE  /\ behind' \subseteq Id /\ behind' \subseteq behind \cup S
           /\ overtaken' \in [Threads -> SUBSET Id]
           /\ reload' = reload /\ reading' = reading
           /\ ~Told => behind' = {} /\ \A t \in Threads : overtaken'[t] = {}
  <1>1. behind' \subseteq behind \cup S
    BY DEF Changed
  <1>2. ~Told => behind' = behind
    BY DEF Changed
  <1>3. overtaken' \in [Threads -> SUBSET Id]
    BY DEF Changed, IndInv, TypeOK
  <1>4. ASSUME ~Told, NEW t \in Threads PROVE overtaken'[t] = {}
    BY <1>4 DEF Changed, IndInv, BehindIsTold
  <1> QED
    BY <1>1, <1>2, <1>3, <1>4 DEF Changed, IndInv, TypeOK, BehindIsTold

\* The operations of an instruction keep the invariant.
LEMMA OpInd ==
    ASSUME IndInv, NEW id \in Id,
           \/ \E c \in Sent : Store(id, c)
           \/ Remove(id) \/ RemoveAbsent(id) \/ OpFails(id)
    PROVE  IndInv'
  <1> USE DEF IndInv, OnlyInEnvoy, EarlierConfigsGone, Up, Telegraf, Address, setup,
              threads, procs
  <1>1. pc[Instr] = "ops" /\ envoy = "up"
    BY DEF Store, Remove, RemoveAbsent, OpFails, Op
  <1>2. Instr \in Threads /\ Router \in Threads /\ Instr # Router
    BY ConfigNamesAssumption DEF Threads
  <1>3. ASSUME NEW c \in Sent, Store(id, c) PROVE IndInv'
    <2> USE <1>3 DEF Store
    <2>1. TypeOK'
      BY OverwriteFacts, ChangedFacts DEF TypeOK
    <2>2. BehindIsTold'
      BY <1>1, ChangedFacts DEF BehindIsTold, BeingStopped, Told
    <2> QED
      BY <1>1, <2>1, <2>2 DEF DialsAddress, Owned, TouchedInOps
  <1>4. CASE Remove(id)
    <2> USE <1>4 DEF Remove
    <2>1. TypeOK'
      BY ChangedFacts DEF TypeOK
    <2>2. BehindIsTold'
      BY <1>1, ChangedFacts DEF BehindIsTold, BeingStopped, Told
    <2> QED
      BY <1>1, <2>1, <2>2 DEF DialsAddress, Owned, TouchedInOps
  <1>5. CASE RemoveAbsent(id)
    <2> USE <1>5 DEF RemoveAbsent, configs, views
    <2>1. TypeOK'
      BY DEF TypeOK
    <2>2. BehindIsTold'
      BY <1>1 DEF BehindIsTold, BeingStopped, Told
    <2> QED
      BY <1>1, <2>1, <2>2 DEF DialsAddress, Owned, TouchedInOps, Stored
  <1>6. CASE OpFails(id)
    <2> USE <1>6 DEF OpFails
    <2>1. /\ behind' \subseteq Id /\ behind' \subseteq behind \cup {id}
          /\ overtaken' \in [Threads -> SUBSET Id]
          /\ reload' = reload /\ reading' = reading
          /\ ~Told => behind' = {} /\ \A t \in Threads : overtaken'[t] = {}
          /\ Telegraf => behind' = behind
          /\ stored' \in [Id -> Content \cup {"none"}]
      <3>1. CASE UNCHANGED <<stored, reload, reading, behind, overtaken>>
        BY <3>1 DEF TypeOK, BehindIsTold
      <3>2. CASE dir /\ stored' = [stored EXCEPT ![id] = "torn"] /\ Changed({id})
        BY <3>2, ChangedFacts DEF TypeOK, Content
      <3> QED
        BY <3>1, <3>2
    <2>2. CASE Strict
      <3> USE <2>2 DEF Goto, Miss
      <3>1. TypeOK'
        <4>1. missed' \subseteq Id /\ touched' \subseteq Id
          BY <2>1 DEF TypeOK
        <4>2. pc' \in [Threads -> Labels] /\ cur' \in [Threads -> Proc \cup {NoProc}]
          BY <1>2 DEF TypeOK, Labels
        <4> QED
          BY <2>1, <4>1, <4>2 DEF TypeOK
      <3>2. ASSUME running # NoProc, ~BeingStopped(running) PROVE behind' \subseteq missed'
        BY <1>1, <2>1, <3>2 DEF BehindIsTold, Telling
      <3>3. BeingStopped(running)' <=> BeingStopped(running)
        BY <1>1, <1>2 DEF BeingStopped, Stopping, TypeOK
      <3>5. BehindIsTold'
        BY <1>1, <1>2, <2>1, <3>2, <3>3 DEF BehindIsTold, Told
      <3>4. Owned'
        BY <1>1, <1>2, ConfigNamesAssumption DEF Owned, TypeOK
      <3> QED
        BY <1>1, <1>2, <3>1, <3>4, <3>5 DEF DialsAddress, TouchedInOps, TypeOK
    <2>3. CASE ~Strict
      <3> USE <2>3
      <3>1. Telegraf \/ ~Told
        BY KindsAssumption DEF Strict, Told, TypeOK
      <3>2. TypeOK'
        BY <2>1 DEF TypeOK
      <3>3. BehindIsTold'
        BY <1>1, <2>1, <3>1 DEF BehindIsTold, BeingStopped, Told
      <3> QED
        BY <1>1, <3>2, <3>3 DEF DialsAddress, Owned, TouchedInOps
    <2> QED
      BY <2>2, <2>3
  <1> QED
    BY <1>3, <1>4, <1>5, <1>6

\* The beginning and the end of the operations keep the invariant.
LEMMA InstructionInd ==
    ASSUME IndInv, BeginConfigure \/ EndOps
    PROVE  IndInv'
  <1> USE DEF IndInv, EarlierConfigsGone, Up, Telegraf, Address, procs, views, Goto
  <1>1. Instr \in Threads /\ Router \in Threads /\ Instr # Router
    BY ConfigNamesAssumption DEF Threads
  <1>2. CASE BeginConfigure
    <2> USE <1>2 DEF BeginConfigure, threads
    <2>1. TypeOK'
      BY <1>1, AddressFacts DEF TypeOK, Labels
    <2>2. OnlyInEnvoy' /\ DialsAddress'
      BY <1>1 DEF OnlyInEnvoy, DialsAddress, TypeOK, Stored
    <2>3. Owned' /\ TouchedInOps'
      BY <1>1, ConfigNamesAssumption DEF Owned, TouchedInOps, TypeOK
    <2>4. BehindIsTold'
      BY <1>1 DEF BehindIsTold, BeingStopped, Stopping, Telling, Told, TypeOK
    <2> QED
      BY <2>1, <2>2, <2>3, <2>4
  <1>3. CASE EndOps
    <2> USE <1>3 DEF EndOps, Op, setup, configs
    <2>1. TypeOK'
      BY <1>1 DEF TypeOK, Labels
    <2>2. OnlyInEnvoy' /\ DialsAddress'
      BY <1>1 DEF OnlyInEnvoy, DialsAddress, TypeOK, Stored
    <2>3. Owned' /\ TouchedInOps'
      BY <1>1, ConfigNamesAssumption DEF Owned, TouchedInOps, TypeOK
    <2>4. BehindIsTold'
      BY <1>1 DEF BehindIsTold, BeingStopped, Stopping, Telling, Told, TypeOK
    <2> QED
      BY <2>1, <2>2, <2>3, <2>4
  <1> QED
    BY <1>2, <1>3

--------------------------------------------------------------------------------
(* The processes of the agent. *)

\* A step of goroutine t that changes what it starts keeps what does not concern
\* processes and recorded agents.
LEMMA ProcFrame ==
    ASSUME IndInv, Up, NEW t \in Threads, NEW label \in Labels \ {"ops", "purging"}, NEW p,
           pc[t] # "ops", Goto(t, label, p),
           UNCHANGED <<kind, setup, configs, touched, todo>>
    PROVE  OnlyInEnvoy' /\ TouchedInOps' /\ EarlierConfigsGone'
  BY ConfigNamesAssumption
     DEF IndInv, TypeOK, Goto, Up, Telegraf, setup, configs, Threads, OnlyInEnvoy,
         TouchedInOps, EarlierConfigsGone

\* A goroutine goes on at a control point, with a process or without.
LEMMA GotoType ==
    ASSUME TypeOK, NEW t \in Threads, NEW label \in Labels, NEW p \in Proc \cup {NoProc},
           Goto(t, label, p)
    PROVE  pc' \in [Threads -> Labels] /\ cur' \in [Threads -> Proc \cup {NoProc}]
  BY DEF TypeOK, Goto

\* A goroutine that goes on outside of Stop stops nothing more and nothing less.
LEMMA SameStopping ==
    ASSUME TypeOK, NEW t \in Threads, NEW label, label \notin Stopping, pc[t] \notin Stopping,
           NEW p, Goto(t, label, p), NEW q
    PROVE  (\E u \in Threads : cur'[u] = q /\ pc'[u] \in Stopping) <=> BeingStopped(q)
  BY DEF TypeOK, Goto, BeingStopped

\* The reload of telegraf keeps the invariant.
LEMMA HupInd ==
    ASSUME IndInv, NEW t \in Threads, Hup(t)
    PROVE  IndInv'
  <1> USE ConfigNamesAssumption DEF IndInv, Hup, Goto, procs
  <1>1. TypeOK'
    <2>1. pc' \in [Threads -> Labels] /\ cur' \in [Threads -> Proc \cup {NoProc}]
      BY GotoType DEF Labels
    <2> QED
      BY <2>1 DEF TypeOK, setup, configs
  <1>2. OnlyInEnvoy' /\ TouchedInOps' /\ EarlierConfigsGone'
    BY ProcFrame DEF Labels
  <1>3. DialsAddress'
    BY DEF DialsAddress, Telegraf, Address, setup
  <1>4. Owned'
    BY DEF Owned, TypeOK
  <1>5. BehindIsTold'
    BY DEF BehindIsTold, Told, TypeOK
  <1> QED
    BY <1>1, <1>2, <1>3, <1>4, <1>5

\* The execution of a new process keeps the invariant.
LEMMA StartInd ==
    ASSUME IndInv, NEW t \in Threads, NEW p \in Proc, Start(t, p)
    PROVE  IndInv'
  <1> USE ConfigNamesAssumption DEF IndInv, Start, views
  <1>1. TypeOK'
    <2>1. pc' \in [Threads -> Labels] /\ cur' \in [Threads -> Proc \cup {NoProc}]
      BY GotoType DEF Labels, Starting
    <2> QED
      BY <2>1, AddressFacts DEF TypeOK, setup, configs
  <1>2. OnlyInEnvoy' /\ TouchedInOps' /\ EarlierConfigsGone'
    BY ProcFrame DEF Labels, Starting
  <1>3. DialsAddress'
    BY DEF DialsAddress, Telegraf, Address, setup, TypeOK, Up
  <1>4. Owned'
    BY DEF Owned, TypeOK, Goto, Fresh
  <1>5. BeingStopped(running)' <=> BeingStopped(running)
    BY SameStopping DEF BeingStopped, Stopping
  <1>6. pc'[Instr] \notin Telling => pc[Instr] \notin Telling
    BY DEF Goto, TypeOK, Telling
  <1>7. BehindIsTold'
    BY <1>5, <1>6 DEF BehindIsTold, Told
  <1> QED
    BY <1>1, <1>2, <1>3, <1>4, <1>7

\* A start that succeeds keeps the invariant.
LEMMA StartedInd ==
    ASSUME IndInv, NEW t \in Threads, Started(t)
    PROVE  IndInv'
  <1> USE ConfigNamesAssumption DEF IndInv, Started, views
  <1>1. TypeOK'
    <2>1. pc' \in [Threads -> Labels] /\ cur' \in [Threads -> Proc \cup {NoProc}]
      BY GotoType DEF Labels, Starting, TypeOK
    <2> QED
      BY <2>1 DEF TypeOK, Owned, setup, configs
  <1>2. OnlyInEnvoy' /\ TouchedInOps' /\ EarlierConfigsGone'
    BY ProcFrame DEF Labels, Starting
  <1>3. DialsAddress'
    BY DEF DialsAddress, Telegraf, Address, setup, TypeOK, Owned
  <1>4. Owned'
    BY DEF Owned, TypeOK, Goto
  <1>5. BeingStopped(running)' <=> BeingStopped(running)
    BY SameStopping DEF BeingStopped, Stopping
  <1>6. pc'[Instr] \notin Telling => pc[Instr] \notin Telling
    BY DEF Goto, TypeOK, Telling
  <1>7. BehindIsTold'
    BY <1>5, <1>6 DEF BehindIsTold, Told
  <1> QED
    BY <1>1, <1>2, <1>3, <1>4, <1>7

\* A start that fails keeps the invariant, whether the process has ended or not.
LEMMA StartFailsInd ==
    ASSUME IndInv, NEW t \in Threads, StartFails(t)
    PROVE  IndInv'
  <1> USE ConfigNamesAssumption DEF IndInv, StartFails, views
  <1>1. CASE kind = "oracle"
    BY <1>1, EndsInd
  <1>2. CASE kind # "oracle"
    <2> USE <1>2
    <2>1. TypeOK'
      <3>1. pc' \in [Threads -> Labels] /\ cur' \in [Threads -> Proc \cup {NoProc}]
        BY GotoType DEF Labels
      <3>2. pc[t] = "await" => cur[t] \in Proc
        BY DEF Owned
      <3>3. /\ proc' \in [Proc -> {"none", "starting", "watched", "orphan"}]
            /\ dials' \in [Proc -> {"absent", "torn", "none", "stale", "current"}]
        BY <3>2 DEF TypeOK, Leave
      <3>4. overtaken' \in [Threads -> SUBSET Id]
        BY DEF TypeOK
      <3> QED
        BY <3>1, <3>3, <3>4 DEF TypeOK, setup, configs
    <2>2. OnlyInEnvoy' /\ TouchedInOps' /\ EarlierConfigsGone'
      BY ProcFrame DEF Labels
    <2>3. DialsAddress'
      BY DEF DialsAddress, Telegraf, Address, setup, TypeOK, Owned, Leave
    <2>4. Owned'
      BY DEF Owned, TypeOK, Goto, Leave
    <2>5. BeingStopped(running)' <=> BeingStopped(running)
      BY SameStopping DEF BeingStopped, Stopping
    <2>6. pc'[Instr] \notin Telling => pc[Instr] \notin Telling
      BY DEF Goto, TypeOK, Telling, Threads
    <2>7. BehindIsTold'
      BY <2>5, <2>6 DEF BehindIsTold, Told, TypeOK
    <2> QED
      BY <2>1, <2>2, <2>3, <2>4, <2>7
  <1> QED
    BY <1>1, <1>2

\* The record of a new process keeps the invariant: with what has changed while it
\* was started it is behind, and nobody will tell it.
LEMMA AssignInd ==
    ASSUME IndInv, NEW t \in Threads, Assign(t)
    PROVE  IndInv'
  <1> USE ConfigNamesAssumption DEF IndInv, Assign, NothingRecorded
  <1>1. TypeOK'
    <2>1. pc' \in [Threads -> Labels] /\ cur' \in [Threads -> Proc \cup {NoProc}]
      BY GotoType DEF Labels
    <2>2. reload' \in BOOLEAN /\ reading' \in BOOLEAN
      BY Zenon
    <2>3. running' \in Proc \cup {NoProc} /\ behind' \subseteq Id /\ missed' \subseteq Id
      BY DEF TypeOK, Owned
    <2> QED
      BY <2>1, <2>2, <2>3 DEF TypeOK, setup, configs
  <1>2. OnlyInEnvoy' /\ TouchedInOps' /\ EarlierConfigsGone'
    BY ProcFrame DEF Labels
  <1>3. DialsAddress'
    BY DEF DialsAddress, Telegraf, Address, setup
  <1>4. Owned'
    BY DEF Owned, TypeOK, Goto
  <1>5. BehindIsTold'
    BY DEF BehindIsTold, Told, TypeOK
  <1> QED
    BY <1>1, <1>2, <1>3, <1>4, <1>5

\* The call of Stop keeps the invariant: from now on the agent is being stopped.
LEMMA CallStopInd ==
    ASSUME IndInv, NEW t \in Threads, CallStop(t)
    PROVE  IndInv'
  <1> USE ConfigNamesAssumption DEF IndInv, CallStop, views, procs
  <1>1. InStop(pc[t]) \in Stopping
    BY DEF InStop, Stopping
  <1> DEFINE p == IF running # NoProc /\ ~BeingStopped(running) THEN running ELSE NoProc
  <1>2. Goto(t, InStop(pc[t]), p) /\ pc[t] \in StopCall
    OBVIOUS
  <1>3. TypeOK'
    <2>1. pc' \in [Threads -> Labels] /\ cur' \in [Threads -> Proc \cup {NoProc}]
      BY <1>1, GotoType DEF Labels, TypeOK
    <2> QED
      BY <2>1 DEF TypeOK, setup, configs
  <1>4. OnlyInEnvoy' /\ TouchedInOps' /\ EarlierConfigsGone'
    BY <1>1, ProcFrame DEF Labels, Stopping, StopCall
  <1>5. DialsAddress'
    BY DEF DialsAddress, Telegraf, Address, setup
  <1>6. p = NoProc \/ (p = running /\ p \in Proc /\ proc[p] = "watched")
    BY DEF Owned, TypeOK
  <1>7. Owned'
    BY <1>1, <1>2, <1>6 DEF Owned, TypeOK, Goto, Stopping
  <1>8. running # NoProc => BeingStopped(running)'
    <2>1. CASE p = running
      BY <1>1, <1>2, <2>1 DEF TypeOK, Goto, BeingStopped
    <2>2. CASE BeingStopped(running)
      <3> PICK u \in Threads : cur[u] = running /\ pc[u] \in Stopping
        BY <2>2 DEF BeingStopped
      <3> QED
        BY <1>2 DEF TypeOK, Goto, BeingStopped, Stopping, StopCall
    <2> QED
      BY <2>1, <2>2
  <1>9. BehindIsTold'
    BY <1>8 DEF BehindIsTold, Told
  <1> QED
    BY <1>3, <1>4, <1>5, <1>7, <1>9

\* The return of Stop keeps the invariant: the process is gone, and if another one
\* stays recorded nobody has stopped that one.
LEMMA StopReturnsInd ==
    ASSUME IndInv, NEW t \in Threads, StopReturns(t)
    PROVE  IndInv'
  <1> USE ConfigNamesAssumption DEF IndInv, StopReturns, NothingRecorded
  <1>1. AfterStop(pc[t]) \in {"start", "idle", "ensure", "purge"}
    BY DEF AfterStop
  <1>2. TypeOK'
    <2>1. pc' \in [Threads -> Labels] /\ cur' \in [Threads -> Proc \cup {NoProc}]
      BY <1>1, GotoType DEF Labels
    <2> QED
      BY <2>1 DEF TypeOK, Leave, views, setup, configs
  <1>3. OnlyInEnvoy' /\ TouchedInOps' /\ EarlierConfigsGone'
    BY <1>1, ProcFrame DEF Labels, Stopping
  <1>4. DialsAddress'
    BY DEF DialsAddress, Telegraf, Address, setup, TypeOK, Leave
  <1>5. pc[t] # "await" /\ pc[t] # "assign"
    BY DEF Stopping
  <1>6. Owned'
    BY <1>1, <1>5 DEF Owned, TypeOK, Goto, Leave
  <1>7. BehindIsTold'
    <2>1. CASE running' = NoProc /\ behind' = {}
      BY <2>1 DEF BehindIsTold, Told
    <2>2. CASE pc[t] = "halting" /\ running # cur[t] /\ UNCHANGED <<running, views>>
      <3>1. BeingStopped(running) => BeingStopped(running)'
        BY <2>2 DEF BeingStopped, Goto, TypeOK
      <3>2. pc'[Instr] \notin Telling => pc[Instr] \notin Telling
        BY <2>2 DEF Goto, TypeOK, Telling
      <3> QED
        BY <2>2, <3>1, <3>2 DEF BehindIsTold, Told, views
    <2> QED
      BY <2>1, <2>2
  <1> QED
    BY <1>2, <1>3, <1>4, <1>6, <1>7

\* The end of a process keeps the invariant, whether a restart follows or not.
LEMMA AgentEndsInd ==
    ASSUME IndInv, NEW p \in Proc, AgentEnds(p)
    PROVE  IndInv'
  <1>0. /\ pc \in [Threads -> Labels] /\ cur \in [Threads -> Proc \cup {NoProc}]
        /\ Instr \in Threads /\ Router \in Threads
    BY DEF IndInv, TypeOK, Threads
  <1> USE ConfigNamesAssumption DEF IndInv
  <1>1. /\ pc' \in [Threads -> Labels] /\ cur' \in [Threads -> Proc \cup {NoProc}]
        /\ pc'[Instr] = pc[Instr] /\ pc'[Router] = pc[Router]
        /\ \A u \in Threads : \/ pc'[u] = pc[u] /\ cur'[u] = cur[u]
                              \/ pc[u] = "idle" /\ pc'[u] = "ensure" /\ cur'[u] = NoProc
    <2>1. CASE UNCHANGED threads
      BY <1>0, <2>1 DEF threads
    <2>2. CASE \E t \in Timers : pc[t] = "idle" /\ Goto(t, "ensure", NoProc)
      <3> PICK t \in Timers : pc[t] = "idle" /\ Goto(t, "ensure", NoProc)
        BY <2>2
      <3>1. t \in Threads /\ t # Instr /\ t # Router
        BY DEF Threads
      <3>2. pc' \in [Threads -> Labels] /\ cur' \in [Threads -> Proc \cup {NoProc}]
        BY <3>1, GotoType DEF Labels
      <3>3. pc' = [pc EXCEPT ![t] = "ensure"] /\ cur' = [cur EXCEPT ![t] = NoProc]
        BY DEF Goto
      <3> QED
        BY <1>0, <3>1, <3>2, <3>3
    <2> QED
      BY <2>1, <2>2 DEF AgentEnds
  <1> USE DEF AgentEnds, NothingRecorded
  <1>2. TypeOK'
    BY <1>1 DEF TypeOK, Leave, views, setup, configs
  <1>3. OnlyInEnvoy' /\ TouchedInOps' /\ EarlierConfigsGone'
    BY <1>1 DEF OnlyInEnvoy, TouchedInOps, EarlierConfigsGone, Up, Telegraf, setup, configs
  <1>4. DialsAddress'
    BY DEF DialsAddress, Telegraf, Address, setup, TypeOK, Leave
  <1>5. Owned'
    BY <1>1 DEF Owned, TypeOK, Leave
  <1>6. BeingStopped(running) => (\E u \in Threads : cur'[u] = running /\ pc'[u] \in Stopping)
    BY <1>1 DEF BeingStopped, Stopping
  <1>7. BehindIsTold'
    BY <1>1, <1>6 DEF BehindIsTold, BeingStopped, Told, views
  <1> QED
    BY <1>2, <1>3, <1>4, <1>5, <1>7

\* What agents that are recorded read, and the end of one that is not, keeps the
\* invariant.
LEMMA AgentInd ==
    ASSUME IndInv, BeginRead \/ EndRead \/ \E p \in Proc : OrphanEnds(p)
    PROVE  IndInv'
  <1> USE DEF IndInv, OnlyInEnvoy, EarlierConfigsGone, TouchedInOps, Up, Telegraf, Address,
              setup, configs, threads
  <1>1. CASE BeginRead
    BY <1>1 DEF BeginRead, procs, TypeOK, DialsAddress, Owned, BehindIsTold, Told
  <1>2. CASE EndRead
    BY <1>2 DEF EndRead, procs, TypeOK, DialsAddress, Owned, BehindIsTold, BeingStopped, Told
  <1>3. ASSUME NEW p \in Proc, OrphanEnds(p) PROVE IndInv'
    <2> USE <1>3 DEF OrphanEnds, Leave, views
    <2>1. TypeOK'
      BY DEF TypeOK
    <2>2. DialsAddress'
      BY DEF DialsAddress, TypeOK
    <2>3. Owned'
      BY DEF Owned, TypeOK
    <2>4. BehindIsTold'
      BY DEF BehindIsTold, BeingStopped, Told
    <2> QED
      BY <2>1, <2>2, <2>3, <2>4
  <1> QED
    BY <1>1, <1>2, <1>3

--------------------------------------------------------------------------------
(* The purge. *)

\* A file that RemoveAll removes, and the whole map of telegraf.
LEMMA PurgeInd ==
    ASSUME IndInv, PurgeBegins \/ PurgeEnds \/ \E id \in Id : PurgeFile(id)
    PROVE  IndInv'
  <1> USE DEF IndInv, EarlierConfigsGone, TouchedInOps, Up, Telegraf, Address, setup, procs
  <1>1. Instr \in Threads /\ Router \in Threads /\ Instr # Router
    BY ConfigNamesAssumption DEF Threads
  <1>2. CASE PurgeEnds
    <2> USE <1>2 DEF PurgeEnds, Goto, views
    <2>1. TypeOK'
      BY <1>1 DEF TypeOK, Labels
    <2>2. OnlyInEnvoy' /\ DialsAddress' /\ TouchedInOps'
      BY <1>1 DEF OnlyInEnvoy, DialsAddress, TypeOK
    <2>3. Owned'
      BY <1>1, ConfigNamesAssumption DEF Owned, TypeOK
    <2>4. BehindIsTold'
      BY <1>1 DEF BehindIsTold, BeingStopped, Stopping, Told, TypeOK
    <2> QED
      BY <2>1, <2>2, <2>3, <2>4
  <1>3. ASSUME NEW id \in Id, PurgeFile(id) PROVE IndInv'
    <2> USE <1>3 DEF PurgeFile, threads, Miss
    <2>1. {id} \cap Stored \in SUBSET Id
      OBVIOUS
    <2>2. TypeOK'
      BY <2>1, ChangedFacts DEF TypeOK
    <2>3. BehindIsTold'
      BY <2>1, ChangedFacts DEF BehindIsTold, BeingStopped, Told
    <2> QED
      BY <2>2, <2>3 DEF OnlyInEnvoy, DialsAddress, Owned
  <1>4. CASE PurgeBegins
    <2> USE <1>4 DEF PurgeBegins, Goto
    <2>1. Stored \in SUBSET Id
      BY DEF Stored
    <2>2. CASE Telegraf
      <3> USE <2>2 DEF Miss
      <3>1. TypeOK'
        BY <1>1, <2>1, ChangedFacts DEF TypeOK, Labels
      <3>2. OnlyInEnvoy' /\ DialsAddress' /\ TouchedInOps'
        BY <1>1 DEF OnlyInEnvoy, DialsAddress, TypeOK
      <3>3. Owned'
        BY <1>1, ConfigNamesAssumption DEF Owned, TypeOK
      <3>4. BeingStopped(running)' <=> BeingStopped(running)
        BY <1>1 DEF BeingStopped, Stopping, TypeOK
      <3>5. BehindIsTold'
        BY <1>1, <2>1, <3>4, ChangedFacts DEF BehindIsTold, Told, TypeOK
      <3> QED
        BY <3>1, <3>2, <3>3, <3>5
    <2>3. CASE ~Telegraf
      <3> USE <2>3 DEF views
      <3>1. TypeOK'
        BY <1>1, <2>1 DEF TypeOK, Labels
      <3>2. OnlyInEnvoy' /\ DialsAddress' /\ TouchedInOps'
        BY <1>1 DEF OnlyInEnvoy, DialsAddress, TypeOK
      <3>3. Owned'
        BY <1>1, ConfigNamesAssumption DEF Owned, TypeOK
      <3>4. BehindIsTold'
        BY <1>1 DEF BehindIsTold, BeingStopped, Stopping, Told, TypeOK
      <3> QED
        BY <3>1, <3>2, <3>3, <3>4
    <2> QED
      BY <2>2, <2>3
  <1> QED
    BY <1>2, <1>3, <1>4

--------------------------------------------------------------------------------
\* Every step keeps the invariant.
LEMMA NextInd == IndInv /\ [Next]_vars => IndInv'
  <1> SUFFICES ASSUME IndInv, [Next]_vars PROVE IndInv'
    OBVIOUS
  <1>1. CASE Bind \/ Load \/ StartupPurge
    BY <1>1, SetupInd
  <1>2. CASE EnvoyEnds \/ NilMap \/ MapRace \/ \E t \in Threads : NilContext(t)
    BY <1>2, EndsInd DEF EnvoyEnds, NilMap, MapRace, NilContext
  <1>3. CASE BeginConfigure \/ EndOps
    BY <1>3, InstructionInd
  <1>4. ASSUME NEW id \in Id,
               \/ \E c \in Sent : Store(id, c)
               \/ Remove(id) \/ RemoveAbsent(id) \/ OpFails(id)
        PROVE  IndInv'
    BY <1>4, OpInd
  <1>5. CASE \/ \E t \in Threads : CheckReady(t) \/ CheckRunning(t)
             \/ Install \/ RouterBegins \/ Detach \/ PurgeSkipped \/ PurgeFails
    BY <1>5, MovesInd
  <1>6. ASSUME NEW t \in Threads,
               \/ Hup(t) \/ StartFails(t) \/ Started(t) \/ Assign(t)
               \/ CallStop(t) \/ StopReturns(t) \/ \E p \in Proc : Start(t, p)
        PROVE  IndInv'
    BY <1>6, HupInd, StartInd, StartedInd, StartFailsInd, AssignInd, CallStopInd,
       StopReturnsInd
  <1>7. CASE \E p \in Proc : AgentEnds(p)
    BY <1>7, AgentEndsInd
  <1>8. CASE BeginRead \/ EndRead \/ \E p \in Proc : OrphanEnds(p)
    BY <1>8, AgentInd
  <1>9. CASE PurgeBegins \/ PurgeEnds \/ \E id \in Id : PurgeFile(id)
    BY <1>9, PurgeInd
  <1>10. CASE UNCHANGED vars
    <2> USE <1>10 DEF vars, setup, configs, threads, procs, views, IndInv
    <2>1. TypeOK' /\ TouchedInOps' /\ Owned'
      BY DEF TypeOK, TouchedInOps, Owned
    <2>2. OnlyInEnvoy' /\ EarlierConfigsGone'
      BY DEF OnlyInEnvoy, EarlierConfigsGone, Up, Telegraf, Stored
    <2>3. DialsAddress' /\ BehindIsTold'
      BY DEF DialsAddress, Address, Telegraf, BehindIsTold, BeingStopped, Told
    <2> QED
      BY <2>1, <2>2, <2>3, Zenon
  <1> QED
    BY <1>1, <1>2, <1>3, <1>4, <1>5, <1>6, <1>7, <1>8, <1>9, <1>10
       DEF Next, Configure, EnsureRunning

--------------------------------------------------------------------------------
\* The inductive invariant holds in every life of the Envoy, for every set of
\* ids and however many processes and restarts there are.
THEOREM IndInvCorrect == Spec => []IndInv
  BY InitInd, NextInd, PTL DEF Spec

\* All variables keep their types.
THEOREM TypeCorrect == Spec => []TypeOK
  <1>1. IndInv => TypeOK
    BY DEF IndInv
  <1> QED
    BY IndInvCorrect, <1>1, PTL

\* What an earlier Envoy stored is gone before an agent of this one can read it,
\* also when a purge at startup removed only some of it.
THEOREM EarlierConfigsGoneCorrect == Spec => []EarlierConfigsGone
  <1>1. IndInv => EarlierConfigsGone
    BY DEF IndInv
  <1> QED
    BY IndInvCorrect, <1>1, PTL

\* Every process of telegraf and of the packages agent dials the ingestor that this
\* Envoy has bound, whoever started it and whether it is recorded or not.
THEOREM AgentDialsThisEnvoyCorrect == Spec => []AgentDialsThisEnvoy
  <1>1. IndInv => AgentDialsThisEnvoy
    BY DEF IndInv, DialsAddress, Address, AgentDialsThisEnvoy
  <1> QED
    BY IndInvCorrect, <1>1, PTL

\* Between instructions a recorded agent that nobody is stopping goes by all that
\* is stored, or is about to read it, but for what failed instructions, purges and
\* operations during its start by an unlocked restart have changed.
THEOREM AgentUpToDateCorrect == Spec => []AgentUpToDate
  <1>1. IndInv => AgentUpToDate
    BY DEF IndInv, BehindIsTold, TouchedInOps, Telling, AgentUpToDate
  <1> QED
    BY IndInvCorrect, <1>1, PTL

================================================================================
