------------------------ MODULE EgressConnectionProofs -------------------------
(***************************************************************************)
(* TLAPS proofs about EgressConnection, for every set of connections and   *)
(* all capacities that satisfy CapAssumption.                              *)
(***************************************************************************)
EXTENDS EgressConnection, TLAPS

\* Every step keeps the variables in their types; in particular the detachChan
\* never holds more than its capacity (connection.go:278).
LEMMA TypeStep == IndInv /\ [Next]_vars => TypeOK'
  <1> SUFFICES ASSUME IndInv, [Next]_vars PROVE TypeOK'
    OBVIOUS
  <1> USE ConnAssumption, CapAssumption DEF IndInv, TypeOK,
          mainVars, connVars, routerVars
  <1>1. CASE MainStep
    <2>1. CASE Loop
      BY <2>1 DEF Loop
    <2>2. CASE DialFails
      BY <2>2 DEF DialFails, Fail
    <2>3. CASE Dial
      BY <2>3 DEF Dial
    <2>4. CASE DialNil
      BY <2>4 DEF DialNil
    <2>5. CASE AttachFails
      BY <2>5 DEF AttachFails, Fail
    <2>6. CASE ServeDone
      BY <2>6 DEF ServeDone, Fail
    <2>7. CASE ServeError
      <3>1. conn \in Conn /\ errs[conn] - 1 \in Nat
        BY <2>7 DEF ServeError, ServedExists
      <3>2. errs' \in [Conn -> Nat]
        BY <2>7, <3>1 DEF ServeError
      <3> QED
        BY <2>7, <3>2 DEF ServeError
    <2>8. CASE SignalDetach
      BY <2>8 DEF SignalDetach
    <2>9. CASE CancelConnection
      BY <2>9 DEF CancelConnection, ServedExists
    <2>10. CASE Retry
      BY <2>10 DEF Retry
    <2>11. CASE GiveUp
      BY <2>11 DEF GiveUp
    <2>12. ASSUME NEW n \in Conn, Attach(n) PROVE TypeOK'
      BY <2>12 DEF Attach
    <2> QED
      BY <1>1, <2>1, <2>2, <2>3, <2>4, <2>5, <2>6, <2>7, <2>8, <2>9, <2>10, <2>11, <2>12
         DEF MainStep
  <1>2. ASSUME NEW n \in Conn, WatcherStep(n) PROVE TypeOK'
    <2>1. CASE CheckDone(n)
      BY <2>1 DEF CheckDone
    <2>2. CASE RecvFails(n)
      BY <2>2 DEF RecvFails
    <2>3. CASE RecvReady(n)
      BY <2>3 DEF RecvReady
    <2>4. CASE RecvConfigure(n)
      BY <2>4 DEF RecvConfigure
    <2>5. CASE Configured(n)
      BY <2>5 DEF Configured
    <2> QED
      BY <1>2, <2>1, <2>2, <2>3, <2>4, <2>5 DEF WatcherStep
  <1>3. ASSUME NEW n \in Conn, KeeperStep(n) PROVE TypeOK'
    <2>1. CASE KeepAliveFails(n)
      BY <2>1 DEF KeepAliveFails
    <2>2. CASE KeepAliveDone(n)
      BY <2>2 DEF KeepAliveDone
    <2> QED
      BY <1>3, <2>1, <2>2 DEF KeeperStep
  <1>4. CASE RouterStep
    <2>1. CASE RouterTakesDetach
      BY <2>1 DEF RouterTakesDetach
    <2>2. CASE RouterPurges
      BY <2>2 DEF RouterPurges
    <2>3. CASE RouterStops
      BY <2>3 DEF RouterStops
    <2> QED
      BY <1>4, <2>1, <2>2, <2>3 DEF RouterStep
  <1>5. CASE Shutdown
    BY <1>5 DEF Shutdown
  <1>6. CASE Ended \/ UNCHANGED vars
    BY <1>6 DEF Ended, vars
  <1> QED
    BY <1>1, <1>2, <1>3, <1>4, <1>5, <1>6 DEF Next

\* A goroutine of a connection reports at most one error and then ends
\* (connection.go:387, connection.go:347).
LEMMA ErrorBudgetStep == IndInv /\ [Next]_vars => ErrorBudget'
  <1> SUFFICES ASSUME IndInv, [Next]_vars PROVE ErrorBudget'
    OBVIOUS
  <1> USE ConnAssumption, CapAssumption DEF IndInv, TypeOK, ErrorBudget, Watching,
          mainVars, connVars, routerVars
  <1>1. CASE MainStep
    <2>1. CASE Loop
      BY <2>1 DEF Loop
    <2>2. CASE DialFails
      BY <2>2 DEF DialFails, Fail
    <2>3. CASE Dial
      BY <2>3 DEF Dial
    <2>4. CASE DialNil
      BY <2>4 DEF DialNil
    <2>5. CASE AttachFails
      BY <2>5 DEF AttachFails, Fail
    <2>6. CASE ServeDone
      BY <2>6 DEF ServeDone, Fail
    <2>7. CASE ServeError
      BY <2>7 DEF ServeError
    <2>8. CASE SignalDetach
      BY <2>8 DEF SignalDetach
    <2>9. CASE CancelConnection
      BY <2>9 DEF CancelConnection
    <2>10. CASE Retry
      BY <2>10 DEF Retry
    <2>11. CASE GiveUp
      BY <2>11 DEF GiveUp
    <2>12. ASSUME NEW n \in Conn, Attach(n) PROVE ErrorBudget'
      BY <2>12 DEF Attach, Active
    <2> QED
      BY <1>1, <2>1, <2>2, <2>3, <2>4, <2>5, <2>6, <2>7, <2>8, <2>9, <2>10, <2>11, <2>12
         DEF MainStep
  <1>2. ASSUME NEW n \in Conn, WatcherStep(n) PROVE ErrorBudget'
    <2>1. CASE CheckDone(n)
      BY <2>1 DEF CheckDone
    <2>2. CASE RecvFails(n)
      BY <2>2 DEF RecvFails
    <2>3. CASE RecvReady(n)
      BY <2>3 DEF RecvReady
    <2>4. CASE RecvConfigure(n)
      BY <2>4 DEF RecvConfigure
    <2>5. CASE Configured(n)
      BY <2>5 DEF Configured
    <2> QED
      BY <1>2, <2>1, <2>2, <2>3, <2>4, <2>5 DEF WatcherStep
  <1>3. ASSUME NEW n \in Conn, KeeperStep(n) PROVE ErrorBudget'
    <2>1. CASE KeepAliveFails(n)
      BY <2>1 DEF KeepAliveFails
    <2>2. CASE KeepAliveDone(n)
      BY <2>2 DEF KeepAliveDone
    <2> QED
      BY <1>3, <2>1, <2>2 DEF KeeperStep
  <1>4. CASE RouterStep
    BY <1>4 DEF RouterStep, RouterTakesDetach, RouterPurges, RouterStops
  <1>5. CASE Shutdown \/ Ended \/ UNCHANGED vars
    BY <1>5 DEF Shutdown, Ended, vars
  <1> QED
    BY <1>1, <1>2, <1>3, <1>4, <1>5 DEF Next

\* The loop of attach() is entered only with an attached stream
\* (connection.go:260).
LEMMA ServedExistsStep == IndInv /\ [Next]_vars => ServedExists'
  <1> SUFFICES ASSUME IndInv, [Next]_vars PROVE ServedExists'
    OBVIOUS
  <1> USE ConnAssumption, CapAssumption DEF IndInv, TypeOK, ServedExists,
          mainVars, connVars, routerVars
  <1>1. CASE MainStep
    <2>1. CASE Loop
      BY <2>1 DEF Loop
    <2>2. CASE DialFails
      BY <2>2 DEF DialFails, Fail
    <2>3. CASE Dial
      BY <2>3 DEF Dial
    <2>4. CASE DialNil
      BY <2>4 DEF DialNil
    <2>5. CASE AttachFails
      BY <2>5 DEF AttachFails, Fail
    <2>6. CASE ServeDone
      BY <2>6 DEF ServeDone, Fail
    <2>7. CASE ServeError
      BY <2>7 DEF ServeError
    <2>8. CASE SignalDetach
      BY <2>8 DEF SignalDetach
    <2>9. CASE CancelConnection
      BY <2>9 DEF CancelConnection
    <2>10. CASE Retry
      BY <2>10 DEF Retry
    <2>11. CASE GiveUp
      BY <2>11 DEF GiveUp
    <2>12. ASSUME NEW n \in Conn, Attach(n) PROVE ServedExists'
      BY <2>12 DEF Attach
    <2> QED
      BY <1>1, <2>1, <2>2, <2>3, <2>4, <2>5, <2>6, <2>7, <2>8, <2>9, <2>10, <2>11, <2>12
         DEF MainStep
  <1>2. ASSUME NEW n \in Conn, WatcherStep(n) PROVE ServedExists'
    <2>1. CASE CheckDone(n)
      BY <2>1 DEF CheckDone
    <2>2. CASE RecvFails(n)
      BY <2>2 DEF RecvFails
    <2>3. CASE RecvReady(n)
      BY <2>3 DEF RecvReady
    <2>4. CASE RecvConfigure(n)
      BY <2>4 DEF RecvConfigure
    <2>5. CASE Configured(n)
      BY <2>5 DEF Configured
    <2> QED
      BY <1>2, <2>1, <2>2, <2>3, <2>4, <2>5 DEF WatcherStep
  <1>3. ASSUME NEW n \in Conn, KeeperStep(n) PROVE ServedExists'
    <2>1. CASE KeepAliveFails(n)
      BY <2>1 DEF KeepAliveFails
    <2>2. CASE KeepAliveDone(n)
      BY <2>2 DEF KeepAliveDone
    <2> QED
      BY <1>3, <2>1, <2>2 DEF KeeperStep
  <1>4. CASE RouterStep
    BY <1>4 DEF RouterStep, RouterTakesDetach, RouterPurges, RouterStops
  <1>5. CASE Shutdown \/ Ended \/ UNCHANGED vars
    BY <1>5 DEF Shutdown, Ended, vars
  <1> QED
    BY <1>1, <1>2, <1>3, <1>4, <1>5 DEF Next

\* An error is reported before the first Ready only by the watcher itself, which
\* then has ended (connection.go:385).
LEMMA SilentUntilReadyStep == IndInv /\ [Next]_vars => SilentUntilReady'
  <1> SUFFICES ASSUME IndInv, [Next]_vars PROVE SilentUntilReady'
    OBVIOUS
  <1> USE ConnAssumption, CapAssumption DEF IndInv, TypeOK, SilentUntilReady, ServedExists, Watching,
          mainVars, connVars, routerVars
  <1>1. CASE MainStep
    <2>1. CASE Loop
      BY <2>1 DEF Loop
    <2>2. CASE DialFails
      BY <2>2 DEF DialFails, Fail
    <2>3. CASE Dial
      BY <2>3 DEF Dial
    <2>4. CASE DialNil
      BY <2>4 DEF DialNil
    <2>5. CASE AttachFails
      BY <2>5 DEF AttachFails, Fail
    <2>6. CASE ServeDone
      BY <2>6 DEF ServeDone, Fail
    <2>7. CASE ServeError
      BY <2>7 DEF ServeError, ErrorBudget
    <2>8. CASE SignalDetach
      BY <2>8 DEF SignalDetach
    <2>9. CASE CancelConnection
      BY <2>9 DEF CancelConnection
    <2>10. CASE Retry
      BY <2>10 DEF Retry
    <2>11. CASE GiveUp
      BY <2>11 DEF GiveUp
    <2>12. ASSUME NEW n \in Conn, Attach(n) PROVE SilentUntilReady'
      BY <2>12 DEF Attach
    <2> QED
      BY <1>1, <2>1, <2>2, <2>3, <2>4, <2>5, <2>6, <2>7, <2>8, <2>9, <2>10, <2>11, <2>12
         DEF MainStep
  <1>2. ASSUME NEW n \in Conn, WatcherStep(n) PROVE SilentUntilReady'
    <2>1. CASE CheckDone(n)
      BY <2>1 DEF CheckDone
    <2>2. CASE RecvFails(n)
      BY <2>2 DEF RecvFails
    <2>3. CASE RecvReady(n)
      BY <2>3 DEF RecvReady
    <2>4. CASE RecvConfigure(n)
      BY <2>4 DEF RecvConfigure
    <2>5. CASE Configured(n)
      BY <2>5 DEF Configured
    <2> QED
      BY <1>2, <2>1, <2>2, <2>3, <2>4, <2>5 DEF WatcherStep
  <1>3. ASSUME NEW n \in Conn, KeeperStep(n) PROVE SilentUntilReady'
    <2>1. CASE KeepAliveFails(n)
      BY <2>1 DEF KeepAliveFails
    <2>2. CASE KeepAliveDone(n)
      BY <2>2 DEF KeepAliveDone
    <2> QED
      BY <1>3, <2>1, <2>2 DEF KeeperStep
  <1>4. CASE RouterStep
    BY <1>4 DEF RouterStep, RouterTakesDetach, RouterPurges, RouterStops
  <1>5. CASE Shutdown \/ Ended \/ UNCHANGED vars
    BY <1>5 DEF Shutdown, Ended, vars
  <1> QED
    BY <1>1, <1>2, <1>3, <1>4, <1>5 DEF Next

\* attach() returns only after the connection's context is done, so that the next
\* connection is the only one whose goroutines go on (connection.go:262).
LEMMA OneLiveConnectionStep == IndInv /\ [Next]_vars => OneLiveConnection'
  <1> SUFFICES ASSUME IndInv, [Next]_vars PROVE OneLiveConnection'
    OBVIOUS
  <1> USE ConnAssumption, CapAssumption DEF IndInv, TypeOK, ServedExists, OneLiveConnection, Active, Watching, CtxDone,
          mainVars, connVars, routerVars
  <1>1. CASE MainStep
    <2>1. CASE Loop
      BY <2>1 DEF Loop
    <2>2. CASE DialFails
      BY <2>2 DEF DialFails, Fail
    <2>3. CASE Dial
      BY <2>3 DEF Dial
    <2>4. CASE DialNil
      BY <2>4 DEF DialNil
    <2>5. CASE AttachFails
      BY <2>5 DEF AttachFails, Fail
    <2>6. CASE ServeDone
      BY <2>6 DEF ServeDone, Fail
    <2>7. CASE ServeError
      BY <2>7 DEF ServeError
    <2>8. CASE SignalDetach
      BY <2>8 DEF SignalDetach
    <2>9. CASE CancelConnection
      BY <2>9 DEF CancelConnection
    <2>10. CASE Retry
      BY <2>10 DEF Retry
    <2>11. CASE GiveUp
      BY <2>11 DEF GiveUp
    <2>12. ASSUME NEW n \in Conn, Attach(n) PROVE OneLiveConnection'
      BY <2>12 DEF Attach
    <2> QED
      BY <1>1, <2>1, <2>2, <2>3, <2>4, <2>5, <2>6, <2>7, <2>8, <2>9, <2>10, <2>11, <2>12
         DEF MainStep
  <1>2. ASSUME NEW n \in Conn, WatcherStep(n) PROVE OneLiveConnection'
    <2>1. CASE CheckDone(n)
      BY <2>1 DEF CheckDone
    <2>2. CASE RecvFails(n)
      BY <2>2 DEF RecvFails
    <2>3. CASE RecvReady(n)
      BY <2>3 DEF RecvReady
    <2>4. CASE RecvConfigure(n)
      BY <2>4 DEF RecvConfigure
    <2>5. CASE Configured(n)
      BY <2>5 DEF Configured
    <2> QED
      BY <1>2, <2>1, <2>2, <2>3, <2>4, <2>5 DEF WatcherStep
  <1>3. ASSUME NEW n \in Conn, KeeperStep(n) PROVE OneLiveConnection'
    <2>1. CASE KeepAliveFails(n)
      BY <2>1 DEF KeepAliveFails
    <2>2. CASE KeepAliveDone(n)
      BY <2>2 DEF KeepAliveDone
    <2> QED
      BY <1>3, <2>1, <2>2 DEF KeeperStep
  <1>4. CASE RouterStep
    BY <1>4 DEF RouterStep, RouterTakesDetach, RouterPurges, RouterStops
  <1>5. CASE Shutdown \/ Ended \/ UNCHANGED vars
    BY <1>5 DEF Shutdown, Ended, vars
  <1> QED
    BY <1>1, <1>2, <1>3, <1>4, <1>5 DEF Next

--------------------------------------------------------------------------------
\* The Envoy starts in a state of the inductive invariant.
LEMMA InitIndInv == Init => IndInv
  <1> SUFFICES ASSUME Init PROVE IndInv
    OBVIOUS
  <1> USE ConnAssumption, CapAssumption DEF Init
  <1>1. TypeOK
    <2>1. /\ errs \in [Conn -> Nat]
          /\ watcher \in [Conn -> {"none", "check", "recv", "configure", "done"}]
          /\ keepers \in [Conn -> Nat]
          /\ ready \in [Conn -> Nat]
      OBVIOUS
    <2>2. /\ detach \in 0..DetachCap
          /\ cancelled \subseteq Conn /\ configs \subseteq Conn
          /\ conn \in Conn \cup {NoConn}
      OBVIOUS
    <2> QED
      BY <2>1, <2>2 DEF TypeOK
  <1>2. ErrorBudget
    <2> SUFFICES ASSUME NEW n \in Conn
                 PROVE  /\ ready[n] <= MaxReady
                        /\ errs[n] + keepers[n] + (IF Watching(n) THEN 1 ELSE 0)
                               <= 1 + ready[n]
      BY DEF ErrorBudget
    <2>1. ready[n] = 0 /\ errs[n] = 0 /\ keepers[n] = 0 /\ ~Watching(n)
      BY DEF Watching
    <2> QED
      BY <2>1
  <1>3. ServedExists /\ SilentUntilReady
    BY DEF ServedExists, SilentUntilReady, Watching
  <1>4. OneLiveConnection
    BY DEF OneLiveConnection, Active, Watching
  <1> QED
    BY <1>1, <1>2, <1>3, <1>4 DEF IndInv

\* The inductive invariant holds in every reachable state of the connection.
THEOREM IndInvCorrect == Spec => []IndInv
  <1>1. IndInv /\ [Next]_vars => IndInv'
    BY TypeStep, ErrorBudgetStep, ServedExistsStep, SilentUntilReadyStep,
       OneLiveConnectionStep DEF IndInv
  <1> QED
    BY <1>1, InitIndInv, PTL DEF Spec

\* The variables of the connection always have their types.
THEOREM TypeCorrect == Spec => []TypeOK
  <1>1. IndInv => TypeOK
    BY DEF IndInv
  <1> QED
    BY <1>1, IndInvCorrect, PTL

\* No goroutine of a connection ever blocks on errChan, as long as the Ambassador
\* sends fewer Ready instructions on a stream than errChan has places
\* (connection.go:258).
THEOREM SendersNeverBlockCorrect == Spec => []SendersNeverBlock
  <1>1. IndInv => SendersNeverBlock
    BY CapAssumption DEF IndInv, TypeOK, ErrorBudget, SendersNeverBlock, Active
  <1> QED
    BY <1>1, IndInvCorrect, PTL

\* At any time the goroutines of at most one connection have not been told to
\* end, and attach() is serving that connection (connection.go:236).
THEOREM OneLiveConnectionCorrect == Spec => []OneLiveConnection
  <1>1. IndInv => OneLiveConnection
    BY DEF IndInv
  <1> QED
    BY <1>1, IndInvCorrect, PTL

\* A step keeps the flag attached down unless the connection is being served and
\* its Ambassador has just become ready (connection.go:393), provided that an
\* Ambassador says Ready at most once on a stream.
LEMMA AttachedIsServedStep ==
    ASSUME MaxReady <= 1, IndInv, [Next]_vars, AttachedIsServed
    PROVE  AttachedIsServed'
  <1> USE ConnAssumption, CapAssumption
      DEF IndInv, TypeOK, AttachedIsServed, mainVars, connVars, routerVars
  <1>1. CASE MainStep
    <2>1. CASE Loop \/ DialFails \/ Dial \/ DialNil \/ AttachFails
      BY <2>1 DEF Loop, DialFails, Dial, DialNil, AttachFails, Fail
    <2>2. CASE ServeDone \/ ServeError
      BY <2>2 DEF ServeDone, ServeError, Fail
    <2>3. CASE SignalDetach \/ CancelConnection \/ Retry \/ GiveUp
      BY <2>3 DEF SignalDetach, CancelConnection, Retry, GiveUp
    <2>4. ASSUME NEW n \in Conn, Attach(n) PROVE AttachedIsServed'
      BY <2>4 DEF Attach
    <2> QED
      BY <1>1, <2>1, <2>2, <2>3, <2>4 DEF MainStep
  <1>2. ASSUME NEW n \in Conn, WatcherStep(n) PROVE AttachedIsServed'
    <2>1. CASE CheckDone(n) \/ RecvFails(n) \/ RecvConfigure(n) \/ Configured(n)
      <3>1. UNCHANGED <<attached, appDone, main, conn, ready, cancelled>>
        BY <2>1 DEF CheckDone, RecvFails, RecvConfigure, Configured
      <3> QED
        BY <3>1
    <2>2. CASE RecvReady(n)
      <3> SUFFICES ASSUME ~appDone PROVE AttachedIsServed'
        BY <2>2 DEF RecvReady
      <3>1. ready[n] = 0 /\ Watching(n)
        BY <2>2 DEF RecvReady, Watching
      <3>2. n \notin cancelled /\ ~(n = conn /\ main \in {"signal", "cancel"})
        BY <3>1 DEF SilentUntilReady
      <3>3. n = conn /\ main = "serve"
        BY <3>1, <3>2 DEF OneLiveConnection, Active, CtxDone
      <3> QED
        BY <2>2, <3>1, <3>2, <3>3 DEF RecvReady
    <2> QED
      BY <1>2, <2>1, <2>2 DEF WatcherStep
  <1>3. ASSUME NEW n \in Conn, KeeperStep(n) PROVE AttachedIsServed'
    <2>1. UNCHANGED <<attached, appDone, main, conn, ready, cancelled>>
      BY <1>3 DEF KeeperStep, KeepAliveFails, KeepAliveDone
    <2> QED
      BY <2>1
  <1>4. CASE RouterStep
    <2>1. UNCHANGED <<attached, appDone, main, conn, ready, cancelled>>
      BY <1>4 DEF RouterStep, RouterTakesDetach, RouterPurges, RouterStops
    <2> QED
      BY <2>1
  <1>5. CASE Shutdown \/ Ended \/ UNCHANGED vars
    BY <1>5 DEF Shutdown, Ended, vars
  <1> QED
    BY <1>1, <1>2, <1>3, <1>4, <1>5 DEF Next

\* PostMetric and PostLogEvent are let through only while a connection is served
\* whose Ambassador is ready, when an Ambassador says Ready at most once on a
\* stream (connection.go:286, connection.go:307).
THEOREM AttachedIsServedCorrect == ASSUME MaxReady <= 1 PROVE Spec => []AttachedIsServed
  <1>1. Init => AttachedIsServed
    BY DEF Init, AttachedIsServed
  <1>2. IndInv /\ AttachedIsServed /\ [Next]_vars => AttachedIsServed'
    BY AttachedIsServedStep
  <1> QED
    BY <1>1, <1>2, IndInvCorrect, PTL DEF Spec

================================================================================
