--------------------------- MODULE TestMonitorProofs ----------------------------
(***************************************************************************)
(* TLAPS proofs about TestMonitor, for every number of retries and every   *)
(* capacity of the error channel.                                          *)
(***************************************************************************)
EXTENDS TestMonitor, TLAPS

\* The Envoy's state before it looks at the instruction satisfies the invariant.
LEMMA InitInd == Init => IndInv
  <1> SUFFICES ASSUME Init PROVE IndInv
    OBVIOUS
  <1> USE DEF Init
  <1>1. TypeOK
    <2>1. 1 \in Attempt
      BY RetriesAssumption DEF Attempt
    <2>2. 0 \in Nat
      OBVIOUS
    <2> QED
      BY <2>1, <2>2, Zenon DEF TypeOK, Final
  <1>2. ResultsSoFar
    BY DEF ResultsSoFar
  <1>3. ErrorsTaken
    BY DEF ErrorsTaken
  <1>4. ServerStarted
    BY DEF ServerStarted
  <1>5. AnswerExplained /\ ServerErrorsCaptured
    BY DEF AnswerExplained, ServerErrorsCaptured
  <1> QED
    BY <1>1, <1>2, <1>3, <1>4, <1>5 DEF IndInv

\* The steps of the goroutine of processTestMonitor keep the invariant.
LEMMA MainInd == IndInv /\ Main => IndInv'
  <1> SUFFICES ASSUME IndInv, Main PROVE IndInv'
    OBVIOUS
  <1> USE RetriesAssumption
      DEF IndInv, TypeOK, ResultsSoFar, ErrorsTaken, ServerStarted, AnswerExplained,
          ServerErrorsCaptured, Attempt, Early, Final, instrVars, runVars, chanVars,
          serverVars, resultVars
  <1>1. CASE Dispatch
    <2> USE <1>1 DEF Dispatch, GiveUp
    <2>1. TypeOK'
      OBVIOUS
    <2>2. ResultsSoFar'
      OBVIOUS
    <2>3. ErrorsTaken'
      OBVIOUS
    <2>4. ServerStarted'
      OBVIOUS
    <2>5. AnswerExplained'
      OBVIOUS
    <2>6. ServerErrorsCaptured'
      OBVIOUS
    <2> QED
      BY <2>1, <2>2, <2>3, <2>4, <2>5, <2>6
  <1>2. CASE Listen
    <2> USE <1>2 DEF Listen, GiveUp
    <2>1. TypeOK'
      OBVIOUS
    <2>2. ResultsSoFar'
      OBVIOUS
    <2>3. ErrorsTaken'
      OBVIOUS
    <2>4. ServerStarted'
      OBVIOUS
    <2>5. AnswerExplained'
      OBVIOUS
    <2>6. ServerErrorsCaptured'
      OBVIOUS
    <2> QED
      BY <2>1, <2>2, <2>3, <2>4, <2>5, <2>6
  <1>3. CASE Prepared
    BY <1>3 DEF Prepared
  <1>4. CASE RunTelegraf
    BY <1>4 DEF RunTelegraf
  <1>5. CASE RunPackages
    BY <1>5 DEF RunPackages
  <1>6. CASE RunAgain
    BY <1>6 DEF RunAgain
  <1>7. CASE Report
    <2> USE <1>7 DEF Report
    <2>1. TypeOK'
      OBVIOUS
    <2>2. ResultsSoFar'
      <3>1. CASE outcome = "metrics"
        BY <3>1
      <3>2. CASE outcome \in {"empty", "garbage"}
        BY <3>2
      <3>3. CASE outcome \in {"failed", "killed"}
        BY <3>3
      <3> QED
        BY <3>1, <3>2, <3>3
    <2>3. ErrorsTaken'
      OBVIOUS
    <2>4. ServerStarted'
      OBVIOUS
    <2>5. AnswerExplained'
      OBVIOUS
    <2>6. ServerErrorsCaptured'
      OBVIOUS
    <2> QED
      BY <2>1, <2>2, <2>3, <2>4, <2>5, <2>6
  <1>8. CASE ReportPackages
    <2> USE <1>8 DEF ReportPackages, GiveUp
    <2>1. TypeOK'
      OBVIOUS
    <2>2. ResultsSoFar'
      <3>1. CASE outcome = "metrics"
        BY <3>1
      <3>2. CASE outcome \in {"empty", "garbage"}
        BY <3>2
      <3>3. CASE outcome \in {"failed", "killed", "expired"}
        BY <3>3
      <3> QED
        BY <3>1, <3>2, <3>3
    <2>3. ErrorsTaken'
      OBVIOUS
    <2>4. ServerStarted'
      OBVIOUS
    <2>5. AnswerExplained'
      OBVIOUS
    <2>6. ServerErrorsCaptured'
      OBVIOUS
    <2> QED
      BY <2>1, <2>2, <2>3, <2>4, <2>5, <2>6
  <1>9. CASE CloseServer
    BY <1>9 DEF CloseServer
  <1>10. CASE CloseErrors
    BY <1>10 DEF CloseErrors
  <1>11. CASE Collect
    <2> USE <1>11 DEF Collect
    <2>1. TypeOK'
      <3>1. taken' \in Nat
        OBVIOUS
      <3>2. errors' \subseteq {"unsupported", "content", "listen", "command", "parse",
                               "server"}
        OBVIOUS
      <3> QED
        BY <3>1, <3>2, Zenon
    <2>2. ResultsSoFar'
      OBVIOUS
    <2>3. ErrorsTaken'
      OBVIOUS
    <2>4. ServerStarted'
      OBVIOUS
    <2>5. AnswerExplained'
      OBVIOUS
    <2>6. ServerErrorsCaptured'
      OBVIOUS
    <2> QED
      BY <2>1, <2>2, <2>3, <2>4, <2>5, <2>6
  <1>12. CASE PostResults
    BY <1>12 DEF PostResults
  <1> QED
    BY <1>1, <1>2, <1>3, <1>4, <1>5, <1>6, <1>7, <1>8, <1>9, <1>10, <1>11, <1>12
       DEF Main

\* The goroutines of the config server keep the invariant: they put errors into
\* the channel only before it is closed.
LEMMA ServerInd ==
    ASSUME IndInv, Request \/ (\E a \in Attempt : HandlerStep(a)) \/ ServeFails \/ ServeStep
    PROVE  IndInv'
  <1> USE DEF IndInv, TypeOK, ResultsSoFar, ErrorsTaken, ServerStarted, AnswerExplained,
          ServerErrorsCaptured, Early, Final, instrVars, runVars, chanVars,
          serverVars, resultVars
  <1>1. CASE Request
    BY <1>1 DEF Request
  <1>2. ASSUME NEW a \in Attempt, HandlerStep(a) PROVE IndInv'
    <2>1. CASE Write(a)
      BY <2>1 DEF Write
    <2>2. CASE WriteFails(a)
      BY <2>2 DEF WriteFails
    <2>3. CASE WriteErrorSent(a)
      BY <2>3 DEF WriteErrorSent, SendError
    <2>4. CASE WriteErrorPanics(a)
      BY <2>4 DEF WriteErrorPanics
    <2> QED
      BY <1>2, <2>1, <2>2, <2>3, <2>4 DEF HandlerStep
  <1>3. CASE ServeFails
    BY <1>3 DEF ServeFails
  <1>4. CASE ServeErrorSent
    BY <1>4 DEF ServeErrorSent, SendError
  <1>5. CASE ServeErrorPanics
    BY <1>5 DEF ServeErrorPanics
  <1>6. CASE ServeEnds
    BY <1>6 DEF ServeEnds
  <1> QED
    BY <1>1, <1>2, <1>3, <1>4, <1>5, <1>6 DEF ServeStep

\* The invariant does not depend on whether the connection is up.
LEMMA LinkInd ==
    ASSUME IndInv, link' \in {"up", "cancelled"},
           UNCHANGED <<pc, instrVars, runVars, serverVars, chanVars, resultVars>>
    PROVE  IndInv'
  <1>0. /\ pc' = pc
        /\ agent' = agent /\ unlimited' = unlimited
        /\ attempt' = attempt /\ proc' = proc /\ outcome' = outcome
        /\ server' = server /\ handler' = handler
        /\ sent' = sent /\ taken' = taken /\ closed' = closed
        /\ metrics' = metrics /\ errors' = errors
    BY DEF instrVars, runVars, serverVars, chanVars, resultVars
  <1>1. TypeOK /\ ResultsSoFar /\ ErrorsTaken /\ ServerStarted /\ AnswerExplained
        /\ ServerErrorsCaptured
    BY DEF IndInv
  <1>2. TypeOK'
    BY <1>0, <1>1 DEF TypeOK
  <1>3. ResultsSoFar'
    BY <1>0, <1>1, Zenon DEF ResultsSoFar
  <1>4. ErrorsTaken'
    BY <1>0, <1>1, Zenon DEF ErrorsTaken
  <1>5. ServerStarted'
    BY <1>0, <1>1, Zenon DEF ServerStarted
  <1>6. AnswerExplained'
    BY <1>0, <1>1, Zenon DEF AnswerExplained
  <1>7. ServerErrorsCaptured'
    BY <1>0, <1>1, Zenon DEF ServerErrorsCaptured
  <1> QED
    BY <1>2, <1>3, <1>4, <1>5, <1>6, <1>7 DEF IndInv

\* The agent's process, its timeout and the connection keep the invariant.
LEMMA OthersInd ==
    ASSUME IndInv, ProcessEnds \/ RunTimesOut \/ LinkLost \/ LinkAttached \/ Ended
                   \/ UNCHANGED vars
    PROVE  IndInv'
  <1>1. CASE ProcessEnds \/ RunTimesOut
    <2> USE DEF IndInv, TypeOK, ResultsSoFar, ErrorsTaken, ServerStarted, AnswerExplained,
            ServerErrorsCaptured, Early, Final, instrVars, runVars, chanVars,
            serverVars, resultVars
    <2>1. CASE ProcessEnds
      BY <2>1 DEF ProcessEnds, Ends
    <2>2. CASE RunTimesOut
      BY <2>2 DEF RunTimesOut, Ends
    <2> QED
      BY <1>1, <2>1, <2>2
  <1>2. CASE LinkLost \/ LinkAttached \/ Ended \/ UNCHANGED vars
    <2>1. link' \in {"up", "cancelled"}
      BY <1>2 DEF LinkLost, LinkAttached, Ended, vars, IndInv, TypeOK
    <2>2. UNCHANGED <<pc, instrVars, runVars, serverVars, chanVars, resultVars>>
      BY <1>2 DEF LinkLost, LinkAttached, Ended, vars
    <2> QED
      BY <2>1, <2>2, LinkInd
  <1> QED
    BY <1>1, <1>2

\* What is known of the results and of the error channel at each control point of
\* ProcessTestMonitor (telegraf.go:343 to 395) holds in every reachable state.
THEOREM IndInvCorrect == Spec => []IndInv
  <1>1. IndInv /\ [Next]_vars => IndInv'
    BY MainInd, ServerInd, OthersInd DEF Next
  <1> QED
    BY InitInd, <1>1, PTL DEF Spec

\* The variables keep their types; in particular the agent is run at most Retries
\* times (telegraf.go:343).
THEOREM TypeCorrect == Spec => []TypeOK
  <1>1. IndInv => TypeOK
    BY DEF IndInv
  <1> QED
    BY IndInvCorrect, <1>1, PTL

\* Results have metrics or say why they have none (telegraf.go:358 to 385).
THEOREM AnswerExplainedCorrect == Spec => []AnswerExplained
  <1>1. IndInv => AnswerExplained
    BY DEF IndInv
  <1> QED
    BY IndInvCorrect, <1>1, PTL

\* Every error that got into configServerErrors is part of the results
\* (telegraf.go:387 to 393).
THEOREM ServerErrorsCapturedCorrect == Spec => []ServerErrorsCaptured
  <1>1. IndInv => ServerErrorsCaptured
    BY DEF IndInv
  <1> QED
    BY IndInvCorrect, <1>1, PTL

================================================================================
