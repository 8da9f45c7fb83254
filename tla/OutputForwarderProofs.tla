------------------------- MODULE OutputForwarderProofs -------------------------
(***************************************************************************)
(* TLAPS proofs about OutputForwarder, for pipes of every capacity.        *)
(***************************************************************************)
EXTENDS OutputForwarder, TLAPS

\* Reading a line from a pipe leaves one that is no longer than before.
LEMMA TailFits ==
    ASSUME NEW S, NEW q \in Seq(S), q # <<>>, Len(q) <= PipeCap
    PROVE  Tail(q) \in Seq(S) /\ Len(Tail(q)) <= PipeCap
  BY PipeCapAssumption

\* A send on waitForChan finds it empty and leaves the result in it.
LEMMA PutFacts ==
    ASSUME NEW r \in BOOLEAN, TypeOK, Put(r)
    PROVE  chan = <<>> /\ chan' = <<r>>
  <1>1. chan = <<>>
    <2>1. Len(<<TRUE>>) = 1 /\ Len(<<FALSE>>) = 1
      OBVIOUS
    <2> QED
      BY <2>1 DEF TypeOK, Put
  <1> QED
    BY <1>1 DEF Put

\* What StartAgentCommand takes is the only result in waitForChan.
LEMMA TakeFacts ==
    ASSUME TypeOK, chan # <<>>
    PROVE  /\ Tail(chan) = <<>>
           /\ Head(chan) => chan = <<TRUE>>
  <1>1. ASSUME NEW b PROVE Head(<<b>>) = b /\ Tail(<<b>>) = <<>>
    OBVIOUS
  <1>2. CASE chan = <<TRUE>>
    BY <1>1, <1>2, Zenon
  <1>3. CASE chan = <<FALSE>>
    BY <1>1, <1>3, Zenon
  <1> QED
    BY <1>2, <1>3 DEF TypeOK

\* The state after setupCommandLogging satisfies the invariant.
LEMMA InitInd == Init => IndInv
  <1> SUFFICES ASSUME Init PROVE IndInv
    OBVIOUS
  <1>1. TypeOK
    <2>1. <<>> \in Seq(BOOLEAN) /\ Len(<<>>) <= PipeCap
      BY PipeCapAssumption
    <2>2. chan \in {<<>>, <<TRUE>>, <<FALSE>>} /\ checking \in [Stream -> BOOLEAN]
      BY Zenon DEF Init
    <2>3. pipe \in [Stream -> Seq(BOOLEAN)] /\ \A s \in Stream : Len(pipe[s]) <= PipeCap
      BY <2>1, Zenon DEF Init
    <2> QED
      BY <2>2, <2>3, Zenon DEF Init, TypeOK
  <1>2. SuccessWasSeen
    <2>1. <<>> # <<TRUE>>
      OBVIOUS
    <2> QED
      BY <2>1 DEF Init, SuccessWasSeen
  <1>3. ResultsCounted
    BY DEF Init, ResultsCounted, Stream
  <1> QED
    BY <1>1, <1>2, <1>3 DEF Init, IndInv, FoundWhileChecking, FailedIsClosed,
                            StartedAsExpected

\* The select of StartAgentCommand keeps the invariant.
LEMMA StartingInd == IndInv /\ Starting => IndInv'
  <1> SUFFICES ASSUME IndInv, Starting PROVE IndInv'
    OBVIOUS
  <1> USE DEF IndInv, TypeOK, SuccessWasSeen, FoundWhileChecking, FailedIsClosed,
              ResultsCounted, StartedAsExpected, agent
  <1>1. CASE StartTimeout
    BY <1>1 DEF StartTimeout
  <1>2. CASE StartResult
    <2> USE <1>2 DEF StartResult
    <2>1. chan' = <<>> /\ chan # <<>>
      BY TakeFacts
    <2>2. start' = "ok" => chan = <<TRUE>>
      BY TakeFacts
    <2>3. <<>> # <<TRUE>>
      OBVIOUS
    <2>4. TypeOK'
      BY <2>1
    <2>5. StartedAsExpected'
      BY <2>2
    <2>6. ResultsCounted'
      BY <2>1
    <2>7. SuccessWasSeen'
      BY <2>1, <2>3
    <2> QED
      BY <2>4, <2>5, <2>6, <2>7
  <1> QED
    BY <1>1, <1>2 DEF Starting

\* The forwarders keep the invariant.
LEMMA ForwardInd == ASSUME NEW s \in Stream, IndInv, Forward(s) PROVE IndInv'
  <1> USE DEF IndInv, SuccessWasSeen, FoundWhileChecking, FailedIsClosed,
              ResultsCounted, StartedAsExpected, agent
  <1>1. CASE Loop(s)
    BY <1>1 DEF Loop, TypeOK
  <1>2. CASE ReadLine(s)
    <2> USE <1>2 DEF ReadLine
    <2>1. /\ Tail(pipe[s]) \in Seq(BOOLEAN)
          /\ Len(Tail(pipe[s])) <= PipeCap
      <3>1. pipe[s] \in Seq(BOOLEAN) /\ pipe[s] # <<>> /\ Len(pipe[s]) <= PipeCap
        BY DEF TypeOK
      <3> QED
        BY <3>1, TailFits, Zenon
    <2>2. TypeOK'
      BY <2>1 DEF TypeOK
    <2>3. SuccessWasSeen'
      BY DEF TypeOK
    <2> QED
      BY <2>2, <2>3 DEF TypeOK
  <1>3. CASE ReadError(s)
    <2>1. closed # {}
      BY <1>3 DEF ReadError, TypeOK, Stream
    <2> QED
      BY <1>3, <2>1 DEF ReadError, TypeOK
  <1>4. CASE PutFound(s)
    <2> USE <1>4 DEF PutFound
    <2>1. chan = <<>> /\ chan' = <<TRUE>>
      BY PutFacts
    <2>2. TypeOK'
      BY <2>1 DEF TypeOK
    <2>3. SuccessWasSeen' /\ FoundWhileChecking'
      BY <2>1 DEF TypeOK
    <2>4. ResultsCounted'
      BY <2>1 DEF TypeOK, Stream
    <2> QED
      BY <2>2, <2>3, <2>4 DEF TypeOK
  <1>5. CASE PutFailed(s)
    <2> USE <1>5 DEF PutFailed
    <2>1. chan = <<>> /\ chan' = <<FALSE>>
      BY PutFacts
    <2>2. <<FALSE>> # <<TRUE>>
      OBVIOUS
    <2>3. closed # {}
      OBVIOUS
    <2>4. TypeOK'
      BY <2>1 DEF TypeOK
    <2> QED
      BY <2>1, <2>2, <2>3, <2>4 DEF TypeOK
  <1> QED
    BY <1>1, <1>2, <1>3, <1>4, <1>5 DEF Forward

\* The agent process, and the end of its context, keep the invariant.
LEMMA AgentInd ==
    ASSUME IndInv,
           \/ Exit \/ Reap \/ Cancel \/ UNCHANGED vars
           \/ \E s \in Stream : CloseStream(s) \/ \E phrase \in BOOLEAN : Write(s, phrase)
    PROVE  IndInv'
  <1> USE DEF IndInv, SuccessWasSeen, FoundWhileChecking, FailedIsClosed,
              ResultsCounted, StartedAsExpected, agent
  <1>1. CASE Exit
    BY <1>1 DEF Exit, TypeOK, Stream
  <1>2. CASE Reap
    BY <1>2 DEF Reap, TypeOK, Stream
  <1>3. CASE Cancel
    BY <1>3 DEF Cancel, TypeOK
  <1>4. CASE UNCHANGED vars
    BY <1>4 DEF vars, TypeOK
  <1>5. ASSUME NEW s \in Stream, CloseStream(s) PROVE IndInv'
    BY <1>5 DEF CloseStream, TypeOK
  <1>6. ASSUME NEW s \in Stream, NEW phrase \in BOOLEAN, Write(s, phrase) PROVE IndInv'
    <2> USE <1>6 DEF Write
    <2>1. /\ Append(pipe[s], phrase) \in Seq(BOOLEAN)
          /\ Len(Append(pipe[s], phrase)) <= PipeCap
      BY PipeCapAssumption DEF TypeOK
    <2>2. TypeOK'
      BY <2>1 DEF TypeOK
    <2> QED
      BY <2>2 DEF TypeOK
  <1> QED
    BY <1>1, <1>2, <1>3, <1>4, <1>5, <1>6

\* Every step keeps the invariant.
LEMMA NextInd == IndInv /\ [Next]_vars => IndInv'
  BY StartingInd, ForwardInd, AgentInd DEF Next, Ended

\* The invariant about the two forwarders, the channel they share and its only
\* reader holds in every state (command_handler.go:98-213).
THEOREM IndInvCorrect == Spec => []IndInv
  BY InitInd, NextInd, PTL DEF Spec

\* The variables keep their types; waitForChan never holds more than one result
\* (command_handler.go:170).
THEOREM TypeCorrect == Spec => []TypeOK
  <1>1. IndInv => TypeOK
    BY DEF IndInv
  <1> QED
    BY <1>1, IndInvCorrect, PTL

\* A start succeeds only when the agent wrote the expected phrase
\* (command_handler.go:98-107).
THEOREM StartedAsExpectedCorrect == Spec => []StartedAsExpected
  <1>1. IndInv => StartedAsExpected
    BY DEF IndInv
  <1> QED
    BY <1>1, IndInvCorrect, PTL

\* While an agent is in service neither of its forwarders waits for room in
\* waitForChan (command_handler.go:201-208).
THEOREM ForwardersNotBlockedCorrect == Spec => []ForwardersNotBlocked
  <1>1. IndInv => ForwardersNotBlocked
    BY DEF IndInv, ForwardersNotBlocked, InService, FoundWhileChecking, FailedIsClosed,
           ResultsCounted
  <1> QED
    BY <1>1, IndInvCorrect, PTL

================================================================================
