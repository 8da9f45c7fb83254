----------------------------- MODULE PerfTestProofs -----------------------------
(***************************************************************************)
(* TLAPS proofs about PerfTest, for every minute, every set of numbers     *)
(* that may be asked for and any number of requests at the same time.      *)
(***************************************************************************)
EXTENDS PerfTest, TLAPS

\* The period of a rate that has one is at most a minute.
LEMMA PeriodRange ==
    ASSUME NEW n \in Int
    PROVE  HasPeriod(n) => Minute \div n \in 1..Minute
  <1> USE MinuteAssumption DEF HasPeriod
  <1>1. ASSUME n > 0 PROVE Minute \div n \in 0..Minute
    BY <1>1
  <1> QED
    BY <1>1

\* Whatever a request asks for is a number that may be asked for.
LEMMA RequestFacts ==
    ASSUME NEW r \in Request
    PROVE  r.rate \subseteq Rates /\ r.size \subseteq Sizes
  BY DEF Request, Param

\* A request without parameters is one.
LEMMA NoRequestIsRequest == NoRequest \in Request
  BY DEF NoRequest, Request, Param

\* Bind leaves the ingestor in a state that satisfies the invariant.
LEMMA InitInd == Init => IndInv
  BY NoRequestIsRequest, MinuteAssumption
     DEF Init, IndInv, TypeOK, TickerFollowsRate

\* The steps of the handlers keep the invariant.
LEMMA HandlerInd ==
    ASSUME IndInv, NEW h \in Handlers,
           SetFloats(h) \/ TakeRate(h) \/ \E r \in Request : Post(h, r)
    PROVE  IndInv'
  <1> USE DEF IndInv, TypeOK, TickerFollowsRate
  <1>1. CASE SetFloats(h)
    <2>1. size' \in Sizes
      BY <1>1, RequestFacts DEF SetFloats
    <2> QED
      BY <1>1, <2>1, NoRequestIsRequest DEF SetFloats, Goto
  <1>2. CASE TakeRate(h)
    <2>1. rate' \in Rates
      BY <1>2, RequestFacts DEF TakeRate
    <2> QED
      BY <1>2, <2>1, NoRequestIsRequest DEF TakeRate, Goto
  <1>3. ASSUME NEW r \in Request, Post(h, r) PROVE IndInv'
    BY <1>3 DEF Post
  <1> QED
    BY <1>1, <1>2, <1>3

\* The steps of the loop keep the invariant.
LEMMA LoopInd ==
    ASSUME IndInv, ResetTicker \/ Tick \/ Posted \/ Done \/ ServerFails \/ UNCHANGED vars
    PROVE  IndInv'
  <1> USE DEF IndInv, TypeOK, TickerFollowsRate
  <1>1. CASE ResetTicker
    <2>1. rate \in Int
      BY MinuteAssumption, NumbersAssumption
    <2>2. CASE HasPeriod(rate)
      <3>1. Minute \div rate \in 0..Minute
        BY <2>1, <2>2, PeriodRange, MinuteAssumption
      <3> QED
        BY <1>1, <2>2, <3>1 DEF ResetTicker
    <2>3. CASE ~HasPeriod(rate)
      BY <1>1, <2>3 DEF ResetTicker
    <2> QED
      BY <2>2, <2>3
  <1>2. CASE Tick
    BY <1>2 DEF Tick
  <1>3. CASE Posted
    BY <1>3 DEF Posted
  <1>4. CASE Done
    BY <1>4 DEF Done
  <1>5. CASE UNCHANGED vars
    BY <1>5 DEF vars
  <1>6. CASE ServerFails
    BY <1>6 DEF ServerFails
  <1> QED
    BY <1>1, <1>2, <1>3, <1>4, <1>5, <1>6

\* Every step keeps the invariant.
LEMMA NextInd == IndInv /\ [Next]_vars => IndInv'
  BY HandlerInd, LoopInd DEF Next, Ended

\* The types and the period of the ticker in every state
\* (perf_test_ingestor.go:62-139).
THEOREM IndInvCorrect == Spec => []IndInv
  BY InitInd, NextInd, PTL DEF Spec

\* While the loop runs its ticker has the period of the rate taken last, which is
\* never 0 (perf_test_ingestor.go:75-77).
THEOREM TickerFollowsRateCorrect == Spec => []TickerFollowsRate
  <1>1. IndInv => TickerFollowsRate
    BY DEF IndInv
  <1> QED
    BY <1>1, IndInvCorrect, PTL

================================================================================
