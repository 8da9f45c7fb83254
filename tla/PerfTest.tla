------------------------------- MODULE PerfTest -------------------------------
(***************************************************************************)
(* The performance test ingestor: a loop that posts a metric whenever its  *)
(* ticker fires, and HTTP handlers that change the rate of the ticker over *)
(* an unbuffered channel and the size of the metrics by an assignment.     *)
(***************************************************************************)
EXTENDS Integers

CONSTANTS
    Handlers,   \* the requests that are handled at the same time
    Minute,     \* time.Minute in units of time.Duration
    Rates,      \* the numbers that may be asked for as metricsPerMinute
    Sizes,      \* the numbers that may be asked for as floatsPerMetric
    Default     \* metricsPerMinute when the configuration says 0

ASSUME MinuteAssumption == Minute \in Nat \ {0}
ASSUME NumbersAssumption == /\ Rates \subseteq Int
                            /\ Sizes \subseteq Int
                            /\ Default \in 1..Minute

VARIABLES
    loop,       \* Start: "new", "reset", "select", "post" or "done"; or how the
                \* Envoy has ended: "panicked" or "exited"
    rate,       \* metricsPerMinute
    size,       \* floatsPerMetric
    period,     \* of the ticker
    pc,         \* handlers: "idle", "send" or "floats"
    wants       \* the parameters of the request

vars == <<loop, rate, size, period, pc, wants>>

\* A parameter of a request: at most one number. One that is no number counts as
\* absent here, since only the answer tells the two apart.
Param(numbers) == {{}} \cup {{n} : n \in numbers}

Request == [rate : Param(Rates), size : Param(Sizes)]

NoRequest == [rate |-> {}, size |-> {}]

\* Bind takes the rate from the configuration, and Start makes the first ticker.
Init ==
    /\ loop = "new"
    /\ \E configured \in Rates \cup {0} :
          rate = IF configured = 0 THEN Default ELSE configured
    /\ size \in Sizes
    /\ period = 0
    /\ pc = [h \in Handlers |-> "idle"]
    /\ wants = [h \in Handlers |-> NoRequest]

\* startPerfTestServer was called, after the first ticker was made, and serves.
Serving == loop \notin {"new", "panicked", "exited"}

\* Handler h goes on at the given point; a request that was answered is over.
Goto(h, label) ==
    /\ pc' = [pc EXCEPT ![h] = label]
    /\ wants' = IF label = "idle" THEN [wants EXCEPT ![h] = NoRequest] ELSE wants

--------------------------------------------------------------------------------
(* handler *)

\* A POST with request r. What is no POST, and a rate that is not a number, is
\* refused at once.
Post(h, r) ==
    /\ Serving
    /\ pc[h] = "idle"
    /\ pc' = [pc EXCEPT ![h] = IF r.rate = {} THEN "floats" ELSE "send"]
    /\ wants' = [wants EXCEPT ![h] = r]
    /\ UNCHANGED <<loop, rate, size, period>>

\* The second parameter, after the first was dealt with, and the answer, which is
\* an error if this parameter is not a number or both are absent.
SetFloats(h) ==
    /\ Serving
    /\ pc[h] = "floats"
    /\ size' \in IF wants[h].size = {} THEN {size} ELSE wants[h].size
    /\ Goto(h, "idle")
    /\ UNCHANGED <<loop, rate, period>>

--------------------------------------------------------------------------------
(* The loop of Start. *)

\* Slip: the ticker is left as it is.
MutantTakeRate(h) ==
    /\ loop = "select"
    /\ pc[h] = "send"
    /\ rate' \in wants[h].rate
    /\ Goto(h, "floats")
    /\ UNCHANGED <<loop, size, period>>

\* The loop receives what handler h sends; both go on.
TakeRate(h) ==
    /\ loop = "select"
    /\ pc[h] = "send"
    /\ rate' \in wants[h].rate
    /\ loop' = "reset"
    /\ Goto(h, "floats")
    /\ UNCHANGED <<size, period>>

\* Minute / n does not panic, and neither does NewTicker for what it gives.
HasPeriod(n) == n > 0 /\ Minute \div n > 0

\* The old ticker, if any, is stopped, and time.NewTicker(Minute / rate) takes its place.
ResetTicker ==
    /\ loop \in {"new", "reset"}
    /\ \/ HasPeriod(rate) /\ period' = Minute \div rate /\ loop' = "select"
       \/ ~HasPeriod(rate) /\ loop' = "panicked" /\ UNCHANGED period
    /\ UNCHANGED <<rate, size, pc, wants>>

Tick ==
    /\ loop = "select"
    /\ loop' = "post"
    /\ UNCHANGED <<rate, size, period, pc, wants>>

\* Slip: the metric is posted without a deadline, and the call never returns.
MutantPosted ==
    /\ loop = "post"
    /\ UNCHANGED vars

\* PostMetric returns, at the latest after the time that a call is given.
Posted ==
    /\ loop = "post"
    /\ loop' = "select"
    /\ UNCHANGED <<rate, size, period, pc, wants>>

\* The context is done; requests for a new rate are never answered then.
Done ==
    /\ loop = "select"
    /\ loop' = "done"
    /\ UNCHANGED <<rate, size, period, pc, wants>>

\* The listener cannot be had or fails later: log.Fatalf.
ServerFails ==
    /\ Serving
    /\ loop' = "exited"
    /\ UNCHANGED <<rate, size, period, pc, wants>>

Ended == loop \in {"done", "panicked", "exited"} /\ UNCHANGED vars

--------------------------------------------------------------------------------
Next ==
    \/ ResetTicker \/ Tick \/ Posted \/ Done \/ ServerFails \/ Ended
    \/ \E h \in Handlers : \/ TakeRate(h) \/ SetFloats(h)
                           \/ \E r \in Request : Post(h, r)

\* The goroutines run. When several cases of the select are ready it chooses at
\* random, so that a handler that keeps waiting is served in the end.
Fairness ==
    /\ WF_vars(ResetTicker) /\ WF_vars(Posted)
    /\ \A h \in Handlers : SF_vars(TakeRate(h)) /\ WF_vars(SetFloats(h))

Spec == Init /\ [][Next]_vars

FairSpec == Spec /\ Fairness

--------------------------------------------------------------------------------
(* Properties. *)

TypeOK ==
    /\ loop \in {"new", "reset", "select", "post", "done", "panicked", "exited"}
    /\ rate \in Rates \cup {Default}
    /\ size \in Sizes
    /\ period \in 0..Minute
    /\ pc \in [Handlers -> {"idle", "send", "floats"}]
    /\ wants \in [Handlers -> Request]

\* While the loop waits or posts, its ticker has the period of the present rate,
\* which is never 0, whatever handlers have asked for meanwhile
\* (perf_test_ingestor.go:75-77).
TickerFollowsRate ==
    loop \in {"select", "post", "done"} =>
        HasPeriod(rate) /\ period = Minute \div rate

\* Every request is answered, unless the loop that has to take its rate, or the
\* Envoy, has ended (perf_test_ingestor.go:115).
RequestsAnswered ==
    \A h \in Handlers :
        pc[h] # "idle" ~> pc[h] = "idle" \/ loop \in {"done", "panicked", "exited"}

\* The types and the period of the ticker are inductive together: a rate that was
\* taken is turned into a period, or a panic, before anything else happens.
IndInv == TypeOK /\ TickerFollowsRate

================================================================================
