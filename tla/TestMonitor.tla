------------------------------ MODULE TestMonitor ------------------------------
(***************************************************************************)
(* One test monitor instruction: processTestMonitor of the connection, the *)
(* router's ProcessTestMonitor and those of the runners. Telegraf is run   *)
(* up to Retries times against a temporary config server, whose goroutines *)
(* report their errors on a channel; the packages agent is run once; the   *)
(* other agents have no test monitors. The results are posted over         *)
(* whatever connection there is by then.                                   *)
(*                                                                         *)
(* Instructions share nothing but the connection, so that one is enough.   *)
(***************************************************************************)
EXTENDS Naturals

CONSTANTS
    Retries,    \* telegrafMaxTestMonitorRetries, 3 in the code
    ErrCap      \* capacity of configServerErrors, 2 in the code

ASSUME RetriesAssumption == Retries \in Nat \ {0}
ASSUME ErrCapAssumption == ErrCap \in Nat \ {0}

Attempt == 1..Retries

VARIABLES
    pc,         \* control point of the goroutine of processTestMonitor
    agent,      \* the agent type of the instruction
    unlimited,  \* the instruction states no timeout
    attempt,    \* which run of the agent this is
    proc,       \* the agent's process: "none", "running" or "configured"
    outcome,    \* how the last run ended
    server,     \* the goroutine of configServer.Serve
    handler,    \* for each run, the goroutine that answers its request
    sent,       \* number of errors put into configServerErrors
    taken,      \* number of errors taken out of it
    closed,     \* configServerErrors is closed
    metrics,    \* the results have metrics
    errors,     \* what the errors of the results are about
    link        \* the context of outgoing calls: "up" or "cancelled"

instrVars  == <<agent, unlimited>>
runVars    == <<attempt, proc, outcome>>
chanVars   == <<sent, taken, closed>>
serverVars == <<server, handler>>
resultVars == <<metrics, errors>>
vars == <<pc, instrVars, runVars, serverVars, chanVars, resultVars, link>>

\* The Envoy has not panicked.
Up == server # "panicked"

\* The instruction has been dealt with.
Final == {"answered", "lost", "ignored"}

Init ==
    /\ pc = "received"
    /\ agent \in {"telegraf", "packages", "unsupported", "unknown"}
    /\ unlimited \in BOOLEAN
    /\ attempt = 1
    /\ proc = "none"
    /\ outcome = "none"
    /\ server = "none"
    /\ handler = [a \in Attempt |-> "none"]
    /\ sent = 0 /\ taken = 0 /\ closed = FALSE
    /\ metrics = FALSE
    /\ errors = {}
    /\ link = "up"

\* The runner returns an error, which the router turns into results.
GiveUp(why) ==
    /\ pc' = "post"
    /\ errors' = {why}

--------------------------------------------------------------------------------
(* The goroutine of processTestMonitor. *)

\* The router finds the runner; without one there are no results to post.
Dispatch ==
    /\ Up /\ pc = "received"
    /\ \/ agent = "unknown" /\ pc' = "ignored" /\ UNCHANGED errors
       \/ agent = "unsupported" /\ GiveUp("unsupported")
       \/ agent \in {"telegraf", "packages"} /\ pc' = "prepare" /\ UNCHANGED errors
       \/ agent \in {"telegraf", "packages"} /\ GiveUp("content")
    /\ UNCHANGED <<instrVars, runVars, serverVars, chanVars, metrics, link>>

\* Telegraf gets its configuration from a server on a port of its own.
Listen ==
    /\ Up /\ pc = "prepare" /\ agent = "telegraf"
    /\ \/ pc' = "run" /\ server' = "serving" /\ UNCHANGED errors
       \/ GiveUp("listen") /\ UNCHANGED server
    /\ UNCHANGED <<instrVars, runVars, handler, chanVars, metrics, link>>

\* The packages agent needs no server.
Prepared ==
    /\ Up /\ pc = "prepare" /\ agent = "packages"
    /\ pc' = "run"
    /\ UNCHANGED <<instrVars, runVars, serverVars, chanVars, resultVars, link>>

\* RunCommand: without a timeout in the instruction it is the configured one.
\* The process may not start.
RunTelegraf ==
    /\ Up /\ pc = "run" /\ agent = "telegraf"
    /\ \/ pc' = "wait" /\ proc' = "running" /\ UNCHANGED outcome
       \/ pc' = "ran" /\ outcome' = "failed" /\ UNCHANGED proc
    /\ UNCHANGED <<instrVars, attempt, serverVars, chanVars, resultVars, link>>

\* RunToCompletion, with the configuration as arguments. Without a timeout in
\* the instruction the context has expired before the process is started.
RunPackages ==
    /\ Up /\ pc = "run" /\ agent = "packages"
    /\ \/ ~unlimited /\ pc' = "wait" /\ proc' = "configured" /\ UNCHANGED outcome
       \/ ~unlimited /\ pc' = "ran" /\ outcome' = "failed" /\ UNCHANGED proc
       \/ unlimited /\ pc' = "ran" /\ outcome' = "expired" /\ UNCHANGED proc
    /\ UNCHANGED <<instrVars, attempt, serverVars, chanVars, resultVars, link>>

\* Output returns: the process is over.
Ends(how) ==
    /\ pc = "wait"
    /\ proc' = "none"
    /\ outcome' = how
    /\ pc' = "ran"

\* Only a process that has its configuration has metrics to print.
ProcessEnds ==
    /\ Up
    /\ \E how \in {"failed", "empty"} \cup
                  (IF proc = "configured" THEN {"metrics", "garbage"} ELSE {}) : Ends(how)
    /\ UNCHANGED <<instrVars, attempt, serverVars, chanVars, resultVars, link>>

\* The context of the command expires and the process is killed.
RunTimesOut ==
    /\ Up
    /\ Ends("killed")
    /\ UNCHANGED <<instrVars, attempt, serverVars, chanVars, resultVars, link>>

\* Slip: one run too many.
MutantRunAgain ==
    /\ Up /\ pc = "ran"
    /\ agent = "telegraf" /\ outcome = "empty" /\ attempt <= Retries
    /\ attempt' = attempt + 1
    /\ pc' = "run"
    /\ UNCHANGED <<instrVars, proc, outcome, serverVars, chanVars, resultVars, link>>

\* Telegraf is run again after an empty output without an error, at most
\* Retries times.
RunAgain ==
    /\ Up /\ pc = "ran"
    /\ agent = "telegraf" /\ outcome = "empty" /\ attempt < Retries
    /\ attempt' = attempt + 1
    /\ pc' = "run"
    /\ UNCHANGED <<instrVars, proc, outcome, serverVars, chanVars, resultVars, link>>

\* Slip: an empty output passes for results without metrics.
MutantReport ==
    /\ Up /\ pc = "ran" /\ agent = "telegraf"
    /\ ~(outcome = "empty" /\ attempt < Retries)
    /\ metrics' = (outcome = "metrics")
    /\ errors' = IF outcome \in {"metrics", "empty"} THEN {} ELSE {"command"}
    /\ pc' = "closeServer"
    /\ UNCHANGED <<instrVars, runVars, serverVars, chanVars, link>>

\* The loop of the retries is left. The output is parsed, which fails for an
\* empty one too.
Report ==
    /\ Up /\ pc = "ran" /\ agent = "telegraf"
    /\ ~(outcome = "empty" /\ attempt < Retries)
    /\ \/ outcome = "metrics" /\ metrics' = TRUE /\ UNCHANGED errors
       \/ outcome \in {"empty", "garbage"} /\ errors' = {"parse"} /\ UNCHANGED metrics
       \/ outcome \in {"failed", "killed"} /\ errors' = {"command"} /\ UNCHANGED metrics
    /\ pc' = "closeServer"
    /\ UNCHANGED <<instrVars, runVars, serverVars, chanVars, link>>

\* The packages runner keeps the lines with metrics and returns any error.
ReportPackages ==
    /\ Up /\ pc = "ran" /\ agent = "packages"
    /\ \/ outcome = "metrics" /\ pc' = "post" /\ metrics' = TRUE /\ UNCHANGED errors
       \/ outcome \in {"empty", "garbage"} /\ GiveUp("parse") /\ UNCHANGED metrics
       \/ outcome \in {"failed", "killed", "expired"} /\ GiveUp("command")
                                                    /\ UNCHANGED metrics
    /\ UNCHANGED <<instrVars, runVars, serverVars, chanVars, link>>

\* Slip: the config server is left running.
MutantCloseServer ==
    /\ Up /\ pc = "closeServer"
    /\ pc' = "closeErrors"
    /\ UNCHANGED <<instrVars, runVars, serverVars, chanVars, resultVars, link>>

\* configServer.Close() makes Serve return http.ErrServerClosed.
CloseServer ==
    /\ Up /\ pc = "closeServer"
    /\ server' = IF server = "serving" THEN "shut" ELSE server
    /\ pc' = "closeErrors"
    /\ UNCHANGED <<instrVars, runVars, handler, chanVars, resultVars, link>>

\* Slip: the channel is not closed before it is read to its end.
MutantCloseErrors ==
    /\ Up /\ pc = "closeErrors"
    /\ pc' = "collect"
    /\ UNCHANGED <<instrVars, runVars, serverVars, chanVars, resultVars, link>>

CloseErrors ==
    /\ Up /\ pc = "closeErrors"
    /\ closed' = TRUE
    /\ pc' = "collect"
    /\ UNCHANGED <<instrVars, runVars, serverVars, sent, taken, resultVars, link>>

\* Slip: only the first error is read.
MutantCollect ==
    /\ Up /\ pc = "collect"
    /\ \/ sent > taken /\ taken' = taken + 1 /\ errors' = errors \cup {"server"}
       \/ sent = taken /\ closed /\ UNCHANGED <<taken, errors>>
    /\ pc' = "post"
    /\ UNCHANGED <<instrVars, runVars, serverVars, sent, closed, metrics, link>>

\* range configServerErrors ends when the channel is empty and closed.
Collect ==
    /\ Up /\ pc = "collect"
    /\ \/ /\ sent > taken
          /\ taken' = taken + 1
          /\ errors' = errors \cup {"server"}
          /\ UNCHANGED pc
       \/ /\ sent = taken /\ closed
          /\ pc' = "post"
          /\ UNCHANGED <<taken, errors>>
    /\ UNCHANGED <<instrVars, runVars, serverVars, sent, closed, metrics, link>>

\* PostTestMonitorResults, whose call is limited by GrpcCallLimit and fails
\* when its context is done.
PostResults ==
    /\ Up /\ pc = "post"
    /\ pc' \in {"lost"} \cup (IF link = "up" THEN {"answered"} ELSE {})
    /\ UNCHANGED <<instrVars, runVars, serverVars, chanVars, resultVars, link>>

--------------------------------------------------------------------------------
(* The goroutines of the config server. *)

\* Put an error into configServerErrors; blocks while it is full.
SendError ==
    /\ ~closed
    /\ sent - taken < ErrCap
    /\ sent' = sent + 1
    /\ UNCHANGED <<taken, closed>>

\* Telegraf asks for its configuration.
Request ==
    /\ Up /\ proc = "running" /\ server = "serving"
    /\ handler[attempt] = "none"
    /\ handler' = [handler EXCEPT ![attempt] = "writing"]
    /\ UNCHANGED <<pc, instrVars, runVars, server, chanVars, resultVars, link>>

Write(a) ==
    /\ Up /\ handler[a] = "writing"
    /\ handler' = [handler EXCEPT ![a] = "done"]
    /\ proc' = IF a = attempt /\ proc = "running" THEN "configured" ELSE proc
    /\ UNCHANGED <<pc, instrVars, attempt, outcome, server, chanVars, resultVars, link>>

\* The client is gone, or its connection was closed with the server.
WriteFails(a) ==
    /\ Up /\ handler[a] = "writing"
    /\ handler' = [handler EXCEPT ![a] = "failing"]
    /\ UNCHANGED <<pc, instrVars, runVars, server, chanVars, resultVars, link>>

WriteErrorSent(a) ==
    /\ Up /\ handler[a] = "failing"
    /\ SendError
    /\ handler' = [handler EXCEPT ![a] = "done"]
    /\ UNCHANGED <<pc, instrVars, runVars, server, resultVars, link>>

\* Sending on the closed channel panics, which net/http recovers from in the
\* goroutine of a request.
WriteErrorPanics(a) ==
    /\ Up /\ handler[a] = "failing"
    /\ closed
    /\ handler' = [handler EXCEPT ![a] = "done"]
    /\ UNCHANGED <<pc, instrVars, runVars, server, chanVars, resultVars, link>>

\* Accept fails for good: the listener is broken.
ServeFails ==
    /\ Up /\ server = "serving"
    /\ server' = "failing"
    /\ UNCHANGED <<pc, instrVars, runVars, handler, chanVars, resultVars, link>>

ServeErrorSent ==
    /\ server = "failing"
    /\ SendError
    /\ server' = "done"
    /\ UNCHANGED <<pc, instrVars, runVars, handler, resultVars, link>>

\* Nobody recovers from a panic in the goroutine of Serve.
ServeErrorPanics ==
    /\ server = "failing"
    /\ closed
    /\ server' = "panicked"
    /\ UNCHANGED <<pc, instrVars, runVars, handler, chanVars, resultVars, link>>

\* http.ErrServerClosed is not reported.
ServeEnds ==
    /\ server = "shut"
    /\ server' = "done"
    /\ UNCHANGED <<pc, instrVars, runVars, handler, chanVars, resultVars, link>>

--------------------------------------------------------------------------------
(* The connection: it is given up, and attached again later. *)

LinkLost ==
    /\ Up /\ link = "up"
    /\ link' = "cancelled"
    /\ UNCHANGED <<pc, instrVars, runVars, serverVars, chanVars, resultVars>>

LinkAttached ==
    /\ Up /\ link = "cancelled"
    /\ link' = "up"
    /\ UNCHANGED <<pc, instrVars, runVars, serverVars, chanVars, resultVars>>

\* The Envoy has panicked.
Ended == ~Up /\ UNCHANGED vars

--------------------------------------------------------------------------------
Main ==
    \/ Dispatch \/ Listen \/ Prepared \/ RunTelegraf \/ RunPackages \/ RunAgain
    \/ Report \/ ReportPackages \/ CloseServer \/ CloseErrors \/ Collect \/ PostResults

HandlerStep(a) == Write(a) \/ WriteFails(a) \/ WriteErrorSent(a) \/ WriteErrorPanics(a)

ServeStep == ServeErrorSent \/ ServeErrorPanics \/ ServeEnds

Next ==
    \/ Main \/ ProcessEnds \/ RunTimesOut
    \/ Request \/ \E a \in Attempt : HandlerStep(a)
    \/ ServeFails \/ ServeStep
    \/ LinkLost \/ LinkAttached \/ Ended

Spec == Init /\ [][Next]_vars

(***************************************************************************)
(* Fairness: the scheduler runs every goroutine that can go on, and the    *)
(* timer of the command's context fires and the killed process ends.       *)
(***************************************************************************)
Fairness ==
    /\ WF_vars(Main)
    /\ WF_vars(RunTimesOut)
    /\ \A a \in Attempt : WF_vars(HandlerStep(a))
    /\ WF_vars(ServeStep)

FairSpec == Spec /\ Fairness

--------------------------------------------------------------------------------
(* Properties. *)

TypeOK ==
    /\ pc \in Final \cup {"received", "prepare", "run", "wait", "ran", "closeServer",
                          "closeErrors", "collect", "post"}
    /\ agent \in {"telegraf", "packages", "unsupported", "unknown"}
    /\ unlimited \in BOOLEAN
    /\ attempt \in Attempt
    /\ proc \in {"none", "running", "configured"}
    /\ outcome \in {"none", "metrics", "empty", "garbage", "failed", "killed", "expired"}
    /\ server \in {"none", "serving", "failing", "shut", "done", "panicked"}
    /\ handler \in [Attempt -> {"none", "writing", "failing", "done"}]
    /\ sent \in Nat /\ taken \in Nat /\ closed \in BOOLEAN
    /\ metrics \in BOOLEAN
    /\ errors \subseteq {"unsupported", "content", "listen", "command", "parse", "server"}
    /\ link \in {"up", "cancelled"}

\* Results either have metrics or say why not (telegraf.go:342, "If that still
\* fails, then a parse error will be produced"), whatever the retries, the
\* timeouts and the config server did.
AnswerExplained ==
    pc \in {"post", "answered", "lost"} => (metrics <=> errors \subseteq {"server"})

\* telegraf.go:390, "capture any errors from the config server": an error that
\* was put into the channel is part of the results.
ServerErrorsCaptured ==
    pc \in {"post", "answered", "lost"} =>
        /\ sent = taken
        /\ sent > 0 <=> "server" \in errors

\* Every instruction is dealt with, however often the agent is run and whatever
\* happens to the config server: the run is limited by a timeout, and reading
\* the errors ends (telegraf.go:389).
InstructionAnswered == (pc = "received") ~> (pc \in Final \/ ~Up)

\* The goroutines of the config server end, those included that wait for room
\* in the channel which nobody reads any more.
ServerGoroutinesEnd ==
    (pc \in Final) ~> (\/ ~Up
                       \/ /\ server \in {"none", "done"}
                          /\ \A a \in Attempt : handler[a] \in {"none", "done"})

\* README.md:77, "If not specified by the test-monitor instruction, this is the
\* amount of time an agent is allowed to run": without a timeout of its own the
\* agent is run for the configured one, and not failed at once.
DefaultTimeoutApplied == outcome # "expired"

\* telegraf.go:390 again: an error of the config server is captured and does not
\* bring down the Envoy.
NoPanic == Up

--------------------------------------------------------------------------------
(***************************************************************************)
(* The inductive invariant behind AnswerExplained and                      *)
(* ServerErrorsCaptured.                                                   *)
(***************************************************************************)

\* Control points before the results are known.
Early == {"received", "prepare", "run", "wait", "ran"}

\* What was found out so far, at each control point.
ResultsSoFar ==
    /\ pc \in Early \cup {"ignored"} => ~metrics /\ errors = {}
    /\ pc \in {"closeServer", "closeErrors"} => (metrics <=> errors = {})
                                              /\ "server" \notin errors
    /\ pc = "collect" => (metrics <=> errors \subseteq {"server"})

\* The errors are taken out of the channel once it is closed, and each of them
\* leaves its trace in the results.
ErrorsTaken ==
    /\ taken <= sent
    /\ closed <=> (pc \in {"collect", "post", "answered", "lost"} /\ server # "none")
    /\ ~closed => taken = 0
    /\ pc = "collect" => closed /\ (taken > 0 <=> "server" \in errors)

\* There is a config server from the first run of telegraf on.
ServerStarted ==
    /\ pc \in {"closeServer", "closeErrors", "collect"} => server # "none"
    /\ pc \in {"received", "prepare", "ignored"} \/ agent # "telegraf" => server = "none"
    /\ pc \in {"run", "wait", "ran"} /\ agent = "telegraf" => server # "none"
    /\ server = "none" => sent = 0 /\ \A a \in Attempt : handler[a] = "none"

IndInv ==
    /\ TypeOK
    /\ ResultsSoFar
    /\ ErrorsTaken
    /\ ServerStarted
    /\ AnswerExplained
    /\ ServerErrorsCaptured

================================================================================
