--------------------------- MODULE OutputForwarder ----------------------------
(***************************************************************************)
(* StartAgentCommand and the two goroutines of setupCommandLogging that    *)
(* forward the output of one agent process to the log. They report to      *)
(* StartAgentCommand over waitForChan, which has room for one result and   *)
(* is read at most once.                                                   *)
(***************************************************************************)
EXTENDS Naturals, Sequences

CONSTANT PipeCap        \* lines that the operating system keeps per pipe

ASSUME PipeCapAssumption == PipeCap \in Nat \ {0}

VARIABLES
    waitFor,    \* the agent is expected to write some phrase
    start,      \* StartAgentCommand: "select", or how it returned
    chan,       \* the buffer of waitForChan
    fwd,        \* control point of the forwarder of each stream
    checking,   \* its variable checkingWaitFor
    pipe,       \* the lines in each pipe: TRUE for one with the phrase
    closed,     \* the streams whose writing end the agent has closed
    proc,       \* the agent: "alive", "exited", or "reaped" by cmd.Wait
    cancelled,  \* the context of the command is done
    seen        \* history: a forwarder read the phrase

agent == <<pipe, closed, proc>>
vars == <<waitFor, start, chan, fwd, checking, agent, cancelled, seen>>

Stream == {"stdout", "stderr"}

\* The forwarder of s has returned and thereby closed the reading end.
Returned(s) == fwd[s] = "returned"

\* setupCommandLogging and cmd.Start have succeeded.
Init ==
    /\ waitFor \in BOOLEAN
    /\ start = "select"
    /\ chan = IF waitFor THEN <<>> ELSE <<TRUE>>
    /\ fwd = [s \in Stream |-> "loop"]
    /\ checking = [s \in Stream |-> waitFor]
    /\ pipe = [s \in Stream |-> <<>>]
    /\ closed = {}
    /\ proc = "alive"
    /\ cancelled = FALSE
    /\ seen = FALSE

--------------------------------------------------------------------------------
(* The select of StartAgentCommand: either case, when both are ready. *)

StartTimeout ==
    /\ start = "select"
    /\ start' = "timeout"
    /\ UNCHANGED <<waitFor, chan, fwd, checking, agent, cancelled, seen>>

StartResult ==
    /\ start = "select"
    /\ chan # <<>>
    /\ start' = IF Head(chan) THEN "ok" ELSE "ended"
    /\ chan' = Tail(chan)
    /\ UNCHANGED <<waitFor, fwd, checking, agent, cancelled, seen>>

--------------------------------------------------------------------------------
(* handleCommandOutputPipe. *)

\* The select at the head of the loop: the context is looked at only here.
Loop(s) ==
    /\ fwd[s] = "loop"
    /\ fwd' = [fwd EXCEPT ![s] = IF cancelled THEN "returned" ELSE "read"]
    /\ UNCHANGED <<waitFor, start, chan, checking, agent, cancelled, seen>>

\* ReadString returns a line, which may be the expected one. Lines that the
\* reader has buffered are returned even after the pipe was closed.
ReadLine(s) ==
    /\ fwd[s] = "read"
    /\ pipe[s] # <<>>
    /\ pipe' = [pipe EXCEPT ![s] = Tail(@)]
    /\ fwd' = [fwd EXCEPT ![s] = IF checking[s] /\ Head(pipe[s]) THEN "found" ELSE "loop"]
    /\ seen' = (seen \/ fwd'[s] = "found")
    /\ UNCHANGED <<waitFor, start, chan, checking, closed, proc, cancelled>>

\* ReadString returns io.EOF once everything was read, or an error because
\* cmd.Wait has closed the reading end, whatever was left in the pipe.
ReadError(s) ==
    /\ fwd[s] = "read"
    /\ proc = "reaped" \/ (s \in closed /\ pipe[s] = <<>>)
    /\ fwd' = [fwd EXCEPT ![s] = "failed"]
    /\ UNCHANGED <<waitFor, start, chan, checking, agent, cancelled, seen>>

\* Slip: the channel's room is not waited for.
MutantPut(result) ==
    chan' = Append(chan, result)

\* A send on waitForChan, which waits for room.
Put(result) ==
    /\ Len(chan) < 1
    /\ chan' = Append(chan, result)

\* Slip: the forwarder goes on looking for the phrase.
MutantPutFound(s) ==
    /\ fwd[s] = "found"
    /\ Put(TRUE)
    /\ fwd' = [fwd EXCEPT ![s] = "loop"]
    /\ UNCHANGED <<waitFor, start, checking, agent, cancelled, seen>>

\* Slip: the forwarder returns once it has seen the phrase.
MutantPutFoundReturns(s) ==
    /\ fwd[s] = "found"
    /\ Put(TRUE)
    /\ fwd' = [fwd EXCEPT ![s] = "returned"]
    /\ UNCHANGED <<waitFor, start, checking, agent, cancelled, seen>>

\* waitForChan <- true; the forwarder then stops looking for the phrase.
PutFound(s) ==
    /\ fwd[s] = "found"
    /\ Put(TRUE)
    /\ checking' = [checking EXCEPT ![s] = FALSE]
    /\ fwd' = [fwd EXCEPT ![s] = "loop"]
    /\ UNCHANGED <<waitFor, start, agent, cancelled, seen>>

\* Slip: the end of the output is reported as a success.
MutantPutFailed(s) ==
    /\ fwd[s] = "failed"
    /\ Put(TRUE)
    /\ fwd' = [fwd EXCEPT ![s] = "returned"]
    /\ UNCHANGED <<waitFor, start, checking, agent, cancelled, seen>>

\* waitForChan <- false; the forwarder returns.
PutFailed(s) ==
    /\ fwd[s] = "failed"
    /\ Put(FALSE)
    /\ fwd' = [fwd EXCEPT ![s] = "returned"]
    /\ UNCHANGED <<waitFor, start, checking, agent, cancelled, seen>>

--------------------------------------------------------------------------------
(* The agent process and the end of its context. *)

\* The agent writes a line; it waits while the pipe is full.
Write(s, phrase) ==
    /\ proc = "alive"
    /\ s \notin closed
    /\ ~Returned(s)
    /\ Len(pipe[s]) < PipeCap
    /\ pipe' = [pipe EXCEPT ![s] = Append(@, phrase)]
    /\ UNCHANGED <<waitFor, start, chan, fwd, checking, closed, proc, cancelled, seen>>

CloseStream(s) ==
    /\ proc = "alive"
    /\ s \notin closed
    /\ closed' = closed \cup {s}
    /\ UNCHANGED <<waitFor, start, chan, fwd, checking, pipe, proc, cancelled, seen>>

\* The agent ends, on its own, by a signal, or because nobody reads its output.
Exit ==
    /\ proc = "alive"
    /\ proc' = "exited"
    /\ closed' = Stream
    /\ UNCHANGED <<waitFor, start, chan, fwd, checking, pipe, cancelled, seen>>

\* cmd.Wait, called only after a successful start, closes the reading ends.
Reap ==
    /\ start = "ok"
    /\ proc = "exited"
    /\ proc' = "reaped"
    /\ UNCHANGED <<waitFor, start, chan, fwd, checking, pipe, closed, cancelled, seen>>

\* WaitOnAgentCommand cancels after Wait, Stop after KILL, and the application
\* context ends at any time.
Cancel ==
    /\ ~cancelled
    /\ cancelled' = TRUE
    /\ UNCHANGED <<waitFor, start, chan, fwd, checking, agent, seen>>

\* Nothing is left to do once everybody has returned or waits for ever.
Ended == proc # "alive" /\ UNCHANGED vars

--------------------------------------------------------------------------------
Forward(s) == Loop(s) \/ ReadLine(s) \/ ReadError(s) \/ PutFound(s) \/ PutFailed(s)

Starting == StartTimeout \/ StartResult

Next ==
    \/ Starting \/ Exit \/ Reap \/ Cancel \/ Ended
    \/ \E s \in Stream : \/ Forward(s) \/ CloseStream(s)
                         \/ \E phrase \in BOOLEAN : Write(s, phrase)

Spec == Init /\ [][Next]_vars

\* The goroutines run, the timer of StartAgentCommand fires, and cmd.Wait
\* returns. The agent need not write, end or be stopped.
Fairness == /\ \A s \in Stream : WF_vars(Forward(s))
            /\ WF_vars(Starting) /\ WF_vars(Reap)

FairSpec == Spec /\ Fairness

--------------------------------------------------------------------------------
(* Properties. *)

TypeOK ==
    /\ waitFor \in BOOLEAN
    /\ start \in {"select", "timeout", "ok", "ended"}
    /\ chan \in {<<>>, <<TRUE>>, <<FALSE>>}
    /\ fwd \in [Stream -> {"loop", "read", "found", "failed", "returned"}]
    /\ checking \in [Stream -> BOOLEAN]
    /\ pipe \in [Stream -> Seq(BOOLEAN)]
    /\ \A s \in Stream : Len(pipe[s]) <= PipeCap
    /\ closed \subseteq Stream
    /\ proc \in {"alive", "exited", "reaped"}
    /\ cancelled \in BOOLEAN
    /\ seen \in BOOLEAN

\* A start succeeds only when the agent wrote the expected phrase, if one is
\* expected, however the ends of the two streams, the phrase and the timer come
\* together (command_handler.go:98-107).
StartedAsExpected == start = "ok" /\ waitFor => seen

\* The agent was started and has closed neither of its streams.
InService == start = "ok" /\ closed = {}

\* While the agent is in service no
\* forwarder waits for room in waitForChan, which nobody reads any more. Both
\* streams may carry the phrase, any number of times (command_handler.go:206).
ForwardersNotBlocked ==
    InService => \A s \in Stream : fwd[s] \in {"found", "failed"} => chan = <<>>

\* An agent in service never waits for ever to write its output: a full pipe is
\* drained, unless the context is done (command_handler.go:190-211).
OutputFlows ==
    \A s \in Stream :
        (InService /\ Len(pipe[s]) = PipeCap)
            ~> (Len(pipe[s]) < PipeCap \/ closed # {} \/ cancelled)

\* command_handler.go:255, "ctx and cancel are used to coordinate the lifecycle
\* of go routines used by the CommandHandler": once the context is done and the
\* agent has ended, the forwarders return. They do not: the second send on
\* waitForChan waits for ever.
ForwardersReturn ==
    (start = "ok" /\ proc = "reaped" /\ cancelled) ~> \A s \in Stream : Returned(s)

(***************************************************************************)
(* Why the properties hold. A result TRUE in the channel, and a forwarder  *)
(* about to send one, mean that the phrase was seen. As long as both       *)
(* streams are open no forwarder has failed, and each sends at most once,  *)
(* after which it no longer checks: the first result is the one that       *)
(* StartAgentCommand takes, and the second finds its place empty.          *)
(***************************************************************************)
SuccessWasSeen ==
    waitFor => /\ chan = <<TRUE>> => seen
               /\ \A s \in Stream : fwd[s] = "found" => seen

FoundWhileChecking == \A s \in Stream : fwd[s] = "found" => checking[s]

FailedIsClosed ==
    /\ \A s \in Stream : fwd[s] = "failed" => closed # {}
    /\ proc # "alive" => closed = Stream

ResultsCounted ==
    closed = {} =>
        /\ start = "ok" \/ chan # <<>> => \E s \in Stream : ~checking[s]
        /\ start = "ok" /\ chan # <<>> => \A s \in Stream : ~checking[s]

IndInv ==
    /\ TypeOK
    /\ SuccessWasSeen
    /\ FoundWhileChecking
    /\ FailedIsClosed
    /\ ResultsCounted
    /\ StartedAsExpected

================================================================================
