--------------------------------- MODULE Ingest ---------------------------------
(***************************************************************************)
(* One ingestor and the posting of what it receives: the goroutines of the *)
(* agents' sockets, which decode their input and put it into a channel,    *)
(* the goroutine of Start, which posts one item after the other over the   *)
(* connection, and the connection as far as PostMetric and PostLogEvent    *)
(* depend on it.                                                           *)
(*                                                                         *)
(* TelegrafJson and LineProtocol receive single metrics. Lumberjack        *)
(* receives batches of log events and acknowledges a batch in the end. A   *)
(* metric is here a batch of one, whose acknowledgement nobody waits for.  *)
(***************************************************************************)
EXTENDS Naturals, Sequences

CONSTANTS
    Source,     \* the sockets of the agents
    QueueCap,   \* capacity of the channel: 10, 100, or that of go-lumber
    MaxBatch,   \* how many events a batch may have
    MaxSent,    \* bound: how many batches an agent sends on a socket
    MaxConn     \* bound: how many connections are dialled

ASSUME IngestAssumption ==
    /\ QueueCap \in Nat \ {0} /\ MaxBatch \in Nat \ {0}
    /\ MaxSent \in Nat /\ MaxConn \in Nat

\* Events are known by their socket, batch and place in the batch.
Batch == [source : Source, number : 1..MaxSent, size : 1..MaxBatch]

VARIABLES
    main,       \* control point of attach()
    client,     \* the connection c.client calls over; 0 before the first
    outgoing,   \* the connection whose id and context c.outgoingContext has
    cancelled,  \* the connections whose context is done
    attached,   \* the field attached
    served,     \* history: the connections that were attached
    hand,       \* for each socket the batches its goroutine waits to enqueue
    queue,      \* the ingestor's channel
    poster,     \* control point of the ingestor's goroutine
    batch,      \* what it is posting
    event,      \* which event of the batch
    callCtx,    \* the connection whose context its call has
    accepted,   \* history: the batches decoded from each socket
    handled,    \* history: the events of each socket that were posted or dropped
    acked,      \* history: the batches of each socket that were acknowledged
    posted,     \* history: [as, over] of the calls that reached an Ambassador
    appDone     \* the application context is done

linkVars    == <<main, client, outgoing, cancelled, attached, served>>
socketVars  == <<hand, accepted>>
posterVars  == <<poster, batch, event, callCtx>>
historyVars == <<handled, acked, posted>>
vars == <<linkVars, socketVars, queue, posterVars, historyVars, appDone>>

NoBatch == <<>>

Init ==
    /\ main = "dial"
    /\ client = 0
    /\ outgoing = 0
    /\ cancelled = {}
    /\ attached = FALSE
    /\ served = {}
    /\ hand = [s \in Source |-> <<>>]
    /\ queue = <<>>
    /\ poster = "idle"
    /\ batch = NoBatch
    /\ event = 0
    /\ callCtx = 0
    /\ accepted = [s \in Source |-> <<>>]
    /\ handled = [s \in Source |-> <<>>]
    /\ acked = [s \in Source |-> <<>>]
    /\ posted = {}
    /\ appDone = FALSE

--------------------------------------------------------------------------------
(* The connection: attach() and watchForInstructions. *)

\* c.client is replaced first ...
Dial ==
    /\ main = "dial"
    /\ ~appDone
    /\ client < MaxConn
    /\ client' = client + 1
    /\ main' = "dialled"
    /\ UNCHANGED <<outgoing, cancelled, attached, served, socketVars, queue, posterVars,
                   historyVars, appDone>>

\* ... and then c.outgoingContext, before the Envoy is attached.
SetContext ==
    /\ main = "dialled"
    /\ outgoing' = client
    /\ main' = "attach"
    /\ UNCHANGED <<client, cancelled, attached, served, socketVars, queue, posterVars,
                   historyVars, appDone>>

\* The connection is closed, its context is never cancelled.
AttachFails ==
    /\ main = "attach"
    /\ main' = "dial"
    /\ UNCHANGED <<client, outgoing, cancelled, attached, served, socketVars, queue,
                   posterVars, historyVars, appDone>>

Attach ==
    /\ main = "attach"
    /\ main' = "serve"
    /\ served' = served \cup {client}
    /\ UNCHANGED <<client, outgoing, cancelled, attached, socketVars, queue,
                   posterVars, historyVars, appDone>>

Ready ==
    /\ main = "serve"
    /\ ~attached
    /\ attached' = TRUE
    /\ UNCHANGED <<main, client, outgoing, cancelled, served, socketVars, queue, posterVars,
                   historyVars, appDone>>

\* An error is reported, or the Envoy shuts down: the flag is lowered ...
ConnectionFails ==
    /\ main = "serve"
    /\ attached' = FALSE
    /\ main' = "cancel"
    /\ UNCHANGED <<client, outgoing, cancelled, served, socketVars, queue, posterVars,
                   historyVars, appDone>>

\* Slip: the context of the calls is not cancelled.
MutantCancelConnection ==
    /\ main = "cancel"
    /\ main' = "dial"
    /\ UNCHANGED <<client, outgoing, cancelled, attached, served, socketVars, queue,
                   posterVars, historyVars, appDone>>

\* ... and then the context cancelled, before attach() closes the connection.
CancelConnection ==
    /\ main = "cancel"
    /\ cancelled' = cancelled \cup {outgoing}
    /\ main' = "dial"
    /\ UNCHANGED <<client, outgoing, attached, served, socketVars, queue, posterVars,
                   historyVars, appDone>>

--------------------------------------------------------------------------------
(* The goroutines of the sockets. *)

\* Something that cannot be decoded is skipped, anything else waits for room in
\* the channel. The next line is read when there was room.
Receive(s) ==
    /\ hand[s] = <<>>
    /\ Len(accepted[s]) < MaxSent
    /\ \E b \in Batch :
        /\ b.source = s /\ b.number = Len(accepted[s]) + 1
        /\ hand' = [hand EXCEPT ![s] = <<b>>]
        /\ accepted' = [accepted EXCEPT ![s] = Append(@, b)]
    /\ UNCHANGED <<linkVars, queue, posterVars, historyVars, appDone>>

\* Slip: what finds no room is dropped.
MutantEnqueue(s) ==
    /\ hand[s] # <<>>
    /\ queue' = IF Len(queue) < QueueCap THEN queue \o hand[s] ELSE queue
    /\ hand' = [hand EXCEPT ![s] = <<>>]
    /\ UNCHANGED <<linkVars, accepted, posterVars, historyVars, appDone>>

\* Slip: the channel has no capacity.
MutantEnqueueAlways(s) ==
    /\ hand[s] # <<>>
    /\ queue' = queue \o hand[s]
    /\ hand' = [hand EXCEPT ![s] = <<>>]
    /\ UNCHANGED <<linkVars, accepted, posterVars, historyVars, appDone>>

\* The goroutine waits while the channel is full.
Enqueue(s) ==
    /\ hand[s] # <<>>
    /\ Len(queue) < QueueCap
    /\ queue' = queue \o hand[s]
    /\ hand' = [hand EXCEPT ![s] = <<>>]
    /\ UNCHANGED <<linkVars, accepted, posterVars, historyVars, appDone>>

--------------------------------------------------------------------------------
(* The goroutine of Start. *)

Take ==
    /\ poster = "idle"
    /\ queue # <<>>
    /\ batch' = Head(queue)
    /\ queue' = Tail(queue)
    /\ event' = 1
    /\ poster' = "check"
    /\ UNCHANGED <<linkVars, socketVars, callCtx, historyVars, appDone>>

\* Slip: one event that is dropped or posted ends the batch.
MutantHandled ==
    /\ handled' = [handled EXCEPT ![batch.source] = Append(@, <<batch.number, event>>)]
    /\ poster' = "ack"
    /\ UNCHANGED event

\* The post of the event returns: go on with the next one.
Handled ==
    /\ handled' = [handled EXCEPT ![batch.source] = Append(@, <<batch.number, event>>)]
    /\ IF event < batch.size
       THEN poster' = "check" /\ event' = event + 1
       ELSE poster' = "ack" /\ UNCHANGED event

\* if !c.attached: the event is dropped.
CheckAttached ==
    /\ poster = "check"
    /\ IF attached THEN poster' = "context" /\ UNCHANGED <<event, handled>> ELSE Handled
    /\ UNCHANGED <<linkVars, socketVars, queue, batch, callCtx, acked, posted, appDone>>

\* context.WithTimeout(c.outgoingContext, c.GrpcCallLimit)
TakeContext ==
    /\ poster = "context"
    /\ callCtx' = outgoing
    /\ poster' = "call"
    /\ UNCHANGED <<linkVars, socketVars, queue, batch, event, historyVars, appDone>>

\* c.client.PostMetric reaches the Ambassador, as callCtx, unless its context is
\* done or the connection closed.
CallSucceeds ==
    /\ poster = "call"
    /\ callCtx \notin cancelled
    /\ main \in {"attach", "serve", "cancel", "dialled"}
    /\ posted' = posted \cup {[as |-> callCtx, over |-> client]}
    /\ Handled
    /\ UNCHANGED <<linkVars, socketVars, queue, batch, callCtx, acked, appDone>>

\* Slip: the call has no time limit.
MutantCallFails ==
    /\ poster = "call"
    /\ callCtx \in cancelled
    /\ Handled
    /\ UNCHANGED <<linkVars, socketVars, queue, batch, callCtx, acked, posted, appDone>>

\* The call fails, at the latest after GrpcCallLimit. The event is dropped.
CallFails ==
    /\ poster = "call"
    /\ Handled
    /\ UNCHANGED <<linkVars, socketVars, queue, batch, callCtx, acked, posted, appDone>>

Acknowledge ==
    /\ poster = "ack"
    /\ acked' = [acked EXCEPT ![batch.source] = Append(@, batch)]
    /\ batch' = NoBatch
    /\ event' = 0
    /\ callCtx' = 0
    /\ poster' = "idle"
    /\ UNCHANGED <<linkVars, socketVars, queue, handled, posted, appDone>>

\* case <-ctx.Done()
Stop ==
    /\ poster = "idle"
    /\ appDone
    /\ poster' = "stopped"
    /\ UNCHANGED <<linkVars, socketVars, queue, batch, event, callCtx, historyVars, appDone>>

\* All contexts derive from the application context.
Shutdown ==
    /\ ~appDone
    /\ appDone' = TRUE
    /\ cancelled' = 0..MaxConn
    /\ UNCHANGED <<main, client, outgoing, attached, served, socketVars, queue, posterVars,
                   historyVars>>

\* The Envoy is about to exit, or the bounds are reached.
Ended ==
    /\ appDone \/ \A s \in Source : Len(accepted[s]) = MaxSent
    /\ UNCHANGED vars

--------------------------------------------------------------------------------
LinkStep ==
    \/ Dial \/ SetContext \/ AttachFails \/ Attach \/ Ready
    \/ ConnectionFails \/ CancelConnection

PosterStep ==
    Take \/ CheckAttached \/ TakeContext \/ CallSucceeds \/ CallFails \/ Acknowledge \/ Stop

Next ==
    \/ LinkStep
    \/ \E s \in Source : Receive(s) \/ Enqueue(s)
    \/ PosterStep \/ Shutdown \/ Ended

Spec == Init /\ [][Next]_vars

(***************************************************************************)
(* Fairness: the ingestor's goroutine goes on, and a call is only known to *)
(* return when it fails. A channel serves its blocked senders in the order *)
(* they came, so that none is passed over for ever.                        *)
(***************************************************************************)
Fairness ==
    /\ WF_vars(Take \/ CheckAttached \/ TakeContext \/ CallFails \/ Acknowledge)
    /\ \A s \in Source : SF_vars(Enqueue(s))

FairSpec == Spec /\ Fairness

--------------------------------------------------------------------------------
(* Properties. *)

TypeOK ==
    /\ main \in {"dial", "dialled", "attach", "serve", "cancel"}
    /\ client \in 0..MaxConn /\ outgoing \in 0..MaxConn /\ callCtx \in 0..MaxConn
    /\ cancelled \subseteq 0..MaxConn
    /\ attached \in BOOLEAN /\ served \subseteq 1..MaxConn /\ appDone \in BOOLEAN
    /\ hand \in [Source -> Seq(Batch)]
    /\ queue \in Seq(Batch) /\ Len(queue) <= QueueCap
    /\ poster \in {"idle", "check", "context", "call", "ack", "stopped"}
    /\ batch = NoBatch \/ batch \in Batch
    /\ event \in 0..MaxBatch
    /\ accepted \in [Source -> Seq(Batch)]
    /\ acked \in [Source -> Seq(Batch)]
    /\ handled \in [Source -> Seq((1..MaxSent) \X (1..MaxBatch))]
    /\ posted \subseteq [as : 0..MaxConn, over : 0..MaxConn]

\* The batch being posted, unless it has been acknowledged.
InPost == IF batch = NoBatch THEN <<>> ELSE <<batch>>

\* What a batch of socket s may have to wait for, and the one in hand itself.
OnTheWay(s) == InPost \o queue \o hand[s]

\* Of what socket s accepted, a beginning is acknowledged, and what follows is
\* on the way, each batch once, none before an earlier one.
InPlace(s, acc, ack, way) ==
    /\ Len(ack) <= Len(acc)
    /\ \A n \in 1..Len(ack) : ack[n] = acc[n]
    /\ \A n \in Len(ack) + 1 .. Len(acc) : \E i \in 1..Len(way) : way[i] = acc[n]
    /\ \A i \in 1..Len(way) : way[i].source = s =>
          /\ way[i].number \in Len(ack) + 1 .. Len(acc)
          /\ way[i] = acc[way[i].number]
    /\ \A i, j \in 1..Len(way) :
          i < j /\ way[i].source = s /\ way[j].source = s => way[i].number < way[j].number

\* Nothing an agent sent is lost, duplicated or overtaken on its way through the
\* goroutines and the channel, whatever happens to the connection: it has been
\* acknowledged, in the order in which it came, or is on the way, in its place.
NothingLostOrReordered ==
    \A s \in Source : InPlace(s, accepted[s], acked[s], OnTheWay(s))

\* One event of a socket is sent before another.
Before(e, f) == e[1] < f[1] \/ (e[1] = f[1] /\ e[2] < f[2])

\* lumberjack.go:109: a batch is acknowledged when all of its events have been
\* posted or dropped, in their order, and not before.
AckedAreHandled ==
    \A s \in Source :
        /\ \A i \in 1..Len(acked[s]) : \A e \in 1..acked[s][i].size :
              \E j \in 1..Len(handled[s]) : handled[s][j] = <<acked[s][i].number, e>>
        /\ \A j \in 1..Len(handled[s]) : \A i \in 1..(j - 1) :
              Before(handled[s][i], handled[s][j])

\* A call that races with the loss of its connection and the attachment of the
\* next one carries the id of the connection it goes over: the context of the
\* lost one is cancelled before another is dialled (connection.go:240). Only the
\* context of a connection that could not be attached is never cancelled.
PostedAsItself ==
    \A p \in posted : p.as = p.over \/ p.as \notin served

\* What an agent sent is posted or dropped in the end, also when the Ambassador
\* does not answer (connection.go:298): a slow connection holds the agents up,
\* but not for ever.
BatchesHandled ==
    \A s \in Source : (hand[s] # <<>>) ~>
        (appDone \/ Len(acked[s]) = Len(accepted[s]))

(***************************************************************************)
(* Why the invariants hold. A socket numbers what it accepts. The batch in *)
(* post is the first that its socket has no acknowledgement for, and its   *)
(* events before the one in post are handled. A context that a call may    *)
(* still have is not younger than the connection, and that of an attached  *)
(* connection is done before the next one is dialled.                      *)
(***************************************************************************)
Numbered ==
    \A s \in Source :
        /\ \A n \in 1..Len(accepted[s]) :
              accepted[s][n].source = s /\ accepted[s][n].number = n
        /\ hand[s] = <<>> \/ \E b \in Batch : b.source = s /\ hand[s] = <<b>>

PosterState ==
    IF poster \in {"idle", "stopped"}
    THEN batch = NoBatch
    ELSE /\ batch \in Batch
         /\ event \in 1..batch.size
         /\ poster = "ack" => event = batch.size

\* The events of the batch in post that have been posted or dropped.
Done == IF poster = "ack" THEN 1..event ELSE 1..(event - 1)

HandledSoFar ==
    /\ poster \notin {"idle", "stopped"} => \A e \in Done :
          \E j \in 1..Len(handled[batch.source]) :
              handled[batch.source][j] = <<batch.number, e>>
    /\ \A s \in Source : \A j \in 1..Len(handled[s]) :
          \/ handled[s][j][1] <= Len(acked[s])
          \/ /\ poster \notin {"idle", "stopped"} /\ batch.source = s
             /\ handled[s][j][1] = batch.number /\ handled[s][j][2] \in Done

ContextsInOrder ==
    /\ callCtx <= outgoing /\ outgoing <= client
    /\ main # "dial" => client > 0
    /\ main \in {"attach", "serve", "cancel"} => outgoing = client
    /\ \A k \in served : /\ k \in 1..client
                         /\ k \in cancelled \/ (k = client /\ main \in {"serve", "cancel"})
    /\ \A p \in posted : /\ p.as <= p.over /\ p.over <= client
                         /\ p.as < p.over => p.as \notin served

IndInv ==
    /\ TypeOK
    /\ Numbered
    /\ PosterState
    /\ NothingLostOrReordered
    /\ AckedAreHandled
    /\ HandledSoFar
    /\ ContextsInOrder

================================================================================
