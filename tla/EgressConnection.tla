---------------------------- MODULE EgressConnection ----------------------------
(***************************************************************************)
(* StandardEgressConnection: the goroutine of Start, which dials, attaches *)
(* and serves one connection to the Ambassador after the other, and the    *)
(* goroutines of each connection: watchForInstructions and one             *)
(* sendKeepAlives for each Ready instruction. They share the flag          *)
(* "attached", the connection's errChan and the detachChan, over which the *)
(* router is told to stop the agents and to purge their configs.           *)
(*                                                                         *)
(* The router is modelled as far as the connection depends on it, and the  *)
(* configs of the agents by the connections that delivered them.           *)
(***************************************************************************)
EXTENDS Naturals

CONSTANTS
    Conn,       \* the connections whose goroutines may exist at the same time
    NoConn,     \* no connection was attached yet
    ErrCap,     \* capacity of errChan, 10 in the code
    DetachCap,  \* capacity of detachChan, 1 in the code
    MaxReady    \* how many Ready instructions an Ambassador sends on a stream

ASSUME ConnAssumption == NoConn \notin Conn

\* Every goroutine of a connection puts at most one error into its errChan.
ASSUME CapAssumption == /\ ErrCap \in Nat /\ MaxReady \in Nat /\ DetachCap \in Nat \ {0}
                        /\ MaxReady < ErrCap

VARIABLES
    main,       \* control point of the goroutine of Start
    conn,       \* the connection attach() works on
    cause,      \* why the last call of attach() failed
    dialOption, \* grpcTlsDialOption: "set" or "nil"
    attached,   \* the field attached
    cancelled,  \* the connections whose cancelFunc was called
    errs,       \* number of errors in the connection's errChan
    watcher,    \* the connection's watchForInstructions
    keepers,    \* number of the connection's sendKeepAlives goroutines
    ready,      \* number of Ready instructions the connection received
    detach,     \* number of signals in detachChan
    router,     \* the goroutine of the router
    configs,    \* the connections whose configs are stored
    appDone     \* the application context is done

mainVars   == <<main, conn, cause, dialOption>>
connVars   == <<cancelled, errs, watcher, keepers, ready>>
routerVars == <<detach, router, configs>>
vars       == <<mainVars, connVars, routerVars, attached, appDone>>

\* outgoingCtx.Done(): cancelled by cancelFunc or with the application context.
CtxDone(n) == appDone \/ n \in cancelled

\* watchForInstructions of connection n has not returned.
Watching(n) == watcher[n] \in {"check", "recv", "configure"}

\* The connection has goroutines.
Active(n) == Watching(n) \/ keepers[n] > 0

\* The Envoy has not panicked.
Up == main # "panicked"

--------------------------------------------------------------------------------
Init ==
    /\ main = "loop"
    /\ conn = NoConn
    /\ cause = "none"
    /\ dialOption = "set"           \* otherwise NewEgressConnection fails
    /\ attached = FALSE
    /\ cancelled = {}
    /\ errs = [n \in Conn |-> 0]
    /\ watcher = [n \in Conn |-> "none"]
    /\ keepers = [n \in Conn |-> 0]
    /\ ready = [n \in Conn |-> 0]
    /\ detach = 0
    /\ router = "idle"
    /\ configs = {}
    /\ appDone = FALSE

--------------------------------------------------------------------------------
(* Start and attach. *)

\* The loop of Start: return when the application context is done, otherwise
\* call attach through RetryNotify.
Loop ==
    /\ main = "loop"
    /\ main' = IF appDone THEN "stopped" ELSE "dial"
    /\ UNCHANGED <<conn, cause, dialOption, connVars, routerVars, attached, appDone>>

\* attach() returns an error.
Fail(why) == main' = "failed" /\ cause' = why

\* Dialing tcp6 and then tcp4 failed; the certificate may have expired.
DialFails ==
    /\ main = "dial"
    /\ dialOption = "set"
    /\ \E why \in {"plain", "expired"} : Fail(why)
    /\ UNCHANGED <<conn, dialOption, connVars, routerVars, attached, appDone>>

Dial ==
    /\ main = "dial"
    /\ dialOption = "set"
    /\ main' = "attach"
    /\ UNCHANGED <<conn, cause, dialOption, connVars, routerVars, attached, appDone>>

\* DialContext calls the method apply of each option.
DialNil ==
    /\ main = "dial"
    /\ dialOption = "nil"
    /\ main' = "panicked"
    /\ UNCHANGED <<conn, cause, dialOption, connVars, routerVars, attached, appDone>>

AttachFails ==
    /\ main = "attach"
    /\ \E why \in {"plain", "expired"} : Fail(why)
    /\ UNCHANGED <<conn, dialOption, connVars, routerVars, attached, appDone>>

\* AttachEnvoy succeeds: a new errChan and a new goroutine to watch the stream.
\* Connections without goroutines and without stored configs are forgotten.
Attach(n) ==
    /\ main = "attach"
    /\ n # conn
    /\ ~Active(n)
    /\ n \notin configs
    /\ main' = "serve"
    /\ conn' = n
    /\ cause' = "none"
    /\ cancelled' = cancelled \ {n}
    /\ errs' = [errs EXCEPT ![n] = 0]
    /\ watcher' = [watcher EXCEPT ![n] = "check"]
    /\ ready' = [ready EXCEPT ![n] = 0]
    /\ UNCHANGED <<dialOption, keepers, routerVars, attached, appDone>>

\* case <-outgoingCtx.Done()
ServeDone ==
    /\ main = "serve"
    /\ CtxDone(conn)
    /\ attached' = FALSE
    /\ Fail("closed")
    /\ UNCHANGED <<conn, dialOption, connVars, routerVars, appDone>>

\* Slip: the flag stays up while the connection is being given up.
MutantServeError ==
    /\ main = "serve"
    /\ errs[conn] > 0
    /\ errs' = [errs EXCEPT ![conn] = @ - 1]
    /\ main' = "signal"
    /\ UNCHANGED <<conn, cause, dialOption, cancelled, watcher, keepers, ready,
                   routerVars, attached, appDone>>

\* case err := <-errChan
ServeError ==
    /\ main = "serve"
    /\ errs[conn] > 0
    /\ errs' = [errs EXCEPT ![conn] = @ - 1]
    /\ attached' = FALSE
    /\ main' = "signal"
    /\ UNCHANGED <<conn, cause, dialOption, cancelled, watcher, keepers, ready,
                   routerVars, appDone>>

\* Slip: the signal is sent without regard to the capacity.
MutantSignalDetach ==
    /\ main = "signal"
    /\ detach' = detach + 1
    /\ main' = "cancel"
    /\ UNCHANGED <<conn, cause, dialOption, connVars, router, configs, attached, appDone>>

\* detachChan <- struct{}{} blocks while the channel is full.
SignalDetach ==
    /\ main = "signal"
    /\ detach < DetachCap
    /\ detach' = detach + 1
    /\ main' = "cancel"
    /\ UNCHANGED <<conn, cause, dialOption, connVars, router, configs, attached, appDone>>

\* Slip: the connection is given up without cancelling its goroutines.
MutantCancelConnection ==
    /\ main = "cancel"
    /\ Fail("closed")
    /\ UNCHANGED <<conn, dialOption, connVars, routerVars, attached, appDone>>

\* Slip: the goroutines are not cancelled before the loop goes on.
MutantCancelForgotten ==
    /\ main = "cancel"
    /\ main' = "serve"
    /\ UNCHANGED <<conn, cause, dialOption, connVars, routerVars, attached, appDone>>

CancelConnection ==
    /\ main = "cancel"
    /\ cancelled' = cancelled \cup {conn}
    /\ main' = "serve"
    /\ UNCHANGED <<conn, cause, dialOption, errs, watcher, keepers, ready,
                   routerVars, attached, appDone>>

\* RetryNotify tells Start of the failure and tries again after a delay. An
\* expired certificate is loaded again, and the result stored even when
\* loading failed.
Retry ==
    /\ main = "failed"
    /\ ~appDone
    /\ main' = "dial"
    /\ dialOption' \in IF cause = "expired" THEN {"set", "nil"} ELSE {dialOption}
    /\ UNCHANGED <<conn, cause, connVars, routerVars, attached, appDone>>

\* RetryNotify returns: the context is done or too much time has elapsed.
GiveUp ==
    /\ main = "failed"
    /\ main' = "loop"
    /\ UNCHANGED <<conn, cause, dialOption, connVars, routerVars, attached, appDone>>

--------------------------------------------------------------------------------
(* watchForInstructions of connection n. *)

CheckDone(n) ==
    /\ Up
    /\ watcher[n] = "check"
    /\ watcher' = [watcher EXCEPT ![n] = IF CtxDone(n) THEN "done" ELSE "recv"]
    /\ UNCHANGED <<mainVars, cancelled, errs, keepers, ready, routerVars, attached, appDone>>

\* Recv fails: the stream broke or its context is done.
RecvFails(n) ==
    /\ Up
    /\ watcher[n] = "recv"
    /\ errs[n] < ErrCap
    /\ errs' = [errs EXCEPT ![n] = @ + 1]
    /\ watcher' = [watcher EXCEPT ![n] = "done"]
    /\ UNCHANGED <<mainVars, cancelled, keepers, ready, routerVars, attached, appDone>>

RecvReady(n) ==
    /\ Up
    /\ watcher[n] = "recv"
    /\ ready[n] < MaxReady
    /\ attached' = TRUE
    /\ ready' = [ready EXCEPT ![n] = @ + 1]
    /\ keepers' = [keepers EXCEPT ![n] = @ + 1]
    /\ watcher' = [watcher EXCEPT ![n] = "check"]
    /\ UNCHANGED <<mainVars, cancelled, errs, routerVars, appDone>>

\* ProcessConfigure (or ProcessInstall) is called and runs to its end before
\* the stream is looked at again; test monitors and refreshes return at once.
RecvConfigure(n) ==
    /\ Up
    /\ watcher[n] = "recv"
    /\ watcher' = [watcher EXCEPT ![n] = "configure"]
    /\ UNCHANGED <<mainVars, cancelled, errs, keepers, ready, routerVars, attached, appDone>>

Configured(n) ==
    /\ Up
    /\ watcher[n] = "configure"
    /\ configs' = configs \cup {n}
    /\ watcher' = [watcher EXCEPT ![n] = "check"]
    /\ UNCHANGED <<mainVars, cancelled, errs, keepers, ready, detach, router,
                   attached, appDone>>

--------------------------------------------------------------------------------
(* The sendKeepAlives goroutines of connection n. *)

\* Slip: the goroutine goes on after it reported its error.
MutantKeepAliveFails(n) ==
    /\ Up
    /\ keepers[n] > 0
    /\ errs[n] < ErrCap
    /\ errs' = [errs EXCEPT ![n] = @ + 1]
    /\ UNCHANGED <<mainVars, cancelled, watcher, keepers, ready, routerVars, attached, appDone>>

KeepAliveFails(n) ==
    /\ Up
    /\ keepers[n] > 0
    /\ errs[n] < ErrCap
    /\ errs' = [errs EXCEPT ![n] = @ + 1]
    /\ keepers' = [keepers EXCEPT ![n] = @ - 1]
    /\ UNCHANGED <<mainVars, cancelled, watcher, ready, routerVars, attached, appDone>>

\* Slip: the goroutine does not look at its context.
MutantKeepAliveDone(n) == keepers[n] < 0 /\ UNCHANGED vars

KeepAliveDone(n) ==
    /\ Up
    /\ keepers[n] > 0
    /\ CtxDone(n)
    /\ keepers' = [keepers EXCEPT ![n] = @ - 1]
    /\ UNCHANGED <<mainVars, cancelled, errs, watcher, ready, routerVars, attached, appDone>>

--------------------------------------------------------------------------------
(* The router as the connection sees it, and the end of the application. *)

RouterTakesDetach ==
    /\ Up
    /\ router = "idle"
    /\ detach > 0
    /\ detach' = detach - 1
    /\ router' = "detaching"
    /\ UNCHANGED <<mainVars, connVars, configs, attached, appDone>>

\* All agents are stopped and all configs purged.
RouterPurges ==
    /\ Up
    /\ router = "detaching"
    /\ router' = "idle"
    /\ configs' = {}
    /\ UNCHANGED <<mainVars, connVars, detach, attached, appDone>>

RouterStops ==
    /\ Up
    /\ router = "idle"
    /\ appDone
    /\ router' = "stopped"
    /\ UNCHANGED <<mainVars, connVars, detach, configs, attached, appDone>>

Shutdown ==
    /\ Up
    /\ ~appDone
    /\ appDone' = TRUE
    /\ UNCHANGED <<mainVars, connVars, routerVars, attached>>

\* The Envoy has panicked, or is about to exit because its context is done.
Ended == (~Up \/ appDone) /\ UNCHANGED vars

--------------------------------------------------------------------------------
MainStep ==
    \/ Loop \/ DialFails \/ Dial \/ DialNil \/ AttachFails
    \/ \E n \in Conn : Attach(n)
    \/ ServeDone \/ ServeError \/ SignalDetach \/ CancelConnection
    \/ Retry \/ GiveUp

WatcherStep(n) ==
    CheckDone(n) \/ RecvFails(n) \/ RecvReady(n) \/ RecvConfigure(n) \/ Configured(n)

KeeperStep(n) == KeepAliveFails(n) \/ KeepAliveDone(n)

RouterStep == RouterTakesDetach \/ RouterPurges \/ RouterStops

Next ==
    \/ MainStep
    \/ \E n \in Conn : WatcherStep(n) \/ KeeperStep(n)
    \/ RouterStep \/ Shutdown \/ Ended

Spec == Init /\ [][Next]_vars

(***************************************************************************)
(* Fairness: the scheduler runs every goroutine that can go on. Recv is    *)
(* only known to return when its context is done. Instructions need not    *)
(* arrive, and one in hand need not return: the download of an agent waits *)
(* for its server without a timeout (agents.go:104), and the instructions  *)
(* of every other connection wait for it (mutetx).                         *)
(***************************************************************************)
Fairness ==
    /\ WF_vars(MainStep)
    /\ \A n \in Conn : /\ WF_vars(CheckDone(n))
                       /\ WF_vars(CtxDone(n) /\ RecvFails(n))
                       /\ WF_vars(KeepAliveDone(n))
    /\ WF_vars(RouterStep)

FairSpec == Spec /\ Fairness

--------------------------------------------------------------------------------
(* Properties. *)

TypeOK ==
    /\ main \in {"loop", "dial", "attach", "serve", "signal", "cancel", "failed",
                 "stopped", "panicked"}
    /\ conn \in Conn \cup {NoConn}
    /\ cause \in {"none", "plain", "expired", "closed"}
    /\ dialOption \in {"set", "nil"}
    /\ attached \in BOOLEAN
    /\ cancelled \subseteq Conn
    /\ errs \in [Conn -> Nat]
    /\ watcher \in [Conn -> {"none", "check", "recv", "configure", "done"}]
    /\ keepers \in [Conn -> Nat]
    /\ ready \in [Conn -> Nat]
    /\ detach \in 0..DetachCap
    /\ router \in {"idle", "detaching", "stopped"}
    /\ configs \subseteq Conn
    /\ appDone \in BOOLEAN

\* The flag that lets PostMetric and PostLogEvent through is only up while the
\* connection is served whose Ambassador said it is ready: no goroutine of an
\* earlier connection can raise it (connection.go, watchForInstructions), as
\* long as an Ambassador says Ready once.
AttachedIsServed ==
    attached /\ ~appDone => main = "serve" /\ ready[conn] > 0 /\ conn \notin cancelled

\* A goroutine never blocks on its connection's errChan: the buffer holds what
\* the watcher and the keep-alive goroutines may still report
\* (connection.go:258).
SendersNeverBlock ==
    \A n \in Conn : Active(n) => errs[n] < ErrCap

\* connection.go:236, "a scope where the go routines for each connection can all
\* be cancelled in one-shot": the goroutines of every connection but the one
\* being served have been told to end.
OneLiveConnection ==
    \A n \in Conn : Active(n) /\ ~CtxDone(n)
                        => n = conn /\ main \in {"serve", "signal", "cancel"}

\* The goroutines of a cancelled connection end, even when several of them
\* report errors that nobody reads any more (connection.go:236): its keep-alives
\* always, the watcher unless it has an instruction in hand that does not return.
CancelledGoroutinesEnd ==
    \A n \in Conn :
        /\ n \in cancelled ~> keepers[n] = 0 \/ ~Up
        /\ n \in cancelled ~> ~Watching(n) \/ watcher[n] = "configure" \/ ~Up

\* An error reported on the connection leads to a new attempt to attach, also
\* when the router is slow to take the detach signals.
LostConnectionRedialled ==
    \A n \in Conn :
        (main = "serve" /\ conn = n /\ errs[n] > 0) ~> (main = "dial" \/ appDone \/ ~Up)

\* connection.go:167, "delaying until next attempt": a failed attempt is
\* followed by another one and does not bring down the Envoy.
NoPanic == main # "panicked"

\* agents_router.go:45, "stopping any running agents and purging configuration
\* in order to guarantee a consistent state at attachment": once the detaches
\* are handled, nothing is left of the configs of an earlier attachment.
NoStaleConfigs ==
    attached /\ detach = 0 /\ router = "idle" => configs \subseteq {conn}

\* agents_router.go:45 again: what the purge removes are the configs of the
\* attachment that was terminated, not those of the present one.
PurgeSparesCurrent ==
    [][attached /\ conn \in configs => conn \in configs']_vars

--------------------------------------------------------------------------------
(***************************************************************************)
(* The inductive invariant behind AttachedIsServed, SendersNeverBlock and  *)
(* OneLiveConnection.                                                      *)
(***************************************************************************)

\* What the goroutines of a connection have reported and may still report is
\* bounded by how many of them were started.
ErrorBudget ==
    \A n \in Conn :
        /\ ready[n] <= MaxReady
        /\ errs[n] + keepers[n] + (IF Watching(n) THEN 1 ELSE 0) <= 1 + ready[n]

\* attach() serves a connection that exists.
ServedExists == main \in {"serve", "signal", "cancel"} => conn \in Conn

\* Before its first Ready a connection has no goroutine but its watcher, so that
\* nobody gives it up while the watcher still may raise the flag.
SilentUntilReady ==
    \A n \in Conn : Watching(n) /\ ready[n] = 0 =>
        /\ n \notin cancelled
        /\ ~(n = conn /\ main \in {"signal", "cancel"})

IndInv ==
    /\ TypeOK
    /\ ErrorBudget
    /\ ServedExists
    /\ SilentUntilReady
    /\ OneLiveConnection

================================================================================
