------------------------------ MODULE Lifecycle ------------------------------
(***************************************************************************)
(* One life of the relay process: run() and shutdown() of                  *)
(* cmd/relay/main.go, with the two servers it starts and the SMTP          *)
(* connections it has open.  The main goroutine, the two Serve goroutines, *)
(* the connections, the operator's signals and the clock interleave.       *)
(*                                                                         *)
(* Of a connection only what shutdown waits for is kept: whether it is     *)
(* open, and how long the Send it is in has been running (SmtpSession and  *)
(* SendLoop model the rest).  Time passes in units while the process       *)
(* serves or drains.                                                       *)
(***************************************************************************)
EXTENDS Naturals, Sequences

CONSTANTS
    Conns,          \* the connections clients make
    SendTimeout,    \* sendTimeout of session.go
    ShutdownGrace   \* shutdownGrace of main.go

ASSUME LifecycleAssumption ==
    /\ SendTimeout \in Nat \ {0}
    /\ ShutdownGrace \in Nat \ {0}

Servers == {"smtp", "health"}

VARIABLES
    phase,      \* where the main goroutine is
    exit,       \* "running", then the exit status "ok" or "error", or "killed"
    code,       \* the exit status run() will return once it has shut down
    signalled,  \* SIGTERM or SIGINT has arrived
    listener,   \* per server: "unbound", "bound", "serving", "closing" (shut
                \* down, Serve yet to return), "closed"; or why its Serve
                \* returned by itself: "broken", or "ended" without a failure
    serveErr,   \* the channel of that name: why a Serve returned
    grace,      \* time used up since shutdown began
    conn,       \* per connection: "none", "idle", "sending"
    age         \* per connection: how long its Send has been running

mainVars == <<phase, exit, code>>
connVars == <<conn, age>>
vars == <<mainVars, signalled, listener, serveErr, grace, connVars>>

Init ==
    /\ phase = "prepare" /\ exit = "running" /\ code = "ok"
    /\ signalled = FALSE
    /\ listener = [s \in Servers |-> "unbound"]
    /\ serveErr = <<>>
    /\ grace = 0
    /\ conn = [c \in Conns |-> "none"] /\ age = [c \in Conns |-> 0]

Running == exit = "running"
Sending == {c \in Conns : conn[c] = "sending"}

Exit(status) ==
    /\ exit' = status
    /\ phase' = "gone"
    /\ conn' = [c \in Conns |-> "none"] /\ age' = [c \in Conns |-> 0]

-----------------------------------------------------------------------------
(* config.Load, logging.New, buildSender, buildTLS, smtpserver.New and     *)
(* health.New, then signal.NotifyContext.  Any of them but the last two    *)
(* may fail, and run returns its error.                                    *)
Prepare ==
    /\ Running /\ phase = "prepare"
    /\ phase' = "listenSMTP"
    /\ UNCHANGED <<exit, code, signalled, listener, serveErr, grace, connVars>>

PrepareFails ==
    /\ Running /\ phase = "prepare"
    /\ Exit("error")
    /\ UNCHANGED <<code, signalled, listener, serveErr, grace>>

(* Mutant of ListenSMTP: the SMTP port is served as soon as it is bound. *)
ListenSMTPServing ==
    /\ Running /\ phase = "listenSMTP"
    /\ listener' = [listener EXCEPT !["smtp"] = "serving"]
    /\ phase' = "listenHealth"
    /\ UNCHANGED <<exit, code, signalled, serveErr, grace, connVars>>

(* The two Listens.  A signal that arrives meanwhile may fail either.      *)
ListenSMTP ==
    /\ Running /\ phase = "listenSMTP"
    /\ listener' = [listener EXCEPT !["smtp"] = "bound"]
    /\ phase' = "listenHealth"
    /\ UNCHANGED <<exit, code, signalled, serveErr, grace, connVars>>

ListenSMTPFails ==
    /\ Running /\ phase = "listenSMTP"
    /\ Exit("error")
    /\ UNCHANGED <<code, signalled, listener, serveErr, grace>>

ListenHealth ==
    /\ Running /\ phase = "listenHealth"
    /\ listener' = [listener EXCEPT !["health"] = "bound"]
    /\ phase' = "select"
    /\ UNCHANGED <<exit, code, signalled, serveErr, grace, connVars>>

ListenHealthFails ==
    /\ Running /\ phase = "listenHealth"
    /\ listener' = [listener EXCEPT !["smtp"] = "closed"]
    /\ Exit("error")
    /\ UNCHANGED <<code, signalled, serveErr, grace>>

-----------------------------------------------------------------------------
(* The goroutines: Serve starts some time after they are spawned, returns  *)
(* by itself when its listener breaks or ends, and once its server is shut *)
(* down; either way it reports to serveErr.                                *)
Serve(s) ==
    /\ Running /\ phase \in {"select", "drainSMTP", "drainHealth"}
    /\ listener[s] = "bound"
    /\ listener' = [listener EXCEPT ![s] = "serving"]
    /\ UNCHANGED <<mainVars, signalled, serveErr, grace, connVars>>

(* Mutant of ServeReturns: every failed accept is reported. *)
ServeReports(s, why) ==
    /\ Running
    /\ listener[s] = "serving"
    /\ serveErr' = Append(serveErr, why)
    /\ UNCHANGED <<mainVars, signalled, listener, grace, connVars>>

ServeReturns(s, why) ==
    /\ Running
    /\ listener[s] = "serving"
    /\ listener' = [listener EXCEPT ![s] = why]
    /\ serveErr' = Append(serveErr, why)
    /\ UNCHANGED <<mainVars, signalled, grace, connVars>>

ServeStops(s) ==
    /\ Running
    /\ listener[s] = "closing"
    /\ listener' = [listener EXCEPT ![s] = "closed"]
    /\ serveErr' = Append(serveErr, "ended")
    /\ UNCHANGED <<mainVars, signalled, grace, connVars>>

(* SIGTERM or SIGINT.  Before NotifyContext it ends the process; further   *)
(* ones change nothing.                                                    *)
Signal ==
    /\ Running
    /\ signalled' = TRUE
    /\ IF phase = "prepare"
       THEN Exit("killed") /\ UNCHANGED <<code, listener, serveErr, grace>>
       ELSE UNCHANGED <<mainVars, listener, serveErr, grace, connVars>>

(* SIGKILL, or the machine goes down. *)
Kill ==
    /\ Running
    /\ Exit("killed")
    /\ UNCHANGED <<code, signalled, listener, serveErr, grace>>

-----------------------------------------------------------------------------
Close(s) == IF listener[s] \in {"bound", "serving"} THEN "closing" ELSE listener[s]

(* Mutant of Shutdown: both servers are closed before either is drained. *)
ShutdownBoth(status) ==
    /\ phase' = "drainSMTP"
    /\ code' = status
    /\ listener' = [s \in Servers |-> Close(s)]
    /\ UNCHANGED <<exit, signalled, grace, connVars>>

(* shutdown begins: smtpSrv.Shutdown closes the SMTP port at once, then    *)
(* waits for the connections to end.                                       *)
Shutdown(status) ==
    /\ phase' = "drainSMTP"
    /\ code' = status
    /\ listener' = [listener EXCEPT !["smtp"] = Close("smtp")]
    /\ UNCHANGED <<exit, signalled, grace, connVars>>

(* The select of run: with a signal and an error both there, either case.  *)
SelectSignal ==
    /\ Running /\ phase = "select"
    /\ signalled
    /\ Shutdown("ok")
    /\ UNCHANGED serveErr

(* Mutant of SelectError: the reason is logged, not returned. *)
SelectErrorDropped ==
    /\ Running /\ phase = "select"
    /\ serveErr # <<>>
    /\ serveErr' = Tail(serveErr)
    /\ Shutdown("ok")

(* An error that only says the server was closed is no failure. *)
SelectError ==
    /\ Running /\ phase = "select"
    /\ serveErr # <<>>
    /\ serveErr' = Tail(serveErr)
    /\ Shutdown(IF Head(serveErr) = "ended" THEN "ok" ELSE "error")

(* healthSrv.Shutdown closes the health port. *)
ShutdownHealth ==
    /\ listener' = [listener EXCEPT !["health"] = Close("health")]
    /\ phase' = "drainHealth"
    /\ UNCHANGED <<exit, code, signalled, serveErr, grace, connVars>>

(* Mutants of SMTPDrained: the grace is not waited for; only the           *)
(* connections are.                                                        *)
SMTPNotDrained == Running /\ phase = "drainSMTP" /\ ShutdownHealth

SMTPDrainedByClients ==
    /\ Running /\ phase = "drainSMTP"
    /\ \A c \in Conns : conn[c] = "none"
    /\ ShutdownHealth

(* smtpSrv.Shutdown returns: no connection is left, not even an idle one,  *)
(* or the grace is over.                                                   *)
SMTPDrained ==
    /\ Running /\ phase = "drainSMTP"
    /\ (\A c \in Conns : conn[c] = "none") \/ grace = ShutdownGrace
    /\ ShutdownHealth

(* Both are down: run returns and the process ends, whatever still runs.   *)
RunReturns ==
    /\ Running /\ phase = "drainHealth"
    /\ Exit(code)
    /\ UNCHANGED <<code, signalled, listener, serveErr, grace>>

-----------------------------------------------------------------------------
(* The connections.  One that is open goes on being served while the SMTP  *)
(* server drains: it may begin another transaction.                        *)
Connect(c) ==
    /\ Running
    /\ listener["smtp"] = "serving"
    /\ conn[c] = "none"
    /\ conn' = [conn EXCEPT ![c] = "idle"]
    /\ UNCHANGED <<mainVars, signalled, listener, serveErr, grace, age>>

BeginSend(c) ==
    /\ Running
    /\ conn[c] = "idle"
    /\ conn' = [conn EXCEPT ![c] = "sending"]
    /\ UNCHANGED <<mainVars, signalled, listener, serveErr, grace, age>>

EndSend(c) ==
    /\ Running
    /\ conn[c] = "sending"
    /\ conn' = [conn EXCEPT ![c] = "idle"]
    /\ age' = [age EXCEPT ![c] = 0]
    /\ UNCHANGED <<mainVars, signalled, listener, serveErr, grace>>

Leave(c) ==
    /\ Running
    /\ conn[c] = "idle"
    /\ conn' = [conn EXCEPT ![c] = "none"]
    /\ UNCHANGED <<mainVars, signalled, listener, serveErr, grace, age>>

(* Time passes, but not beyond a deadline: a Send returns by its own, and  *)
(* Shutdown by the grace.                                                  *)
Tick ==
    /\ Running
    /\ \/ phase = "select" /\ UNCHANGED grace
       \/ phase = "drainSMTP" /\ grace < ShutdownGrace /\ grace' = grace + 1
    /\ \A c \in Sending : age[c] < SendTimeout
    /\ age' = [c \in Conns |-> IF c \in Sending THEN age[c] + 1 ELSE 0]
    /\ UNCHANGED <<mainVars, signalled, listener, serveErr, conn>>

MainStep ==
    \/ Prepare \/ PrepareFails
    \/ ListenSMTP \/ ListenSMTPFails
    \/ ListenHealth \/ ListenHealthFails
    \/ SelectSignal \/ SelectError
    \/ SMTPDrained \/ RunReturns

Next ==
    \/ MainStep
    \/ \E s \in Servers : Serve(s) \/ ServeStops(s)
    \/ \E s \in Servers, why \in {"broken", "ended"} : ServeReturns(s, why)
    \/ Signal \/ Kill
    \/ \E c \in Conns : Connect(c) \/ BeginSend(c) \/ EndSend(c) \/ Leave(c)
    \/ Tick

Spec == Init /\ [][Next]_vars

(* The main goroutine runs, time passes, and a Send ends                   *)
(* (SendLoop!Termination); clients and operators do as they please.        *)
FairSpec ==
    /\ Spec
    /\ WF_vars(MainStep)
    /\ WF_vars(Tick)
    /\ \A c \in Conns : WF_vars(EndSend(c))
-----------------------------------------------------------------------------
(* PROPERTIES *)

(* The values every variable keeps; the channel never needs more than the  *)
(* two places it has, so no Serve goroutine blocks on it.                  *)
TypeOK ==
    /\ phase \in {"prepare", "listenSMTP", "listenHealth", "select",
                  "drainSMTP", "drainHealth", "gone"}
    /\ exit \in {"running", "ok", "error", "killed"}
    /\ code \in {"ok", "error"}
    /\ signalled \in BOOLEAN
    /\ listener \in [Servers -> {"unbound", "bound", "serving", "closing",
                             "closed", "broken", "ended"}]
    /\ serveErr \in Seq({"broken", "ended"})
    /\ Len(serveErr) <= 2
    /\ grace \in 0..ShutdownGrace
    /\ conn \in [Conns -> {"none", "idle", "sending"}]
    /\ age \in [Conns -> 0..SendTimeout]

(* "Bind both listeners before serving, so a port conflict fails startup   *)
(* loudly instead of leaving the process half-up" (main.go:136-137): no    *)
(* client is ever connected to a relay whose health port is not bound.     *)
NeverHalfUp ==
    (\E c \in Conns : conn[c] # "none") => listener["health"] # "unbound"

(* While transactions are drained the health endpoint still answers, so    *)
(* that nobody takes the process for gone and kills it (main.go:181-183).  *)
HealthOutlivesTransactions ==
    Running /\ listener["health"] \in {"closing", "closed"} =>
        Sending = {} \/ grace = ShutdownGrace

(* The exit status, which the container's restart policy acts on, is the   *)
(* truth in every order of signals and failures: "ok" was asked for by a   *)
(* signal or follows a server that ended, "error" follows a listener that  *)
(* broke, or a startup that failed ("report why", main.go:165-170).        *)
ExitTellsWhy ==
    /\ exit = "ok" /\ ~signalled => \E s \in Servers : listener[s] = "ended"
    /\ exit = "error" => \/ \E s \in Servers : listener[s] = "broken"
                        \/ listener["health"] = "unbound"

(* A signal or a broken listener ends the process, whatever the clients    *)
(* that are connected do: none can keep it up beyond the grace.            *)
Stops ==
    /\ signalled ~> ~Running
    /\ (\E s \in Servers : listener[s] \in {"broken", "ended"}) ~> ~Running
=============================================================================
