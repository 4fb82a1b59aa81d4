--------------------------- MODULE LifecycleProofs ---------------------------
(***************************************************************************)
(* The safety of one life of the process, for any number of connections,   *)
(* any deadline of a Send and any grace.  Each property needs to know what *)
(* the phase of the main goroutine says about the listeners and what they  *)
(* have reported: the inductive invariant says it phase by phase.          *)
(***************************************************************************)
EXTENDS Lifecycle, TLAPS

Draining == {"drainSMTP", "drainHealth"}
Before   == {"prepare", "listenSMTP", "listenHealth"}

(* No Serve reports twice: there are no more reports than servers that     *)
(* have reason to have made one.                                           *)
Reports(s) == IF listener[s] \in {"closed", "broken", "ended"} THEN 1 ELSE 0

ReportsBounded == Len(serveErr) <= Reports("smtp") + Reports("health")

(* Until both listeners are bound nothing is served. *)
BeforeServing ==
    phase \in Before =>
        /\ listener["smtp"] = IF phase = "listenHealth" THEN "bound" ELSE "unbound"
        /\ listener["health"] = "unbound"
        /\ serveErr = <<>> /\ code = "ok"
        /\ \A c \in Conns : conn[c] = "none"

(* While it serves, what is reported is what happened to a listener. *)
Serving ==
    phase = "select" =>
        /\ \A s \in Servers : listener[s] \in {"bound", "serving", "broken", "ended"}
        /\ \A i \in 1..Len(serveErr) : \E s \in Servers : listener[s] = serveErr[i]

(* A shutdown has its reason, the SMTP port is closed, and the health port *)
(* is closed only once the connections are gone or the grace is over.      *)
ShuttingDown ==
    phase \in Draining =>
        /\ code = "ok" => signalled \/ \E s \in Servers : listener[s] = "ended"
        /\ code = "error" => \E s \in Servers : listener[s] = "broken"
        /\ listener["smtp"] \in {"closing", "closed", "broken", "ended"}
        /\ listener["health"] # "unbound"
        /\ phase = "drainSMTP" => listener["health"] \notin {"closing", "closed"}
        /\ phase = "drainHealth" =>
              (\A c \in Conns : conn[c] = "none") \/ grace = ShutdownGrace

Gone ==
    /\ phase = "gone" <=> ~Running
    /\ ~Running => \A c \in Conns : conn[c] = "none"

Safety == NeverHalfUp /\ ExitTellsWhy

IInv ==
    /\ TypeOK /\ ReportsBounded
    /\ BeforeServing /\ Serving /\ ShuttingDown /\ Gone
    /\ Safety

-----------------------------------------------------------------------------
(* The steps below all speak of the whole invariant, so it is expanded for them. *)
USE LifecycleAssumption
    DEF IInv, TypeOK, ReportsBounded, Reports, BeforeServing, Serving,
           ShuttingDown, Gone, Safety, NeverHalfUp, ExitTellsWhy, Before,
           Draining, Running, Servers, mainVars, connVars

(* A process that is about to start, for the first time or again. *)
Starting ==
    /\ phase = "prepare" /\ exit = "running" /\ code = "ok"
    /\ signalled = FALSE
    /\ listener = [s \in Servers |-> "unbound"]
    /\ serveErr = <<>> /\ grace = 0
    /\ conn = [c \in Conns |-> "none"] /\ age \in [Conns -> 0..SendTimeout]

LEMMA StartLemma == Starting => IInv
<1> SUFFICES ASSUME Starting PROVE IInv
  OBVIOUS
<1> USE DEF Starting
<1>1. serveErr = <<>> /\ Len(serveErr) = 0 /\ serveErr \in Seq({"broken", "ended"})
  OBVIOUS
<1>2. /\ \A s \in Servers : listener[s] = "unbound"
      /\ \A c \in Conns : conn[c] = "none"
  OBVIOUS
<1>3. TypeOK
  <2>1. grace \in 0..ShutdownGrace
    OBVIOUS
  <2>2. /\ listener \in [Servers -> {"unbound", "bound", "serving", "closing",
                                    "closed", "broken", "ended"}]
        /\ conn \in [Conns -> {"none", "idle", "sending"}]
    OBVIOUS
  <2>3. Len(serveErr) <= 2
    BY <1>1
  <2> QED BY <1>1, <2>1, <2>2, <2>3
<1>4. ReportsBounded
  <2>1. Reports("smtp") = 0 /\ Reports("health") = 0
    BY <1>2
  <2> QED BY <1>1, <2>1
<1>5. BeforeServing /\ Gone /\ Safety
  BY <1>1, <1>2
<1>6. Serving /\ ShuttingDown
  OBVIOUS
<1> QED BY <1>3, <1>4, <1>5, <1>6

LEMMA InitLemma == Init => IInv
<1>1. Init => Starting
  BY DEF Init, Starting
<1> QED BY <1>1, StartLemma

(* What each step does to the phase and its listeners keeps the invariant. *)
LEMMA StepLemma == IInv /\ [Next]_vars => IInv'
<1> SUFFICES ASSUME IInv, [Next]_vars PROVE IInv'
  OBVIOUS
<1>1. CASE Prepare
  BY <1>1 DEF Prepare
<1>2. CASE PrepareFails
  BY <1>2 DEF PrepareFails, Exit
<1>3. CASE ListenSMTP
  BY <1>3 DEF ListenSMTP
<1>4. CASE ListenSMTPFails
  BY <1>4 DEF ListenSMTPFails, Exit
<1>5. CASE ListenHealth
  BY <1>5 DEF ListenHealth
<1>6. CASE ListenHealthFails
  BY <1>6 DEF ListenHealthFails, Exit
<1>7. CASE SelectSignal
  BY <1>7 DEF SelectSignal, Shutdown, Close
<1>8. CASE SelectError
  BY <1>8 DEF SelectError, Shutdown, Close
<1>9. CASE SMTPDrained
  BY <1>9 DEF SMTPDrained, ShutdownHealth, Close
<1>10. CASE RunReturns
  BY <1>10 DEF RunReturns, Exit
<1>11. CASE Signal
  BY <1>11 DEF Signal, Exit
<1>12. CASE Kill
  BY <1>12 DEF Kill, Exit
<1>13. CASE Tick
  BY <1>13 DEF Tick, Sending
<1>14. ASSUME NEW s \in Servers, Serve(s) PROVE IInv'
  BY <1>14 DEF Serve
<1>15. ASSUME NEW s \in Servers, ServeStops(s) PROVE IInv'
  BY <1>15 DEF ServeStops
<1>16. ASSUME NEW s \in Servers, NEW why \in {"broken", "ended"}, ServeReturns(s, why) PROVE IInv'
  BY <1>16 DEF ServeReturns
<1>17. ASSUME NEW c \in Conns, Connect(c) PROVE IInv'
  BY <1>17 DEF Connect
<1>18. ASSUME NEW c \in Conns, BeginSend(c) PROVE IInv'
  BY <1>18 DEF BeginSend
<1>19. ASSUME NEW c \in Conns, EndSend(c) PROVE IInv'
  BY <1>19 DEF EndSend
<1>20. ASSUME NEW c \in Conns, Leave(c) PROVE IInv'
  BY <1>20 DEF Leave
<1>21. CASE UNCHANGED vars
  BY <1>21 DEF vars
<1> QED BY <1>1, <1>2, <1>3, <1>4, <1>5, <1>6, <1>7, <1>8, <1>9, <1>10,
      <1>11, <1>12, <1>13, <1>14, <1>15, <1>16, <1>17, <1>18, <1>19, <1>20, <1>21 DEF Next, MainStep

USE DEF HealthOutlivesTransactions, Sending

LEMMA IInvProperties ==
    IInv => TypeOK /\ NeverHalfUp /\ HealthOutlivesTransactions /\ ExitTellsWhy
OBVIOUS

HIDE DEF IInv, TypeOK, NeverHalfUp, HealthOutlivesTransactions, ExitTellsWhy

(* IInv is an invariant of a life of the process. *)
THEOREM Invariance == Spec => []IInv
BY InitLemma, StepLemma, PTL DEF Spec

-----------------------------------------------------------------------------
(* Every variable keeps its type; in particular the channel serveErr never *)
(* needs a third place, so no Serve goroutine is ever blocked on it.       *)
THEOREM TypeCorrect == Spec => []TypeOK
BY Invariance, IInvProperties, PTL

(* No client is connected to a relay whose health port is not bound.       *)
THEOREM BothOrNeither == Spec => []NeverHalfUp
BY Invariance, IInvProperties, PTL

(* The health port is only closed once no Send is under way, or the grace  *)
(* is over.                                                                *)
THEOREM HealthGoesLast == Spec => []HealthOutlivesTransactions
BY Invariance, IInvProperties, PTL

(* The exit status has its reason, whatever comes together.                *)
THEOREM ExitCorrect == Spec => []ExitTellsWhy
BY Invariance, IInvProperties, PTL
=============================================================================
