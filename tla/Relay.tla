-------------------------------- MODULE Relay --------------------------------
(***************************************************************************)
(* The relay seen from one client with one message: the life of the        *)
(* process (Lifecycle), the Send in progress on each connection (as        *)
(* Delivery describes it), and the client, which submits the message again *)
(* when it is deferred, when its connection breaks, or when it is tired of *)
(* waiting; docker starts the process again when it has ended              *)
(* (docker-compose.yml, "restart: unless-stopped").                        *)
(*                                                                         *)
(* Data calls Send with a context of its own (session.go:217), so a Send   *)
(* whose client is gone runs on, and only the end of the process cuts it   *)
(* short.  The relay keeps nothing: it cannot know a message it has seen.  *)
(***************************************************************************)
EXTENDS Lifecycle, FiniteSets

CONSTANTS
    MaxRequests,   \* CLOUDFLARE_MAX_RETRIES + 1
    MaxTries,      \* bound: how often the client submits
    MaxRestarts,   \* bound: how often the process is started again
    None

ASSUME RelayAssumption ==
    /\ MaxRequests \in Nat \ {0}
    /\ MaxTries \in Nat /\ MaxRestarts \in Nat
    /\ IsFiniteSet(Conns) /\ None \notin Conns

VARIABLES
    via,        \* the connection the client waits on for its answer, or None
    tries,      \* how often it has submitted
    lost,       \* per connection: requests of its Send whose answer was lost
    restarts,   \* how often the process was started again
    outcome, copies, doubts  \* as in Submission

clientVars == <<via, tries, lost, outcome, copies, doubts>>
relayVars  == <<vars, restarts, clientVars>>

RelayInit ==
    /\ Init
    /\ via = None /\ tries = 0
    /\ lost = [c \in Conns |-> 0]
    /\ restarts = 0
    /\ outcome = "pending" /\ copies = 0 /\ doubts = 0

-----------------------------------------------------------------------------
(* n requests may each have left a copy. *)
Doubt(n) ==
    /\ doubts' = doubts + n
    /\ copies' \in copies..(copies + n)

(* The client. *)
Submit(c) ==
    /\ outcome = "pending" /\ via = None
    /\ tries < MaxTries
    /\ BeginSend(c)
    /\ via' = c /\ tries' = tries + 1
    /\ lost' = [lost EXCEPT ![c] = 0]
    /\ UNCHANGED <<restarts, outcome, copies, doubts>>

(* It stops waiting for the reply to DATA: its own timeout, or its         *)
(* connection broke.  The server does not look at it before Send returns.  *)
Abandon ==
    /\ via # None
    /\ via' = None
    /\ UNCHANGED <<vars, restarts, tries, lost, outcome, copies, doubts>>

-----------------------------------------------------------------------------
(* The Send on connection c. *)
(* Mutant of LoseAnswer: the attempts are counted one too many. *)
LoseAnswerOnceMore(c) ==
    /\ Running /\ conn[c] = "sending"
    /\ lost[c] <= MaxRequests
    /\ lost' = [lost EXCEPT ![c] = @ + 1]
    /\ Doubt(1)
    /\ UNCHANGED <<vars, restarts, via, tries, outcome>>

(* A request leaves a copy or not, and its answer does not arrive.         *)
LoseAnswer(c) ==
    /\ Running /\ conn[c] = "sending"
    /\ lost[c] < MaxRequests
    /\ lost' = [lost EXCEPT ![c] = @ + 1]
    /\ Doubt(1)
    /\ UNCHANGED <<vars, restarts, via, tries, outcome>>

(* The upstream takes the message; the client is told, if it still waits.  *)
SendSucceeds(c) ==
    /\ EndSend(c)
    /\ lost[c] < MaxRequests
    /\ IF via = c
       THEN /\ outcome' = "sent" /\ copies' = copies + 1
            /\ via' = None
            /\ UNCHANGED doubts
       ELSE /\ doubts' = doubts + 1 /\ copies' = copies + 1
            /\ UNCHANGED <<via, outcome>>
    /\ UNCHANGED <<restarts, tries, lost>>

(* Mutant of SendFails: losing the last answer is reported as success. *)
SendFailsAsSent(c) ==
    /\ EndSend(c)
    /\ IF via = c
       THEN /\ outcome' = IF lost[c] = MaxRequests THEN "sent" ELSE outcome
            /\ via' = None
       ELSE UNCHANGED <<via, outcome>>
    /\ UNCHANGED <<restarts, tries, lost, copies, doubts>>

(* It fails: a client that was deferred may submit again, one that was     *)
(* rejected bounces the message.                                           *)
SendFails(c) ==
    /\ EndSend(c)
    /\ IF via = c
       THEN outcome' \in {outcome, "bounced"} /\ via' = None
       ELSE UNCHANGED <<via, outcome>>
    /\ UNCHANGED <<restarts, tries, lost, copies, doubts>>

-----------------------------------------------------------------------------
(* The process.  When it ends, the requests under way may still be taken.  *)
CutShort ==
    /\ \E n \in 0..Cardinality({c \in Sending : lost[c] < MaxRequests}) : Doubt(n)
    /\ via' = None
    /\ lost' = [c \in Conns |-> 0]
    /\ UNCHANGED <<tries, outcome>>

LifeStep ==
    \/ MainStep
    \/ \E s \in Servers : Serve(s) \/ ServeStops(s)
    \/ \E s \in Servers, why \in {"broken", "ended"} : ServeReturns(s, why)
    \/ Signal \/ Kill \/ Tick
    \/ \E c \in Conns : Connect(c) \/ Leave(c)

Live ==
    /\ LifeStep
    /\ IF exit' = "running" THEN UNCHANGED clientVars ELSE CutShort
    /\ UNCHANGED restarts

Restart ==
    /\ ~Running
    /\ restarts < MaxRestarts
    /\ restarts' = restarts + 1
    /\ phase' = "prepare" /\ exit' = "running" /\ code' = "ok"
    /\ signalled' = FALSE
    /\ listener' = [s \in Servers |-> "unbound"]
    /\ serveErr' = <<>> /\ grace' = 0
    /\ UNCHANGED <<connVars, clientVars>>

RelayNext ==
    \/ Live \/ Restart \/ Abandon
    \/ \E c \in Conns :
        Submit(c) \/ LoseAnswer(c) \/ SendSucceeds(c) \/ SendFails(c)

RelaySpec == RelayInit /\ [][RelayNext]_relayVars
-----------------------------------------------------------------------------
(* PROPERTIES *)

RelayTypeOK ==
    /\ TypeOK
    /\ via \in Conns \cup {None}
    /\ via # None => Running /\ conn[via] = "sending"
    /\ tries \in 0..MaxTries /\ restarts \in 0..MaxRestarts
    /\ lost \in [Conns -> 0..MaxRequests]
    /\ outcome \in {"pending", "sent", "bounced"}
    /\ copies \in Nat /\ doubts \in Nat

(* End to end, over every retry of relay and client and every death of the *)
(* process: "sent" is only said of a message that was taken, and each copy *)
(* too many can be laid to one request whose fate the client was not told. *)
CopiesExplained ==
    /\ outcome # "sent" => copies <= doubts
    /\ outcome = "sent" => copies \in 1..(doubts + 1)

(* However it ends, a message is never taken more often than the client    *)
(* submitted it times the requests one Send may make.                      *)
CopiesBounded == copies <= tries * MaxRequests

(* The end of the process leaves a submission in doubt only if it was      *)
(* killed, or if the whole grace was not enough for a Send under way       *)
(* (main.go:181-183), even one whose client has long gone.                 *)
StopLeavesNoDoubt ==
    [][Running /\ exit' \in {"ok", "error"} /\ doubts' # doubts =>
         grace = ShutdownGrace]_relayVars

(* The relay, with all its restarts, is at-least-once submission.          *)
AtLeastOnce == INSTANCE Submission

ImplementsSubmission == AtLeastOnce!Spec
=============================================================================
