----------------------------- MODULE Submission -----------------------------
(***************************************************************************)
(* What a client that submits a message again and again until it is told   *)
(* may rely on, through lost answers, deferrals, disconnections and        *)
(* restarts of the relay: at-least-once delivery.  It is told "sent" only  *)
(* of a copy that was taken, and every copy beyond that one comes from a   *)
(* doubt, a request whose fate nobody told it.  Relay implements it.       *)
(***************************************************************************)
EXTENDS Naturals

VARIABLES
    outcome,   \* "pending", then what the client was told for good
    copies,    \* copies of the message the upstream has taken
    doubts     \* requests that may have left a copy nobody was told of

vars == <<outcome, copies, doubts>>

Init == outcome = "pending" /\ copies = 0 /\ doubts = 0

(* Doubts arise together when the process dies, and even after the client  *)
(* has its answer, from a submission it gave up waiting for.               *)
Doubt ==
    /\ doubts' \in Nat /\ doubts' > doubts
    /\ copies' \in copies..(copies + (doubts' - doubts))
    /\ UNCHANGED outcome

Accept ==
    /\ outcome = "pending" /\ outcome' = "sent"
    /\ copies' = copies + 1
    /\ UNCHANGED doubts

Bounce ==
    /\ outcome = "pending" /\ outcome' = "bounced"
    /\ UNCHANGED <<copies, doubts>>

Next == Doubt \/ Accept \/ Bounce

Spec == Init /\ [][Next]_vars
=============================================================================
