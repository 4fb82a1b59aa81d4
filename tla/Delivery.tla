------------------------------ MODULE Delivery ------------------------------
(***************************************************************************)
(* What one call of email.Sender.Send promises its caller, whatever the    *)
(* adapter does inside: at most MaxRequests copies of the message leave    *)
(* the relay, a copy may be accepted upstream without the relay learning   *)
(* of it, "sent" is only ever said of an accepted message, and a verdict   *)
(* is final.  SendLoop implements it; SmtpSession builds on it.            *)
(***************************************************************************)
EXTENDS Naturals

CONSTANT MaxRequests   \* a positive number

VARIABLES
    verdict,     \* "pending" until Send returns, then what it returned
    accepted,    \* copies of the message the upstream has taken
    unanswered   \* requests whose answer the relay could not read

vars == <<verdict, accepted, unanswered>>

Verdicts == {"sent", "deferred", "rejected"}

Init == verdict = "pending" /\ accepted = 0 /\ unanswered = 0

(* A request whose answer is lost: its copy may or may not be accepted. *)
LoseAnswer ==
    /\ verdict = "pending"
    /\ unanswered < MaxRequests
    /\ unanswered' = unanswered + 1
    /\ accepted' \in {accepted, accepted + 1}
    /\ UNCHANGED verdict

(* The upstream says it took the message; the call returns success. *)
Succeed ==
    /\ verdict = "pending"
    /\ unanswered < MaxRequests
    /\ verdict' = "sent"
    /\ accepted' = accepted + 1
    /\ UNCHANGED unanswered

(* The call returns a classified error; nothing leaves the relay then. *)
Fail ==
    /\ verdict = "pending"
    /\ verdict' \in {"deferred", "rejected"}
    /\ UNCHANGED <<accepted, unanswered>>

Next == LoseAnswer \/ Succeed \/ Fail

Spec == Init /\ [][Next]_vars
=============================================================================
