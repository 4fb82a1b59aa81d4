------------------------------ MODULE MailWorker ------------------------------
(***************************************************************************)
(* One call of Data over the Worker transport, from the message it has     *)
(* read to its verdict: the parse (Parsing), and one call of Send with the *)
(* Worker it talks to, worker/src/index.js, which checks a request, hands  *)
(* the message to the send_email binding and answers in codes that         *)
(* worker.go and, where it does not know them, classify.go turn into the   *)
(* client's reply.                                                         *)
(*                                                                         *)
(* The relay stops waiting for a request, and may send the next, while the *)
(* invocation the first one started still runs: invocations overlap, and   *)
(* outlive the call.  Deadlines are SendLoop's business; here the relay    *)
(* may stop waiting, and stop retrying, at any moment.                     *)
(***************************************************************************)
EXTENDS Parsing

CONSTANT MaxRequests   \* CLOUDFLARE_MAX_RETRIES + 1

Requests == 1..MaxRequests

ASSUME MailWorkerAssumption == MaxRequests \in Nat \ {0}

Relay == INSTANCE Classification WITH Transport <- "worker"

VARIABLES
    secret,      \* the Worker's RELAY_SECRET: "unset", "ours", "other"
    invocation,  \* per request: "none", "received", "sending", "over"
    response,    \* per request: what the Worker answered
    taken,       \* requests whose message the binding took
    requests,    \* requests the relay has sent
    waiting,     \* it waits for the answer of the last of them
    heard,       \* requests whose answer it has read
    verdict      \* what the client is told, as in Delivery

workerVars == <<invocation, response, taken>>
relayVars  == <<requests, waiting, heard, verdict>>
vars == <<parseVars, secret, workerVars, relayVars>>

Answer(status, body) == [status |-> status, body |-> body]
Refusal(status, code) == Answer(status, Relay!Failure(code))
NoAnswer   == Answer(0, Relay!Unreadable)
ErrorPage  == Answer(500, Relay!Unreadable)

Init ==
    /\ ParseInit
    /\ secret \in {"unset", "ours", "other"}
    /\ invocation = [i \in Requests |-> "none"]
    /\ response = [i \in Requests |-> NoAnswer]
    /\ taken = {}
    /\ requests = 0 /\ waiting = FALSE /\ heard = {}
    /\ verdict = IF parse = "failed" THEN "rejected" ELSE "pending"

-----------------------------------------------------------------------------
(* The Worker. *)
(* toBindingMessage finds all it needs. *)
Complete ==
    LET message == buildPayload
    IN  /\ message.from /\ message.recipients /\ message.subject
        /\ message.text \/ message.html

(* Mutant of Refusals: credentials are checked where the message is sent. *)
RefusalsUpstream ==
    CASE secret = "unset" -> {Refusal(500, "E_NOT_CONFIGURED")}
      [] secret = "other" -> {Refusal(502, "E_UNAUTHORIZED")}
      [] secret = "ours" /\ mail.big -> {Refusal(413, "E_TOO_BIG")}
      [] secret = "ours" /\ ~mail.big ->
            IF Complete THEN {} ELSE {Refusal(400, "E_INVALID_REQUEST")}

(* The refusal of fetch's checks, in their order; none lets the message    *)
(* pass.  The relay only POSTs, and only JSON, so the two checks of that   *)
(* never fail.                                                             *)
Refusals ==
    CASE secret = "unset" -> {Refusal(500, "E_NOT_CONFIGURED")}
      [] secret = "other" -> {Refusal(401, "E_UNAUTHORIZED")}
      [] secret = "ours" /\ mail.big -> {Refusal(413, "E_TOO_BIG")}
      [] secret = "ours" /\ ~mail.big ->
            IF Complete THEN {} ELSE {Refusal(400, "E_INVALID_REQUEST")}

(* Mutant of statusForCode: whatever it does not know is a bad request. *)
statusBadRequest(code) ==
    CASE code \in Relay!WorkerRateCodes  -> 429
      [] code \in Relay!WorkerPartyCodes -> 403
      [] code \notin Relay!WorkerKnownCodes -> 400

statusForCode(code) ==
    CASE code \in Relay!WorkerRateCodes  -> 429
      [] code \in Relay!WorkerPartyCodes -> 403
      [] code \notin Relay!WorkerKnownCodes -> 502

\* What the binding may throw, with a code of its own or none at all.
BindingCodes == Relay!WorkerKnownCodes \cup {"E_OTHER", "E_SEND_FAILED"}

(* Invocation i is over, having answered. *)
Over(i, answer) ==
    /\ invocation' = [invocation EXCEPT ![i] = "over"]
    /\ response' = [response EXCEPT ![i] = answer]

Refuse(i) ==
    /\ invocation[i] = "received"
    /\ \E answer \in Refusals : Over(i, answer)
    /\ UNCHANGED <<parseVars, secret, taken, relayVars>>

Accept(i) ==
    /\ invocation[i] = "received"
    /\ Refusals = {}
    /\ invocation' = [invocation EXCEPT ![i] = "sending"]
    /\ UNCHANGED <<parseVars, secret, response, taken, relayVars>>

(* env.EMAIL.send resolves, or throws. *)
BindingSends(i) ==
    /\ invocation[i] = "sending"
    /\ taken' = taken \cup {i}
    /\ Over(i, Answer(200, Relay!Success))
    /\ UNCHANGED <<parseVars, secret, relayVars>>

(* Mutant of BindingThrows: the error of the binding is reported as sent   *)
(* when it carries no code.                                                *)
BindingThrowsQuietly(i, code) ==
    /\ invocation[i] = "sending"
    /\ Over(i, IF code = "E_SEND_FAILED" THEN Answer(200, Relay!Success)
               ELSE Refusal(statusForCode(code), code))
    /\ UNCHANGED <<parseVars, secret, taken, relayVars>>

BindingThrows(i, code) ==
    /\ invocation[i] = "sending"
    /\ Over(i, Refusal(statusForCode(code), code))
    /\ UNCHANGED <<parseVars, secret, taken, relayVars>>

(* The platform ends the invocation, before the binding took the message   *)
(* or after, and answers with a page of its own.                           *)
Die(i) ==
    /\ invocation[i] \in {"received", "sending"}
    /\ \/ UNCHANGED taken
       \/ invocation[i] = "sending" /\ taken' = taken \cup {i}
    /\ Over(i, ErrorPage)
    /\ UNCHANGED <<parseVars, secret, relayVars>>

(* The operator deploys the Worker with another secret. *)
Deploy ==
    /\ secret' \in {"unset", "ours", "other"}
    /\ UNCHANGED <<parseVars, workerVars, relayVars>>

-----------------------------------------------------------------------------
(* The relay.  A message that does not parse is refused and never sent. *)
Parse ==
    /\ ParseNext
    /\ verdict' = IF parse' = "failed" THEN "rejected" ELSE verdict
    /\ UNCHANGED <<secret, workerVars, requests, waiting, heard>>

Send ==
    /\ parse = "parsed"
    /\ verdict = "pending" /\ ~waiting
    /\ requests < MaxRequests
    /\ requests' = requests + 1
    /\ waiting' = TRUE
    /\ invocation' = [invocation EXCEPT ![requests'] = "received"]
    /\ UNCHANGED <<parseVars, secret, response, taken, heard, verdict>>

(* Mutant of AttemptEnds: before a retry the old answer is still awaited. *)
AttemptEndsWaiting(out) ==
    /\ waiting' = (~out.ok /\ out.retryable)
    /\ \/ out.ok /\ verdict' = "sent"
       \/ ~out.ok /\ out.retryable /\ requests < MaxRequests /\ UNCHANGED verdict
       \/ /\ ~out.ok
          /\ verdict' = IF out.err.class.temporary THEN "deferred" ELSE "rejected"
    /\ UNCHANGED <<parseVars, secret, workerVars, requests>>

(* The end of an attempt: the loop goes on, or Send returns. *)
AttemptEnds(out) ==
    /\ waiting' = FALSE
    /\ \/ out.ok /\ verdict' = "sent"
       \/ ~out.ok /\ out.retryable /\ requests < MaxRequests /\ UNCHANGED verdict
       \/ /\ ~out.ok
          /\ verdict' = IF out.err.class.temporary THEN "deferred" ELSE "rejected"
    /\ UNCHANGED <<parseVars, secret, workerVars, requests>>

Hear ==
    /\ waiting /\ invocation[requests] = "over"
    /\ heard' = IF response[requests].body = Relay!Unreadable THEN heard
                                                 ELSE heard \cup {requests}
    /\ AttemptEnds(Relay!parseWorkerResponse(response[requests].status,
                                             response[requests].body, requests))

(* The attempt's deadline: a transport failure, like a body that does not  *)
(* decode.                                                                 *)
StopWaiting ==
    /\ waiting
    /\ AttemptEnds(Relay!Undecoded(requests))
    /\ UNCHANGED heard

Next ==
    \/ \E i \in Requests :
        \/ Refuse(i) \/ Accept(i) \/ BindingSends(i) \/ Die(i)
        \/ \E code \in BindingCodes : BindingThrows(i, code)
    \/ Deploy
    \/ Parse \/ Send \/ Hear \/ StopWaiting

Spec == Init /\ [][Next]_vars
-----------------------------------------------------------------------------
(* PROPERTIES *)

(* The values every variable keeps; the relay only ever waits for the      *)
(* newest request, and only reads answers that were given.                 *)
TypeOK ==
    /\ ParseTypeOK
    /\ secret \in {"unset", "ours", "other"}
    /\ invocation \in [Requests -> {"none", "received", "sending", "over"}]
    /\ taken \subseteq {i \in Requests : invocation[i] = "over"}
    /\ heard \subseteq {i \in Requests : invocation[i] = "over"}
    /\ requests \in 0..MaxRequests /\ waiting \in BOOLEAN
    /\ waiting => requests > 0 /\ requests \notin heard
    /\ verdict \in {"pending", "sent", "deferred", "rejected"}

(* Whatever overlaps with what, the relay is not wrong about a request     *)
(* whose answer it has read: if that request took the message, the client  *)
(* was told so, and it was only told so for a message taken.  Copies the   *)
(* relay does not know of come from requests it stopped waiting for, or    *)
(* whose answer was the platform's.                                        *)
TakenIsTold ==
    /\ \A i \in taken \cap heard : verdict = "sent"
    /\ verdict = "sent" => requests \in taken

(* The answers that blame the message or its parties. *)
MessageFaults == {"E_INVALID_REQUEST", "E_TOO_BIG"} \cup Relay!WorkerPartyCodes

(* The client is told to give up exactly when its message did not parse or *)
(* the Worker blamed it: never for the Worker's configuration, its secret, *)
(* a limit or a failing binding, which the operator can mend; and a        *)
(* message it cannot take is not deferred for days.  Between the Worker's  *)
(* JavaScript, its HTTP statuses and the relay's two tables, each step     *)
(* could break this.                                                       *)
RejectedForTheMessage ==
    verdict \in {"deferred", "rejected"} =>
        (verdict = "rejected" <=>
            \/ parse = "failed"
            \/ requests \in heard /\ response[requests].body.code \in MessageFaults)

(* The Worker's demands on a request (toBindingMessage) are met by what    *)
(* the relay makes of a mail unless the mail itself does not meet them: it *)
(* has no sender, recipient or subject, or its last text and its last HTML *)
(* part both say nothing.                                                  *)
BlamedForItsContent ==
    (\E i \in heard : response[i].body.code = "E_INVALID_REQUEST") =>
        ~ /\ mail.from /\ mail.recipients /\ mail.subject
          /\ ~SaidLast(Empty, "plain") \/ ~SaidLast(Empty, "html")

(* Once the Worker has blamed the message or the relay's secret, no        *)
(* further request is made in this call.                                   *)
RetryMayHelp ==
    [][requests' > requests =>
         \A i \in heard : response[i].body.code \notin
                             MessageFaults \cup {"E_UNAUTHORIZED"}]_vars
=============================================================================
