------------------------------ MODULE SendLoop ------------------------------
(***************************************************************************)
(* sendLoop and doAttempt of internal/cloudflare/send.go: the retry engine *)
(* both adapters share.  One behaviour is one call of Send.                *)
(*                                                                         *)
(* Time is counted in units; the production values in units of 500 ms are  *)
(* in MCSendLoop.  The context Send was given is done exactly when elapsed *)
(* has reached SendTimeout.  Whoever checks the context may find it done:  *)
(* nothing bounds how long the process may have been suspended, so every   *)
(* check may take the clock to the deadline (ContextDone).                 *)
(***************************************************************************)
EXTENDS Classification

CONSTANTS
    MaxRetries,      \* CLOUDFLARE_MAX_RETRIES
    AttemptTimeout,  \* CLOUDFLARE_TIMEOUT, bounds one attempt
    SendTimeout,     \* sendTimeout of session.go, bounds the whole call
    RetryBaseDelay,  \* retryBaseDelay
    RetryCapDelay,   \* retryCapDelay
    Second,          \* time.Second
    DurationMax,     \* the largest time.Duration
    Latencies,       \* bound: how long an attempt may take, when in time
    Responses        \* bound: the upstream's answers considered

ASSUME SendLoopAssumption ==
    /\ MaxRetries \in Nat
    /\ AttemptTimeout \in Nat \ {0}
    /\ SendTimeout \in Nat \ {0}
    /\ RetryBaseDelay \in Nat \ {0}
    /\ RetryCapDelay \in Nat \ {0}
    /\ Second \in Nat \ {0}
    /\ DurationMax \in Nat \ {0}
    /\ Latencies \subseteq Nat
    /\ Responses \subseteq [status     : Nat,
                           body       : Bodies,
                           retryAfter : [form : {"none", "seconds", "date"},
                                         value : Int]]

VARIABLES
    pc,          \* "top" of the loop, "failed" attempt, "sleep", "done"
    attempt,     \* the loop counter, from 1
    elapsed,     \* time since the context was created
    lastErr,     \* the last attempt's error, NoError before
    retryable,   \* what parse said of it
    retryAfter,  \* the upstream's Retry-After, 0 when absent
    delay,       \* what the loop sleeps for
    result       \* what Send returned: [kind, err, attempts]

\* The world outside the loop, which the properties compare with its answer.
VARIABLES
    endpointOK,  \* the configured endpoint is a URL a request can be built for
    requests,    \* requests sent
    accepted,    \* copies of the message the upstream took
    unanswered,  \* requests whose answer did not come, or not as JSON
    answer,      \* the last attempt's response, NoResponse when there is none
    notBefore    \* earliest time of the next request the upstream asked for

loopVars  == <<attempt, lastErr, retryable, retryAfter, delay>>
worldVars == <<endpointOK, requests, accepted, unanswered, answer, notBefore>>
vars      == <<pc, elapsed, result, loopVars, worldVars>>

Response(status, body, header) ==
    [status |-> status, body |-> body, retryAfter |-> header]
NoHeader   == [form |-> "none", value |-> 0]
NoResponse == Response(0, Unreadable, NoHeader)

NoResult == [kind |-> "none", err |-> NoError, attempts |-> 0]

-----------------------------------------------------------------------------
(* int64 arithmetic on time.Duration. *)
Wrap(d) == ((d + DurationMax + 1) % (2 * (DurationMax + 1))) - (DurationMax + 1)

(* Mutant of parseRetryAfter: the seconds are taken for a Duration. *)
RetryAfterWithoutUnit(header) == IF header.value < 0 THEN 0 ELSE header.value

(* parseRetryAfter: a negative number of seconds is ignored, a date in the *)
(* past is no wait.  0 stands for both "absent" and "no wait", which       *)
(* backoffDelay does not tell apart.                                       *)
parseRetryAfter(header) ==
    CASE header.form = "none"    -> 0
      [] header.form = "seconds" ->
            IF header.value < 0 THEN 0 ELSE Wrap(header.value * Second)
      [] header.form = "date"    ->
            IF header.value < 0 THEN 0 ELSE header.value

(* The wait the header asks for, as HTTP defines it. *)
RequestedWait(response) ==
    LET header == response.retryAfter
    IN  IF response.status # 429 \/ header.form = "none" \/ header.value < 0 THEN 0
        ELSE IF header.form = "seconds" THEN header.value * Second
        ELSE header.value

(* What the jitter may draw: the bound doubles with every attempt, up to   *)
(* the cap.                                                                *)
Jitter == {d \in 0..RetryCapDelay : d <= RetryBaseDelay * 2 ^ (attempt - 1)}

(* Mutant of backoffDelays: the cap clips Retry-After as it does the jitter. *)
ClippedDelays ==
    IF retryAfter > RetryCapDelay THEN {RetryCapDelay}
    ELSE IF retryAfter > 0 THEN {retryAfter} ELSE Jitter

(* backoffDelay: Retry-After as it stands, or what the jitter draws. *)
backoffDelays == IF retryAfter > 0 THEN {retryAfter} ELSE Jitter

-----------------------------------------------------------------------------
ContextAlive == elapsed < SendTimeout /\ UNCHANGED elapsed
ContextDone  == elapsed' = SendTimeout

(* Mutants of MayRetry: one attempt too many, one too few. *)
MayRetryOnceMore == retryable /\ attempt <= MaxRetries + 1
MayRetryOnceLess == retryable /\ attempt < MaxRetries

(* shouldRetry, the part that does not read the clock. *)
MayRetry == retryable /\ attempt <= MaxRetries

(* The time an attempt takes: it never outlives its own deadline, nor the  *)
(* context's.                                                              *)
TimeLeft  == SendTimeout - elapsed
TimeLimit == IF AttemptTimeout < TimeLeft THEN AttemptTimeout ELSE TimeLeft
Durations == {t \in Latencies : t < TimeLimit} \cup {TimeLimit}

Return(kind, err, attempts) ==
    /\ pc' = "done"
    /\ result' = [kind |-> kind, err |-> err, attempts |-> attempts]

ReturnError(err) == Return("error", err, err.attempts)

(* Mutant of AttemptFailed: the first error is kept. *)
AttemptFailedAgain(err, retry, wait) ==
    /\ pc' = "failed"
    /\ lastErr' = IF lastErr # NoError THEN lastErr ELSE err
    /\ retryable' = retry
    /\ retryAfter' = wait
    /\ UNCHANGED <<attempt, delay, result>>

AttemptFailed(err, retry, wait) ==
    /\ pc' = "failed"
    /\ lastErr' = err
    /\ retryable' = retry
    /\ retryAfter' = wait
    /\ UNCHANGED <<attempt, delay, result>>

Init ==
    /\ pc = "top" /\ attempt = 1 /\ elapsed = 0
    /\ lastErr = NoError /\ retryable = FALSE /\ retryAfter = 0 /\ delay = 0
    /\ result = NoResult
    /\ endpointOK \in BOOLEAN
    /\ requests = 0 /\ accepted = 0 /\ unanswered = 0
    /\ answer = NoResponse /\ notBefore = 0

-----------------------------------------------------------------------------
(* Mutant of ExpiredBeforeAttempt: counts the attempt that is not made. *)
ExpiredInAttempt ==
    /\ pc = "top"
    /\ ContextDone
    /\ ReturnError(IF lastErr # NoError THEN lastErr
                                        ELSE classifyTransport(attempt))
    /\ UNCHANGED <<loopVars, worldVars>>

(* The top of the loop finds the context done: no further request. *)
ExpiredBeforeAttempt ==
    /\ pc = "top"
    /\ ContextDone
    /\ ReturnError(IF lastErr # NoError THEN lastErr
                                        ELSE classifyTransport(attempt - 1))
    /\ UNCHANGED <<loopVars, worldVars>>

(* build fails: the endpoint is not a URL.  No request goes out. *)
BuildFails ==
    /\ pc = "top"
    /\ ~endpointOK
    /\ ContextAlive
    /\ AttemptFailed(classifyTransport(attempt), TRUE, 0)
    /\ UNCHANGED worldVars

(* client.Do or reading the body fails, or the attempt's deadline passes;  *)
(* the upstream may have taken the message all the same.                   *)
LoseRequest(took, taken) ==
    /\ pc = "top"
    /\ endpointOK
    /\ elapsed < SendTimeout
    /\ elapsed' = elapsed + took
    /\ AttemptFailed(classifyTransport(attempt), TRUE, 0)
    /\ requests' = requests + 1
    /\ unanswered' = unanswered + 1
    /\ accepted' = accepted + taken
    /\ answer' = NoResponse
    /\ notBefore' = 0
    /\ UNCHANGED endpointOK

(* A response arrives in time: parse, and on HTTP 429 Retry-After.         *)
(* success:true is only sent for a message taken, success:false only for   *)
(* one refused; a body that is not JSON says nothing.                      *)
Respond(response, took, taken) ==
    LET out == parse(response.status, response.body, attempt)
    IN  /\ pc = "top"
        /\ endpointOK
        /\ elapsed < SendTimeout
        /\ elapsed' = elapsed + took
        /\ response.body.kind = "success" => taken = 1
        /\ response.body.kind = "failure" => taken = 0
        /\ IF out.ok
           THEN /\ Return("sent", NoError, attempt)
                /\ UNCHANGED loopVars
           ELSE AttemptFailed(out.err, out.retryable,
                              IF response.status = 429
                              THEN parseRetryAfter(response.retryAfter) ELSE 0)
        /\ requests' = requests + 1
        /\ unanswered' = IF response.body.kind = "unreadable"
                         THEN unanswered + 1 ELSE unanswered
        /\ accepted' = accepted + taken
        /\ answer' = response
        /\ notBefore' = elapsed' + RequestedWait(response)
        /\ UNCHANGED endpointOK

(* shouldRetry says no: the attempt's own error is the answer. *)
GiveUp ==
    /\ pc = "failed"
    /\ \/ ~MayRetry /\ UNCHANGED elapsed
       \/ ContextDone
    /\ ReturnError(lastErr)
    /\ UNCHANGED <<loopVars, worldVars>>

(* A wait above the cap is terminal. *)
WaitTooLong(d) ==
    /\ pc = "failed"
    /\ MayRetry /\ ContextAlive
    /\ d > RetryCapDelay
    /\ ReturnError(lastErr)
    /\ UNCHANGED <<loopVars, worldVars>>

Backoff(d) ==
    /\ pc = "failed"
    /\ MayRetry /\ ContextAlive
    /\ d <= RetryCapDelay
    /\ pc' = "sleep"
    /\ delay' = d
    /\ UNCHANGED <<attempt, lastErr, retryable, retryAfter, result, worldVars>>

(* The timer fires; when it is due at the deadline itself select may take  *)
(* either case.                                                            *)
Wake ==
    /\ pc = "sleep"
    /\ elapsed + delay <= SendTimeout
    /\ elapsed' = elapsed + delay
    /\ pc' = "top"
    /\ attempt' = attempt + 1
    /\ UNCHANGED <<lastErr, retryable, retryAfter, delay, result, worldVars>>

(* Mutant of SleepInterrupted: the sleep only looks at the context once.   *)
SleepNotInterrupted ==
    /\ pc = "sleep"
    /\ elapsed = SendTimeout
    /\ UNCHANGED elapsed
    /\ ReturnError(classifyTransport(attempt))
    /\ UNCHANGED <<loopVars, worldVars>>

SleepInterrupted ==
    /\ pc = "sleep"
    /\ ContextDone
    /\ ReturnError(classifyTransport(attempt))
    /\ UNCHANGED <<loopVars, worldVars>>

Next ==
    \/ ExpiredBeforeAttempt
    \/ BuildFails
    \/ \E took \in Durations, taken \in {0, 1} : LoseRequest(took, taken)
    \/ \E response \in Responses, took \in Durations, taken \in {0, 1} :
            Respond(response, took, taken)
    \/ GiveUp
    \/ \E d \in backoffDelays : WaitTooLong(d) \/ Backoff(d)
    \/ Wake
    \/ SleepInterrupted

Spec == Init /\ [][Next]_vars

(* The loop runs in the connection's own goroutine, which the scheduler    *)
(* keeps running; the HTTP client and the timers keep their deadlines.     *)
FairSpec == Spec /\ WF_vars(Next)
-----------------------------------------------------------------------------
(* PROPERTIES *)

(* The values every variable keeps; in particular the loop never makes     *)
(* more than MaxRetries + 1 attempts and the clock never passes the        *)
(* deadline of the call.                                                   *)
TypeOK ==
    /\ pc \in {"top", "failed", "sleep", "done"}
    /\ attempt \in 1..(MaxRetries + 1)
    /\ elapsed \in 0..SendTimeout
    /\ lastErr \in Errors
    /\ retryable \in BOOLEAN
    /\ retryAfter \in Int
    /\ delay \in 0..RetryCapDelay
    /\ result \in [kind : {"none", "sent", "error"},
                   err : Errors, attempts : Nat]
    /\ endpointOK \in BOOLEAN
    /\ requests \in 0..(MaxRetries + 1)
    /\ accepted \in Nat /\ unanswered \in Nat
    /\ answer \in Responses \cup {NoResponse}
    /\ notBefore \in Nat

(* Every copy of the message the upstream took is either the one Send      *)
(* reports or the trace of a request whose answer was lost; so retrying    *)
(* alone never duplicates a message, and "sent" is never said of a message *)
(* nobody took.                                                            *)
CopiesExplained ==
    /\ result.kind # "sent" => accepted <= unanswered
    /\ result.kind = "sent" => accepted \in 1..(unanswered + 1)

(* The attempts Send reports, which the delivery log shows the operator,   *)
(* are the requests it really sent, on every way out of the loop.          *)
AttemptsReported ==
    pc = "done" /\ endpointOK => result.attempts = requests

(* The outcome of the last attempt, read afresh from what the upstream     *)
(* last said.                                                              *)
LastOutcome == parse(answer.status, answer.body, requests)

(* The decision to retry and the reply come from separate functions over   *)
(* shared tables (classify.go:72-143, worker.go:120-161); of whatever the  *)
(* upstream answers they make one story.                                   *)
AnswersCoherent == requests > 0 => Coherent(LastOutcome)

(* What the client is told to do, try again or give up, is what the LAST   *)
(* answer called for, whichever attempt it came from and however the loop  *)
(* ended: a refusal of an earlier attempt never outlives a later outage,   *)
(* and running out of time never softens a refusal.                        *)
VerdictMatchesLastAnswer ==
    result.kind = "error" =>
        IF requests = 0 THEN result.err.class = Unreachable
        ELSE result.err.class.temporary = LastOutcome.err.class.temporary

(* The loop only stops when it must: the answer is final, the attempts or  *)
(* the time are used up, or the upstream asked for a wait above the cap.   *)
(* A message is never deferred while an attempt was still allowed.         *)
GiveUpJustified ==
    result.kind = "error" /\ endpointOK =>
        \/ requests = MaxRetries + 1
        \/ elapsed = SendTimeout
        \/ ~LastOutcome.retryable
        \/ RequestedWait(answer) > RetryCapDelay

(* A new request only follows an answer that may change by itself: never a *)
(* refusal of the message, never one of the relay's own credential.        *)
RetryOnlyWhenTemporary ==
    [][requests' > requests /\ requests > 0 =>
         LastOutcome.err.class \in {RateLimited, ServerFault, Unreachable}]_vars

(* No request leaves before the moment Retry-After asked to wait for.      *)
RetryAfterHonoured ==
    [][requests' > requests => elapsed >= notBefore]_vars

(* "A deferred Retry-After that exceeds the cap is treated as terminal: do *)
(* not retry further" (send.go:73-74).                                     *)
LongRetryAfterTerminal ==
    [][requests' > requests => RequestedWait(answer) <= RetryCapDelay]_vars

(* Send returns, and returns by the deadline of its context (the clock     *)
(* does not pass it), so the client's DATA is always answered.             *)
Termination == <>(pc = "done")

(* The loop delivers what the port it implements promises.                 *)
Verdict ==
    CASE result.kind = "none"  -> "pending"
      [] result.kind = "sent"  -> "sent"
      [] result.kind = "error" -> IF result.err.class.temporary
                                  THEN "deferred" ELSE "rejected"

Sender == INSTANCE Delivery WITH verdict <- Verdict,
                                 MaxRequests <- MaxRetries + 1

ImplementsSender == Sender!Spec

(* isRetryable's comment (classify.go:128-131): a 401/403 "must never" be  *)
(* retried internally.                                                     *)
CredentialErrorsNotRetried ==
    [][requests' > requests => answer.status \notin {401, 403}]_vars
=============================================================================
