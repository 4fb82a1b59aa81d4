--------------------------- MODULE SendLoopProofs ---------------------------
(***************************************************************************)
(* The safety of one call of Send, for every retry budget, every time      *)
(* budget and every answer of the upstream.                                *)
(*                                                                         *)
(* TypeOK bounds the requests by MaxRetries + 1, which no action's guard   *)
(* mentions: it follows from the requests keeping step with the attempts   *)
(* (InStep).  The verdict properties follow from the loop's memory of the  *)
(* last attempt being what the last answer says (Remembers), although the  *)
(* answer is overwritten by every attempt and read two steps later.        *)
(***************************************************************************)
EXTENDS SendLoop, ClassificationProofs

(* The requests keep step with the loop counter. *)
InStep ==
    /\ ~endpointOK => requests = 0
    /\ endpointOK /\ pc = "top" => requests = attempt - 1
    /\ endpointOK /\ pc \in {"failed", "sleep"} => requests = attempt
    /\ pc = "sleep" => attempt <= MaxRetries
    /\ unanswered <= requests

(* lastErr and retryable are what the last answer says, and a loop that    *)
(* has gone to sleep was told to retry.                                    *)
Remembers ==
    pc # "done" =>
        /\ result = NoResult
        /\ requests = 0 => \/ lastErr = NoError
                           \/ ~endpointOK /\ lastErr.class = Unreachable
        /\ requests = 0 /\ pc # "top" => lastErr # NoError
        /\ requests > 0 => /\ ~LastOutcome.ok
                           /\ lastErr = LastOutcome.err
                           /\ retryable = LastOutcome.retryable
                           /\ pc \in {"top", "sleep"} => retryable

(* What doAttempt makes of the Retry-After of an answer. *)
Hint(response) == IF response.status = 429
                  THEN parseRetryAfter(response.retryAfter) ELSE 0

(* The wait the loop is about to look at is the last answer's. *)
Hinted == pc = "failed" /\ endpointOK => retryAfter = Hint(answer)

(* What GiveUpJustified accepts as a reason to stop at this time. *)
MustStop(time) ==
    \/ requests = MaxRetries + 1
    \/ time = SendTimeout
    \/ ~LastOutcome.retryable
    \/ RequestedWait(answer) > RetryCapDelay

IInv ==
    /\ TypeOK
    /\ InStep
    /\ Remembers
    /\ Hinted
    /\ GiveUpJustified
    /\ CopiesExplained
    /\ AttemptsReported
    /\ VerdictMatchesLastAnswer
    /\ pc = "done" => result.kind \in {"sent", "error"}

-----------------------------------------------------------------------------
(* A transport failure is a well-formed temporary error.                   *)
LEMMA TransportLemma ==
    ASSUME NEW n \in Nat
    PROVE  /\ classifyTransport(n) \in Errors
           /\ classifyTransport(n).class = Unreachable
           /\ classifyTransport(n).attempts = n
           /\ classifyTransport(n) # NoError
           /\ Unreachable.temporary
BY DEF classifyTransport, DeliveryError, Errors, Classes, NoError, Unreachable,
       Class, NoCode

(* A lost request leaves the loop as a body that does not decode would.    *)
LEMMA NoResponseLemma ==
    ASSUME NEW n \in Nat
    PROVE  parse(NoResponse.status, NoResponse.body, n)
             = Outcome(FALSE, classifyTransport(n), TRUE)
BY DEF NoResponse, Response, Unreadable, parse, parseRESTResponse,
       parseWorkerResponse, Undecoded

(* What the answers of the model are made of. *)
LEMMA AnswerLemma ==
    ASSUME NEW r \in Responses \cup {NoResponse}
    PROVE  r.status \in Nat /\ r.body \in Bodies /\ RequestedWait(r) \in Nat
<1>1. CASE r \in Responses
  <2>1. /\ r.status \in Nat /\ r.body \in Bodies
        /\ r.retryAfter.value \in Int
    BY <1>1, SendLoopAssumption
  <2> QED BY <2>1, SendLoopAssumption DEF RequestedWait
<1>2. CASE r = NoResponse
  <2>1. NoResponse.status = 0 /\ NoResponse.body = Unreadable
    BY DEF NoResponse, Response
  <2>2. Unreadable \in Bodies
    <3>1. AbsentCode \in Codes
      BY DEF AbsentCode, Codes, NoCode
    <3> QED BY <3>1 DEF Unreadable, Bodies
  <2>3. RequestedWait(NoResponse) = 0
    BY <2>1 DEF RequestedWait
  <2> QED BY <1>2, <2>1, <2>2, <2>3
<1> QED BY <1>1, <1>2

(* Retry-After is a Duration. *)
LEMMA RetryAfterLemma ==
    ASSUME NEW r \in Responses
    PROVE  parseRetryAfter(r.retryAfter) \in Int
<1>1. /\ r.retryAfter.form \in {"none", "seconds", "date"}
      /\ r.retryAfter.value \in Int
  BY SendLoopAssumption
<1>2. ASSUME NEW d \in Int PROVE Wrap(d) \in Int
  <2>1. 2 * (DurationMax + 1) \in Nat \ {0} /\ d + DurationMax + 1 \in Int
    BY SendLoopAssumption
  <2>2. (d + DurationMax + 1) % (2 * (DurationMax + 1)) \in Int
    BY <2>1
  <2> QED BY <2>2, SendLoopAssumption DEF Wrap
<1>3. r.retryAfter.value * Second \in Int
  BY <1>1, SendLoopAssumption
<1> QED BY <1>1, <1>2, <1>3 DEF parseRetryAfter

(* Wrapping never makes a number of seconds longer, and leaves it alone    *)
(* where it fits.                                                          *)
LEMMA WrapLemma ==
    ASSUME NEW d \in Nat
    PROVE  Wrap(d) \in Int /\ Wrap(d) <= d /\ (d <= DurationMax => Wrap(d) = d)
<1> DEFINE n == 2 * (DurationMax + 1)
           y == d + DurationMax + 1
<1>1. n \in Nat \ {0} /\ y \in Nat /\ DurationMax \in Nat
  BY SendLoopAssumption
<1>2. d <= DurationMax => y < n
  BY <1>1
<1>3. Wrap(d) = (y % n) - (DurationMax + 1)
  BY DEF Wrap
<1> HIDE DEF n
<1>4. y % n \in Nat /\ y % n <= y /\ (y < n => y % n = y)
  BY <1>1
<1> QED BY <1>1, <1>2, <1>3, <1>4

(* A wait the loop takes from an answer was asked for, and was not shorter. *)
LEMMA HintLemma ==
    ASSUME NEW r \in Responses \cup {NoResponse}
    PROVE  /\ Hint(r) \in Int
           /\ Hint(r) > 0 => Hint(r) <= RequestedWait(r)
<1>1. CASE r \in Responses
  <2>1. /\ r.retryAfter.form \in {"none", "seconds", "date"}
        /\ r.retryAfter.value \in Int
    BY <1>1, SendLoopAssumption
  <2>2. r.retryAfter.value >= 0 => /\ r.retryAfter.value * Second \in Nat
    BY <2>1, SendLoopAssumption
  <2>3. r.retryAfter.value >= 0 =>
            /\ Wrap(r.retryAfter.value * Second) \in Int
            /\ Wrap(r.retryAfter.value * Second) <= r.retryAfter.value * Second
    BY <2>2, WrapLemma
  <2> QED BY <2>1, <2>2, <2>3 DEF Hint, parseRetryAfter, RequestedWait
<1>2. CASE r = NoResponse
  BY <1>2 DEF Hint, NoResponse, Response
<1> QED BY <1>1, <1>2

(* An attempt ends by the deadline of the call. *)
LEMMA DurationsLemma ==
    ASSUME TypeOK, elapsed < SendTimeout, NEW took \in Durations
    PROVE  elapsed + took \in 0..SendTimeout /\ took \in Nat
<1>1. TimeLimit \in Nat /\ TimeLimit <= SendTimeout - elapsed
  BY SendLoopAssumption DEF TimeLimit, TimeLeft, TypeOK
<1>2. took \in Nat /\ took <= TimeLimit
  BY <1>1, SendLoopAssumption DEF Durations
<1> QED BY <1>1, <1>2, SendLoopAssumption DEF TypeOK
-----------------------------------------------------------------------------
LEMMA InitIInv == Init => IInv
<1> SUFFICES ASSUME Init PROVE IInv
  OBVIOUS
<1>1. NoError \in Errors /\ NoError.attempts = 0
  BY DEF Errors, NoError
<1>2. TypeOK
  <2>1. result \in [kind : {"none", "sent", "error"},
                   err : Errors, attempts : Nat]
    BY <1>1 DEF Init, NoResult
  <2>2. 1 \in 1..(MaxRetries + 1) /\ 0 \in 0..(MaxRetries + 1)
          /\ 0 \in 0..SendTimeout /\ 0 \in 0..RetryCapDelay
    BY SendLoopAssumption
  <2>3. pc = "top" /\ answer = NoResponse /\ lastErr = NoError
    BY DEF Init
  <2>4. /\ attempt = 1 /\ elapsed = 0 /\ retryAfter = 0 /\ delay = 0
        /\ requests = 0 /\ accepted = 0 /\ unanswered = 0 /\ notBefore = 0
    BY DEF Init
  <2>5. retryable \in BOOLEAN /\ endpointOK \in BOOLEAN
    BY DEF Init
  <2> QED BY <1>1, <2>1, <2>2, <2>3, <2>4, <2>5 DEF TypeOK
<1>3. InStep /\ Remembers /\ Hinted /\ CopiesExplained /\ AttemptsReported
        /\ VerdictMatchesLastAnswer /\ GiveUpJustified
  BY DEF Init, NoResult, InStep, Remembers, Hinted, CopiesExplained,
         AttemptsReported, VerdictMatchesLastAnswer, GiveUpJustified
<1> QED BY <1>2, <1>3 DEF IInv, Init

(* An attempt that got no usable answer, or none at all. *)
LEMMA LoseRequestIInv ==
    ASSUME IInv, NEW took \in Durations, NEW taken \in {0, 1},
           LoseRequest(took, taken)
    PROVE  IInv'
<1> USE DEF LoseRequest, AttemptFailed
<1>1. elapsed' \in 0..SendTimeout
  BY DurationsLemma DEF IInv
<1>2. /\ attempt \in 1..(MaxRetries + 1) /\ attempt \in Nat
      /\ requests = attempt - 1 /\ requests' = attempt
  BY SendLoopAssumption DEF IInv, TypeOK, InStep
<1>3. /\ classifyTransport(attempt) \in Errors
      /\ classifyTransport(attempt) # NoError
  BY <1>2, TransportLemma
<1>4. TypeOK'
  BY <1>1, <1>2, <1>3, SendLoopAssumption DEF IInv, TypeOK
<1>5. InStep'
  BY <1>2 DEF IInv, InStep, TypeOK
<1>6. LastOutcome' = Outcome(FALSE, classifyTransport(attempt), TRUE)
  BY <1>2, NoResponseLemma DEF LastOutcome
<1>7. Remembers'
  <2>1. result = NoResult
    BY DEF IInv, Remembers
  <2> QED BY <1>2, <1>6, <2>1 DEF Remembers, Outcome
<1>8. result' = NoResult
  BY DEF IInv, Remembers
<1>9. (CopiesExplained /\ AttemptsReported /\ VerdictMatchesLastAnswer
         /\ GiveUpJustified)'
  BY <1>8 DEF IInv, TypeOK, CopiesExplained, AttemptsReported,
              VerdictMatchesLastAnswer, GiveUpJustified, NoResult
<1>10. Hinted'
  BY DEF Hinted, Hint, NoResponse, Response
<1> QED BY <1>4, <1>5, <1>7, <1>9, <1>10 DEF IInv

LEMMA RespondIInv ==
    ASSUME IInv, NEW r \in Responses, NEW took \in Durations,
           NEW taken \in {0, 1}, Respond(r, took, taken)
    PROVE  IInv'
<1> DEFINE out == parse(r.status, r.body, attempt)
<1>1. elapsed' \in 0..SendTimeout
  BY DurationsLemma DEF IInv, Respond
<1>2. /\ attempt \in 1..(MaxRetries + 1) /\ attempt \in Nat
      /\ requests = attempt - 1 /\ requests' = attempt
      /\ pc = "top" /\ endpointOK /\ result = NoResult
  BY SendLoopAssumption DEF IInv, TypeOK, InStep, Remembers, Respond
<1>3. r.status \in Nat /\ r.body \in Bodies /\ RequestedWait(r) \in Nat
  BY AnswerLemma
<1>4. /\ out.ok \in BOOLEAN /\ out.retryable \in BOOLEAN /\ out.err \in Errors
      /\ out.ok <=> r.body.kind = "success"
      /\ ~out.ok => out.err.class \in Classes /\ out.err.attempts = attempt
  BY <1>2, <1>3, ParseLemma
<1>5. LastOutcome' = out
  BY <1>2 DEF LastOutcome, Respond
<1>6. /\ accepted' = accepted + taken /\ answer' = r
      /\ unanswered' \in {unanswered, unanswered + 1}
      /\ notBefore' \in Nat /\ UNCHANGED endpointOK
  BY <1>1, <1>3 DEF Respond
<1>7. InStep'
  BY <1>2, <1>6 DEF IInv, InStep, TypeOK, Respond, Return, AttemptFailed
<1>8. CASE out.ok
  <2>1. /\ pc' = "done" /\ taken = 1 /\ UNCHANGED loopVars
        /\ result' = [kind |-> "sent", err |-> NoError, attempts |-> attempt]
    BY <1>4, <1>8 DEF Respond, Return
  <2>2. NoError \in Errors
    BY DEF Errors
  <2>3. TypeOK'
    BY <1>1, <1>2, <1>6, <2>1, <2>2, SendLoopAssumption
       DEF IInv, TypeOK, loopVars
  <2>4. unanswered' = unanswered
    BY <1>4, <1>8 DEF Respond
  <2>5. CopiesExplained'
    BY <1>2, <1>6, <2>1, <2>4 DEF IInv, TypeOK, CopiesExplained, NoResult
  <2> QED BY <1>2, <1>7, <2>1, <2>3, <2>5
          DEF IInv, Remembers, Hinted, AttemptsReported, VerdictMatchesLastAnswer,
              GiveUpJustified
<1>9. CASE ~out.ok
  <2>1. /\ pc' = "failed" /\ lastErr' = out.err /\ retryable' = out.retryable
        /\ retryAfter' \in Int /\ retryAfter' = Hint(r)
        /\ UNCHANGED <<attempt, delay, result>>
    BY <1>9, RetryAfterLemma DEF Respond, AttemptFailed, Hint
  <2>2. TypeOK'
    BY <1>1, <1>2, <1>4, <1>6, <2>1, SendLoopAssumption DEF IInv, TypeOK
  <2>3. out.err # NoError
    BY <1>4, <1>9 DEF NoError, Classes, RateLimited, ServerFault, RelayRefused,
          Unreachable, Invalid, NotFound, PartyRefused, Class
  <2>4. Remembers'
    BY <1>2, <1>5, <1>9, <2>1, <2>3 DEF Remembers
  <2>5. accepted' <= unanswered'
    <3>1. r.body.kind \in {"unreadable", "failure"}
      BY <1>3, <1>4, <1>9 DEF Bodies
    <3>2. CASE r.body.kind = "unreadable"
      BY <1>2, <1>6, <3>2 DEF IInv, TypeOK, CopiesExplained, NoResult, Respond
    <3>3. CASE r.body.kind = "failure"
      BY <1>2, <1>6, <3>3 DEF IInv, TypeOK, CopiesExplained, NoResult, Respond
    <3> QED BY <3>1, <3>2, <3>3
  <2>6. result' = NoResult
    BY <1>2, <2>1
  <2>7. (CopiesExplained /\ AttemptsReported /\ VerdictMatchesLastAnswer
           /\ GiveUpJustified)'
    <3>1. result'.kind = "none" /\ pc' # "done"
      BY <2>1, <2>6 DEF NoResult
    <3>2. accepted' \in Nat /\ unanswered' \in Nat
      BY <2>2 DEF TypeOK
    <3>4. CopiesExplained'
      BY <2>5, <3>1 DEF CopiesExplained
    <3> QED BY <3>1, <3>4 DEF AttemptsReported, VerdictMatchesLastAnswer,
               GiveUpJustified
  <2>8. Hinted'
    BY <1>6, <2>1 DEF Hinted
  <2> QED BY <1>7, <2>1, <2>2, <2>4, <2>7, <2>8 DEF IInv
<1> QED BY <1>4, <1>8, <1>9

(* build fails: a lost request that never went out. *)
LEMMA BuildFailsIInv == IInv /\ BuildFails => IInv'
<1> SUFFICES ASSUME IInv, BuildFails PROVE IInv'
  OBVIOUS
<1>1. /\ classifyTransport(attempt) \in Errors
      /\ classifyTransport(attempt) # NoError
      /\ classifyTransport(attempt).class = Unreachable
  <2>1. attempt \in Nat
    BY DEF IInv, TypeOK
  <2> QED BY <2>1, TransportLemma
<1>2. /\ requests = 0 /\ ~endpointOK /\ pc = "top" /\ pc' = "failed"
      /\ lastErr' = classifyTransport(attempt)
      /\ retryable' = TRUE /\ retryAfter' = 0
      /\ UNCHANGED <<attempt, elapsed, delay, result, worldVars>>
  BY DEF BuildFails, AttemptFailed, ContextAlive, IInv, InStep
<1>3. result = NoResult
  BY <1>2 DEF IInv, Remembers
<1>4. TypeOK'
  BY <1>1, <1>2 DEF IInv, TypeOK, worldVars
<1>5. InStep' /\ Remembers' /\ Hinted'
  BY <1>1, <1>2, <1>3 DEF IInv, InStep, Remembers, Hinted, worldVars
<1>6. (CopiesExplained /\ AttemptsReported /\ VerdictMatchesLastAnswer
         /\ GiveUpJustified)'
  BY <1>2, <1>3 DEF IInv, CopiesExplained, AttemptsReported,
     VerdictMatchesLastAnswer, GiveUpJustified, NoResult, worldVars
<1> QED BY <1>2, <1>4, <1>5, <1>6 DEF IInv

(* Every way of returning an error: the error must be well formed, count   *)
(* the requests, and be as temporary as the last answer, and there must be *)
(* a reason to return at all.                                              *)
LEMMA ReturnErrorIInv ==
    ASSUME IInv, NEW err \in Errors, pc # "done",
           ReturnError(err), UNCHANGED <<loopVars, worldVars>>,
           elapsed' \in 0..SendTimeout,
           endpointOK => err.attempts = requests,
           IF requests = 0 THEN err.class = Unreachable
           ELSE err.class.temporary = LastOutcome.err.class.temporary,
           endpointOK => MustStop(elapsed')
    PROVE  IInv'
<1>1. /\ pc' = "done"
      /\ result' = [kind |-> "error", err |-> err, attempts |-> err.attempts]
  BY DEF ReturnError, Return
<1>2. err.attempts \in Nat
  <2>1. NoError.attempts = 0
    BY DEF NoError
  <2> QED BY <2>1 DEF Errors
<1>3. TypeOK'
  BY <1>1, <1>2 DEF IInv, TypeOK, loopVars, worldVars
<1>4. InStep'
  BY <1>1 DEF IInv, InStep, loopVars, worldVars
<1>5. result = NoResult
  BY DEF IInv, Remembers
<1>6. CopiesExplained'
  BY <1>1, <1>5 DEF IInv, CopiesExplained, NoResult, worldVars
<1>7. AttemptsReported'
  BY <1>1 DEF AttemptsReported, worldVars
<1>8. LastOutcome' = LastOutcome
  BY DEF LastOutcome, worldVars
<1>9. VerdictMatchesLastAnswer'
  BY <1>1, <1>8 DEF VerdictMatchesLastAnswer, worldVars
<1>10. GiveUpJustified'
  BY <1>8 DEF GiveUpJustified, MustStop, worldVars
<1> QED BY <1>1, <1>3, <1>4, <1>6, <1>7, <1>9, <1>10 DEF IInv, Remembers, Hinted

(* The last outcome is a well-formed error of the last request. *)
LEMMA LastOutcomeLemma ==
    ASSUME IInv, pc # "done", requests > 0
    PROVE  /\ lastErr = LastOutcome.err
           /\ lastErr.class \in Classes
           /\ lastErr.attempts = requests
           /\ LastOutcome.retryable <=> lastErr.class \in Transient
           /\ lastErr # NoError
<1>1. /\ answer \in Responses \cup {NoResponse} /\ requests \in Nat
  BY DEF IInv, TypeOK
<1>2. answer.status \in Nat /\ answer.body \in Bodies
  BY <1>1, AnswerLemma
<1>3. ~LastOutcome.ok /\ lastErr = LastOutcome.err
  BY DEF IInv, Remembers
<1>4. /\ lastErr.class \in Classes /\ lastErr.attempts = requests
      /\ LastOutcome.retryable <=> lastErr.class \in Transient
  BY <1>1, <1>2, <1>3, ParseLemma DEF LastOutcome
<1>5. lastErr # NoError
  BY <1>4 DEF NoError, Classes, RateLimited, ServerFault, RelayRefused,
     Unreachable, Invalid, NotFound, PartyRefused, Class
<1> QED BY <1>3, <1>4, <1>5

(* The transient classes, the only ones the loop sleeps on, are temporary. *)
LEMMA TransientLemma ==
    ASSUME NEW c \in Transient
    PROVE  c.temporary = TRUE
BY DEF Transient, RateLimited, ServerFault, Unreachable, Class

LEMMA ExpiredIInv == IInv /\ ExpiredBeforeAttempt => IInv'
<1> SUFFICES ASSUME IInv, ExpiredBeforeAttempt PROVE IInv'
  OBVIOUS
<1> DEFINE err == IF lastErr # NoError THEN lastErr
                                       ELSE classifyTransport(attempt - 1)
<1>1. /\ pc = "top" /\ elapsed' = SendTimeout
      /\ ReturnError(err) /\ UNCHANGED <<loopVars, worldVars>>
  BY DEF ExpiredBeforeAttempt, ContextDone
<1>0. MustStop(elapsed')
  BY <1>1 DEF MustStop
<1>2. SendTimeout \in 0..SendTimeout
  BY SendLoopAssumption
<1>3. attempt - 1 \in Nat
  BY SendLoopAssumption DEF IInv, TypeOK
<1>4. /\ classifyTransport(attempt - 1) \in Errors
      /\ classifyTransport(attempt - 1).class = Unreachable
      /\ classifyTransport(attempt - 1).attempts = attempt - 1
  BY <1>3, TransportLemma
<1>5. err \in Errors
  BY <1>4 DEF IInv, TypeOK
<1>6. requests \in Nat
  BY DEF IInv, TypeOK
<1>7. CASE requests = 0
  <2>1. lastErr = NoError \/ (~endpointOK /\ lastErr.class = Unreachable)
    BY <1>1, <1>7 DEF IInv, Remembers
  <2>2. endpointOK => attempt - 1 = 0
    BY <1>1, <1>7 DEF IInv, InStep
  <2>3. err.class = Unreachable /\ (endpointOK => err.attempts = requests)
    BY <1>4, <1>7, <2>1, <2>2
  <2> HIDE DEF err
  <2> QED BY <1>0, <1>1, <1>2, <1>5, <1>7, <2>3, ReturnErrorIInv
<1>8. CASE requests > 0
  <2>1. err = lastErr
    BY <1>1, <1>8, LastOutcomeLemma
  <2>2. /\ err.attempts = requests
        /\ err.class.temporary = LastOutcome.err.class.temporary
    BY <1>1, <1>8, <2>1, LastOutcomeLemma
  <2> HIDE DEF err
  <2> QED BY <1>0, <1>1, <1>2, <1>5, <1>8, <2>2, ReturnErrorIInv
<1> QED BY <1>6, <1>7, <1>8

(* GiveUp and WaitTooLong return the last attempt's own error. *)
LEMMA ReturnLastIInv ==
    ASSUME IInv, pc = "failed", ReturnError(lastErr),
           UNCHANGED <<loopVars, worldVars>>, elapsed' \in 0..SendTimeout,
           endpointOK => MustStop(elapsed')
    PROVE  IInv'
<1>1. lastErr \in Errors /\ requests \in Nat
  BY DEF IInv, TypeOK
<1>2. CASE requests = 0
  <2>1. ~endpointOK
    BY <1>2 DEF IInv, InStep, TypeOK
  <2>2. lastErr.class = Unreachable
    BY <1>2 DEF IInv, Remembers
  <2> QED BY <1>1, <1>2, <2>1, <2>2, ReturnErrorIInv
<1>3. CASE requests > 0
  <2>1. /\ lastErr.attempts = requests
        /\ lastErr.class.temporary = LastOutcome.err.class.temporary
    BY <1>3, LastOutcomeLemma
  <2> QED BY <1>1, <1>3, <2>1, ReturnErrorIInv
<1> QED BY <1>1, <1>2, <1>3

(* GiveUp has a reason: the last answer, the attempts or the time. *)
LEMMA GiveUpReason ==
    ASSUME IInv, GiveUp, endpointOK
    PROVE  MustStop(elapsed')
<1>1. requests = attempt /\ pc = "failed"
  BY DEF GiveUp, IInv, InStep
<1>2. attempt \in 1..(MaxRetries + 1)
  BY DEF IInv, TypeOK
<1>3. CASE retryable
  <2>1. attempt <= MaxRetries => elapsed' = SendTimeout
    BY <1>3 DEF GiveUp, MayRetry, ContextDone
  <2> QED BY <1>1, <1>2, <2>1, SendLoopAssumption DEF MustStop
<1>4. CASE ~retryable
  <2>1. requests > 0
    BY <1>1, <1>2
  <2>2. ~LastOutcome.retryable
    BY <1>1, <1>4, <2>1 DEF IInv, Remembers
  <2> QED BY <2>2 DEF MustStop
<1> QED BY <1>3, <1>4

(* So has WaitTooLong: the jitter stays below the cap, so the wait is one  *)
(* the upstream asked for, and asked for at least as long.                 *)
LEMMA WaitReason ==
    ASSUME IInv, NEW d \in backoffDelays, WaitTooLong(d), endpointOK
    PROVE  MustStop(elapsed')
<1>1. pc = "failed" /\ d > RetryCapDelay /\ RetryCapDelay \in Nat
  BY SendLoopAssumption DEF WaitTooLong
<1>2. retryAfter \in Int /\ answer \in Responses \cup {NoResponse}
  BY DEF IInv, TypeOK
<1>3. retryAfter > 0 /\ d = retryAfter
  <2>1. CASE retryAfter > 0
    BY <2>1 DEF backoffDelays
  <2>2. CASE ~(retryAfter > 0)
    BY <1>1, <2>2 DEF backoffDelays, Jitter
  <2> QED BY <2>1, <2>2
<1>4. retryAfter = Hint(answer)
  BY <1>1 DEF IInv, Hinted
<1>5. Hint(answer) <= RequestedWait(answer) /\ RequestedWait(answer) \in Nat
  BY <1>2, <1>3, <1>4, HintLemma, AnswerLemma
<1> QED BY <1>1, <1>2, <1>3, <1>4, <1>5 DEF MustStop

LEMMA BackoffIInv ==
    ASSUME IInv, NEW d \in backoffDelays, Backoff(d)
    PROVE  IInv'
<1>1. /\ pc = "failed" /\ pc' = "sleep" /\ delay' = d
      /\ retryable /\ attempt <= MaxRetries
      /\ UNCHANGED <<attempt, elapsed, lastErr, retryable, retryAfter, result,
                     worldVars>>
  BY DEF Backoff, MayRetry, ContextAlive
<1>2. d \in 0..RetryCapDelay
  <2>1. d \in Nat
    <3>1. CASE retryAfter > 0
      BY <3>1 DEF backoffDelays, IInv, TypeOK
    <3>2. CASE ~(retryAfter > 0)
      BY <3>2 DEF backoffDelays, Jitter
    <3> QED BY <3>1, <3>2
  <2> QED BY <2>1, SendLoopAssumption DEF Backoff
<1>3. TypeOK'
  BY <1>1, <1>2 DEF IInv, TypeOK, worldVars
<1>4. LastOutcome' = LastOutcome
  BY <1>1 DEF LastOutcome, worldVars
<1>5. InStep' /\ Remembers' /\ Hinted'
  BY <1>1, <1>4 DEF IInv, InStep, Remembers, Hinted, worldVars
<1>6. (CopiesExplained /\ AttemptsReported /\ VerdictMatchesLastAnswer)'
  BY <1>1, <1>4 DEF IInv, CopiesExplained, AttemptsReported,
     VerdictMatchesLastAnswer, worldVars
<1>7. GiveUpJustified'
  <2>1. result = NoResult
    BY <1>1 DEF IInv, Remembers
  <2> QED BY <1>1, <2>1 DEF GiveUpJustified, NoResult
<1> QED BY <1>1, <1>3, <1>5, <1>6, <1>7 DEF IInv

LEMMA WakeIInv == IInv /\ Wake => IInv'
<1> SUFFICES ASSUME IInv, Wake PROVE IInv'
  OBVIOUS
<1>1. /\ pc = "sleep" /\ pc' = "top" /\ attempt' = attempt + 1
      /\ attempt <= MaxRetries
      /\ UNCHANGED <<lastErr, retryable, retryAfter, delay, result, worldVars>>
  BY DEF Wake, IInv, InStep
<1>2. elapsed' \in 0..SendTimeout
  BY SendLoopAssumption DEF Wake, IInv, TypeOK
<1>3. TypeOK'
  BY <1>1, <1>2, SendLoopAssumption DEF IInv, TypeOK, worldVars
<1>4. LastOutcome' = LastOutcome
  BY <1>1 DEF LastOutcome, worldVars
<1>5. InStep'
  BY <1>1 DEF IInv, InStep, TypeOK, worldVars
<1>6. Remembers'
  BY <1>1, <1>4 DEF IInv, Remembers, worldVars
<1>7. (CopiesExplained /\ AttemptsReported /\ VerdictMatchesLastAnswer)'
  BY <1>1, <1>4 DEF IInv, CopiesExplained, AttemptsReported,
     VerdictMatchesLastAnswer, worldVars
<1>8. Hinted' /\ GiveUpJustified'
  <2>1. result = NoResult
    BY <1>1 DEF IInv, Remembers
  <2> QED BY <1>1, <2>1 DEF Hinted, GiveUpJustified, NoResult
<1> QED BY <1>1, <1>3, <1>5, <1>6, <1>7, <1>8 DEF IInv

(* Time runs out in the sleep: what is reported instead of the last error  *)
(* is as temporary as that error was, since only a transient one sleeps.   *)
LEMMA SleepInterruptedIInv == IInv /\ SleepInterrupted => IInv'
<1> SUFFICES ASSUME IInv, SleepInterrupted PROVE IInv'
  OBVIOUS
<1> DEFINE err == classifyTransport(attempt)
<1>1. /\ pc = "sleep" /\ elapsed' = SendTimeout
      /\ ReturnError(err) /\ UNCHANGED <<loopVars, worldVars>>
  BY DEF SleepInterrupted, ContextDone
<1>0. MustStop(elapsed')
  BY <1>1 DEF MustStop
<1>2. SendTimeout \in 0..SendTimeout
  BY SendLoopAssumption
<1>3. attempt \in Nat /\ requests \in Nat
  BY DEF IInv, TypeOK
<1>4. /\ err \in Errors /\ err.class = Unreachable /\ err.attempts = attempt
      /\ Unreachable.temporary = TRUE
  BY <1>3, TransportLemma DEF Unreachable, Class
<1>5. endpointOK => attempt = requests
  BY <1>1 DEF IInv, InStep
<1> HIDE DEF err
<1>6. CASE requests = 0
  BY <1>0, <1>1, <1>2, <1>4, <1>5, <1>6, ReturnErrorIInv
<1>7. CASE requests > 0
  <2>1. LastOutcome.err.class \in Transient
    BY <1>1, <1>7, LastOutcomeLemma DEF IInv, Remembers
  <2>2. err.class.temporary = LastOutcome.err.class.temporary
    BY <1>4, <2>1, TransientLemma
  <2> QED BY <1>0, <1>1, <1>2, <1>4, <1>5, <1>7, <2>2, ReturnErrorIInv
<1> QED BY <1>3, <1>6, <1>7

(* A step that changes nothing. *)
LEMMA StutterIInv == IInv /\ UNCHANGED vars => IInv'
BY DEF IInv, vars, loopVars, worldVars, TypeOK, InStep, Remembers, Hinted,
       CopiesExplained, AttemptsReported, VerdictMatchesLastAnswer,
       GiveUpJustified, LastOutcome

LEMMA NextIInv == IInv /\ [Next]_vars => IInv'
<1> SUFFICES ASSUME IInv, [Next]_vars PROVE IInv'
  OBVIOUS
<1>1. CASE ExpiredBeforeAttempt
  BY <1>1, ExpiredIInv
<1>2. CASE BuildFails
  BY <1>2, BuildFailsIInv
<1>3. ASSUME NEW took \in Durations, NEW taken \in {0, 1},
             LoseRequest(took, taken)
      PROVE  IInv'
  <2>1. elapsed < SendTimeout
    BY <1>3 DEF LoseRequest
  <2> QED BY <1>3, <2>1, LoseRequestIInv
<1>4. ASSUME NEW r \in Responses, NEW took \in Durations,
             NEW taken \in {0, 1}, Respond(r, took, taken)
      PROVE  IInv'
  BY <1>4, RespondIInv
<1>5. CASE GiveUp
  <2>1. elapsed' \in 0..SendTimeout
    BY <1>5, SendLoopAssumption DEF GiveUp, ContextDone, IInv, TypeOK
  <2> QED BY <1>5, <2>1, GiveUpReason, ReturnLastIInv DEF GiveUp
<1>6. ASSUME NEW d \in backoffDelays, WaitTooLong(d) PROVE IInv'
  <2>1. elapsed' \in 0..SendTimeout
    BY <1>6 DEF WaitTooLong, ContextAlive, IInv, TypeOK
  <2> QED BY <1>6, <2>1, WaitReason, ReturnLastIInv DEF WaitTooLong
<1>7. ASSUME NEW d \in backoffDelays, Backoff(d) PROVE IInv'
  BY <1>7, BackoffIInv
<1>8. CASE Wake
  BY <1>8, WakeIInv
<1>9. CASE SleepInterrupted
  BY <1>9, SleepInterruptedIInv
<1>10. CASE UNCHANGED vars
  BY <1>10, StutterIInv
<1> QED BY <1>1, <1>2, <1>3, <1>4, <1>5, <1>6, <1>7, <1>8, <1>9, <1>10
        DEF Next
-----------------------------------------------------------------------------
(* IInv is an invariant of the loop. *)
THEOREM Invariance == Spec => []IInv
BY InitIInv, NextIInv, PTL DEF Spec

(* Every variable keeps its type, and at most MaxRetries + 1 requests are  *)
(* ever sent for one message.                                              *)
THEOREM TypeCorrect == Spec => []TypeOK
<1>1. IInv => TypeOK
  BY DEF IInv
<1> QED BY <1>1, Invariance, PTL

(* No copy of a message is accepted beyond the lost requests and the one   *)
(* Send reports; "sent" is only said of an accepted message.               *)
THEOREM CopiesCorrect == Spec => []CopiesExplained
<1>1. IInv => CopiesExplained
  BY DEF IInv
<1> QED BY <1>1, Invariance, PTL

(* The attempts the delivery log shows are the requests that were sent.    *)
THEOREM AttemptsCorrect == Spec => []AttemptsReported
<1>1. IInv => AttemptsReported
  BY DEF IInv
<1> QED BY <1>1, Invariance, PTL

(* Retry and reply tell one story, whatever was answered. *)
THEOREM CoherenceCorrect == Spec => []AnswersCoherent
<1>1. IInv => AnswersCoherent
  BY AnswerLemma, ParseCoherent DEF IInv, TypeOK, AnswersCoherent, LastOutcome
<1> QED BY <1>1, Invariance, PTL

(* Try again or give up: the client is told what the last answer said.     *)
THEOREM VerdictCorrect == Spec => []VerdictMatchesLastAnswer
<1>1. IInv => VerdictMatchesLastAnswer
  BY DEF IInv
<1> QED BY <1>1, Invariance, PTL

(* The loop never stops while an attempt was still allowed and could help  *)
(* (shouldRetry and the cap of sendLoop), even when Retry-After overflows. *)
THEOREM GiveUpCorrect == Spec => []GiveUpJustified
<1>1. IInv => GiveUpJustified
  BY DEF IInv
<1> QED BY <1>1, Invariance, PTL

-----------------------------------------------------------------------------
(* A step that sends a request is one of these two. *)
LEMMA RequestStep ==
    ASSUME IInv, [Next]_vars, requests' > requests
    PROVE  \/ \E took \in Durations, taken \in {0, 1} : LoseRequest(took, taken)
           \/ \E r \in Responses, took \in Durations, taken \in {0, 1} :
                   Respond(r, took, taken)
<1>1. requests \in Nat
  BY DEF IInv, TypeOK
<1>2. requests' # requests
  BY <1>1
<1>3. ~ UNCHANGED worldVars
  BY <1>2 DEF worldVars
<1> QED BY <1>3 DEF Next, vars, ExpiredBeforeAttempt, BuildFails, GiveUp,
           WaitTooLong, Backoff, Wake, SleepInterrupted

(* A request is only repeated after a transient failure. *)
LEMMA RetryStep ==
    IInv /\ [Next]_vars =>
        (requests' > requests /\ requests > 0 =>
            LastOutcome.err.class \in {RateLimited, ServerFault, Unreachable})
<1> SUFFICES ASSUME IInv, [Next]_vars, requests' > requests, requests > 0
             PROVE  LastOutcome.err.class \in Transient
  BY DEF Transient
<1>2. pc = "top"
  BY RequestStep DEF LoseRequest, Respond
<1>3. LastOutcome.retryable
  BY <1>2 DEF IInv, Remembers
<1> QED BY <1>2, <1>3, LastOutcomeLemma

(* Whatever has failed, a request is only repeated after an answer that    *)
(* may change by itself (shouldRetry, isRetryable, isWorkerRetryable).     *)
THEOREM RetryCorrect == Spec => RetryOnlyWhenTemporary
BY Invariance, RetryStep, PTL DEF Spec, RetryOnlyWhenTemporary

-----------------------------------------------------------------------------
(* Retry-After.  The seconds the upstream asks for must fit a Duration:    *)
(* without this both theorems are false, as the behaviour that             *)
(* MCSendLoopOverflow finds shows.                                         *)
NoOverflow ==
    \A r \in Responses :
        r.retryAfter.form = "seconds" => r.retryAfter.value * Second <= DurationMax

(* When the next request may leave, and how long the loop agreed to wait.  *)
Patient ==
    endpointOK =>
        /\ pc = "failed" => notBefore <= elapsed + RequestedWait(answer)
        /\ pc = "sleep"  => /\ notBefore <= elapsed + delay
                            /\ RequestedWait(answer) <= RetryCapDelay
        /\ pc = "top"    => /\ notBefore <= elapsed
                            /\ RequestedWait(answer) <= RetryCapDelay

(* Where nothing overflows the loop waits what HTTP says it should.        *)
LEMMA ExactHintLemma ==
    ASSUME NoOverflow, NEW r \in Responses \cup {NoResponse}
    PROVE  Hint(r) = RequestedWait(r)
<1>1. CASE r \in Responses
  <2>1. /\ r.retryAfter.form \in {"none", "seconds", "date"}
        /\ r.retryAfter.value \in Int
    BY <1>1, SendLoopAssumption
  <2>2. r.retryAfter.value >= 0 => r.retryAfter.value * Second \in Nat
    BY <2>1, SendLoopAssumption
  <2>3. r.retryAfter.value >= 0 /\ r.retryAfter.form = "seconds" =>
            Wrap(r.retryAfter.value * Second) = r.retryAfter.value * Second
    BY <1>1, <2>2, WrapLemma DEF NoOverflow
  <2> QED BY <2>1, <2>3 DEF Hint, parseRetryAfter, RequestedWait
<1>2. CASE r = NoResponse
  BY <1>2 DEF Hint, RequestedWait, NoResponse, Response
<1> QED BY <1>1, <1>2

LEMMA PatientStep ==
    ASSUME NoOverflow, IInv, Patient, [Next]_vars
    PROVE  Patient'
<1>1. /\ elapsed \in Nat /\ delay \in Nat /\ notBefore \in Nat
      /\ retryAfter \in Int /\ answer \in Responses \cup {NoResponse}
      /\ RequestedWait(answer) \in Nat /\ RetryCapDelay \in Nat
  BY AnswerLemma, SendLoopAssumption DEF IInv, TypeOK
<1>2. ASSUME NEW took \in Durations, NEW taken \in {0, 1},
             LoseRequest(took, taken)
      PROVE  Patient'
  <2>1. elapsed + took \in Nat
    BY <1>2, DurationsLemma DEF LoseRequest, IInv
  <2>2. RequestedWait(NoResponse) \in Nat
    BY AnswerLemma
  <2> QED BY <1>2, <2>1, <2>2 DEF LoseRequest, AttemptFailed, Patient
<1>3. ASSUME NEW r \in Responses, NEW took \in Durations,
             NEW taken \in {0, 1}, Respond(r, took, taken)
      PROVE  Patient'
  <2>1. elapsed + took \in Nat /\ RequestedWait(r) \in Nat
    BY <1>3, DurationsLemma, AnswerLemma DEF Respond, IInv
  <2>2. pc' \in {"failed", "done"}
    BY <1>3 DEF Respond, Return, AttemptFailed
  <2> QED BY <1>3, <2>1, <2>2 DEF Respond, Patient
<1>4. ASSUME NEW d \in backoffDelays, Backoff(d) PROVE Patient'
  <2>1. /\ pc = "failed" /\ pc' = "sleep" /\ delay' = d /\ d <= RetryCapDelay
        /\ UNCHANGED <<elapsed, answer, notBefore, endpointOK>>
    BY <1>4 DEF Backoff, ContextAlive, worldVars
  <2>2. endpointOK => retryAfter = RequestedWait(answer)
    BY <1>1, <2>1, ExactHintLemma DEF IInv, Hinted
  <2>3. endpointOK => RequestedWait(answer) <= d /\ d \in Int
    <3>1. CASE retryAfter > 0
      BY <1>1, <2>2, <3>1 DEF backoffDelays
    <3>2. CASE ~(retryAfter > 0)
      BY <1>1, <2>2, <3>2 DEF backoffDelays, Jitter
    <3> QED BY <3>1, <3>2
  <2> QED BY <1>1, <2>1, <2>3 DEF Patient
<1>5. CASE Wake
  BY <1>1, <1>5 DEF Wake, Patient, worldVars
<1>6. CASE BuildFails
  BY <1>6 DEF BuildFails, Patient, worldVars
<1>7. ASSUME pc' = "done" PROVE Patient'
  BY <1>7 DEF Patient
<1>8. CASE UNCHANGED vars
  BY <1>8 DEF vars, loopVars, worldVars, Patient
<1>9. ExpiredBeforeAttempt \/ GiveUp \/ SleepInterrupted
        \/ (\E d \in backoffDelays : WaitTooLong(d)) => pc' = "done"
  BY DEF ExpiredBeforeAttempt, GiveUp, SleepInterrupted, WaitTooLong,
         ReturnError, Return
<1> QED BY <1>2, <1>3, <1>4, <1>5, <1>6, <1>7, <1>8, <1>9 DEF Next

LEMMA PatientInit == Init => Patient
<1>1. RequestedWait(NoResponse) = 0
  BY DEF RequestedWait, NoResponse, Response
<1> QED BY <1>1, SendLoopAssumption DEF Init, Patient

(* The loop is patient as long as no Retry-After overflows. *)
THEOREM PatienceInvariance == ASSUME NoOverflow PROVE Spec => []Patient
<1>1. IInv /\ Patient /\ [Next]_vars => Patient'
  BY PatientStep
<1> QED BY <1>1, Invariance, PatientInit, PTL DEF Spec

(* A request that leaves finds the loop at its top, on a working endpoint. *)
LEMMA PatientRequest ==
    IInv /\ Patient /\ [Next]_vars =>
        (requests' > requests =>
            elapsed >= notBefore /\ RequestedWait(answer) <= RetryCapDelay)
<1> SUFFICES ASSUME IInv, Patient, [Next]_vars, requests' > requests
             PROVE  elapsed >= notBefore /\ RequestedWait(answer) <= RetryCapDelay
  OBVIOUS
<1>1. pc = "top" /\ endpointOK
  BY RequestStep DEF LoseRequest, Respond
<1>2. elapsed \in Nat /\ notBefore \in Nat
  BY DEF IInv, TypeOK
<1> QED BY <1>1, <1>2 DEF Patient

(* No request leaves before the moment Retry-After asked to wait for       *)
(* (parseRetryAfter, backoffDelay, sleepContext).                          *)
THEOREM RetryAfterCorrect == ASSUME NoOverflow PROVE Spec => RetryAfterHonoured
BY PatienceInvariance, Invariance, PatientRequest, PTL
   DEF Spec, RetryAfterHonoured

(* No request follows a Retry-After beyond the cap (send.go:72-76).        *)
THEOREM LongRetryAfterCorrect ==
    ASSUME NoOverflow PROVE Spec => LongRetryAfterTerminal
BY PatienceInvariance, Invariance, PatientRequest, PTL
   DEF Spec, LongRetryAfterTerminal

-----------------------------------------------------------------------------
(* The relay's own credential.  It is not retried where the upstream names *)
(* it; what it must not do is answer 401 or 403 in a body that does not    *)
(* decode, as MCSendLoopCredential shows, or name another fault that may   *)
(* pass: the code wins over the status (isRetryable, isWorkerRetryable).   *)
PassingCodes == IF Transport = "rest" THEN RateCodes \cup ServerCodes
                                      ELSE WorkerRateCodes

CredentialNamed ==
    \A r \in Responses :
        r.status \in {401, 403} => /\ r.body.kind # "unreadable"
                                  /\ r.body.code \notin PassingCodes

(* Before the first request there is no answer. *)
Unasked == requests = 0 => answer = NoResponse

LEMMA UnaskedStep == ASSUME IInv, Unasked, [Next]_vars PROVE Unasked'
<1>1. requests \in Nat
  BY DEF IInv, TypeOK
<1>2. CASE UNCHANGED worldVars
  BY <1>2 DEF worldVars, Unasked
<1>3. CASE requests' = requests + 1
  BY <1>1, <1>3 DEF Unasked
<1> QED BY <1>2, <1>3 DEF Next, vars, ExpiredBeforeAttempt, BuildFails,
           LoseRequest, Respond, GiveUp, WaitTooLong, Backoff, Wake,
           SleepInterrupted

(* A named credential fault is final. *)
LEMMA CredentialFinal ==
    ASSUME CredentialNamed, NEW r \in Responses, NEW n \in Nat,
           r.status \in {401, 403}, ~parse(r.status, r.body, n).ok
    PROVE  ~parse(r.status, r.body, n).retryable
<1>1. r.body \in Bodies
  BY SendLoopAssumption
<1>2. r.body.kind = "failure"
  BY <1>1 DEF CredentialNamed, Bodies, parse, parseRESTResponse,
              parseWorkerResponse, Outcome
<1>3. CASE Transport = "rest"
  <2>1. ~isRetryable(r.status, r.body.code)
    BY <1>3 DEF CredentialNamed, PassingCodes, isRetryable, codeBuckets, Bucket,
       KnownCodes, RateCodes, ServerCodes, RelayCodes, InvalidCodes, MissingCodes
  <2> QED BY <1>2, <1>3, <2>1 DEF parse, parseRESTResponse, Outcome
<1>4. CASE Transport # "rest"
  <2>1. ~isWorkerRetryable(r.status, r.body.code)
    BY <1>4 DEF CredentialNamed, PassingCodes, isWorkerRetryable, isRetryable,
       workerCodeBuckets, Bucket, WorkerKnownCodes, NoCode,
       KnownCodes, RateCodes, ServerCodes, RelayCodes, InvalidCodes, MissingCodes
  <2> QED BY <1>2, <1>4, <2>1 DEF parse, parseWorkerResponse, Outcome
<1> QED BY <1>3, <1>4

LEMMA CredentialStep ==
    ASSUME CredentialNamed
    PROVE  IInv /\ Unasked /\ [Next]_vars =>
               (requests' > requests => answer.status \notin {401, 403})
<1> SUFFICES ASSUME IInv, Unasked, [Next]_vars, requests' > requests,
                    answer.status \in {401, 403}
             PROVE  FALSE
  OBVIOUS
<1>1. pc = "top"
  BY RequestStep DEF LoseRequest, Respond
<1>2. answer # NoResponse
  BY DEF NoResponse, Response
<1>3. answer \in Responses /\ requests \in Nat /\ requests > 0
  BY <1>2 DEF IInv, TypeOK, Unasked
<1>4. ~LastOutcome.ok /\ LastOutcome.retryable
  BY <1>1, <1>3 DEF IInv, Remembers
<1> QED BY <1>3, <1>4, CredentialFinal DEF LastOutcome

(* "A 401/403 [...] must never" be retried (classify.go:128-131): true of  *)
(* an upstream that says so in JSON.                                       *)
THEOREM CredentialCorrect ==
    ASSUME CredentialNamed PROVE Spec => CredentialErrorsNotRetried
<1>1. Init => Unasked
  BY DEF Init, Unasked
<1>2. IInv /\ Unasked /\ [Next]_vars => Unasked'
  BY UnaskedStep
<1> QED BY <1>1, <1>2, Invariance, CredentialStep, PTL
        DEF Spec, CredentialErrorsNotRetried

-----------------------------------------------------------------------------
(* What is left of the loop at most, in steps: three for every attempt     *)
(* still allowed, itself, its evaluation and the sleep after it.           *)
StepsAt(where) ==
    CASE where = "top"    -> 3
      [] where = "failed" -> 2
      [] where = "sleep"  -> 1
      [] where = "done"   -> 0

StepsLeft == 3 * (MaxRetries + 1 - attempt) + StepsAt(pc)

LEMMA StepsDecrease ==
    IInv /\ [Next]_vars => (StepsLeft' < StepsLeft \/ UNCHANGED vars)
<1> SUFFICES ASSUME IInv, Next PROVE StepsLeft' < StepsLeft
  OBVIOUS
<1>1. MaxRetries \in Nat /\ attempt \in Nat
  BY SendLoopAssumption DEF IInv, TypeOK
<1>2. ASSUME attempt' = attempt,
             \/ pc = "top" /\ pc' \in {"failed", "done"}
             \/ pc = "failed" /\ pc' \in {"sleep", "done"}
             \/ pc = "sleep" /\ pc' = "done"
      PROVE  StepsLeft' < StepsLeft
  BY <1>1, <1>2 DEF StepsLeft, StepsAt
<1>3. CASE Wake
  BY <1>1, <1>3 DEF Wake, StepsLeft, StepsAt
<1>4. CASE ExpiredBeforeAttempt \/ BuildFails
  BY <1>2, <1>4 DEF ExpiredBeforeAttempt, BuildFails, ReturnError, Return,
     AttemptFailed, loopVars
<1>5. ASSUME NEW took \in Durations, NEW taken \in {0, 1},
             LoseRequest(took, taken)
      PROVE  StepsLeft' < StepsLeft
  BY <1>2, <1>5 DEF LoseRequest, AttemptFailed
<1>6. ASSUME NEW r \in Responses, NEW took \in Durations,
             NEW taken \in {0, 1}, Respond(r, took, taken)
      PROVE  StepsLeft' < StepsLeft
  <2>1. /\ pc = "top" /\ pc' \in {"failed", "done"}
        /\ attempt' = attempt
    BY <1>6 DEF Respond, Return, AttemptFailed, loopVars
  <2> QED BY <1>2, <2>1
<1>7. CASE GiveUp \/ SleepInterrupted
  BY <1>2, <1>7 DEF GiveUp, SleepInterrupted, ReturnError, Return, loopVars
<1>8. ASSUME NEW d \in backoffDelays, WaitTooLong(d) \/ Backoff(d)
      PROVE  StepsLeft' < StepsLeft
  BY <1>2, <1>8 DEF WaitTooLong, Backoff, ReturnError, Return, loopVars
<1> QED BY <1>3, <1>4, <1>5, <1>6, <1>7, <1>8 DEF Next

(* Send is over after at most 3 * (MaxRetries + 1) steps, whatever the     *)
(* upstream does; with the fairness of FairSpec this is why Termination    *)
(* holds.                                                                  *)
THEOREM StepsBounded ==
    Spec => /\ [](StepsLeft \in 0..(3 * (MaxRetries + 1)))
            /\ [][StepsLeft' < StepsLeft]_vars
<1>1. IInv => StepsLeft \in 0..(3 * (MaxRetries + 1))
  BY SendLoopAssumption DEF IInv, TypeOK, StepsLeft, StepsAt
<1>2. IInv /\ [Next]_vars => [StepsLeft' < StepsLeft]_vars
  BY StepsDecrease
<1> QED BY <1>1, <1>2, Invariance, PTL DEF Spec

-----------------------------------------------------------------------------
(* Every step of the loop is a step of Delivery or leaves it unchanged.    *)
LEMMA SenderStep == IInv /\ [Next]_vars => [Sender!Next]_Sender!vars
<1> SUFFICES ASSUME IInv, [Next]_vars PROVE [Sender!Next]_Sender!vars
  OBVIOUS
<1> USE DEF Sender!Next, Sender!vars
<1>1. ASSUME NEW err \in Errors, pc # "done", ReturnError(err),
             UNCHANGED worldVars
      PROVE  Sender!Fail
  <2>1. result'.kind = "error" /\ result.kind = "none"
    BY <1>1 DEF ReturnError, Return, IInv, Remembers, NoResult
  <2>2. Verdict = "pending" /\ Verdict' \in {"deferred", "rejected"}
    BY <2>1 DEF Verdict
  <2> QED BY <1>1, <2>2 DEF Sender!Fail, worldVars
<1>2. ASSUME pc # "done", UNCHANGED result PROVE Verdict = "pending" /\ Verdict' = "pending"
  BY <1>2 DEF Verdict, IInv, Remembers, NoResult
<1>3. CASE ExpiredBeforeAttempt
  <2>1. attempt - 1 \in Nat
    BY SendLoopAssumption DEF IInv, TypeOK
  <2>2. /\ lastErr \in Errors
        /\ classifyTransport(attempt - 1) \in Errors
    BY <2>1, TransportLemma DEF IInv, TypeOK
  <2> QED BY <1>1, <1>3, <2>2 DEF ExpiredBeforeAttempt
<1>4. CASE BuildFails
  BY <1>2, <1>4 DEF BuildFails, AttemptFailed, worldVars
<1>5. ASSUME NEW took \in Durations, NEW taken \in {0, 1},
             LoseRequest(took, taken)
      PROVE  Sender!LoseAnswer
  <2>1. unanswered < MaxRetries + 1 /\ accepted \in Nat
    BY <1>5, SendLoopAssumption DEF LoseRequest, IInv, InStep, TypeOK
  <2> QED BY <1>2, <1>5, <2>1
          DEF LoseRequest, AttemptFailed, Sender!LoseAnswer
<1>6. ASSUME NEW r \in Responses, NEW took \in Durations,
             NEW taken \in {0, 1}, Respond(r, took, taken)
      PROVE  [Sender!Next]_Sender!vars
  <2>1. unanswered < MaxRetries + 1 /\ accepted \in Nat
    BY <1>6, SendLoopAssumption DEF Respond, IInv, InStep, TypeOK
  <2>2. r.status \in Nat /\ r.body \in Bodies /\ attempt \in Nat
    BY AnswerLemma DEF IInv, TypeOK
  <2>3. /\ parse(r.status, r.body, attempt).ok <=> r.body.kind = "success"
        /\ r.body.kind \in {"success", "failure", "unreadable"}
    BY <2>2, ParseLemma DEF Bodies
  <2>4. CASE r.body.kind = "success"
    <3>1. result'.kind = "sent" /\ result.kind = "none"
      BY <1>6, <2>3, <2>4 DEF Respond, Return, IInv, Remembers, NoResult
    <3> QED BY <1>6, <2>1, <2>4, <3>1 DEF Respond, Verdict, Sender!Succeed
  <2>5. CASE r.body.kind = "unreadable"
    <3>1. Verdict = "pending" /\ Verdict' = "pending"
      BY <1>2, <1>6, <2>3, <2>5 DEF Respond, AttemptFailed
    <3> QED BY <1>6, <2>1, <2>5, <3>1 DEF Respond, Sender!LoseAnswer
  <2>6. CASE r.body.kind = "failure"
    <3>1. Verdict = "pending" /\ Verdict' = "pending"
      BY <1>2, <1>6, <2>3, <2>6 DEF Respond, AttemptFailed
    <3> QED BY <1>6, <2>1, <2>6, <3>1 DEF Respond
  <2> QED BY <2>3, <2>4, <2>5, <2>6
<1>7. CASE GiveUp
  BY <1>1, <1>7 DEF GiveUp, IInv, TypeOK
<1>8. ASSUME NEW d \in backoffDelays, WaitTooLong(d) PROVE Sender!Fail
  BY <1>1, <1>8 DEF WaitTooLong, IInv, TypeOK
<1>9. ASSUME NEW d \in backoffDelays, Backoff(d)
      PROVE  UNCHANGED Sender!vars
  BY <1>2, <1>9 DEF Backoff, worldVars
<1>10. CASE Wake
  BY <1>2, <1>10 DEF Wake, worldVars
<1>11. CASE SleepInterrupted
  <2>1. classifyTransport(attempt) \in Errors
    BY TransportLemma DEF IInv, TypeOK
  <2> QED BY <1>1, <1>11, <2>1 DEF SleepInterrupted
<1>12. CASE UNCHANGED vars
  BY <1>12 DEF vars, worldVars, Verdict
<1> QED BY <1>3, <1>4, <1>5, <1>6, <1>7, <1>8, <1>9, <1>10, <1>11, <1>12
        DEF Next

(* The loop implements the port: whatever it does inside, its caller sees  *)
(* a Delivery.                                                             *)
THEOREM Implementation == Spec => ImplementsSender
<1>1. Init => Sender!Init
  BY DEF Init, Sender!Init, Verdict, NoResult
<1> QED BY <1>1, Invariance, SenderStep, PTL
        DEF Spec, ImplementsSender, Sender!Spec
=============================================================================
