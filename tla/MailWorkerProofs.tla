--------------------------- MODULE MailWorkerProofs ---------------------------
(***************************************************************************)
(* One call of Data over the Worker transport, for a message with any      *)
(* number of parts and any number of requests.                             *)
(*                                                                         *)
(* First the parse: its properties speak of the whole message, and the     *)
(* inductive invariant says the same of the parts already looked at.  Then *)
(* the call: what an invocation has answered says what became of its       *)
(* message (Answered), and the relay has drawn no other conclusion from    *)
(* the answers it has read (Decided), although invocations it no longer    *)
(* waits for go on beside the one it hears.                                *)
(***************************************************************************)
EXTENDS MailWorker, TLAPS

(* c is what the last part of this kind among the first n says. *)
Said(parts, n, kind, c) ==
    \/ c = Empty /\ \A k \in 1..n : parts[k].kind # kind
    \/ \E k \in 1..n : /\ parts[k] = [kind |-> kind, body |-> c]
                       /\ \A l \in 1..n : l > k => parts[l].kind # kind

SaidSoFar ==
    /\ Said(mail.parts, next - 1, "plain", text)
    /\ Said(mail.parts, next - 1, "html", html)

(* Part k would make the parse fail. *)
Fatal(k) ==
    \/ mail.parts[k].kind = "error"
    \/ mail.parts[k].kind \in Inline /\ mail.parts[k].body = Garbled

ParseInv ==
    /\ ParseTypeOK
    /\ SaidSoFar
    /\ parse # "failed" => mail.header /\ \A k \in 1..(next - 1) : ~Fatal(k)
    /\ parse = "parsed" => next = Len(mail.parts) + 1
    /\ parse = "failed" => ~mail.header \/ \E k \in DOMAIN mail.parts : Fatal(k)

-----------------------------------------------------------------------------
(* The part NextPart comes to is a part. *)
LEMMA PartLemma ==
    ASSUME ParseInv, next <= Len(mail.parts)
    PROVE  /\ next \in DOMAIN mail.parts /\ mail.parts[next] \in Parts
           /\ Len(mail.parts) \in Nat /\ next \in Nat
           /\ DOMAIN mail.parts = 1..Len(mail.parts)
<1>1. mail.parts \in Seq(Parts)
  BY ParsingAssumption DEF ParseInv, ParseTypeOK, MailShapes
<1> QED BY <1>1 DEF ParseInv, ParseTypeOK

(* A further part of another kind leaves what a kind has said; one of this *)
(* kind is the last to have spoken.                                        *)
LEMMA AdvanceLemma ==
    ASSUME NEW parts \in Seq(Parts), NEW n \in Nat, n + 1 <= Len(parts),
           NEW kind, NEW c
    PROVE  /\ Said(parts, n, kind, c) /\ parts[n + 1].kind # kind
                => Said(parts, n + 1, kind, c)
           /\ parts[n + 1].kind = kind
                => Said(parts, n + 1, kind, parts[n + 1].body)
<1>1. 1..(n + 1) = 1..n \cup {n + 1}
  OBVIOUS
<1>2. parts[n + 1] \in Parts
  OBVIOUS
<1>3. \A l \in 1..(n + 1) : ~(l > n + 1)
  OBVIOUS
<1>4. ASSUME Said(parts, n, kind, c), parts[n + 1].kind # kind
      PROVE  Said(parts, n + 1, kind, c)
  <2>1. CASE c = Empty /\ \A k \in 1..n : parts[k].kind # kind
    BY <1>1, <1>4, <2>1 DEF Said
  <2>2. ASSUME NEW k \in 1..n, parts[k] = [kind |-> kind, body |-> c],
               \A l \in 1..n : l > k => parts[l].kind # kind
        PROVE  Said(parts, n + 1, kind, c)
    BY <1>1, <1>4, <2>2 DEF Said
  <2> QED BY <1>4, <2>1, <2>2 DEF Said
<1>5. ASSUME parts[n + 1].kind = kind
      PROVE  Said(parts, n + 1, kind, parts[n + 1].body)
  <2>1. parts[n + 1] = [kind |-> kind, body |-> parts[n + 1].body]
    BY <1>2, <1>5 DEF Parts
  <2> QED BY <1>1, <1>3, <2>1 DEF Said
<1> QED BY <1>4, <1>5

LEMMA ParseInitLemma == ParseInit => ParseInv
<1> SUFFICES ASSUME ParseInit PROVE ParseInv
  OBVIOUS
<1>1. mail \in Mails /\ mail.parts \in Seq(Parts) /\ mail.header \in BOOLEAN
  BY ParsingAssumption DEF ParseInit, MailShapes
<1>2. next = 1 /\ 1..(next - 1) = {}
  BY DEF ParseInit
<1>3. ParseTypeOK
  BY <1>1, <1>2, ParsingAssumption DEF ParseInit, ParseTypeOK
<1> QED BY <1>1, <1>2, <1>3 DEF ParseInit, ParseInv, SaidSoFar, Said

LEMMA ParseStepLemma == ParseInv /\ [ParseNext]_parseVars => ParseInv'
<1> SUFFICES ASSUME ParseInv, [ParseNext]_parseVars PROVE ParseInv'
  OBVIOUS
<1>1. CASE EndOfMail
  <2>1. next = Len(mail.parts) + 1
    <3>1. mail.parts \in Seq(Parts)
      BY ParsingAssumption DEF ParseInv, ParseTypeOK, MailShapes
    <3> QED BY <1>1, <3>1 DEF ParseInv, ParseTypeOK, EndOfMail
  <2> QED BY <1>1, <2>1
          DEF ParseInv, ParseTypeOK, EndOfMail, SaidSoFar, Fatal
<1>2. CASE BrokenMail
  <2>1. next \in DOMAIN mail.parts /\ Fatal(next)
    BY <1>2, PartLemma DEF BrokenMail, Fatal
  <2> QED BY <1>2, <2>1
          DEF BrokenMail, ParseFails, ParseInv, ParseTypeOK, SaidSoFar, Fatal
<1>3. CASE UnreadablePart
  <2>1. next \in DOMAIN mail.parts /\ Fatal(next)
    BY <1>3, PartLemma DEF UnreadablePart, Fatal
  <2> QED BY <1>3, <2>1
          DEF UnreadablePart, ParseFails, ParseInv, ParseTypeOK, SaidSoFar, Fatal
<1>4. CASE SkipPart \/ ReadPart
  <2>1. /\ next <= Len(mail.parts) /\ next' = next + 1
        /\ mail' = mail /\ parse' = parse /\ parse = "reading"
    BY <1>4 DEF SkipPart, ReadPart
  <2>2. /\ ~Fatal(next) /\ mail.parts[next] \in Parts
    BY <1>4, <2>1, PartLemma DEF SkipPart, ReadPart, Fatal, Inline
  <2>3. SaidSoFar'
    <3>1. /\ mail.parts \in Seq(Parts) /\ next - 1 \in Nat
          /\ (next - 1) + 1 = next /\ next' - 1 = next
      BY <2>1, PartLemma, ParsingAssumption
      DEF ParseInv, ParseTypeOK, MailShapes
    <3>2. ASSUME NEW kind, NEW c
          PROVE  /\ Said(mail.parts, next - 1, kind, c)
                       /\ mail.parts[next].kind # kind
                    => Said(mail.parts, next, kind, c)
                 /\ mail.parts[next].kind = kind
                    => Said(mail.parts, next, kind, mail.parts[next].body)
      BY <2>1, <3>1, AdvanceLemma
    <3>3. CASE SkipPart
      BY <2>1, <3>1, <3>2, <3>3 DEF SkipPart, ParseInv, SaidSoFar
    <3>4. CASE ReadPart
      BY <2>1, <3>1, <3>2, <3>4 DEF ReadPart, ParseInv, SaidSoFar
    <3> QED BY <1>4, <3>3, <3>4
  <2>4. ParseTypeOK'
    <3>1. next' \in 1..(Len(mail.parts) + 1)
      BY <2>1, PartLemma DEF ParseInv, ParseTypeOK
    <3>2. text' \in Contents /\ html' \in Contents
      BY <1>4, <2>2 DEF SkipPart, ReadPart, ParseInv, ParseTypeOK, Parts
    <3> QED BY <2>1, <3>1, <3>2 DEF ParseInv, ParseTypeOK
  <2>5. \A k \in 1..(next' - 1) : ~Fatal(k)
    <3>1. 1..(next' - 1) = 1..(next - 1) \cup {next}
      BY <2>1, PartLemma DEF ParseInv, ParseTypeOK
    <3> QED BY <2>1, <2>2, <3>1 DEF ParseInv
  <2> QED BY <2>1, <2>3, <2>4, <2>5 DEF ParseInv, Fatal
<1>5. CASE UNCHANGED parseVars
  BY <1>5 DEF parseVars, ParseInv, ParseTypeOK, SaidSoFar, Fatal
<1> QED BY <1>1, <1>2, <1>3, <1>4, <1>5 DEF ParseNext

(* ParseInv is an invariant of the parse (Parse, readBodyParts).            *)
THEOREM ParseInvariance == ParseSpec => []ParseInv
BY ParseInitLemma, ParseStepLemma, PTL DEF ParseSpec

(* What the parse leaves behind of each kind of text is its last part.     *)
LEMMA DeliveredLemma == ParseInv => LastPartsDelivered
<1> SUFFICES ASSUME ParseInv, parse = "parsed"
             PROVE  SaidLast(text, "plain") /\ SaidLast(html, "html")
  BY DEF LastPartsDelivered
<1>1. mail.parts \in Seq(Parts)
  BY ParsingAssumption DEF ParseInv, ParseTypeOK, MailShapes
<1>2. DOMAIN mail.parts = 1..(next - 1)
  BY <1>1 DEF ParseInv
<1> QED BY <1>2 DEF ParseInv, SaidSoFar, Said, SaidLast

LEMMA ReasonLemma == ParseInv => ParseFailsWithReason
<1> SUFFICES ASSUME ParseInv, parse # "reading" PROVE ParseFailsWithReason
  BY DEF ParseFailsWithReason
<1>1. mail.parts \in Seq(Parts)
  BY ParsingAssumption DEF ParseInv, ParseTypeOK, MailShapes
<1>2. parse = "parsed" => DOMAIN mail.parts = 1..(next - 1)
  BY <1>1 DEF ParseInv
<1> QED BY <1>2 DEF ParseInv, ParseTypeOK, ParseFailsWithReason, Fatal

-----------------------------------------------------------------------------
(* The call of Data.  What the Worker may answer, by who answers: fetch's  *)
(* checks, the binding, or the platform.                                   *)
Sent == Answer(200, Relay!Success)

CheckRefusals ==
    {Refusal(500, "E_NOT_CONFIGURED"), Refusal(401, "E_UNAUTHORIZED"),
     Refusal(413, "E_TOO_BIG"), Refusal(400, "E_INVALID_REQUEST")}

BindingRefusals == {Refusal(statusForCode(code), code) : code \in BindingCodes}

Answers == {NoAnswer, ErrorPage, Sent} \cup CheckRefusals \cup BindingRefusals

(* The codes after which another request is of no use. *)
Hopeless == MessageFaults \cup {"E_UNAUTHORIZED"}

(* What was answered, and of which requests. *)
Answered ==
    /\ response \in [Requests -> Answers]
    /\ \A i \in Requests :
        /\ i > requests => invocation[i] = "none"
        /\ invocation[i] # "over" => response[i] = NoAnswer
        /\ response[i].body = Relay!Success => i \in taken
        /\ i \in taken => response[i].body \in {Relay!Success, Relay!Unreadable}
        /\ response[i].body.code = "E_INVALID_REQUEST" => ~Complete

(* A message is sent once it has parsed, and decided by its parse or by    *)
(* what was last heard.                                                    *)
Decided ==
    /\ parse # "parsed" => requests = 0
    /\ parse = "reading" => verdict = "pending"
    /\ parse = "failed" => verdict = "rejected"
    /\ waiting => verdict = "pending"
    /\ verdict = "sent" => requests \in taken
    /\ \A i \in heard :
        /\ response[i].body # Relay!Unreadable
        /\ response[i].body = Relay!Success => verdict = "sent"
        /\ verdict = "pending" => response[i].body.code \notin Hopeless

IInv == TypeOK /\ Answered /\ Decided /\ RejectedForTheMessage

-----------------------------------------------------------------------------
(* The two tables and their fallbacks, for the statuses the Worker uses.   *)
LEMMA StatusLemma ==
    ASSUME NEW n
    PROVE  /\ Relay!classifyHTTP(500, Relay!NoCode, n).class = Relay!ServerFault
           /\ Relay!classifyHTTP(502, Relay!NoCode, n).class = Relay!ServerFault
           /\ Relay!classifyHTTP(401, Relay!NoCode, n).class = Relay!RelayRefused
           /\ Relay!classifyHTTP(400, Relay!NoCode, n).class = Relay!Invalid
           /\ Relay!classifyHTTP(413, Relay!NoCode, n).class = Relay!Invalid
           /\ ~Relay!isRetryable(401, Relay!NoCode)
           /\ ~Relay!isRetryable(400, Relay!NoCode)
           /\ ~Relay!isRetryable(413, Relay!NoCode)
<1>1. Relay!NoCode \notin Relay!KnownCodes
  BY DEF Relay!NoCode, Relay!KnownCodes, Relay!RateCodes, Relay!ServerCodes,
         Relay!RelayCodes, Relay!InvalidCodes, Relay!MissingCodes
<1>2. /\ Relay!StatusClass(500) = Relay!ServerFault
      /\ Relay!StatusClass(502) = Relay!ServerFault
      /\ Relay!StatusClass(401) = Relay!RelayRefused
      /\ Relay!StatusClass(400) = Relay!Invalid
      /\ Relay!StatusClass(413) = Relay!Invalid
  BY DEF Relay!StatusClass
<1> QED BY <1>1, <1>2
        DEF Relay!classifyHTTP, Relay!isRetryable, Relay!DeliveryError

(* The codes of the checks are in no table. *)
LEMMA CheckCodesLemma ==
    ASSUME NEW code \in {"E_NOT_CONFIGURED", "E_UNAUTHORIZED", "E_TOO_BIG",
                         "E_INVALID_REQUEST"}
    PROVE  /\ code \notin Relay!WorkerKnownCodes
           /\ code \in MessageFaults <=> code \in {"E_INVALID_REQUEST", "E_TOO_BIG"}
BY DEF Relay!WorkerKnownCodes, Relay!WorkerRateCodes, Relay!WorkerPartyCodes,
       MessageFaults

(* What the relay concludes from a refusal of fetch's checks. *)
LEMMA CheckLemma ==
    ASSUME NEW a \in CheckRefusals, NEW n
    PROVE  LET out == Relay!parseWorkerResponse(a.status, a.body, n)
           IN  /\ a.body.kind = "failure" /\ out.ok = FALSE
               /\ a.body.code \in MessageFaults => out.err.class.temporary = FALSE
               /\ a.body.code \notin MessageFaults => out.err.class.temporary = TRUE
               /\ out.retryable => a.body.code \notin Hopeless
<1> DEFINE out == Relay!parseWorkerResponse(a.status, a.body, n)
<1>1. PICK status, code :
        /\ a = Refusal(status, code)
        /\ \/ status = 500 /\ code = "E_NOT_CONFIGURED"
           \/ status = 401 /\ code = "E_UNAUTHORIZED"
           \/ status = 413 /\ code = "E_TOO_BIG"
           \/ status = 400 /\ code = "E_INVALID_REQUEST"
  BY DEF CheckRefusals
<1>2. /\ code \notin Relay!WorkerKnownCodes
      /\ code \in MessageFaults <=> code \in {"E_INVALID_REQUEST", "E_TOO_BIG"}
  BY <1>1, CheckCodesLemma
<1>3. /\ Relay!classifyWorkerCode(status, code, n)
            = Relay!classifyHTTP(status, Relay!NoCode, n)
      /\ Relay!isWorkerRetryable(status, code)
            = Relay!isRetryable(status, Relay!NoCode)
  BY <1>2 DEF Relay!classifyWorkerCode, Relay!isWorkerRetryable
<1>4. /\ Relay!ServerFault.temporary = TRUE /\ Relay!RelayRefused.temporary = TRUE
      /\ Relay!Invalid.temporary = FALSE
  BY DEF Relay!ServerFault, Relay!RelayRefused, Relay!Invalid, Relay!Class
<1>5. /\ code \in MessageFaults =>
            Relay!classifyWorkerCode(status, code, n).class.temporary = FALSE
      /\ code \notin MessageFaults =>
            Relay!classifyWorkerCode(status, code, n).class.temporary = TRUE
      /\ Relay!isWorkerRetryable(status, code) => code \notin Hopeless
  BY <1>1, <1>2, <1>3, <1>4, StatusLemma DEF Hopeless
<1>6. /\ a.body.code = code /\ a.body.kind = "failure" /\ out.ok = FALSE
      /\ out.err = Relay!classifyWorkerCode(status, code, n)
      /\ out.retryable = Relay!isWorkerRetryable(status, code)
  <2>1. /\ a.body.code = code /\ a.body.kind = "failure"
        /\ out = Relay!Outcome(FALSE, Relay!classifyWorkerCode(status, code, n),
                               Relay!isWorkerRetryable(status, code))
    BY <1>1 DEF Refusal, Answer, Relay!Failure, Relay!parseWorkerResponse
  <2> QED BY <2>1 DEF Relay!Outcome
<1> HIDE DEF out
<1>7. /\ a.body.code \in MessageFaults => out.err.class.temporary = FALSE
      /\ a.body.code \notin MessageFaults => out.err.class.temporary = TRUE
      /\ out.retryable => a.body.code \notin Hopeless
  BY <1>5, <1>6
<1> QED BY <1>6, <1>7 DEF out

(* What it concludes from a refusal of the binding. *)
LEMMA BindingLemma ==
    ASSUME NEW a \in BindingRefusals, NEW n
    PROVE  LET out == Relay!parseWorkerResponse(a.status, a.body, n)
           IN  /\ a.body.kind = "failure" /\ out.ok = FALSE
               /\ a.body.code # "E_INVALID_REQUEST"
               /\ a.body.code \in MessageFaults => out.err.class.temporary = FALSE
               /\ a.body.code \notin MessageFaults => out.err.class.temporary = TRUE
               /\ out.retryable => a.body.code \notin Hopeless
<1>1. PICK code \in BindingCodes : a = Refusal(statusForCode(code), code)
  BY DEF BindingRefusals
<1> DEFINE out == Relay!parseWorkerResponse(a.status, a.body, n)
           status == statusForCode(code)
           err == Relay!classifyWorkerCode(status, code, n)
           retry == Relay!isWorkerRetryable(status, code)
<1>2. /\ code # "E_INVALID_REQUEST"
      /\ code \in MessageFaults <=> code \in Relay!WorkerPartyCodes
      /\ code \in Hopeless <=> code \in Relay!WorkerPartyCodes
  BY DEF BindingCodes, Relay!WorkerKnownCodes, Relay!WorkerRateCodes,
         Relay!WorkerPartyCodes, MessageFaults, Hopeless
<1>3. /\ Relay!ServerFault.temporary = TRUE /\ Relay!RateLimited.temporary = TRUE
      /\ Relay!PartyRefused.temporary = FALSE
  BY DEF Relay!ServerFault, Relay!RateLimited, Relay!PartyRefused, Relay!Class
<1>0. /\ a.body.code = code /\ a.body.kind = "failure" /\ out.ok = FALSE
      /\ out.err = err /\ out.retryable = retry
  <2>1. /\ a.body.code = code /\ a.body.kind = "failure"
        /\ out = Relay!Outcome(FALSE, err, retry)
    BY <1>1 DEF Refusal, Answer, Relay!Failure, Relay!parseWorkerResponse
  <2> QED BY <2>1 DEF Relay!Outcome
<1> SUFFICES /\ code \in Relay!WorkerPartyCodes =>
                    err.class.temporary = FALSE /\ retry = FALSE
             /\ code \notin Relay!WorkerPartyCodes => err.class.temporary = TRUE
  <2> HIDE DEF out, err, retry
  <2> QED BY <1>0, <1>2 DEF out
<1>4. CASE code \in Relay!WorkerRateCodes
  <2>1. code \in Relay!WorkerKnownCodes /\ code \notin Relay!WorkerPartyCodes
    BY <1>4 DEF Relay!WorkerKnownCodes, Relay!WorkerRateCodes, Relay!WorkerPartyCodes
  <2>2. err.class = Relay!RateLimited
    BY <1>4, <2>1 DEF Relay!classifyWorkerCode, Relay!workerCodeBuckets,
       Relay!Bucket, Relay!DeliveryError
  <2> QED BY <1>3, <2>1, <2>2
<1>5. CASE code \in Relay!WorkerPartyCodes
  <2>1. code \in Relay!WorkerKnownCodes /\ code \notin Relay!WorkerRateCodes
    BY <1>5 DEF Relay!WorkerKnownCodes, Relay!WorkerRateCodes, Relay!WorkerPartyCodes
  <2>2. err.class = Relay!PartyRefused /\ retry = FALSE
    BY <1>5, <2>1 DEF Relay!classifyWorkerCode, Relay!isWorkerRetryable,
       Relay!workerCodeBuckets, Relay!Bucket, Relay!DeliveryError
  <2> QED BY <1>3, <1>5, <2>2
<1>6. CASE code \notin Relay!WorkerKnownCodes
  <2>1. code \notin Relay!WorkerRateCodes /\ code \notin Relay!WorkerPartyCodes
    BY <1>6 DEF Relay!WorkerKnownCodes
  <2>2. status = 502
    BY <1>6, <2>1 DEF statusForCode
  <2>3. err.class = Relay!ServerFault
    BY <1>6, <2>2, StatusLemma DEF Relay!classifyWorkerCode
  <2> QED BY <1>3, <2>1, <2>3
<1> QED BY <1>4, <1>5, <1>6 DEF Relay!WorkerKnownCodes

(* A body without a code: the platform's page, no answer, or success. *)
LEMMA PlainLemma ==
    ASSUME NEW status, NEW n
    PROVE  /\ Relay!Unreadable.kind = "unreadable" /\ Relay!Success.kind = "success"
           /\ Relay!Unreadable.code \notin Hopeless \cup MessageFaults
           /\ Relay!Success.code \notin Hopeless \cup MessageFaults
           /\ Relay!Success.code # "E_INVALID_REQUEST"
           /\ Relay!Unreadable.code # "E_INVALID_REQUEST"
           /\ Relay!parseWorkerResponse(status, Relay!Unreadable, n)
                = Relay!Undecoded(n)
           /\ Relay!parseWorkerResponse(status, Relay!Success, n).ok = TRUE
           /\ Relay!Undecoded(n).ok = FALSE
           /\ Relay!Undecoded(n).err.class.temporary = TRUE
<1>1. /\ Relay!Unreadable.kind = "unreadable" /\ Relay!Success.kind = "success"
      /\ Relay!Unreadable.code = "" /\ Relay!Success.code = ""
  BY DEF Relay!Unreadable, Relay!Success, Relay!AbsentCode, Relay!NoWorkerCode
<1>2. "" \notin Hopeless \cup MessageFaults
  BY DEF Hopeless, MessageFaults, Relay!WorkerPartyCodes
<1>3. /\ Relay!parseWorkerResponse(status, Relay!Unreadable, n) = Relay!Undecoded(n)
      /\ Relay!parseWorkerResponse(status, Relay!Success, n).ok = TRUE
  BY <1>1 DEF Relay!parseWorkerResponse, Relay!Outcome
<1>4. /\ Relay!Undecoded(n).ok = FALSE
      /\ Relay!Undecoded(n).err.class.temporary = TRUE
  BY DEF Relay!Undecoded, Relay!Outcome, Relay!classifyTransport,
         Relay!DeliveryError, Relay!Unreachable, Relay!Class
<1> QED BY <1>1, <1>2, <1>3, <1>4

(* What the relay concludes from anything the Worker answers: success      *)
(* exactly of success, a permanent refusal exactly of what blames the      *)
(* message, and another request never where it would be of no use.         *)
LEMMA AnswersLemma ==
    ASSUME NEW a \in Answers, NEW n
    PROVE  LET out == Relay!parseWorkerResponse(a.status, a.body, n)
           IN  /\ a.body = Relay!Success <=> out.ok
               /\ a.body = Relay!Unreadable => out.err.class.temporary = TRUE
               /\ a.body = Relay!Unreadable => a.body.code \notin MessageFaults
               /\ ~out.ok /\ a.body.code \in MessageFaults =>
                        out.err.class.temporary = FALSE
               /\ ~out.ok /\ a.body.code \notin MessageFaults =>
                        out.err.class.temporary = TRUE
               /\ ~out.ok /\ out.retryable => a.body.code \notin Hopeless
<1>1. CASE a \in CheckRefusals
  BY <1>1, CheckLemma, PlainLemma
<1>2. CASE a \in BindingRefusals
  BY <1>2, BindingLemma, PlainLemma
<1>3. CASE a = Sent
  <2>1. a.body = Relay!Success
    BY <1>3 DEF Sent, Answer
  <2> QED BY <2>1, PlainLemma
<1>4. CASE a \in {NoAnswer, ErrorPage}
  <2>1. a.body = Relay!Unreadable
    BY <1>4 DEF NoAnswer, ErrorPage, Answer
  <2> QED BY <2>1, PlainLemma
<1> QED BY <1>1, <1>2, <1>3, <1>4 DEF Answers

-----------------------------------------------------------------------------
LEMMA InitIInv == Init => IInv
<1> SUFFICES ASSUME Init PROVE IInv
  OBVIOUS
<1>1. ParseTypeOK /\ parse \in {"reading", "failed"}
  BY ParseInitLemma DEF Init, ParseInit, ParseInv
<1>2. TypeOK
  <2>1. 0 \in 0..MaxRequests
    BY MailWorkerAssumption
  <2> QED BY <1>1, <2>1 DEF Init, TypeOK
<1>3. Answered
  <2>1. NoAnswer.body = Relay!Unreadable
    BY DEF NoAnswer, Answer
  <2>2. Relay!Unreadable # Relay!Success /\ Relay!Unreadable.code # "E_INVALID_REQUEST"
    BY PlainLemma
  <2> QED BY <2>1, <2>2 DEF Init, Answered, Answers
<1>4. Decided /\ RejectedForTheMessage
  BY <1>1 DEF Init, Decided, RejectedForTheMessage
<1> QED BY <1>2, <1>3, <1>4 DEF IInv

(* An invocation is over: whatever it answered, the relay has drawn no     *)
(* conclusion from it yet.                                                 *)
LEMMA OverIInv ==
    ASSUME IInv, NEW i \in Requests, invocation[i] \in {"received", "sending"},
           NEW answer \in Answers, Over(i, answer),
           taken' \in {taken, taken \cup {i}},
           answer.body = Relay!Success => i \in taken',
           i \in taken' => answer.body \in {Relay!Success, Relay!Unreadable},
           answer.body.code = "E_INVALID_REQUEST" => ~Complete,
           UNCHANGED <<parseVars, secret, relayVars>>
    PROVE  IInv'
<1>1. /\ invocation' = [invocation EXCEPT ![i] = "over"]
      /\ response' = [response EXCEPT ![i] = answer]
      /\ UNCHANGED <<mail, next, text, html, parse, secret, requests, waiting,
                     heard, verdict>>
  BY DEF Over, parseVars, relayVars
<1>2. /\ invocation \in [Requests -> {"none", "received", "sending", "over"}]
      /\ response \in [Requests -> Answers]
      /\ i \notin heard /\ i \notin taken /\ requests \in Nat
      /\ taken \subseteq Requests /\ heard \subseteq Requests
  BY DEF IInv, TypeOK, Answered
<1>3. /\ \A j \in Requests : invocation'[j] = IF j = i THEN "over" ELSE invocation[j]
      /\ \A j \in Requests : response'[j] = IF j = i THEN answer ELSE response[j]
  BY <1>1, <1>2
<1>4. TypeOK'
  <2>1. ParseTypeOK'
    BY <1>1 DEF IInv, TypeOK, ParseTypeOK
  <2>2. invocation' \in [Requests -> {"none", "received", "sending", "over"}]
    BY <1>1, <1>2
  <2>3. /\ taken' \subseteq {j \in Requests : invocation'[j] = "over"}
        /\ heard' \subseteq {j \in Requests : invocation'[j] = "over"}
    BY <1>1, <1>3 DEF IInv, TypeOK
  <2> QED BY <1>1, <2>1, <2>2, <2>3 DEF IInv, TypeOK
<1>5. Complete' <=> Complete
  BY <1>1 DEF Complete, buildPayload
<1>6. Answered'
  <2>1. response' \in [Requests -> Answers]
    BY <1>1, <1>2
  <2>2. ASSUME NEW j \in Requests
        PROVE  (/\ j > requests => invocation[j] = "none"
                /\ invocation[j] # "over" => response[j] = NoAnswer
                /\ response[j].body = Relay!Success => j \in taken
                /\ j \in taken => response[j].body \in {Relay!Success, Relay!Unreadable}
                /\ response[j].body.code = "E_INVALID_REQUEST" => ~Complete)'
    <3>1. CASE j = i
      <4>1. ~(i > requests)
        BY DEF IInv, Answered
      <4> QED BY <1>1, <1>3, <1>5, <3>1, <4>1
    <3>2. CASE j # i
      BY <1>1, <1>3, <1>5, <3>2 DEF IInv, Answered
    <3> QED BY <3>1, <3>2
  <2> QED BY <2>1, <2>2 DEF Answered
<1>7. Decided'
  BY <1>1, <1>2, <1>3 DEF IInv, Decided
<1>8. RejectedForTheMessage'
  BY <1>1, <1>2, <1>3 DEF IInv, RejectedForTheMessage
<1> QED BY <1>4, <1>6, <1>7, <1>8 DEF IInv

(* What the checks of fetch find wrong is one of their refusals, and an    *)
(* invalid request one that is not complete.                               *)
LEMMA RefusalsLemma ==
    ASSUME IInv, NEW answer \in Refusals
    PROVE  /\ answer \in CheckRefusals
           /\ answer.body.code = "E_INVALID_REQUEST" => ~Complete
<1>0. secret \in {"unset", "ours", "other"} /\ mail.big \in BOOLEAN
  BY ParsingAssumption DEF IInv, TypeOK, ParseTypeOK, MailShapes
<1>1. /\ Refusal(500, "E_NOT_CONFIGURED").body.code = "E_NOT_CONFIGURED"
      /\ Refusal(401, "E_UNAUTHORIZED").body.code = "E_UNAUTHORIZED"
      /\ Refusal(413, "E_TOO_BIG").body.code = "E_TOO_BIG"
  BY DEF Refusal, Answer, Relay!Failure
<1> QED BY <1>0, <1>1 DEF Refusals, CheckRefusals

LEMMA RefuseIInv == ASSUME IInv, NEW i \in Requests, Refuse(i) PROVE IInv'
<1>1. PICK answer \in Refusals : Over(i, answer)
  BY DEF Refuse
<1>2. /\ answer \in Answers /\ answer.body.kind = "failure"
      /\ answer.body.code = "E_INVALID_REQUEST" => ~Complete
  BY RefusalsLemma, CheckLemma DEF Answers
<1>3. /\ invocation[i] = "received" /\ taken' = taken
      /\ UNCHANGED <<parseVars, secret, relayVars>>
  BY DEF Refuse
<1>4. i \notin taken
  BY <1>3 DEF IInv, TypeOK
<1> QED BY <1>1, <1>2, <1>3, <1>4, PlainLemma, OverIInv

LEMMA SendsIInv == ASSUME IInv, NEW i \in Requests, BindingSends(i) PROVE IInv'
<1>1. /\ invocation[i] = "sending" /\ taken' = taken \cup {i} /\ Over(i, Sent)
      /\ UNCHANGED <<parseVars, secret, relayVars>>
  BY DEF BindingSends, Sent
<1>2. Sent \in Answers /\ Sent.body = Relay!Success
  BY DEF Answers, Sent, Answer
<1>3. Sent.body.code # "E_INVALID_REQUEST"
  BY <1>2, PlainLemma
<1> QED BY <1>1, <1>2, <1>3, OverIInv

LEMMA ThrowsIInv ==
    ASSUME IInv, NEW i \in Requests, NEW code \in BindingCodes, BindingThrows(i, code)
    PROVE  IInv'
<1> DEFINE answer == Refusal(statusForCode(code), code)
<1>1. answer \in BindingRefusals
  BY DEF BindingRefusals
<1>2. /\ answer \in Answers /\ answer.body.kind = "failure"
      /\ answer.body.code # "E_INVALID_REQUEST"
  BY <1>1, BindingLemma DEF Answers
<1>3. /\ invocation[i] = "sending" /\ taken' = taken /\ Over(i, answer)
      /\ UNCHANGED <<parseVars, secret, relayVars>>
  BY DEF BindingThrows
<1>4. i \notin taken
  BY <1>3 DEF IInv, TypeOK
<1> HIDE DEF answer
<1> QED BY <1>2, <1>3, <1>4, PlainLemma, OverIInv

LEMMA DieIInv == ASSUME IInv, NEW i \in Requests, Die(i) PROVE IInv'
<1>1. /\ invocation[i] \in {"received", "sending"}
      /\ taken' \in {taken, taken \cup {i}} /\ Over(i, ErrorPage)
      /\ UNCHANGED <<parseVars, secret, relayVars>>
  BY DEF Die
<1>2. ErrorPage \in Answers /\ ErrorPage.body = Relay!Unreadable
  BY DEF Answers, ErrorPage, Answer
<1>3. /\ ErrorPage.body # Relay!Success
      /\ ErrorPage.body.code # "E_INVALID_REQUEST"
  BY <1>2, PlainLemma
<1> QED BY <1>1, <1>2, <1>3, OverIInv

LEMMA AcceptIInv == ASSUME IInv, NEW i \in Requests, Accept(i) PROVE IInv'
<1>1. /\ invocation' = [invocation EXCEPT ![i] = "sending"]
      /\ invocation[i] = "received"
      /\ UNCHANGED <<mail, next, text, html, parse, secret, response, taken,
                     requests, waiting, heard, verdict>>
  BY DEF Accept, parseVars, relayVars
<1>2. /\ invocation \in [Requests -> {"none", "received", "sending", "over"}]
      /\ i \notin heard /\ i \notin taken
  BY <1>1 DEF IInv, TypeOK
<1>3. \A j \in Requests :
        invocation'[j] = IF j = i THEN "sending" ELSE invocation[j]
  BY <1>1, <1>2
<1>4. TypeOK'
  <2>1. invocation' \in [Requests -> {"none", "received", "sending", "over"}]
    BY <1>1, <1>2
  <2>2. /\ taken' \subseteq {j \in Requests : invocation'[j] = "over"}
        /\ heard' \subseteq {j \in Requests : invocation'[j] = "over"}
    BY <1>1, <1>2, <1>3 DEF IInv, TypeOK
  <2> QED BY <1>1, <2>1, <2>2 DEF IInv, TypeOK, ParseTypeOK
<1>5. Complete' <=> Complete
  BY <1>1 DEF Complete, buildPayload
<1>6. Answered'
  BY <1>1, <1>3, <1>5 DEF IInv, Answered
<1>7. Decided' /\ RejectedForTheMessage'
  BY <1>1 DEF IInv, Decided, RejectedForTheMessage
<1> QED BY <1>4, <1>6, <1>7 DEF IInv

LEMMA DeployIInv == ASSUME IInv, Deploy PROVE IInv'
<1>1. /\ secret' \in {"unset", "ours", "other"}
      /\ UNCHANGED <<mail, next, text, html, parse, invocation, response, taken,
                     requests, waiting, heard, verdict>>
  BY DEF Deploy, parseVars, workerVars, relayVars
<1>2. Complete' <=> Complete
  BY <1>1 DEF Complete, buildPayload
<1> QED BY <1>1, <1>2 DEF IInv, TypeOK, ParseTypeOK, Answered, Decided,
                          RejectedForTheMessage

(* A part of the message is read: nothing has been sent yet. *)
LEMMA ParseIInv == ASSUME IInv, ParseInv', Parse PROVE IInv'
<1>1. /\ verdict' = IF parse' = "failed" THEN "rejected" ELSE verdict
      /\ UNCHANGED <<secret, invocation, response, taken, requests, waiting, heard>>
      /\ ParseNext
  BY DEF Parse, workerVars
<1>2. parse = "reading" /\ parse' \in {"reading", "parsed", "failed"}
  BY <1>1 DEF ParseNext, EndOfMail, BrokenMail, SkipPart, UnreadablePart, ReadPart,
     ParseFails
<1>3. requests = 0 /\ verdict = "pending" /\ waiting = FALSE
  BY <1>2 DEF IInv, Decided, TypeOK
<1>4. \A i \in Requests : i > requests
  BY <1>3, MailWorkerAssumption DEF Requests
<1>5. taken = {} /\ heard = {}
  BY <1>4 DEF IInv, TypeOK, Answered
<1>6. TypeOK'
  BY <1>1 DEF IInv, TypeOK, ParseInv
<1>7. Answered'
  <2>1. /\ NoAnswer.body.code # "E_INVALID_REQUEST"
    BY PlainLemma DEF NoAnswer, Answer
  <2>2. \A i \in Requests : response[i] = NoAnswer
    BY <1>4 DEF IInv, Answered
  <2> QED BY <1>1, <2>1, <2>2 DEF IInv, Answered
<1>8. Decided' /\ RejectedForTheMessage'
  BY <1>1, <1>2, <1>3, <1>5 DEF IInv, Decided, RejectedForTheMessage
<1> QED BY <1>6, <1>7, <1>8 DEF IInv

(* The next request. *)
LEMMA SendIInv == ASSUME IInv, Send PROVE IInv'
<1>1. /\ parse = "parsed" /\ verdict = "pending" /\ requests < MaxRequests
      /\ requests' = requests + 1 /\ waiting' = TRUE
      /\ invocation' = [invocation EXCEPT ![requests + 1] = "received"]
      /\ UNCHANGED <<mail, next, text, html, parse, secret, response, taken,
                     heard, verdict>>
  BY DEF Send, parseVars
<1>2. /\ requests \in Nat /\ requests + 1 \in Requests
      /\ requests + 1 \in 0..MaxRequests
  BY <1>1, MailWorkerAssumption DEF IInv, TypeOK, Requests
<1>3. /\ invocation[requests + 1] = "none"
      /\ invocation \in [Requests -> {"none", "received", "sending", "over"}]
  BY <1>2 DEF IInv, Answered, TypeOK
<1>4. \A j \in Requests :
        invocation'[j] = IF j = requests + 1 THEN "received" ELSE invocation[j]
  BY <1>1, <1>3
<1>5. requests + 1 \notin heard /\ requests + 1 \notin taken
  BY <1>3 DEF IInv, TypeOK
<1>6. TypeOK'
  <2>1. invocation' \in [Requests -> {"none", "received", "sending", "over"}]
    BY <1>1, <1>3
  <2>2. /\ taken' \subseteq {j \in Requests : invocation'[j] = "over"}
        /\ heard' \subseteq {j \in Requests : invocation'[j] = "over"}
    BY <1>1, <1>4, <1>5 DEF IInv, TypeOK
  <2>3. ParseTypeOK'
    BY <1>1 DEF IInv, TypeOK, ParseTypeOK
  <2>4. requests' \in 0..MaxRequests /\ requests' > 0 /\ requests' \notin heard'
    BY <1>1, <1>2, <1>5
  <2> QED BY <1>1, <2>1, <2>2, <2>3, <2>4 DEF IInv, TypeOK
<1>7. Complete' <=> Complete
  BY <1>1 DEF Complete, buildPayload
<1>8. Answered'
  <2>1. \A j \in Requests : j > requests' => j > requests /\ j # requests + 1
    BY <1>1, <1>2 DEF Requests
  <2> QED BY <1>1, <1>3, <1>4, <1>7, <2>1 DEF IInv, Answered
<1>9. Decided' /\ RejectedForTheMessage'
  BY <1>1 DEF IInv, Decided, RejectedForTheMessage
<1> QED BY <1>6, <1>8, <1>9 DEF IInv

(* The end of an attempt, by an answer or without one. *)
LEMMA EndsIInv ==
    ASSUME IInv, NEW out, waiting, AttemptEnds(out),
           \/ heard' = heard /\ ~out.ok /\ out.err.class.temporary = TRUE
           \/ /\ heard' = heard \cup {requests} /\ invocation[requests] = "over"
              /\ response[requests].body # Relay!Unreadable
              /\ response[requests].body = Relay!Success <=> out.ok
              /\ ~out.ok /\ response[requests].body.code \in MessageFaults =>
                        out.err.class.temporary = FALSE
              /\ ~out.ok /\ response[requests].body.code \notin MessageFaults =>
                        out.err.class.temporary = TRUE
              /\ ~out.ok /\ out.retryable =>
                        response[requests].body.code \notin Hopeless
    PROVE  IInv'
<1>1. /\ waiting' = FALSE
      /\ UNCHANGED <<mail, next, text, html, parse, secret, invocation, response,
                     taken, requests>>
  BY DEF AttemptEnds, parseVars, workerVars
<1>2. /\ verdict = "pending" /\ requests \in Requests /\ requests \notin heard
      /\ parse = "parsed"
  BY MailWorkerAssumption DEF IInv, TypeOK, ParseTypeOK, Decided, Requests
<1>3. /\ out.ok => verdict' = "sent"
      /\ ~out.ok => \/ out.retryable /\ verdict' = "pending"
                    \/ out.err.class.temporary = TRUE /\ verdict' = "deferred"
                    \/ out.err.class.temporary = FALSE /\ verdict' = "rejected"
  BY <1>2 DEF AttemptEnds
<1>4. Complete' <=> Complete
  BY <1>1 DEF Complete, buildPayload
<1>5. TypeOK'
  BY <1>1, <1>2, <1>3 DEF IInv, TypeOK, ParseTypeOK
<1>6. Answered'
  BY <1>1, <1>4 DEF IInv, Answered
<1>7. Decided'
  <2>1. verdict' = "sent" => requests \in taken
    BY <1>2, <1>3 DEF IInv, Answered
  <2>2. ASSUME NEW i \in heard'
        PROVE  /\ response[i].body # Relay!Unreadable
               /\ response[i].body = Relay!Success => verdict' = "sent"
               /\ verdict' = "pending" => response[i].body.code \notin Hopeless
    <3>1. CASE i \in heard
      BY <1>2, <3>1 DEF IInv, Decided
    <3>2. CASE i \notin heard
      BY <1>3, <3>2
    <3> QED BY <3>1, <3>2
  <2> QED BY <1>1, <1>2, <2>1, <2>2 DEF IInv, Decided
<1>8. RejectedForTheMessage'
  BY <1>1, <1>2, <1>3 DEF RejectedForTheMessage
<1> QED BY <1>5, <1>6, <1>7, <1>8 DEF IInv

LEMMA HearIInv == ASSUME IInv, Hear PROVE IInv'
<1> DEFINE answer == response[requests]
           out == Relay!parseWorkerResponse(answer.status, answer.body, requests)
<1>1. /\ waiting /\ invocation[requests] = "over" /\ AttemptEnds(out)
      /\ heard' = IF answer.body = Relay!Unreadable THEN heard
                                                    ELSE heard \cup {requests}
  BY DEF Hear
<1>2. requests \in Requests
  BY <1>1, MailWorkerAssumption DEF IInv, TypeOK, Requests
<1>3. answer \in Answers
  BY <1>2 DEF IInv, Answered
<1>4. /\ answer.body = Relay!Success <=> out.ok
      /\ answer.body = Relay!Unreadable => out.err.class.temporary = TRUE
      /\ ~out.ok /\ answer.body.code \in MessageFaults =>
                out.err.class.temporary = FALSE
      /\ ~out.ok /\ answer.body.code \notin MessageFaults =>
                out.err.class.temporary = TRUE
      /\ ~out.ok /\ out.retryable => answer.body.code \notin Hopeless
  BY <1>3, AnswersLemma
<1>5. Relay!Unreadable # Relay!Success
  BY PlainLemma
<1> HIDE DEF out
<1> QED BY <1>1, <1>4, <1>5, EndsIInv

LEMMA StopWaitingIInv == ASSUME IInv, StopWaiting PROVE IInv'
<1> DEFINE out == Relay!Undecoded(requests)
<1>1. waiting /\ AttemptEnds(out) /\ heard' = heard
  BY DEF StopWaiting
<1>2. out.ok = FALSE /\ out.err.class.temporary = TRUE
  BY PlainLemma
<1> HIDE DEF out
<1> QED BY <1>1, <1>2, EndsIInv

LEMMA NextIInv == IInv /\ ParseInv' /\ [Next]_vars => IInv'
<1> SUFFICES ASSUME IInv, ParseInv', [Next]_vars PROVE IInv'
  OBVIOUS
<1>1. CASE UNCHANGED vars
  <2>1. Complete' <=> Complete
    BY <1>1 DEF vars, parseVars, Complete, buildPayload
  <2> QED BY <1>1, <2>1 DEF vars, parseVars, workerVars, relayVars, IInv, TypeOK,
             ParseTypeOK, Answered, Decided, RejectedForTheMessage
<1> QED BY <1>1, RefuseIInv, AcceptIInv, SendsIInv, DieIInv, ThrowsIInv,
           DeployIInv, ParseIInv, SendIInv, HearIInv, StopWaitingIInv DEF Next

(* Within the call the parse goes as it does by itself. *)
LEMMA ParseStep == [Next]_vars => [ParseNext]_parseVars
BY DEF Next, vars, Refuse, Accept, BindingSends, Die, BindingThrows, Deploy, Parse,
       Send, Hear, StopWaiting, AttemptEnds

-----------------------------------------------------------------------------
(* A call of Data parses its message as Parsing describes it. *)
THEOREM Parses == Spec => ParseSpec
<1>1. Init => ParseInit
  BY DEF Init
<1> QED BY <1>1, ParseStep, PTL DEF Spec, ParseSpec

(* Of each kind of text exactly the last part is delivered (readBodyParts). *)
THEOREM PartsCorrect == Spec => []LastPartsDelivered
BY Parses, ParseInvariance, DeliveredLemma, PTL

(* The parse fails exactly when the header, the structure or an inline     *)
(* part cannot be read (Parse, readBodyParts).                             *)
THEOREM FailureCorrect == Spec => []ParseFailsWithReason
BY Parses, ParseInvariance, ReasonLemma, PTL

(* IInv is an invariant of a call of Data, the Worker included.            *)
THEOREM Invariance == Spec => []IInv
<1>1. Spec => []ParseInv
  BY Parses, ParseInvariance, PTL
<1> QED BY <1>1, InitIInv, NextIInv, PTL DEF Spec

(* Every variable keeps its type; the relay only waits for the newest of   *)
(* its requests and reads only answers that were given (sendLoop).         *)
THEOREM TypeCorrect == Spec => []TypeOK
BY Invariance, PTL DEF IInv

(* The relay is not wrong about a request whose answer it has read, though *)
(* earlier ones may still run (doAttempt, index.js).                       *)
THEOREM TakenCorrect == Spec => []TakenIsTold
<1>1. IInv => TakenIsTold
  <2> SUFFICES ASSUME IInv PROVE TakenIsTold
    OBVIOUS
  <2>1. ASSUME NEW i \in taken \cap heard PROVE verdict = "sent"
    BY DEF IInv, TypeOK, Answered, Decided
  <2> QED BY <2>1 DEF IInv, Decided, TakenIsTold
<1> QED BY <1>1, Invariance, PTL

(* The client is told to give up exactly when its message was at fault     *)
(* (index.js, worker.go:120-161, classify.go).                             *)
THEOREM RejectionCorrect == Spec => []RejectedForTheMessage
BY Invariance, PTL DEF IInv

(* The Worker never calls a mail invalid that has what it asks for         *)
(* (buildPayload, toBindingMessage): needs both what the parse delivers    *)
(* and what the Worker refuses.                                            *)
THEOREM BlameCorrect == Spec => []BlamedForItsContent
<1>1. IInv /\ ParseInv => BlamedForItsContent
  <2> SUFFICES ASSUME IInv, ParseInv, NEW i \in heard,
                      response[i].body.code = "E_INVALID_REQUEST",
                      mail.from, mail.recipients, mail.subject
               PROVE  SaidLast(Empty, "plain") /\ SaidLast(Empty, "html")
    BY DEF BlamedForItsContent
  <2>1. ~Complete /\ i \in Requests
    BY DEF IInv, TypeOK, Answered
  <2>2. text = Empty /\ html = Empty
    BY <2>1 DEF Complete, buildPayload
  <2>3. parse = "parsed"
    <3>1. requests # 0
      BY <2>1, MailWorkerAssumption DEF IInv, TypeOK, Answered, Requests
    <3> QED BY <3>1 DEF IInv, Decided
  <2> QED BY <2>2, <2>3, DeliveredLemma DEF LastPartsDelivered
<1>2. Spec => []ParseInv
  BY Parses, ParseInvariance, PTL
<1> QED BY <1>1, <1>2, Invariance, PTL

(* After an answer that blames the message or the secret no further        *)
(* request is made (isWorkerRetryable).                                    *)
THEOREM RetryCorrect == Spec => RetryMayHelp
<1>1. IInv /\ [Next]_vars =>
        (requests' > requests =>
            \A i \in heard : response[i].body.code \notin
                                MessageFaults \cup {"E_UNAUTHORIZED"})
  <2> SUFFICES ASSUME IInv, [Next]_vars, requests' > requests, NEW i \in heard
               PROVE  response[i].body.code \notin Hopeless
    BY DEF Hopeless
  <2>1. requests' # requests
    BY DEF IInv, TypeOK
  <2>2. Send
    BY <2>1 DEF Next, vars, relayVars, Refuse, Accept, BindingSends, Die,
       BindingThrows, Deploy, Parse, Hear, StopWaiting, AttemptEnds
  <2> QED BY <2>2 DEF Send, IInv, Decided
<1> QED BY <1>1, Invariance, PTL DEF Spec, RetryMayHelp
=============================================================================
