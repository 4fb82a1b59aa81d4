--------------------------- MODULE Classification ---------------------------
(***************************************************************************)
(* How the relay turns one answer of the upstream (Cloudflare's REST API,  *)
(* or the user's Worker) into an SMTP reply and a decision to try again:   *)
(* internal/cloudflare/classify.go and the two response parsers of rest.go *)
(* and worker.go.  Pure functions: no state.                               *)
(*                                                                         *)
(* A reply class keeps what a client acts on: temporary or permanent, the  *)
(* SMTP code and the enhanced code.  The wording of a reason is left out,  *)
(* so the reasons "relay credential rejected" and "relay not entitled",    *)
(* which differ in nothing else, are one class.                            *)
(***************************************************************************)
EXTENDS Integers

CONSTANT Transport   \* CLOUDFLARE_TRANSPORT: which adapter main.go builds

ASSUME TransportAssumption == Transport \in {"rest", "worker"}

-----------------------------------------------------------------------------
Class(temporary, smtp, enhanced) ==
    [temporary |-> temporary, smtp |-> smtp, enhanced |-> enhanced]

RateLimited    == Class(TRUE,  451, <<4, 4, 5>>)
ServerFault    == Class(TRUE,  451, <<4, 3, 0>>)
RelayRefused   == Class(TRUE,  451, <<4, 7, 0>>)  \* its credential or entitlement
Unreachable    == Class(TRUE,  451, <<4, 4, 1>>)
Invalid        == Class(FALSE, 550, <<5, 6, 0>>)
NotFound       == Class(FALSE, 550, <<5, 1, 2>>)
PartyRefused   == Class(FALSE, 550, <<5, 7, 1>>)  \* Worker: sender or recipient

Classes == {RateLimited, ServerFault, RelayRefused, Unreachable,
            Invalid, NotFound, PartyRefused}

\* Cloudflare's numeric codes and the Worker's string codes, by table entry.
RateCodes        == {10004}
ServerCodes      == {10002, 10003, 10100}
RelayCodes       == {10101, 10103, 10102, 10105, 10203}
InvalidCodes     == {10001, 10200, 10201, 10202}
MissingCodes     == {10000}
KnownCodes       == RateCodes \cup ServerCodes \cup RelayCodes
                        \cup InvalidCodes \cup MissingCodes
WorkerRateCodes  == {"E_RATE_LIMIT_EXCEEDED", "E_DAILY_LIMIT_EXCEEDED"}
WorkerPartyCodes == {"E_SENDER_NOT_VERIFIED", "E_SENDER_DOMAIN_NOT_AVAILABLE",
                     "E_RECIPIENT_NOT_ALLOWED"}
WorkerKnownCodes == WorkerRateCodes \cup WorkerPartyCodes

NoCode       == 0     \* restResponse without an errors[0]
NoWorkerCode == ""    \* workerResponse without a code

Bucket(class, retryable) == [class |-> class, retryable |-> retryable]

codeBuckets ==
    [c \in KnownCodes |->
        CASE c \in RateCodes    -> Bucket(RateLimited, TRUE)
          [] c \in ServerCodes  -> Bucket(ServerFault, TRUE)
          [] c \in RelayCodes   -> Bucket(RelayRefused, FALSE)
          [] c \in InvalidCodes -> Bucket(Invalid, FALSE)
          [] c \in MissingCodes -> Bucket(NotFound, FALSE)]

workerCodeBuckets ==
    [c \in WorkerKnownCodes |->
        IF c \in WorkerRateCodes THEN Bucket(RateLimited, TRUE)
                                 ELSE Bucket(PartyRefused, FALSE)]

-----------------------------------------------------------------------------
(* DeliveryError: what Send returns when it fails.  code is ProviderCode,  *)
(* which only the REST adapter fills in; status 0 means no usable answer.  *)
DeliveryError(class, status, code, attempts) ==
    [class |-> class, status |-> status, code |-> code, attempts |-> attempts]

(* A DeliveryError whose class is none of Classes: no error at all. *)
NoError == [class |-> Class(FALSE, 0, <<0, 0, 0>>),
            status |-> 0, code |-> NoCode, attempts |-> 0]

\* The generic fallback of classifyHTTP, when the body names no known code.
StatusClass(status) ==
    CASE status = 429                         -> RateLimited
      [] status \in {401, 403}                -> RelayRefused
      [] status = 404                         -> NotFound
      [] status \in 500..599                  -> ServerFault
      [] status \notin {401, 403, 404, 429}
            /\ status \notin 500..599         -> Invalid

classifyHTTP(status, code, attempts) ==
    DeliveryError(IF code \in KnownCodes THEN codeBuckets[code].class
                                         ELSE StatusClass(status),
                  status, code, attempts)

classifyTransport(attempts) == DeliveryError(Unreachable, 0, NoCode, attempts)

(* Mutant of isRetryable: whatever is answered 4xx is tried again. *)
RetryWhateverIsTemporary(status, code) ==
    classifyHTTP(status, code, 1).class.temporary

(* Mutant of isRetryable: the lower bound of the 5xx range is exclusive. *)
RetryAbove500(status, code) ==
    IF code \in KnownCodes THEN codeBuckets[code].retryable
    ELSE status = 429 \/ status \in 501..599

isRetryable(status, code) ==
    IF code \in KnownCodes THEN codeBuckets[code].retryable
    ELSE status = 429 \/ status \in 500..599

classifyWorkerCode(status, code, attempts) ==
    IF code \in WorkerKnownCodes
    THEN DeliveryError(workerCodeBuckets[code].class, status, NoCode, attempts)
    ELSE classifyHTTP(status, NoCode, attempts)

isWorkerRetryable(status, code) ==
    IF code \in WorkerKnownCodes THEN workerCodeBuckets[code].retryable
                                 ELSE isRetryable(status, NoCode)

-----------------------------------------------------------------------------
(* A response body: JSON that does not decode ("unreadable"), success:true *)
(* or success:false with the first error's code.                           *)
Codes  == IF Transport = "rest" THEN Int ELSE {NoWorkerCode} \cup STRING
Bodies == [kind : {"unreadable", "success", "failure"}, code : Codes]
Errors == [class : Classes, status : Nat, code : Int, attempts : Nat]
              \cup {NoError}

AbsentCode     == IF Transport = "rest" THEN NoCode ELSE NoWorkerCode
Unreadable     == [kind |-> "unreadable", code |-> AbsentCode]
Success        == [kind |-> "success",    code |-> AbsentCode]
Failure(code)  == [kind |-> "failure",    code |-> code]

Outcome(ok, err, retryable) == [ok |-> ok, err |-> err, retryable |-> retryable]

\* A body that does not decode is a transport failure whatever the status.
Undecoded(attempts) == Outcome(FALSE, classifyTransport(attempts), TRUE)

(* Mutant of parseRESTResponse: a 2xx status is a success. *)
ParseByStatus(status, body, attempts) ==
    CASE body.kind = "unreadable" -> Undecoded(attempts)
      [] body.kind # "unreadable" /\ status \in 200..299 ->
            Outcome(TRUE, NoError, FALSE)
      [] body.kind # "unreadable" /\ status \notin 200..299 ->
            Outcome(FALSE, classifyHTTP(status, body.code, attempts),
                    isRetryable(status, body.code))

parseRESTResponse(status, body, attempts) ==
    CASE body.kind = "unreadable" -> Undecoded(attempts)
      [] body.kind = "success"    -> Outcome(TRUE, NoError, FALSE)
      [] body.kind = "failure"    ->
            Outcome(FALSE, classifyHTTP(status, body.code, attempts),
                    isRetryable(status, body.code))

parseWorkerResponse(status, body, attempts) ==
    CASE body.kind = "unreadable" -> Undecoded(attempts)
      [] body.kind = "success"    -> Outcome(TRUE, NoError, FALSE)
      [] body.kind = "failure"    ->
            Outcome(FALSE, classifyWorkerCode(status, body.code, attempts),
                    isWorkerRetryable(status, body.code))

parse(status, body, attempts) ==
    IF Transport = "rest" THEN parseRESTResponse(status, body, attempts)
                          ELSE parseWorkerResponse(status, body, attempts)
-----------------------------------------------------------------------------
(* The classes an attempt may be repeated for: the message and the relay's *)
(* credential are not at fault.                                            *)
Transient == {RateLimited, ServerFault, Unreachable}

(* The decision to retry and the reply to the client come from tables and  *)
(* fallbacks written twice (classifyHTTP and isRetryable, and again for    *)
(* the Worker).  They agree: the relay retries exactly the transient       *)
(* failures, and the temporary flag, the SMTP code and the enhanced code   *)
(* of a reply never tell the client different things.                      *)
Coherent(out) ==
    ~out.ok =>
        /\ out.retryable <=> out.err.class \in Transient
        /\ out.err.class.smtp = IF out.err.class.temporary THEN 451 ELSE 550
        /\ out.err.class.enhanced[1] = IF out.err.class.temporary THEN 4 ELSE 5
=============================================================================
