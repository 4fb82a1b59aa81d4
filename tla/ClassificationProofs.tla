------------------------ MODULE ClassificationProofs ------------------------
(* What the response parsers return, for every status, body and transport. *)
EXTENDS Classification, TLAPS

(* Every entry of Cloudflare's code table is a class, and is retried       *)
(* exactly when that class is transient.                                   *)
LEMMA CodeBucketsLemma ==
    ASSUME NEW c \in KnownCodes
    PROVE  /\ codeBuckets[c].class \in Classes
           /\ codeBuckets[c].retryable \in BOOLEAN
           /\ codeBuckets[c].retryable <=> codeBuckets[c].class \in Transient
<1>1. /\ c \in RateCodes \/ c \in ServerCodes \/ c \in RelayCodes
           \/ c \in InvalidCodes \/ c \in MissingCodes
      /\ c \in RateCodes => c \notin ServerCodes \cup RelayCodes
                                   \cup InvalidCodes \cup MissingCodes
      /\ c \in ServerCodes => c \notin RelayCodes \cup InvalidCodes
                                     \cup MissingCodes
      /\ c \in RelayCodes => c \notin InvalidCodes \cup MissingCodes
      /\ c \in InvalidCodes => c \notin MissingCodes
  BY DEF KnownCodes, RateCodes, ServerCodes, RelayCodes, InvalidCodes,
         MissingCodes
<1>2. /\ RelayRefused \notin Transient
      /\ Invalid \notin Transient
      /\ NotFound \notin Transient
  BY DEF Transient, RelayRefused, Invalid, NotFound, RateLimited, ServerFault,
         Unreachable, Class
<1>3. \/ codeBuckets[c] = Bucket(RateLimited, TRUE)
      \/ codeBuckets[c] = Bucket(ServerFault, TRUE)
      \/ codeBuckets[c] = Bucket(RelayRefused, FALSE)
      \/ codeBuckets[c] = Bucket(Invalid, FALSE)
      \/ codeBuckets[c] = Bucket(NotFound, FALSE)
  BY <1>1 DEF codeBuckets
<1> DEFINE b == codeBuckets[c]
<1>4. \/ b.class \in {RateLimited, ServerFault} /\ b.retryable = TRUE
      \/ b.class \in {RelayRefused, Invalid, NotFound} /\ b.retryable = FALSE
  BY <1>3 DEF Bucket
<1> HIDE DEF b
<1>5. /\ b.class \in Classes
      /\ b.retryable \in BOOLEAN
      /\ b.retryable <=> b.class \in Transient
  BY <1>2, <1>4 DEF Transient, Classes
<1> QED BY <1>5 DEF b

(* The same of the Worker's table. *)
LEMMA WorkerCodeBucketsLemma ==
    ASSUME NEW c \in WorkerKnownCodes
    PROVE  /\ workerCodeBuckets[c].class \in Classes
           /\ workerCodeBuckets[c].retryable \in BOOLEAN
           /\ workerCodeBuckets[c].retryable
                <=> workerCodeBuckets[c].class \in Transient
<1>1. workerCodeBuckets[c] = IF c \in WorkerRateCodes
                             THEN Bucket(RateLimited, TRUE)
                             ELSE Bucket(PartyRefused, FALSE)
  BY DEF workerCodeBuckets
<1>2. PartyRefused \notin Transient
  BY DEF Transient, PartyRefused, RateLimited, ServerFault, Unreachable, Class
<1> QED BY <1>1, <1>2 DEF Bucket, Transient, Classes

(* The fallback on the HTTP status agrees with isRetryable's.              *)
LEMMA StatusClassLemma ==
    ASSUME NEW status \in Nat
    PROVE  /\ StatusClass(status) \in Classes
           /\ StatusClass(status) \in Transient
                <=> status = 429 \/ status \in 500..599
<1>1. RelayRefused \notin Transient /\ Invalid \notin Transient
        /\ NotFound \notin Transient
  BY DEF Transient, RelayRefused, Invalid, NotFound, RateLimited, ServerFault,
         Unreachable, Class
<1> QED BY <1>1 DEF StatusClass, Classes, Transient

(* classifyHTTP and isRetryable, two walks through the same tables, agree. *)
LEMMA ClassifyHTTPLemma ==
    ASSUME NEW status \in Nat, NEW code \in Int, NEW attempts \in Nat
    PROVE  LET err == classifyHTTP(status, code, attempts)
           IN  /\ err.class \in Classes
               /\ err = DeliveryError(err.class, status, code, attempts)
               /\ isRetryable(status, code) \in BOOLEAN
               /\ isRetryable(status, code) <=> err.class \in Transient
<1>1. CASE code \in KnownCodes
  BY <1>1, CodeBucketsLemma DEF classifyHTTP, isRetryable, DeliveryError
<1>2. CASE code \notin KnownCodes
  BY <1>2, StatusClassLemma DEF classifyHTTP, isRetryable, DeliveryError
<1> QED BY <1>1, <1>2

LEMMA ClassifyWorkerLemma ==
    ASSUME NEW status \in Nat, NEW code, NEW attempts \in Nat
    PROVE  LET err == classifyWorkerCode(status, code, attempts)
           IN  /\ err.class \in Classes
               /\ err = DeliveryError(err.class, status, NoCode, attempts)
               /\ isWorkerRetryable(status, code) \in BOOLEAN
               /\ isWorkerRetryable(status, code) <=> err.class \in Transient
<1>1. CASE code \in WorkerKnownCodes
  BY <1>1, WorkerCodeBucketsLemma
     DEF classifyWorkerCode, isWorkerRetryable, DeliveryError
<1>2. CASE code \notin WorkerKnownCodes
  <2>1. NoCode \in Int
    BY DEF NoCode
  <2> QED BY <1>2, <2>1, ClassifyHTTPLemma
          DEF classifyWorkerCode, isWorkerRetryable
<1> QED BY <1>1, <1>2

(* What parse returns: success exactly for success:true; otherwise a       *)
(* well-formed error that counts this attempt, and a retry exactly of the  *)
(* transient classes.                                                      *)
THEOREM ParseLemma ==
    ASSUME NEW status \in Nat, NEW body \in Bodies, NEW attempts \in Nat
    PROVE  LET out == parse(status, body, attempts)
           IN  /\ out.ok <=> body.kind = "success"
               /\ out.ok \in BOOLEAN /\ out.retryable \in BOOLEAN
               /\ out.err \in Errors
               /\ ~out.ok => /\ out.err.class \in Classes
                             /\ out.err.attempts = attempts
                             /\ out.retryable <=> out.err.class \in Transient
<1> DEFINE out == parse(status, body, attempts)
<1>0. body.kind \in {"unreadable", "success", "failure"} /\ body.code \in Codes
  BY DEF Bodies
<1>1. CASE body.kind = "success"
  BY <1>1 DEF parse, parseRESTResponse, parseWorkerResponse, Outcome, Errors
<1>2. CASE body.kind = "unreadable"
  <2>1. out = Undecoded(attempts)
    BY <1>2 DEF parse, parseRESTResponse, parseWorkerResponse
  <2> QED BY <1>2, <2>1 DEF Undecoded, Outcome, classifyTransport,
             DeliveryError, Errors, Classes, Transient, NoCode
<1>3. CASE body.kind = "failure" /\ Transport = "rest"
  <2>1. body.code \in Int
    BY <1>0, <1>3 DEF Codes
  <2>2. out = Outcome(FALSE, classifyHTTP(status, body.code, attempts),
                      isRetryable(status, body.code))
    BY <1>3 DEF parse, parseRESTResponse
  <2> QED BY <1>3, <2>1, <2>2, ClassifyHTTPLemma
          DEF Outcome, DeliveryError, Errors
<1>4. CASE body.kind = "failure" /\ Transport # "rest"
  <2>1. out = Outcome(FALSE, classifyWorkerCode(status, body.code, attempts),
                      isWorkerRetryable(status, body.code))
    BY <1>4 DEF parse, parseWorkerResponse
  <2> QED BY <1>4, <2>1, ClassifyWorkerLemma
          DEF Outcome, DeliveryError, Errors, NoCode
<1> QED BY <1>0, <1>1, <1>2, <1>3, <1>4

(* The reply and the retry agree for every answer the upstream can give,   *)
(* over either transport.                                                  *)
THEOREM ParseCoherent ==
    ASSUME NEW status \in Nat, NEW body \in Bodies, NEW attempts \in Nat
    PROVE  Coherent(parse(status, body, attempts))
<1>1. ASSUME NEW c \in Classes
      PROVE  /\ c.smtp = IF c.temporary THEN 451 ELSE 550
             /\ c.enhanced[1] = IF c.temporary THEN 4 ELSE 5
  BY DEF Classes, RateLimited, ServerFault, RelayRefused, Unreachable,
         Invalid, NotFound, PartyRefused, Class
<1> QED BY <1>1, ParseLemma DEF Coherent
=============================================================================
