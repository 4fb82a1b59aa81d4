----------------------------- MODULE MCSendLoop -----------------------------
(* SendLoop at its production values, in units of 500 ms: base 1 (0.5 s),  *)
(* cap 10 (5 s), attempt 30 (15 s), call 60 (30 s), 2 retries.             *)
EXTENDS SendLoop

Header(form, value) == [form |-> form, value |-> value]

(* One answer per way out of the parser and per Retry-After case, those    *)
(* whose status and code disagree included.                                *)
MCResponsesREST ==
    {Response(200, Success, NoHeader),
     Response(502, Success, NoHeader),          \* success wins over the status
     Response(200, Failure(10004), NoHeader),   \* a refusal under HTTP 200
     Response(200, Failure(NoCode), NoHeader),
     Response(200, Unreadable, NoHeader),
     Response(400, Failure(10001), NoHeader),
     Response(403, Failure(10203), NoHeader),
     Response(500, Failure(10000), NoHeader),   \* the code wins over the status
     Response(500, Failure(NoCode), NoHeader),
     Response(503, Unreadable, NoHeader),
     Response(429, Failure(10004), NoHeader),
     Response(429, Failure(10004), Header("seconds", -1)),
     Response(429, Failure(10004), Header("seconds", 0)),
     Response(429, Failure(10004), Header("seconds", 3)),
     Response(429, Failure(NoCode), Header("seconds", 5)),
     Response(429, Failure(NoCode), Header("seconds", 6)),
     Response(429, Unreadable, Header("date", 7)),
     Response(429, Unreadable, Header("date", -7)),
     Response(429, Unreadable, Header("date", 11))}

(* Seconds whose product with time.Second does not fit a time.Duration.    *)
MCResponsesOverflow ==
    {Response(200, Success, NoHeader),
     Response(429, Failure(10004), Header("seconds", 100)),
     Response(429, Failure(10004), Header("seconds", 128))}

(* Proxies in front of the API answer 401 and 403 with a page, not JSON.   *)
MCResponsesCredential ==
    {Response(401, Failure(10101), NoHeader),
     Response(403, Unreadable, NoHeader)}
=============================================================================
