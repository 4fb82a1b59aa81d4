------------------------------- MODULE Startup -------------------------------
(***************************************************************************)
(* From an environment to a serving relay: config.Load, the checks run()   *)
(* repeats after it (cmd/relay/main.go) and the listeners, with the        *)
(* operator who mends what a failed start reports and starts again; and    *)
(* what the environment then means: the limits the other modules take for  *)
(* granted, the sender policy, and the port the health probe asks.         *)
(*                                                                         *)
(* Strings are kept as far as the code tells them apart: Unset, "", and a  *)
(* few words.  Addresses, secrets and names are "given" or not.            *)
(***************************************************************************)
EXTENDS Integers, FiniteSets

Unset == "unset"

\* What intOrDefault, int64OrDefault and durationOrDefault may find; a number
\* too large for its type is malformed.  Durations are in seconds.
Raw(form, n) == [form |-> form, n |-> n]
Number(n)    == Raw("number", n)

cloudflareMaxMessageBytes == 5 * 1024 * 1024
cloudflareMaxRecipients   == 50

Default ==
    [SMTP_PORT |-> 2525, HEALTH_PORT |-> 8080,
     SMTP_MAX_MESSAGE_BYTES |-> cloudflareMaxMessageBytes,
     SMTP_MAX_RECIPIENTS |-> cloudflareMaxRecipients,
     CLOUDFLARE_MAX_RETRIES |-> 2, CLOUDFLARE_TIMEOUT |-> 15,
     SMTP_READ_TIMEOUT |-> 30, SMTP_WRITE_TIMEOUT |-> 30]

(* The ranges loadFrom checks; it checks none of the durations. *)
InRange(v, n) ==
    /\ v \in {"SMTP_PORT", "HEALTH_PORT"} => n \in 1..65535
    /\ v = "SMTP_MAX_MESSAGE_BYTES" => n \in 1..cloudflareMaxMessageBytes
    /\ v = "SMTP_MAX_RECIPIENTS" => n \in 1..cloudflareMaxRecipients
    /\ v = "CLOUDFLARE_MAX_RETRIES" => n \in 0..5

DefaultString ==
    [SMTP_HOST |-> "0.0.0.0", HEALTH_HOST |-> "0.0.0.0",
     SMTP_USER |-> "", SMTP_PASSWORD |-> "",
     SMTP_TLS_CERT |-> "", SMTP_TLS_KEY |-> "",
     CLOUDFLARE_TRANSPORT |-> "rest",
     CLOUDFLARE_ACCOUNT_ID |-> "", CLOUDFLARE_API_TOKEN |-> "",
     CLOUDFLARE_API_BASE_URL |-> "given",
     WORKER_URL |-> "", WORKER_SECRET |-> "", LOG_LEVEL |-> "info"]

Numbers == DOMAIN Default
Strings == DOMAIN DefaultString

(* An entry of ALLOWED_FROM_DOMAINS, and a sender's domain: its name, and  *)
(* the letters it is spelled in; "foreign" are capitals outside ASCII.     *)
Blank == [name |-> "", letters |-> "lower"]

CONSTANTS
    Words,         \* bound: the values of a string variable considered
    Names,         \* bound: the names of domains considered
    Environments,  \* bound: the environments considered
    Senders,       \* bound: the domains of the senders considered
    Lost           \* bound: what a probe's environment may lack, as sets

Domains(spellings) ==
    {Blank} \cup [name : Names \ {""}, letters : spellings]

EnvironmentType ==
    [string  : [Strings -> Words],
     number  : [Numbers -> [form : {"unset", "empty", "malformed", "number"},
                            n : Int]],
     allowed : SUBSET Domains({"lower", "upper", "foreign"}),
     keyPair : BOOLEAN]

ASSUME StartupAssumption ==
    /\ {"https", "info", "given", "rest", "worker"} \subseteq Words
    /\ Environments \subseteq EnvironmentType
    /\ Senders \subseteq Domains({"lower", "upper"})

VARIABLES
    env,     \* [string, number: by variable; allowed: the entries of
             \*  ALLOWED_FROM_DOMAINS; keyPair: do the TLS files load]
    stage,   \* where run() is, "failed", or "serving"
    report,  \* why the last start failed: [at, faults]
    told     \* every fault earlier failures have reported

vars == <<env, stage, report, told>>

NoReport == [at |-> "none", faults |-> {}]

Init ==
    /\ env \in Environments
    /\ stage = "load"
    /\ report = NoReport
    /\ told = {}

-----------------------------------------------------------------------------
stringOrDefault(e, v) ==
    IF e.string[v] = Unset THEN DefaultString[v] ELSE e.string[v]

(* A number that is empty or malformed is the default, too. *)
numberOrDefault(e, v) ==
    IF e.number[v].form = "number" THEN e.number[v].n ELSE Default[v]

NumberProblems(e) ==
    {v \in Numbers : \/ e.number[v].form = "malformed"
                     \/ ~InRange(v, numberOrDefault(e, v))}

\* Two spellings stand for all levels in any letters.
LogLevels == {"info", "INFO"}

StringProblems(e) ==
    {v \in {"SMTP_USER", "SMTP_PASSWORD"} : stringOrDefault(e, v) = ""}
        \cup {v \in {"LOG_LEVEL"} : stringOrDefault(e, v) \notin LogLevels}

Pair == {"SMTP_TLS_CERT", "SMTP_TLS_KEY"}

(* Mutants of TLSProblems: the wrong one is named; none is. *)
TLSProblemsSwapped(e) ==
    {v \in Pair : /\ stringOrDefault(e, v) # ""
                  /\ \E w \in Pair : stringOrDefault(e, w) = ""}
TLSProblemsIgnored(e) == {}

(* The one of the pair that is missing. *)
TLSProblems(e) ==
    {v \in Pair : /\ stringOrDefault(e, v) = ""
                  /\ \E w \in Pair : stringOrDefault(e, w) # ""}

Transport(e) == stringOrDefault(e, "CLOUDFLARE_TRANSPORT")

(* Mutant of TransportProblems: only the chosen name is checked. *)
TransportProblemsByName(e) ==
    IF Transport(e) \in {"rest", "worker"} THEN {} ELSE {"CLOUDFLARE_TRANSPORT"}

TransportProblems(e) ==
    CASE Transport(e) = "rest" ->
            {v \in {"CLOUDFLARE_ACCOUNT_ID", "CLOUDFLARE_API_TOKEN"} :
                stringOrDefault(e, v) = ""}
      [] Transport(e) = "worker" ->
            {v \in {"WORKER_URL"} : stringOrDefault(e, v) # "https"}
                \cup {v \in {"WORKER_SECRET"} : stringOrDefault(e, v) = ""}
      [] Transport(e) \notin {"rest", "worker"} -> {"CLOUDFLARE_TRANSPORT"}

Problems(e) == NumberProblems(e) \cup StringProblems(e)
                  \cup TLSProblems(e) \cup TransportProblems(e)

-----------------------------------------------------------------------------
(* run() fails with its first fault, or goes on; loadFrom gathers them all. *)
Fail(faults) ==
    /\ faults # {}
    /\ stage' = "failed"
    /\ report' = [at |-> stage, faults |-> faults]
    /\ UNCHANGED <<env, told>>

GoOn(faults, to) ==
    /\ faults = {}
    /\ stage' = to
    /\ UNCHANGED <<env, report, told>>

Load ==
    /\ stage = "load"
    /\ Fail(Problems(env)) \/ GoOn(Problems(env), "logger")

Check(here, faults, to) ==
    /\ stage = here
    /\ (\E f \in faults : Fail({f})) \/ GoOn(faults, to)

(* logging.New. *)
NewLogger ==
    Check("logger",
          {v \in {"LOG_LEVEL"} : stringOrDefault(env, v) \notin LogLevels}, "sender")

(* NewREST and NewWorker. *)
RESTFaults(e) ==
    {v \in {"CLOUDFLARE_API_BASE_URL", "CLOUDFLARE_ACCOUNT_ID",
            "CLOUDFLARE_API_TOKEN"} : stringOrDefault(e, v) = ""}

WorkerFaults(e) ==
    {v \in {"WORKER_URL", "WORKER_SECRET"} : stringOrDefault(e, v) = ""}

SenderFaults(e) ==
    (IF Transport(e) = "rest" THEN RESTFaults(e) ELSE WorkerFaults(e))
    \cup {v \in {"CLOUDFLARE_MAX_RETRIES"} : numberOrDefault(e, v) < 0}

BuildSender == Check("sender", SenderFaults(env), "tls")

tlsConfigured(e) == \A v \in Pair : stringOrDefault(e, v) # ""

BuildTLS ==
    Check("tls", IF tlsConfigured(env) /\ ~env.keyPair THEN {"keyPair"} ELSE {}, "server")

(* Options.validate. *)
ServerFaults(e) ==
    {v \in {"SMTP_USER", "SMTP_PASSWORD"} : stringOrDefault(e, v) = ""}
    \cup {v \in {"SMTP_MAX_MESSAGE_BYTES", "SMTP_MAX_RECIPIENTS"} :
             numberOrDefault(e, v) <= 0}

NewServer == Check("server", ServerFaults(env), "listen")

(* Two listeners on one port conflict when they share an address.          *)
PortsClash(e) ==
    LET hosts == {stringOrDefault(e, v) : v \in {"SMTP_HOST", "HEALTH_HOST"}}
    IN  /\ numberOrDefault(e, "SMTP_PORT") = numberOrDefault(e, "HEALTH_PORT")
        /\ Cardinality(hosts) = 1 \/ hosts \cap {"0.0.0.0", ""} # {}

Listen == Check("listen", IF PortsClash(env) THEN {"ports"} ELSE {}, "serving")

(* The operator mends what was reported, in any sound way, and nothing     *)
(* else.                                                                   *)
Mended(v, transport) ==
    CASE v = "CLOUDFLARE_TRANSPORT" -> transport
      [] v = "WORKER_URL"           -> "https"
      [] v = "LOG_LEVEL"            -> "info"
      [] v \notin {"CLOUDFLARE_TRANSPORT", "WORKER_URL", "LOG_LEVEL"} -> "given"

(* Another health port is chosen when the ports clash. *)
OtherPorts == {8080, 9090}

RepairedNumber(v, port) ==
    IF v \in report.faults THEN Number(Default[v])
    ELSE IF v = "HEALTH_PORT" /\ "ports" \in report.faults
    THEN Number(port) ELSE env.number[v]

Repaired(transport, port) ==
    [string  |-> [v \in Strings |-> IF v \in report.faults THEN Mended(v, transport)
                                                          ELSE env.string[v]],
     number  |-> [v \in Numbers |-> RepairedNumber(v, port)],
     allowed |-> env.allowed,
     keyPair |-> env.keyPair \/ "keyPair" \in report.faults]

Repair ==
    /\ stage = "failed"
    /\ stage' = "load"
    /\ told' = told \cup report.faults
    /\ \E transport \in {"rest", "worker"},
          port \in OtherPorts \ {numberOrDefault(env, "SMTP_PORT")} :
        env' = Repaired(transport, port)
    /\ UNCHANGED report

Next ==
    \/ Load \/ NewLogger \/ BuildSender \/ BuildTLS \/ NewServer \/ Listen
    \/ Repair

Spec == Init /\ [][Next]_vars

-----------------------------------------------------------------------------
(* What a serving relay has made of its environment. *)

(* NewREST and NewWorker replace a timeout that is not positive. *)
AttemptTimeout ==
    IF numberOrDefault(env, "CLOUDFLARE_TIMEOUT") <= 0 THEN 30
    ELSE numberOrDefault(env, "CLOUDFLARE_TIMEOUT")

ToLower(d)    == [name |-> d.name, letters |-> "lower"]
lowerASCII(d) == IF d.letters = "upper" THEN ToLower(d) ELSE d

(* Mutant of normalizeDomains: empty entries are kept. *)
normalizeDomainsAll(e) == {ToLower(d) : d \in e.allowed}

normalizeDomains(e) == {ToLower(d) : d \in e.allowed \ {Blank}}

(* NewSenderPolicy and Allows; a sender without a domain has a blank one.  *)
Allows(d) ==
    LET allowed == {lowerASCII(x) : x \in normalizeDomains(env)}
    IN  allowed = {} \/ (d # Blank /\ lowerASCII(d) \in allowed)

(* The environment of a probe may lack some of the variables. *)
Without(e, lost) ==
    [string  |-> [v \in Strings |-> IF v \in lost THEN Unset ELSE e.string[v]],
     number  |-> [v \in Numbers |-> IF v \in lost THEN Raw("unset", 0)
                                                  ELSE e.number[v]],
     allowed |-> e.allowed,
     keyPair |-> e.keyPair]

(* Mutant of probePort: an incomplete environment yields no default.       *)
probePortOfPart(e) ==
    IF Problems(e) = {} THEN numberOrDefault(e, "HEALTH_PORT") ELSE 0

probePort(e) ==
    IF Problems(e) = {} THEN numberOrDefault(e, "HEALTH_PORT") ELSE 8080

(* runHealthcheck asks 127.0.0.1, where only some listeners answer.        *)
OnLoopback == stringOrDefault(env, "HEALTH_HOST") \in {"0.0.0.0", "", "127.0.0.1"}

Healthy(lost) ==
    /\ stage = "serving"
    /\ OnLoopback
    /\ probePort(Without(env, lost)) = numberOrDefault(env, "HEALTH_PORT")

-----------------------------------------------------------------------------
(* PROPERTIES *)

Stages == {"load", "logger", "sender", "tls", "server", "listen", "failed",
           "serving"}
Faults == Strings \cup Numbers \cup {"keyPair", "ports"}

(* The values every variable keeps; a start that fails says why. *)
TypeOK ==
    /\ env \in EnvironmentType
    /\ stage \in Stages
    /\ report \in [at : Stages \cup {"none"}, faults : SUBSET Faults]
    /\ stage = "failed" => report.faults # {}
    /\ told \subseteq Faults

(* The same conditions are checked twice, by loadFrom and by the           *)
(* constructors of logger, sender and server.  What loadFrom accepts the   *)
(* constructors accept too, but for an empty base URL, TLS files that do   *)
(* not load and ports that clash: a fault of the environment does not turn *)
(* up one at a time, after the configuration was found valid.              *)
AcceptedEnvironmentStarts ==
    report.at \notin {"none", "load"} =>
        report.faults \subseteq {"CLOUDFLARE_API_BASE_URL", "keyPair", "ports"}

(* A relay that serves has what the other modules assume: credentials to   *)
(* ask its clients for, an upstream it can authenticate to, limits within  *)
(* Cloudflare's, an attempt that has time; and a TLS file that is named is *)
(* never ignored, so the port is not in the clear by mistake.              *)
ServesWithinLimits ==
    stage = "serving" =>
        /\ stringOrDefault(env, "SMTP_USER") # ""
        /\ stringOrDefault(env, "SMTP_PASSWORD") # ""
        /\ numberOrDefault(env, "CLOUDFLARE_MAX_RETRIES") \in 0..5
        /\ numberOrDefault(env, "SMTP_MAX_RECIPIENTS") \in 1..50
        /\ AttemptTimeout > 0
        /\ \/ /\ Transport(env) = "rest"
              /\ stringOrDefault(env, "CLOUDFLARE_API_TOKEN") # ""
           \/ /\ Transport(env) = "worker"
              /\ stringOrDefault(env, "WORKER_SECRET") # ""
        /\ (\E v \in Pair : stringOrDefault(env, v) # "") =>
               tlsConfigured(env) /\ env.keyPair

(* An operator who mends what a run reports is never told of the same      *)
(* thing again, however many runs it takes: so the relay comes up.         *)
NeverToldTwice == stage = "failed" => report.faults \cap told = {}

(* The documented use of the policy: an entry allows exactly its domain,   *)
(* in any ASCII spelling, subdomains excluded, and a sender without a      *)
(* domain is not allowed; a list without entries allows everybody.         *)
PolicyAsListed ==
    \A d \in Senders :
        Allows(d) <=> \/ env.allowed \subseteq {Blank}
                      \/ \E x \in env.allowed \ {Blank} : x.name = d.name

(* The probe of a serving relay whose health port is on the loopback       *)
(* interface succeeds, from an environment that lacks nothing, and from    *)
(* any whatsoever if the relay serves the default port (main.go:75-80).    *)
ProbeTruthful ==
    stage = "serving" /\ OnLoopback =>
        \A lost \in Lost :
            lost = {} \/ numberOrDefault(env, "HEALTH_PORT") = 8080 => Healthy(lost)

(* "a broken .env tells you everything that is wrong in a single run"      *)
(* (.env.example:9-10): once it is mended, no variable is found wrong.     *)
SingleRun ==
    stage = "failed" /\ told # {} => report.faults \cap (Strings \cup Numbers) = {}
=============================================================================
