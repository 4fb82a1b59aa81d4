---------------------------- MODULE StartupProofs ----------------------------
(***************************************************************************)
(* What a relay that starts owes to its checks, for every set of typed     *)
(* environments.  The checks are repeated one stage after the other on an  *)
(* environment that does not change meanwhile, so the invariant says what  *)
(* each stage has found; and that mending keeps mended, so that no fault   *)
(* is ever told twice.                                                     *)
(***************************************************************************)
EXTENDS Startup, TLAPS

Later == {"logger", "sender", "tls", "server", "listen", "serving"}

(* What has been checked of the environment when a stage is reached. *)
Checked ==
    /\ stage \in Later => Problems(env) = {}
    /\ stage \in {"tls", "server", "listen", "serving"} => SenderFaults(env) = {}
    /\ stage \in {"server", "listen", "serving"} => (tlsConfigured(env) => env.keyPair)
    /\ stage = "serving" => ~PortsClash(env)

(* How each action of run() leaves what has been checked. *)
CheckInv == Checked /\ AcceptedEnvironmentStarts

-----------------------------------------------------------------------------
(* What the checks of loadFrom mean for the single variables.              *)
LEMMA Disjoint == Strings \cap Numbers = {} /\ {"keyPair", "ports"} \cap (Strings \cup Numbers) = {}
BY DEF Strings, Numbers, DefaultString, Default

LEMMA NumbersSound ==
    ASSUME NEW e, Problems(e) = {}, NEW v \in Numbers
    PROVE  InRange(v, numberOrDefault(e, v))
BY DEF Problems, NumberProblems

LEMMA StringsSound ==
    ASSUME NEW e, Problems(e) = {}
    PROVE  /\ stringOrDefault(e, "SMTP_USER") # ""
           /\ stringOrDefault(e, "SMTP_PASSWORD") # ""
           /\ stringOrDefault(e, "LOG_LEVEL") \in LogLevels
BY DEF Problems, StringProblems

LEMMA PairSound ==
    ASSUME NEW e, Problems(e) = {}, NEW v \in Pair, stringOrDefault(e, v) # ""
    PROVE  tlsConfigured(e)
BY DEF Problems, TLSProblems, tlsConfigured

LEMMA TransportSound ==
    ASSUME NEW e, Problems(e) = {}
    PROVE  \/ /\ Transport(e) = "rest"
              /\ stringOrDefault(e, "CLOUDFLARE_ACCOUNT_ID") # ""
              /\ stringOrDefault(e, "CLOUDFLARE_API_TOKEN") # ""
           \/ /\ Transport(e) = "worker"
              /\ stringOrDefault(e, "WORKER_URL") = "https"
              /\ stringOrDefault(e, "WORKER_SECRET") # ""
<1>1. TransportProblems(e) = {}
  BY DEF Problems
<1> QED BY <1>1 DEF TransportProblems

(* What the constructors may still find in an environment loadFrom has     *)
(* accepted.                                                               *)
LEMMA SenderSound ==
    ASSUME NEW e, Problems(e) = {}
    PROVE  SenderFaults(e) \subseteq {"CLOUDFLARE_API_BASE_URL"}
<1>1. "CLOUDFLARE_MAX_RETRIES" \in Numbers
  BY DEF Numbers, Default
<1>2. numberOrDefault(e, "CLOUDFLARE_MAX_RETRIES") \in 0..5
  BY <1>1, NumbersSound DEF InRange
<1>3. ~(numberOrDefault(e, "CLOUDFLARE_MAX_RETRIES") < 0)
  BY <1>2
<1>4. {v \in {"CLOUDFLARE_MAX_RETRIES"} : numberOrDefault(e, v) < 0} = {}
  BY <1>3, Zenon
<1>5. CASE Transport(e) = "rest"
  <2>1. RESTFaults(e) \subseteq {"CLOUDFLARE_API_BASE_URL"}
    BY <1>5, TransportSound DEF RESTFaults
  <2> QED BY <1>4, <1>5, <2>1 DEF SenderFaults
<1>6. CASE Transport(e) = "worker"
  <2>1. WorkerFaults(e) = {}
    BY <1>6, TransportSound DEF WorkerFaults
  <2> QED BY <1>4, <1>6, <2>1 DEF SenderFaults
<1> QED BY <1>5, <1>6, TransportSound

LEMMA LoggerSound ==
    ASSUME NEW e, Problems(e) = {}
    PROVE  {v \in {"LOG_LEVEL"} : stringOrDefault(e, v) \notin LogLevels} = {}
BY StringsSound

LEMMA ServerSound ==
    ASSUME NEW e, Problems(e) = {}
    PROVE  ServerFaults(e) = {}
<1>1. {"SMTP_MAX_MESSAGE_BYTES", "SMTP_MAX_RECIPIENTS"} \subseteq Numbers
  BY DEF Numbers, Default
<1>2. cloudflareMaxMessageBytes \in Nat /\ cloudflareMaxRecipients \in Nat
  BY DEF cloudflareMaxMessageBytes, cloudflareMaxRecipients
<1>3. ~(numberOrDefault(e, "SMTP_MAX_MESSAGE_BYTES") <= 0)
  BY <1>1, <1>2, NumbersSound DEF InRange
<1>4. ~(numberOrDefault(e, "SMTP_MAX_RECIPIENTS") <= 0)
  BY <1>1, <1>2, NumbersSound DEF InRange
<1>5. {v \in {"SMTP_MAX_MESSAGE_BYTES", "SMTP_MAX_RECIPIENTS"} :
          numberOrDefault(e, v) <= 0} = {}
  BY <1>3, <1>4, Zenon
<1>6. {v \in {"SMTP_USER", "SMTP_PASSWORD"} : stringOrDefault(e, v) = ""} = {}
  BY StringsSound
<1> QED BY <1>5, <1>6 DEF ServerFaults

-----------------------------------------------------------------------------
LEMMA CheckInit == Init => CheckInv
BY DEF Init, CheckInv, Checked, Later, AcceptedEnvironmentStarts, NoReport

(* A stage goes on with its check passed, or fails with what it found. *)
LEMMA CheckCases ==
    ASSUME NEW here, NEW faults, NEW to, Check(here, faults, to)
    PROVE  /\ stage = here /\ env' = env
           /\ \/ faults = {} /\ stage' = to /\ report' = report /\ told' = told
              \/ /\ stage' = "failed" /\ told' = told
                 /\ \E f \in faults : report' = [at |-> here, faults |-> {f}]
BY DEF Check, Fail, GoOn

LEMMA CheckStep == CheckInv /\ [Next]_vars => CheckInv'
<1> SUFFICES ASSUME CheckInv, [Next]_vars PROVE CheckInv'
  OBVIOUS
<1>1. CASE Load
  <2>1. CASE stage' = "failed"
    BY <1>1, <2>1 DEF Load, Fail, GoOn, CheckInv, Checked, Later,
                      AcceptedEnvironmentStarts
  <2>2. CASE GoOn(Problems(env), "logger")
    BY <1>1, <2>2 DEF GoOn, CheckInv, Checked, Later, AcceptedEnvironmentStarts
  <2> QED BY <1>1, <2>1, <2>2 DEF Load, Fail
<1>2. CASE NewLogger
  <2>1. stage = "logger" /\ env' = env /\ report' = report /\ stage' = "sender"
    BY <1>2, CheckCases, LoggerSound DEF NewLogger, CheckInv, Checked, Later
  <2>2. Problems(env) = {}
    BY <2>1 DEF CheckInv, Checked, Later
  <2> QED BY <2>1, <2>2 DEF CheckInv, Checked, Later, AcceptedEnvironmentStarts
<1>3. CASE BuildSender
  <2>1. stage = "sender" /\ env' = env
    BY <1>3, CheckCases DEF BuildSender
  <2>2. Problems(env) = {}
    BY <2>1 DEF CheckInv, Checked, Later
  <2>3. CASE SenderFaults(env) = {} /\ stage' = "tls" /\ report' = report
    BY <2>1, <2>2, <2>3 DEF CheckInv, Checked, Later, AcceptedEnvironmentStarts,
       SenderFaults, RESTFaults, WorkerFaults, Transport
  <2>4. ASSUME NEW f \in SenderFaults(env), stage' = "failed",
               report' = [at |-> "sender", faults |-> {f}]
        PROVE  CheckInv'
    <3>1. f = "CLOUDFLARE_API_BASE_URL"
      BY <2>2, SenderSound
    <3> QED BY <2>4, <3>1 DEF CheckInv, Checked, Later, AcceptedEnvironmentStarts
  <2> QED BY <1>3, <2>3, <2>4, CheckCases DEF BuildSender
<1>4. CASE BuildTLS
  <2> DEFINE faults == IF tlsConfigured(env) /\ ~env.keyPair THEN {"keyPair"} ELSE {}
  <2>1. stage = "tls" /\ env' = env
    BY <1>4, CheckCases DEF BuildTLS
  <2>2. CASE faults = {} /\ stage' = "server" /\ report' = report
    BY <2>1, <2>2 DEF CheckInv, Checked, Later, AcceptedEnvironmentStarts,
       SenderFaults, RESTFaults, WorkerFaults, Transport, tlsConfigured
  <2>3. ASSUME NEW f \in faults, stage' = "failed",
               report' = [at |-> "tls", faults |-> {f}]
        PROVE  CheckInv'
    BY <2>3 DEF CheckInv, Checked, Later, AcceptedEnvironmentStarts
  <2> QED BY <1>4, <2>2, <2>3, CheckCases DEF BuildTLS
<1>5. CASE NewServer
  <2>1. stage = "server" /\ Problems(env) = {}
    BY <1>5, CheckCases DEF NewServer, CheckInv, Checked, Later
  <2>2. stage' = "listen" /\ env' = env /\ report' = report
    BY <1>5, <2>1, CheckCases, ServerSound DEF NewServer
  <2> QED BY <2>1, <2>2 DEF CheckInv, Checked, Later, AcceptedEnvironmentStarts,
       SenderFaults, RESTFaults, WorkerFaults, Transport, tlsConfigured
<1>6. CASE Listen
  <2> DEFINE faults == IF PortsClash(env) THEN {"ports"} ELSE {}
  <2>1. stage = "listen" /\ env' = env
    BY <1>6, CheckCases DEF Listen
  <2>2. CASE faults = {} /\ stage' = "serving" /\ report' = report
    BY <2>1, <2>2 DEF CheckInv, Checked, Later, AcceptedEnvironmentStarts,
       SenderFaults, RESTFaults, WorkerFaults, Transport, tlsConfigured, PortsClash
  <2>3. ASSUME NEW f \in faults, stage' = "failed",
               report' = [at |-> "listen", faults |-> {f}]
        PROVE  CheckInv'
    BY <2>3 DEF CheckInv, Checked, Later, AcceptedEnvironmentStarts
  <2> QED BY <1>6, <2>2, <2>3, CheckCases DEF Listen
<1>7. CASE Repair
  BY <1>7 DEF Repair, CheckInv, Checked, Later, AcceptedEnvironmentStarts
<1>8. CASE UNCHANGED vars
  BY <1>8 DEF vars, CheckInv, Checked, Later, AcceptedEnvironmentStarts,
     SenderFaults, RESTFaults, WorkerFaults, Transport, tlsConfigured, PortsClash
<1> QED BY <1>1, <1>2, <1>3, <1>4, <1>5, <1>6, <1>7, <1>8 DEF Next

-----------------------------------------------------------------------------
(* Types. *)
LEMMA ProblemsAreFaults == Problems(env) \subseteq Faults
<1>1. NumberProblems(env) \subseteq Numbers
  BY DEF NumberProblems
<1>2. StringProblems(env) \cup TLSProblems(env) \subseteq Strings
  BY DEF StringProblems, TLSProblems, Pair, Strings, DefaultString
<1>3. TransportProblems(env) \subseteq Strings
  <2>1. {v \in {"CLOUDFLARE_ACCOUNT_ID", "CLOUDFLARE_API_TOKEN"} :
            stringOrDefault(env, v) = ""} \subseteq Strings
    BY DEF Strings, DefaultString
  <2>2. {v \in {"WORKER_URL"} : stringOrDefault(env, v) # "https"}
            \cup {v \in {"WORKER_SECRET"} : stringOrDefault(env, v) = ""}
            \cup {"CLOUDFLARE_TRANSPORT"} \subseteq Strings
    BY DEF Strings, DefaultString
  <2> QED BY <2>1, <2>2 DEF TransportProblems
<1> QED BY <1>1, <1>2, <1>3 DEF Problems, Faults

LEMMA NumbersTyped ==
    ASSUME env \in EnvironmentType, NEW v \in Numbers
    PROVE  Default[v] \in Int /\ numberOrDefault(env, v) \in Int
<1>1. Default[v] \in Int
  BY DEF Numbers, Default, cloudflareMaxMessageBytes, cloudflareMaxRecipients
<1> QED BY <1>1 DEF numberOrDefault, EnvironmentType

LEMMA RepairTyped == TypeOK /\ Repair => TypeOK'
<1> SUFFICES ASSUME TypeOK, Repair PROVE TypeOK'
  OBVIOUS
<1>1. PICK transport \in {"rest", "worker"}, port \in OtherPorts :
        env' = Repaired(transport, port)
  BY DEF Repair
<1>2. \A v \in Strings : Mended(v, transport) \in Words
  <2>1. \A v \in Strings : Mended(v, transport) \in {transport, "https", "info", "given"}
    BY DEF Mended
  <2>2. {"https", "info", "given", "rest", "worker"} \subseteq Words
    BY StartupAssumption
  <2> QED BY <2>1, <2>2
<1>3. \A v \in Numbers : Number(Default[v]) \in
          [form : {"unset", "empty", "malformed", "number"}, n : Int]
  BY NumbersTyped DEF Number, Raw, TypeOK
<1>4. port \in Int
  BY DEF OtherPorts
<1>7. Number(port) \in [form : {"unset", "empty", "malformed", "number"}, n : Int]
  BY <1>4 DEF Number, Raw
<1>5. env' \in EnvironmentType
  <2>1. env.string \in [Strings -> Words]
    BY DEF TypeOK, EnvironmentType
  <2>2. env.number \in [Numbers -> [form : {"unset", "empty", "malformed", "number"},
                                    n : Int]]
    BY DEF TypeOK, EnvironmentType
  <2>3. env'.string \in [Strings -> Words]
    BY <1>1, <1>2, <2>1 DEF Repaired, TypeOK, EnvironmentType
  <2>4. env'.number \in [Numbers -> [form : {"unset", "empty", "malformed", "number"},
                                     n : Int]]
    <3>1. \A v \in Numbers : RepairedNumber(v, port) \in
              [form : {"unset", "empty", "malformed", "number"}, n : Int]
      BY <1>3, <1>7, <2>2 DEF RepairedNumber
    <3> QED BY <1>1, <3>1 DEF Repaired, TypeOK, EnvironmentType
  <2>5. env'.keyPair \in BOOLEAN
    BY <1>1 DEF Repaired, TypeOK, EnvironmentType
  <2>6. env'.allowed = env.allowed
    BY <1>1 DEF Repaired, TypeOK, EnvironmentType
  <2> QED BY <1>1, <2>3, <2>4, <2>5, <2>6 DEF Repaired, TypeOK, EnvironmentType
<1>6. stage' = "load" /\ report' = report /\ told' \subseteq Faults
  BY DEF Repair, TypeOK
<1> QED BY <1>5, <1>6 DEF TypeOK, Stages

LEMMA TypeInit == Init => TypeOK
BY StartupAssumption DEF Init, TypeOK, Stages, NoReport

LEMMA TypeStep == TypeOK /\ [Next]_vars => TypeOK'
<1> SUFFICES ASSUME TypeOK, [Next]_vars PROVE TypeOK'
  OBVIOUS
<1>1. ASSUME NEW faults \in SUBSET Faults, Fail(faults)
      PROVE  TypeOK'
  BY <1>1 DEF Fail, TypeOK, Stages
<1>2. ASSUME NEW faults, NEW to \in Later, GoOn(faults, to)
      PROVE  TypeOK'
  BY <1>2 DEF GoOn, TypeOK, Later, Stages
<1>3. ASSUME NEW here, NEW faults \in SUBSET Faults, NEW to \in Later,
             Check(here, faults, to)
      PROVE  TypeOK'
  <2>1. ASSUME NEW f \in faults, Fail({f}) PROVE TypeOK'
    BY <1>1, <2>1
  <2> QED BY <1>2, <1>3, <2>1 DEF Check
<1>4. CASE Load
  BY <1>1, <1>2, <1>4, ProblemsAreFaults DEF Load, Later
<1>5. CASE NewLogger
  <2>1. {v \in {"LOG_LEVEL"} : stringOrDefault(env, v) \notin LogLevels} \subseteq Faults
    BY DEF Faults, Strings, DefaultString
  <2> QED BY <1>3, <1>5, <2>1 DEF NewLogger, Later
<1>6. CASE BuildSender
  <2>1. RESTFaults(env) \cup WorkerFaults(env) \subseteq Strings
    BY DEF RESTFaults, WorkerFaults, Strings, DefaultString
  <2>2. {v \in {"CLOUDFLARE_MAX_RETRIES"} : numberOrDefault(env, v) < 0} \subseteq Numbers
    BY Zenon, "CLOUDFLARE_MAX_RETRIES" \in Numbers DEF Numbers, Default
  <2>3. SenderFaults(env) \subseteq Faults
    BY <2>1, <2>2 DEF SenderFaults, Faults
  <2> QED BY <1>3, <1>6, <2>3 DEF BuildSender, Later
<1>7. CASE BuildTLS
  BY <1>3, <1>7 DEF BuildTLS, Later, Faults
<1>8. CASE NewServer
  <2>1. ServerFaults(env) \subseteq Strings \cup Numbers
    BY DEF ServerFaults, Strings, DefaultString, Numbers, Default
  <2> QED BY <1>3, <1>8, <2>1 DEF NewServer, Later, Faults
<1>9. CASE Listen
  BY <1>3, <1>9 DEF Listen, Later, Faults
<1>10. CASE UNCHANGED vars
  BY <1>10 DEF vars, TypeOK
<1> QED BY <1>4, <1>5, <1>6, <1>7, <1>8, <1>9, <1>10, RepairTyped DEF Next

-----------------------------------------------------------------------------
(* What is accepted can be built (config.go against main.go:99-149).       *)
THEOREM AcceptanceCorrect == Spec => []AcceptedEnvironmentStarts
BY CheckInit, CheckStep, PTL DEF Spec, CheckInv

(* Every variable keeps its type. *)
THEOREM TypeCorrect == Spec => []TypeOK
BY TypeInit, TypeStep, PTL DEF Spec

(* What serves is within the limits. *)
LEMMA LimitsLemma == TypeOK /\ Checked => ServesWithinLimits
<1> SUFFICES ASSUME TypeOK, Checked, stage = "serving" PROVE ServesWithinLimits
  BY DEF ServesWithinLimits
<1>1. Problems(env) = {} /\ (tlsConfigured(env) => env.keyPair)
  BY DEF Checked, Later
<1>2. {"CLOUDFLARE_MAX_RETRIES", "SMTP_MAX_RECIPIENTS", "CLOUDFLARE_TIMEOUT"}
          \subseteq Numbers
  BY DEF Numbers, Default
<1>3. numberOrDefault(env, "CLOUDFLARE_MAX_RETRIES") \in 0..5
  BY <1>1, <1>2, NumbersSound DEF InRange
<1>4. numberOrDefault(env, "SMTP_MAX_RECIPIENTS") \in 1..50
  BY <1>1, <1>2, NumbersSound DEF InRange, cloudflareMaxRecipients
<1>5. AttemptTimeout > 0
  <2>1. numberOrDefault(env, "CLOUDFLARE_TIMEOUT") \in Int
    BY <1>2, NumbersTyped DEF TypeOK
  <2> QED BY <2>1 DEF AttemptTimeout
<1>6. (\E v \in Pair : stringOrDefault(env, v) # "") => tlsConfigured(env) /\ env.keyPair
  BY <1>1, PairSound
<1> QED BY <1>1, <1>3, <1>4, <1>5, <1>6, StringsSound, TransportSound
        DEF ServesWithinLimits

(* Whatever was mended on the way, a relay that serves has credentials, an  *)
(* upstream, limits and time (config.go:107-155).                          *)
THEOREM LimitsCorrect == Spec => []ServesWithinLimits
BY CheckInit, CheckStep, TypeInit, TypeStep, LimitsLemma, PTL DEF Spec, CheckInv

-----------------------------------------------------------------------------
(* The policy allows what is listed, in any ASCII spelling of it.          *)
LEMMA DomainLemma ==
    ASSUME NEW L, NEW d \in Domains(L)
    PROVE  /\ d = [name |-> d.name, letters |-> d.letters]
           /\ d = Blank <=> d.name = ""
           /\ d.letters \in L \cup {"lower"}
<1>1. /\ Blank = [name |-> Blank.name, letters |-> Blank.letters]
      /\ Blank.name = "" /\ Blank.letters = "lower"
  BY DEF Blank
<1>2. CASE d = Blank
  BY <1>1, <1>2
<1>3. CASE d \in [name : Names \ {""}, letters : L]
  <2>1. d = [name |-> d.name, letters |-> d.letters] /\ d.name # "" /\ d.letters \in L
    BY <1>3
  <2>2. d # Blank
    BY <1>1, <2>1
  <2> QED BY <2>1, <2>2
<1> QED BY <1>2, <1>3 DEF Domains

LEMMA PolicyLemma == TypeOK => PolicyAsListed
<1> SUFFICES ASSUME TypeOK, NEW d \in Senders
             PROVE  Allows(d) <=> \/ env.allowed \subseteq {Blank}
                                  \/ \E x \in env.allowed \ {Blank} : x.name = d.name
  BY DEF PolicyAsListed
<1>1. d \in Domains({"lower", "upper"})
  BY StartupAssumption
<1>2. lowerASCII(d) = [name |-> d.name, letters |-> "lower"]
  <2>1. d.letters \in {"lower", "upper"}
    BY <1>1, DomainLemma
  <2>2. d = [name |-> d.name, letters |-> d.letters]
    BY <1>1, DomainLemma
  <2>3. CASE d.letters = "upper"
    BY <2>3 DEF lowerASCII, ToLower
  <2>4. CASE d.letters = "lower"
    <3>1. lowerASCII(d) = d
      BY <2>4 DEF lowerASCII
    <3> QED BY <2>2, <2>4, <3>1
  <2> QED BY <2>1, <2>3, <2>4
<1>3. ASSUME NEW x \in env.allowed
      PROVE  /\ lowerASCII(ToLower(x)) = [name |-> x.name, letters |-> "lower"]
             /\ x # Blank <=> x.name # ""
  <2>1. x \in Domains({"lower", "upper", "foreign"})
    BY DEF TypeOK, EnvironmentType
  <2>2. ToLower(x) = [name |-> x.name, letters |-> "lower"]
    BY DEF ToLower
  <2>3. lowerASCII(ToLower(x)) = ToLower(x)
    BY <2>2 DEF lowerASCII
  <2> QED BY <2>1, <2>2, <2>3, DomainLemma
<1>4. {lowerASCII(x) : x \in normalizeDomains(env)}
        = {[name |-> x.name, letters |-> "lower"] : x \in env.allowed \ {Blank}}
  <2>1. {lowerASCII(x) : x \in normalizeDomains(env)}
          = {lowerASCII(ToLower(x)) : x \in env.allowed \ {Blank}}
    BY DEF normalizeDomains
  <2> QED BY <1>3, <2>1
<1>5. d # Blank <=> d.name # ""
  BY <1>1, DomainLemma
<1>6. d # Blank /\ lowerASCII(d) \in {lowerASCII(x) : x \in normalizeDomains(env)}
        <=> \E x \in env.allowed \ {Blank} : x.name = d.name
  <2>1. ASSUME NEW x \in env.allowed \ {Blank}
        PROVE  [name |-> d.name, letters |-> "lower"] = [name |-> x.name, letters |-> "lower"]
                   <=> x.name = d.name
    OBVIOUS
  <2>2. ASSUME NEW x \in env.allowed \ {Blank}, x.name = d.name
        PROVE  d # Blank
    BY <1>3, <1>5, <2>2
  <2> QED BY <1>2, <1>4, <2>1, <2>2
<1>7. {lowerASCII(x) : x \in normalizeDomains(env)} = {} <=> env.allowed \subseteq {Blank}
  BY DEF normalizeDomains
<1> QED BY <1>6, <1>7 DEF Allows

(* Whatever is mended, the policy is the listed one (policy.go:19-44).     *)
THEOREM PolicyCorrect == Spec => []PolicyAsListed
BY TypeInit, TypeStep, PolicyLemma, PTL DEF Spec

(* The probe of a process that serves. *)
LEMMA ProbeLemma == TypeOK /\ Checked => ProbeTruthful
<1> SUFFICES ASSUME TypeOK, Checked, stage = "serving", OnLoopback, NEW lost \in Lost,
                    lost = {} \/ numberOrDefault(env, "HEALTH_PORT") = 8080
             PROVE  probePort(Without(env, lost)) = numberOrDefault(env, "HEALTH_PORT")
  BY DEF ProbeTruthful, Healthy
<1> DEFINE e == Without(env, lost)
<1>1. env.string \in [Strings -> Words] /\ DOMAIN env.number = Numbers
  BY DEF TypeOK, EnvironmentType
<1>2. "HEALTH_PORT" \in Numbers /\ Default["HEALTH_PORT"] = 8080
  BY DEF Numbers, Default
<1>3. CASE lost = {}
  <2>1. /\ env = [string |-> env.string, number |-> env.number,
                   allowed |-> env.allowed, keyPair |-> env.keyPair]
        /\ env.string = [v \in Strings |-> env.string[v]]
        /\ env.number = [v \in Numbers |-> env.number[v]]
    BY DEF TypeOK, EnvironmentType
  <2>2. [v \in Strings |-> IF v \in lost THEN Unset ELSE env.string[v]] = env.string
    BY <1>3, <2>1
  <2>3. [v \in Numbers |-> IF v \in lost THEN Raw("unset", 0) ELSE env.number[v]]
          = env.number
    BY <1>3, <2>1
  <2>5. e = env
    BY <2>1, <2>2, <2>3 DEF Without
  <2>4. Problems(env) = {}
    BY DEF Checked, Later
  <2> QED BY <2>4, <2>5 DEF probePort
<1>4. CASE numberOrDefault(env, "HEALTH_PORT") = 8080
  <2>1. e.number["HEALTH_PORT"] = env.number["HEALTH_PORT"]
           \/ e.number["HEALTH_PORT"] = Raw("unset", 0)
    BY <1>1, <1>2 DEF Without, TypeOK, EnvironmentType
  <2>2. numberOrDefault(e, "HEALTH_PORT") = 8080
    BY <1>2, <1>4, <2>1 DEF numberOrDefault, Raw
  <2> QED BY <1>4, <2>2 DEF probePort
<1> QED BY <1>3, <1>4

(* A relay that serves is found healthy, whatever else the probe's         *)
(* environment lacks, by a probe that can reach it (main.go:75-91).        *)
THEOREM ProbeCorrect == Spec => []ProbeTruthful
BY CheckInit, CheckStep, TypeInit, TypeStep, ProbeLemma, PTL DEF Spec, CheckInv

-----------------------------------------------------------------------------
(* What has been mended stays mended, and a fault is not of a mended       *)
(* variable.  A clash of ports is found last, when all else passes.        *)
Sound(f) ==
    /\ f \in Numbers => /\ env.number[f].form = "number"
                        /\ InRange(f, env.number[f].n)
    /\ f \in Strings => \E t \in {"rest", "worker"} : env.string[f] = Mended(f, t)
    /\ f = "keyPair" => env.keyPair

Passes(e) ==
    /\ Problems(e) = {} /\ SenderFaults(e) = {}
    /\ tlsConfigured(e) => e.keyPair

Mending ==
    /\ \A f \in told : Sound(f)
    /\ stage = "failed" => \A f \in report.faults \ {"ports"} : ~Sound(f)
    /\ stage = "failed" /\ "ports" \in report.faults =>
           report.faults = {"ports"} /\ Passes(env)
    /\ "ports" \in told => stage # "failed" /\ Passes(env) /\ ~PortsClash(env)

IInv == TypeOK /\ CheckInv /\ Mending

LEMMA SoundNumber ==
    ASSUME NEW f \in Numbers, Sound(f)
    PROVE  InRange(f, numberOrDefault(env, f)) /\ f \notin NumberProblems(env)
<1>1. env.number[f].form = "number" /\ numberOrDefault(env, f) = env.number[f].n
  BY DEF Sound, numberOrDefault
<1>2. InRange(f, numberOrDefault(env, f))
  BY <1>1 DEF Sound
<1> QED BY <1>1, <1>2 DEF NumberProblems

LEMMA SoundString ==
    ASSUME NEW f \in Strings, Sound(f)
    PROVE  \E t \in {"rest", "worker"} : stringOrDefault(env, f) = Mended(f, t)
<1>1. PICK t \in {"rest", "worker"} : env.string[f] = Mended(f, t)
  BY DEF Sound
<1>2. Mended(f, t) \in {"rest", "worker", "https", "info", "given"}
  BY DEF Mended
<1>3. env.string[f] # Unset
  BY <1>1, <1>2 DEF Unset
<1> QED BY <1>1, <1>3 DEF stringOrDefault

(* The faults of each stage are not of a sound variable. *)
LEMMA StringFault ==
    ASSUME NEW f \in Strings,
           \/ stringOrDefault(env, f) = ""
           \/ f = "LOG_LEVEL" /\ stringOrDefault(env, f) \notin LogLevels
           \/ f = "WORKER_URL" /\ stringOrDefault(env, f) # "https"
           \/ f = "CLOUDFLARE_TRANSPORT" /\ stringOrDefault(env, f) \notin {"rest", "worker"}
    PROVE  ~Sound(f)
<1> SUFFICES ASSUME Sound(f) PROVE FALSE
  OBVIOUS
<1>1. PICK t \in {"rest", "worker"} : stringOrDefault(env, f) = Mended(f, t)
  BY SoundString
<1>2. Mended(f, t) # ""
  BY DEF Mended
<1>3. f = "LOG_LEVEL" => Mended(f, t) = "info"
  BY DEF Mended
<1>4. f = "WORKER_URL" => Mended(f, t) = "https"
  BY DEF Mended
<1>5. f = "CLOUDFLARE_TRANSPORT" => Mended(f, t) = t
  BY DEF Mended
<1> QED BY <1>1, <1>2, <1>3, <1>4, <1>5 DEF LogLevels

LEMMA ProblemUnsound ==
    ASSUME NEW f \in Problems(env)
    PROVE  ~Sound(f)
<1>1. CASE f \in NumberProblems(env)
  <2>1. f \in Numbers
    BY <1>1 DEF NumberProblems
  <2> QED BY <1>1, <2>1, SoundNumber
<1>2. CASE f \in StringProblems(env) \cup TLSProblems(env) \cup TransportProblems(env)
  <2>1. f \in Strings
    BY <1>2 DEF StringProblems, TLSProblems, TransportProblems, Pair, Strings, DefaultString
  <2>2. \/ stringOrDefault(env, f) = ""
        \/ f = "LOG_LEVEL" /\ stringOrDefault(env, f) \notin LogLevels
        \/ f = "WORKER_URL" /\ stringOrDefault(env, f) # "https"
        \/ f = "CLOUDFLARE_TRANSPORT" /\ stringOrDefault(env, f) \notin {"rest", "worker"}
    <3>1. CASE f \in StringProblems(env)
      BY <3>1 DEF StringProblems
    <3>2. CASE f \in TLSProblems(env)
      BY <3>2 DEF TLSProblems
    <3>3. CASE f \in TransportProblems(env)
      BY <3>3, Zenon DEF TransportProblems, Transport
    <3> QED BY <1>2, <3>1, <3>2, <3>3
  <2> QED BY <2>1, <2>2, StringFault
<1> QED BY <1>1, <1>2 DEF Problems

LEMMA SenderUnsound ==
    ASSUME Problems(env) = {}, NEW f \in SenderFaults(env)
    PROVE  ~Sound(f) /\ f # "ports"
<1>1. f = "CLOUDFLARE_API_BASE_URL"
  BY SenderSound
<1>2. f \in Strings
  BY <1>1 DEF Strings, DefaultString
<1>3. stringOrDefault(env, f) = ""
  <2>1. f \in RESTFaults(env) \cup WorkerFaults(env)
    BY <1>1 DEF SenderFaults
  <2> QED BY <2>1 DEF RESTFaults, WorkerFaults
<1> QED BY <1>1, <1>2, <1>3, StringFault

-----------------------------------------------------------------------------
(* While the environment stays, mending is about the stage alone. *)
LEMMA MendSame ==
    ASSUME Mending, env' = env, told' = told,
           stage' = "failed" =>
               /\ "ports" \notin told
               /\ \A f \in report'.faults \ {"ports"} : ~Sound(f)
               /\ "ports" \in report'.faults => report'.faults = {"ports"} /\ Passes(env)
    PROVE  Mending'
BY DEF Mending, Sound, Passes, SenderFaults, RESTFaults, WorkerFaults, Transport,
       tlsConfigured, PortsClash

LEMMA MendInit == Init => Mending
BY DEF Init, Mending

(* A start, and its checks. *)
LEMMA MendStart ==
    ASSUME IInv, Load \/ NewLogger \/ BuildSender \/ BuildTLS \/ NewServer \/ Listen
    PROVE  Mending'
<1>1. "ports" \in told => Passes(env) /\ ~PortsClash(env)
  BY DEF IInv, Mending
<1>2. CASE Load
  <2>1. ASSUME stage' = "failed"
        PROVE  report'.faults = Problems(env) /\ Problems(env) # {}
    BY <1>2, <2>1 DEF Load, Fail, GoOn
  <2>2. "ports" \notin Problems(env)
    <3>1. NumberProblems(env) \subseteq Numbers
      BY DEF NumberProblems
    <3>2. "ports" \notin StringProblems(env) \cup TLSProblems(env)
      BY DEF StringProblems, TLSProblems, Pair
    <3>3. "ports" \notin TransportProblems(env)
      BY DEF TransportProblems
    <3> QED BY <3>1, <3>2, <3>3, Disjoint DEF Problems
  <2>3. env' = env /\ told' = told
    BY <1>2 DEF Load, Fail, GoOn
  <2> QED BY <1>1, <2>1, <2>2, <2>3, ProblemUnsound, MendSame DEF IInv, Passes
<1>3. CASE NewLogger
  <2>1. stage' # "failed" /\ env' = env /\ told' = told
    BY <1>3, CheckCases, LoggerSound DEF NewLogger, IInv, CheckInv, Checked, Later
  <2> QED BY <2>1, MendSame DEF IInv
<1>4. CASE BuildSender
  <2>1. env' = env /\ told' = told /\ Problems(env) = {}
    BY <1>4, CheckCases DEF BuildSender, IInv, CheckInv, Checked, Later
  <2>2. ASSUME stage' = "failed"
        PROVE  \E f \in SenderFaults(env) : report'.faults = {f}
    BY <1>4, <2>2, CheckCases DEF BuildSender
  <2> QED BY <1>1, <2>1, <2>2, SenderUnsound, MendSame DEF IInv, Passes
<1>5. CASE BuildTLS
  <2>1. env' = env /\ told' = told
    BY <1>5, CheckCases DEF BuildTLS
  <2>2. ASSUME stage' = "failed"
        PROVE  report'.faults = {"keyPair"} /\ tlsConfigured(env) /\ ~env.keyPair
    BY <1>5, <2>2, CheckCases DEF BuildTLS
  <2> QED BY <1>1, <2>1, <2>2, MendSame DEF IInv, Passes, Sound
<1>6. CASE NewServer
  <2>1. stage' # "failed" /\ env' = env /\ told' = told
    BY <1>6, CheckCases, ServerSound DEF NewServer, IInv, CheckInv, Checked, Later
  <2> QED BY <2>1, MendSame DEF IInv
<1>7. CASE Listen
  <2>1. env' = env /\ told' = told /\ Passes(env)
    BY <1>7, CheckCases DEF Listen, IInv, CheckInv, Checked, Later, Passes
  <2>2. ASSUME stage' = "failed"
        PROVE  report'.faults = {"ports"} /\ PortsClash(env)
    BY <1>7, <2>2, CheckCases DEF Listen
  <2> QED BY <1>1, <2>1, <2>2, MendSame DEF IInv
<1> QED BY <1>2, <1>3, <1>4, <1>5, <1>6, <1>7

-----------------------------------------------------------------------------
(* Mending. *)
LEMMA DefaultInRange ==
    ASSUME NEW v \in Numbers
    PROVE  InRange(v, Default[v])
<1>1. cloudflareMaxMessageBytes \in Nat \ {0} /\ cloudflareMaxRecipients \in Nat \ {0}
  BY DEF cloudflareMaxMessageBytes, cloudflareMaxRecipients
<1>2. CASE v = "SMTP_PORT"
  <2>1. Default["SMTP_PORT"] = 2525
    BY DEF Default
  <2>2. InRange("SMTP_PORT", 2525)
    BY DEF InRange
  <2> QED BY <1>2, <2>1, <2>2
<1>3. CASE v = "HEALTH_PORT"
  <2>1. Default["HEALTH_PORT"] = 8080
    BY DEF Default
  <2>2. InRange("HEALTH_PORT", 8080)
    BY DEF InRange
  <2> QED BY <1>3, <2>1, <2>2
<1>4. CASE v = "SMTP_MAX_MESSAGE_BYTES"
  <2>1. Default[v] = cloudflareMaxMessageBytes
    BY <1>4 DEF Default
  <2> QED BY <1>1, <1>4, <2>1 DEF InRange
<1>5. CASE v = "SMTP_MAX_RECIPIENTS"
  <2>1. Default[v] = cloudflareMaxRecipients
    BY <1>5 DEF Default
  <2> QED BY <1>1, <1>5, <2>1 DEF InRange
<1>6. CASE v = "CLOUDFLARE_MAX_RETRIES"
  <2>1. Default[v] = 2
    BY <1>6 DEF Default
  <2> QED BY <1>6, <2>1 DEF InRange
<1>7. CASE v \in {"CLOUDFLARE_TIMEOUT", "SMTP_READ_TIMEOUT", "SMTP_WRITE_TIMEOUT"}
  <2>1. \A n : InRange("CLOUDFLARE_TIMEOUT", n)
    BY DEF InRange
  <2>2. \A n : InRange("SMTP_READ_TIMEOUT", n)
    BY DEF InRange
  <2>3. \A n : InRange("SMTP_WRITE_TIMEOUT", n)
    BY DEF InRange
  <2> QED BY <1>7, <2>1, <2>2, <2>3
<1> QED BY <1>2, <1>3, <1>4, <1>5, <1>6, <1>7 DEF Numbers, Default

LEMMA OtherPortsInRange ==
    ASSUME NEW p \in OtherPorts PROVE InRange("HEALTH_PORT", p)
BY DEF OtherPorts, InRange

LEMMA RepairSound ==
    ASSUME TypeOK, Mending, Repair, NEW f \in told'
    PROVE  Sound(f)'
<1>1. PICK transport \in {"rest", "worker"}, port \in OtherPorts :
        env' = Repaired(transport, port)
  BY DEF Repair
<1>2. f \in report.faults \/ (f \in told /\ Sound(f))
  BY DEF Repair, Mending
<1>3. ASSUME f \in Numbers
      PROVE  env'.number[f].form = "number" /\ InRange(f, env'.number[f].n)
  <2>1. env'.number[f] = RepairedNumber(f, port)
    BY <1>1, <1>3 DEF Repaired
  <2>2. CASE f \in report.faults
    BY <2>1, <2>2, <1>3, DefaultInRange DEF RepairedNumber, Number, Raw
  <2>3. CASE f \notin report.faults /\ f = "HEALTH_PORT" /\ "ports" \in report.faults
    BY <2>1, <2>3, OtherPortsInRange DEF RepairedNumber, Number, Raw
  <2>4. CASE f \notin report.faults /\ ~(f = "HEALTH_PORT" /\ "ports" \in report.faults)
    BY <1>2, <1>3, <2>1, <2>4 DEF RepairedNumber, Sound
  <2> QED BY <2>2, <2>3, <2>4
<1>4. ASSUME f \in Strings
      PROVE  \E t \in {"rest", "worker"} : env'.string[f] = Mended(f, t)
  <2>1. CASE f \in report.faults
    BY <1>1, <1>4, <2>1 DEF Repaired
  <2>2. CASE f \notin report.faults
    <3>1. env'.string[f] = env.string[f]
      BY <1>1, <1>4, <2>2 DEF Repaired
    <3> QED BY <1>2, <1>4, <2>2, <3>1 DEF Sound
  <2> QED BY <2>1, <2>2
<1>5. f = "keyPair" => env'.keyPair
  <2>1. env'.keyPair = (env.keyPair \/ "keyPair" \in report.faults)
    BY <1>1, Zenon DEF Repaired
  <2> QED BY <1>2, <2>1, Zenon DEF Sound
<1> QED BY <1>3, <1>4, <1>5 DEF Sound

(* Another health port than the other listener's ends the clash, and       *)
(* brings no fault of its own.                                             *)
LEMMA PortLemma ==
    ASSUME NEW e, NEW d, NEW port \in OtherPorts,
           d.string = e.string, d.keyPair = e.keyPair,
           \A v \in Numbers \ {"HEALTH_PORT"} : d.number[v] = e.number[v],
           d.number["HEALTH_PORT"] = Number(port),
           port # numberOrDefault(e, "SMTP_PORT"), Passes(e)
    PROVE  Passes(d) /\ ~PortsClash(d)
<1>1. "SMTP_PORT" \in Numbers \ {"HEALTH_PORT"} /\ "HEALTH_PORT" \in Numbers
  BY DEF Numbers, Default
<1>2. \A v : stringOrDefault(d, v) = stringOrDefault(e, v)
  BY DEF stringOrDefault
<1>3. \A v \in Numbers \ {"HEALTH_PORT"} : numberOrDefault(d, v) = numberOrDefault(e, v)
  BY DEF numberOrDefault
<1>4. numberOrDefault(d, "HEALTH_PORT") = port
  BY DEF numberOrDefault, Number, Raw
<1>5. NumberProblems(d) = {}
  <2>1. ASSUME NEW v \in Numbers \ {"HEALTH_PORT"}
        PROVE  d.number[v].form # "malformed" /\ InRange(v, numberOrDefault(d, v))
    BY <1>3 DEF NumberProblems, Passes, Problems
  <2>2. d.number["HEALTH_PORT"].form # "malformed"
    BY DEF Number, Raw
  <2>3. InRange("HEALTH_PORT", numberOrDefault(d, "HEALTH_PORT"))
    BY <1>4, OtherPortsInRange
  <2>4. ASSUME NEW v \in Numbers
        PROVE  d.number[v].form # "malformed" /\ InRange(v, numberOrDefault(d, v))
    BY <2>1, <2>2, <2>3
  <2> QED BY <2>4 DEF NumberProblems
<1>6. Problems(d) = {}
  <2>1. StringProblems(d) = StringProblems(e) /\ TLSProblems(d) = TLSProblems(e)
    BY DEF StringProblems, TLSProblems, stringOrDefault
  <2>2. TransportProblems(d) = TransportProblems(e)
    BY DEF TransportProblems, Transport, stringOrDefault
  <2> QED BY <1>5, <2>1, <2>2 DEF Passes, Problems
<1>7. SenderFaults(d) = {}
  <2>1. RESTFaults(d) = RESTFaults(e) /\ WorkerFaults(d) = WorkerFaults(e)
           /\ Transport(d) = Transport(e)
    BY DEF RESTFaults, WorkerFaults, Transport, stringOrDefault
  <2>2. (IF Transport(e) = "rest" THEN RESTFaults(e) ELSE WorkerFaults(e)) = {}
    BY DEF Passes, SenderFaults
  <2>3. "CLOUDFLARE_API_BASE_URL" \notin SenderFaults(d)
    BY <2>1, <2>2 DEF SenderFaults
  <2> QED BY <1>6, <2>3, SenderSound
<1>8. tlsConfigured(d) <=> tlsConfigured(e)
  BY DEF tlsConfigured, stringOrDefault
<1>9. ~PortsClash(d)
  <2>1. numberOrDefault(d, "SMTP_PORT") # numberOrDefault(d, "HEALTH_PORT")
    BY <1>1, <1>3, <1>4
  <2>2. PortsClash(d) => numberOrDefault(d, "SMTP_PORT") = numberOrDefault(d, "HEALTH_PORT")
    BY Zenon DEF PortsClash
  <2> QED BY <2>1, <2>2
<1> QED BY <1>6, <1>7, <1>8, <1>9 DEF Passes

LEMMA RepairPorts ==
    ASSUME TypeOK, Mending, Repair, "ports" \in told'
    PROVE  Passes(env') /\ ~PortsClash(env')
<1>1. report.faults = {"ports"} /\ Passes(env)
  BY DEF Repair, Mending
<1>2. PICK transport \in {"rest", "worker"},
           port \in OtherPorts \ {numberOrDefault(env, "SMTP_PORT")} :
        env' = Repaired(transport, port)
  BY DEF Repair
<1>3. "ports" \notin Strings \cup Numbers
  BY Disjoint
<1>4. env'.string = env.string /\ env'.keyPair = env.keyPair
  <2>1. env.string = [v \in Strings |-> env.string[v]] /\ env.keyPair \in BOOLEAN
    BY DEF TypeOK, EnvironmentType
  <2>2. [v \in Strings |-> IF v \in report.faults THEN Mended(v, transport)
                                                  ELSE env.string[v]] = env.string
    BY <1>1, <1>3, <2>1
  <2> QED BY <1>1, <1>2, <2>1, <2>2 DEF Repaired
<1>5. \A v \in Numbers \ {"HEALTH_PORT"} : env'.number[v] = env.number[v]
  BY <1>1, <1>2, <1>3 DEF Repaired, RepairedNumber
<1>6. env'.number["HEALTH_PORT"] = Number(port)
  <2>1. "HEALTH_PORT" \in Numbers
    BY DEF Numbers, Default
  <2> QED BY <1>1, <1>2, <1>3, <2>1 DEF Repaired, RepairedNumber
<1> QED BY <1>1, <1>2, <1>4, <1>5, <1>6, PortLemma

LEMMA IInit == Init => IInv
BY CheckInit, TypeInit, MendInit DEF IInv

LEMMA IStep == IInv /\ [Next]_vars => IInv'
<1> SUFFICES ASSUME IInv, [Next]_vars PROVE Mending'
  BY CheckStep, TypeStep DEF IInv
<1>1. CASE Repair
  <2>1. \A f \in told' : Sound(f)'
    BY <1>1, RepairSound DEF IInv
  <2>2. stage' = "load"
    BY <1>1 DEF Repair
  <2> QED BY <1>1, <2>1, <2>2, RepairPorts DEF IInv, Mending
<1>2. CASE UNCHANGED vars
  BY <1>2, MendSame DEF IInv, Mending, vars
<1> QED BY <1>1, <1>2, MendStart DEF Next

(* Nothing that was mended is found wrong again, by loadFrom or by any of  *)
(* the checks after it (config.go:136-155, main.go:99-149).                *)
THEOREM MendingCorrect == Spec => []NeverToldTwice
<1>1. IInv => NeverToldTwice
  BY DEF IInv, Mending, NeverToldTwice
<1> QED BY <1>1, IInit, IStep, PTL DEF Spec
=============================================================================
