------------------------------ MODULE MCStartup ------------------------------
(* The environment of each transport, and .env.example as it is copied,    *)
(* with up to three variables changed, to each value the code treats in a  *)
(* way of its own.                                                         *)
EXTENDS Startup, TLC

Entry(name, letters) == [name |-> name, letters |-> letters]

Env(changes) ==
    [string  |-> changes @@ [v \in Strings |-> Unset],
     number  |-> [v \in Numbers |-> Raw("unset", 0)],
     allowed |-> {Blank, Entry("ours", "upper"), Entry("theirs", "foreign")},
     keyPair |-> FALSE]

Login   == [SMTP_USER |-> "given", SMTP_PASSWORD |-> "given"]
REST    == Env(Login @@ [CLOUDFLARE_ACCOUNT_ID |-> "given",
                         CLOUDFLARE_API_TOKEN |-> "given"])
Worker  == Env(Login @@ [CLOUDFLARE_TRANSPORT |-> "worker",
                         WORKER_URL |-> "https", WORKER_SECRET |-> "given"])
Example == [Env(Login @@ [v \in Strings |-> IF v \in Pair \/ DefaultString[v] = ""
                                            THEN "" ELSE DefaultString[v]])
            EXCEPT !.keyPair = TRUE, !.allowed = {Blank}]

MCWords == {Unset, "", "given", "https", "rest", "REST", "worker", "info", "INFO",
            "verbose", "0.0.0.0", "127.0.0.1", "172.18.0.2"}
MCNames == {"ours", "sub.ours", "theirs"}

StringChanges ==
    ({"CLOUDFLARE_TRANSPORT"} \X {"", "REST", "rest", "worker"})
    \cup ({"WORKER_URL"} \X {"", "given", "https"})
    \cup ({"LOG_LEVEL"} \X {"", "INFO", "verbose"})
    \cup ({"HEALTH_HOST"} \X {"127.0.0.1", "172.18.0.2"})
    \cup ({"SMTP_HOST"} \X {"", "172.18.0.2"})
    \cup ({"SMTP_USER", "CLOUDFLARE_API_TOKEN", "CLOUDFLARE_API_BASE_URL",
           "WORKER_SECRET"} \X {"", "given"})
    \cup (Pair \X {"given"})

NumberChanges ==
    ({"SMTP_PORT"} \X {Number(65536), Number(9090)})
    \cup ({"HEALTH_PORT"} \X {Number(0), Number(2525), Number(9090),
                              Raw("malformed", 0), Raw("empty", 0)})
    \cup ({"SMTP_MAX_MESSAGE_BYTES"} \X {Number(0), Number(5242881)})
    \cup ({"SMTP_MAX_RECIPIENTS"} \X {Number(0), Number(51), Raw("malformed", 0)})
    \cup ({"CLOUDFLARE_MAX_RETRIES"} \X {Number(-1), Number(0), Number(6)})
    \cup ({"CLOUDFLARE_TIMEOUT"} \X {Number(-1), Number(0), Raw("malformed", 0)})
    \cup ({"SMTP_READ_TIMEOUT"} \X {Number(-1), Raw("malformed", 0)})

(* The changes that are noticed at different stages of a start. *)
StageChanges == {"CLOUDFLARE_TRANSPORT", "CLOUDFLARE_API_BASE_URL"} \X {""}
                    \cup (Pair \X {"given"})

Both(s, t, n) ==
    {[e EXCEPT !.string[s[1]] = s[2], !.string[t[1]] = t[2], !.number[n[1]] = n[2]] :
        e \in {REST, Worker, Example}}

NoChange == <<"SMTP_WRITE_TIMEOUT", Raw("unset", 0)>>

MCEnvironments ==
    UNION {Both(s, t, NoChange) : s, t \in StringChanges}
    \cup UNION {Both(s, t, n) : s \in StageChanges, t \in StringChanges,
                                n \in NumberChanges}
    \cup {[REST EXCEPT !.number[m[1]] = m[2], !.number[n[1]] = n[2]] :
            m, n \in NumberChanges}

MCSenders == {Blank, Entry("ours", "lower"), Entry("ours", "upper"),
              Entry("theirs", "upper"), Entry("sub.ours", "lower")}

MCLost == {{}, {"HEALTH_PORT"}, {"SMTP_USER"}, Strings, Strings \cup Numbers}
=============================================================================
