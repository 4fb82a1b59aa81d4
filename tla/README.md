# A TLA+ development of cloudflare-smtp-relay

The relay accepts mail by SMTP from authenticated clients and hands each message, while the
client waits for the reply to DATA, to an HTTP API: Cloudflare's Email Sending REST API, or a
Worker the user deploys. It has no queue and no disk: the reply to DATA *is* the outcome, so
everything that matters happens between the client's commands, one `Send`, and the life of the
process. This directory holds TLA+ modules of those parts, the TLC runs that check them on small
instances, and proofs, checked by TLAPS, of the safety properties that matter most for every
value of the constants.

Every definition is translated from the Go source; `PROJECT.json` ("map") names the lines each
one stands for. go-smtp, go-message and Cloudflare itself are not part of the repository: they
are modelled, as loosely as the code relies on them, from how the code uses them.

## 1. Inventory

| Component | Source | State it keeps | Operations | Module |
|---|---|---|---|---|
| Response classification | `cloudflare/classify.go`, parsers of `rest.go`, `worker.go` | none: tables and functions | classify an answer into a reply and a retry decision | `Classification` |
| Send loop | `cloudflare/send.go` | attempt, last error, Retry-After, the context's clock | attempt, classify, give up, back off, expire | `SendLoop` |
| Sender port | `email/message.go`, `errors.go` | none | `Send` | `Delivery` (abstract) |
| SMTP session | `smtpserver/session.go`, `login.go` | authenticated, from, recipients; LOGIN state | Auth, Mail, Rcpt, Data, Reset, Logout | `SmtpSession` |
| SMTP server, options | `smtpserver/server.go`, `options.go` | listener, address | New, Serve, Shutdown | `SmtpSession`, `Lifecycle`, `Startup` (partly) |
| Recipient split | `email/parse.go` | the three lists and who is assigned | splitRecipients, headerAddresses | `Recipients` |
| Message parsing | `email/parse.go` | the reader over the parts, text and HTML so far | Parse, readBodyParts | `Parsing` (partly) |
| Request payload | `cloudflare/payload.go` | none | buildPayload | `Parsing`, `MailWorker` (partly) |
| Cloudflare Worker | `worker/src/index.js`, `worker.go` | none (its secret is deployed) | fetch, toBindingMessage, statusForCode | `MailWorker` |
| Configuration | `config/*.go`, constructors | none | loadFrom, NewREST, NewWorker, Options.validate | `Startup` |
| Sender policy | `email/policy.go`, `config/validate.go` | allowed domains | normalizeDomains, NewSenderPolicy, Allows | `Startup`; a parameter of `SmtpSession` |
| Process lifecycle | `cmd/relay/main.go` | listeners, serveErr channel, signal context | run, shutdown, exit | `Lifecycle`, `Relay` |
| Health endpoint and probe | `health/health.go`, `main.go` | listener | Serve, Shutdown; Check | `Lifecycle`; `Startup` |
| Logging | `logging/*.go` | none | New, LogDelivery | one record per Data in `SmtpSession`, the level in `Startup` (partly) |
| Release tooling | `scripts/`, workflows | - | - | out of scope |

How they interact: go-smtp's goroutine per connection calls the session's methods one command at
a time. `Data` reads the body, calls `email.Parse` (which calls `splitRecipients`) and then
`Sender.Send` with a context of 30 s of its own, bound neither to the client nor to the process.
`Send` runs the send loop over one of two transports. The main goroutine binds both listeners,
spawns a Serve for each, waits for a signal or a Serve that returns, then drains SMTP and health
within 20 s. Connections share no state, so one connection, and one `Send`, are each a complete
system; only shutdown, and a client that submits again, see several connections.

What is hard here, and what makes each part correct:

* **Send loop**: a lost answer leaves it unknown whether the message was taken, and the retry may
  duplicate it; the clock may reach the deadline at any check; Retry-After, jitter and cap
  interact; the error reported must be the last one. Correct: no unexplained copy, verdict of the
  last answer, no early request, no needless give-up, it returns by the deadline.
* **Classification**: retry decision and reply are computed by separate functions, per transport.
  Correct: they never contradict each other.
* **Session**: reused across transactions, cut short by RSET, second MAIL, failures and
  disconnection; authentication outlives transactions but not STARTTLS. Correct: the envelope sent
  is the one acknowledged, only for authorized clients; one record per Data, in agreement with
  the reply.
* **Recipients**: addresses repeat in other spellings across To, Cc and the envelope. Correct:
  nobody lost, nobody twice, nobody disclosed.
* **Parsing**: the last text and the last HTML part win, a part may be unreadable, and Go hands back
  errors together with usable values. Correct: what is delivered is what the message says, and it
  fails exactly when a documented reason is there.
* **Worker**: its codes pass through HTTP statuses into two tables of the relay; its invocations
  overlap. Correct: 550 exactly for faults of the message; no copy unexplained.
* **Startup**: conditions are checked twice, in `loadFrom` and in the constructors, and what is
  checked depends on what was chosen; the health probe loads its own copy. Correct: what is accepted
  starts, what serves is within the limits the other parts assume, no mended fault comes back.
* **Lifecycle**: signals and broken listeners race, a Send may outlast the grace, clients may
  never leave. Correct: never half up, drained before health goes down, truthful exit status, it
  ends.
* **The whole**: relay and client both retry, the client may leave, the process may die and comes
  back with no memory. Correct: at-least-once, with every copy too many accounted for.

`PROJECT.json` ("hazards") lists these one by one, at the line where each bites.

## 2. Modules

```
Classification <-- SendLoop --implements--> Delivery <--uses-- SmtpSession
      ^                                        :
      +--- MailWorker --extends--> Parsing     :  (Send as Delivery describes it)
                                               v
Recipients     Startup     Lifecycle <--extends-- Relay --implements--> Submission

MC<Module>       instantiates <Module> for TLC
<Module>Proofs   the theorems about it, checked by TLAPS
```

**Classification**. A reply class is (temporary, SMTP code, enhanced code); the wording of reasons
is left out. `codeBuckets` and `workerCodeBuckets` are the tables, `classifyHTTP`, `isRetryable`,
`classifyWorkerCode`, `isWorkerRetryable` and the two `parse...Response` the functions of these
names. A body is unreadable, a success, or a failure with its first code.

**Delivery**. What `Sender.Send` promises: while the verdict is pending, answers may be lost and
copies accepted unseen, at most `MaxRequests` requests leave, success means a copy was taken, and
a verdict is final.

**SendLoop**. `pc` is where the loop is: "top" (line 54), "failed" after an attempt (line 67),
"sleep" (line 77), "done". An attempt is one step, `Respond`, `LoseRequest` or `BuildFails`, that
takes `took` units; it never outlives its own timeout nor the context. Every check of the context
may find it done (`ContextDone`), because a process can be suspended for any time between two
instructions. `requests`, `accepted`, `unanswered`, `answer` and `notBefore` are not the program's:
they record what really happened outside, for the properties to compare with what is reported.
`Wrap` is int64 arithmetic on `time.Duration`, with `DurationMax` as its largest value.

**SmtpSession**. `authenticated`, `from`, `recipients` are the session struct; `fromReceived`,
`rcptCount`, `didAuth`, `tls` are go-smtp's own. `ackedFrom`, `ackedTo` and `presented` are what
the client knows: the envelope it saw acknowledged and the credentials it presented. A refused
command changes nothing and is not an action. `Data` is one step per way out before `Send`, and
`DataSend`, the steps of `Delivery`, and `SendSucceeds` or `SendFails` after it, so that the client
can disconnect in between. Whether go-smtp dispatches MAIL inside an open transaction, the
repository does not say; `NestedMail` covers both.

**Recipients**. Each loop of `splitRecipients` advances one address a step. An address is the key
left by trimming and lowering, and a spelling. (`headerTo` addresses are not trimmed by the code;
go-message's parser leaves no blanks around them.)

**Lifecycle**. `phase` is where `run` is. Listeners are unbound, bound, serving, closing (shut
down, Serve yet to return) and closed, or "broken"/"ended" when Serve returned by itself.
`serveErr` is the channel. `Kill` is SIGKILL at any moment, such as docker's after its stop
timeout. Of a connection only idle or sending, and for how long, is kept.

**Parsing**. `Parse` and `readBodyParts`: the header, the multipart structure, then one part a step
as `NextPart` returns it, which may be a part, the end, or an error with or without a part. A
mail is a record of what the code looks at: header readable or not, From, recipients and subject
there or not, too big for the Worker or not, and the kinds and contents of its parts. `buildPayload`
is the record of what may be missing from the request.

**MailWorker**. One call of `Data` over the Worker transport: the parse, then `Send` together with
the Worker. `invocation` is where each run of `fetch` is: received, sending (inside
`env.EMAIL.send`), over. The relay's loop is reduced to what the Worker can notice: it waits for one
request at a time, may stop waiting at any moment, and retries as `parseWorkerResponse` says.
Invocations therefore overlap and may outlive the call, `RELAY_SECRET` may change between them, and
the platform may end one with a page of its own.

**Startup**. From an environment through the stages of `run` (load, logger, sender, tls, server,
listen) to "serving" or "failed" with the faults reported; then an operator mends exactly what was
reported, in any sound way, and starts again. A string variable is unset, empty, or one of a few
words; a number is unset, empty, malformed or a value. Below the state machine stand the functions
of the environment: the policy, the attempt timeout, and the port a health probe asks, which loads
an environment of its own that may lack some variables (`Without`).

**Submission**. What a client that submits until it is told may rely on: `outcome` is what it was
told for good, `copies` what the upstream took, `doubts` the requests whose fate nobody was told.

**Relay**. `Lifecycle` with one client and one message, over several lives of the process. A client
submits on an idle connection and may stop waiting (`Abandon`); its Send runs on, since
session.go:217 gives it a context of its own. Each request of a Send may be lost (`LoseAnswer`), as
`Delivery` has it; when the process ends, any Send under way may still be taken (`CutShort`).
`Restart` is docker's. The client's steps and docker are external.

Operators preceded by "Mutant of X" are wrong versions of X, kept to show that each property notices
them; nothing uses them.

## 3. Runs

| Run | Checks | Instance |
|---|---|---|
| `sendloop_rest` | 3 properties of the verdict and the copies, agreement of retry and reply, Retry-After, termination, refinement of `Delivery` | 3 attempts; the production deadlines in units of 500 ms; 19 answers |
| `smtp_session` | envelope, authorization, reports, authentication, Data always ends | TLS configured, nested MAIL, 2 allowed senders and one not, 2 recipients, right and wrong credentials, 2 Data |
| `recipients` | 4 invariants | header fields of up to 2 addresses, envelopes of up to 3 |
| `mail_worker` | the parse, what the client is told, what is taken, `RetryMayHelp` | 3 requests; all messages of up to 2 parts of 10 kinds, one of 3, and one for each other thing that can be wrong |
| `startup` | 5 invariants | about 5300 environments, from both transports and `.env.example`, up to 3 variables changed to each value the code treats in its own way |
| `lifecycle` | 4 invariants, `Stops` | 2 connections, Send 30 s and grace 20 s in units of 10 s |
| `relay` | copies, shutdown, refinement of `Submission` | 2 connections, 2 requests a Send, 2 submissions, 1 restart, a Send twice as long as the grace |
| five violation runs | one documented statement each | see Findings |

Why these bounds suffice. *SendLoop*: the loop's behaviour depends on the last answer, the
attempt number and the time left; three attempts (the default of 2 retries) give a first, a middle
and a last attempt, and latencies {0, 1} together with the attempt's limit give answers at once,
late, and at a deadline. `MCResponsesREST` has one answer per way out of the parser and per case
of Retry-After, below, at and above the cap. *SmtpSession*: a leak needs two transactions and two
different senders and recipients; a third adds nothing because Reset leaves no trace of how many
came before. The run configures TLS, where the most can go wrong; the proofs cover the
connection without it, and the send loop over the Worker's parser, too. *Recipients*: three keys,
one in two spellings, let an address be in To, Cc, both or neither, repeat within a list and in the
envelope; the proofs lift the bound. *Parsing*: two parts of every kind, in both orders, show each
part before and after each other; a third of the same kind is there once, and the proofs lift the
bound. *Startup*: a check reads at most three variables; the proofs lift the bound. *Lifecycle*: two
connections suffice for one to hold up the drain while the other begins another transaction; the
unit of 10 s keeps Send longer than the grace, as in production. *Relay*: an overlap needs two
connections and two submissions; what a second life does to the first needs one restart; the
proofs of all its properties lift the bounds. *MailWorker*: an invocation outlived by its request and
overlapping the next needs two requests, a third is the default budget; the proofs lift the bounds on
requests and on messages.

Deadlock is not checked: every one of these systems ends (a returned call, a closed connection, a
finished split, a serving relay, a gone process). That they do not stop before they should is what
`Termination`, `DataAnswered`, `Stops` and the properties of the end states (`SplitAsDocumented`,
`ParseFailsWithReason`) are for. *MailWorker* and *Relay* are checked without fairness: their Send
ends by `SendLoop!Termination`, and nothing they claim is about an eventual step. *Startup* is
straight-line code; that the operator gets there is `NeverToldTwice`, since only finitely many
faults can be told once.

**Fairness.** `SendLoop!FairSpec` is weak fairness of the whole next-state relation: the loop runs
in one goroutine that the scheduler keeps running, the HTTP client and the timers keep their
deadlines; nothing is assumed of the upstream. `SmtpSession!FairSpec` assumes only that a Send in
progress goes on (`WF_vars(SendStep)`), which is `SendLoop!Termination`; nothing is assumed of the
client. `Lifecycle!FairSpec` assumes the main goroutine, the clock and the end of each Send;
nothing of clients, operators or listeners.

## 4. Proofs

For every value of the constants that satisfies the modules' assumptions:

* `ClassificationProofs`: `ParseCoherent`, for every status in Nat and every code, by the tables'
  and fallbacks' lemmas.
* `SendLoopProofs`: `TypeCorrect`, `CopiesCorrect`, `AttemptsCorrect`, `CoherenceCorrect`,
  `VerdictCorrect`, `GiveUpCorrect`, `RetryCorrect`, `RetryAfterCorrect`, `LongRetryAfterCorrect`,
  `CredentialCorrect`, `StepsBounded`, and `Implementation` (SendLoop implements Delivery).
  The properties speak of the end of the call; the inductive invariant `IInv` adds what holds on the
  way there: how `requests` follows `attempt` at each `pc` (`InStep`), that `lastErr` and `retryable`
  are what `answer` parses to (`Remembers`), that the loop sleeps only after a retryable, and
  therefore temporary, error, and that the wait it is about to look at is the last answer's
  (`Hinted`). `Remembers` needs `ParseCoherent`: dropping the last error for a transport error when
  the sleep is interrupted is right only because nothing permanent is ever slept on.
  `GiveUpCorrect` holds in spite of the overflow of Finding 1: wrapping never makes a number of
  seconds longer (`WrapLemma`), so a wait found too long was too long. That the loop waits long
  enough is another matter: `RetryAfterCorrect` and `LongRetryAfterCorrect` assume `NoOverflow`,
  that the seconds of every answer, times `Second`, fit a Duration. It holds of the answers of
  `sendloop_rest`; without it `retry_after_overflow` refutes the second, by a behaviour in which the
  first is false too: the request leaves before the time asked for. Their invariant,
  `Patient`, says at each `pc` how far away `notBefore` may still be. In the same way
  `CredentialCorrect` says what is left of Finding 2: it assumes `CredentialNamed`, that a 401 or 403
  comes in JSON and names no code of a passing fault, which holds of the answers of `sendloop_rest`,
  and concludes what `credential_retried` refutes without it. `StepsBounded` is the safety half of
  `Termination`: every step lowers `StepsLeft`, which begins at three per attempt allowed.
* `SmtpSessionProofs`: `TypeCorrect`, `EnvelopeCorrect`, `SendsAreAuthorized`, `ReportsCorrect`,
  `AuthCorrect`. `IInv` adds that the session's envelope is the acknowledged one at every command
  and during the Send, that an open transaction was authorized, that the right pair was presented
  exactly when the session is authenticated, and that a Send in progress has said nothing yet.
* `RecipientsProofs`: `TypeCorrect`, `SplitSound`, `BlindCorrect`, `SplitCorrect`, for header fields
  and envelopes of any length. `IInv` relates `assigned` to the three lists and says of each loop,
  finished or up to `i`, which keys it has seen.
* `MailWorkerProofs`, for messages of any number of parts and any number of requests: of the parse
  `PartsCorrect` and `FailureCorrect`, of the call `TypeCorrect`, `TakenCorrect`, `RejectionCorrect`,
  `BlameCorrect` and `RetryCorrect`. `ParseInv` says of the parts read so far which of them said the
  text and the HTML, and that none was unreadable; `Parses` carries it over from `Parsing` to the
  whole call. `IInv` has two more parts. `Answered` is about the Worker alone: an answer of success is
  given only by an invocation whose message was taken, a taken message is answered with success or
  not readably at all, and an invalid request is one that lacks something. `Decided` is about the
  relay alone: it has read only answers it understood, and is still undecided only if none of them
  was hopeless. Neither mentions the order of overlapping invocations, which is why the
  properties hold in all of them. The tables of codes enter through `StatusLemma` and the lemmas
  after it, which compute what the relay makes of each answer the Worker can give.
* `LifecycleProofs`: `TypeCorrect`, `BothOrNeither`, `HealthGoesLast`, `ExitCorrect`, for any number
  of connections and any deadlines. `IInv` relates the phase of `run` to the listeners: nobody is
  connected before serving, the channel holds as many reports as listeners have ended, the SMTP drain
  is over, or the grace, when health begins to close.
* `RelayProofs`: `RelayTypeCorrect`, `CopiesCorrect`, `CopiesBoundCorrect`, `StopCorrect` and `Implementation`, for any number of connections,
  submissions, requests and restarts. `RInv` adds to `IInv` of the life that a client waits only
  on a Send under way and only while it is undecided: that is why it is told "sent" at most once. `CopiesBounded` is
  not inductive: it needs `Budget`, that the copies made and the requests still allowed, counted as
  a set of pairs (connection, request) in `Allowed`, are within what the submissions allow. A
  submission brings at most `MaxRequests` pairs, a request uses up one, and the end of the process
  turns at most one pair of each Send under way into a copy (`CutBound`).
* `StartupProofs`: `AcceptanceCorrect`, `LimitsCorrect`, `MendingCorrect`, `PolicyCorrect`,
  `ProbeCorrect`, for every set of typed environments. `Checked` says what each stage has found out;
  `Mending` says that a mended variable is sound and stays so, that a reported fault is never of a
  sound variable, and that a clash of ports is only reported when everything else passes, so
  that another port cannot bring anything back.

The assumptions are those stated in the modules: positive deadlines and limits, `None` and the like
distinct from what they stand beside, finitely many connections in `Relay`, which makes `Budget` a
number, and for `Startup` that environments are typed records. `NoOverflow` and `CredentialNamed`
are hypotheses of the theorems that need them, not assumptions of a module.

Every safety invariant, action property and refinement that a passing run checks is also a theorem.
Only model-checked are the three liveness properties, `Termination`, `DataAnswered` and `Stops`,
since fairness and ENABLED are out of this prover's reach. What the five violation runs check is
false as it stands; `RetryAfterCorrect`, `CredentialCorrect`, `BlindCorrect`, `MendingCorrect` and
`FailureCorrect` say what holds instead.

## 5. Findings

1. **Retry-After overflows** (`send.go:169`, run `retry_after_overflow`). Seconds times
   `time.Second` wraps in int64: a wait of about 292 years or more comes out short or negative,
   passes the cap, and the relay retries at once instead of giving up as send.go:73-74 says.
   The model uses a small `DurationMax` so that the wrap is in reach; `sendloop_rest` shows
   that below it the property holds.
2. **A 401/403 with an undecodable body is retried** (`rest.go:133`, `worker.go:132`, run
   `credential_retried`), against classify.go:128-131 and .env.example:99.
3. **A malformed or empty To discloses blind recipients** (`parse.go:147`, run `blind_disclosed`),
   against message.go:39-42 and parse.go:131-132, which exempt only a message without To and Cc.
4. **Not every mistake is reported in a single run** (`config.go:153`, run `single_run`), against
   .env.example:8-10: the checks of a transport come only once its name is right, and an empty base
   URL is only found by `NewREST`. `NeverToldTwice` shows what holds instead.
5. **An inline image that does not decode fails the whole message** (`parse.go:255`, run
   `nontext_fails_parse`), against parse.go:43-44.

Two smaller disagreements were noticed on the way and have no run: a 403 of the Worker may carry a
code that is answered 550 (`worker.go:124`), where the table at docs/operations.md:14 has it
deferred; and `Attempts` counts a request that could not be built (`send.go:101`), where
errors.go:27 speaks of requests made.

Operators should also know of two things no document denies: HTTP 408 and 425 are answered 550
(`classify.go:90`), and the health probe asks 127.0.0.1 whatever `HEALTH_HOST` is.

## 6. Not modelled

Byte-level work of go-smtp and go-message (dot-stuffing, line limits, MIME decoding, command
parsing); TLS itself; `extractHeaders` and `resolveFrom`, which convert data nobody downstream
decides on; display names and the JSON of the payload; the wording, level and redaction of logs;
constant-time comparison; the defaults of `Options` that `main` always sets; go-smtp's read and write
timeouts, whose values loadFrom does not check (`config.go:90`) but which only end connections, as
`Disconnect` may at any time; the health handler; the -version mode; build and release tooling.
Memory bounds on the message are go-smtp's (`MaxMessageBytes`), seen here only as the way out
`DataTooLarge`.

## 7. What could follow

1. The safety halves of `DataAnswered` and `Stops`, as `StepsBounded` is that of `Termination`: a
   Send in progress changes its session a bounded number of times, and once `run` has begun to shut
   down each clock tick brings the end of the grace nearer.
2. That an operator's mending ends: a measure over the faults not told yet, in `Startup`.
3. `SmtpSession` with several connections inside `Relay`, in place of its one-message client. Since
   connections share no state, this repeats what the two modules say apart.
