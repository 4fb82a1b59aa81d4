----------------------------- MODULE RelayProofs -----------------------------
(***************************************************************************)
(* The relay over all its lives and all the client's submissions, for any  *)
(* number of connections, requests, submissions and restarts: it is        *)
(* at-least-once submission.  That a process which has time ends no Send   *)
(* rests on what LifecycleProofs knows of the phases of its life; that a   *)
(* client is told "sent" once, on its waiting only while it is undecided.  *)
(***************************************************************************)
EXTENDS Relay, LifecycleProofs, FiniteSetTheorems

Undecided == via # None => outcome = "pending"

RInv == IInv /\ RelayTypeOK /\ Undecided /\ CopiesExplained

-----------------------------------------------------------------------------
(* A life step is a step of Lifecycle. *)
LEMMA LiveLemma == Live => Next
BY DEF Live, LifeStep, Next

(* A process that ends with a status ends no Send before its grace is over. *)
LEMMA ExitLemma ==
    ASSUME IInv, LifeStep, Running, exit' \in {"ok", "error"}, Sending # {}
    PROVE  grace = ShutdownGrace
<1>1. PICK c \in Conns : conn[c] # "none"
  BY DEF Sending
<1>2. phase \notin Before
  BY <1>1 DEF IInv, BeforeServing
<1>3. phase # "drainHealth" => exit' \notin {"ok", "error"}
  BY <1>2 DEF LifeStep, MainStep, Prepare, PrepareFails, ListenSMTP,
       ListenSMTPFails, ListenHealth, ListenHealthFails, SelectSignal, SelectError,
       Shutdown, SMTPDrained, ShutdownHealth, RunReturns, Serve, ServeStops,
       ServeReturns, Signal, Kill, Tick, Connect, Leave, Exit, Before, mainVars,
       Running
<1> QED BY <1>1, <1>3 DEF IInv, ShuttingDown, Draining

-----------------------------------------------------------------------------
(* Every step of the relay leaves the invariant of its life alone.         *)
LEMMA LifeLemma == RInv /\ [RelayNext]_relayVars => IInv'
<1> SUFFICES ASSUME RInv, [RelayNext]_relayVars PROVE IInv'
  OBVIOUS
<1>1. IInv
  BY DEF RInv
<1>2. CASE Live
  BY <1>1, <1>2, LiveLemma, StepLemma
<1>3. CASE Restart
  <2>1. age \in [Conns -> 0..SendTimeout] /\ conn = [c \in Conns |-> "none"]
    BY <1>1, <1>3 DEF Restart, IInv, TypeOK, Gone
  <2>2. Starting'
    BY <1>3, <2>1 DEF Restart, Starting, connVars
  <2>3. Starting' => IInv'
    BY StartLemma, PTL
  <2> QED BY <2>2, <2>3
<1>4. ASSUME NEW c \in Conns, Submit(c) \/ SendSucceeds(c) \/ SendFails(c)
      PROVE  IInv'
  <2>1. BeginSend(c) \/ EndSend(c)
    BY <1>4 DEF Submit, SendSucceeds, SendFails
  <2> QED BY <1>1, <2>1, StepLemma DEF Next
<1>5. CASE UNCHANGED vars
  BY <1>1, <1>5, StepLemma
<1>6. Abandon \/ (\E c \in Conns : LoseAnswer(c)) \/ UNCHANGED relayVars => UNCHANGED vars
  BY DEF Abandon, LoseAnswer, relayVars
<1> QED BY <1>2, <1>3, <1>4, <1>5, <1>6 DEF RelayNext

-----------------------------------------------------------------------------
LEMMA RelayInitLemma == RelayInit => RInv
<1> SUFFICES ASSUME RelayInit PROVE RInv
  OBVIOUS
<1>1. IInv
  BY InitLemma DEF RelayInit
<1>2. RelayTypeOK
  BY <1>1, RelayAssumption DEF RelayInit, RelayTypeOK, IInv
<1> QED BY <1>1, <1>2 DEF RInv, RelayInit, Undecided, CopiesExplained

(* What a doubt does to the copies. *)
LEMMA DoubtLemma ==
    ASSUME RelayTypeOK, CopiesExplained, NEW n \in Nat, Doubt(n),
           outcome' = outcome
    PROVE  /\ copies' \in Nat /\ doubts' \in Nat /\ doubts' = doubts + n
           /\ CopiesExplained'
BY DEF RelayTypeOK, CopiesExplained, Doubt

LEMMA RelayStepLemma == RInv /\ [RelayNext]_relayVars => RInv'
<1> SUFFICES ASSUME RInv, [RelayNext]_relayVars
             PROVE  RelayTypeOK' /\ Undecided' /\ CopiesExplained'
  BY LifeLemma DEF RInv
<1> USE RelayAssumption DEF RInv, Undecided
<1>0. IInv' /\ TypeOK'
  BY LifeLemma DEF IInv
<1>1. CASE Live /\ exit' = "running"
  <2>1. UNCHANGED clientVars /\ UNCHANGED restarts
    BY <1>1 DEF Live
  <2>2. via # None => Running' /\ conn'[via] = "sending"
    BY <1>1, <2>1 DEF Live, LifeStep, MainStep, Prepare, PrepareFails, ListenSMTP,
       ListenSMTPFails, ListenHealth, ListenHealthFails, SelectSignal, SelectError,
       Shutdown, SMTPDrained, ShutdownHealth, RunReturns, Serve, ServeStops,
       ServeReturns, Signal, Kill, Tick, Connect, Leave, Exit, mainVars, connVars,
       Running, RelayTypeOK, TypeOK, clientVars
  <2> QED BY <1>0, <2>1, <2>2 DEF RelayTypeOK, CopiesExplained, clientVars
<1>2. CASE Live /\ exit' # "running"
  <2>1. CutShort /\ UNCHANGED restarts
    BY <1>2 DEF Live
  <2>2. PICK n \in Nat : Doubt(n)
    BY <2>1 DEF CutShort
  <2>3. via' = None /\ outcome' = outcome /\ tries' = tries
        /\ lost' \in [Conns -> 0..MaxRequests]
    BY <2>1 DEF CutShort
  <2> QED BY <1>0, <2>1, <2>2, <2>3, DoubtLemma DEF RelayTypeOK
<1>3. CASE Restart
  BY <1>0, <1>3 DEF Restart, RelayTypeOK, CopiesExplained, clientVars, connVars, Running
<1>4. CASE Abandon
  BY <1>0, <1>4 DEF Abandon, RelayTypeOK, CopiesExplained
<1>5. ASSUME NEW c \in Conns, Submit(c)
      PROVE  RelayTypeOK' /\ Undecided' /\ CopiesExplained'
  BY <1>0, <1>5 DEF Submit, BeginSend, RelayTypeOK, TypeOK, CopiesExplained, mainVars, Running
<1>6. ASSUME NEW c \in Conns, LoseAnswer(c)
      PROVE  RelayTypeOK' /\ Undecided' /\ CopiesExplained'
  <2>1. Doubt(1) /\ UNCHANGED <<vars, restarts, via, tries, outcome>>
    BY <1>6 DEF LoseAnswer
  <2>2. lost' \in [Conns -> 0..MaxRequests]
    BY <1>6 DEF LoseAnswer, RelayTypeOK
  <2>3. via' # None => Running' /\ conn'[via'] = "sending"
    BY <2>1 DEF RelayTypeOK, vars, mainVars, connVars, Running
  <2> QED BY <1>0, <2>1, <2>2, <2>3, DoubtLemma DEF RelayTypeOK
<1>7. ASSUME NEW c \in Conns, SendSucceeds(c)
      PROVE  RelayTypeOK' /\ Undecided' /\ CopiesExplained'
  BY <1>0, <1>7 DEF SendSucceeds, EndSend, RelayTypeOK, TypeOK, CopiesExplained, mainVars, Running
<1>8. ASSUME NEW c \in Conns, SendFails(c)
      PROVE  RelayTypeOK' /\ Undecided' /\ CopiesExplained'
  BY <1>0, <1>8 DEF SendFails, EndSend, RelayTypeOK, TypeOK, CopiesExplained, mainVars, Running
<1>9. CASE UNCHANGED relayVars
  BY <1>0, <1>9 DEF relayVars, clientVars, vars, mainVars, connVars, RelayTypeOK, CopiesExplained, Running
<1> QED BY <1>1, <1>2, <1>3, <1>4, <1>5, <1>6, <1>7, <1>8, <1>9 DEF RelayNext

(* RInv is an invariant of the relay over all its lives. *)
THEOREM RelayInvariance == RelaySpec => []RInv
BY RelayInitLemma, RelayStepLemma, PTL DEF RelaySpec

-----------------------------------------------------------------------------
(* Every variable keeps its type, and a client only waits on a Send that   *)
(* is under way (session.go:217).                                          *)
THEOREM RelayTypeCorrect == RelaySpec => []RelayTypeOK
BY RelayInvariance, PTL DEF RInv

(* However many lives and submissions it takes, "sent" means taken, and    *)
(* each copy too many is laid to a request in doubt.                       *)
THEOREM CopiesCorrect == RelaySpec => []CopiesExplained
BY RelayInvariance, PTL DEF RInv

-----------------------------------------------------------------------------
(* The requests that the end of the process leaves in doubt are those of   *)
(* Sends under way.                                                        *)
LEMMA CutLemma ==
    ASSUME RelayTypeOK, CutShort, doubts' # doubts
    PROVE  Sending # {}
<1>1. PICK n \in 0..Cardinality({c \in Sending : lost[c] < MaxRequests}) : Doubt(n)
  BY DEF CutShort
<1>2. n # 0
  BY <1>1 DEF Doubt, RelayTypeOK
<1>3. Sending = {} => Cardinality({c \in Sending : lost[c] < MaxRequests}) = 0
  <2>1. Sending = {} => {c \in Sending : lost[c] < MaxRequests} = {}
    OBVIOUS
  <2> QED BY <2>1, FS_EmptySet
<1> QED BY <1>1, <1>2, <1>3

(* A process that ends by itself leaves a submission in doubt only when    *)
(* the whole grace was not enough (main.go:181-194).                       *)
THEOREM StopCorrect == RelaySpec => StopLeavesNoDoubt
<1> DEFINE A == Running /\ exit' \in {"ok", "error"} /\ doubts' # doubts =>
                    grace = ShutdownGrace
<1>1. RInv /\ [RelayNext]_relayVars => A
  <2> SUFFICES ASSUME RInv, [RelayNext]_relayVars, Running,
                      exit' \in {"ok", "error"}, doubts' # doubts
               PROVE  grace = ShutdownGrace
    OBVIOUS
  <2>1. CASE Live
    <3>1. CutShort /\ LifeStep
      BY <2>1 DEF Live
    <3>2. Sending # {}
      BY <3>1, CutLemma DEF RInv
    <3> QED BY <3>1, <3>2, ExitLemma DEF RInv
  <2>2. CASE Restart
    BY <2>2 DEF Restart
  <2>3. exit' # exit
    BY DEF Running
  <2>4. Abandon \/ (\E c \in Conns : Submit(c) \/ LoseAnswer(c) \/ SendSucceeds(c)
                        \/ SendFails(c)) \/ UNCHANGED relayVars => exit' = exit
    BY DEF Abandon, Submit, LoseAnswer, SendSucceeds, SendFails, BeginSend, EndSend,
           relayVars, vars, mainVars
  <2> QED BY <2>1, <2>2, <2>3, <2>4 DEF RelayNext
<1> QED BY <1>1, RelayInvariance, PTL DEF RelaySpec, StopLeavesNoDoubt

-----------------------------------------------------------------------------
(* The bound on the copies.  The requests the Sends under way may still    *)
(* make, counted one by one: a copy is made by using one of them up, and a *)
(* submission adds MaxRequests.                                            *)
Allowed == {p \in Sending \X (1..MaxRequests) : p[2] > lost[p[1]]}

Budget == copies + Cardinality(Allowed) <= tries * MaxRequests

LEMMA AllowedFinite ==
    /\ IsFiniteSet(Allowed) /\ Cardinality(Allowed) \in Nat
<1>1. IsFiniteSet(Conns) /\ IsFiniteSet(1..MaxRequests)
  BY RelayAssumption, FS_Interval
<1>2. IsFiniteSet(Conns \X (1..MaxRequests))
  BY <1>1, FS_Product
<1>3. Allowed \in SUBSET (Conns \X (1..MaxRequests))
  BY DEF Allowed, Sending
<1> QED BY <1>2, <1>3, FS_Subset, FS_CardinalityType

(* A Send that may make a request has one left to make. *)
LEMMA CutBound ==
    ASSUME RelayTypeOK
    PROVE  LET late == {c \in Sending : lost[c] < MaxRequests}
           IN  Cardinality(late) \in Nat /\ Cardinality(late) <= Cardinality(Allowed)
<1> DEFINE late == {c \in Sending : lost[c] < MaxRequests}
           f == [p \in Allowed |-> p[1]]
<1>1. ASSUME NEW p \in Allowed PROVE p[1] \in late
  <2>1. p[1] \in Sending /\ p[2] \in 1..MaxRequests /\ p[2] > lost[p[1]]
    BY DEF Allowed
  <2>2. lost[p[1]] \in Nat /\ MaxRequests \in Nat
    BY <2>1, RelayAssumption DEF RelayTypeOK, Sending
  <2> QED BY <2>1, <2>2
<1>2. ASSUME NEW c \in late PROVE \E p \in Allowed : f[p] = c
  <2>1. <<c, MaxRequests>> \in Allowed
    BY RelayAssumption DEF Allowed
  <2> QED BY <2>1
<1>3. f \in Surjection(Allowed, late)
  BY <1>1, <1>2 DEF Surjection
<1> HIDE DEF f, late
<1>4. IsFiniteSet(late) /\ Cardinality(late) <= Cardinality(Allowed)
  BY <1>3, AllowedFinite, FS_Surjection
<1> QED BY <1>4, FS_CardinalityType DEF late

(* No step but the four below uses up or grants a request. *)
LEMMA BudgetKept ==
    ASSUME Budget, RelayTypeOK, Allowed' \subseteq Allowed,
           copies' = copies, tries' = tries
    PROVE  Budget'
<1>1. IsFiniteSet(Allowed') /\ Cardinality(Allowed') \in Nat
        /\ Cardinality(Allowed') <= Cardinality(Allowed)
  BY AllowedFinite, FS_Subset, FS_CardinalityType
<1>2. tries * MaxRequests \in Nat
  BY RelayAssumption DEF RelayTypeOK
<1> QED BY <1>1, <1>2, AllowedFinite DEF Budget, RelayTypeOK

LEMMA SubmitBudget ==
    ASSUME Budget, RelayTypeOK, NEW c \in Conns, Submit(c)
    PROVE  Budget'
<1> DEFINE new == {c} \X (1..MaxRequests)
<1>1. /\ conn[c] = "idle" /\ conn' = [conn EXCEPT ![c] = "sending"]
      /\ lost' = [lost EXCEPT ![c] = 0]
      /\ copies' = copies /\ tries' = tries + 1
  BY DEF Submit, BeginSend
<1>2. IsFiniteSet(new) /\ Cardinality(new) = MaxRequests
  <2>1. IsFiniteSet({c}) /\ Cardinality({c}) = 1
    BY FS_Singleton
  <2>2. IsFiniteSet(1..MaxRequests) /\ Cardinality(1..MaxRequests) = MaxRequests
    BY FS_Interval, RelayAssumption
  <2>3. /\ IsFiniteSet(new)
        /\ Cardinality(new) = Cardinality({c}) * Cardinality(1..MaxRequests)
    BY <2>1, <2>2, FS_Product
  <2>4. 1 * MaxRequests = MaxRequests
    BY RelayAssumption
  <2> QED BY <2>1, <2>2, <2>3, <2>4
<1>3. Allowed' = Allowed \cup new
  <2>1. Sending' = Sending \cup {c} /\ c \notin Sending
    BY <1>1 DEF Sending, RelayTypeOK, TypeOK
  <2>2. \A d \in Conns : lost'[d] = IF d = c THEN 0 ELSE lost[d]
    BY <1>1 DEF RelayTypeOK
  <2> QED BY <2>1, <2>2, RelayAssumption DEF Allowed, Sending
<1>4. Allowed \cap new = {}
  BY <1>1 DEF Allowed, Sending
<1>5. Cardinality(Allowed') = Cardinality(Allowed) + MaxRequests
  <2>1. Cardinality({}) = 0
    BY FS_EmptySet
  <2> HIDE DEF new
  <2> QED BY <1>2, <1>3, <1>4, <2>1, AllowedFinite, FS_Union, RelayAssumption
<1>6. (tries + 1) * MaxRequests = tries * MaxRequests + MaxRequests
        /\ tries * MaxRequests \in Nat
  BY RelayAssumption DEF RelayTypeOK
<1> QED BY <1>1, <1>5, <1>6, AllowedFinite, RelayAssumption DEF Budget, RelayTypeOK

(* A request that leaves a copy and is answered or not, on connection c.   *)
LEMMA RequestBudget ==
    ASSUME Budget, RelayTypeOK, NEW c \in Sending, lost[c] < MaxRequests,
           Allowed' \subseteq Allowed \ {<<c, lost[c] + 1>>},
           copies' \in Nat, copies' <= copies + 1, tries' = tries
    PROVE  Budget'
<1> DEFINE p == <<c, lost[c] + 1>>
<1>1. lost[c] \in Nat
  BY DEF RelayTypeOK, Sending
<1>2. p \in Allowed
  BY <1>1, RelayAssumption DEF Allowed
<1> HIDE DEF p
<1>3. IsFiniteSet(Allowed \ {p}) /\ Cardinality(Allowed \ {p}) = Cardinality(Allowed) - 1
  BY <1>2, AllowedFinite, FS_RemoveElement
<1>4. Allowed' \in SUBSET (Allowed \ {p})
  BY DEF p
<1>5. /\ Cardinality(Allowed') <= Cardinality(Allowed) - 1
      /\ IsFiniteSet(Allowed') /\ Cardinality(Allowed') \in Nat
  BY <1>3, <1>4, FS_Subset, FS_CardinalityType
<1>6. tries * MaxRequests \in Nat
  BY RelayAssumption DEF RelayTypeOK
<1> QED BY <1>5, <1>6, AllowedFinite DEF Budget, RelayTypeOK

LEMMA BudgetStep ==
    ASSUME RInv, RInv', Budget, [RelayNext]_relayVars
    PROVE  Budget'
<1> USE DEF RInv
<1>1. CASE Live /\ exit' = "running"
  <2>1. UNCHANGED clientVars
    BY <1>1 DEF Live
  <2>2. Sending' \subseteq Sending
    BY <1>1 DEF Live, LifeStep, MainStep, Prepare, PrepareFails, ListenSMTP,
       ListenSMTPFails, ListenHealth, ListenHealthFails, SelectSignal, SelectError,
       Shutdown, SMTPDrained, ShutdownHealth, RunReturns, Serve, ServeStops,
       ServeReturns, Signal, Kill, Tick, Connect, Leave, Exit, mainVars, connVars,
       Running, Sending, RelayTypeOK, TypeOK
  <2>3. Allowed' \subseteq Allowed
    BY <2>1, <2>2 DEF Allowed, clientVars
  <2> QED BY <2>1, <2>3, BudgetKept DEF clientVars
<1>2. CASE Live /\ exit' # "running"
  <2>1. PICK n \in 0..Cardinality({c \in Sending : lost[c] < MaxRequests}) : Doubt(n)
    BY <1>2 DEF Live, CutShort
  <2>2. n \in Nat /\ n <= Cardinality(Allowed)
    BY <2>1, CutBound, AllowedFinite
  <2>3. copies' \in Nat /\ copies' <= copies + n
    BY <2>1, <2>2 DEF Doubt, RelayTypeOK
  <2>4. tries' = tries
    BY <1>2 DEF Live, CutShort
  <2>5. Cardinality(Allowed') = 0
    <3>1. Sending' = {}
      BY <1>2 DEF IInv, Gone, Running, Sending
    <3>2. Allowed' = {}
      BY <3>1 DEF Allowed
    <3> QED BY <3>2, FS_EmptySet
  <2>6. tries * MaxRequests \in Nat
    BY RelayAssumption DEF RelayTypeOK
  <2> QED BY <2>2, <2>3, <2>4, <2>5, <2>6, AllowedFinite DEF Budget, RelayTypeOK
<1>3. ASSUME NEW c \in Conns, Submit(c) PROVE Budget'
  BY <1>3, SubmitBudget
<1>4. ASSUME NEW c \in Conns, LoseAnswer(c) PROVE Budget'
  <2>1. /\ c \in Sending /\ lost[c] < MaxRequests
        /\ lost' = [lost EXCEPT ![c] = lost[c] + 1]
        /\ Doubt(1) /\ tries' = tries /\ conn' = conn
    BY <1>4 DEF LoseAnswer, Sending, vars, connVars
  <2>2. Sending' = Sending
    BY <2>1 DEF Sending
  <2>3. \A d \in Conns : lost'[d] = IF d = c THEN lost[c] + 1 ELSE lost[d]
    BY <2>1 DEF RelayTypeOK
  <2>4. Allowed' \subseteq Allowed \ {<<c, lost[c] + 1>>}
    <3>1. \A d \in Conns : lost[d] \in Nat
      BY RelayAssumption DEF RelayTypeOK
    <3> QED BY <2>2, <2>3, <3>1, RelayAssumption DEF Allowed, Sending
  <2>5. copies' \in Nat /\ copies' <= copies + 1
    BY <2>1 DEF Doubt, RelayTypeOK
  <2> QED BY <2>1, <2>4, <2>5, RequestBudget
<1>5. ASSUME NEW c \in Conns, SendSucceeds(c) PROVE Budget'
  <2>1. /\ c \in Sending /\ lost[c] < MaxRequests /\ lost' = lost
        /\ conn' = [conn EXCEPT ![c] = "idle"]
        /\ copies' = copies + 1 /\ tries' = tries
    BY <1>5 DEF SendSucceeds, EndSend, Sending
  <2>2. Sending' \subseteq Sending \ {c}
    BY <2>1 DEF Sending, RelayTypeOK, TypeOK
  <2>3. Allowed' \subseteq Allowed \ {<<c, lost[c] + 1>>}
    BY <2>1, <2>2 DEF Allowed
  <2>4. copies' \in Nat /\ copies' <= copies + 1
    BY <2>1 DEF RelayTypeOK
  <2> QED BY <2>1, <2>3, <2>4, RequestBudget
<1>6. ASSUME NEW c \in Conns, SendFails(c) PROVE Budget'
  <2>1. /\ lost' = lost /\ copies' = copies /\ tries' = tries
        /\ conn' = [conn EXCEPT ![c] = "idle"]
    BY <1>6 DEF SendFails, EndSend
  <2>2. Allowed' \subseteq Allowed
    BY <2>1 DEF Allowed, Sending, RelayTypeOK, TypeOK
  <2> QED BY <2>1, <2>2, BudgetKept
<1>7. CASE Restart \/ Abandon \/ UNCHANGED relayVars
  <2>1. UNCHANGED <<conn, lost, copies, tries>>
    BY <1>7 DEF Restart, Abandon, relayVars, vars, connVars, clientVars
  <2>2. Allowed' \subseteq Allowed
    BY <2>1 DEF Allowed, Sending
  <2> QED BY <2>1, <2>2, BudgetKept
<1> QED BY <1>1, <1>2, <1>3, <1>4, <1>5, <1>6, <1>7 DEF RelayNext

LEMMA BudgetInit == RelayInit => Budget
<1> SUFFICES ASSUME RelayInit PROVE Budget
  OBVIOUS
<1>1. Allowed = {}
  BY DEF RelayInit, Init, Allowed, Sending
<1>2. Cardinality(Allowed) = 0
  BY <1>1, FS_EmptySet
<1> QED BY <1>2, RelayAssumption DEF RelayInit, Budget

(* Over any number of lives, submissions and overlapping Sends a message   *)
(* is taken at most MaxRequests times per submission (sendLoop's attempts, *)
(* session.go:217): the copies made and the requests still allowed are     *)
(* within the budget of the submissions.                                   *)
THEOREM CopiesBoundCorrect == RelaySpec => []CopiesBounded
<1>1. RInv /\ Budget => CopiesBounded
  BY AllowedFinite, RelayAssumption DEF RInv, RelayTypeOK, Budget, CopiesBounded
<1>2. RInv /\ RInv' /\ Budget /\ [RelayNext]_relayVars => Budget'
  BY BudgetStep
<1> QED BY <1>1, <1>2, BudgetInit, RelayInvariance, PTL DEF RelaySpec

-----------------------------------------------------------------------------
(* Every step of the relay is a step, or no step, of at-least-once         *)
(* submission.                                                             *)
THEOREM Implementation == RelaySpec => ImplementsSubmission
<1>1. RelayInit => AtLeastOnce!Init
  BY DEF RelayInit, AtLeastOnce!Init
<1>2. RInv /\ [RelayNext]_relayVars => [AtLeastOnce!Next]_AtLeastOnce!vars
  <2> SUFFICES ASSUME RInv, [RelayNext]_relayVars
               PROVE  [AtLeastOnce!Next]_AtLeastOnce!vars
    OBVIOUS
  <2>1. ASSUME NEW n \in Nat, Doubt(n), outcome' = outcome
        PROVE  [AtLeastOnce!Next]_AtLeastOnce!vars
    <3>1. CASE n = 0
      BY <2>1, <3>1 DEF Doubt, RInv, RelayTypeOK, AtLeastOnce!vars
    <3>2. CASE n # 0
      BY <2>1, <3>2 DEF Doubt, RInv, RelayTypeOK, AtLeastOnce!Next, AtLeastOnce!Doubt
    <3> QED BY <3>1, <3>2
  <2>2. CASE Live
    <3>1. CASE exit' = "running"
      BY <2>2, <3>1 DEF Live, clientVars, AtLeastOnce!vars
    <3>2. CASE exit' # "running"
      <4>1. CutShort
        BY <2>2, <3>2 DEF Live
      <4>2. PICK n \in Nat : Doubt(n)
        BY <4>1 DEF CutShort
      <4>3. outcome' = outcome
        BY <4>1 DEF CutShort
      <4> QED BY <2>1, <4>2, <4>3
    <3> QED BY <3>1, <3>2
  <2>3. ASSUME NEW c \in Conns, LoseAnswer(c)
        PROVE  [AtLeastOnce!Next]_AtLeastOnce!vars
    BY <2>1, <2>3 DEF LoseAnswer
  <2>4. ASSUME NEW c \in Conns, SendSucceeds(c)
        PROVE  [AtLeastOnce!Next]_AtLeastOnce!vars
    <3>1. CASE via = c
      <4>1. outcome = "pending"
        BY <3>1, RelayAssumption DEF RInv, Undecided
      <4> QED BY <2>4, <3>1, <4>1
              DEF SendSucceeds, AtLeastOnce!Next, AtLeastOnce!Accept
    <3>2. CASE via # c
      BY <2>4, <3>2 DEF SendSucceeds, RInv, RelayTypeOK, AtLeastOnce!Next,
                        AtLeastOnce!Doubt
    <3> QED BY <3>1, <3>2
  <2>5. ASSUME NEW c \in Conns, SendFails(c)
        PROVE  [AtLeastOnce!Next]_AtLeastOnce!vars
    BY <2>5, RelayAssumption DEF SendFails, RInv, Undecided, AtLeastOnce!Next,
       AtLeastOnce!Bounce, AtLeastOnce!vars
  <2>6. Restart \/ Abandon \/ (\E c \in Conns : Submit(c)) \/ UNCHANGED relayVars
            => UNCHANGED AtLeastOnce!vars
    BY DEF Restart, Abandon, Submit, relayVars, clientVars, AtLeastOnce!vars
  <2> QED BY <2>2, <2>3, <2>4, <2>5, <2>6 DEF RelayNext
<1> QED BY <1>1, <1>2, RelayInvariance, PTL
        DEF RelaySpec, ImplementsSubmission, AtLeastOnce!Spec
=============================================================================
