-------------------------- MODULE SmtpSessionProofs --------------------------
(***************************************************************************)
(* The safety of one connection, for any credentials, senders, recipients  *)
(* and limits, with and without TLS, and whatever go-smtp does of a MAIL   *)
(* inside a transaction.                                                   *)
(*                                                                         *)
(* The properties speak of the moment a message is sent, or of the end of  *)
(* a call of Data.  What makes them inductive is what holds between: the   *)
(* session's envelope is the acknowledged one at every command (Envelope), *)
(* an open transaction was authorized (Authorized), and a Send in progress *)
(* has not said anything yet (Undecided).                                  *)
(***************************************************************************)
EXTENDS SmtpSession, TLAPS

Envelope == from = ackedFrom /\ recipients = ackedTo

SendsEnvelope ==
    phase = "sending" => msg = [from |-> from, recipients |-> recipients]

Authorized ==
    /\ phase = "login" /\ TLSConfigured => tls
    /\ authenticated => /\ Credentials \in presented
                        /\ TLSConfigured => tls
    /\ Credentials \in presented => authenticated
    /\ fromReceived => authenticated /\ from \in AllowedFroms
    /\ phase = "sending" => fromReceived

Undecided ==
    phase = "sending" => /\ verdict = "pending" /\ accepted <= unanswered
                         /\ calls > 0

IInv ==
    /\ TypeOK
    /\ Envelope /\ SendsEnvelope
    /\ Authorized
    /\ Undecided
    /\ ReportsAgree

-----------------------------------------------------------------------------
LEMMA InitIInv == Init => IInv
<1> SUFFICES ASSUME Init PROVE IInv
  OBVIOUS
<1>1. TypeOK
  <2>1. /\ NoFrom \in Froms \cup {NoFrom} /\ <<>> \in Seq(Rcpts)
        /\ NoLogin \in [state : {"username", "password", "done"},
                        user : Users \cup {Nobody}]
        /\ NoMessage \in [from : Froms \cup {NoFrom}, recipients : Seq(Rcpts)]
        /\ 0 \in 0..MaxRecipients /\ 0 \in 0..MaxCalls /\ 0 \in 0..MaxRequests
    BY SmtpSessionAssumption DEF NoLogin, NoMessage
  <2> QED BY <2>1 DEF Init, TypeOK, Sender!Init
<1>2. Envelope /\ SendsEnvelope /\ Authorized /\ Undecided
  BY DEF Init, Envelope, SendsEnvelope, Authorized, Undecided
<1>3. ReportsAgree
  BY DEF Init, ReportsAgree
<1> QED BY <1>1, <1>2, <1>3 DEF IInv

(* Reset forgets the envelope and the acknowledged one together.           *)
LEMMA ResetLemma ==
    ASSUME TypeOK, Authorized, Reset
    PROVE  /\ from' \in Froms \cup {NoFrom} /\ recipients' \in Seq(Rcpts)
           /\ ackedFrom' \in Froms \cup {NoFrom} /\ ackedTo' \in Seq(Rcpts)
           /\ fromReceived' = FALSE /\ rcptCount' \in 0..MaxRecipients
           /\ authenticated' = authenticated /\ authenticated' \in BOOLEAN
           /\ Envelope'
BY SmtpSessionAssumption DEF Reset, TypeOK, Envelope

(* A command that only changes what the client has proved about itself.    *)
LEMMA AuthIInv ==
    ASSUME IInv, NEW user \in Users \cup {Nobody}, NEW password \in Passwords,
           authenticate(user, password), TLSConfigured => tls,
           phase # "sending", phase' = "command",
           login' \in {login, NoLogin},
           UNCHANGED <<conn, from, recipients, gateVars, tls, dataVars,
                       senderVars, ackedVars>>
    PROVE  IInv'
<1>1. TypeOK'
  <2>1. /\ authenticated' \in BOOLEAN /\ didAuth' \in BOOLEAN
        /\ presented' \in SUBSET Pairs
    BY DEF authenticate, IInv, TypeOK, Pairs
  <2>2. login' \in [state : {"username", "password", "done"},
                    user : Users \cup {Nobody}]
    BY DEF NoLogin, IInv, TypeOK
  <2> QED BY <2>1, <2>2 DEF IInv, TypeOK, gateVars, dataVars, senderVars, ackedVars
<1>2. Envelope' /\ SendsEnvelope'
  BY DEF IInv, Envelope, SendsEnvelope, ackedVars
<1>3. Authorized'
  <2>1. authenticated' => Credentials \in presented'
    BY DEF authenticate, IInv, Authorized, Credentials
  <2>2. authenticated => authenticated'
    BY DEF authenticate
  <2>3. Credentials \in presented' => authenticated'
    BY DEF authenticate, IInv, Authorized, Credentials
  <2> QED BY <2>1, <2>2, <2>3 DEF IInv, Authorized, gateVars
<1>4. Undecided' /\ ReportsAgree'
  BY DEF IInv, Undecided, ReportsAgree, dataVars, senderVars
<1> QED BY <1>1, <1>2, <1>3, <1>4 DEF IInv

(* An AUTH LOGIN exchange before its end changes nothing but itself.       *)
LEMMA LoginIInv ==
    ASSUME IInv, phase # "sending", phase' \in {"command", "login"},
           phase' = "login" /\ TLSConfigured => tls,
           login' \in [state : {"username", "password", "done"},
                       user : Users \cup {Nobody}],
           UNCHANGED <<conn, sessionVars, gateVars, tls, didAuth, presented,
                       dataVars, senderVars, ackedVars>>
    PROVE  IInv'
<1>1. TypeOK'
  BY DEF IInv, TypeOK, sessionVars, gateVars, dataVars, senderVars, ackedVars
<1>2. Envelope' /\ SendsEnvelope'
  BY DEF IInv, Envelope, SendsEnvelope, sessionVars, ackedVars
<1>3. Authorized'
  BY DEF IInv, Authorized, sessionVars, gateVars
<1>4. Undecided' /\ ReportsAgree'
  BY DEF IInv, Undecided, ReportsAgree, dataVars, senderVars
<1> QED BY <1>1, <1>2, <1>3, <1>4 DEF IInv

(* The end of a call of Data, however it ends.  told is what the reply     *)
(* must be worth.                                                          *)
LEMMA DataReturnsIInv ==
    ASSUME IInv, NEW record \in {"sent", "deferred", "rejected"},
           NEW reply \in {250, 451, 550, 552},
           DataReturns(record, reply),
           conn' \in {"open", "closed"},
           calls' \in 1..MaxCalls, records + 1 = calls',
           UNCHANGED authVars,
           verdict' \in {"pending", "sent", "deferred", "rejected"},
           accepted' \in Nat, unanswered' \in 0..MaxRequests,
           reply = 250 <=> record = "sent",
           reply = 451 <=> record = "deferred",
           reply = 250 => accepted' \in 1..(unanswered' + 1),
           reply # 250 => accepted' <= unanswered'
    PROVE  IInv'
<1>1. /\ records' = records + 1 /\ lastRecord' = record /\ answer' = reply
      /\ msg' = NoMessage /\ phase' = "command" /\ Reset
      /\ tls' = tls /\ didAuth' = didAuth /\ login' = login
      /\ presented' = presented
  BY DEF DataReturns, authVars
<1>2. /\ from' \in Froms \cup {NoFrom} /\ recipients' \in Seq(Rcpts)
      /\ ackedFrom' \in Froms \cup {NoFrom} /\ ackedTo' \in Seq(Rcpts)
      /\ fromReceived' = FALSE /\ rcptCount' \in 0..MaxRecipients
      /\ authenticated' = authenticated /\ authenticated' \in BOOLEAN
      /\ Envelope'
  BY <1>1, ResetLemma DEF IInv
<1>3. TypeOK'
  <2>1. msg' \in [from : Froms \cup {NoFrom}, recipients : Seq(Rcpts)]
    BY <1>1 DEF NoMessage
  <2>2. records' \in 0..MaxCalls /\ calls' \in 0..MaxCalls
    BY <1>1, SmtpSessionAssumption DEF IInv, TypeOK
  <2>3. /\ tls' \in BOOLEAN /\ didAuth' \in BOOLEAN
        /\ login' \in [state : {"username", "password", "done"},
                       user : Users \cup {Nobody}]
        /\ presented' \in SUBSET Pairs
    BY <1>1 DEF IInv, TypeOK
  <2>4. /\ phase' = "command" /\ lastRecord' \in {"none", "sent", "deferred", "rejected"}
        /\ answer' \in {0, 250, 451, 550, 552} /\ fromReceived' \in BOOLEAN
    BY <1>1, <1>2
  <2> QED BY <1>2, <2>1, <2>2, <2>3, <2>4 DEF TypeOK
<1>4. SendsEnvelope' /\ Undecided'
  BY <1>1 DEF SendsEnvelope, Undecided
<1>5. Authorized'
  <2>1. Authorized
    BY DEF IInv
  <2> QED BY <1>1, <1>2, <2>1 DEF Authorized
<1>6. ReportsAgree'
  <2>1. phase' # "sending" /\ records' = calls'
    BY <1>1
  <2>2. reply \in {550, 552} <=> record = "rejected"
    OBVIOUS
  <2>3. /\ answer' \in {250, 451, 550, 552}
        /\ answer' = 250 <=> lastRecord' = "sent"
        /\ answer' = 451 <=> lastRecord' = "deferred"
        /\ answer' \in {550, 552} <=> lastRecord' = "rejected"
    BY <1>1, <2>2
  <2>4. /\ answer' = 250 => accepted' \in 1..(unanswered' + 1)
        /\ answer' # 250 => accepted' <= unanswered'
    BY <1>1
  <2>5. records' = IF phase' = "sending" THEN calls' - 1 ELSE calls'
    BY <2>1
  <2> QED BY <2>1, <2>3, <2>4, <2>5 DEF ReportsAgree
<1> QED BY <1>2, <1>3, <1>4, <1>5, <1>6 DEF IInv

-----------------------------------------------------------------------------
(* A command or a disconnection that abandons the transaction.             *)
LEMMA AbandonIInv ==
    ASSUME IInv, Reset, phase # "sending", phase' = "command",
           conn' \in {"open", "closed"}, login' \in {login, NoLogin},
           UNCHANGED <<tls, didAuth, presented, dataVars, senderVars>>
    PROVE  IInv'
<1>1. /\ from' \in Froms \cup {NoFrom} /\ recipients' \in Seq(Rcpts)
      /\ ackedFrom' \in Froms \cup {NoFrom} /\ ackedTo' \in Seq(Rcpts)
      /\ fromReceived' = FALSE /\ rcptCount' \in 0..MaxRecipients
      /\ authenticated' = authenticated /\ authenticated' \in BOOLEAN
      /\ Envelope'
  BY ResetLemma DEF IInv
<1>2. TypeOK'
  <2>1. login' \in [state : {"username", "password", "done"},
                    user : Users \cup {Nobody}]
    BY DEF NoLogin, IInv, TypeOK
  <2>2. /\ tls' \in BOOLEAN /\ didAuth' \in BOOLEAN
        /\ presented' \in SUBSET Pairs
        /\ msg' \in [from : Froms \cup {NoFrom}, recipients : Seq(Rcpts)]
        /\ calls' \in 0..MaxCalls /\ records' \in 0..MaxCalls
        /\ lastRecord' \in {"none", "sent", "deferred", "rejected"}
        /\ answer' \in {0, 250, 451, 550, 552}
        /\ verdict' \in {"pending", "sent", "deferred", "rejected"}
        /\ accepted' \in Nat /\ unanswered' \in 0..MaxRequests
    BY DEF IInv, TypeOK, dataVars, senderVars
  <2> QED BY <1>1, <2>1, <2>2 DEF TypeOK
<1>3. SendsEnvelope' /\ Undecided'
  BY DEF SendsEnvelope, Undecided
<1>4. Authorized'
  <2>1. Authorized
    BY DEF IInv
  <2> QED BY <1>1, <2>1 DEF Authorized
<1>5. ReportsAgree'
  BY DEF IInv, ReportsAgree, dataVars, senderVars
<1> QED BY <1>1, <1>2, <1>3, <1>4, <1>5 DEF IInv

LEMMA StartTLSIInv == IInv /\ StartTLS => IInv'
<1> SUFFICES ASSUME IInv, StartTLS PROVE IInv'
  OBVIOUS
<1>1. TypeOK'
  <2>1. /\ 0 \in 0..MaxRecipients /\ {} \in SUBSET Pairs /\ <<>> \in Seq(Rcpts)
    BY SmtpSessionAssumption
  <2>2. /\ tls' = TRUE /\ authenticated' = FALSE /\ didAuth' = FALSE
        /\ presented' = {} /\ fromReceived' = FALSE /\ rcptCount' = 0
        /\ from' = NoFrom /\ recipients' = <<>>
        /\ ackedFrom' = NoFrom /\ ackedTo' = <<>>
        /\ UNCHANGED <<conn, phase, login, msg, calls, records, lastRecord,
                       answer, verdict, accepted, unanswered>>
    BY DEF StartTLS, dataVars, senderVars
  <2>3. /\ conn' \in {"open", "closed"}
        /\ phase' \in {"command", "login", "sending"}
        /\ login' \in [state : {"username", "password", "done"},
                       user : Users \cup {Nobody}]
        /\ msg' \in [from : Froms \cup {NoFrom}, recipients : Seq(Rcpts)]
    BY <2>2 DEF IInv, TypeOK
  <2>4. /\ calls' \in 0..MaxCalls /\ records' \in 0..MaxCalls
        /\ lastRecord' \in {"none", "sent", "deferred", "rejected"}
        /\ answer' \in {0, 250, 451, 550, 552}
        /\ verdict' \in {"pending", "sent", "deferred", "rejected"}
        /\ accepted' \in Nat /\ unanswered' \in 0..MaxRequests
    BY <2>2 DEF IInv, TypeOK
  <2>5. /\ authenticated' \in BOOLEAN /\ tls' \in BOOLEAN
        /\ didAuth' \in BOOLEAN /\ fromReceived' \in BOOLEAN
        /\ from' \in Froms \cup {NoFrom} /\ ackedFrom' \in Froms \cup {NoFrom}
        /\ recipients' \in Seq(Rcpts) /\ ackedTo' \in Seq(Rcpts)
        /\ presented' \in SUBSET Pairs /\ rcptCount' \in 0..MaxRecipients
    BY <2>1, <2>2
  <2> QED BY <2>3, <2>4, <2>5 DEF TypeOK
<1>2. Envelope' /\ SendsEnvelope' /\ Undecided'
  BY DEF StartTLS, Ready, Envelope, SendsEnvelope, Undecided
<1>3. Authorized'
  BY DEF StartTLS, Ready, Authorized
<1>4. ReportsAgree'
  BY DEF StartTLS, Ready, IInv, ReportsAgree, dataVars, senderVars
<1> QED BY <1>1, <1>2, <1>3, <1>4 DEF IInv

LEMMA MailIInv ==
    ASSUME IInv, NEW f \in Froms, Mail(f)
    PROVE  IInv'
<1>1. TypeOK'
  <2>1. <<>> \in Seq(Rcpts)
    OBVIOUS
  <2> QED BY <2>1 DEF Mail, IInv, TypeOK, authVars, dataVars, senderVars
<1>2. Envelope' /\ SendsEnvelope' /\ Undecided'
  BY DEF Mail, Ready, Envelope, SendsEnvelope, Undecided
<1>3. Authorized'
  BY DEF Mail, Ready, IInv, Authorized, authVars
<1>4. ReportsAgree'
  BY DEF Mail, IInv, ReportsAgree, dataVars, senderVars
<1> QED BY <1>1, <1>2, <1>3, <1>4 DEF IInv

LEMMA RcptIInv ==
    ASSUME IInv, NEW recipient \in Rcpts, Rcpt(recipient)
    PROVE  IInv'
<1>1. TypeOK'
  <2>1. /\ Append(recipients, recipient) \in Seq(Rcpts)
        /\ Append(ackedTo, recipient) \in Seq(Rcpts)
    BY DEF IInv, TypeOK
  <2>2. rcptCount + 1 \in 0..MaxRecipients
    BY SmtpSessionAssumption DEF Rcpt, IInv, TypeOK
  <2> QED BY <2>1, <2>2 DEF Rcpt, IInv, TypeOK, authVars, dataVars, senderVars
<1>2. Envelope' /\ SendsEnvelope' /\ Undecided'
  BY DEF Rcpt, Ready, IInv, Envelope, SendsEnvelope, Undecided
<1>3. Authorized'
  BY DEF Rcpt, Ready, IInv, Authorized, authVars
<1>4. ReportsAgree'
  BY DEF Rcpt, IInv, ReportsAgree, dataVars, senderVars
<1> QED BY <1>1, <1>2, <1>3, <1>4 DEF IInv

(* Data fails before anything is sent. *)
LEMMA DataRefusedIInv == IInv /\ (DataTooLarge \/ DataUnreadable \/ DataUnparsable)
                            => IInv'
<1> SUFFICES ASSUME IInv, DataTooLarge \/ DataUnreadable \/ DataUnparsable
             PROVE  IInv'
  OBVIOUS
<1>1. /\ StartData /\ UNCHANGED authVars
      /\ conn' \in {"open", "closed"}
      /\ \/ DataReturns("rejected", 552)
         \/ DataReturns("deferred", 451)
         \/ DataReturns("rejected", 550)
  BY DEF DataTooLarge, DataUnreadable, DataUnparsable, StartData, Ready
<1>2. /\ calls' \in 1..MaxCalls /\ records + 1 = calls'
      /\ verdict' = "pending" /\ accepted' = 0 /\ unanswered' = 0
  BY <1>1, SmtpSessionAssumption DEF StartData, Ready, IInv, TypeOK, ReportsAgree
<1>3. 0 \in 0..MaxRequests /\ accepted' <= unanswered' /\ accepted' \in Nat
      /\ unanswered' \in 0..MaxRequests
  BY <1>2, SmtpSessionAssumption
<1>4. CASE DataReturns("rejected", 552)
  BY <1>1, <1>2, <1>3, <1>4, DataReturnsIInv
<1>5. CASE DataReturns("deferred", 451)
  BY <1>1, <1>2, <1>3, <1>5, DataReturnsIInv
<1>6. CASE DataReturns("rejected", 550)
  BY <1>1, <1>2, <1>3, <1>6, DataReturnsIInv
<1> QED BY <1>1, <1>4, <1>5, <1>6

LEMMA DataSendIInv == IInv /\ DataSend => IInv'
<1> SUFFICES ASSUME IInv, DataSend PROVE IInv'
  OBVIOUS
<1>1. /\ phase = "command" /\ phase' = "sending"
      /\ msg' = [from |-> from, recipients |-> recipients]
      /\ fromReceived /\ calls' = calls + 1 /\ calls < MaxCalls
      /\ verdict' = "pending" /\ accepted' = 0 /\ unanswered' = 0
      /\ UNCHANGED <<conn, sessionVars, gateVars, authVars, records, lastRecord,
                     answer, ackedVars>>
  BY DEF DataSend, StartData, Ready
<1>2. TypeOK'
  <2>1. /\ calls' \in 0..MaxCalls /\ 0 \in 0..MaxRequests
    BY <1>1, SmtpSessionAssumption DEF IInv, TypeOK
  <2>2. msg' \in [from : Froms \cup {NoFrom}, recipients : Seq(Rcpts)]
    BY <1>1 DEF IInv, TypeOK
  <2> QED BY <1>1, <2>1, <2>2 DEF IInv, TypeOK, sessionVars, gateVars, authVars,
             ackedVars
<1>3. Envelope' /\ SendsEnvelope'
  BY <1>1 DEF IInv, Envelope, SendsEnvelope, sessionVars, ackedVars
<1>4. Authorized'
  BY <1>1 DEF IInv, Authorized, sessionVars, gateVars, authVars
<1>5. Undecided'
  BY <1>1 DEF IInv, TypeOK, Undecided
<1>6. ReportsAgree'
  BY <1>1 DEF IInv, TypeOK, ReportsAgree
<1> QED BY <1>2, <1>3, <1>4, <1>5, <1>6 DEF IInv

LEMMA SendProgressIInv == IInv /\ SendProgress => IInv'
<1> SUFFICES ASSUME IInv, SendProgress PROVE IInv'
  OBVIOUS
<1>1. /\ phase = "sending" /\ verdict' = verdict
      /\ unanswered < MaxRequests /\ unanswered' = unanswered + 1
      /\ accepted' \in {accepted, accepted + 1}
      /\ UNCHANGED <<conn, phase, sessionVars, gateVars, authVars, dataVars,
                     ackedVars>>
  BY DEF SendProgress, Sender!LoseAnswer
<1>2. /\ unanswered' \in 0..MaxRequests /\ accepted' \in Nat
      /\ accepted' <= unanswered'
  BY <1>1, SmtpSessionAssumption DEF IInv, TypeOK, Undecided
<1>3. TypeOK'
  BY <1>1, <1>2 DEF IInv, TypeOK, sessionVars, gateVars, authVars, dataVars,
     ackedVars
<1>4. Envelope' /\ SendsEnvelope'
  BY <1>1 DEF IInv, Envelope, SendsEnvelope, sessionVars, dataVars, ackedVars
<1>5. Authorized'
  BY <1>1 DEF IInv, Authorized, sessionVars, gateVars, authVars
<1>6. Undecided' /\ ReportsAgree'
  BY <1>1, <1>2 DEF IInv, Undecided, ReportsAgree, dataVars
<1> QED BY <1>3, <1>4, <1>5, <1>6 DEF IInv

LEMMA SendReturnsIInv == IInv /\ (SendSucceeds \/ SendFails) => IInv'
<1> SUFFICES ASSUME IInv, SendSucceeds \/ SendFails PROVE IInv'
  OBVIOUS
<1>1. /\ phase = "sending" /\ UNCHANGED <<conn, calls, authVars>>
      /\ calls' \in 1..MaxCalls /\ records + 1 = calls'
      /\ conn' \in {"open", "closed"}
      /\ accepted \in Nat /\ unanswered \in 0..MaxRequests
      /\ accepted <= unanswered
  BY DEF SendSucceeds, SendFails, IInv, TypeOK, Undecided, ReportsAgree
<1>2. CASE SendSucceeds
  <2>1. /\ DataReturns("sent", 250) /\ verdict' = "sent"
        /\ accepted' = accepted + 1 /\ unanswered' = unanswered
    BY <1>2 DEF SendSucceeds, Sender!Succeed
  <2>2. accepted' \in Nat /\ unanswered' \in 0..MaxRequests
          /\ accepted' \in 1..(unanswered' + 1)
    BY <1>1, <2>1, SmtpSessionAssumption
  <2> QED BY <1>1, <2>1, <2>2, DataReturnsIInv
<1>3. CASE SendFails
  <2>1. /\ verdict' \in {"deferred", "rejected"}
        /\ accepted' = accepted /\ unanswered' = unanswered
        /\ DataReturns(verdict', IF verdict' = "deferred" THEN 451 ELSE 550)
    BY <1>3 DEF SendFails, Sender!Fail
  <2>2. CASE verdict' = "deferred"
    <3>1. DataReturns("deferred", 451)
      BY <2>1, <2>2
    <3> QED BY <1>1, <2>1, <2>2, <3>1, DataReturnsIInv
  <2>3. CASE verdict' = "rejected"
    <3>1. DataReturns("rejected", 550)
      BY <2>1, <2>3
    <3> QED BY <1>1, <2>1, <2>3, <3>1, DataReturnsIInv
  <2> QED BY <2>1, <2>2, <2>3
<1> QED BY <1>2, <1>3

LEMMA DisconnectIInv == IInv /\ Disconnect => IInv'
<1> SUFFICES ASSUME IInv, Disconnect PROVE IInv'
  OBVIOUS
<1>1. CASE phase # "sending"
  <2>1. /\ Reset /\ phase' = "command" /\ login' = NoLogin /\ conn' = "closed"
        /\ UNCHANGED <<tls, didAuth, presented, dataVars, senderVars>>
    BY <1>1 DEF Disconnect
  <2> QED BY <1>1, <2>1, AbandonIInv
<1>2. CASE phase = "sending"
  <2>1. /\ conn' = "closed"
        /\ UNCHANGED <<phase, sessionVars, gateVars, login, ackedVars, tls,
                       didAuth, presented, dataVars, senderVars>>
    BY <1>2 DEF Disconnect
  <2>2. TypeOK'
    BY <2>1 DEF IInv, TypeOK, sessionVars, gateVars, dataVars, senderVars,
       ackedVars
  <2>3. Envelope' /\ SendsEnvelope' /\ Undecided'
    BY <2>1 DEF IInv, Envelope, SendsEnvelope, Undecided, sessionVars, dataVars,
       senderVars, ackedVars
  <2>4. Authorized' /\ ReportsAgree'
    BY <2>1 DEF IInv, Authorized, ReportsAgree, sessionVars, gateVars, dataVars,
       senderVars
  <2> QED BY <2>2, <2>3, <2>4 DEF IInv
<1> QED BY <1>1, <1>2

LEMMA NextIInv == IInv /\ [Next]_vars => IInv'
<1> SUFFICES ASSUME IInv, [Next]_vars PROVE IInv'
  OBVIOUS
<1>1. CASE Rset
  <2>1. /\ Reset /\ phase = "command" /\ phase' = "command" /\ conn' = conn
        /\ login' = login
        /\ UNCHANGED <<tls, didAuth, presented, dataVars, senderVars>>
    BY <1>1 DEF Rset, Ready, authVars
  <2>2. conn' \in {"open", "closed"}
    BY <2>1 DEF IInv, TypeOK
  <2> QED BY <2>1, <2>2, AbandonIInv
<1>2. CASE StartTLS
  BY <1>2, StartTLSIInv
<1>3. ASSUME NEW u \in Users, NEW p \in Passwords, AuthPlain(u, p) PROVE IInv'
  <2>1. /\ authenticate(u, p) /\ phase = "command" /\ phase' = "command"
        /\ TLSConfigured => tls
        /\ login' = login
        /\ UNCHANGED <<conn, from, recipients, gateVars, tls, dataVars,
                       senderVars, ackedVars>>
    BY <1>3 DEF AuthPlain, MayAuth, AllowInsecureAuth, Ready
  <2> QED BY <2>1, AuthIInv
<1>4. ASSUME NEW u \in Users \cup {Nobody}, AuthLogin(u) PROVE IInv'
  <2>1. /\ phase = "command" /\ phase' = "login"
        /\ TLSConfigured => tls
        /\ UNCHANGED <<conn, sessionVars, gateVars, tls, didAuth, presented,
                       dataVars, senderVars, ackedVars>>
    BY <1>4 DEF AuthLogin, MayAuth, AllowInsecureAuth, Ready
  <2>2. login' \in [state : {"username", "password", "done"},
                    user : Users \cup {Nobody}]
    BY <1>4 DEF AuthLogin
  <2> QED BY <2>1, <2>2, LoginIInv
<1>5. ASSUME NEW u \in Users, LoginUsername(u) PROVE IInv'
  <2>1. /\ phase = "login" /\ phase' = "login"
        /\ TLSConfigured => tls
        /\ UNCHANGED <<conn, sessionVars, gateVars, tls, didAuth, presented,
                       dataVars, senderVars, ackedVars>>
    BY <1>5 DEF LoginUsername, IInv, Authorized
  <2>2. login' \in [state : {"username", "password", "done"},
                    user : Users \cup {Nobody}]
    BY <1>5 DEF LoginUsername
  <2> QED BY <2>1, <2>2, LoginIInv
<1>6. ASSUME NEW p \in Passwords, LoginPassword(p) PROVE IInv'
  <2>1. /\ authenticate(login.user, p) /\ phase = "login" /\ phase' = "command"
        /\ TLSConfigured => tls
        /\ login' = NoLogin
        /\ UNCHANGED <<conn, from, recipients, gateVars, tls, dataVars,
                       senderVars, ackedVars>>
    BY <1>6 DEF LoginPassword, IInv, Authorized
  <2>2. login.user \in Users \cup {Nobody}
    BY DEF IInv, TypeOK
  <2> QED BY <2>1, <2>2, AuthIInv
<1>7. CASE LoginCancelled
  <2>1. /\ phase = "login" /\ phase' = "command" /\ login' = NoLogin
        /\ UNCHANGED <<conn, sessionVars, gateVars, tls, didAuth, presented,
                       dataVars, senderVars, ackedVars>>
    BY <1>7 DEF LoginCancelled
  <2>2. login' \in [state : {"username", "password", "done"},
                    user : Users \cup {Nobody}]
    BY <2>1 DEF NoLogin
  <2> QED BY <2>1, <2>2, LoginIInv
<1>8. ASSUME NEW f \in Froms, Mail(f) PROVE IInv'
  BY <1>8, MailIInv
<1>9. ASSUME NEW recipient \in Rcpts, Rcpt(recipient) PROVE IInv'
  BY <1>9, RcptIInv
<1>10. CASE DataTooLarge \/ DataUnreadable \/ DataUnparsable
  BY <1>10, DataRefusedIInv
<1>11. CASE DataSend
  BY <1>11, DataSendIInv
<1>12. CASE SendStep
  BY <1>12, SendProgressIInv, SendReturnsIInv DEF SendStep
<1>13. CASE Disconnect
  BY <1>13, DisconnectIInv
<1>14. CASE UNCHANGED vars
  <2>1. TypeOK'
    BY <1>14 DEF vars, sessionVars, gateVars, authVars, dataVars, senderVars,
       ackedVars, IInv, TypeOK
  <2>2. Envelope' /\ SendsEnvelope' /\ Authorized' /\ Undecided' /\ ReportsAgree'
    BY <1>14 DEF vars, sessionVars, gateVars, authVars, dataVars, senderVars,
       ackedVars, IInv, Envelope, SendsEnvelope, Authorized, Undecided,
       ReportsAgree
  <2> QED BY <2>1, <2>2 DEF IInv
<1> QED BY <1>1, <1>2, <1>3, <1>4, <1>5, <1>6, <1>7, <1>8, <1>9, <1>10, <1>11,
           <1>12, <1>13, <1>14 DEF Next

LEMMA Invariance == Spec => []IInv
<1>1. Init => IInv
  BY InitIInv
<1>2. IInv /\ [Next]_vars => IInv'
  BY NextIInv
<1> QED BY <1>1, <1>2, PTL DEF Spec

-----------------------------------------------------------------------------
(* A session, go-smtp's gate and the call of Data keep their types, and no *)
(* transaction grows beyond MaxRecipients.                                 *)
THEOREM TypeCorrect == Spec => []TypeOK
<1>1. IInv => TypeOK
  BY DEF IInv
<1> QED BY <1>1, Invariance, PTL

(* Nothing of another transaction is ever sent with this one.              *)
THEOREM EnvelopeCorrect == Spec => []EnvelopeIsAcknowledged
<1>1. IInv => EnvelopeIsAcknowledged
  BY DEF IInv, Envelope, SendsEnvelope, EnvelopeIsAcknowledged
<1> QED BY <1>1, Invariance, PTL

(* Nothing is sent for a client that has not proved it knows the relay's   *)
(* credentials, in the clear only where no TLS is configured.              *)
THEOREM SendsAreAuthorized == Spec => []SendAuthorized
<1>1. IInv => SendAuthorized
  BY DEF IInv, SendsEnvelope, Authorized, SendAuthorized
<1> QED BY <1>1, Invariance, PTL

(* The log, the reply and the upstream never disagree about a message.     *)
THEOREM ReportsCorrect == Spec => []ReportsAgree
<1>1. IInv => ReportsAgree
  BY DEF IInv
<1> QED BY <1>1, Invariance, PTL

-----------------------------------------------------------------------------
(* A pair that authenticates is the right one, and one never presented     *)
(* before: had it been, the session would be authenticated already.        *)
LEMMA AuthStep ==
    ASSUME IInv, NEW user, NEW password, authenticate(user, password)
    PROVE  /\ authenticated' /\ ~authenticated
                => Credentials \in presented' /\ presented' # presented
           /\ authenticated => authenticated'
<1>1. authenticated' => Credentials \in presented'
  BY DEF authenticate, IInv, Authorized, Credentials
<1>2. ~authenticated => Credentials \notin presented
  BY DEF IInv, Authorized
<1>3. authenticated => authenticated'
  BY DEF authenticate
<1> QED BY <1>1, <1>2, <1>3

(* Authentication is won by the right pair in one exchange and lost to     *)
(* STARTTLS only.                                                          *)
THEOREM AuthCorrect == Spec => AuthChanges
<1> DEFINE Changes ==
      /\ authenticated' /\ ~authenticated
            => Credentials \in presented' /\ presented' # presented
      /\ authenticated /\ ~authenticated' => tls' /\ ~tls
<1>1. IInv /\ [Next]_vars => [Changes]_vars
  <2> SUFFICES ASSUME IInv, [Next]_vars PROVE Changes \/ UNCHANGED vars
    OBVIOUS
  <2>1. CASE authenticated' = authenticated
    BY <2>1
  <2>2. CASE StartTLS
    BY <2>2 DEF StartTLS
  <2>3. ASSUME NEW u \in Users, NEW p \in Passwords, AuthPlain(u, p)
        PROVE  Changes
    <3>1. authenticate(u, p)
      BY <2>3 DEF AuthPlain
    <3> QED BY <3>1, AuthStep
  <2>4. ASSUME NEW p \in Passwords, LoginPassword(p) PROVE Changes
    <3>1. authenticate(login.user, p)
      BY <2>4 DEF LoginPassword
    <3> QED BY <3>1, AuthStep
  <2>5. \/ authenticated' = authenticated \/ StartTLS
        \/ \E u \in Users, p \in Passwords : AuthPlain(u, p)
        \/ \E p \in Passwords : LoginPassword(p)
    <3>1. Reset => authenticated' = authenticated
      BY DEF Reset
    <3>2. UNCHANGED sessionVars \/ UNCHANGED vars => authenticated' = authenticated
      BY DEF sessionVars, vars
    <3> QED BY <3>1, <3>2 DEF Next, Rset, AuthLogin, LoginUsername, LoginCancelled,
               Mail, Rcpt, DataTooLarge, DataUnreadable, DataUnparsable, DataSend,
               DataReturns, SendStep, SendProgress, SendSucceeds, SendFails,
               Disconnect
  <2> QED BY <2>1, <2>2, <2>3, <2>4, <2>5
<1> QED BY <1>1, Invariance, PTL DEF Spec, AuthChanges
=============================================================================
