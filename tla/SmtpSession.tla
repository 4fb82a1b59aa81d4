----------------------------- MODULE SmtpSession -----------------------------
(***************************************************************************)
(* One client connection of internal/smtpserver: the session of session.go *)
(* and login.go, driven by go-smtp's command loop.  The connection's       *)
(* goroutine runs one command at a time; while it is inside Sender.Send    *)
(* the client may go away.  Connections share no state, so one of them is  *)
(* the whole system.                                                       *)
(*                                                                         *)
(* go-smtp is not part of the repository: what it does around the session  *)
(* (which command it dispatches, when it calls Reset and Logout) is        *)
(* modelled from session.go's comments and the server's tests.  Whether it *)
(* dispatches a MAIL inside an open transaction they do not say:           *)
(* NestedMail covers both.  Sender.Send is any Delivery.                   *)
(***************************************************************************)
EXTENDS Naturals, Sequences

CONSTANTS
    Froms,           \* envelope senders clients use
    AllowedFroms,    \* those SenderPolicy.Allows
    Rcpts,           \* envelope recipients clients use
    Users, Passwords,
    Username, Password,  \* the relay's single pair of credentials
    TLSConfigured,   \* Options.TLSConfig # nil
    NestedMail,      \* go-smtp dispatches MAIL inside a transaction
    MaxRecipients,   \* Options.MaxRecipients
    MaxRequests,     \* requests one Send may make
    MaxCalls,        \* bound: calls of Data on the connection
    Nobody, NoFrom   \* no username yet, no sender yet

ASSUME SmtpSessionAssumption ==
    /\ AllowedFroms \subseteq Froms
    /\ Username \in Users /\ Password \in Passwords
    /\ TLSConfigured \in BOOLEAN /\ NestedMail \in BOOLEAN
    /\ MaxRecipients \in Nat \ {0}
    /\ MaxRequests \in Nat \ {0}
    /\ MaxCalls \in Nat
    /\ Nobody \notin Users
    /\ NoFrom \notin Froms

VARIABLES
    conn,            \* "open", or "closed" once the client is gone
    phase,           \* "command", "login" (inside AUTH LOGIN), "sending"
    \* the session struct and the LOGIN exchange
    authenticated, from, recipients, login,
    \* go-smtp's connection
    tls, didAuth, fromReceived, rcptCount,
    \* the call of Data: the message handed to Send, and how Data ended
    msg, calls, records, lastRecord, answer,
    \* Sender.Send, see Delivery
    verdict, accepted, unanswered,
    \* what the client knows: the acknowledged envelope, and the pairs of
    \* credentials it has presented since the connection's TLS state changed
    ackedFrom, ackedTo, presented

sessionVars == <<authenticated, from, recipients>>
gateVars    == <<fromReceived, rcptCount>>
authVars    == <<tls, didAuth, login, presented>>
dataVars    == <<msg, calls, records, lastRecord, answer>>
senderVars  == <<verdict, accepted, unanswered>>
ackedVars   == <<ackedFrom, ackedTo>>
vars == <<conn, phase, sessionVars, gateVars, authVars, dataVars, senderVars,
          ackedVars>>

NoMessage == [from |-> NoFrom, recipients |-> <<>>]
NoLogin   == [state |-> "done", user |-> Nobody]

Sender == INSTANCE Delivery

Init ==
    /\ conn = "open" /\ phase = "command"
    /\ authenticated = FALSE /\ from = NoFrom /\ recipients = <<>>
    /\ login = NoLogin
    /\ tls = FALSE /\ didAuth = FALSE /\ fromReceived = FALSE /\ rcptCount = 0
    /\ msg = NoMessage /\ calls = 0 /\ records = 0
    /\ lastRecord = "none" /\ answer = 0
    /\ Sender!Init
    /\ ackedFrom = NoFrom /\ ackedTo = <<>> /\ presented = {}

Ready == conn = "open" /\ phase = "command"

-----------------------------------------------------------------------------
(* Reset, and what go-smtp forgets of the transaction with it.             *)
Reset ==
    /\ from' = NoFrom /\ recipients' = <<>>
    /\ fromReceived' = FALSE /\ rcptCount' = 0
    /\ ackedFrom' = NoFrom /\ ackedTo' = <<>>
    /\ UNCHANGED authenticated

Rset ==
    /\ Ready
    /\ Reset
    /\ UNCHANGED <<conn, phase, authVars, dataVars, senderVars>>

(* STARTTLS: go-smtp ends the session and NewSession makes another.        *)
StartTLS ==
    /\ Ready
    /\ TLSConfigured /\ ~tls
    /\ tls' = TRUE
    /\ authenticated' = FALSE /\ didAuth' = FALSE /\ presented' = {}
    /\ from' = NoFrom /\ recipients' = <<>>
    /\ fromReceived' = FALSE /\ rcptCount' = 0
    /\ ackedFrom' = NoFrom /\ ackedTo' = <<>>
    /\ UNCHANGED <<conn, phase, login, dataVars, senderVars>>

-----------------------------------------------------------------------------
(* AUTH.  New sets AllowInsecureAuth when there is no TLSConfig; go-smtp   *)
(* offers AUTH under TLS or when that is set, and once per connection.     *)
(* Mutant of AllowInsecureAuth: set whatever the options say. *)
AlwaysAllowInsecureAuth == TRUE

AllowInsecureAuth == ~TLSConfigured
MayAuth == ~didAuth /\ (tls \/ AllowInsecureAuth)

(* Mutant of authenticate: one of the two comparisons is enough. *)
AuthenticateEither(user, password) ==
    LET valid == user = Username \/ password = Password
    IN  /\ authenticated' = (authenticated \/ valid)
        /\ didAuth' = valid
        /\ presented' = presented \cup {<<user, password>>}

authenticate(user, password) ==
    LET valid == user = Username /\ password = Password
    IN  /\ authenticated' = (authenticated \/ valid)
        /\ didAuth' = valid
        /\ presented' = presented \cup {<<user, password>>}

AuthPlain(user, password) ==
    /\ Ready
    /\ MayAuth
    /\ authenticate(user, password)
    /\ UNCHANGED <<conn, phase, from, recipients, gateVars, tls, login,
                   dataVars, senderVars, ackedVars>>

(* AUTH LOGIN without an initial response asks for the username, with one  *)
(* goes straight to the password.                                          *)
AuthLogin(initial) ==
    /\ Ready
    /\ MayAuth
    /\ phase' = "login"
    /\ login' = IF initial = Nobody
                THEN [state |-> "username", user |-> Nobody]
                ELSE [state |-> "password", user |-> initial]
    /\ UNCHANGED <<conn, sessionVars, gateVars, tls, didAuth, presented,
                   dataVars, senderVars, ackedVars>>

LoginUsername(user) ==
    /\ conn = "open" /\ phase = "login"
    /\ login.state = "username"
    /\ login' = [state |-> "password", user |-> user]
    /\ UNCHANGED <<conn, phase, sessionVars, gateVars, tls, didAuth, presented,
                   dataVars, senderVars, ackedVars>>

LoginPassword(password) ==
    /\ conn = "open" /\ phase = "login"
    /\ login.state = "password"
    /\ authenticate(login.user, password)
    /\ login' = NoLogin
    /\ phase' = "command"
    /\ UNCHANGED <<conn, from, recipients, gateVars, tls, dataVars, senderVars,
                   ackedVars>>

(* The client cancels the exchange with "*". *)
LoginCancelled ==
    /\ conn = "open" /\ phase = "login"
    /\ login' = NoLogin
    /\ phase' = "command"
    /\ UNCHANGED <<conn, sessionVars, gateVars, tls, didAuth, presented,
                   dataVars, senderVars, ackedVars>>

-----------------------------------------------------------------------------
(* Mutant of Mail: the recipients are left to Reset. *)
MailKeepsRecipients(f) ==
    /\ Ready
    /\ fromReceived => NestedMail
    /\ authenticated
    /\ f \in AllowedFroms
    /\ from' = f
    /\ fromReceived' = TRUE
    /\ ackedFrom' = f /\ ackedTo' = <<>>
    /\ UNCHANGED <<conn, phase, authenticated, recipients, rcptCount, authVars,
                   dataVars, senderVars>>

(* MAIL.  A refused MAIL (530, 550) changes nothing, in the session as in  *)
(* go-smtp: an open transaction stays open.                                *)
Mail(f) ==
    /\ Ready
    /\ fromReceived => NestedMail
    /\ authenticated
    /\ f \in AllowedFroms
    /\ from' = f /\ recipients' = <<>>
    /\ fromReceived' = TRUE
    /\ ackedFrom' = f /\ ackedTo' = <<>>
    /\ UNCHANGED <<conn, phase, authenticated, rcptCount, authVars, dataVars,
                   senderVars>>

(* Mutant of Rcpt: the limit is inclusive. *)
RcptOneMore(to) ==
    /\ Ready
    /\ fromReceived
    /\ rcptCount <= MaxRecipients
    /\ recipients' = Append(recipients, to)
    /\ rcptCount' = rcptCount + 1
    /\ ackedTo' = Append(ackedTo, to)
    /\ UNCHANGED <<conn, phase, authenticated, from, fromReceived, authVars,
                   dataVars, senderVars, ackedFrom>>

(* RCPT, accepted up to MaxRecipients, which go-smtp counts itself.        *)
Rcpt(to) ==
    /\ Ready
    /\ fromReceived
    /\ rcptCount < MaxRecipients
    /\ recipients' = Append(recipients, to)
    /\ rcptCount' = rcptCount + 1
    /\ ackedTo' = Append(ackedTo, to)
    /\ UNCHANGED <<conn, phase, authenticated, from, fromReceived, authVars,
                   dataVars, senderVars, ackedFrom>>

-----------------------------------------------------------------------------
(* DATA.  go-smtp dispatches it with a sender and a recipient, and resets  *)
(* the transaction when it returns.                                        *)
StartData ==
    /\ Ready
    /\ fromReceived /\ rcptCount > 0
    /\ calls < MaxCalls
    /\ calls' = calls + 1
    /\ verdict' = "pending" /\ accepted' = 0 /\ unanswered' = 0

(* The deferred LogDelivery and the reply, on every return of Data.        *)
DataReturns(record, code) ==
    /\ records' = records + 1
    /\ lastRecord' = record
    /\ answer' = code
    /\ msg' = NoMessage
    /\ phase' = "command"
    /\ Reset

(* Above MaxMessageBytes: gosmtp.ErrDataTooLarge. *)
DataTooLarge ==
    /\ StartData
    /\ DataReturns("rejected", 552)
    /\ UNCHANGED <<conn, authVars>>

(* Reading the body fails otherwise: a timeout, or the client is gone. *)
DataUnreadable ==
    /\ StartData
    /\ DataReturns("deferred", 451)
    /\ conn' \in {"open", "closed"}
    /\ UNCHANGED authVars

(* email.Parse fails. *)
DataUnparsable ==
    /\ StartData
    /\ DataReturns("rejected", 550)
    /\ UNCHANGED <<conn, authVars>>

(* email.Parse succeeds; Send begins with a context of its own, bound to   *)
(* nothing the client can do.  msg is the envelope Parse is given.         *)
DataSend ==
    /\ StartData
    /\ phase' = "sending"
    /\ msg' = [from |-> from, recipients |-> recipients]
    /\ UNCHANGED <<conn, sessionVars, gateVars, authVars, records, lastRecord,
                   answer, ackedVars>>

(* Inside Send. *)
SendProgress ==
    /\ phase = "sending"
    /\ Sender!LoseAnswer
    /\ UNCHANGED <<conn, phase, sessionVars, gateVars, authVars, dataVars,
                   ackedVars>>

SendSucceeds ==
    /\ phase = "sending"
    /\ Sender!Succeed
    /\ DataReturns("sent", 250)
    /\ UNCHANGED <<conn, calls, authVars>>

(* Mutant of SendFails: the record of every failure is "rejected". *)
SendFailsRejected ==
    /\ phase = "sending"
    /\ Sender!Fail
    /\ DataReturns("rejected", IF verdict' = "deferred" THEN 451 ELSE 550)
    /\ UNCHANGED <<conn, calls, authVars>>

(* Mutant of SendFails: Data waits for a client that is gone. *)
SendFailsToClient ==
    /\ phase = "sending"
    /\ conn = "open"
    /\ Sender!Fail
    /\ DataReturns(verdict', IF verdict' = "deferred" THEN 451 ELSE 550)
    /\ UNCHANGED <<conn, calls, authVars>>

(* A DeliveryError carries its own code, 451 or 550; any other error is    *)
(* deferred with 451.                                                      *)
SendFails ==
    /\ phase = "sending"
    /\ Sender!Fail
    /\ DataReturns(verdict', IF verdict' = "deferred" THEN 451 ELSE 550)
    /\ UNCHANGED <<conn, calls, authVars>>

-----------------------------------------------------------------------------
(* The client goes away, by QUIT or not.  Between commands the session is  *)
(* logged out; a Send in progress is not told.                             *)
Disconnect ==
    /\ conn = "open"
    /\ conn' = "closed"
    /\ IF phase = "sending"
       THEN UNCHANGED <<phase, sessionVars, gateVars, login, ackedVars>>
       ELSE phase' = "command" /\ login' = NoLogin /\ Reset
    /\ UNCHANGED <<tls, didAuth, presented, dataVars, senderVars>>

SendStep == SendProgress \/ SendSucceeds \/ SendFails

Next ==
    \/ Rset \/ StartTLS
    \/ \E u \in Users, p \in Passwords : AuthPlain(u, p)
    \/ \E u \in Users \cup {Nobody} : AuthLogin(u)
    \/ \E u \in Users : LoginUsername(u)
    \/ \E p \in Passwords : LoginPassword(p)
    \/ LoginCancelled
    \/ \E f \in Froms : Mail(f)
    \/ \E to \in Rcpts : Rcpt(to)
    \/ DataTooLarge \/ DataUnreadable \/ DataUnparsable \/ DataSend
    \/ SendStep
    \/ Disconnect

Spec == Init /\ [][Next]_vars

(* Send returns within its context's deadline (SendLoop!Termination); the  *)
(* client is owed nothing and owes nothing.                                *)
FairSpec == Spec /\ WF_vars(SendStep)
-----------------------------------------------------------------------------
(* PROPERTIES *)

Credentials == <<Username, Password>>
Pairs == (Users \cup {Nobody}) \X Passwords

(* The values every variable keeps. *)
TypeOK ==
    /\ conn \in {"open", "closed"}
    /\ phase \in {"command", "login", "sending"}
    /\ authenticated \in BOOLEAN /\ tls \in BOOLEAN /\ didAuth \in BOOLEAN
    /\ fromReceived \in BOOLEAN
    /\ from \in Froms \cup {NoFrom} /\ recipients \in Seq(Rcpts)
    /\ login \in [state : {"username", "password", "done"},
                  user : Users \cup {Nobody}]
    /\ rcptCount \in 0..MaxRecipients
    /\ msg \in [from : Froms \cup {NoFrom}, recipients : Seq(Rcpts)]
    /\ calls \in 0..MaxCalls /\ records \in 0..MaxCalls
    /\ lastRecord \in {"none", "sent", "deferred", "rejected"}
    /\ answer \in {0, 250, 451, 550, 552}
    /\ verdict \in {"pending", "sent", "deferred", "rejected"}
    /\ accepted \in Nat /\ unanswered \in 0..MaxRequests
    /\ ackedFrom \in Froms \cup {NoFrom} /\ ackedTo \in Seq(Rcpts)
    /\ presented \in SUBSET Pairs

(* The message handed to the sender carries the envelope of THIS           *)
(* transaction as the client saw it acknowledged: nothing of an earlier    *)
(* transaction, of one abandoned by RSET or by a second MAIL, or of one    *)
(* that failed, on a session reused for all of them (session.go:43-46).    *)
EnvelopeIsAcknowledged ==
    phase = "sending" => msg = [from |-> ackedFrom, recipients |-> ackedTo]

(* Nothing is sent but for a client that has presented the relay's         *)
(* credentials on this very connection, under TLS where TLS is configured, *)
(* and from a sender the policy allows.                                    *)
SendAuthorized ==
    phase = "sending" =>
        /\ Credentials \in presented
        /\ TLSConfigured => tls
        /\ msg.from \in AllowedFroms

(* Authentication comes with the right pair of credentials presented in    *)
(* one exchange, and is only lost to STARTTLS: neither RSET, nor a         *)
(* finished or failed DATA, nor a later failed command revokes it.         *)
AuthChanges ==
    [][/\ authenticated' /\ ~authenticated
            => Credentials \in presented' /\ presented' # presented
       /\ authenticated /\ ~authenticated' => tls' /\ ~tls]_vars

(* Every call of Data leaves exactly one delivery record, and when it has  *)
(* returned the record, the reply and the upstream tell one story: 250 is  *)
(* "sent" and a message taken, 451 "deferred" and 55x "rejected", and then *)
(* a copy can only have been taken by a request whose answer was lost.     *)
ReportsAgree ==
    /\ records = IF phase = "sending" THEN calls - 1 ELSE calls
    /\ phase # "sending" /\ calls > 0 =>
        /\ answer \in {250, 451, 550, 552}
        /\ answer = 250 <=> lastRecord = "sent"
        /\ answer = 451 <=> lastRecord = "deferred"
        /\ answer \in {550, 552} <=> lastRecord = "rejected"
        /\ answer = 250 => accepted \in 1..(unanswered + 1)
        /\ answer # 250 => accepted <= unanswered

(* A Send that has begun ends and is logged, also when the client that     *)
(* asked for it is gone.                                                   *)
DataAnswered == phase = "sending" ~> phase = "command" /\ records = calls
=============================================================================
