---------------------------- MODULE MCSmtpSession ----------------------------
(* A connection with two senders, one of them allowed, two recipients, a   *)
(* right and a wrong user and password, and two calls of Data: the second  *)
(* transaction is the one that could inherit from the first.               *)
EXTENDS SmtpSession
=============================================================================
