----------------------------- MODULE MCMailWorker -----------------------------
(* Mails of up to two parts, of every kind NextPart may return, and one    *)
(* mail for each other thing that may be missing or too large; three       *)
(* requests, the default of two retries.                                   *)
EXTENDS MailWorker

CONSTANTS hello, bye   \* what a part may say

Part(kind, body) == [kind |-> kind, body |-> body]

MCParts ==
    {Part("plain", hello), Part("plain", Empty), Part("plain", Garbled),
     Part("html", bye), Part("html", Empty),
     Part("other", hello), Part("other", Garbled),
     Part("attachment", Garbled), Part("nothing", Empty), Part("error", Empty)}

Mail(parts) == [header |-> TRUE, from |-> TRUE, recipients |-> TRUE,
                subject |-> TRUE, parts |-> parts, big |-> FALSE]

Good == Mail(<<Part("plain", hello)>>)

MCMails ==
    {Mail(<<>>)} \cup {Mail(<<p>>) : p \in MCParts}
        \cup {Mail(<<p, q>>) : p, q \in MCParts}
        \cup {Mail(<<Part("plain", hello), Part("html", hello), Part("plain", bye)>>),
              [Good EXCEPT !.header = FALSE],
              [Good EXCEPT !.from = FALSE],
              [Good EXCEPT !.recipients = FALSE],
              [Good EXCEPT !.subject = FALSE],
              [Good EXCEPT !.big = TRUE]}
=============================================================================
