------------------------------- MODULE Parsing -------------------------------
(***************************************************************************)
(* Parse of internal/email/parse.go: what of a message's MIME parts        *)
(* reaches the upstream.  readBodyParts is stepped, one NextPart at a      *)
(* time; Recipients models the split of the envelope, and the header       *)
(* fields are kept only as far as somebody downstream acts on them.        *)
(***************************************************************************)
EXTENDS Naturals, Sequences

CONSTANTS
    Contents,    \* what a text may say, Empty included
    Empty,
    Garbled,  \* a body that cannot be read to its end
    Mails        \* bound: the messages considered

(* What NextPart may return.  A "plain", "html" or "other" part is an      *)
(* inline one of that content type, an "attachment" any part that is not   *)
(* inline; "nothing" is an unknown charset or encoding and no part (beside *)
(* a part such an error changes nothing); "error" is any other failure.    *)
Kinds  == {"plain", "html", "other", "attachment", "nothing", "error"}
Parts  == [kind : Kinds, body : Contents \cup {Garbled}]
Inline == {"plain", "html", "other"}

(* A message and its envelope: can the header be read, are there an        *)
(* envelope sender, a recipient that is not blank, a subject; the parts;   *)
(* and is its JSON larger than the Worker takes, as escaping may make it   *)
(* though the message was within the SMTP limit.                           *)
MailShapes == [header : BOOLEAN, from : BOOLEAN, recipients : BOOLEAN,
               subject : BOOLEAN, parts : Seq(Parts), big : BOOLEAN]

ASSUME ParsingAssumption ==
    /\ Empty \in Contents
    /\ Garbled \notin Contents
    /\ Mails \subseteq MailShapes

VARIABLES
    mail,       \* the message Data has read, with its envelope
    next,       \* the part NextPart comes to
    text, html, \* msg.Text and msg.HTML
    parse       \* "reading", then "parsed" or "failed"

parseVars == <<mail, next, text, html, parse>>

(* CreateReader has read the header, or failed. *)
ParseInit ==
    /\ mail \in Mails
    /\ next = 1
    /\ text = Empty /\ html = Empty
    /\ parse = IF mail.header THEN "reading" ELSE "failed"

ParseFails ==
    /\ parse' = "failed"
    /\ UNCHANGED <<mail, next, text, html>>

(* NextPart is at io.EOF. *)
EndOfMail ==
    /\ parse = "reading"
    /\ next > Len(mail.parts)
    /\ parse' = "parsed"
    /\ UNCHANGED <<mail, next, text, html>>

(* NextPart fails. *)
BrokenMail ==
    /\ parse = "reading"
    /\ next <= Len(mail.parts)
    /\ mail.parts[next].kind = "error"
    /\ ParseFails

(* An attachment, or nothing to look at.  Its body is never read. *)
SkipPart ==
    /\ parse = "reading"
    /\ next <= Len(mail.parts)
    /\ mail.parts[next].kind \in {"attachment", "nothing"}
    /\ next' = next + 1
    /\ UNCHANGED <<mail, text, html, parse>>

(* Mutant of UnreadablePart: what cannot be read is skipped. *)
UnreadablePartSkipped ==
    /\ parse = "reading"
    /\ next <= Len(mail.parts)
    /\ mail.parts[next].kind \in Inline
    /\ mail.parts[next].body = Garbled
    /\ next' = next + 1
    /\ UNCHANGED <<mail, text, html, parse>>

(* The body is read before its content type is looked at. *)
UnreadablePart ==
    /\ parse = "reading"
    /\ next <= Len(mail.parts)
    /\ mail.parts[next].kind \in Inline
    /\ mail.parts[next].body = Garbled
    /\ ParseFails

(* Mutant of ReadPart: a text that is already there is kept. *)
ReadPartOnce ==
    /\ parse = "reading"
    /\ next <= Len(mail.parts)
    /\ LET part == mail.parts[next]
       IN  /\ part.kind \in Inline
           /\ part.body # Garbled
           /\ text' = IF part.kind = "plain" /\ text = Empty THEN part.body ELSE text
           /\ html' = IF part.kind = "html" THEN part.body ELSE html
    /\ next' = next + 1
    /\ UNCHANGED <<mail, parse>>

ReadPart ==
    /\ parse = "reading"
    /\ next <= Len(mail.parts)
    /\ LET part == mail.parts[next]
       IN  /\ part.kind \in Inline
           /\ part.body # Garbled
           /\ text' = IF part.kind = "plain" THEN part.body ELSE text
           /\ html' = IF part.kind = "html" THEN part.body ELSE html
    /\ next' = next + 1
    /\ UNCHANGED <<mail, parse>>

ParseNext ==
    EndOfMail \/ BrokenMail \/ SkipPart \/ UnreadablePart \/ ReadPart

ParseSpec == ParseInit /\ [][ParseNext]_parseVars

-----------------------------------------------------------------------------
(* Mutant of buildPayload: the body is the text. *)
buildPlainPayload ==
    [from |-> mail.from, recipients |-> mail.recipients,
     subject |-> mail.subject, text |-> text # Empty, html |-> FALSE]

(* What buildPayload puts into the request, as far as it may be missing. *)
buildPayload ==
    [from |-> mail.from, recipients |-> mail.recipients,
     subject |-> mail.subject, text |-> text # Empty, html |-> html # Empty]

-----------------------------------------------------------------------------
(* PROPERTIES *)

ParseTypeOK ==
    /\ mail \in Mails
    /\ next \in 1..(Len(mail.parts) + 1)
    /\ text \in Contents /\ html \in Contents
    /\ parse \in {"reading", "parsed", "failed"}

(* c is what the last inline part of this kind says, Empty without one.    *)
SaidLast(c, kind) ==
    \/ /\ c = Empty
       /\ \A k \in DOMAIN mail.parts : mail.parts[k].kind # kind
    \/ \E k \in DOMAIN mail.parts :
            /\ mail.parts[k] = [kind |-> kind, body |-> c]
            /\ \A l \in DOMAIN mail.parts :
                    l > k => mail.parts[l].kind # kind

(* What is delivered is what the last text and the last HTML part say, and *)
(* nothing of any other part: not of an attachment, nor of a part that was *)
(* only partly read (readBodyParts).  Of several texts the others are lost. *)
LastPartsDelivered ==
    parse = "parsed" => SaidLast(text, "plain") /\ SaidLast(html, "html")

(* A message fails to parse exactly when its header, its MIME structure or *)
(* an inline part cannot be read; an attachment never makes it fail.       *)
ParseFailsWithReason ==
    parse # "reading" =>
        (parse = "failed" <=>
            \/ ~mail.header
            \/ \E k \in DOMAIN mail.parts :
                 \/ mail.parts[k].kind = "error"
                 \/ mail.parts[k].kind \in Inline /\ mail.parts[k].body = Garbled)

(* "Attachments and other non-text parts are skipped without failing the   *)
(* parse" (parse.go:43-44).                                                *)
NonTextNeverFails ==
    parse = "failed" /\ mail.header =>
        \E k \in DOMAIN mail.parts : mail.parts[k].kind \in {"plain", "html", "error"}
=============================================================================
