------------------------------ MODULE Recipients ------------------------------
(***************************************************************************)
(* splitRecipients of internal/email/parse.go: who of the SMTP envelope is *)
(* delivered openly (To, Cc) and who blindly (Bcc).  The three loops are   *)
(* steps, one address at a time, so that their invariants can be stated.   *)
(*                                                                         *)
(* An address is a key, what remains of it after TrimSpace and ToLower,    *)
(* and a spelling; Blank is the key of an address nothing remains of.      *)
(***************************************************************************)
EXTENDS Naturals, Sequences

CONSTANTS
    Keys, Spellings, Blank,
    HeaderFields,      \* bound: the To and Cc fields of the messages considered
    Envelopes          \* bound: the lists of RCPT TO recipients considered

Addresses == [key : Keys \cup {Blank}, spelling : Spellings]
Fields    == [field : {"absent", "malformed", "list"}, addrs : Seq(Addresses)]

ASSUME RecipientsAssumption ==
    /\ Blank \notin Keys
    /\ HeaderFields \subseteq Fields
    /\ Envelopes \subseteq Seq(Addresses)

(* A To or Cc header field of the message: none, one go-message cannot     *)
(* parse, or an address list, which may be empty ("undisclosed-recipients:;"). *)
Absent     == [field |-> "absent", addrs |-> <<>>]
Malformed  == [field |-> "malformed", addrs |-> <<>>]
List(s)    == [field |-> "list", addrs |-> s]

VARIABLES
    toField, ccField,  \* the header fields of the message
    envelope,          \* the recipients of RCPT TO, in order
    loop,              \* which loop is running: "all", "to", "cc", "bcc", "done"
    i,                 \* the address it looks at
    assigned,          \* keys already delivered to
    to, cc, bcc        \* the result

inputVars == <<toField, ccField, envelope>>
vars == <<inputVars, loop, i, assigned, to, cc, bcc>>

(* headerAddresses: a missing or malformed field is no address. *)
headerAddresses(field) == IF field.field = "list" THEN field.addrs ELSE <<>>

headerTo == headerAddresses(toField)
headerCc == headerAddresses(ccField)

KeysOf(s) == {s[k].key : k \in DOMAIN s}

envelopeSet == KeysOf(envelope) \ {Blank}

(* What the running loop ranges over. *)
Source == CASE loop = "to" -> headerTo
            [] loop = "cc" -> headerCc
            [] loop \in {"all", "bcc", "done"} -> envelope

-----------------------------------------------------------------------------
(* Mutant of Init: no To is no header at all. *)
InitWithoutTo ==
    /\ toField \in HeaderFields /\ ccField \in HeaderFields
    /\ envelope \in Envelopes
    /\ loop = IF Len(headerTo) = 0 THEN "all" ELSE "to"
    /\ i = 1
    /\ assigned = {}
    /\ to = <<>> /\ cc = <<>> /\ bcc = <<>>

Init ==
    /\ toField \in HeaderFields /\ ccField \in HeaderFields
    /\ envelope \in Envelopes
    /\ loop = IF Len(headerTo) = 0 /\ Len(headerCc) = 0 THEN "all" ELSE "to"
    /\ i = 1
    /\ assigned = {}
    /\ to = <<>> /\ cc = <<>> /\ bcc = <<>>

(* Mutants of Wanted: a blank address counts; one address counts twice. *)
WantedBlank(a) ==
    /\ loop \in {"to", "cc"} => a.key \in envelopeSet
    /\ a.key \notin assigned

WantedAgain(a) ==
    /\ a.key # Blank
    /\ loop \in {"to", "cc"} => a.key \in envelopeSet

(* An address of a header counts when the envelope has it too; every       *)
(* address counts once.                                                    *)
Wanted(a) ==
    /\ a.key # Blank
    /\ loop \in {"to", "cc"} => a.key \in envelopeSet
    /\ a.key \notin assigned

Skip ==
    /\ i <= Len(Source)
    /\ loop # "done"
    /\ ~Wanted(Source[i])
    /\ i' = i + 1
    /\ UNCHANGED <<inputVars, loop, assigned, to, cc, bcc>>

Assign(loops, list) ==
    /\ loop \in loops
    /\ i <= Len(Source)
    /\ Wanted(Source[i])
    /\ list' = Append(list, Source[i])
    /\ assigned' = assigned \cup {Source[i].key}
    /\ i' = i + 1
    /\ UNCHANGED <<inputVars, loop>>

AssignTo  == Assign({"all", "to"}, to) /\ UNCHANGED <<cc, bcc>>
AssignCc  == Assign({"cc"}, cc) /\ UNCHANGED <<to, bcc>>
AssignBcc == Assign({"bcc"}, bcc) /\ UNCHANGED <<to, cc>>

(* Mutant of After: a loop is missing. *)
AfterWithoutCc == [all |-> "done", to |-> "bcc", cc |-> "bcc", bcc |-> "done"]

After == [all |-> "done", to |-> "cc", cc |-> "bcc", bcc |-> "done"]

NextLoop ==
    /\ loop # "done"
    /\ i > Len(Source)
    /\ loop' = After[loop]
    /\ i' = 1
    /\ UNCHANGED <<inputVars, assigned, to, cc, bcc>>

Next == Skip \/ AssignTo \/ AssignCc \/ AssignBcc \/ NextLoop

Spec == Init /\ [][Next]_vars

-----------------------------------------------------------------------------
(* PROPERTIES *)

(* The values every variable keeps. *)
TypeOK ==
    /\ toField \in Fields /\ ccField \in Fields
    /\ envelope \in Seq(Addresses)
    /\ loop \in {"all", "to", "cc", "bcc", "done"}
    /\ i \in Nat \ {0}
    /\ assigned \subseteq Keys
    /\ to \in Seq(Addresses) /\ cc \in Seq(Addresses) /\ bcc \in Seq(Addresses)

Distinct(s) == \A j, k \in DOMAIN s : s[j].key = s[k].key => j = k
Apart(s, t) == KeysOf(s) \cap KeysOf(t) = {}

(* Nobody is delivered to twice, under whatever spelling and in whichever  *)
(* lists the address came, and nobody who is not in the envelope: the      *)
(* envelope is what the client was acknowledged.                           *)
NoStrangersNoDuplicates ==
    /\ Distinct(to) /\ Distinct(cc) /\ Distinct(bcc)
    /\ Apart(to, cc) /\ Apart(to, bcc) /\ Apart(cc, bcc)
    /\ KeysOf(to) \cup KeysOf(cc) \cup KeysOf(bcc) \subseteq envelopeSet

(* The message names somebody. *)
Named == Len(headerTo) > 0 \/ Len(headerCc) > 0

(* An address that came by RCPT TO only is never shown to the others, when *)
(* the message names anybody at all.                                       *)
BlindStaysBlind ==
    Named =>
        /\ KeysOf(to) \subseteq KeysOf(headerTo)
        /\ KeysOf(cc) \subseteq KeysOf(headerCc)

(* The split is the one its comment describes (parse.go:130-135): an       *)
(* envelope recipient is delivered in To when To names it, else in Cc when *)
(* Cc does, else blindly; and in To when nobody is named.  In particular   *)
(* nobody the client was acknowledged is left out.                         *)
SplitAsDocumented ==
    loop = "done" =>
        IF Named
        THEN /\ KeysOf(to)  = envelopeSet \cap KeysOf(headerTo)
             /\ KeysOf(cc)  = (envelopeSet \cap KeysOf(headerCc)) \ KeysOf(headerTo)
             /\ KeysOf(bcc) = envelopeSet \ (KeysOf(headerTo) \cup KeysOf(headerCc))
        ELSE KeysOf(to) = envelopeSet /\ KeysOf(cc) = {} /\ KeysOf(bcc) = {}

(* message.go:39-42: "blind recipients stay blind: an address that arrived *)
(* only via RCPT TO, and appears in neither the To nor the Cc header,      *)
(* belongs in Bcc", unless "the message has no To and no Cc header at all" *)
(* (parse.go:131-132).                                                     *)
BlindWithAnyHeader ==
    toField # Absent \/ ccField # Absent =>
        KeysOf(to) \cup KeysOf(cc) \subseteq KeysOf(headerTo) \cup KeysOf(headerCc)
=============================================================================
