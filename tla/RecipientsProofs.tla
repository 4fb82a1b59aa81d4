-------------------------- MODULE RecipientsProofs --------------------------
(***************************************************************************)
(* The split of the recipients, for header fields and envelopes of every   *)
(* length.  The invariant says, loop by loop, what part of the source the  *)
(* loop has gone through (Seen) and that assigned is what the three lists  *)
(* hold; the properties are what is left of it when the loops are done.    *)
(***************************************************************************)
EXTENDS Recipients, TLAPS

(* The keys of the addresses before the n-th. *)
Seen(s, n) == {s[k].key : k \in {m \in DOMAIN s : m < n}}

Lists ==
    /\ assigned = KeysOf(to) \cup KeysOf(cc) \cup KeysOf(bcc)
    /\ Distinct(to) /\ Distinct(cc) /\ Distinct(bcc)
    /\ Apart(to, cc) /\ Apart(to, bcc) /\ Apart(cc, bcc)

ToDone == KeysOf(to) = envelopeSet \cap KeysOf(headerTo)
CcDone == KeysOf(cc) = (envelopeSet \cap KeysOf(headerCc)) \ KeysOf(headerTo)

Progress ==
    /\ i <= Len(Source) + 1
    /\ loop = "all" =>
        /\ ~Named
        /\ KeysOf(to) = Seen(envelope, i) \ {Blank}
        /\ KeysOf(cc) = {} /\ KeysOf(bcc) = {}
    /\ loop \in {"to", "cc", "bcc"} => Named
    /\ loop = "to" =>
        /\ KeysOf(to) = envelopeSet \cap Seen(headerTo, i)
        /\ KeysOf(cc) = {} /\ KeysOf(bcc) = {}
    /\ loop = "cc" =>
        /\ ToDone
        /\ KeysOf(cc) = (envelopeSet \cap Seen(headerCc, i)) \ KeysOf(headerTo)
        /\ KeysOf(bcc) = {}
    /\ loop = "bcc" =>
        /\ ToDone /\ CcDone
        /\ KeysOf(bcc) = (Seen(envelope, i) \ {Blank})
                            \ (KeysOf(headerTo) \cup KeysOf(headerCc))
    /\ loop = "done" =>
        IF Named THEN /\ ToDone /\ CcDone
                      /\ KeysOf(bcc) = envelopeSet
                            \ (KeysOf(headerTo) \cup KeysOf(headerCc))
        ELSE /\ KeysOf(to) = envelopeSet
             /\ KeysOf(cc) = {} /\ KeysOf(bcc) = {}

IInv == TypeOK /\ Lists /\ Progress

-----------------------------------------------------------------------------
LEMMA KeysOfEmpty == KeysOf(<<>>) = {} /\ Distinct(<<>>)
BY DEF KeysOf, Distinct

(* Appending an address adds its key, and keeps the keys distinct when the *)
(* key is new.                                                             *)
LEMMA AppendLemma ==
    ASSUME NEW s \in Seq(Addresses), NEW a \in Addresses
    PROVE  /\ KeysOf(Append(s, a)) = KeysOf(s) \cup {a.key}
           /\ Distinct(s) /\ a.key \notin KeysOf(s) => Distinct(Append(s, a))
<1> DEFINE t == Append(s, a)
<1>1. /\ DOMAIN t = 1..(Len(s) + 1) /\ DOMAIN s = 1..Len(s) /\ Len(s) \in Nat
      /\ \A k \in 1..Len(s) : t[k] = s[k]
      /\ t[Len(s) + 1] = a
  OBVIOUS
<1> HIDE DEF t
<1>2. KeysOf(t) = KeysOf(s) \cup {a.key}
  <2>1. ASSUME NEW x \in KeysOf(t) PROVE x \in KeysOf(s) \cup {a.key}
    <3>1. PICK k \in 1..(Len(s) + 1) : x = t[k].key
      BY <1>1, <2>1 DEF KeysOf
    <3>2. k \in 1..Len(s) \/ k = Len(s) + 1
      BY <1>1
    <3> QED BY <1>1, <3>1, <3>2 DEF KeysOf
  <2>2. ASSUME NEW x \in KeysOf(s) \cup {a.key} PROVE x \in KeysOf(t)
    <3>1. CASE x = a.key
      <4>1. Len(s) + 1 \in DOMAIN t /\ t[Len(s) + 1].key = x
        BY <1>1, <3>1
      <4> QED BY <4>1 DEF KeysOf
    <3>2. CASE x \in KeysOf(s)
      <4>1. PICK k \in 1..Len(s) : x = s[k].key
        BY <1>1, <3>2 DEF KeysOf
      <4>2. k \in DOMAIN t /\ t[k].key = x
        BY <1>1, <4>1
      <4> QED BY <4>2 DEF KeysOf
    <3> QED BY <2>2, <3>1, <3>2
  <2> QED BY <2>1, <2>2
<1>3. ASSUME Distinct(s), a.key \notin KeysOf(s) PROVE Distinct(t)
  <2>1. SUFFICES ASSUME NEW j \in DOMAIN t, NEW k \in DOMAIN t,
                        t[j].key = t[k].key
                 PROVE  j = k
    BY DEF Distinct
  <2>2. \A m \in 1..Len(s) : t[m].key = s[m].key /\ s[m].key # a.key
    BY <1>1, <1>3 DEF KeysOf
  <2>3. CASE j \in 1..Len(s) /\ k \in 1..Len(s)
    BY <1>1, <1>3, <2>1, <2>2, <2>3 DEF Distinct
  <2>4. CASE j = Len(s) + 1 \/ k = Len(s) + 1
    BY <1>1, <2>1, <2>2, <2>4
  <2> QED BY <1>1, <2>3, <2>4
<1> QED BY <1>2, <1>3 DEF t

(* One more address has been gone through. *)
LEMMA SeenLemma ==
    ASSUME NEW s \in Seq(Addresses), NEW n \in Nat \ {0}
    PROVE  /\ Seen(s, 1) = {}
           /\ n <= Len(s) => Seen(s, n + 1) = Seen(s, n) \cup {s[n].key}
           /\ n > Len(s) => Seen(s, n) = KeysOf(s)
           /\ Seen(s, n) \subseteq KeysOf(s)
<1>1. DOMAIN s = 1..Len(s) /\ Len(s) \in Nat
  OBVIOUS
<1>2. Seen(s, 1) = {}
  BY <1>1 DEF Seen
<1>3. ASSUME n <= Len(s) PROVE Seen(s, n + 1) = Seen(s, n) \cup {s[n].key}
  <2>1. {m \in DOMAIN s : m < n + 1} = {m \in DOMAIN s : m < n} \cup {n}
    BY <1>1, <1>3
  <2> QED BY <2>1 DEF Seen
<1>4. ASSUME n > Len(s) PROVE Seen(s, n) = KeysOf(s)
  <2>1. {m \in DOMAIN s : m < n} = DOMAIN s
    BY <1>1, <1>4
  <2> QED BY <2>1 DEF Seen, KeysOf
<1>5. Seen(s, n) \subseteq KeysOf(s)
  BY DEF Seen, KeysOf
<1> QED BY <1>2, <1>3, <1>4, <1>5

(* What a loop ranges over is a sequence of addresses. *)
LEMMA SourceLemma ==
    ASSUME TypeOK
    PROVE  /\ headerTo \in Seq(Addresses) /\ headerCc \in Seq(Addresses)
           /\ envelope \in Seq(Addresses) /\ Source \in Seq(Addresses)
           /\ i \in 1..Len(Source) => Source[i] \in Addresses
<1>1. headerTo \in Seq(Addresses) /\ headerCc \in Seq(Addresses)
        /\ envelope \in Seq(Addresses)
  BY DEF TypeOK, Fields, headerTo, headerCc, headerAddresses
<1>2. Source \in Seq(Addresses)
  BY <1>1 DEF Source, TypeOK
<1> QED BY <1>1, <1>2
-----------------------------------------------------------------------------
LEMMA InitIInv == Init => IInv
<1> SUFFICES ASSUME Init PROVE IInv
  OBVIOUS
<1>1. /\ toField \in Fields /\ ccField \in Fields /\ envelope \in Seq(Addresses)
      /\ i = 1 /\ assigned = {} /\ to = <<>> /\ cc = <<>> /\ bcc = <<>>
      /\ loop \in {"all", "to"}
  BY RecipientsAssumption DEF Init
<1>2. TypeOK
  BY <1>1 DEF TypeOK
<1>3. Lists
  BY <1>1, KeysOfEmpty DEF Lists, Apart
<1>4. headerTo \in Seq(Addresses) /\ headerCc \in Seq(Addresses)
        /\ Source \in Seq(Addresses)
  BY <1>2, SourceLemma
<1>5. /\ loop = "all" <=> ~Named
      /\ 1 <= Len(Source) + 1
  BY <1>4 DEF Init, Named
<1>6. Seen(envelope, 1) = {} /\ Seen(headerTo, 1) = {}
  BY <1>1, <1>4, SeenLemma
<1>7. Progress
  BY <1>1, <1>5, <1>6, KeysOfEmpty DEF Progress
<1> QED BY <1>2, <1>3, <1>7 DEF IInv

(* Nothing a step does changes what the message and the envelope say.      *)
LEMMA InputsLemma ==
    ASSUME UNCHANGED inputVars
    PROVE  /\ headerTo' = headerTo /\ headerCc' = headerCc
           /\ envelope' = envelope /\ envelopeSet' = envelopeSet
           /\ Named' = Named
           /\ KeysOf(headerTo)' = KeysOf(headerTo)
           /\ KeysOf(headerCc)' = KeysOf(headerCc)
           /\ loop' = loop => Source' = Source
BY DEF inputVars, headerTo, headerCc, headerAddresses, envelopeSet, KeysOf,
       Named, Source

(* The keys of the source before i and after it, in the running loop.      *)
LEMMA StepLemma ==
    ASSUME IInv, i <= Len(Source)
    PROVE  /\ Source[i] \in Addresses
           /\ Seen(Source, i + 1) = Seen(Source, i) \cup {Source[i].key}
           /\ loop \in {"all", "bcc"} => Source = envelope
                                      /\ Source[i].key \in KeysOf(envelope)
           /\ loop = "to" => Source = headerTo
                          /\ Source[i].key \in KeysOf(headerTo)
           /\ loop = "cc" => Source = headerCc
<1>1. /\ Source \in Seq(Addresses) /\ i \in Nat \ {0}
      /\ i \in 1..Len(Source)
  BY SourceLemma DEF IInv, TypeOK
<1>2. Source[i] \in Addresses /\ Source[i].key \in KeysOf(Source)
  BY <1>1 DEF KeysOf
<1>3. Seen(Source, i + 1) = Seen(Source, i) \cup {Source[i].key}
  BY <1>1, SeenLemma
<1> QED BY <1>2, <1>3 DEF Source

LEMMA SkipIInv == IInv /\ Skip => IInv'
<1> SUFFICES ASSUME IInv, Skip PROVE IInv'
  OBVIOUS
<1> DEFINE a == Source[i]
<1>1. /\ i <= Len(Source) /\ loop # "done" /\ ~Wanted(a) /\ i' = i + 1
      /\ UNCHANGED <<loop, assigned, to, cc, bcc>> /\ UNCHANGED inputVars
  BY DEF Skip
<1>2. TypeOK' /\ Lists'
  <2>1. TypeOK'
    BY <1>1 DEF IInv, TypeOK, inputVars
  <2>2. /\ assigned' = assigned /\ to' = to /\ cc' = cc /\ bcc' = bcc
        /\ Lists
    BY <1>1 DEF IInv
  <2>3. /\ Distinct(to)' /\ Distinct(cc)' /\ Distinct(bcc)'
    BY <2>2 DEF Lists, Distinct
  <2>4. /\ KeysOf(to)' = KeysOf(to) /\ KeysOf(cc)' = KeysOf(cc)
        /\ KeysOf(bcc)' = KeysOf(bcc)
    BY <2>2 DEF KeysOf
  <2>5. Lists'
    BY <2>2, <2>3, <2>4 DEF Lists, Apart
  <2> QED BY <2>1, <2>5
<1>3. /\ headerTo' = headerTo /\ headerCc' = headerCc /\ Source' = Source
      /\ envelope' = envelope /\ envelopeSet' = envelopeSet /\ Named' = Named
  BY <1>1, InputsLemma
<1>4. /\ KeysOf(to)' = KeysOf(to) /\ KeysOf(cc)' = KeysOf(cc)
      /\ KeysOf(bcc)' = KeysOf(bcc)
  BY <1>1 DEF KeysOf
<1>5. (ToDone => ToDone') /\ (CcDone => CcDone')
  <2>1. /\ KeysOf(headerTo)' = KeysOf(headerTo)
        /\ KeysOf(headerCc)' = KeysOf(headerCc)
    BY <1>3 DEF KeysOf
  <2> QED BY <1>3, <1>4, <2>1 DEF ToDone, CcDone
<1>6. i' <= Len(Source') + 1
  BY <1>1, <1>3, SourceLemma DEF IInv, TypeOK
<1>7. assigned = KeysOf(to) \cup KeysOf(cc) \cup KeysOf(bcc)
  BY DEF IInv, Lists
<1>8. CASE loop = "all"
  <2>1. Seen(envelope, i + 1) = Seen(envelope, i) \cup {a.key}
    BY <1>1, <1>8, StepLemma
  <2>2. a.key = Blank \/ a.key \in assigned
    BY <1>1, <1>8 DEF Wanted
  <2>3. Seen(envelope, i + 1) \ {Blank} = Seen(envelope, i) \ {Blank}
    BY <1>7, <1>8, <2>1, <2>2 DEF IInv, Progress
  <2> QED BY <1>1, <1>2, <1>3, <1>4, <1>6, <1>8, <2>3 DEF IInv, Progress
<1>9. CASE loop = "to"
  <2>1. Seen(headerTo, i + 1) = Seen(headerTo, i) \cup {a.key}
    BY <1>1, <1>9, StepLemma
  <2>2. a.key \notin envelopeSet \/ a.key \in assigned
    BY <1>1, <1>9 DEF Wanted, envelopeSet
  <2>3. envelopeSet \cap Seen(headerTo, i + 1)
          = envelopeSet \cap Seen(headerTo, i)
    BY <1>7, <1>9, <2>1, <2>2 DEF IInv, Progress
  <2> QED BY <1>1, <1>2, <1>3, <1>4, <1>6, <1>9, <2>3 DEF IInv, Progress
<1>10. CASE loop = "cc"
  <2>1. Seen(headerCc, i + 1) = Seen(headerCc, i) \cup {a.key}
    BY <1>1, <1>10, StepLemma
  <2>2. a.key \notin envelopeSet \/ a.key \in assigned
    BY <1>1, <1>10 DEF Wanted, envelopeSet
  <2>3. (envelopeSet \cap Seen(headerCc, i + 1)) \ KeysOf(headerTo)
          = (envelopeSet \cap Seen(headerCc, i)) \ KeysOf(headerTo)
    BY <1>7, <1>10, <2>1, <2>2 DEF IInv, Progress, ToDone
  <2>4. KeysOf(headerTo)' = KeysOf(headerTo)
    BY <1>3 DEF KeysOf
  <2> QED BY <1>1, <1>2, <1>3, <1>4, <1>5, <1>6, <1>10, <2>3, <2>4
          DEF IInv, Progress
<1>11. CASE loop = "bcc"
  <2>1. Seen(envelope, i + 1) = Seen(envelope, i) \cup {a.key}
    BY <1>1, <1>11, StepLemma
  <2>2. a.key = Blank \/ a.key \in assigned
    BY <1>1, <1>11 DEF Wanted
  <2>3. (Seen(envelope, i + 1) \ {Blank}) \ (KeysOf(headerTo) \cup KeysOf(headerCc))
          = (Seen(envelope, i) \ {Blank}) \ (KeysOf(headerTo) \cup KeysOf(headerCc))
    BY <1>7, <1>11, <2>1, <2>2 DEF IInv, Progress, ToDone, CcDone
  <2>4. KeysOf(headerTo)' = KeysOf(headerTo) /\ KeysOf(headerCc)' = KeysOf(headerCc)
    BY <1>3 DEF KeysOf
  <2> QED BY <1>1, <1>2, <1>3, <1>4, <1>5, <1>6, <1>11, <2>3, <2>4
          DEF IInv, Progress
<1> QED BY <1>1, <1>8, <1>9, <1>10, <1>11 DEF IInv, TypeOK
-----------------------------------------------------------------------------
(* Adding the address to one list, in the loops that do: it was in none. *)
LEMMA AssignToTypeLists ==
    ASSUME IInv, AssignTo
    PROVE  /\ TypeOK' /\ Lists'
           /\ KeysOf(to)' = KeysOf(to) \cup {Source[i].key}
           /\ KeysOf(cc)' = KeysOf(cc) /\ KeysOf(bcc)' = KeysOf(bcc)
           /\ i' <= Len(Source') + 1
<1> DEFINE a == Source[i]
<1>1. /\ i <= Len(Source) /\ Wanted(a) /\ i' = i + 1 /\ loop \in {"all", "to"}
      /\ to' = Append(to, a) /\ assigned' = assigned \cup {a.key}
      /\ UNCHANGED <<loop, cc, bcc>> /\ UNCHANGED inputVars
  BY DEF AssignTo, Assign
<1>2. /\ a \in Addresses /\ a.key # Blank /\ a.key \notin assigned
      /\ a.key \in Keys
  <2>1. a \in Addresses
    BY <1>1, StepLemma
  <2> QED BY <1>1, <2>1 DEF Wanted, Addresses
<1>3. /\ to \in Seq(Addresses) /\ TypeOK /\ Lists
      /\ cc' = cc /\ bcc' = bcc
  BY <1>1 DEF IInv, TypeOK
<1>4. TypeOK'
  <2>1. to' \in Seq(Addresses) /\ assigned' \subseteq Keys
          /\ i' \in Nat \ {0}
    BY <1>1, <1>2, <1>3 DEF TypeOK
  <2> QED BY <1>1, <1>3, <2>1 DEF TypeOK, inputVars
<1>5. /\ KeysOf(to)' = KeysOf(to) \cup {a.key}
      /\ KeysOf(cc)' = KeysOf(cc) /\ KeysOf(bcc)' = KeysOf(bcc)
  BY <1>1, <1>2, <1>3, AppendLemma DEF KeysOf
<1>6. a.key \notin KeysOf(to) /\ a.key \notin KeysOf(cc)
        /\ a.key \notin KeysOf(bcc)
  BY <1>2, <1>3 DEF Lists
<1>7. Distinct(to)' /\ Distinct(cc)' /\ Distinct(bcc)'
  <2>1. Distinct(to')
    BY <1>1, <1>2, <1>3, <1>6, AppendLemma DEF Lists
  <2>2. Distinct(cc')
    BY <1>3 DEF Lists
  <2>3. Distinct(bcc')
    BY <1>3 DEF Lists
  <2> QED BY <2>1, <2>2, <2>3 DEF Distinct
<1>8. Lists'
  <2>1. assigned' = (KeysOf(to) \cup KeysOf(cc) \cup KeysOf(bcc))'
    BY <1>1, <1>3, <1>5 DEF Lists
  <2>2. Apart(to, cc)' /\ Apart(to, bcc)' /\ Apart(cc, bcc)'
    BY <1>3, <1>5, <1>6 DEF Lists, Apart
  <2> QED BY <1>7, <2>1, <2>2 DEF Lists
<1>9. i' <= Len(Source') + 1
  BY <1>1, <1>3, InputsLemma, SourceLemma DEF TypeOK
<1> QED BY <1>4, <1>5, <1>8, <1>9

LEMMA AssignCcTypeLists ==
    ASSUME IInv, AssignCc
    PROVE  /\ TypeOK' /\ Lists'
           /\ KeysOf(cc)' = KeysOf(cc) \cup {Source[i].key}
           /\ KeysOf(to)' = KeysOf(to) /\ KeysOf(bcc)' = KeysOf(bcc)
           /\ i' <= Len(Source') + 1
<1> DEFINE a == Source[i]
<1>1. /\ i <= Len(Source) /\ Wanted(a) /\ i' = i + 1 /\ loop \in {"cc"}
      /\ cc' = Append(cc, a) /\ assigned' = assigned \cup {a.key}
      /\ UNCHANGED <<loop, to, bcc>> /\ UNCHANGED inputVars
  BY DEF AssignCc, Assign
<1>2. /\ a \in Addresses /\ a.key # Blank /\ a.key \notin assigned
      /\ a.key \in Keys
  <2>1. a \in Addresses
    BY <1>1, StepLemma
  <2> QED BY <1>1, <2>1 DEF Wanted, Addresses
<1>3. /\ cc \in Seq(Addresses) /\ TypeOK /\ Lists
      /\ to' = to /\ bcc' = bcc
  BY <1>1 DEF IInv, TypeOK
<1>4. TypeOK'
  <2>1. cc' \in Seq(Addresses) /\ assigned' \subseteq Keys
          /\ i' \in Nat \ {0}
    BY <1>1, <1>2, <1>3 DEF TypeOK
  <2> QED BY <1>1, <1>3, <2>1 DEF TypeOK, inputVars
<1>5. /\ KeysOf(cc)' = KeysOf(cc) \cup {a.key}
      /\ KeysOf(to)' = KeysOf(to) /\ KeysOf(bcc)' = KeysOf(bcc)
  BY <1>1, <1>2, <1>3, AppendLemma DEF KeysOf
<1>6. a.key \notin KeysOf(cc) /\ a.key \notin KeysOf(to)
        /\ a.key \notin KeysOf(bcc)
  BY <1>2, <1>3 DEF Lists
<1>7. Distinct(cc)' /\ Distinct(to)' /\ Distinct(bcc)'
  <2>1. Distinct(cc')
    BY <1>1, <1>2, <1>3, <1>6, AppendLemma DEF Lists
  <2>2. Distinct(to')
    BY <1>3 DEF Lists
  <2>3. Distinct(bcc')
    BY <1>3 DEF Lists
  <2> QED BY <2>1, <2>2, <2>3 DEF Distinct
<1>8. Lists'
  <2>1. assigned' = (KeysOf(to) \cup KeysOf(cc) \cup KeysOf(bcc))'
    BY <1>1, <1>3, <1>5 DEF Lists
  <2>2. Apart(to, cc)' /\ Apart(to, bcc)' /\ Apart(cc, bcc)'
    BY <1>3, <1>5, <1>6 DEF Lists, Apart
  <2> QED BY <1>7, <2>1, <2>2 DEF Lists
<1>9. i' <= Len(Source') + 1
  BY <1>1, <1>3, InputsLemma, SourceLemma DEF TypeOK
<1> QED BY <1>4, <1>5, <1>8, <1>9

LEMMA AssignBccTypeLists ==
    ASSUME IInv, AssignBcc
    PROVE  /\ TypeOK' /\ Lists'
           /\ KeysOf(bcc)' = KeysOf(bcc) \cup {Source[i].key}
           /\ KeysOf(to)' = KeysOf(to) /\ KeysOf(cc)' = KeysOf(cc)
           /\ i' <= Len(Source') + 1
<1> DEFINE a == Source[i]
<1>1. /\ i <= Len(Source) /\ Wanted(a) /\ i' = i + 1 /\ loop \in {"bcc"}
      /\ bcc' = Append(bcc, a) /\ assigned' = assigned \cup {a.key}
      /\ UNCHANGED <<loop, to, cc>> /\ UNCHANGED inputVars
  BY DEF AssignBcc, Assign
<1>2. /\ a \in Addresses /\ a.key # Blank /\ a.key \notin assigned
      /\ a.key \in Keys
  <2>1. a \in Addresses
    BY <1>1, StepLemma
  <2> QED BY <1>1, <2>1 DEF Wanted, Addresses
<1>3. /\ bcc \in Seq(Addresses) /\ TypeOK /\ Lists
      /\ to' = to /\ cc' = cc
  BY <1>1 DEF IInv, TypeOK
<1>4. TypeOK'
  <2>1. bcc' \in Seq(Addresses) /\ assigned' \subseteq Keys
          /\ i' \in Nat \ {0}
    BY <1>1, <1>2, <1>3 DEF TypeOK
  <2> QED BY <1>1, <1>3, <2>1 DEF TypeOK, inputVars
<1>5. /\ KeysOf(bcc)' = KeysOf(bcc) \cup {a.key}
      /\ KeysOf(to)' = KeysOf(to) /\ KeysOf(cc)' = KeysOf(cc)
  BY <1>1, <1>2, <1>3, AppendLemma DEF KeysOf
<1>6. a.key \notin KeysOf(bcc) /\ a.key \notin KeysOf(to)
        /\ a.key \notin KeysOf(cc)
  BY <1>2, <1>3 DEF Lists
<1>7. Distinct(bcc)' /\ Distinct(to)' /\ Distinct(cc)'
  <2>1. Distinct(bcc')
    BY <1>1, <1>2, <1>3, <1>6, AppendLemma DEF Lists
  <2>2. Distinct(to')
    BY <1>3 DEF Lists
  <2>3. Distinct(cc')
    BY <1>3 DEF Lists
  <2> QED BY <2>1, <2>2, <2>3 DEF Distinct
<1>8. Lists'
  <2>1. assigned' = (KeysOf(to) \cup KeysOf(cc) \cup KeysOf(bcc))'
    BY <1>1, <1>3, <1>5 DEF Lists
  <2>2. Apart(to, cc)' /\ Apart(to, bcc)' /\ Apart(cc, bcc)'
    BY <1>3, <1>5, <1>6 DEF Lists, Apart
  <2> QED BY <1>7, <2>1, <2>2 DEF Lists
<1>9. i' <= Len(Source') + 1
  BY <1>1, <1>3, InputsLemma, SourceLemma DEF TypeOK
<1> QED BY <1>4, <1>5, <1>8, <1>9

LEMMA AssignToIInv == IInv /\ AssignTo => IInv'
<1> SUFFICES ASSUME IInv, AssignTo PROVE IInv'
  OBVIOUS
<1> DEFINE a == Source[i]
<1>1. /\ i <= Len(Source) /\ Wanted(a) /\ i' = i + 1 /\ loop \in {"all", "to"}
      /\ loop' = loop /\ UNCHANGED inputVars
  BY DEF AssignTo, Assign
<1>2. /\ TypeOK' /\ Lists' /\ i' <= Len(Source') + 1
      /\ KeysOf(to)' = KeysOf(to) \cup {a.key}
      /\ KeysOf(cc)' = KeysOf(cc) /\ KeysOf(bcc)' = KeysOf(bcc)
  BY AssignToTypeLists
<1>3. /\ headerTo' = headerTo /\ envelope' = envelope
      /\ envelopeSet' = envelopeSet /\ Named' = Named
  BY <1>1, InputsLemma
<1>4. CASE loop = "all"
  <2>1. Seen(envelope, i + 1) = Seen(envelope, i) \cup {a.key}
    BY <1>1, <1>4, StepLemma
  <2>2. a.key # Blank
    BY <1>1 DEF Wanted
  <2>3. KeysOf(to)' = Seen(envelope, i + 1) \ {Blank}
    BY <1>2, <1>4, <2>1, <2>2 DEF IInv, Progress
  <2> QED BY <1>1, <1>2, <1>3, <1>4, <2>3 DEF IInv, Progress
<1>5. CASE loop = "to"
  <2>1. Seen(headerTo, i + 1) = Seen(headerTo, i) \cup {a.key}
    BY <1>1, <1>5, StepLemma
  <2>2. a.key \in envelopeSet
    BY <1>1, <1>5 DEF Wanted
  <2>3. KeysOf(to)' = envelopeSet \cap Seen(headerTo, i + 1)
    BY <1>2, <1>5, <2>1, <2>2 DEF IInv, Progress
  <2> QED BY <1>1, <1>2, <1>3, <1>5, <2>3 DEF IInv, Progress
<1> QED BY <1>1, <1>4, <1>5

LEMMA AssignCcIInv == IInv /\ AssignCc => IInv'
<1> SUFFICES ASSUME IInv, AssignCc PROVE IInv'
  OBVIOUS
<1> DEFINE a == Source[i]
<1>1. /\ i <= Len(Source) /\ Wanted(a) /\ i' = i + 1 /\ loop = "cc"
      /\ loop' = loop /\ UNCHANGED inputVars
  BY DEF AssignCc, Assign
<1>2. /\ TypeOK' /\ Lists' /\ i' <= Len(Source') + 1
      /\ KeysOf(cc)' = KeysOf(cc) \cup {a.key}
      /\ KeysOf(to)' = KeysOf(to) /\ KeysOf(bcc)' = KeysOf(bcc)
  BY AssignCcTypeLists
<1>3. /\ headerCc' = headerCc /\ KeysOf(headerTo)' = KeysOf(headerTo)
      /\ envelopeSet' = envelopeSet /\ Named' = Named
  BY <1>1, InputsLemma
<1>4. ToDone'
  BY <1>1, <1>2, <1>3 DEF IInv, Progress, ToDone
<1>5. Seen(headerCc, i + 1) = Seen(headerCc, i) \cup {a.key}
  BY <1>1, StepLemma
<1>6. a.key \in envelopeSet /\ a.key \notin KeysOf(headerTo)
  BY <1>1 DEF IInv, Progress, ToDone, Lists, Wanted
<1>7. KeysOf(cc)' = (envelopeSet \cap Seen(headerCc, i + 1)) \ KeysOf(headerTo)
  BY <1>1, <1>2, <1>5, <1>6 DEF IInv, Progress
<1> QED BY <1>1, <1>2, <1>3, <1>4, <1>7 DEF IInv, Progress

LEMMA AssignBccIInv == IInv /\ AssignBcc => IInv'
<1> SUFFICES ASSUME IInv, AssignBcc PROVE IInv'
  OBVIOUS
<1> DEFINE a == Source[i]
<1>1. /\ i <= Len(Source) /\ Wanted(a) /\ i' = i + 1 /\ loop = "bcc"
      /\ loop' = loop /\ UNCHANGED inputVars
  BY DEF AssignBcc, Assign
<1>2. /\ TypeOK' /\ Lists' /\ i' <= Len(Source') + 1
      /\ KeysOf(bcc)' = KeysOf(bcc) \cup {a.key}
      /\ KeysOf(to)' = KeysOf(to) /\ KeysOf(cc)' = KeysOf(cc)
  BY AssignBccTypeLists
<1>3. /\ KeysOf(headerCc)' = KeysOf(headerCc)
      /\ KeysOf(headerTo)' = KeysOf(headerTo) /\ envelope' = envelope
      /\ envelopeSet' = envelopeSet /\ Named' = Named
  BY <1>1, InputsLemma
<1>4. ToDone' /\ CcDone'
  BY <1>1, <1>2, <1>3 DEF IInv, Progress, ToDone, CcDone
<1>5. Seen(envelope, i + 1) = Seen(envelope, i) \cup {a.key}
  BY <1>1, StepLemma
<1>6. a.key \in envelopeSet
  BY <1>1, StepLemma DEF Wanted, envelopeSet
<1>7. a.key # Blank /\ a.key \notin KeysOf(headerTo) \cup KeysOf(headerCc)
  BY <1>1, <1>6 DEF IInv, Progress, ToDone, CcDone, Lists, Wanted
<1>8. KeysOf(bcc)' = (Seen(envelope, i + 1) \ {Blank})
                        \ (KeysOf(headerTo) \cup KeysOf(headerCc))
  BY <1>1, <1>2, <1>5, <1>7 DEF IInv, Progress
<1> QED BY <1>1, <1>2, <1>3, <1>4, <1>8 DEF IInv, Progress

(* A loop that has gone through its source leaves to the next one what its *)
(* own conjunct of Progress says of the whole source.                      *)
LEMMA NextLoopIInv == IInv /\ NextLoop => IInv'
<1> SUFFICES ASSUME IInv, NextLoop PROVE IInv'
  OBVIOUS
<1>1. /\ loop # "done" /\ i > Len(Source) /\ loop' = After[loop] /\ i' = 1
      /\ assigned' = assigned /\ to' = to /\ cc' = cc /\ bcc' = bcc
      /\ UNCHANGED inputVars
      /\ TypeOK /\ Lists
  BY DEF NextLoop, IInv
<1>2. /\ loop \in {"all", "to", "cc", "bcc"}
      /\ loop = "all" => loop' = "done"
      /\ loop = "to"  => loop' = "cc"
      /\ loop = "cc"  => loop' = "bcc"
      /\ loop = "bcc" => loop' = "done"
  BY <1>1 DEF After, TypeOK
<1>3. TypeOK'
  BY <1>1, <1>2 DEF TypeOK, inputVars
<1>4. /\ KeysOf(to)' = KeysOf(to) /\ KeysOf(cc)' = KeysOf(cc)
      /\ KeysOf(bcc)' = KeysOf(bcc)
  BY <1>1 DEF KeysOf
<1>5. Lists'
  <2>1. /\ Distinct(to)' /\ Distinct(cc)' /\ Distinct(bcc)'
    BY <1>1 DEF Lists, Distinct
  <2> QED BY <1>1, <1>4, <2>1 DEF Lists, Apart
<1>6. /\ headerTo' = headerTo /\ headerCc' = headerCc /\ envelope' = envelope
      /\ envelopeSet' = envelopeSet /\ Named' = Named
      /\ KeysOf(headerTo)' = KeysOf(headerTo)
      /\ KeysOf(headerCc)' = KeysOf(headerCc)
  BY <1>1, InputsLemma
<1>7. /\ headerTo \in Seq(Addresses) /\ headerCc \in Seq(Addresses)
      /\ envelope \in Seq(Addresses) /\ Source \in Seq(Addresses)
      /\ i \in Nat \ {0}
  BY <1>1, SourceLemma DEF TypeOK
<1>8. /\ Seen(Source, i) = KeysOf(Source)
      /\ Seen(headerTo, 1) = {} /\ Seen(headerCc, 1) = {} /\ Seen(envelope, 1) = {}
  BY <1>1, <1>7, SeenLemma
<1>9. i' <= Len(Source') + 1
  <2>1. Source' \in Seq(Addresses)
    BY <1>3, SourceLemma DEF Source, headerTo, headerCc, headerAddresses, TypeOK,
         Fields
  <2> QED BY <1>1, <2>1
<1>10. CASE loop = "all"
  <2>1. Source = envelope
    BY <1>10 DEF Source
  <2>2. KeysOf(to) = envelopeSet
    BY <1>8, <1>10, <2>1 DEF IInv, Progress, envelopeSet
  <2> QED BY <1>2, <1>3, <1>4, <1>5, <1>6, <1>9, <1>10, <2>2 DEF IInv, Progress
<1>11. CASE loop = "to"
  <2>1. Source = headerTo
    BY <1>11 DEF Source
  <2>2. ToDone'
    BY <1>4, <1>6, <1>8, <1>11, <2>1 DEF IInv, Progress, ToDone
  <2>3. KeysOf(cc)' = {} /\ KeysOf(bcc)' = {} /\ Named'
    BY <1>4, <1>6, <1>11 DEF IInv, Progress
  <2>4. Seen(headerCc', i') = {}
    BY <1>1, <1>6, <1>8
  <2> QED BY <1>2, <1>3, <1>5, <1>9, <1>11, <2>2, <2>3, <2>4 DEF IInv, Progress
<1>12. CASE loop = "cc"
  <2>1. Source = headerCc
    BY <1>12 DEF Source
  <2>2. ToDone' /\ CcDone'
    BY <1>4, <1>6, <1>8, <1>12, <2>1 DEF IInv, Progress, ToDone, CcDone
  <2>3. KeysOf(bcc)' = {} /\ Named'
    BY <1>4, <1>6, <1>12 DEF IInv, Progress
  <2>4. Seen(envelope', i') = {}
    BY <1>1, <1>6, <1>8
  <2> QED BY <1>2, <1>3, <1>5, <1>9, <1>12, <2>2, <2>3, <2>4 DEF IInv, Progress
<1>13. CASE loop = "bcc"
  <2>1. Source = envelope
    BY <1>13 DEF Source
  <2>2. ToDone' /\ CcDone' /\ Named'
    BY <1>4, <1>6, <1>13 DEF IInv, Progress, ToDone, CcDone
  <2>3. KeysOf(bcc)' = (envelopeSet \ (KeysOf(headerTo) \cup KeysOf(headerCc)))'
    BY <1>4, <1>6, <1>8, <1>13, <2>1 DEF IInv, Progress, envelopeSet
  <2> QED BY <1>2, <1>3, <1>5, <1>9, <1>13, <2>2, <2>3 DEF IInv, Progress
<1> QED BY <1>2, <1>10, <1>11, <1>12, <1>13

LEMMA NextIInv == IInv /\ [Next]_vars => IInv'
<1> SUFFICES ASSUME IInv, [Next]_vars PROVE IInv'
  OBVIOUS
<1>1. CASE Next
  BY <1>1, SkipIInv, AssignToIInv, AssignCcIInv, AssignBccIInv, NextLoopIInv
     DEF Next
<1>2. CASE UNCHANGED vars
  <2>1. /\ UNCHANGED inputVars /\ loop' = loop /\ i' = i
        /\ assigned' = assigned /\ to' = to /\ cc' = cc /\ bcc' = bcc
        /\ TypeOK /\ Lists /\ Progress
    BY <1>2 DEF vars, IInv
  <2>2. TypeOK'
    BY <2>1 DEF TypeOK, inputVars
  <2>3. /\ KeysOf(to)' = KeysOf(to) /\ KeysOf(cc)' = KeysOf(cc)
        /\ KeysOf(bcc)' = KeysOf(bcc)
    BY <2>1 DEF KeysOf
  <2>4. Distinct(to)' /\ Distinct(cc)' /\ Distinct(bcc)'
    BY <2>1 DEF Lists, Distinct
  <2>5. Lists'
    BY <2>1, <2>3, <2>4 DEF Lists, Apart
  <2>6. /\ headerTo' = headerTo /\ headerCc' = headerCc /\ envelope' = envelope
        /\ envelopeSet' = envelopeSet /\ Named' = Named /\ Source' = Source
        /\ KeysOf(headerTo)' = KeysOf(headerTo)
        /\ KeysOf(headerCc)' = KeysOf(headerCc)
    BY <2>1, InputsLemma
  <2>7. (ToDone' <=> ToDone) /\ (CcDone' <=> CcDone)
    BY <2>3, <2>6 DEF ToDone, CcDone
  <2>8. Progress'
    BY <2>1, <2>3, <2>6, <2>7 DEF Progress
  <2> QED BY <2>2, <2>5, <2>8 DEF IInv
<1> QED BY <1>1, <1>2

LEMMA Invariance == Spec => []IInv
<1>1. Init => IInv
  BY InitIInv
<1>2. IInv /\ [Next]_vars => IInv'
  BY NextIInv
<1> QED BY <1>1, <1>2, PTL DEF Spec

-----------------------------------------------------------------------------
(* The split only holds addresses of the message and of the envelope, in   *)
(* one of its five loops.                                                  *)
THEOREM TypeCorrect == Spec => []TypeOK
<1>1. IInv => TypeOK
  BY DEF IInv
<1> QED BY <1>1, Invariance, PTL

(* splitRecipients delivers to nobody twice and to nobody outside the      *)
(* envelope, at every step of its loops.                                   *)
THEOREM SplitSound == Spec => []NoStrangersNoDuplicates
<1>1. IInv => NoStrangersNoDuplicates
  <2> SUFFICES ASSUME IInv PROVE NoStrangersNoDuplicates
    OBVIOUS
  <2>1. TypeOK /\ Lists /\ Progress
    BY DEF IInv
  <2>2. /\ envelope \in Seq(Addresses) /\ i \in Nat \ {0}
        /\ loop \in {"all", "to", "cc", "bcc", "done"}
    BY <2>1 DEF TypeOK
  <2>3. Seen(envelope, i) \ {Blank} \subseteq envelopeSet
    BY <2>2, SeenLemma DEF envelopeSet
  <2>4. KeysOf(to) \cup KeysOf(cc) \cup KeysOf(bcc) \subseteq envelopeSet
    BY <2>1, <2>2, <2>3 DEF Progress, ToDone, CcDone
  <2> QED BY <2>1, <2>4 DEF NoStrangersNoDuplicates, Lists
<1> QED BY <1>1, Invariance, PTL

(* A blind recipient is never written where the others see it, when the    *)
(* message names anybody.                                                  *)
THEOREM BlindCorrect == Spec => []BlindStaysBlind
<1>1. IInv => BlindStaysBlind
  <2> SUFFICES ASSUME IInv, Named
               PROVE  /\ KeysOf(to) \subseteq KeysOf(headerTo)
                      /\ KeysOf(cc) \subseteq KeysOf(headerCc)
    BY DEF BlindStaysBlind
  <2>1. TypeOK /\ Progress /\ i \in Nat \ {0}
        /\ loop \in {"all", "to", "cc", "bcc", "done"}
    BY DEF IInv, TypeOK
  <2>2. headerTo \in Seq(Addresses) /\ headerCc \in Seq(Addresses)
    BY <2>1, SourceLemma
  <2>3. /\ Seen(headerTo, i) \subseteq KeysOf(headerTo)
        /\ Seen(headerCc, i) \subseteq KeysOf(headerCc)
    BY <2>1, <2>2, SeenLemma
  <2> QED BY <2>1, <2>3 DEF Progress, ToDone, CcDone
<1> QED BY <1>1, Invariance, PTL

(* The three loops compute the partition their comment describes.          *)
THEOREM SplitCorrect == Spec => []SplitAsDocumented
<1>1. IInv => SplitAsDocumented
  BY DEF IInv, Progress, ToDone, CcDone, SplitAsDocumented
<1> QED BY <1>1, Invariance, PTL
=============================================================================
