----------------------------- MODULE MCRecipients -----------------------------
(* Envelopes of up to 3 addresses, blank ones and repeated ones in another *)
(* spelling included, and header fields of up to 2, absent, malformed and  *)
(* empty ones included: an address can be in To, in Cc, in both, in none,  *)
(* and twice in each.                                                      *)
EXTENDS Recipients

CONSTANTS ann, bob, cyd

Addr(key, spelling) == [key |-> key, spelling |-> spelling]

MCAddresses == {Addr(ann, 1), Addr(ann, 2), Addr(bob, 1), Addr(cyd, 1)}

SeqsUpTo(S, n) == UNION {[1..k -> S] : k \in 0..n}

MCKeys         == {ann, bob, cyd}
MCHeaderFields == {Absent, Malformed} \cup {List(s) : s \in SeqsUpTo(MCAddresses, 2)}
MCEnvelopes    == SeqsUpTo(MCAddresses \cup {Addr(Blank, 1)}, 3)
=============================================================================
