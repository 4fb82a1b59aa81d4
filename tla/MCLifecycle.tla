----------------------------- MODULE MCLifecycle -----------------------------
(* The relay with two connections at its production deadlines, in units of *)
(* 10 s: a Send takes up to 3 (30 s), the grace is 2 (20 s), so that a     *)
(* Send may or may not end within it.                                      *)
EXTENDS Lifecycle
=============================================================================
