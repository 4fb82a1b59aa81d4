------------------------------- MODULE MCRelay -------------------------------
(* Two connections, so that a Send whose client has left overlaps with the *)
(* next submission; two requests a Send, two submissions, one restart; a   *)
(* Send that may outlast the grace, in units of 20 s.                      *)
EXTENDS Relay
=============================================================================
