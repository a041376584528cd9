--------------------------- MODULE MCHostPublication ---------------------------
(* Finite instances of HostPublication. *)
EXTENDS HostPublication
=============================================================================
