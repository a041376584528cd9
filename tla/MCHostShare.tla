----------------------------- MODULE MCHostShare -----------------------------
(* Finite instances of HostShare. *)
EXTENDS HostShare
=============================================================================
