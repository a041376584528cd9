----------------------------- MODULE MCSignalLink -----------------------------
(* Finite instances of SignalLink. *)
EXTENDS SignalLink
=============================================================================
