------------------------------ MODULE MCPeerLink ------------------------------
(* Finite instances of PeerLink. *)
EXTENDS PeerLink
=============================================================================
