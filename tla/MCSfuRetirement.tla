--------------------------- MODULE MCSfuRetirement ---------------------------
(* Instances of SfuRetirement for TLC: one room is enough for the order of *)
(* drains and closes, which never relate two rooms.                        *)
EXTENDS SfuRetirement
=============================================================================
