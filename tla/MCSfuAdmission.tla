--------------------------- MODULE MCSfuAdmission ---------------------------
(* Two rooms, two generations each, two connections per publication.  The  *)
(* capacities are below what the fences could hold, so both limits bite.   *)
EXTENDS SfuAdmission, TLC

Symmetry ==
  Permutations(Rooms) \cup Permutations(Generations) \cup Permutations(Connections)
=============================================================================
