---------------------------- MODULE ChargedPool ----------------------------
(***************************************************************************)
(* What an admission ledger promises, and nothing of how it keeps it: a    *)
(* pool of Capacity units.  A unit is charged when it is acquired, must be *)
(* retired before it is freed, and once retiring never serves again.       *)
(***************************************************************************)
EXTENDS Naturals, FiniteSets

CONSTANTS Units,     \* everything that may ever hold a unit of the pool
          Capacity   \* how many may hold one at a time

VARIABLES charged,   \* units that hold capacity
          retiring   \* charged units that are on their way out

poolVars == <<charged, retiring>>

Init == charged = {} /\ retiring = {}

Acquire(u) ==
  /\ u \notin charged
  /\ Cardinality(charged) < Capacity
  /\ charged' = charged \cup {u}
  /\ UNCHANGED retiring

Retire(S) ==
  /\ S \subseteq charged
  /\ retiring' = retiring \cup S
  /\ UNCHANGED charged

Free(S) ==
  /\ S \subseteq retiring
  /\ charged' = charged \ S
  /\ retiring' = retiring \ S

Next ==
  \/ \E u \in Units : Acquire(u)
  \/ \E S \in SUBSET Units : Retire(S)
  \/ \E S \in SUBSET Units : Free(S)

Spec == Init /\ [][Next]_poolVars
=============================================================================
