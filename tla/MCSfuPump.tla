------------------------------ MODULE MCSfuPump ------------------------------
(* Instances of SfuPump for TLC.  Rooms enter an ordered waiter set, so only *)
(* the opaque identities are symmetric.                                      *)
EXTENDS SfuPump, TLC

Symmetry == Permutations(Generations) \cup Permutations(Connections)

(* Liveness cannot use Symmetry, so the same reduction is made by hand: a new *)
(* publication takes the first identity that is free, and its first viewer   *)
(* comes over the first connection.                                          *)
IdentitiesInOrder ==
  /\ \A r \in Rooms :
       LET free == {f \in ResourceFence : RoomOf(f) = r /\ Unnamed(f)} IN
       \A f \in free : publication'[f] # "absent" => f = CHOOSE g \in free : TRUE
  /\ \A s \in SubscriptionFence :
       publication[PublicationOf(s)] = "absent" /\ subscription'[s] # "absent" =>
         s[2] = CHOOSE c \in Connections : TRUE

(* One of the rooms is only there to compete: it stays open, one Viewer at a *)
(* time uses its publication, and a candidate that fails is not retried.     *)
Rival == CHOOSE r \in Rooms : TRUE
RivalIsSimple ==
  /\ share[Rival] => share'[Rival]
  /\ hostPublication[Rival] # NoFence => ~wants'[Rival]
  /\ current[Rival] # None /\ current'[Rival] = None => ~wants'[Rival]

(* A deadline fires on a room that waits or has a candidate in flight; the   *)
(* wider instance lets it fire in the middle of a pump too.                  *)
NoEarlyDeadline ==
  \A r \in Rooms : wants[r] /\ ~wants'[r] => Waiting(r) \/ current[r] # None \/ ~share'[r]

DuelSpec ==
  Init /\ [][Next /\ IdentitiesInOrder /\ RivalIsSimple /\ NoEarlyDeadline]_vars /\ Fairness
=============================================================================
