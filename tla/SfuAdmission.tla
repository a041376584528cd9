---------------------------- MODULE SfuAdmission ----------------------------
(***************************************************************************)
(* The SFU admission ledger of the signaling server                        *)
(* (internal/server/sfu/admission.go).  It charges one ingress unit per    *)
(* publication and one egress unit per subscription, from the reservation  *)
(* until the physical retirement is confirmed.  The signaling server calls *)
(* it under its mutex, so every operation is one step.  A refused call     *)
(* changes nothing and is no step of its own: its condition is the         *)
(* negation of the Can... operator the caller tests.                       *)
(***************************************************************************)
EXTENDS Integers, FiniteSets

CONSTANTS Rooms,            \* room IDs
          Generations,      \* publication generations, within one room share
          Connections,      \* (viewer, connection) pairs of a subscription
          IngressCapacity,  \* publications the server may hold
          EgressCapacity    \* subscriptions the server may hold

ASSUME AdmissionAssumption ==
  /\ IsFiniteSet(Rooms) /\ IsFiniteSet(Generations) /\ IsFiniteSet(Connections)
  /\ IngressCapacity \in Nat \ {0}
  /\ EgressCapacity \in Nat \ {0}

ResourceFence == Rooms \X Generations
SubscriptionFence == ResourceFence \X Connections

RoomOf(f) == f[1]
PublicationOf(s) == s[1]

States == {"absent", "reserved", "committed", "draining"}

VARIABLES publication,    \* ledger entry of each publication fence
          subscription,   \* ledger entry of each subscription fence
          ingressInUse,   \* the two counters the capacity tests read
          egressInUse

admissionVars == <<publication, subscription, ingressInUse, egressInUse>>

Live(state) == state \in {"reserved", "committed"}
SubscriptionsOf(f) ==
  {s \in SubscriptionFence : PublicationOf(s) = f /\ subscription[s] # "absent"}

HasPublication(f) == Live(publication[f])
HasSubscription(s) == Live(publication[PublicationOf(s)]) /\ Live(subscription[s])

-----------------------------------------------------------------------------
AdmissionInit ==
  /\ publication = [f \in ResourceFence |-> "absent"]
  /\ subscription = [s \in SubscriptionFence |-> "absent"]
  /\ ingressInUse = 0
  /\ egressInUse = 0

CanReservePublication(f) ==
  /\ ingressInUse < IngressCapacity
  /\ \A g \in ResourceFence : RoomOf(g) = RoomOf(f) => publication[g] # "reserved"

\* A repeated reservation of a live fence is accepted and changes nothing.
ReservePublication(f) ==
  /\ publication[f] = "absent"
  /\ CanReservePublication(f)
  /\ publication' = [publication EXCEPT ![f] = "reserved"]
  /\ ingressInUse' = ingressInUse + 1
  /\ UNCHANGED <<subscription, egressInUse>>

\* Mutant: the capacity test is off by one.
CanReserveOneTooMany(s) ==
  /\ Live(publication[PublicationOf(s)])
  /\ egressInUse <= EgressCapacity

CanReserveSubscription(s) ==
  /\ Live(publication[PublicationOf(s)])
  /\ egressInUse < EgressCapacity

ReserveSubscription(s) ==
  /\ subscription[s] = "absent"
  /\ CanReserveSubscription(s)
  /\ subscription' = [subscription EXCEPT ![s] = "reserved"]
  /\ egressInUse' = egressInUse + 1
  /\ UNCHANGED <<publication, ingressInUse>>

\* The older committed publications of the room, which a commit retires.
Displaced(f) ==
  {g \in ResourceFence : RoomOf(g) = RoomOf(f) /\ g # f /\ publication[g] = "committed"}

CanCommitPublication(f) ==
  /\ publication[f] = "reserved"
  /\ \E s \in SubscriptionsOf(f) : subscription[s] = "reserved"

CommitPublication(f) ==
  /\ CanCommitPublication(f)
  /\ publication' = [g \in ResourceFence |->
       IF g = f THEN "committed" ELSE IF g \in Displaced(f) THEN "draining" ELSE publication[g]]
  /\ subscription' = [s \in SubscriptionFence |->
       IF PublicationOf(s) \in Displaced(f) /\ subscription[s] # "absent" THEN "draining"
       ELSE IF PublicationOf(s) = f /\ subscription[s] = "reserved" THEN "committed"
       ELSE subscription[s]]
  /\ UNCHANGED <<ingressInUse, egressInUse>>

CommitSubscription(s) ==
  /\ publication[PublicationOf(s)] = "committed"
  /\ subscription[s] = "reserved"
  /\ subscription' = [subscription EXCEPT ![s] = "committed"]
  /\ UNCHANGED <<publication, ingressInUse, egressInUse>>

\* markDraining over a set of publications: each with all its subscriptions.
MarkDraining(S) ==
  /\ publication' = [f \in ResourceFence |-> IF f \in S THEN "draining" ELSE publication[f]]
  /\ subscription' = [s \in SubscriptionFence |->
       IF PublicationOf(s) \in S /\ subscription[s] # "absent" THEN "draining" ELSE subscription[s]]
  /\ UNCHANGED <<ingressInUse, egressInUse>>

PublicationsOf(r) == {f \in ResourceFence : RoomOf(f) = r /\ publication[f] # "absent"}

BeginSubscriptionDrain(s) ==
  /\ subscription[s] # "absent"
  /\ subscription' = [subscription EXCEPT ![s] = "draining"]
  /\ UNCHANGED <<publication, ingressInUse, egressInUse>>

BeginDrain(f) == publication[f] # "absent" /\ MarkDraining({f})

BeginDrainRoom(r) == PublicationsOf(r) # {} /\ MarkDraining(PublicationsOf(r))

BeginDrainAll == MarkDraining({f \in ResourceFence : publication[f] # "absent"})

CompleteSubscriptionDrain(s) ==
  /\ subscription[s] = "draining"
  /\ subscription' = [subscription EXCEPT ![s] = "absent"]
  /\ egressInUse' = egressInUse - 1
  /\ UNCHANGED <<publication, ingressInUse>>

\* Mutant: the subscriptions go, the egress they were charged stays.
CompleteDrainKeepsEgress(f) ==
  /\ publication[f] = "draining"
  /\ publication' = [publication EXCEPT ![f] = "absent"]
  /\ subscription' = [s \in SubscriptionFence |->
       IF PublicationOf(s) = f THEN "absent" ELSE subscription[s]]
  /\ ingressInUse' = ingressInUse - 1
  /\ UNCHANGED egressInUse

\* Retiring a publication also settles every subscription still charged to it.
CompleteDrain(f) ==
  /\ publication[f] = "draining"
  /\ publication' = [publication EXCEPT ![f] = "absent"]
  /\ subscription' = [s \in SubscriptionFence |->
       IF PublicationOf(s) = f THEN "absent" ELSE subscription[s]]
  /\ ingressInUse' = ingressInUse - 1
  /\ egressInUse' = egressInUse - Cardinality(SubscriptionsOf(f))

AdmissionNext ==
  \/ \E f \in ResourceFence :
       ReservePublication(f) \/ CommitPublication(f) \/ BeginDrain(f) \/ CompleteDrain(f)
  \/ \E s \in SubscriptionFence :
       ReserveSubscription(s) \/ CommitSubscription(s)
         \/ BeginSubscriptionDrain(s) \/ CompleteSubscriptionDrain(s)
  \/ \E r \in Rooms : BeginDrainRoom(r)
  \/ BeginDrainAll

AdmissionSpec == AdmissionInit /\ [][AdmissionNext]_admissionVars

-----------------------------------------------------------------------------
AdmissionTypeOK ==
  /\ publication \in [ResourceFence -> States]
  /\ subscription \in [SubscriptionFence -> States]
  /\ ingressInUse \in Nat
  /\ egressInUse \in Nat

ChargedPublications == {f \in ResourceFence : publication[f] # "absent"}
ChargedSubscriptions == {s \in SubscriptionFence : subscription[s] # "absent"}

(* The two counters the capacity tests read never drift from the ledger    *)
(* itself, whatever the order of single drains, room drains and completed  *)
(* publication drains that settle several subscriptions at once.           *)
ExactAccounting ==
  /\ ingressInUse = Cardinality(ChargedPublications)
  /\ egressInUse = Cardinality(ChargedSubscriptions)

(* assertNoUnderflow never panics, and the physical bound is kept.         *)
WithinCapacity ==
  /\ ingressInUse \in 0..IngressCapacity
  /\ egressInUse \in 0..EgressCapacity

(* A subscription never outlives its publication, is not in service before *)
(* its publication is, and retires with it.                                *)
SubscriptionFollowsPublication ==
  \A s \in SubscriptionFence : LET p == publication[PublicationOf(s)] IN
    /\ p = "absent" => subscription[s] = "absent"
    /\ subscription[s] = "committed" => p = "committed"
    /\ p = "draining" => ~Live(subscription[s])

(* One room has at most one publication in service and one in preparation, *)
(* so a room cannot take two shares' worth of the server.                  *)
OneServingPublication ==
  \A f, g \in ResourceFence :
    RoomOf(f) = RoomOf(g) /\ Live(publication[f]) /\ publication[f] = publication[g] => f = g

(* The four together: the counters are the ledger's, and no entry is used  *)
(* beyond its capacity, its publication or its room's turn.                *)
LedgerSafety ==
  ExactAccounting /\ WithinCapacity /\ SubscriptionFollowsPublication /\ OneServingPublication

(* What is being retired never returns to service, and nothing in service  *)
(* is dropped without having been retired: capacity stays charged until    *)
(* the retirement is confirmed.                                            *)
OutsideService(before, after) ==
  /\ before = "draining" => after \in {"draining", "absent"}
  /\ after = "absent" => before \in {"draining", "absent"}
RetireStep ==
  /\ \A f \in ResourceFence : OutsideService(publication[f], publication'[f])
  /\ \A s \in SubscriptionFence : OutsideService(subscription[s], subscription'[s])
RetireBeforeFree == [][RetireStep]_admissionVars

(* Each half of the ledger is a pool of its capacity.                      *)
Ingress == INSTANCE ChargedPool WITH
  Units <- ResourceFence, Capacity <- IngressCapacity,
  charged <- ChargedPublications,
  retiring <- {f \in ResourceFence : publication[f] = "draining"}

Egress == INSTANCE ChargedPool WITH
  Units <- SubscriptionFence, Capacity <- EgressCapacity,
  charged <- ChargedSubscriptions,
  retiring <- {s \in SubscriptionFence : subscription[s] = "draining"}

(* The ledger implements the ingress pool.                                 *)
IngressPool == Ingress!Spec
(* The ledger implements the egress pool: no unit is freed unretired, also *)
(* by a publication drain that settles many subscriptions in one step.     *)
EgressPool == Egress!Spec
=============================================================================
