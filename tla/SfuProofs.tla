------------------------------- MODULE SfuProofs -------------------------------
(***************************************************************************)
(* Proofs about the SFU's capacity: the admission ledger by itself, the    *)
(* ledger as the route pumps drive it, and the ledger as the drain tasks   *)
(* free it again.  Every number of rooms, publications and connections is  *)
(* covered, and all capacities.                                            *)
(***************************************************************************)
EXTENDS SfuPump, SfuRetirement, FiniteSetTheorems, TLAPS

\* The ledger by itself.

(* The inductive invariant: types, the shape of the ledger, the accounting *)
(* and the bounds.  Accounting is needed for the bounds (a counter is only *)
(* known not to underflow because it counts something), and the shape is   *)
(* needed for CompleteDrain, which settles subscriptions by the number it  *)
(* finds.                                                                  *)
LedgerInv ==
  /\ AdmissionTypeOK
  /\ ExactAccounting
  /\ WithinCapacity
  /\ SubscriptionFollowsPublication
  /\ OneServingPublication

(* The fences are finite sets, so their subsets can be counted.            *)
LEMMA FencesFinite ==
  /\ IsFiniteSet(ResourceFence)
  /\ IsFiniteSet(SubscriptionFence)
<1>1. IsFiniteSet(ResourceFence)
  BY AdmissionAssumption, FS_Product DEF ResourceFence
<1>2. IsFiniteSet(SubscriptionFence)
  BY <1>1, AdmissionAssumption, FS_Product DEF SubscriptionFence
<1> QED BY <1>1, <1>2

(* Projections of a fence stay inside their sets.                          *)
LEMMA FenceParts ==
  /\ \A f \in ResourceFence : RoomOf(f) \in Rooms
  /\ \A s \in SubscriptionFence : PublicationOf(s) \in ResourceFence
BY DEF ResourceFence, SubscriptionFence, RoomOf, PublicationOf

(* What is charged is a finite set.                                        *)
LEMMA ChargedFinite ==
  /\ IsFiniteSet(ChargedPublications)
  /\ IsFiniteSet(ChargedSubscriptions)
  /\ \A f : IsFiniteSet(SubscriptionsOf(f)) /\ SubscriptionsOf(f) \subseteq ChargedSubscriptions
BY FencesFinite, FS_Subset DEF ChargedPublications, ChargedSubscriptions, SubscriptionsOf

(* The ledger starts empty.                                                *)
LEMMA InitLedger == AdmissionInit => LedgerInv
<1> SUFFICES ASSUME AdmissionInit PROVE LedgerInv
  OBVIOUS
<1>1. AdmissionTypeOK
  BY DEF AdmissionInit, AdmissionTypeOK, States
<1>2. ChargedPublications = {} /\ ChargedSubscriptions = {}
  BY DEF AdmissionInit, ChargedPublications, ChargedSubscriptions
<1>3. ExactAccounting
  BY <1>2, FS_EmptySet DEF AdmissionInit, ExactAccounting
<1>4. WithinCapacity
  BY AdmissionAssumption DEF AdmissionInit, WithinCapacity
<1>5. SubscriptionFollowsPublication /\ OneServingPublication
  BY FenceParts DEF AdmissionInit, SubscriptionFollowsPublication, OneServingPublication, Live
<1> QED BY <1>1, <1>3, <1>4, <1>5 DEF LedgerInv

(* A step that charges nothing new and frees nothing keeps both counters.  *)
LEMMA SameCharge ==
  ASSUME LedgerInv,
         UNCHANGED <<ingressInUse, egressInUse>>,
         ChargedPublications' = ChargedPublications,
         ChargedSubscriptions' = ChargedSubscriptions
  PROVE  ExactAccounting' /\ WithinCapacity'
BY DEF LedgerInv, ExactAccounting, WithinCapacity

(* Reserving a publication charges exactly one ingress unit.               *)
LEMMA StepReservePublication ==
  ASSUME LedgerInv, NEW f \in ResourceFence, ReservePublication(f)
  PROVE  LedgerInv'
<1> USE DEF LedgerInv, ReservePublication, CanReservePublication
<1>1. AdmissionTypeOK'
  BY DEF AdmissionTypeOK, States
<1>2. ChargedPublications' = ChargedPublications \cup {f} /\ f \notin ChargedPublications
  BY DEF AdmissionTypeOK, ChargedPublications
<1>3. ChargedSubscriptions' = ChargedSubscriptions
  BY DEF ChargedSubscriptions
<1>4. ExactAccounting'
  BY <1>2, <1>3, ChargedFinite, FS_AddElement DEF ExactAccounting, AdmissionTypeOK
<1>5. WithinCapacity'
  BY AdmissionAssumption DEF WithinCapacity
<1>6. SubscriptionFollowsPublication'
  BY FenceParts DEF AdmissionTypeOK, SubscriptionFollowsPublication, Live
<1>7. OneServingPublication'
  BY DEF AdmissionTypeOK, OneServingPublication, Live
<1> QED BY <1>1, <1>4, <1>5, <1>6, <1>7

(* Reserving a subscription charges exactly one egress unit.               *)
LEMMA StepReserveSubscription ==
  ASSUME LedgerInv, NEW s \in SubscriptionFence, ReserveSubscription(s)
  PROVE  LedgerInv'
<1> USE DEF LedgerInv, ReserveSubscription, CanReserveSubscription
<1>1. AdmissionTypeOK'
  BY DEF AdmissionTypeOK, States
<1>2. ChargedSubscriptions' = ChargedSubscriptions \cup {s} /\ s \notin ChargedSubscriptions
  BY DEF AdmissionTypeOK, ChargedSubscriptions
<1>3. ChargedPublications' = ChargedPublications
  BY DEF ChargedPublications
<1>4. ExactAccounting'
  BY <1>2, <1>3, ChargedFinite, FS_AddElement DEF ExactAccounting, AdmissionTypeOK
<1>5. WithinCapacity'
  BY AdmissionAssumption DEF WithinCapacity
<1>6. SubscriptionFollowsPublication'
  BY FenceParts DEF AdmissionTypeOK, SubscriptionFollowsPublication, Live
<1>7. OneServingPublication'
  BY DEF OneServingPublication
<1> QED BY <1>1, <1>4, <1>5, <1>6, <1>7

(* Committing moves entries between live states and retires the room's     *)
(* older publication; nothing is charged or freed.                         *)
LEMMA StepCommitPublication ==
  ASSUME LedgerInv, NEW f \in ResourceFence, CommitPublication(f)
  PROVE  LedgerInv'
<1> USE DEF LedgerInv, CommitPublication, CanCommitPublication
<1>1. AdmissionTypeOK'
  BY DEF AdmissionTypeOK, States
<1>2. ChargedPublications' = ChargedPublications
  BY DEF AdmissionTypeOK, ChargedPublications, Displaced
<1>3. ChargedSubscriptions' = ChargedSubscriptions
  BY DEF AdmissionTypeOK, ChargedSubscriptions
<1>4. SubscriptionFollowsPublication'
  <2> SUFFICES ASSUME NEW s \in SubscriptionFence
               PROVE  LET p == publication[PublicationOf(s)] IN
                        (/\ p = "absent" => subscription[s] = "absent"
                         /\ subscription[s] = "committed" => p = "committed"
                         /\ p = "draining" => ~Live(subscription[s]))'
    BY DEF SubscriptionFollowsPublication
  <2>1. PublicationOf(s) \in ResourceFence
    BY FenceParts
  <2>2. subscription[s] \in States /\ publication[PublicationOf(s)] \in States
    BY <2>1 DEF AdmissionTypeOK
  <2> QED BY <2>1, <2>2 DEF SubscriptionFollowsPublication, Live, Displaced, States
<1>5. OneServingPublication'
  <2> SUFFICES ASSUME NEW g \in ResourceFence, NEW h \in ResourceFence,
                      RoomOf(g) = RoomOf(h), Live(publication'[g]), publication'[g] = publication'[h]
               PROVE  g = h
    BY DEF OneServingPublication, Live
  <2>1. CASE publication'[g] = "committed"
    BY <2>1 DEF Displaced, OneServingPublication, Live
  <2>2. CASE publication'[g] = "reserved"
    BY <2>2 DEF Displaced, OneServingPublication, Live
  <2> QED BY <2>1, <2>2 DEF Live
<1> QED BY <1>1, <1>2, <1>3, <1>4, <1>5, SameCharge

(* Promoting or retiring one subscription changes no charge.               *)
LEMMA StepSubscriptionState ==
  ASSUME LedgerInv, NEW s \in SubscriptionFence,
         CommitSubscription(s) \/ BeginSubscriptionDrain(s)
  PROVE  LedgerInv'
<1> USE DEF LedgerInv, CommitSubscription, BeginSubscriptionDrain
<1>1. AdmissionTypeOK'
  BY DEF AdmissionTypeOK, States
<1>2. ChargedPublications' = ChargedPublications
  BY DEF ChargedPublications
<1>3. ChargedSubscriptions' = ChargedSubscriptions
  BY DEF AdmissionTypeOK, ChargedSubscriptions
<1>4. SubscriptionFollowsPublication'
  BY FenceParts DEF AdmissionTypeOK, SubscriptionFollowsPublication, Live
<1>5. OneServingPublication'
  BY DEF OneServingPublication
<1> QED BY <1>1, <1>2, <1>3, <1>4, <1>5, SameCharge

(* Retiring publications with their subscriptions changes no charge.       *)
LEMMA StepMarkDraining ==
  ASSUME LedgerInv, NEW S \in SUBSET ChargedPublications, MarkDraining(S)
  PROVE  LedgerInv'
<1> USE DEF LedgerInv, MarkDraining
<1>1. AdmissionTypeOK'
  BY DEF AdmissionTypeOK, States
<1>2. ChargedPublications' = ChargedPublications
  BY DEF AdmissionTypeOK, ChargedPublications
<1>3. ChargedSubscriptions' = ChargedSubscriptions
  BY DEF AdmissionTypeOK, ChargedSubscriptions
<1>4. SubscriptionFollowsPublication'
  BY FenceParts DEF AdmissionTypeOK, SubscriptionFollowsPublication, Live, ChargedPublications
<1>5. OneServingPublication'
  BY DEF AdmissionTypeOK, OneServingPublication, Live
<1> QED BY <1>1, <1>2, <1>3, <1>4, <1>5, SameCharge

(* A confirmed subscription retirement frees exactly its own unit.         *)
LEMMA StepCompleteSubscriptionDrain ==
  ASSUME LedgerInv, NEW s \in SubscriptionFence, CompleteSubscriptionDrain(s)
  PROVE  LedgerInv'
<1> USE DEF LedgerInv, CompleteSubscriptionDrain
<1>2. ChargedSubscriptions' = ChargedSubscriptions \ {s} /\ s \in ChargedSubscriptions
  BY DEF AdmissionTypeOK, ChargedSubscriptions
<1>3. ChargedPublications' = ChargedPublications
  BY DEF ChargedPublications
<1>4. ExactAccounting'
  BY <1>2, <1>3, ChargedFinite, FS_RemoveElement DEF ExactAccounting, AdmissionTypeOK
<1>1. egressInUse' \in Nat
  <2>1. IsFiniteSet(ChargedSubscriptions')
    BY <1>2, ChargedFinite, FS_RemoveElement
  <2> QED BY <2>1, <1>4, FS_CardinalityType DEF ExactAccounting
<1>8. AdmissionTypeOK'
  BY <1>1 DEF AdmissionTypeOK, States
<1>5. WithinCapacity'
  BY <1>1, AdmissionAssumption DEF WithinCapacity
<1>6. SubscriptionFollowsPublication'
  BY FenceParts DEF AdmissionTypeOK, SubscriptionFollowsPublication, Live
<1>7. OneServingPublication'
  BY DEF OneServingPublication
<1> QED BY <1>4, <1>5, <1>6, <1>7, <1>8

(* A confirmed publication retirement frees its unit and exactly the units *)
(* of the subscriptions still charged to it.                               *)
LEMMA StepCompleteDrain ==
  ASSUME LedgerInv, NEW f \in ResourceFence, CompleteDrain(f)
  PROVE  LedgerInv'
<1> USE DEF LedgerInv, CompleteDrain
<1>2. ChargedPublications' = ChargedPublications \ {f} /\ f \in ChargedPublications
  BY DEF AdmissionTypeOK, ChargedPublications
<1>3. ChargedSubscriptions' = ChargedSubscriptions \ SubscriptionsOf(f)
  BY FenceParts DEF AdmissionTypeOK, ChargedSubscriptions, SubscriptionsOf
<1>4. ingressInUse' = Cardinality(ChargedPublications')
  BY <1>2, ChargedFinite, FS_RemoveElement DEF ExactAccounting, AdmissionTypeOK
<1>5. egressInUse' = Cardinality(ChargedSubscriptions')
  <2>1. ChargedSubscriptions \cap SubscriptionsOf(f) = SubscriptionsOf(f)
    BY ChargedFinite
  <2>2. Cardinality(ChargedSubscriptions') =
          Cardinality(ChargedSubscriptions) - Cardinality(SubscriptionsOf(f))
    BY <1>3, <2>1, ChargedFinite, FS_Difference
  <2> QED BY <2>2 DEF ExactAccounting
<1>6. IsFiniteSet(ChargedPublications') /\ IsFiniteSet(ChargedSubscriptions')
  BY <1>2, <1>3, ChargedFinite, FS_RemoveElement, FS_Difference
<1>7. ingressInUse' \in Nat /\ egressInUse' \in Nat
  BY <1>4, <1>5, <1>6, FS_CardinalityType
<1>8. Cardinality(SubscriptionsOf(f)) \in Nat
  BY ChargedFinite, FS_CardinalityType
<1>1. AdmissionTypeOK'
  BY <1>7 DEF AdmissionTypeOK, States
<1>9. WithinCapacity'
  BY <1>7, <1>8, AdmissionAssumption DEF WithinCapacity
<1>10. SubscriptionFollowsPublication'
  BY FenceParts DEF AdmissionTypeOK, SubscriptionFollowsPublication, Live
<1>11. OneServingPublication'
  BY DEF AdmissionTypeOK, OneServingPublication, Live
<1> QED BY <1>1, <1>4, <1>5, <1>9, <1>10, <1>11 DEF ExactAccounting

(* Every step of the ledger keeps the invariant.                           *)
LEMMA StepLedger == LedgerInv /\ [AdmissionNext]_admissionVars => LedgerInv'
<1> SUFFICES ASSUME LedgerInv, [AdmissionNext]_admissionVars PROVE LedgerInv'
  OBVIOUS
<1>1. CASE UNCHANGED admissionVars
  BY <1>1, SameCharge DEF admissionVars, LedgerInv, AdmissionTypeOK, SubscriptionFollowsPublication,
       OneServingPublication, Live, ChargedPublications, ChargedSubscriptions
<1>2. ASSUME NEW f \in ResourceFence, BeginDrain(f) PROVE LedgerInv'
  <2>1. {f} \in SUBSET ChargedPublications
    BY <1>2 DEF BeginDrain, ChargedPublications
  <2> QED BY <1>2, <2>1, StepMarkDraining DEF BeginDrain
<1>3. ASSUME NEW r \in Rooms, BeginDrainRoom(r) PROVE LedgerInv'
  <2>1. PublicationsOf(r) \in SUBSET ChargedPublications
    BY DEF PublicationsOf, ChargedPublications
  <2> QED BY <1>3, <2>1, StepMarkDraining DEF BeginDrainRoom
<1>4. CASE BeginDrainAll
  <2>1. ChargedPublications \in SUBSET ChargedPublications
    OBVIOUS
  <2>2. MarkDraining(ChargedPublications)
    BY <1>4 DEF BeginDrainAll, ChargedPublications
  <2> QED BY <2>1, <2>2, StepMarkDraining
<1> QED
  BY <1>1, <1>2, <1>3, <1>4, StepReservePublication, StepReserveSubscription,
     StepCommitPublication, StepSubscriptionState, StepCompleteSubscriptionDrain,
     StepCompleteDrain DEF AdmissionNext

-----------------------------------------------------------------------------
(* What the ledger's users do in one step that is several of its own       *)

\* Releasing moves live entries to draining, whichever sets are released.
LEMMA StepReleaseUnits ==
  ASSUME LedgerInv, NEW P, NEW S,
         publication' = [f \in ResourceFence |->
           IF f \in P /\ publication[f] # "absent" THEN "draining" ELSE publication[f]],
         subscription' = [s \in SubscriptionFence |->
           IF subscription[s] # "absent" /\ (s \in S \/ PublicationOf(s) \in P)
           THEN "draining" ELSE subscription[s]],
         UNCHANGED <<ingressInUse, egressInUse>>
  PROVE  LedgerInv'
<1> USE DEF LedgerInv
<1>1. AdmissionTypeOK'
  BY DEF AdmissionTypeOK, States
<1>2. ChargedPublications' = ChargedPublications
  BY DEF AdmissionTypeOK, ChargedPublications
<1>3. ChargedSubscriptions' = ChargedSubscriptions
  BY DEF AdmissionTypeOK, ChargedSubscriptions
<1>4. SubscriptionFollowsPublication'
  <2> SUFFICES ASSUME NEW s \in SubscriptionFence
               PROVE  LET p == publication'[PublicationOf(s)] IN
                        /\ p = "absent" => subscription'[s] = "absent"
                        /\ subscription'[s] = "committed" => p = "committed"
                        /\ p = "draining" => ~Live(subscription'[s])
    BY DEF SubscriptionFollowsPublication, Live
  <2>1. PublicationOf(s) \in ResourceFence
    BY FenceParts
  <2> QED BY <2>1 DEF AdmissionTypeOK, SubscriptionFollowsPublication, Live
<1>5. OneServingPublication'
  BY DEF AdmissionTypeOK, OneServingPublication, Live
<1> QED BY <1>1, <1>2, <1>3, <1>4, <1>5, SameCharge

\* A publication and its first subscription are charged together.
LEMMA StepReserveBoth ==
  ASSUME LedgerInv, NEW s \in SubscriptionFence,
         publication[PublicationOf(s)] = "absent",
         CanReservePublication(PublicationOf(s)), egressInUse < EgressCapacity,
         publication' = [publication EXCEPT ![PublicationOf(s)] = "reserved"],
         subscription' = [subscription EXCEPT ![s] = "reserved"],
         ingressInUse' = ingressInUse + 1, egressInUse' = egressInUse + 1
  PROVE  LedgerInv'
<1> DEFINE f == PublicationOf(s)
<1> USE DEF LedgerInv, CanReservePublication
<1>0. f \in ResourceFence
  BY FenceParts
<1>9. publication[f] = "absent" /\ subscription[s] = "absent"
  BY <1>0 DEF SubscriptionFollowsPublication
<1>1. AdmissionTypeOK'
  BY <1>0 DEF AdmissionTypeOK, States
<1>2. ChargedPublications' = ChargedPublications \cup {f} /\ f \notin ChargedPublications
  BY <1>0, <1>9 DEF AdmissionTypeOK, ChargedPublications
<1>3. /\ ChargedSubscriptions' = ChargedSubscriptions \cup {s}
      /\ s \notin ChargedSubscriptions
  BY <1>0, <1>9 DEF AdmissionTypeOK, ChargedSubscriptions
<1>4. ExactAccounting'
  BY <1>2, <1>3, ChargedFinite, FS_AddElement DEF ExactAccounting, AdmissionTypeOK
<1>5. WithinCapacity'
  BY AdmissionAssumption DEF WithinCapacity, AdmissionTypeOK
<1>6. SubscriptionFollowsPublication'
  BY <1>0, <1>9, FenceParts DEF AdmissionTypeOK, SubscriptionFollowsPublication, Live
<1>7. OneServingPublication'
  BY <1>0 DEF AdmissionTypeOK, OneServingPublication, Live
<1> QED BY <1>1, <1>4, <1>5, <1>6, <1>7

\* A publication is charged and retired at once, when its first subscription is refused.
LEMMA StepReserveRefused ==
  ASSUME LedgerInv, NEW f \in ResourceFence,
         publication[f] = "absent", CanReservePublication(f),
         publication' = [publication EXCEPT ![f] = "draining"],
         ingressInUse' = ingressInUse + 1,
         UNCHANGED <<subscription, egressInUse>>
  PROVE  LedgerInv'
<1> USE DEF LedgerInv
<1>1. AdmissionTypeOK'
  BY DEF AdmissionTypeOK, States
<1>2. ChargedPublications' = ChargedPublications \cup {f} /\ f \notin ChargedPublications
  BY DEF AdmissionTypeOK, ChargedPublications
<1>3. ChargedSubscriptions' = ChargedSubscriptions
  BY DEF ChargedSubscriptions
<1>4. ExactAccounting'
  BY <1>2, <1>3, ChargedFinite, FS_AddElement DEF ExactAccounting, AdmissionTypeOK
<1>5. WithinCapacity'
  BY AdmissionAssumption DEF WithinCapacity, CanReservePublication
<1>6. SubscriptionFollowsPublication'
  BY FenceParts DEF AdmissionTypeOK, SubscriptionFollowsPublication, Live
<1>7. OneServingPublication'
  BY DEF AdmissionTypeOK, OneServingPublication, Live
<1> QED BY <1>1, <1>4, <1>5, <1>6, <1>7

-----------------------------------------------------------------------------
(* The server's SFU ledger never exceeds its capacities, never underflows, *)
(* counts exactly what it holds, and never has a subscription in service   *)
(* under a publication that is not.                                        *)
THEOREM LedgerCorrect == AdmissionSpec => []LedgerInv
<1> QED BY InitLedger, StepLedger, PTL DEF AdmissionSpec

(* Type correctness of the ledger.                                         *)
THEOREM LedgerTypes == AdmissionSpec => []AdmissionTypeOK
<1>1. LedgerInv => AdmissionTypeOK
  BY DEF LedgerInv
<1> QED BY <1>1, LedgerCorrect, PTL

(* LedgerSafety: the counters the capacity tests read are the ledger, the  *)
(* assertNoUnderflow panic is unreachable and no capacity is exceeded, no  *)
(* subscription outlives or outranks the publication it consumes, and no   *)
(* room serves two, over every order of commits, releases and drains.      *)
THEOREM LedgerSafe == AdmissionSpec => []LedgerSafety
<1>1. LedgerInv => LedgerSafety
  BY DEF LedgerInv, LedgerSafety
<1> QED BY <1>1, LedgerCorrect, PTL

(* One step never revives what is retiring and never frees what is live.   *)
LEMMA StepRetire ==
  ASSUME LedgerInv, [AdmissionNext]_admissionVars
  PROVE  RetireStep
<1> USE FenceParts DEF LedgerInv, AdmissionTypeOK, States, RetireStep, OutsideService
<1>1. CASE UNCHANGED admissionVars
  BY <1>1 DEF admissionVars
<1>2. ASSUME NEW f \in ResourceFence, ReservePublication(f)
      PROVE  RetireStep
  BY <1>2 DEF ReservePublication
<1>3. ASSUME NEW f \in ResourceFence, CommitPublication(f)
      PROVE  RetireStep
  <2>1. \A g \in ResourceFence : OutsideService(publication[g], publication'[g])
    BY <1>3 DEF CommitPublication, CanCommitPublication, Displaced
  <2>2. \A s \in SubscriptionFence : OutsideService(subscription[s], subscription'[s])
    BY <1>3 DEF CommitPublication
  <2> QED BY <2>1, <2>2
<1>4. ASSUME NEW f \in ResourceFence, CompleteDrain(f)
      PROVE  RetireStep
  <2>1. \A g \in ResourceFence : OutsideService(publication[g], publication'[g])
    BY <1>4 DEF CompleteDrain
  <2>2. \A s \in SubscriptionFence : OutsideService(subscription[s], subscription'[s])
    BY <1>4 DEF CompleteDrain, SubscriptionFollowsPublication, Live
  <2> QED BY <2>1, <2>2
<1>5. ASSUME NEW s \in SubscriptionFence,
             ReserveSubscription(s) \/ CommitSubscription(s)
               \/ BeginSubscriptionDrain(s) \/ CompleteSubscriptionDrain(s)
      PROVE  RetireStep
  BY <1>5 DEF ReserveSubscription, CommitSubscription, BeginSubscriptionDrain,
       CompleteSubscriptionDrain
<1>6. ASSUME NEW S, MarkDraining(S),
             \A f \in ResourceFence : f \in S => publication[f] # "absent"
      PROVE  RetireStep
  BY <1>6 DEF MarkDraining
<1>7. ASSUME NEW f \in ResourceFence, BeginDrain(f)
      PROVE  RetireStep
  BY <1>7, <1>6 DEF BeginDrain
<1>8. ASSUME NEW r \in Rooms, BeginDrainRoom(r)
      PROVE  RetireStep
  BY <1>8, <1>6 DEF BeginDrainRoom, PublicationsOf
<1>9. CASE BeginDrainAll
  BY <1>9, <1>6 DEF BeginDrainAll
<1> QED BY <1>1, <1>2, <1>3, <1>4, <1>5, <1>7, <1>8, <1>9 DEF AdmissionNext

(* RetireBeforeFree: no unit of SFU capacity is freed without a confirmed  *)
(* retirement, and nothing returns from retirement to service.             *)
THEOREM LedgerRetires == AdmissionSpec => RetireBeforeFree
<1>1. LedgerInv /\ [AdmissionNext]_admissionVars => [RetireStep]_admissionVars
  BY StepRetire
<1> QED BY <1>1, LedgerCorrect, PTL DEF AdmissionSpec, RetireBeforeFree

-----------------------------------------------------------------------------
(* Publications on their way out.                                          *)
RetiringPublications == {f \in ResourceFence : publication[f] = "draining"}
RetiringSubscriptions == {s \in SubscriptionFence : subscription[s] = "draining"}

(* The pools count with the ledger's own notion of cardinality.            *)
LEMMA SameCardinality ==
  \A S : Ingress!Cardinality(S) = Cardinality(S) /\ Egress!Cardinality(S) = Cardinality(S)
BY Zenon DEF Cardinality, Ingress!Cardinality, Egress!Cardinality

(* The empty ledger is the empty pool.                                     *)
LEMMA InitPools == AdmissionInit => Ingress!Init /\ Egress!Init
BY DEF AdmissionInit, Ingress!Init, Egress!Init, ChargedPublications, ChargedSubscriptions

(* Every ledger step is a step of the ingress pool or leaves it alone.     *)
LEMMA StepIngressPool ==
  ASSUME LedgerInv, [AdmissionNext]_admissionVars
  PROVE  [Ingress!Next]_(Ingress!poolVars)
<1> DEFINE Stay == ChargedPublications' = ChargedPublications
                   /\ RetiringPublications' = RetiringPublications
<1> USE DEF LedgerInv, AdmissionTypeOK, States
<1>a. ASSUME Stay PROVE [Ingress!Next]_(Ingress!poolVars)
  BY <1>a DEF Ingress!poolVars, RetiringPublications
<1>b. ASSUME NEW S \in SUBSET ChargedPublications,
             RetiringPublications' = RetiringPublications \cup S,
             ChargedPublications' = ChargedPublications
      PROVE  Ingress!Next
  <2>1. Ingress!Retire(S)
    BY <1>b DEF Ingress!Retire, RetiringPublications
  <2>2. S \in SUBSET ResourceFence
    BY <1>b DEF ChargedPublications
  <2> QED BY <2>1, <2>2 DEF Ingress!Next
<1>1. CASE UNCHANGED admissionVars
  BY <1>1, <1>a DEF admissionVars, ChargedPublications, RetiringPublications
<1>2. ASSUME NEW f \in ResourceFence, ReservePublication(f)
      PROVE  [Ingress!Next]_(Ingress!poolVars)
  <2>1. /\ ChargedPublications' = ChargedPublications \cup {f}
        /\ f \notin ChargedPublications
        /\ RetiringPublications' = RetiringPublications
    BY <1>2 DEF ReservePublication, ChargedPublications, RetiringPublications
  <2>2. Cardinality(ChargedPublications) < IngressCapacity
    BY <1>2 DEF ReservePublication, CanReservePublication, ExactAccounting
  <2>3. Ingress!Acquire(f)
    BY <2>1, <2>2, SameCardinality DEF Ingress!Acquire, RetiringPublications
  <2> QED BY <2>3 DEF Ingress!Next
<1>3. ASSUME NEW f \in ResourceFence, CommitPublication(f)
      PROVE  [Ingress!Next]_(Ingress!poolVars)
  <2>1. /\ Displaced(f) \in SUBSET ChargedPublications
        /\ RetiringPublications' = RetiringPublications \cup Displaced(f)
        /\ ChargedPublications' = ChargedPublications
    BY <1>3 DEF CommitPublication, CanCommitPublication, Displaced, ChargedPublications,
         RetiringPublications
  <2> QED BY <2>1, <1>b
<1>4. ASSUME NEW f \in ResourceFence, CompleteDrain(f)
      PROVE  [Ingress!Next]_(Ingress!poolVars)
  <2>1. /\ {f} \subseteq RetiringPublications
        /\ ChargedPublications' = ChargedPublications \ {f}
        /\ RetiringPublications' = RetiringPublications \ {f}
    BY <1>4 DEF CompleteDrain, ChargedPublications, RetiringPublications
  <2>2. Ingress!Free({f})
    BY <2>1 DEF Ingress!Free, RetiringPublications
  <2> QED BY <2>2 DEF Ingress!Next
<1>5. ASSUME NEW s \in SubscriptionFence,
             ReserveSubscription(s) \/ CommitSubscription(s)
               \/ BeginSubscriptionDrain(s) \/ CompleteSubscriptionDrain(s)
      PROVE  [Ingress!Next]_(Ingress!poolVars)
  BY <1>5, <1>a DEF ReserveSubscription, CommitSubscription, BeginSubscriptionDrain,
       CompleteSubscriptionDrain, ChargedPublications, RetiringPublications
<1>6. ASSUME NEW S \in SUBSET ChargedPublications, MarkDraining(S)
      PROVE  [Ingress!Next]_(Ingress!poolVars)
  <2>1. /\ RetiringPublications' = RetiringPublications \cup S
        /\ ChargedPublications' = ChargedPublications
    BY <1>6 DEF MarkDraining, ChargedPublications, RetiringPublications
  <2> QED BY <2>1, <1>6, <1>b
<1>7. ASSUME NEW f \in ResourceFence, BeginDrain(f)
      PROVE  [Ingress!Next]_(Ingress!poolVars)
  BY <1>7, <1>6 DEF BeginDrain, ChargedPublications
<1>8. ASSUME NEW r \in Rooms, BeginDrainRoom(r)
      PROVE  [Ingress!Next]_(Ingress!poolVars)
  BY <1>8, <1>6 DEF BeginDrainRoom, PublicationsOf, ChargedPublications
<1>9. CASE BeginDrainAll
  BY <1>9, <1>6 DEF BeginDrainAll, ChargedPublications
<1> QED BY <1>1, <1>2, <1>3, <1>4, <1>5, <1>7, <1>8, <1>9 DEF AdmissionNext

(* IngressPool: the ledger's publications are a pool of IngressCapacity    *)
(* units whose units are retired before they are freed.                    *)
THEOREM LedgerImplementsIngressPool == AdmissionSpec => IngressPool
<1>1. LedgerInv /\ [AdmissionNext]_admissionVars => [Ingress!Next]_(Ingress!poolVars)
  BY StepIngressPool
<1> QED BY <1>1, InitPools, LedgerCorrect, PTL DEF AdmissionSpec, IngressPool, Ingress!Spec

(* Every ledger step is a step of the egress pool or leaves it alone.      *)
LEMMA StepEgressPool ==
  ASSUME LedgerInv, [AdmissionNext]_admissionVars
  PROVE  [Egress!Next]_(Egress!poolVars)
<1> USE FenceParts DEF LedgerInv, AdmissionTypeOK, States
<1>a. ASSUME ChargedSubscriptions' = ChargedSubscriptions,
             RetiringSubscriptions' = RetiringSubscriptions
      PROVE [Egress!Next]_(Egress!poolVars)
  BY <1>a DEF Egress!poolVars, RetiringSubscriptions
<1>b. ASSUME NEW S \in SUBSET ChargedSubscriptions,
             RetiringSubscriptions' = RetiringSubscriptions \cup S,
             ChargedSubscriptions' = ChargedSubscriptions
      PROVE  Egress!Next
  <2>1. Egress!Retire(S)
    BY <1>b DEF Egress!Retire, RetiringSubscriptions
  <2>2. S \in SUBSET SubscriptionFence
    BY <1>b DEF ChargedSubscriptions
  <2> QED BY <2>1, <2>2 DEF Egress!Next
<1>c. ASSUME NEW S \in SUBSET RetiringSubscriptions,
             RetiringSubscriptions' = RetiringSubscriptions \ S,
             ChargedSubscriptions' = ChargedSubscriptions \ S
      PROVE  Egress!Next
  <2>1. Egress!Free(S)
    BY <1>c DEF Egress!Free, RetiringSubscriptions
  <2>2. S \in SUBSET SubscriptionFence
    BY <1>c DEF RetiringSubscriptions
  <2> QED BY <2>1, <2>2 DEF Egress!Next
<1>1. CASE UNCHANGED admissionVars
  BY <1>1, <1>a DEF admissionVars, ChargedSubscriptions, RetiringSubscriptions
<1>2. ASSUME NEW f \in ResourceFence, ReservePublication(f)
      PROVE  [Egress!Next]_(Egress!poolVars)
  BY <1>2, <1>a DEF ReservePublication, ChargedSubscriptions, RetiringSubscriptions
<1>3. ASSUME NEW f \in ResourceFence, CommitPublication(f)
      PROVE  [Egress!Next]_(Egress!poolVars)
  <2> DEFINE S == {s \in ChargedSubscriptions : PublicationOf(s) \in Displaced(f)}
  <2>1. RetiringSubscriptions' = RetiringSubscriptions \cup S
    BY <1>3 DEF CommitPublication, ChargedSubscriptions, RetiringSubscriptions
  <2>2. ChargedSubscriptions' = ChargedSubscriptions
    BY <1>3 DEF CommitPublication, ChargedSubscriptions
  <2>3. S \in SUBSET ChargedSubscriptions
    OBVIOUS
  <2> HIDE DEF S
  <2> QED BY <2>1, <2>2, <2>3, <1>b
<1>4. ASSUME NEW f \in ResourceFence, CompleteDrain(f)
      PROVE  [Egress!Next]_(Egress!poolVars)
  <2>1. SubscriptionsOf(f) \in SUBSET RetiringSubscriptions
    BY <1>4 DEF CompleteDrain, SubscriptionsOf, RetiringSubscriptions,
         SubscriptionFollowsPublication, Live
  <2>2. RetiringSubscriptions' = RetiringSubscriptions \ SubscriptionsOf(f)
    BY <1>4 DEF CompleteDrain, SubscriptionsOf, RetiringSubscriptions
  <2>3. ChargedSubscriptions' = ChargedSubscriptions \ SubscriptionsOf(f)
    BY <1>4 DEF CompleteDrain, SubscriptionsOf, ChargedSubscriptions
  <2> QED BY <2>1, <2>2, <2>3, <1>c
<1>5. ASSUME NEW s \in SubscriptionFence, ReserveSubscription(s)
      PROVE  [Egress!Next]_(Egress!poolVars)
  <2>1. /\ ChargedSubscriptions' = ChargedSubscriptions \cup {s}
        /\ s \notin ChargedSubscriptions
        /\ RetiringSubscriptions' = RetiringSubscriptions
    BY <1>5 DEF ReserveSubscription, ChargedSubscriptions, RetiringSubscriptions
  <2>2. Cardinality(ChargedSubscriptions) < EgressCapacity
    BY <1>5 DEF ReserveSubscription, CanReserveSubscription, ExactAccounting
  <2>3. Egress!Acquire(s)
    BY <2>1, <2>2, SameCardinality DEF Egress!Acquire, RetiringSubscriptions
  <2> QED BY <2>3 DEF Egress!Next
<1>6. ASSUME NEW s \in SubscriptionFence, CommitSubscription(s)
      PROVE  [Egress!Next]_(Egress!poolVars)
  BY <1>6, <1>a DEF CommitSubscription, ChargedSubscriptions, RetiringSubscriptions
<1>7. ASSUME NEW s \in SubscriptionFence, BeginSubscriptionDrain(s)
      PROVE  [Egress!Next]_(Egress!poolVars)
  <2>1. /\ {s} \in SUBSET ChargedSubscriptions
        /\ RetiringSubscriptions' = RetiringSubscriptions \cup {s}
        /\ ChargedSubscriptions' = ChargedSubscriptions
    BY <1>7 DEF BeginSubscriptionDrain, ChargedSubscriptions, RetiringSubscriptions
  <2> QED BY <2>1, <1>b
<1>8. ASSUME NEW s \in SubscriptionFence, CompleteSubscriptionDrain(s)
      PROVE  [Egress!Next]_(Egress!poolVars)
  <2>1. /\ {s} \in SUBSET RetiringSubscriptions
        /\ RetiringSubscriptions' = RetiringSubscriptions \ {s}
        /\ ChargedSubscriptions' = ChargedSubscriptions \ {s}
    BY <1>8 DEF CompleteSubscriptionDrain, ChargedSubscriptions, RetiringSubscriptions
  <2> QED BY <2>1, <1>c
<1>9. ASSUME NEW T, MarkDraining(T)
      PROVE  [Egress!Next]_(Egress!poolVars)
  <2> DEFINE S == {s \in ChargedSubscriptions : PublicationOf(s) \in T}
  <2>1. RetiringSubscriptions' = RetiringSubscriptions \cup S
    BY <1>9 DEF MarkDraining, ChargedSubscriptions, RetiringSubscriptions
  <2>2. ChargedSubscriptions' = ChargedSubscriptions
    BY <1>9 DEF MarkDraining, ChargedSubscriptions
  <2>3. S \in SUBSET ChargedSubscriptions
    OBVIOUS
  <2> HIDE DEF S
  <2> QED BY <2>1, <2>2, <2>3, <1>b
<1> QED
  BY <1>1, <1>2, <1>3, <1>4, <1>5, <1>6, <1>7, <1>8, <1>9
     DEF AdmissionNext, BeginDrain, BeginDrainRoom, BeginDrainAll

(* EgressPool: the ledger's subscriptions are a pool of EgressCapacity     *)
(* units, although one publication drain may settle many of them at once.  *)
THEOREM LedgerImplementsEgressPool == AdmissionSpec => EgressPool
<1>1. LedgerInv /\ [AdmissionNext]_admissionVars => [Egress!Next]_(Egress!poolVars)
  BY StepEgressPool
<1> QED BY <1>1, InitPools, LedgerCorrect, PTL DEF AdmissionSpec, EgressPool, Egress!Spec

-----------------------------------------------------------------------------
(***************************************************************************)
(* The pumps: no unit of capacity is leaked or counted twice, and a        *)
(* candidate that is committed is still the one the controller wants.      *)
(***************************************************************************)

LEMMA Distinct ==
  /\ None \notin Reservations /\ Denied \notin Reservations /\ None # Denied
  /\ NoFence \notin ResourceFence
<1>1. None \notin Reservations /\ Denied \notin Reservations /\ None # Denied
  BY DEF None, Denied, Reservations
<1>2. NoFence \notin ResourceFence
  BY DEF NoFence, ResourceFence
<1> QED BY <1>1, <1>2

LEMMA WithoutRoom ==
  ASSUME waiters \in Seq(Rooms), IsInjective(waiters), NEW r \in Rooms
  PROVE  /\ Without(r) \in Seq(Rooms) /\ IsInjective(Without(r))
         /\ \A i \in DOMAIN Without(r) : Without(r)[i] # r
<1>1. CASE ~\E i \in 1..Len(waiters) : waiters[i] = r
  BY <1>1 DEF Without, RemoveFirst
<1>2. CASE \E i \in 1..Len(waiters) : waiters[i] = r
  <2>1. PICK i \in 1..Len(waiters) : waiters[i] = r
    BY <1>2
  <2>2. \A j \in 1..Len(waiters) : waiters[j] = r => j = i
    BY <2>1 DEF IsInjective
  <2>3. {j \in 1..Len(waiters) : waiters[j] = r} = {i}
    BY <2>1, <2>2
  <2>4. SelectInSeq(waiters, LAMBDA v : v = r) = i
    BY <2>3 DEF SelectInSeq, Min
  <2>5. Without(r) = SubSeq(waiters, 1, i - 1) \o SubSeq(waiters, i + 1, Len(waiters))
    BY <1>2, <2>4 DEF Without, RemoveFirst, RemoveAt
  <2>6. /\ SubSeq(waiters, 1, i - 1) \in Seq(Rooms) /\ Len(SubSeq(waiters, 1, i - 1)) = i - 1
        /\ \A k \in 1..(i - 1) : SubSeq(waiters, 1, i - 1)[k] = waiters[k]
    BY <2>1
  <2>7. /\ SubSeq(waiters, i + 1, Len(waiters)) \in Seq(Rooms)
        /\ Len(SubSeq(waiters, i + 1, Len(waiters))) = Len(waiters) - i
        /\ \A k \in 1..(Len(waiters) - i) :
             SubSeq(waiters, i + 1, Len(waiters))[k] = waiters[k + i]
    BY <2>1
  <2> DEFINE w == Without(r)
  <2> HIDE DEF w
  <2>8. /\ w \in Seq(Rooms) /\ DOMAIN w = 1..Len(w) /\ Len(w) = Len(waiters) - 1
        /\ Len(waiters) \in Nat /\ i \in 1..Len(waiters)
        /\ \A k \in 1..Len(w) : w[k] = IF k < i THEN waiters[k] ELSE waiters[k + 1]
    <3> DEFINE a == SubSeq(waiters, 1, i - 1)
               b == SubSeq(waiters, i + 1, Len(waiters))
    <3>1. w = a \o b
      BY <2>5 DEF w
    <3> HIDE DEF a, b
    <3>2. a \in Seq(Rooms) /\ Len(a) = i - 1 /\ \A k \in 1..(i - 1) : a[k] = waiters[k]
      BY <2>6 DEF a
    <3>3. /\ b \in Seq(Rooms) /\ Len(b) = Len(waiters) - i
          /\ \A k \in 1..(Len(waiters) - i) : b[k] = waiters[k + i]
      BY <2>7 DEF b
    <3>4. w \in Seq(Rooms) /\ Len(w) = Len(waiters) - 1
      BY <2>1, <3>1, <3>2, <3>3
    <3>5. ASSUME NEW k \in 1..Len(w)
          PROVE  w[k] = IF k < i THEN waiters[k] ELSE waiters[k + 1]
      <4>1. CASE k < i
        BY <2>1, <3>1, <3>2, <3>3, <3>4, <4>1
      <4>2. CASE ~(k < i)
        <5>1. w[k] = b[k - (i - 1)] /\ k - (i - 1) \in 1..(Len(waiters) - i)
          BY <2>1, <3>1, <3>2, <3>3, <3>4, <4>2
        <5> QED BY <2>1, <3>3, <3>4, <4>2, <5>1
      <4> QED BY <4>1, <4>2
    <3> QED BY <2>1, <3>4, <3>5
  <2>9. \A k \in DOMAIN w : w[k] # r
    BY <2>2, <2>8
  <2>10. \A j, k \in DOMAIN w : w[j] = w[k] => j = k
    <3> SUFFICES ASSUME NEW j \in DOMAIN w, NEW k \in DOMAIN w, w[j] = w[k]
                 PROVE  j = k
      OBVIOUS
    <3> DEFINE At(n) == IF n < i THEN n ELSE n + 1
    <3>1. At(j) \in DOMAIN waiters /\ At(k) \in DOMAIN waiters
          /\ w[j] = waiters[At(j)] /\ w[k] = waiters[At(k)]
      BY <2>8
    <3>2. At(j) = At(k)
      BY <3>1 DEF IsInjective
    <3> QED BY <2>8, <3>2
  <2> QED BY <2>8, <2>9, <2>10 DEF IsInjective, w
<1> QED BY <1>1, <1>2

\* A room enrolled once is last.
LEMMA EnrolledRoom ==
  ASSUME waiters \in Seq(Rooms), IsInjective(waiters), NEW r \in Rooms
  PROVE  Enroll(r) \in Seq(Rooms) /\ IsInjective(Enroll(r))
<1> DEFINE w == Without(r)
           v == Append(w, r)
<1>1. w \in Seq(Rooms) /\ IsInjective(w) /\ \A i \in DOMAIN w : w[i] # r
  BY WithoutRoom
<1> HIDE DEF w
<1>2. /\ v \in Seq(Rooms) /\ DOMAIN v = 1..(Len(w) + 1) /\ DOMAIN w = 1..Len(w) /\ Len(w) \in Nat
      /\ v[Len(w) + 1] = r /\ \A i \in 1..Len(w) : v[i] = w[i]
  BY <1>1
<1> HIDE DEF v
<1>3. IsInjective(v)
  <2> SUFFICES ASSUME NEW i \in DOMAIN v, NEW j \in DOMAIN v, v[i] = v[j]
               PROVE  i = j
    BY DEF IsInjective
  <2>1. CASE i = Len(w) + 1 \/ j = Len(w) + 1
    BY <1>1, <1>2, <2>1
  <2>2. CASE i \in 1..Len(w) /\ j \in 1..Len(w)
    BY <1>1, <1>2, <2>2 DEF IsInjective
  <2> QED BY <1>2, <2>1, <2>2
<1> QED BY <1>2, <1>3 DEF Enroll, v, w

-----------------------------------------------------------------------------
(* The ledger                                                              *)

LEMMA InitialLedger == Init => LedgerInv
BY InitLedger DEF Init

LEMMA LedgerAlone == ASSUME LedgerInv, UNCHANGED admissionVars PROVE LedgerInv'
BY StepLedger

LEMMA StepRelease ==
  ASSUME LedgerInv, NEW P, NEW S, Release(P, S)
  PROVE  LedgerInv'
BY StepReleaseUnits DEF Release

LEMMA StepCreatePublication ==
  ASSUME LedgerInv, NEW r \in Rooms, NEW x \in Reservations, CreatePublication(r, x)
  PROVE  LedgerInv'
<1>1. x.fence \in SubscriptionFence
  BY DEF Reservations
<1> QED BY <1>1, StepReserveBoth DEF CreatePublication, Unnamed

LEMMA StepDeniedHalfway ==
  ASSUME LedgerInv, NEW r \in Rooms, DeniedHalfway(r)
  PROVE  LedgerInv'
BY StepReserveRefused DEF DeniedHalfway, Unnamed

LEMMA StepSelect ==
  ASSUME LedgerInv, NEW r \in Rooms, NEW outcome \in Outcomes, Select(r, outcome)
  PROVE  LedgerInv'
<1>1. CASE UNCHANGED admissionVars
  BY <1>1, LedgerAlone
<1>2. CASE outcome \in Reservations /\ ReuseSubscription(r, outcome)
  BY <1>2, StepReserveSubscription DEF ReuseSubscription, Reservations
<1>3. CASE outcome \in Reservations /\ CreatePublication(r, outcome)
  BY <1>3, StepCreatePublication
<1>4. CASE DeniedHalfway(r)
  BY <1>4, StepDeniedHalfway
<1> QED BY <1>1, <1>2, <1>3, <1>4 DEF Select, DeniedUntouched

-----------------------------------------------------------------------------
(* The inductive invariant                                                 *)

\* What a room has in flight: the reservation its prefix left to the other half of
\* the pump, or else the one of its candidate.
InHand(r) == IF pending[r] \in Reservations THEN pending[r] ELSE current[r]

\* A reservation in hand is charged, unless it reuses a publication that is gone.
Sound(r) ==
  LET x == InHand(r) IN
  x # None =>
    /\ RoomOfReservation(x) = r
    /\ x.creates =>
         /\ hostPublication[r] = NoFence
         /\ publication[PublicationOf(x.fence)] = "reserved"
         /\ subscription[x.fence] = "reserved"
    /\ ~x.creates =>
         IF PublicationOf(x.fence) = hostPublication[r] THEN subscription[x.fence] = "reserved"
         ELSE ~Live(publication[PublicationOf(x.fence)])

\* What a room serves is committed, and what the ledger holds live for it is in hand or served.
Serves(r) ==
  hostPublication[r] # NoFence =>
    RoomOf(hostPublication[r]) = r /\ publication[hostPublication[r]] = "committed"

PublicationOwned(r) ==
  \A f \in ResourceFence : RoomOf(f) = r =>
    /\ publication[f] = "committed" => hostPublication[r] = f
    /\ publication[f] = "reserved" =>
         InHand(r) # None /\ InHand(r).creates /\ PublicationOf(InHand(r).fence) = f

SubscriptionOwned(r) ==
  \A s \in SubscriptionFence : RoomOf(PublicationOf(s)) = r =>
    /\ subscription[s] = "committed" <=> s \in edges
    /\ subscription[s] = "reserved" => InHand(r) # None /\ InHand(r).fence = s

RoomInv(r) == Sound(r) /\ Serves(r) /\ PublicationOwned(r) /\ SubscriptionOwned(r)

\* A room that was cleared has nothing live any more, and its names are not drawn again
\* while its pump still has to run.
OrphansGone == \A x \in orphans : ~Live(publication[PublicationOf(x.fence)])

\* Whose turn it is: a reservation between the halves belongs to a pump that has not
\* resumed, and then the room has no candidate.
Turns ==
  /\ driving \in Rooms => pumping[driving] /\ pending[driving] = None
  /\ \A r \in Rooms : pending[r] \in Reservations => pumping[r] /\ current[r] = None

PumpInv ==
  /\ TypeOK /\ LedgerInv /\ Turns /\ OrphansGone
  /\ \A r \in Rooms : RoomInv(r)

LEMMA ReservationParts ==
  ASSUME NEW x \in Reservations
  PROVE  /\ x.fence \in SubscriptionFence /\ PublicationOf(x.fence) \in ResourceFence
         /\ x.creates \in BOOLEAN /\ x # None /\ x # Denied
         /\ RoomOfReservation(x) \in Rooms
BY FenceParts, Distinct DEF Reservations, RoomOfReservation

LEMMA Types ==
  ASSUME TypeOK, NEW r \in Rooms
  PROVE  /\ hostPublication[r] \in ResourceFence \cup {NoFence}
         /\ current[r] \in Reservations \cup {None}
         /\ InHand(r) \in Reservations \cup {None}
         /\ orphans \subseteq Reservations
BY DEF TypeOK, InHand

-----------------------------------------------------------------------------
(* What a step of one room leaves alone                                    *)

LedgerElsewhere(r) ==
  /\ \A f \in ResourceFence : RoomOf(f) # r => publication'[f] = publication[f]
  /\ \A s \in SubscriptionFence :
       RoomOf(PublicationOf(s)) # r => subscription'[s] = subscription[s]

RoutesElsewhere(r) ==
  /\ \A s \in SubscriptionFence : RoomOf(PublicationOf(s)) # r => (s \in edges' <=> s \in edges)
  /\ \A q \in Rooms : q # r =>
       /\ hostPublication'[q] = hostPublication[q]
       /\ current'[q] = current[q] /\ pending'[q] = pending[q]

LEMMA RoomKept ==
  ASSUME TypeOK, NEW r, LedgerElsewhere(r), RoutesElsewhere(r),
         NEW q \in Rooms, q # r, RoomInv(q)
  PROVE  RoomInv(q)'
<1>1. InHand(q)' = InHand(q) /\ hostPublication'[q] = hostPublication[q]
  BY DEF RoutesElsewhere, InHand
<1>2. Sound(q)'
  <2> SUFFICES ASSUME InHand(q) # None PROVE Sound(q)'
    BY <1>1 DEF Sound
  <2> DEFINE x == InHand(q)
  <2>1. x \in Reservations /\ RoomOf(PublicationOf(x.fence)) = q
    BY Types DEF RoomInv, Sound, RoomOfReservation
  <2>2. publication'[PublicationOf(x.fence)] = publication[PublicationOf(x.fence)]
        /\ subscription'[x.fence] = subscription[x.fence]
    BY <2>1, ReservationParts DEF LedgerElsewhere
  <2> QED BY <1>1, <2>1, <2>2 DEF RoomInv, Sound, Live
<1>3. Serves(q)'
  BY <1>1, Types DEF RoomInv, Serves, LedgerElsewhere
<1>4. PublicationOwned(q)'
  BY <1>1 DEF RoomInv, PublicationOwned, LedgerElsewhere
<1>5. SubscriptionOwned(q)'
  BY <1>1 DEF RoomInv, SubscriptionOwned, LedgerElsewhere, RoutesElsewhere
<1> QED BY <1>2, <1>3, <1>4, <1>5 DEF RoomInv

\* A step of one room need only be checked in that room.
LEMMA OneRoom ==
  ASSUME PumpInv, NEW r \in Rooms, LedgerElsewhere(r), RoutesElsewhere(r),
         TypeOK', LedgerInv', Turns', OrphansGone', RoomInv(r)'
  PROVE  PumpInv'
<1> SUFFICES ASSUME NEW q \in Rooms PROVE RoomInv(q)'
  BY DEF PumpInv
<1> QED BY RoomKept DEF PumpInv

\* Steps that touch neither the ledger nor what is served or in flight.
LEMMA NothingMoved ==
  ASSUME PumpInv, UNCHANGED <<admissionVars, hostPublication, edges, current, pending, orphans>>,
         TypeOK', Turns'
  PROVE  PumpInv'
<1> USE DEF PumpInv
<1>1. LedgerInv'
  BY LedgerAlone
<1>2. OrphansGone'
  BY DEF OrphansGone, Live, admissionVars
<1>3. ASSUME NEW r \in Rooms PROVE RoomInv(r)'
  BY DEF RoomInv, Sound, Serves, PublicationOwned, SubscriptionOwned, InHand, Live, admissionVars
<1> QED BY <1>1, <1>2, <1>3

LEMMA InitPump == Init => PumpInv
<1> SUFFICES ASSUME Init PROVE PumpInv
  OBVIOUS
<1>1. LedgerInv
  BY InitialLedger
<1>2. TypeOK
  <2>1. <<>> \in Seq(Rooms) /\ IsInjective(<<>>)
    BY DEF IsInjective
  <2> QED BY <1>1, <2>1 DEF Init, TypeOK, LedgerInv, Outcomes
<1>3. Turns /\ OrphansGone
  BY PumpAssumption, Distinct DEF Init, Turns, OrphansGone
<1>4. ASSUME NEW r \in Rooms PROVE RoomInv(r)
  BY FenceParts, Distinct DEF Init, AdmissionInit, RoomInv, Sound, Serves, PublicationOwned,
       SubscriptionOwned, InHand
<1> QED BY <1>1, <1>2, <1>3, <1>4 DEF PumpInv

-----------------------------------------------------------------------------
(* The handlers of a room                                                  *)

LEMMA StepStartShare ==
  ASSUME PumpInv, NEW r \in Rooms, StartShare(r)
  PROVE  PumpInv'
<1> USE DEF StartShare, pumpVars, lockVars
<1>1. TypeOK'
  BY DEF PumpInv, TypeOK, AdmissionTypeOK, admissionVars
<1>2. Turns'
  BY DEF PumpInv, Turns
<1> QED BY <1>1, <1>2, NothingMoved

\* Every handler leaves the types, and the turns as long as it keeps no new candidate.
LEMMA HandlerTypes ==
  ASSUME PumpInv, NEW r \in Rooms, Handler(r), LedgerInv',
         wants' \in [Rooms -> BOOLEAN],
         hostPublication' \in [Rooms -> ResourceFence \cup {NoFence}],
         edges' \subseteq SubscriptionFence,
         current' = current \/ current' = [current EXCEPT ![r] = None]
  PROVE  TypeOK' /\ Turns'
<1>1. TypeOK'
  <2>1. <<r>> \in Seq(Rooms)
    OBVIOUS
  <2>2. current' \in [Rooms -> Reservations \cup {None}]
    BY DEF PumpInv, TypeOK
  <2> QED BY <2>1, <2>2 DEF PumpInv, TypeOK, Handler, LedgerInv
<1>2. Turns'
  BY DEF PumpInv, TypeOK, Turns, Handler
<1> QED BY <1>1, <1>2

LEMMA StepDemand ==
  ASSUME PumpInv, NEW r \in Rooms, Demand(r) \/ OperationExpired(r)
  PROVE  PumpInv'
<1>1. LedgerInv'
  BY LedgerAlone DEF PumpInv, Demand, OperationExpired
<1>2. TypeOK' /\ Turns'
  BY <1>1, HandlerTypes DEF PumpInv, TypeOK, Demand, OperationExpired
<1> QED BY <1>2, NothingMoved DEF Demand, OperationExpired, Handler

\* Orphans stay gone as long as nothing of theirs comes to life.
LEMMA OrphansStayGone ==
  ASSUME PumpInv, orphans' \subseteq orphans,
         \A f \in ResourceFence : Live(publication'[f]) => Live(publication[f])
  PROVE  OrphansGone'
<1> SUFFICES ASSUME NEW x \in orphans' PROVE ~Live(publication'[PublicationOf(x.fence)])
  BY DEF OrphansGone, Live
<1> QED BY ReservationParts DEF PumpInv, TypeOK, OrphansGone

\* What a release of units of one room does to the ledger.
LEMMA Released ==
  ASSUME PumpInv, NEW r \in Rooms, NEW P, NEW S, Release(P, S),
         \A f \in P : RoomOf(f) = r, \A s \in S : RoomOf(PublicationOf(s)) = r
  PROVE  /\ LedgerElsewhere(r) /\ LedgerInv'
         /\ \A f \in ResourceFence :
              /\ Live(publication'[f]) <=> Live(publication[f]) /\ f \notin P
              /\ Live(publication'[f]) => publication'[f] = publication[f]
         /\ \A s \in SubscriptionFence :
              /\ Live(subscription'[s]) <=>
                   Live(subscription[s]) /\ s \notin S /\ PublicationOf(s) \notin P
              /\ Live(subscription'[s]) => subscription'[s] = subscription[s]
<1>1. LedgerInv'
  BY StepRelease DEF PumpInv
<1>2. LedgerElsewhere(r)
  BY DEF Release, LedgerElsewhere
<1> QED BY <1>1, <1>2 DEF Release, Live

\* A reservation in hand is given back: nothing of it stays live, nothing else is touched.
LEMMA GivenBack ==
  ASSUME PumpInv, NEW r \in Rooms, InHand(r) \in Reservations, ReleaseReservation(InHand(r)),
         InHand(r)' = None, hostPublication'[r] = hostPublication[r], edges' = edges,
         orphans' \subseteq orphans
  PROVE  LedgerElsewhere(r) /\ LedgerInv' /\ OrphansGone' /\ RoomInv(r)'
<1> DEFINE x == InHand(r)
<1>1. x \in Reservations /\ x # None
  BY Distinct
<1>2. RoomInv(r) /\ RoomOf(PublicationOf(x.fence)) = r
  BY <1>1, ReservationParts DEF PumpInv, RoomInv, Sound, RoomOfReservation
<1> DEFINE P == IF x.creates THEN {PublicationOf(x.fence)} ELSE {}
<1>3. Release(P, {x.fence})
  BY DEF ReleaseReservation
<1>4. (\A f \in P : RoomOf(f) = r) /\ (\A s \in {x.fence} : RoomOf(PublicationOf(s)) = r)
  BY <1>2
<1> HIDE DEF P
<1>5. /\ LedgerElsewhere(r) /\ LedgerInv'
      /\ \A f \in ResourceFence :
           /\ Live(publication'[f]) <=> Live(publication[f]) /\ f \notin P
           /\ Live(publication'[f]) => publication'[f] = publication[f]
      /\ \A s \in SubscriptionFence :
           /\ Live(subscription'[s]) <=>
                Live(subscription[s]) /\ s # x.fence /\ PublicationOf(s) \notin P
           /\ Live(subscription'[s]) => subscription'[s] = subscription[s]
  BY <1>3, <1>4, Released
<1>6. OrphansGone'
  BY <1>5, OrphansStayGone
<1>7. RoomInv(r)'
  <2>2. Sound(r)'
    BY DEF Sound
  <2>3. Serves(r)'
    <3> SUFFICES ASSUME hostPublication[r] # NoFence
                 PROVE  publication'[hostPublication[r]] = "committed"
      BY <1>2 DEF RoomInv, Serves
    <3> DEFINE h == hostPublication[r]
    <3>1. h \in ResourceFence /\ publication[h] = "committed"
      BY <1>2, Types DEF PumpInv, RoomInv, Serves
    <3>2. h \notin P
      BY <1>1, <1>2 DEF P, RoomInv, Sound
    <3> QED BY <1>5, <3>1, <3>2 DEF Live
  <2>4. PublicationOwned(r)'
    BY <1>1, <1>2, <1>5 DEF P, RoomInv, PublicationOwned, Live
  <2>5. SubscriptionOwned(r)'
    <3> SUFFICES ASSUME NEW s \in SubscriptionFence, RoomOf(PublicationOf(s)) = r
                 PROVE  /\ subscription'[s] = "committed" <=> s \in edges
                        /\ subscription'[s] # "reserved"
      BY DEF SubscriptionOwned
    <3>1. s \in edges => subscription[s] = "committed" /\ publication[PublicationOf(s)] = "committed"
      BY <1>2 DEF RoomInv, SubscriptionOwned, PumpInv, LedgerInv, SubscriptionFollowsPublication
    <3>2. s \in edges => s # x.fence /\ PublicationOf(s) \notin P
      BY <1>1, <1>2, <3>1, ReservationParts DEF P, RoomInv, Sound, PumpInv, LedgerInv,
           SubscriptionFollowsPublication, Live
    <3> QED BY <1>1, <1>2, <1>5, <3>1, <3>2 DEF RoomInv, SubscriptionOwned, Live
  <2> QED BY <2>2, <2>3, <2>4, <2>5 DEF RoomInv
<1> QED BY <1>5, <1>6, <1>7

LEMMA StepCandidateFailed ==
  ASSUME PumpInv, NEW r \in Rooms, CandidateFailed(r)
  PROVE  PumpInv'
<1> USE DEF CandidateFailed
<1>1. /\ current[r] \in Reservations /\ InHand(r) = current[r] /\ pending[r] \notin Reservations
  BY Types DEF PumpInv, Turns, InHand
<1>2. InHand(r)' = None
  BY <1>1 DEF Handler, InHand, PumpInv, TypeOK
<1>3. LedgerElsewhere(r) /\ LedgerInv' /\ OrphansGone' /\ RoomInv(r)'
  BY <1>1, <1>2, GivenBack DEF Handler
<1>4. TypeOK' /\ Turns'
  <2>1. wants' \in [Rooms -> BOOLEAN]
    BY DEF PumpInv, TypeOK
  <2> QED BY <1>3, <2>1, HandlerTypes DEF PumpInv, TypeOK
<1>5. RoutesElsewhere(r)
  BY DEF Handler, RoutesElsewhere, PumpInv, TypeOK
<1> QED BY <1>3, <1>4, <1>5, OneRoom

\* The first half of every pump gives an invalid candidate back.
LEMMA StepRetireInvalidCandidate ==
  ASSUME PumpInv, NEW r \in Rooms, RetireInvalidCandidate(r)
  PROVE  PumpInv'
<1> USE DEF RetireInvalidCandidate, CandidateInvalid
<1>1. /\ current[r] \in Reservations /\ InHand(r) = current[r] /\ pending[r] \notin Reservations
  BY Types DEF PumpInv, Turns, InHand
<1>2. InHand(r)' = None
  BY <1>1 DEF InHand, PumpInv, TypeOK
<1>3. LedgerElsewhere(r) /\ LedgerInv' /\ OrphansGone' /\ RoomInv(r)'
  BY <1>1, <1>2, GivenBack
<1>4. TypeOK'
  BY <1>3 DEF PumpInv, TypeOK, LedgerInv, lockVars
<1>5. Turns'
  BY DEF PumpInv, Turns, TypeOK, lockVars
<1>6. RoutesElsewhere(r)
  BY DEF RoutesElsewhere, PumpInv, TypeOK
<1> QED BY <1>3, <1>4, <1>5, <1>6, OneRoom

LEMMA StepLeaveSfu ==
  ASSUME PumpInv, NEW r \in Rooms, NEW s \in edges, LeaveSfu(r, s)
  PROVE  PumpInv'
<1> USE DEF LeaveSfu
<1> DEFINE h == hostPublication[r]
           last == ~\E t \in edges' : RoomOf(PublicationOf(t)) = r
           P == IF last THEN {h} ELSE {}
<1>1. /\ s \in SubscriptionFence /\ RoomOf(PublicationOf(s)) = r /\ edges' = edges \ {s}
      /\ Release(P, {s})
      /\ hostPublication' = [hostPublication EXCEPT ![r] = IF last THEN NoFence ELSE @]
      /\ UNCHANGED <<wants, current>> /\ RoomInv(r)
  BY DEF PumpInv, TypeOK
<1>2. \A t \in SubscriptionFence : t \in edges /\ RoomOf(PublicationOf(t)) = r =>
        subscription[t] = "committed" /\ PublicationOf(t) = h /\ publication[h] = "committed"
  BY <1>1, FenceParts DEF RoomInv, SubscriptionOwned, PublicationOwned, PumpInv, LedgerInv,
       SubscriptionFollowsPublication
<1>3. h \in ResourceFence /\ RoomOf(h) = r /\ h # NoFence /\ publication[h] = "committed"
  BY <1>1, <1>2, FenceParts, Distinct
<1> HIDE DEF last
<1>4. (\A f \in P : RoomOf(f) = r) /\ (\A t \in {s} : RoomOf(PublicationOf(t)) = r)
  BY <1>1, <1>3
<1> HIDE DEF P
<1>5. /\ LedgerElsewhere(r) /\ LedgerInv'
      /\ \A f \in ResourceFence :
           /\ Live(publication'[f]) <=> Live(publication[f]) /\ f \notin P
           /\ Live(publication'[f]) => publication'[f] = publication[f]
      /\ \A t \in SubscriptionFence :
           /\ Live(subscription'[t]) <=>
                Live(subscription[t]) /\ t # s /\ PublicationOf(t) \notin P
           /\ Live(subscription'[t]) => subscription'[t] = subscription[t]
  BY <1>1, <1>4, Released
<1>6. TypeOK' /\ Turns'
  <2>1. /\ hostPublication' \in [Rooms -> ResourceFence \cup {NoFence}]
        /\ edges' \subseteq SubscriptionFence
    BY <1>1 DEF PumpInv, TypeOK
  <2> QED BY <1>1, <1>5, <2>1, HandlerTypes DEF PumpInv, TypeOK
<1>7. OrphansGone'
  BY <1>5, OrphansStayGone DEF Handler
<1>8. RoutesElsewhere(r)
  BY <1>1 DEF Handler, RoutesElsewhere, PumpInv, TypeOK
<1>9. RoomInv(r)'
  <2>1. /\ InHand(r)' = InHand(r)
        /\ hostPublication'[r] = IF last THEN NoFence ELSE h
    BY <1>1 DEF Handler, InHand, PumpInv, TypeOK
  <2>2. last => \A t \in SubscriptionFence : RoomOf(PublicationOf(t)) = r => t \notin edges'
    BY DEF last
  <2>3. Sound(r)'
    <3> SUFFICES ASSUME InHand(r) # None PROVE Sound(r)'
      BY <2>1 DEF Sound
    <3> DEFINE x == InHand(r)
    <3>1. /\ x \in Reservations /\ x.fence \in SubscriptionFence
          /\ PublicationOf(x.fence) \in ResourceFence /\ PublicationOf(x.fence) # NoFence
      BY Types, ReservationParts, Distinct DEF PumpInv
    <3>2. ~x.creates /\ RoomOfReservation(x) = r
      BY <1>1, <1>3 DEF RoomInv, Sound
    <3>3. PublicationOf(x.fence) = h => subscription[x.fence] = "reserved" /\ x.fence # s
      BY <1>1, <1>2, <3>2 DEF RoomInv, Sound
    <3>4. PublicationOf(x.fence) # h => ~Live(publication'[PublicationOf(x.fence)])
      BY <1>1, <1>5, <3>1, <3>2 DEF RoomInv, Sound
    <3>5. last => ~Live(publication'[h])
      BY <1>3, <1>5 DEF P
    <3>6. ~last => P = {}
      BY DEF P
    <3>7. ~last /\ PublicationOf(x.fence) = h => subscription'[x.fence] = "reserved"
      BY <1>5, <3>1, <3>3, <3>6 DEF Live
    <3> QED BY <2>1, <3>1, <3>2, <3>4, <3>5, <3>7 DEF Sound
  <2>4. Serves(r)'
    BY <1>3, <1>5, <2>1 DEF P, Serves, Live
  <2>5. PublicationOwned(r)'
    BY <1>1, <1>5, <2>1 DEF P, RoomInv, PublicationOwned, Live
  <2>6. SubscriptionOwned(r)'
    <3> SUFFICES ASSUME NEW t \in SubscriptionFence, RoomOf(PublicationOf(t)) = r
                 PROVE  /\ subscription'[t] = "committed" <=> t \in edges'
                        /\ subscription'[t] = "reserved" => InHand(r) # None /\ InHand(r).fence = t
      BY <2>1 DEF SubscriptionOwned
    <3>1. t \in edges' => PublicationOf(t) \notin P /\ t # s /\ subscription[t] = "committed"
      BY <1>1, <1>2, <2>2 DEF P
    <3> QED BY <1>1, <1>5, <3>1 DEF RoomInv, SubscriptionOwned, Live
  <2> QED BY <2>3, <2>4, <2>5, <2>6 DEF RoomInv
<1> QED BY <1>5, <1>6, <1>7, <1>8, <1>9, OneRoom

LEMMA StepPublicationFailed ==
  ASSUME PumpInv, NEW r \in Rooms, PublicationFailed(r)
  PROVE  PumpInv'
<1> USE DEF PublicationFailed
<1> DEFINE h == hostPublication[r]
           gone == {s \in edges : PublicationOf(s) = h}
<1>1. /\ Release({h}, gone) /\ edges' = edges \ gone
      /\ hostPublication' = [hostPublication EXCEPT ![r] = NoFence]
      /\ current' = current /\ RoomInv(r) /\ gone \subseteq SubscriptionFence
  BY DEF PumpInv, TypeOK
<1>2. h \in ResourceFence /\ RoomOf(h) = r /\ publication[h] = "committed"
  BY <1>1, Types DEF PumpInv, RoomInv, Serves
<1>3. \A t \in SubscriptionFence : t \in edges /\ RoomOf(PublicationOf(t)) = r => t \in gone
  BY <1>1, FenceParts DEF RoomInv, SubscriptionOwned, PublicationOwned, PumpInv, LedgerInv,
       SubscriptionFollowsPublication
<1>4. (\A f \in {h} : RoomOf(f) = r) /\ (\A t \in gone : RoomOf(PublicationOf(t)) = r)
  BY <1>2
<1> HIDE DEF gone
<1>5. /\ LedgerElsewhere(r) /\ LedgerInv'
      /\ \A f \in ResourceFence :
           /\ Live(publication'[f]) <=> Live(publication[f]) /\ f # h
           /\ Live(publication'[f]) => publication'[f] = publication[f]
      /\ \A t \in SubscriptionFence :
           /\ Live(subscription'[t]) <=>
                Live(subscription[t]) /\ t \notin gone /\ PublicationOf(t) # h
           /\ Live(subscription'[t]) => subscription'[t] = subscription[t]
  <2>1. \A f : f \in {h} <=> f = h
    OBVIOUS
  <2> HIDE DEF h
  <2> QED BY <1>1, <1>4, <2>1, Released
<1>6. TypeOK' /\ Turns'
  <2>1. /\ hostPublication' \in [Rooms -> ResourceFence \cup {NoFence}]
        /\ edges' \subseteq SubscriptionFence /\ wants' \in [Rooms -> BOOLEAN]
    BY <1>1 DEF PumpInv, TypeOK
  <2> QED BY <1>1, <1>5, <2>1, HandlerTypes DEF PumpInv, TypeOK
<1>7. OrphansGone'
  BY <1>5, OrphansStayGone DEF Handler
<1>8. RoutesElsewhere(r)
  BY <1>1, <1>4 DEF Handler, RoutesElsewhere, PumpInv, TypeOK
<1>9. RoomInv(r)'
  <2>1. InHand(r)' = InHand(r) /\ hostPublication'[r] = NoFence
    BY <1>1 DEF Handler, InHand, PumpInv, TypeOK
  <2>2. Sound(r)'
    <3> SUFFICES ASSUME InHand(r) # None PROVE Sound(r)'
      BY <2>1 DEF Sound
    <3> DEFINE x == InHand(r)
    <3>1. /\ x \in Reservations /\ PublicationOf(x.fence) \in ResourceFence
          /\ PublicationOf(x.fence) # NoFence
      BY Types, ReservationParts, Distinct DEF PumpInv
    <3>2. ~x.creates /\ RoomOfReservation(x) = r
      BY <1>1 DEF RoomInv, Sound
    <3>3. ~Live(publication'[PublicationOf(x.fence)])
      BY <1>1, <1>5, <3>1, <3>2 DEF RoomInv, Sound
    <3> QED BY <2>1, <3>1, <3>2, <3>3 DEF Sound
  <2>3. Serves(r)'
    BY <2>1 DEF Serves
  <2>4. PublicationOwned(r)'
    BY <1>1, <1>5, <2>1 DEF RoomInv, PublicationOwned, Live
  <2>5. SubscriptionOwned(r)'
    BY <1>1, <1>3, <1>5, <2>1 DEF RoomInv, SubscriptionOwned, Live
  <2> QED BY <2>2, <2>3, <2>4, <2>5 DEF RoomInv
<1> QED BY <1>5, <1>6, <1>7, <1>8, <1>9, OneRoom

\* Media is proved: what the candidate reserved is committed and served.
LEMMA StepCandidateReady ==
  ASSUME PumpInv, NEW r \in Rooms, CandidateReady(r)
  PROVE  PumpInv'
<1> DEFINE x == current[r]
           f == PublicationOf(x.fence)
<1>1. /\ x \in Reservations /\ InHand(r) = x /\ x # None /\ pending[r] \notin Reservations
      /\ Handler(r) /\ ~CandidateInvalid(r) /\ RoomInv(r)
      /\ edges' = edges \cup {x.fence}
      /\ current' = [current EXCEPT ![r] = None]
      /\ wants' = [wants EXCEPT ![r] = FALSE]
  BY Types DEF PumpInv, Turns, InHand, CandidateReady
<1>2. /\ x.fence \in SubscriptionFence /\ f \in ResourceFence /\ RoomOf(f) = r
      /\ x.creates \in BOOLEAN /\ f # NoFence
  BY <1>1, ReservationParts, Distinct DEF RoomInv, Sound, RoomOfReservation
<1>3. /\ subscription[x.fence] = "reserved"
      /\ x.creates => publication[f] = "reserved" /\ hostPublication[r] = NoFence
      /\ ~x.creates => hostPublication[r] = f /\ publication[f] = "committed"
  BY <1>1, <1>2 DEF CandidateInvalid, RoomInv, Sound, Serves
<1>4. \A t \in SubscriptionFence :
        RoomOf(PublicationOf(t)) = r /\ subscription[t] = "reserved" => t = x.fence
  BY <1>1 DEF RoomInv, SubscriptionOwned
<1>5. /\ LedgerInv' /\ hostPublication' = [hostPublication EXCEPT ![r] = f]
      /\ publication' = [publication EXCEPT ![f] = "committed"]
      /\ subscription' = [subscription EXCEPT ![x.fence] = "committed"]
  <2>1. CASE x.creates
    <3>1. CommitPublication(f) /\ hostPublication' = [hostPublication EXCEPT ![r] = f]
      BY <2>1 DEF CandidateReady
    <3>2. Displaced(f) = {}
      BY <1>1, <1>2, <1>3, <2>1, Distinct DEF Displaced, RoomInv, PublicationOwned
    <3>3. publication' = [publication EXCEPT ![f] = "committed"]
      BY <3>1, <3>2 DEF CommitPublication, PumpInv, LedgerInv, AdmissionTypeOK
    <3>4. subscription' = [subscription EXCEPT ![x.fence] = "committed"]
      BY <1>2, <1>3, <1>4, <3>1, <3>2 DEF CommitPublication, PumpInv, LedgerInv, AdmissionTypeOK
    <3> QED BY <1>2, <3>1, <3>3, <3>4, StepCommitPublication DEF PumpInv
  <2>2. CASE ~x.creates
    <3>1. CommitSubscription(x.fence) /\ hostPublication' = hostPublication
      BY <2>2 DEF CandidateReady
    <3> QED BY <1>2, <1>3, <2>2, <3>1, StepSubscriptionState
            DEF CommitSubscription, PumpInv, LedgerInv, AdmissionTypeOK, TypeOK
  <2> QED BY <1>2, <2>1, <2>2
<1> HIDE DEF x, f
<1>6. TypeOK' /\ Turns'
  <2>1. /\ hostPublication' \in [Rooms -> ResourceFence \cup {NoFence}]
        /\ edges' \subseteq SubscriptionFence /\ wants' \in [Rooms -> BOOLEAN]
    BY <1>1, <1>2, <1>5 DEF PumpInv, TypeOK
  <2> QED BY <1>1, <1>5, <2>1, HandlerTypes
<1>7. OrphansGone'
  <2> SUFFICES ASSUME NEW y \in orphans PROVE ~Live(publication'[PublicationOf(y.fence)])
    BY <1>1 DEF OrphansGone, Handler, Live
  <2>1. y \in Reservations /\ ~Live(publication[PublicationOf(y.fence)])
    BY DEF PumpInv, TypeOK, OrphansGone
  <2> QED BY <1>2, <1>3, <1>5, <2>1, ReservationParts DEF Live, PumpInv, LedgerInv, AdmissionTypeOK
<1>8. LedgerElsewhere(r) /\ RoutesElsewhere(r)
  <2>1. LedgerElsewhere(r)
    BY <1>2, <1>5 DEF f, LedgerElsewhere, PumpInv, LedgerInv, AdmissionTypeOK
  <2>2. ASSUME NEW s \in SubscriptionFence, RoomOf(PublicationOf(s)) # r
        PROVE  s \in edges' <=> s \in edges
    BY <1>1, <1>2, <2>2 DEF f
  <2>3. ASSUME NEW q \in Rooms, q # r
        PROVE  /\ hostPublication'[q] = hostPublication[q]
               /\ current'[q] = current[q] /\ pending'[q] = pending[q]
    BY <1>1, <1>5, <2>3 DEF Handler, PumpInv, TypeOK
  <2> QED BY <2>1, <2>2, <2>3 DEF RoutesElsewhere
<1>9. RoomInv(r)'
  <2>1. InHand(r)' = None /\ hostPublication'[r] = f
    BY <1>1, <1>5 DEF Handler, InHand, PumpInv, TypeOK
  <2>2. Sound(r)'
    BY <2>1 DEF Sound
  <2>3. /\ publication'[f] = "committed" /\ subscription'[x.fence] = "committed"
        /\ \A g \in ResourceFence : g # f => publication'[g] = publication[g]
        /\ \A t \in SubscriptionFence : t # x.fence => subscription'[t] = subscription[t]
    BY <1>2, <1>5 DEF PumpInv, LedgerInv, AdmissionTypeOK
  <2>4. Serves(r)'
    BY <1>2, <2>1, <2>3 DEF Serves
  <2>5. PublicationOwned(r)'
    BY <1>1, <1>2, <1>3, <2>1, <2>3, Distinct DEF RoomInv, PublicationOwned, f
  <2>6. SubscriptionOwned(r)'
    BY <1>1, <1>4, <2>1, <2>3 DEF RoomInv, SubscriptionOwned
  <2> QED BY <2>2, <2>4, <2>5, <2>6 DEF RoomInv
<1> QED BY <1>5, <1>6, <1>7, <1>8, <1>9, OneRoom

\* A cleared room keeps nothing live; the reservation of its pump becomes an orphan.
LEMMA StepStopShare ==
  ASSUME PumpInv, NEW r \in Rooms, StopShare(r)
  PROVE  PumpInv'
<1> USE DEF StopShare, lockVars
<1>1. LedgerInv'
  <2>1. PublicationsOf(r) \in SUBSET ChargedPublications
    BY DEF PublicationsOf, ChargedPublications
  <2> QED BY <2>1, StepMarkDraining DEF PumpInv
<1>2. LedgerElsewhere(r)
  BY DEF LedgerElsewhere, MarkDraining, PublicationsOf
<1>3. RoutesElsewhere(r)
  BY DEF RoutesElsewhere, PumpInv, TypeOK
<1>4. \A f \in ResourceFence : /\ Live(publication'[f]) => Live(publication[f])
                               /\ RoomOf(f) = r => ~Live(publication'[f])
  BY DEF MarkDraining, PublicationsOf, Live
<1>5. \A s \in SubscriptionFence : RoomOf(PublicationOf(s)) = r => ~Live(subscription'[s])
  BY <1>1, <1>4, FenceParts DEF LedgerInv, SubscriptionFollowsPublication, AdmissionTypeOK, States,
       Live
<1>6. TypeOK'
  <2>1. orphans' \subseteq Reservations
    BY DEF PumpInv, TypeOK
  <2>2. Without(r) \in Seq(Rooms) /\ IsInjective(Without(r))
    BY WithoutRoom DEF PumpInv, TypeOK
  <2>3. /\ share' \in [Rooms -> BOOLEAN] /\ wants' \in [Rooms -> BOOLEAN]
        /\ hostPublication' \in [Rooms -> ResourceFence \cup {NoFence}]
        /\ edges' \subseteq SubscriptionFence
        /\ current' \in [Rooms -> Reservations \cup {None}]
        /\ pumping' \in [Rooms -> BOOLEAN] /\ requested' \in [Rooms -> BOOLEAN]
        /\ pending' \in [Rooms -> Outcomes] /\ stale' \in [Rooms -> BOOLEAN]
    BY DEF PumpInv, TypeOK, Outcomes
  <2> QED BY <1>1, <2>1, <2>2, <2>3 DEF PumpInv, TypeOK, LedgerInv
<1>7. Turns'
  BY PumpAssumption, Distinct DEF PumpInv, TypeOK, Turns, MutexFree
<1>8. OrphansGone'
  <2> SUFFICES ASSUME NEW x \in orphans' PROVE ~Live(publication'[PublicationOf(x.fence)])
    BY DEF OrphansGone, Live
  <2>1. CASE x \in orphans
    BY <1>4, <2>1, ReservationParts DEF PumpInv, TypeOK, OrphansGone
  <2>2. CASE x = pending[r] /\ x \in Reservations
    <3>1. RoomOf(PublicationOf(x.fence)) = r
      BY <2>2, ReservationParts DEF PumpInv, RoomInv, Sound, InHand, RoomOfReservation
    <3> QED BY <1>4, <2>2, <3>1, ReservationParts
  <2> QED BY <2>1, <2>2
<1>9. RoomInv(r)'
  <2>1. InHand(r)' = None /\ hostPublication'[r] = NoFence
    BY Distinct DEF InHand, PumpInv, TypeOK
  <2> QED BY <1>4, <1>5, <2>1 DEF RoomInv, Sound, Serves, PublicationOwned, SubscriptionOwned, Live
<1> QED BY <1>1, <1>2, <1>3, <1>6, <1>7, <1>8, <1>9, OneRoom

-----------------------------------------------------------------------------
(* The pump and the drains                                                 *)

\* What admission grants is in hand at once; what it denies leaves the room as it was.
LEMMA Selected ==
  ASSUME PumpInv, NEW r \in Rooms, NEW outcome \in Outcomes, Select(r, outcome),
         pending[r] \notin Reservations,
         hostPublication' = hostPublication, edges' = edges, orphans' = orphans,
         InHand(r)' = IF outcome \in Reservations THEN outcome ELSE InHand(r)
  PROVE  LedgerElsewhere(r) /\ LedgerInv' /\ OrphansGone' /\ RoomInv(r)'
<1>1. LedgerInv' /\ LedgerInv /\ RoomInv(r) /\ OrphansGone /\ orphans \subseteq Reservations
  BY StepSelect DEF PumpInv, TypeOK
<1>2. CASE UNCHANGED admissionVars /\ outcome \notin Reservations
  BY <1>1, <1>2 DEF admissionVars, LedgerElsewhere, OrphansGone, Live, RoomInv, Sound, Serves,
       PublicationOwned, SubscriptionOwned
<1>3. CASE DeniedHalfway(r) /\ outcome \notin Reservations
  <2>1. PICK f \in ResourceFence :
          /\ RoomOf(f) = r /\ Unnamed(f)
          /\ publication' = [publication EXCEPT ![f] = "draining"]
          /\ subscription' = subscription
    BY <1>3 DEF DeniedHalfway
  <2>2. publication[f] = "absent" /\ ~Live(publication'[f])
        /\ \A g \in ResourceFence : g # f => publication'[g] = publication[g]
    BY <1>1, <2>1 DEF Unnamed, Live, LedgerInv, AdmissionTypeOK
  <2>3. LedgerElsewhere(r)
    BY <2>1, <2>2 DEF LedgerElsewhere
  <2>4. OrphansGone'
    BY <1>1, <2>2, OrphansStayGone DEF Live
  <2>5. InHand(r)' = InHand(r) /\ InHand(r) \in Reservations \cup {None}
    BY <1>3, Types DEF PumpInv
  <2>6. Sound(r)'
    BY <1>1, <2>1, <2>2, <2>5, ReservationParts DEF RoomInv, Sound, Live
  <2>7. Serves(r)'
    BY <1>1, <2>2, Types DEF PumpInv, RoomInv, Serves
  <2>8. PublicationOwned(r)'
    BY <1>1, <2>2, <2>5 DEF RoomInv, PublicationOwned, Live
  <2>9. SubscriptionOwned(r)'
    BY <1>1, <2>1, <2>5 DEF RoomInv, SubscriptionOwned
  <2> QED BY <1>1, <2>3, <2>4, <2>6, <2>7, <2>8, <2>9 DEF RoomInv
<1>4. CASE outcome \in Reservations
  <2> DEFINE f == PublicationOf(outcome.fence)
  <2>1. /\ InHand(r)' = outcome /\ outcome # None /\ outcome.creates \in BOOLEAN
        /\ outcome.fence \in SubscriptionFence /\ f \in ResourceFence /\ f # NoFence
    BY <1>4, ReservationParts, Distinct
  <2>2. NeedsCandidate(r) /\ (ReuseSubscription(r, outcome) \/ CreatePublication(r, outcome))
    BY <1>4, Distinct DEF Select
  <2>3. /\ \A g \in ResourceFence : RoomOf(g) = r => publication[g] # "reserved"
        /\ \A t \in SubscriptionFence : RoomOf(PublicationOf(t)) = r => subscription[t] # "reserved"
    BY <1>1, <2>2 DEF NeedsCandidate, InHand, RoomInv, PublicationOwned, SubscriptionOwned
  <2>4. CASE ReuseSubscription(r, outcome)
    <3>1. /\ hostPublication[r] # NoFence /\ f = hostPublication[r] /\ ~outcome.creates
          /\ subscription[outcome.fence] = "absent" /\ outcome.fence \notin edges
          /\ publication' = publication
          /\ subscription' = [subscription EXCEPT ![outcome.fence] = "reserved"]
      BY <2>4 DEF ReuseSubscription, UnnamedConnection, ReserveSubscription
    <3>2. RoomOf(f) = r
      BY <1>1, <3>1 DEF RoomInv, Serves
    <3>3. /\ subscription'[outcome.fence] = "reserved"
          /\ \A t \in SubscriptionFence :
               t # outcome.fence => subscription'[t] = subscription[t]
      BY <1>1, <2>1, <3>1 DEF LedgerInv, AdmissionTypeOK
    <3>4. LedgerElsewhere(r)
      BY <3>1, <3>2, <3>3 DEF LedgerElsewhere
    <3>5. OrphansGone'
      BY <3>1, OrphansStayGone
    <3>6. Sound(r)'
      BY <2>1, <3>1, <3>2, <3>3 DEF Sound, RoomOfReservation
    <3>7. Serves(r)' /\ PublicationOwned(r)'
      BY <1>1, <2>3, <3>1 DEF RoomInv, Serves, PublicationOwned
    <3>8. SubscriptionOwned(r)'
      BY <1>1, <2>1, <2>3, <3>1, <3>3 DEF RoomInv, SubscriptionOwned
    <3> QED BY <1>1, <3>4, <3>5, <3>6, <3>7, <3>8 DEF RoomInv
  <2>5. CASE CreatePublication(r, outcome)
    <3>1. /\ hostPublication[r] = NoFence /\ RoomOf(f) = r /\ outcome.creates /\ Unnamed(f)
          /\ publication' = [publication EXCEPT ![f] = "reserved"]
          /\ subscription' = [subscription EXCEPT ![outcome.fence] = "reserved"]
      BY <2>5 DEF CreatePublication
    <3>2. subscription[outcome.fence] = "absent" /\ outcome.fence \notin edges
      BY <1>1, <2>1, <3>1 DEF Unnamed, LedgerInv, SubscriptionFollowsPublication, RoomInv,
           SubscriptionOwned
    <3>3. /\ publication'[f] = "reserved" /\ subscription'[outcome.fence] = "reserved"
          /\ \A g \in ResourceFence : g # f => publication'[g] = publication[g]
          /\ \A t \in SubscriptionFence :
               t # outcome.fence => subscription'[t] = subscription[t]
      BY <1>1, <2>1, <3>1 DEF LedgerInv, AdmissionTypeOK
    <3>4. LedgerElsewhere(r)
      BY <3>1, <3>3 DEF LedgerElsewhere
    <3>5. OrphansGone'
      <4> SUFFICES ASSUME NEW x \in orphans PROVE ~Live(publication'[PublicationOf(x.fence)])
        BY DEF OrphansGone, Live
      <4>1. x \in Reservations /\ PublicationOf(x.fence) # f
        BY <1>1, <3>1 DEF Unnamed, InFlight
      <4> QED BY <1>1, <3>3, <4>1, ReservationParts DEF OrphansGone
    <3>6. Sound(r)'
      BY <2>1, <3>1, <3>3 DEF Sound, RoomOfReservation
    <3>7. Serves(r)'
      BY <3>1 DEF Serves
    <3>8. PublicationOwned(r)'
      BY <1>1, <2>1, <2>3, <3>1, <3>3 DEF RoomInv, PublicationOwned
    <3>9. SubscriptionOwned(r)'
      BY <1>1, <2>1, <2>3, <3>2, <3>3 DEF RoomInv, SubscriptionOwned
    <3> QED BY <1>1, <3>4, <3>5, <3>6, <3>7, <3>8, <3>9 DEF RoomInv
  <2> QED BY <2>2, <2>4, <2>5
<1> QED BY <1>2, <1>3, <1>4, Distinct DEF Select, DeniedUntouched

LEMMA StepRequestPump ==
  ASSUME PumpInv, NEW r \in Rooms, RequestPump(r)
  PROVE  PumpInv'
<1>0. due \in Seq(Rooms) /\ due # <<>> => Tail(due) \in Seq(Rooms)
  OBVIOUS
<1>1. CASE pumping[r]
  <2>1. TypeOK' /\ Turns'
    BY <1>0, <1>1 DEF RequestPump, PumpInv, TypeOK, Turns, AdmissionTypeOK, admissionVars,
         controllerVars
  <2> QED BY <1>1, <2>1, NothingMoved DEF RequestPump, controllerVars
<1>2. CASE ~pumping[r]
  <2>1. PICK outcome \in Outcomes :
          Select(r, outcome) /\ pending' = [pending EXCEPT ![r] = outcome]
    BY <1>2 DEF RequestPump
  <2>2. /\ pending[r] \notin Reservations /\ InHand(r) = current[r]
        /\ pending'[r] = outcome /\ current' = current
    BY <1>2, <2>1 DEF RequestPump, controllerVars, PumpInv, Turns, TypeOK, InHand
  <2>3. InHand(r)' = IF outcome \in Reservations THEN outcome ELSE InHand(r)
    BY <2>2 DEF InHand
  <2>4. LedgerElsewhere(r) /\ LedgerInv' /\ OrphansGone' /\ RoomInv(r)'
    BY <2>1, <2>2, <2>3, Selected DEF RequestPump, controllerVars
  <2>5. TypeOK'
    <3>1. Without(r) \in Seq(Rooms) /\ IsInjective(Without(r))
      BY WithoutRoom DEF PumpInv, TypeOK
    <3>2. pending' \in [Rooms -> Outcomes]
      BY <2>1 DEF PumpInv, TypeOK
    <3> QED BY <1>0, <1>2, <2>4, <3>1, <3>2 DEF RequestPump, controllerVars, PumpInv, TypeOK, LedgerInv
  <2>6. Turns'
    <3>1. outcome \in Reservations => current[r] = None
      BY <2>1, Distinct DEF Select, NeedsCandidate
    <3> QED BY <1>2, <2>1, <3>1 DEF RequestPump, controllerVars, PumpInv, TypeOK, Turns
  <2>7. RoutesElsewhere(r)
    BY <2>1 DEF RequestPump, controllerVars, RoutesElsewhere, PumpInv, TypeOK
  <2> QED BY <2>4, <2>5, <2>6, <2>7, OneRoom
<1> QED BY <1>1, <1>2

\* A resumed pump adopts what its prefix reserved, or gives it back if the facts moved.
LEMMA StepDriveResume ==
  ASSUME PumpInv, NEW r \in Rooms, DriveResume(r)
  PROVE  PumpInv'
<1> USE DEF DriveResume
<1>1. pending[r] \in Reservations => InHand(r) = pending[r] /\ current[r] = None
  BY DEF PumpInv, Turns, InHand
<1>2. /\ pending'[r] = None /\ current' \in [Rooms -> Reservations \cup {None}]
      /\ current'[r] = IF pending[r] \in Reservations /\ ~stale[r] THEN pending[r] ELSE current[r]
      /\ InHand(r)' = current'[r]
  BY Distinct DEF PumpInv, TypeOK, InHand
<1>3. RoutesElsewhere(r)
  BY DEF RoutesElsewhere, PumpInv, TypeOK
<1>4. Turns'
  <2>1. driving' = r /\ pumping'[r]
    OBVIOUS
  <2>2. ASSUME NEW q \in Rooms, pending'[q] \in Reservations
        PROVE  pumping'[q] /\ current'[q] = None
    BY <1>2, <2>2, Distinct DEF PumpInv, Turns, TypeOK
  <2> QED BY <1>2, <2>1, <2>2 DEF Turns
<1>5. ASSUME LedgerInv' PROVE TypeOK'
  <2>1. Enroll(r) \in Seq(Rooms) /\ IsInjective(Enroll(r))
    BY EnrolledRoom DEF PumpInv, TypeOK
  <2>2. waiters' \in Seq(Rooms) /\ IsInjective(waiters')
    BY <2>1 DEF PumpInv, TypeOK
  <2>3. pending' \in [Rooms -> Outcomes] /\ again' \in BOOLEAN /\ driving' \in Rooms
    BY DEF PumpInv, TypeOK, Outcomes
  <2> QED BY <1>2, <1>5, <2>2, <2>3 DEF PumpInv, TypeOK, LedgerInv
<1>6. CASE stale[r] /\ pending[r] \in Reservations
  <2>1. ReleaseReservation(InHand(r)) /\ InHand(r)' = None
    BY <1>1, <1>2, <1>6
  <2>2. LedgerElsewhere(r) /\ LedgerInv' /\ OrphansGone' /\ RoomInv(r)'
    BY <1>1, <1>6, <2>1, GivenBack
  <2> QED BY <1>3, <1>4, <1>5, <2>2, OneRoom
<1>7. CASE ~(stale[r] /\ pending[r] \in Reservations)
  <2>1. UNCHANGED admissionVars /\ InHand(r)' = InHand(r)
    BY <1>1, <1>2, <1>7 DEF InHand
  <2>2. LedgerInv' /\ LedgerElsewhere(r)
    BY <2>1, LedgerAlone DEF PumpInv, LedgerElsewhere, admissionVars
  <2>3. OrphansGone'
    BY <2>1, OrphansStayGone DEF admissionVars
  <2>4. RoomInv(r)'
    BY <2>1 DEF PumpInv, RoomInv, Sound, Serves, PublicationOwned, SubscriptionOwned, Live,
         admissionVars
  <2> QED BY <1>3, <1>4, <1>5, <2>2, <2>3, <2>4, OneRoom
<1> QED BY <1>6, <1>7

LEMMA StepDriveLoop ==
  ASSUME PumpInv, NEW r \in Rooms, DriveLoop(r)
  PROVE  PumpInv'
<1>1. PICK outcome \in Outcomes :
        /\ Select(r, outcome)
        /\ current' = [current EXCEPT ![r] = IF outcome \in Reservations THEN outcome ELSE @]
        /\ waiters' = IF outcome = Denied THEN Enroll(r) ELSE Without(r)
  BY DEF DriveLoop
<1>2. driving = r /\ pending[r] = None /\ pending' = pending /\ InHand(r) = current[r]
  BY Distinct DEF DriveLoop, PumpInv, Turns, InHand
<1>3. InHand(r)' = IF outcome \in Reservations THEN outcome ELSE InHand(r)
  BY <1>1, <1>2, Distinct DEF InHand, PumpInv, TypeOK
<1>4. LedgerElsewhere(r) /\ LedgerInv' /\ OrphansGone' /\ RoomInv(r)'
  BY <1>1, <1>2, <1>3, Selected, Distinct DEF DriveLoop
<1>5. TypeOK'
  <2>1. /\ Without(r) \in Seq(Rooms) /\ IsInjective(Without(r))
        /\ Enroll(r) \in Seq(Rooms) /\ IsInjective(Enroll(r))
    BY WithoutRoom, EnrolledRoom DEF PumpInv, TypeOK
  <2>2. waiters' \in Seq(Rooms) /\ IsInjective(waiters')
    BY <1>1, <2>1
  <2>3. current' \in [Rooms -> Reservations \cup {None}]
    BY <1>1 DEF PumpInv, TypeOK
  <2>4. requested' \in [Rooms -> BOOLEAN] /\ stale' \in [Rooms -> BOOLEAN]
    BY DEF DriveLoop, PumpInv, TypeOK
  <2> QED BY <1>4, <2>2, <2>3, <2>4 DEF DriveLoop, PumpInv, TypeOK, LedgerInv
<1>6. Turns'
  BY <1>1, <1>2, Distinct DEF DriveLoop, PumpInv, TypeOK, Turns
<1>7. RoutesElsewhere(r)
  BY <1>1 DEF DriveLoop, RoutesElsewhere, PumpInv, TypeOK
<1> QED BY <1>4, <1>5, <1>6, <1>7, OneRoom

LEMMA StepDriveEnd ==
  ASSUME PumpInv, NEW r \in Rooms, DriveEnd(r)
  PROVE  PumpInv'
<1> USE DEF DriveEnd, controllerVars
<1>1. TypeOK'
  BY DEF PumpInv, TypeOK, AdmissionTypeOK, admissionVars
<1>2. Turns'
  BY PumpAssumption, Distinct DEF PumpInv, TypeOK, Turns
<1> QED BY <1>1, <1>2, NothingMoved

\* Steps after which the same units are live, for the same reasons.
LEMMA SameLive ==
  ASSUME PumpInv, UNCHANGED <<hostPublication, edges, current, pending>>,
         orphans' \subseteq orphans, LedgerInv', TypeOK', Turns',
         \A f \in ResourceFence :
           /\ Live(publication'[f]) <=> Live(publication[f])
           /\ Live(publication[f]) => publication'[f] = publication[f],
         \A s \in SubscriptionFence :
           /\ Live(subscription'[s]) <=> Live(subscription[s])
           /\ Live(subscription[s]) => subscription'[s] = subscription[s]
  PROVE  PumpInv'
<1>1. OrphansGone'
  BY OrphansStayGone
<1>2. ASSUME NEW r \in Rooms PROVE RoomInv(r)'
  <2>1. InHand(r)' = InHand(r) /\ hostPublication'[r] = hostPublication[r] /\ RoomInv(r)
    BY DEF InHand, PumpInv
  <2>2. Sound(r)'
    <3> SUFFICES ASSUME InHand(r) # None PROVE Sound(r)'
      BY <2>1 DEF Sound
    <3>1. InHand(r) \in Reservations
      BY Types DEF PumpInv
    <3> QED BY <2>1, <3>1, ReservationParts DEF RoomInv, Sound, Live
  <2>3. Serves(r)'
    BY <2>1, Types DEF PumpInv, RoomInv, Serves, Live
  <2>4. PublicationOwned(r)'
    BY <2>1 DEF RoomInv, PublicationOwned, Live
  <2>5. SubscriptionOwned(r)'
    BY <2>1 DEF RoomInv, SubscriptionOwned, Live
  <2> QED BY <2>2, <2>3, <2>4, <2>5 DEF RoomInv
<1> QED BY <1>1, <1>2 DEF PumpInv

\* What a pump of a cleared room gives back is draining or gone already.
LEMMA StepOrphanedDrive ==
  ASSUME PumpInv, NEW x \in orphans, OrphanedDrive(x)
  PROVE  PumpInv'
<1> USE DEF OrphanedDrive, controllerVars, lockVars
<1>1. /\ x \in Reservations /\ ~Live(publication[PublicationOf(x.fence)])
      /\ x.fence \in SubscriptionFence /\ PublicationOf(x.fence) \in ResourceFence
  BY ReservationParts DEF PumpInv, TypeOK, OrphansGone
<1>2. ~Live(subscription[x.fence])
  BY <1>1 DEF PumpInv, LedgerInv, SubscriptionFollowsPublication, AdmissionTypeOK, States, Live
<1> DEFINE P == IF x.creates THEN {PublicationOf(x.fence)} ELSE {}
<1>3. Release(P, {x.fence}) /\ \A f \in P : f = PublicationOf(x.fence)
  BY DEF ReleaseReservation
<1> HIDE DEF P
<1>4. LedgerInv'
  BY <1>3, StepRelease DEF PumpInv
<1>5. \A f \in ResourceFence :
        /\ Live(publication'[f]) <=> Live(publication[f])
        /\ Live(publication[f]) => publication'[f] = publication[f]
  BY <1>1, <1>3 DEF Release, Live
<1>6. \A s \in SubscriptionFence : PublicationOf(s) \in P => ~Live(subscription[s])
  BY <1>1, <1>3 DEF PumpInv, LedgerInv, SubscriptionFollowsPublication, AdmissionTypeOK, States, Live
<1>7. \A s \in SubscriptionFence :
        /\ Live(subscription'[s]) <=> Live(subscription[s])
        /\ Live(subscription[s]) => subscription'[s] = subscription[s]
  BY <1>2, <1>3, <1>6 DEF Release, Live
<1>8. TypeOK' /\ Turns'
  BY <1>4 DEF PumpInv, TypeOK, LedgerInv, Turns
<1> QED BY <1>4, <1>5, <1>7, <1>8, SameLive

LEMMA Woken ==
  ASSUME PumpInv, WakeResourceWaiters, LedgerInv'
  PROVE  TypeOK' /\ Turns'
<1> USE DEF WakeResourceWaiters, controllerVars
<1>1. <<>> \in Seq(Rooms) /\ IsInjective(<<>>)
  BY DEF IsInjective
<1>2. stale' \in [Rooms -> BOOLEAN]
  BY DEF PumpInv, TypeOK, Waiting, Contains
<1>3. TypeOK'
  BY <1>1, <1>2 DEF PumpInv, TypeOK, LedgerInv
<1>4. Turns'
  BY DEF PumpInv, Turns
<1> QED BY <1>3, <1>4

LEMMA StepSettlePublicationDrain ==
  ASSUME PumpInv, NEW f \in ResourceFence, SettlePublicationDrain(f)
  PROVE  PumpInv'
<1> USE DEF SettlePublicationDrain, CompleteDrain
<1>1. LedgerInv'
  BY StepCompleteDrain DEF PumpInv
<1>2. TypeOK' /\ Turns'
  BY <1>1, Woken
<1>3. /\ publication[f] = "draining"
      /\ \A g \in ResourceFence :
           publication'[g] = IF g = f THEN "absent" ELSE publication[g]
      /\ \A s \in SubscriptionFence :
           subscription'[s] = IF PublicationOf(s) = f THEN "absent" ELSE subscription[s]
      /\ \A s \in SubscriptionFence : PublicationOf(s) = f => ~Live(subscription[s])
  BY DEF PumpInv, LedgerInv, AdmissionTypeOK, SubscriptionFollowsPublication
<1>4. UNCHANGED <<hostPublication, edges, current, pending, orphans>>
  BY DEF WakeResourceWaiters, controllerVars
<1> QED BY <1>1, <1>2, <1>3, <1>4, SameLive DEF Live

LEMMA StepSettleSubscriptionDrain ==
  ASSUME PumpInv, NEW s \in SubscriptionFence, SettleSubscriptionDrain(s)
  PROVE  PumpInv'
<1> USE DEF SettleSubscriptionDrain, CompleteSubscriptionDrain
<1>1. LedgerInv'
  BY StepCompleteSubscriptionDrain DEF PumpInv
<1>2. TypeOK' /\ Turns'
  BY <1>1, Woken
<1>3. /\ subscription[s] = "draining" /\ publication' = publication
      /\ \A t \in SubscriptionFence :
           subscription'[t] = IF t = s THEN "absent" ELSE subscription[t]
  BY DEF PumpInv, LedgerInv, AdmissionTypeOK
<1>4. UNCHANGED <<hostPublication, edges, current, pending, orphans>>
  BY DEF WakeResourceWaiters, controllerVars
<1> QED BY <1>1, <1>2, <1>3, <1>4, SameLive DEF Live

LEMMA StepPump == PumpInv /\ [Next]_vars => PumpInv'
<1> SUFFICES ASSUME PumpInv, [Next]_vars PROVE PumpInv'
  OBVIOUS
<1>1. CASE UNCHANGED vars
  <2> USE <1>1 DEF vars, controllerVars, pumpVars, lockVars
  <2>1. TypeOK'
    BY DEF PumpInv, TypeOK, AdmissionTypeOK, admissionVars
  <2>2. Turns'
    BY DEF PumpInv, Turns
  <2> QED BY <2>1, <2>2, NothingMoved
<1>2. CASE Next
  BY <1>2, StepStartShare, StepDemand, StepCandidateReady, StepCandidateFailed, StepPublicationFailed,
     StepStopShare, StepRetireInvalidCandidate, StepRequestPump, StepDriveResume, StepDriveLoop,
     StepDriveEnd, StepLeaveSfu, StepOrphanedDrive, StepSettlePublicationDrain,
     StepSettleSubscriptionDrain DEF Next, Pump
<1> QED BY <1>1, <1>2

LEMMA PumpCorrect == Spec => []PumpInv
BY InitPump, StepPump, PTL DEF Spec

-----------------------------------------------------------------------------
(* What the invariant says                                                 *)

\* What is live in a room has one holder: the reservation in hand, if any, is the only one
\* of the room, and an orphan holds nothing live.
LEMMA InFlightOf ==
  ASSUME PumpInv, NEW x \in InFlight, Live(publication[PublicationOf(x.fence)])
  PROVE  RoomOfReservation(x) \in Rooms /\ x = InHand(RoomOfReservation(x))
<1>1. x \in Reservations /\ x # None
  BY Distinct DEF InFlight
<1>2. x \notin orphans
  BY DEF PumpInv, OrphansGone
<1>3. PICK r \in Rooms : current[r] = x \/ pending[r] = x
  BY <1>2 DEF InFlight
<1>4. x = InHand(r)
  BY <1>1, <1>3 DEF InHand, PumpInv, Turns
<1>5. RoomOfReservation(x) = r
  BY <1>1, <1>3, <1>4 DEF PumpInv, RoomInv, Sound
<1> QED BY <1>3, <1>4, <1>5

LEMMA HandIsInFlight ==
  ASSUME PumpInv, NEW r \in Rooms, InHand(r) # None
  PROVE  InHand(r) \in InFlight
BY Types DEF PumpInv, InHand, InFlight

LEMMA ServingCharged == PumpInv => ServingStaysCharged
<1> SUFFICES ASSUME PumpInv PROVE ServingStaysCharged
  OBVIOUS
<1>1. ASSUME NEW r \in Rooms, hostPublication[r] # NoFence
      PROVE  publication[hostPublication[r]] = "committed"
  BY <1>1 DEF PumpInv, RoomInv, Serves
<1>2. ASSUME NEW s \in edges PROVE subscription[s] = "committed"
  BY FenceParts DEF PumpInv, TypeOK, RoomInv, SubscriptionOwned
<1> QED BY <1>1, <1>2 DEF ServingStaysCharged

LEMMA PublicationHeldOnce ==
  ASSUME PumpInv, NEW f \in ResourceFence, Live(publication[f])
  PROVE  \E h : PublicationHolders(f) = {h}
<1> DEFINE r == RoomOf(f)
<1>1. r \in Rooms /\ RoomInv(r)
  BY FenceParts DEF PumpInv
<1>2. \A q \in Rooms : hostPublication[q] = f => q = r /\ publication[f] = "committed"
  BY Distinct DEF PumpInv, RoomInv, Serves
<1>3. ASSUME NEW x \in InFlight, x.creates, PublicationOf(x.fence) = f
      PROVE  x = InHand(r) /\ publication[f] = "reserved"
  <2>1. x = InHand(r) /\ x # None
    BY <1>3, InFlightOf, Distinct DEF RoomOfReservation, InFlight
  <2> QED BY <1>1, <1>3, <2>1 DEF RoomInv, Sound
<1>4. CASE publication[f] = "committed"
  <2>1. PublicationHolders(f) = {r}
    BY <1>1, <1>2, <1>3, <1>4 DEF PublicationHolders, RoomInv, PublicationOwned
  <2> QED BY <2>1
<1>5. CASE publication[f] = "reserved"
  <2>1. InHand(r) \in InFlight /\ InHand(r).creates /\ PublicationOf(InHand(r).fence) = f
    BY <1>1, <1>5, HandIsInFlight DEF RoomInv, PublicationOwned
  <2>2. PublicationHolders(f) = {InHand(r)}
    BY <1>2, <1>3, <1>5, <2>1 DEF PublicationHolders
  <2> QED BY <2>2
<1> QED BY <1>4, <1>5 DEF Live

LEMMA SubscriptionHeldOnce ==
  ASSUME PumpInv, NEW s \in SubscriptionFence, Live(subscription[s])
  PROVE  \E h : SubscriptionHolders(s) = {h}
<1> DEFINE f == PublicationOf(s)
           r == RoomOf(f)
<1>1. r \in Rooms /\ f \in ResourceFence /\ RoomInv(r) /\ Live(publication[f])
  BY FenceParts DEF PumpInv, LedgerInv, SubscriptionFollowsPublication, AdmissionTypeOK, States, Live
<1>2. s \in edges <=> subscription[s] = "committed"
  BY <1>1 DEF RoomInv, SubscriptionOwned
<1>3. ASSUME NEW x \in InFlight, x.fence = s
      PROVE  x = InHand(r) /\ subscription[s] = "reserved"
  <2>1. x = InHand(r) /\ x # None /\ x.creates \in BOOLEAN
    BY <1>1, <1>3, InFlightOf, ReservationParts DEF RoomOfReservation, InFlight
  <2> QED BY <1>1, <1>3, <2>1 DEF RoomInv, Sound
<1>4. CASE subscription[s] = "committed"
  <2>1. SubscriptionHolders(s) = {s}
    BY <1>2, <1>3, <1>4 DEF SubscriptionHolders
  <2> QED BY <2>1
<1>5. CASE subscription[s] = "reserved"
  <2>1. InHand(r) \in InFlight /\ InHand(r).fence = s
    BY <1>1, <1>5, HandIsInFlight DEF RoomInv, SubscriptionOwned
  <2>2. SubscriptionHolders(s) = {InHand(r)}
    BY <1>2, <1>3, <1>5, <2>1 DEF SubscriptionHolders
  <2> QED BY <2>2
<1> QED BY <1>4, <1>5 DEF Live

(* However the halves of the pumps, the handlers of the rooms and the      *)
(* drains interleave, every live unit is owed by exactly one holder, and   *)
(* what a committed route serves stays charged (EveryUnitHasOneHolder).    *)
THEOREM UnitsHaveOneHolder == Spec => []EveryUnitHasOneHolder
<1>1. ASSUME PumpInv PROVE EveryUnitHasOneHolder
  <2>1. ASSUME NEW f \in ResourceFence, Live(publication[f])
        PROVE  Cardinality(PublicationHolders(f)) = 1
    BY <1>1, <2>1, PublicationHeldOnce, FS_Singleton
  <2>2. ASSUME NEW s \in SubscriptionFence, Live(subscription[s])
        PROVE  Cardinality(SubscriptionHolders(s)) = 1
    BY <1>1, <2>2, SubscriptionHeldOnce, FS_Singleton
  <2> QED BY <1>1, <2>1, <2>2, ServingCharged DEF EveryUnitHasOneHolder, PumpInv
<1> QED BY <1>1, PumpCorrect, PTL

(* A candidate that proves its media while it is valid finds its           *)
(* reservation still in the ledger: handleRouteReady cannot fail to commit.*)
THEOREM CandidatesCommit == Spec => []ValidCandidateCommits
<1>1. ASSUME PumpInv, NEW r \in Rooms, current[r] # None, ~CandidateInvalid(r)
      PROVE  IF current[r].creates THEN CanCommitPublication(PublicationOf(current[r].fence))
             ELSE /\ publication[PublicationOf(current[r].fence)] = "committed"
                  /\ subscription[current[r].fence] = "reserved"
  <2> DEFINE x == current[r]
             f == PublicationOf(x.fence)
  <2>1. x \in Reservations /\ x = InHand(r) /\ RoomInv(r)
    BY <1>1, Types DEF PumpInv, Turns, InHand
  <2>2. x.fence \in SubscriptionFence /\ f \in ResourceFence /\ f # NoFence /\ x.creates \in BOOLEAN
    BY <2>1, ReservationParts, Distinct
  <2>3. CASE x.creates
    <3>1. publication[f] = "reserved" /\ subscription[x.fence] = "reserved"
      BY <1>1, <2>1, <2>3 DEF RoomInv, Sound
    <3> QED BY <2>2, <2>3, <3>1 DEF CanCommitPublication, SubscriptionsOf
  <2>4. CASE ~x.creates
    BY <1>1, <2>1, <2>2, <2>4 DEF CandidateInvalid, RoomInv, Sound, Serves
  <2> QED BY <2>2, <2>3, <2>4
<1>2. PumpInv => ValidCandidateCommits
  BY <1>1 DEF ValidCandidateCommits
<1> QED BY <1>2, PumpCorrect, PTL

(* LedgerSafety also under the pump's composite steps: a publication       *)
(* reserved with its first subscription, or charged and denied at once.    *)
THEOREM PumpedLedger == Spec => []LedgerSafety
<1>1. PumpInv => LedgerSafety
  BY DEF PumpInv, LedgerInv, LedgerSafety
<1> QED BY <1>1, PumpCorrect, PTL

-----------------------------------------------------------------------------
(* The pump uses the pool of egress units as the pool allows               *)

EgressStep == [Egress!Next]_(Egress!poolVars)

LEMMA LedgerStep == ASSUME PumpInv, [AdmissionNext]_admissionVars PROVE EgressStep
BY StepEgressPool DEF PumpInv, EgressStep

LEMMA RetiringStep ==
  ASSUME NEW T \in SUBSET ChargedSubscriptions,
         RetiringSubscriptions' = RetiringSubscriptions \cup T,
         ChargedSubscriptions' = ChargedSubscriptions
  PROVE  EgressStep
<1>1. Egress!Retire(T)
  BY DEF Egress!Retire, RetiringSubscriptions
<1>2. T \in SUBSET SubscriptionFence
  BY DEF ChargedSubscriptions
<1>3. Egress!Next
  BY <1>1, <1>2 DEF Egress!Next
<1> QED BY <1>3 DEF EgressStep

LEMMA ReleaseStep ==
  ASSUME PumpInv, NEW P, NEW S, Release(P, S)
  PROVE  EgressStep
<1> DEFINE T == {s \in ChargedSubscriptions : s \in S \/ PublicationOf(s) \in P}
<1>1. RetiringSubscriptions' = RetiringSubscriptions \cup T
  BY DEF Release, ChargedSubscriptions, RetiringSubscriptions
<1>2. ChargedSubscriptions' = ChargedSubscriptions
  BY DEF Release, ChargedSubscriptions
<1>3. T \in SUBSET ChargedSubscriptions
  OBVIOUS
<1> HIDE DEF T
<1> QED BY <1>1, <1>2, <1>3, RetiringStep

LEMMA CreateStep ==
  ASSUME PumpInv, NEW r \in Rooms, NEW x \in Reservations, CreatePublication(r, x)
  PROVE  EgressStep
<1> DEFINE s == x.fence
<1>1. s \in SubscriptionFence /\ subscription[s] = "absent"
  BY ReservationParts DEF CreatePublication, Unnamed, PumpInv, LedgerInv, SubscriptionFollowsPublication
<1>2. subscription' = [subscription EXCEPT ![s] = "reserved"] /\ egressInUse < EgressCapacity
  BY DEF CreatePublication
<1> HIDE DEF s
<1>3. /\ ChargedSubscriptions' = ChargedSubscriptions \cup {s}
      /\ s \notin ChargedSubscriptions
      /\ RetiringSubscriptions' = RetiringSubscriptions
  BY <1>1, <1>2 DEF ChargedSubscriptions, RetiringSubscriptions, PumpInv, LedgerInv, AdmissionTypeOK
<1>4. Cardinality(ChargedSubscriptions) < EgressCapacity
  BY <1>2 DEF PumpInv, LedgerInv, ExactAccounting
<1>5. Egress!Acquire(s)
  BY <1>3, <1>4, SameCardinality DEF Egress!Acquire, RetiringSubscriptions
<1> QED BY <1>1, <1>5 DEF EgressStep, Egress!Next

LEMMA SelectStep ==
  ASSUME PumpInv, NEW r \in Rooms, NEW outcome \in Outcomes, Select(r, outcome)
  PROVE  EgressStep
<1>1. CASE UNCHANGED admissionVars
  BY <1>1, LedgerStep
<1>2. CASE outcome \in Reservations /\ ReuseSubscription(r, outcome)
  <2>1. outcome.fence \in SubscriptionFence /\ ReserveSubscription(outcome.fence)
    BY <1>2, ReservationParts DEF ReuseSubscription
  <2> QED BY <2>1, LedgerStep DEF AdmissionNext
<1>3. CASE outcome \in Reservations /\ CreatePublication(r, outcome)
  BY <1>3, CreateStep
<1>4. CASE DeniedHalfway(r)
  <2>1. subscription' = subscription
    BY <1>4 DEF DeniedHalfway
  <2> QED BY <2>1 DEF EgressStep, Egress!poolVars, ChargedSubscriptions
<1> QED BY <1>1, <1>2, <1>3, <1>4 DEF Select, DeniedUntouched

LEMMA CommitStep ==
  ASSUME PumpInv, NEW r \in Rooms, CandidateReady(r)
  PROVE  EgressStep
<1> DEFINE x == current[r]
<1>1. x.fence \in SubscriptionFence /\ PublicationOf(x.fence) \in ResourceFence
  BY Types, ReservationParts DEF PumpInv, CandidateReady
<1>2. CommitPublication(PublicationOf(x.fence)) \/ CommitSubscription(x.fence)
  BY DEF CandidateReady
<1> QED BY <1>1, <1>2, LedgerStep DEF AdmissionNext

LEMMA StopStep ==
  ASSUME PumpInv, NEW r \in Rooms, StopShare(r)
  PROVE  EgressStep
<1>1. CASE PublicationsOf(r) = {}
  <2>1. subscription' = subscription
    BY <1>1 DEF StopShare, MarkDraining, PumpInv, LedgerInv, AdmissionTypeOK
  <2> QED BY <2>1 DEF EgressStep, Egress!poolVars, ChargedSubscriptions
<1>2. CASE PublicationsOf(r) # {}
  BY <1>2, LedgerStep DEF StopShare, BeginDrainRoom, AdmissionNext
<1> QED BY <1>1, <1>2

LEMMA PumpStep ==
  ASSUME PumpInv, NEW r \in Rooms, Pump(r)
  PROVE  EgressStep
<1>1. CASE RetireInvalidCandidate(r)
  BY <1>1, ReleaseStep DEF RetireInvalidCandidate, ReleaseReservation
<1>2. CASE RequestPump(r)
  BY <1>2, SelectStep, LedgerStep DEF RequestPump
<1>3. CASE DriveResume(r)
  BY <1>3, ReleaseStep, LedgerStep DEF DriveResume, ReleaseReservation
<1>4. CASE DriveLoop(r)
  BY <1>4, SelectStep DEF DriveLoop
<1>5. CASE DriveEnd(r)
  BY <1>5, LedgerStep DEF DriveEnd
<1> QED BY <1>1, <1>2, <1>3, <1>4, <1>5 DEF Pump

LEMMA StepEgress ==
  ASSUME PumpInv, [Next]_vars
  PROVE  EgressStep
<1>1. CASE UNCHANGED vars
  BY <1>1, LedgerStep DEF vars
<1>2. ASSUME NEW r \in Rooms, StartShare(r) \/ Demand(r) \/ OperationExpired(r)
      PROVE  EgressStep
  BY <1>2, LedgerStep DEF StartShare, Demand, OperationExpired
<1>3. ASSUME NEW r \in Rooms, CandidateFailed(r) PROVE EgressStep
  BY <1>3, ReleaseStep DEF CandidateFailed, ReleaseReservation
<1>4. ASSUME NEW r \in Rooms, PublicationFailed(r) PROVE EgressStep
  BY <1>4, ReleaseStep DEF PublicationFailed
<1>5. ASSUME NEW r \in Rooms, NEW s \in edges, LeaveSfu(r, s) PROVE EgressStep
  BY <1>5, ReleaseStep DEF LeaveSfu
<1>6. ASSUME NEW x \in orphans, OrphanedDrive(x) PROVE EgressStep
  BY <1>6, ReleaseStep DEF OrphanedDrive, ReleaseReservation
<1>7. ASSUME NEW f \in ResourceFence, SettlePublicationDrain(f) PROVE EgressStep
  BY <1>7, LedgerStep DEF SettlePublicationDrain, AdmissionNext
<1>8. ASSUME NEW s \in SubscriptionFence, SettleSubscriptionDrain(s) PROVE EgressStep
  BY <1>8, LedgerStep DEF SettleSubscriptionDrain, AdmissionNext
<1> QED BY <1>1, <1>2, <1>3, <1>4, <1>5, <1>6, <1>7, <1>8, CommitStep, StopStep, PumpStep DEF Next

(* The composition refines the pool: the pumps of all rooms together only  *)
(* ever acquire egress units within the capacity and free none that was    *)
(* not retired first (EgressPool).                                         *)
THEOREM PumpImplementsEgressPool == Spec => EgressPool
<1>1. PumpInv /\ [Next]_vars => [Egress!Next]_(Egress!poolVars)
  BY StepEgress DEF EgressStep
<1>2. Init => Egress!Init
  BY InitPools DEF Init
<1> QED BY <1>1, <1>2, PumpCorrect, PTL DEF Spec, EgressPool, Egress!Spec

-----------------------------------------------------------------------------
(***************************************************************************)
(* The drain tasks match the ledger and what is held or served is charged, *)
(* for any order of the physical closes.                                   *)
(***************************************************************************)

(* An operation runs on, or has finished with, only a publication that is  *)
(* being retired; when it is done, the runtime does not serve it any more. *)
ClosingRetires ==
  \A f \in ResourceFence :
    /\ closing[f] # "none" => publication[f] = "draining"
    /\ closing[f] = "closed" => publisher[f] \notin {"open", "closing"}

(* What a controller holds of the publications P.                          *)
HeldOfAll(P) == {s \in heldSubscriptions : PublicationOf(s) \in P}

TasksMatch ==
  /\ \A f \in ResourceFence : publication[f] = "draining" <=> f \in publicationTasks
  /\ \A s \in SubscriptionFence :
       /\ s \in subscriptionTasks => subscription[s] = "draining"
       /\ subscription[s] = "draining" =>
            (s \in subscriptionTasks) # (PublicationOf(s) \in publicationTasks)

RetirementInv ==
  /\ RetirementTypeOK /\ LedgerInv /\ TasksMatch
  /\ HeldIsLive /\ ServedPublicationCharged /\ ClosingRetires

LEMMA InitRetirement == RetirementInit => RetirementInv
<1> SUFFICES ASSUME RetirementInit PROVE RetirementInv
  OBVIOUS
<1>1. LedgerInv
  BY InitLedger DEF RetirementInit
<1>2. RetirementTypeOK
  BY <1>1 DEF RetirementInit, RetirementTypeOK, LedgerInv
<1> QED BY <1>1, <1>2, FenceParts DEF RetirementInit, AdmissionInit, RetirementInv, TasksMatch, HeldIsLive, Live,
             ServedPublicationCharged, ClosingRetires, Fences

-----------------------------------------------------------------------------
(* Steps that leave the ledger, its tasks and what is held alone           *)

LEMMA LedgerStill ==
  ASSUME RetirementInv, RetirementTypeOK', stopping' = stopping,
         UNCHANGED <<admissionVars, heldVars, publicationTasks, subscriptionTasks>>,
         \A f \in ResourceFence :
           /\ closing'[f] # "none" => closing[f] # "none"
           /\ closing'[f] = "closed" => publisher'[f] \notin {"open", "closing"}
           /\ publisher'[f] \in {"open", "closing"} =>
                publisher[f] \in {"open", "closing"} \/ Live(publication[f])
  PROVE  RetirementInv'
<1> USE DEF RetirementInv, heldVars
<1>1. LedgerInv'
  BY StepLedger
<1>2. TasksMatch'
  BY DEF TasksMatch, admissionVars
<1>3. HeldIsLive'
  BY DEF HeldIsLive, HasSubscription, Live, admissionVars
<1>4. ServedPublicationCharged' /\ ClosingRetires'
  BY DEF ServedPublicationCharged, ClosingRetires, Live, admissionVars
<1> QED BY <1>1, <1>2, <1>3, <1>4

LEMMA FencesApart ==
  /\ \A f \in ResourceFence : f \in Fences /\ f \notin SubscriptionFence
  /\ \A s \in SubscriptionFence : s \in Fences /\ s \notin ResourceFence
BY RetirementAssumption DEF Fences

LEMMA StepHostOffer ==
  ASSUME RetirementInv, NEW f \in ResourceFence, HostOffer(f)
  PROVE  RetirementInv'
<1> USE DEF HostOffer, taskVars
<1>1. Live(publication[f]) /\ closing[f] = "none"
  BY DEF HostAuthorized, HasPublication, RetirementInv, ClosingRetires, Live
<1>2. RetirementTypeOK'
  BY DEF RetirementInv, RetirementTypeOK, AdmissionTypeOK, admissionVars, heldVars
<1>3. \A g \in ResourceFence : publisher'[g] = IF g = f THEN "open" ELSE publisher[g]
  BY DEF RetirementInv, RetirementTypeOK
<1> QED BY <1>1, <1>2, <1>3, LedgerStill DEF RetirementInv, ClosingRetires

LEMMA StepPhysical ==
  ASSUME RetirementInv, NEW f \in ResourceFence,
         CloseDetached(f) \/ BeginClosePublication(f) \/ ClosePublication(f)
  PROVE  RetirementInv'
<1>1. CASE CloseDetached(f)
  <2> USE <1>1 DEF CloseDetached, taskVars, goroutineVars
  <2>1. RetirementTypeOK'
    BY DEF RetirementInv, RetirementTypeOK, AdmissionTypeOK, admissionVars, heldVars
  <2>2. \A g \in ResourceFence : publisher'[g] = IF g = f THEN "none" ELSE publisher[g]
    BY DEF RetirementInv, RetirementTypeOK
  <2> QED BY <2>1, <2>2, LedgerStill DEF RetirementInv, ClosingRetires
<1>2. CASE BeginClosePublication(f)
  <2> USE <1>2 DEF BeginClosePublication, taskVars, goroutineVars
  <2>1. RetirementTypeOK'
    BY DEF RetirementInv, RetirementTypeOK, AdmissionTypeOK, admissionVars, heldVars
  <2>2. \A g \in ResourceFence : publisher'[g] = IF g = f THEN "closing" ELSE publisher[g]
    BY DEF RetirementInv, RetirementTypeOK
  <2> QED BY <2>1, <2>2, LedgerStill DEF RetirementInv, ClosingRetires
<1>3. CASE ClosePublication(f)
  <2> USE <1>3 DEF ClosePublication, physicalVars, goroutineVars
  <2>1. /\ closing[f] = "running" /\ publisher'[f] \notin {"open", "closing"}
        /\ publisher' \in [ResourceFence -> {"none", "open", "closing", "detached"}]
        /\ \A g \in ResourceFence : g # f => publisher'[g] = publisher[g]
        /\ peer' \in [SubscriptionFence -> {"none", "preparing", "open"}]
    BY DEF RetirementInv, RetirementTypeOK
  <2>2. /\ closing' \in [Fences -> {"none", "running", "closed", "failed"}]
        /\ \A g \in ResourceFence : g # f => closing'[g] = closing[g]
    BY FencesApart DEF RetirementInv, RetirementTypeOK
  <2>3. RetirementTypeOK'
    BY <2>1, <2>2 DEF RetirementInv, RetirementTypeOK, AdmissionTypeOK, admissionVars, heldVars
  <2>4. publisher[f] \in {"none", "detached", "closing"}
    OBVIOUS
  <2> QED BY <2>1, <2>2, <2>3, LedgerStill DEF RetirementInv, ClosingRetires
<1> QED BY <1>1, <1>2, <1>3

\* Subscribers come and go without anything that concerns a publication.
LEMMA StepSubscriberPhysical ==
  ASSUME RetirementInv, NEW s \in SubscriptionFence,
         RegisterSubscriber(s) \/ FinishPreparation(s) \/ CloseUntracked(s) \/ CloseSubscription(s)
  PROVE  RetirementInv'
<1>1. /\ UNCHANGED <<admissionVars, heldVars, publicationTasks, subscriptionTasks, publisher>>
      /\ UNCHANGED <<offers, stopping>>
  BY DEF RegisterSubscriber, FinishPreparation, CloseUntracked, CloseSubscription, taskVars,
     goroutineVars
<1>2. /\ peer' \in [SubscriptionFence -> {"none", "preparing", "open"}]
      /\ untracked' \subseteq SubscriptionFence
      /\ preparation' \in
           [SubscriptionFence -> {"none", "spawned", "preparing", "offered", "failed"}]
  BY DEF RetirementInv, RetirementTypeOK, RegisterSubscriber, FinishPreparation, CloseUntracked,
     CloseSubscription, goroutineVars
<1>3. /\ closing' \in [Fences -> {"none", "running", "closed", "failed"}]
      /\ \A f \in ResourceFence : closing'[f] = closing[f]
  BY FencesApart DEF RetirementInv, RetirementTypeOK, RegisterSubscriber, FinishPreparation, CloseUntracked,
     CloseSubscription, taskVars
<1>4. RetirementTypeOK'
  BY <1>1, <1>2, <1>3 DEF RetirementInv, RetirementTypeOK, AdmissionTypeOK, admissionVars, heldVars
<1> QED BY <1>1, <1>3, <1>4, LedgerStill DEF RetirementInv, ClosingRetires

-----------------------------------------------------------------------------
(* Releasing                                                               *)

\* releaseResources, whatever the physical side does meanwhile, as long as nothing stays
\* held under a publication that is released.
LEMMA StepReleaseHeld ==
  ASSUME RetirementInv, NEW P \in SUBSET ResourceFence, NEW S \in SUBSET SubscriptionFence,
         ReleaseHeld(P, S), HeldOfAll(P) \subseteq S,
         publisher' = publisher, ~stopping' => ~stopping
  PROVE  /\ LedgerInv' /\ TasksMatch' /\ HeldIsLive'
         /\ ServedPublicationCharged' /\ ClosingRetires'
         /\ heldPublications' \subseteq ResourceFence /\ heldSubscriptions' \subseteq SubscriptionFence
         /\ publicationTasks' \subseteq ResourceFence /\ subscriptionTasks' \subseteq SubscriptionFence
         /\ closing' \in [Fences -> {"none", "running", "closed", "failed"}]
<1> DEFINE draining == {f \in P : publication[f] # "absent"}
           leaving == {s \in S : subscription[s] # "absent"}
           alone == {s \in leaving : PublicationOf(s) \notin publicationTasks \cup draining}
<1> USE DEF RetirementInv, RetirementTypeOK
<1>1. \A f \in ResourceFence :
        /\ publication'[f] = IF f \in draining THEN "draining" ELSE publication[f]
        /\ f \in draining <=> f \in P /\ publication[f] # "absent"
  BY DEF ReleaseHeld
<1>2. \A s \in SubscriptionFence :
        /\ PublicationOf(s) \in ResourceFence
        /\ publication[PublicationOf(s)] = "absent" => subscription[s] = "absent"
        /\ subscription'[s] =
             IF subscription[s] # "absent" /\ (s \in S \/ PublicationOf(s) \in P)
             THEN "draining" ELSE subscription[s]
  BY FenceParts DEF ReleaseHeld, LedgerInv, SubscriptionFollowsPublication
<1>3. LedgerInv'
  <2>1. publication' = [f \in ResourceFence |->
          IF f \in P /\ publication[f] # "absent" THEN "draining" ELSE publication[f]]
    BY DEF ReleaseHeld
  <2>2. subscription' = [s \in SubscriptionFence |->
          IF subscription[s] # "absent" /\ (s \in S \/ PublicationOf(s) \in P)
          THEN "draining" ELSE subscription[s]]
    BY <1>2 DEF ReleaseHeld
  <2>3. UNCHANGED <<ingressInUse, egressInUse>>
    BY DEF ReleaseHeld
  <2> QED BY <2>1, <2>2, <2>3, StepReleaseUnits
<1>4. /\ publicationTasks' = publicationTasks \cup draining
      /\ subscriptionTasks' = {s \in subscriptionTasks : PublicationOf(s) \notin draining} \cup alone
      /\ closing' = [x \in Fences |->
           IF x \in draining \cup alone /\ closing[x] = "none" THEN "running" ELSE closing[x]]
      /\ heldPublications' = heldPublications \ P
      /\ heldSubscriptions' = heldSubscriptions \ S
  BY DEF ReleaseHeld, Schedule
<1>5. /\ draining \subseteq ResourceFence /\ alone \subseteq SubscriptionFence
      /\ \A s \in SubscriptionFence : s \in alone <=>
           /\ s \in S /\ subscription[s] # "absent"
           /\ PublicationOf(s) \notin publicationTasks /\ PublicationOf(s) \notin draining
  OBVIOUS
<1> HIDE DEF draining, leaving, alone
<1>6. TasksMatch'
  BY <1>1, <1>2, <1>4, <1>5 DEF TasksMatch
<1>7. HeldIsLive'
  <2>1. ASSUME NEW f \in heldPublications' PROVE Live(publication'[f])
    BY <1>1, <1>4 DEF HeldIsLive, Live
  <2>2. ASSUME NEW s \in heldSubscriptions'
        PROVE  Live(publication'[PublicationOf(s)]) /\ Live(subscription'[s])
    BY <1>1, <1>2, <1>4 DEF HeldIsLive, HasSubscription, Live, HeldOfAll
  <2>3. ASSUME ~stopping', NEW f \in ResourceFence, Live(publication'[f])
        PROVE  f \in heldPublications'
    BY <1>1, <1>4, <2>3 DEF HeldIsLive, Live
  <2> QED BY <2>1, <2>2, <2>3 DEF HeldIsLive, HasSubscription, Live
<1>8. ServedPublicationCharged'
  BY <1>1 DEF ServedPublicationCharged
<1>9. ClosingRetires'
  BY <1>1, <1>4, <1>5, FencesApart DEF ClosingRetires
<1>10. closing' \in [Fences -> {"none", "running", "closed", "failed"}]
  BY <1>4
<1> QED BY <1>3, <1>4, <1>5, <1>6, <1>7, <1>8, <1>9, <1>10

\* A release by a step that only moves goroutines besides.
LEMMA ReleasingStep ==
  ASSUME RetirementInv, NEW P \in SUBSET ResourceFence, NEW S \in SUBSET SubscriptionFence,
         ReleaseHeld(P, S), HeldOfAll(P) \subseteq S,
         UNCHANGED <<publisher, peer>>, ~stopping' => ~stopping, stopping' \in BOOLEAN,
         preparation' \in
           [SubscriptionFence -> {"none", "spawned", "preparing", "offered", "failed"}],
         offers' \subseteq ResourceFence, untracked' \subseteq SubscriptionFence
  PROVE  RetirementInv'
<1>1. /\ LedgerInv' /\ TasksMatch' /\ HeldIsLive'
      /\ ServedPublicationCharged' /\ ClosingRetires'
      /\ heldPublications' \subseteq ResourceFence /\ heldSubscriptions' \subseteq SubscriptionFence
      /\ publicationTasks' \subseteq ResourceFence /\ subscriptionTasks' \subseteq SubscriptionFence
      /\ closing' \in [Fences -> {"none", "running", "closed", "failed"}]
  BY StepReleaseHeld
<1>2. RetirementTypeOK'
  BY <1>1 DEF RetirementInv, RetirementTypeOK, LedgerInv
<1> QED BY <1>1, <1>2 DEF RetirementInv

\* The sets the code releases together.
LEMMA HeldSets ==
  ASSUME RetirementTypeOK
  PROVE  /\ \A f \in ResourceFence :
              HeldOf(f) \in SUBSET SubscriptionFence /\ HeldOfAll({f}) = HeldOf(f)
         /\ HeldOfAll({}) = {}
BY DEF RetirementTypeOK, HeldOf, HeldOfAll

LEMMA ReleasesConnection ==
  ASSUME RetirementInv, NEW s \in SubscriptionFence, FailConnection(s),
         UNCHANGED <<publisher, peer, stopping>>,
         preparation' \in
           [SubscriptionFence -> {"none", "spawned", "preparing", "offered", "failed"}],
         offers' \subseteq ResourceFence, untracked' \subseteq SubscriptionFence
  PROVE  RetirementInv'
<1> DEFINE f == PublicationOf(s)
<1>1. f \in ResourceFence /\ RetirementTypeOK /\ stopping' \in BOOLEAN
  BY FenceParts DEF RetirementInv, RetirementTypeOK
<1>2. CASE publication[f] = "reserved"
  <2>1. ReleaseHeld({f}, HeldOf(f)) /\ {f} \in SUBSET ResourceFence
    BY <1>1, <1>2 DEF FailConnection
  <2>2. HeldOf(f) \in SUBSET SubscriptionFence /\ HeldOfAll({f}) \subseteq HeldOf(f)
    BY <1>1, HeldSets
  <2> QED BY <1>1, <2>1, <2>2, ReleasingStep
<1>3. CASE publication[f] # "reserved"
  <2>1. ReleaseHeld({}, {s}) /\ {s} \in SUBSET SubscriptionFence /\ {} \in SUBSET ResourceFence
    BY <1>3 DEF FailConnection
  <2>2. HeldOfAll({}) \subseteq {s}
    BY <1>1, HeldSets
  <2> QED BY <1>1, <2>1, <2>2, ReleasingStep
<1> QED BY <1>2, <1>3

LEMMA StepReleaseSubscription ==
  ASSUME RetirementInv, NEW s \in SubscriptionFence, ReleaseSubscription(s)
  PROVE  RetirementInv'
<1> DEFINE f == PublicationOf(s)
<1>1. /\ f \in ResourceFence /\ RetirementTypeOK /\ UNCHANGED <<publisher, peer, stopping>>
      /\ stopping' \in BOOLEAN
      /\ preparation' \in
           [SubscriptionFence -> {"none", "spawned", "preparing", "offered", "failed"}]
      /\ offers' \subseteq ResourceFence /\ untracked' \subseteq SubscriptionFence
  BY FenceParts DEF RetirementInv, RetirementTypeOK, ReleaseSubscription, physicalVars, goroutineVars
<1>2. CASE ReleaseHeld({f}, HeldOf(f))
  <2>1. /\ {f} \in SUBSET ResourceFence /\ HeldOf(f) \in SUBSET SubscriptionFence
        /\ HeldOfAll({f}) \subseteq HeldOf(f)
    BY <1>1, HeldSets
  <2> QED BY <1>1, <1>2, <2>1, ReleasingStep
<1>3. CASE FailConnection(s)
  BY <1>1, <1>3, ReleasesConnection
<1> QED BY <1>2, <1>3 DEF ReleaseSubscription

LEMMA StepRetirePublication ==
  ASSUME RetirementInv, NEW f \in ResourceFence, RetirePublication(f)
  PROVE  RetirementInv'
<1>1. /\ {f} \in SUBSET ResourceFence /\ HeldOf(f) \in SUBSET SubscriptionFence
      /\ HeldOfAll({f}) \subseteq HeldOf(f)
  BY HeldSets DEF RetirementInv
<1>2. /\ ReleaseHeld({f}, HeldOf(f)) /\ UNCHANGED <<publisher, peer, stopping>>
      /\ stopping' \in BOOLEAN
      /\ preparation' \in
           [SubscriptionFence -> {"none", "spawned", "preparing", "offered", "failed"}]
      /\ offers' \subseteq ResourceFence /\ untracked' \subseteq SubscriptionFence
  BY DEF RetirementInv, RetirementTypeOK, RetirePublication, physicalVars, goroutineVars
<1> QED BY <1>1, <1>2, ReleasingStep

LEMMA ClearingStep ==
  ASSUME RetirementInv, NEW R, Clear(R), UNCHANGED <<physicalVars, goroutineVars>>,
         ~stopping' => ~stopping, stopping' \in BOOLEAN
  PROVE  RetirementInv'
<1> DEFINE P == {f \in ResourceFence : RoomOf(f) \in R}
<1>1. ReleaseHeld(P, HeldOfAll(P)) /\ P \in SUBSET ResourceFence
  BY DEF Clear, HeldOfAll
<1> HIDE DEF P
<1>2. HeldOfAll(P) \in SUBSET SubscriptionFence
  BY DEF HeldOfAll, RetirementInv, RetirementTypeOK
<1>3. /\ UNCHANGED <<publisher, peer>>
      /\ preparation' \in
           [SubscriptionFence -> {"none", "spawned", "preparing", "offered", "failed"}]
      /\ offers' \subseteq ResourceFence /\ untracked' \subseteq SubscriptionFence
  BY DEF RetirementInv, RetirementTypeOK, physicalVars, goroutineVars
<1> QED BY <1>1, <1>2, <1>3, ReleasingStep

LEMMA StepSettleOffer ==
  ASSUME RetirementInv, NEW f \in ResourceFence, SettleOffer(f)
  PROVE  RetirementInv'
<1>1. /\ UNCHANGED <<peer, untracked, stopping>> /\ offers' \subseteq ResourceFence
      /\ stopping' \in BOOLEAN
  BY DEF SettleOffer, RetirementInv, RetirementTypeOK
<1>2. CASE UNCHANGED <<admissionVars, heldVars, taskVars, publisher>> /\ HostAuthorized(f)
           /\ preparation' = [s \in SubscriptionFence |->
                IF s \in HeldOf(f) /\ subscription[s] = "reserved" THEN "spawned" ELSE preparation[s]]
  <2>1. preparation' \in
          [SubscriptionFence -> {"none", "spawned", "preparing", "offered", "failed"}]
    BY <1>2 DEF RetirementInv, RetirementTypeOK
  <2>2. RetirementTypeOK'
    BY <1>1, <1>2, <2>1 DEF RetirementInv, RetirementTypeOK, AdmissionTypeOK, admissionVars, heldVars, taskVars
  <2> QED BY <1>1, <1>2, <2>2, LedgerStill DEF taskVars, RetirementInv, ClosingRetires
<1>3. CASE ReleaseHeld({f}, HeldOf(f)) /\ UNCHANGED <<publisher, preparation>>
  <2>1. /\ {f} \in SUBSET ResourceFence /\ HeldOf(f) \in SUBSET SubscriptionFence
        /\ HeldOfAll({f}) \subseteq HeldOf(f)
    BY HeldSets DEF RetirementInv
  <2>2. /\ preparation' \in
             [SubscriptionFence -> {"none", "spawned", "preparing", "offered", "failed"}]
        /\ untracked' \subseteq SubscriptionFence
    BY <1>1, <1>3 DEF RetirementInv, RetirementTypeOK
  <2> QED BY <1>1, <1>3, <2>1, <2>2, ReleasingStep
<1>4. CASE publisher' = [publisher EXCEPT ![f] = IF @ = "open" THEN "detached" ELSE @]
           /\ UNCHANGED <<admissionVars, heldVars, taskVars, preparation>>
  <2>1. /\ publisher' \in [ResourceFence -> {"none", "open", "closing", "detached"}]
        /\ \A g \in ResourceFence : publisher'[g] = publisher[g] \/ publisher'[g] = "detached"
    BY <1>4 DEF RetirementInv, RetirementTypeOK
  <2>2. RetirementTypeOK'
    BY <1>1, <1>4, <2>1 DEF RetirementInv, RetirementTypeOK, AdmissionTypeOK, admissionVars, heldVars, taskVars
  <2> QED BY <1>1, <1>4, <2>1, <2>2, LedgerStill DEF taskVars, RetirementInv, ClosingRetires
<1> QED BY <1>2, <1>3, <1>4 DEF SettleOffer

LEMMA StepSettlePreparation ==
  ASSUME RetirementInv, NEW s \in SubscriptionFence, SettlePreparation(s)
  PROVE  RetirementInv'
<1>1. /\ UNCHANGED <<publisher, peer, offers, stopping>> /\ offers' \subseteq ResourceFence
      /\ untracked' \subseteq SubscriptionFence
      /\ preparation' \in
           [SubscriptionFence -> {"none", "spawned", "preparing", "offered", "failed"}]
  BY DEF SettlePreparation, physicalVars, RetirementInv, RetirementTypeOK
<1>2. CASE FailConnection(s)
  BY <1>1, <1>2, ReleasesConnection
<1>3. CASE UNCHANGED <<admissionVars, heldVars, taskVars>>
  <2>1. RetirementTypeOK'
    BY <1>1, <1>3 DEF RetirementInv, RetirementTypeOK, AdmissionTypeOK, admissionVars, heldVars, taskVars
  <2> QED BY <1>1, <1>3, <2>1, LedgerStill DEF taskVars, RetirementInv, ClosingRetires
<1> QED BY <1>2, <1>3 DEF SettlePreparation

-----------------------------------------------------------------------------
(* Reserving, committing and freeing                                       *)

LEMMA StepCreateCandidate ==
  ASSUME RetirementInv, NEW s \in SubscriptionFence, CreateCandidate(s)
  PROVE  RetirementInv'
<1> DEFINE f == PublicationOf(s)
<1> USE DEF RetirementInv
<1>1. /\ f \in ResourceFence /\ publication[f] = "absent" /\ publisher[f] = "none"
      /\ closing[f] = "none" /\ ~stopping /\ CanReservePublication(f)
      /\ ingressInUse' = ingressInUse + 1
      /\ UNCHANGED <<publisher, peer, preparation, offers, untracked, stopping>>
  BY FenceParts DEF CreateCandidate, UnnamedPublication, physicalVars, goroutineVars
<1>2. \A t \in SubscriptionFence : PublicationOf(t) = f => subscription[t] = "absent"
  BY <1>1 DEF LedgerInv, SubscriptionFollowsPublication
<1>3. f \notin publicationTasks /\ \A t \in subscriptionTasks : PublicationOf(t) # f
  BY <1>1, <1>2 DEF TasksMatch, RetirementTypeOK
<1>4. CASE egressInUse < EgressCapacity
  <2>1. /\ publication' = [publication EXCEPT ![f] = "reserved"]
        /\ subscription' = [subscription EXCEPT ![s] = "reserved"]
        /\ egressInUse' = egressInUse + 1
        /\ heldPublications' = heldPublications \cup {f}
        /\ heldSubscriptions' = heldSubscriptions \cup {s}
        /\ UNCHANGED <<publicationTasks, subscriptionTasks, closing>>
    BY <1>4 DEF CreateCandidate, taskVars
  <2>2. LedgerInv'
    BY <1>1, <1>4, <2>1, StepReserveBoth
  <2>3. /\ \A g \in ResourceFence :
             publication'[g] = IF g = f THEN "reserved" ELSE publication[g]
        /\ \A t \in SubscriptionFence :
             subscription'[t] = IF t = s THEN "reserved" ELSE subscription[t]
    BY <1>1, <2>1 DEF RetirementTypeOK, AdmissionTypeOK
  <2> HIDE DEF f
  <2>4. RetirementTypeOK'
    BY <1>1, <2>1, <2>2 DEF RetirementTypeOK, LedgerInv
  <2>5. TasksMatch'
    BY <1>1, <1>2, <2>1, <2>3 DEF TasksMatch, f
  <2>6. HeldIsLive'
    <3>1. ASSUME NEW g \in heldPublications' PROVE Live(publication'[g])
      BY <1>1, <2>1, <2>3 DEF RetirementTypeOK, HeldIsLive, Live
    <3>2. ASSUME NEW t \in heldSubscriptions'
          PROVE  Live(publication'[PublicationOf(t)]) /\ Live(subscription'[t])
      BY <1>1, <2>1, <2>3, FenceParts DEF RetirementTypeOK, HeldIsLive, HasSubscription, Live, f
    <3>3. ASSUME NEW g \in ResourceFence, Live(publication'[g]) PROVE g \in heldPublications'
      BY <1>1, <2>1, <2>3, <3>3 DEF HeldIsLive, Live
    <3> QED BY <3>1, <3>2, <3>3 DEF HeldIsLive, HasSubscription, Live
  <2>7. ServedPublicationCharged' /\ ClosingRetires'
    BY <1>1, <2>1, <2>3 DEF ServedPublicationCharged, ClosingRetires
  <2> QED BY <2>2, <2>4, <2>5, <2>6, <2>7
<1>5. CASE ~(egressInUse < EgressCapacity)
  <2>1. /\ publication' = [publication EXCEPT ![f] = "draining"]
        /\ Schedule({f}, {})
        /\ UNCHANGED <<subscription, egressInUse, heldPublications, heldSubscriptions>>
    BY <1>5 DEF CreateCandidate, heldVars
  <2>2. LedgerInv'
    BY <1>1, <2>1, StepReserveRefused
  <2>3. \A g \in ResourceFence : publication'[g] = IF g = f THEN "draining" ELSE publication[g]
    BY <1>1, <2>1 DEF RetirementTypeOK, AdmissionTypeOK
  <2>4. /\ publicationTasks' = publicationTasks \cup {f}
        /\ subscriptionTasks' = {t \in subscriptionTasks : PublicationOf(t) # f}
        /\ closing' = [x \in Fences |-> IF x = f /\ closing[x] = "none" THEN "running" ELSE closing[x]]
    BY <2>1 DEF Schedule
  <2> HIDE DEF f
  <2>5. RetirementTypeOK'
    BY <1>1, <2>1, <2>2, <2>4 DEF RetirementTypeOK, LedgerInv
  <2>6. TasksMatch'
    <3>1. subscriptionTasks' = subscriptionTasks
      BY <1>3, <2>4
    <3>2. ASSUME NEW t \in SubscriptionFence, subscription[t] = "draining" PROVE PublicationOf(t) # f
      BY <1>2, <3>2
    <3> QED BY <1>1, <2>1, <2>3, <2>4, <3>1, <3>2 DEF TasksMatch
  <2>7. HeldIsLive'
    <3>1. ASSUME NEW g \in heldPublications PROVE Live(publication'[g])
      BY <1>1, <2>3 DEF RetirementTypeOK, HeldIsLive, Live
    <3>2. ASSUME NEW t \in heldSubscriptions
          PROVE  Live(publication'[PublicationOf(t)]) /\ Live(subscription[t])
      BY <1>1, <2>3, FenceParts DEF RetirementTypeOK, HeldIsLive, HasSubscription, Live
    <3>3. ASSUME NEW g \in ResourceFence, Live(publication'[g]) PROVE g \in heldPublications
      BY <1>1, <2>3, <3>3 DEF HeldIsLive, Live
    <3> QED BY <2>1, <3>1, <3>2, <3>3 DEF HeldIsLive, HasSubscription, Live
  <2>8. ServedPublicationCharged' /\ ClosingRetires'
    BY <1>1, <2>3, <2>4, FencesApart DEF ServedPublicationCharged, ClosingRetires
  <2> QED BY <2>2, <2>5, <2>6, <2>7, <2>8
<1> QED BY <1>4, <1>5

LEMMA StepReuseCandidate ==
  ASSUME RetirementInv, NEW s \in SubscriptionFence, ReuseCandidate(s)
  PROVE  RetirementInv'
<1> DEFINE f == PublicationOf(s)
<1> USE DEF RetirementInv
<1>1. /\ f \in ResourceFence /\ publication[f] = "committed" /\ subscription[s] = "absent"
      /\ ReserveSubscription(s) /\ heldSubscriptions' = heldSubscriptions \cup {s}
      /\ preparation' = [preparation EXCEPT ![s] = "spawned"]
      /\ UNCHANGED <<heldPublications, publicationTasks, subscriptionTasks, closing>>
      /\ UNCHANGED <<publisher, peer, offers, untracked, stopping>>
  BY FenceParts DEF ReuseCandidate, UnnamedSubscription, taskVars, physicalVars
<1>2. LedgerInv'
  BY <1>1, StepReserveSubscription
<1>3. publication' = publication
      /\ \A t \in SubscriptionFence : subscription'[t] = IF t = s THEN "reserved" ELSE subscription[t]
  BY <1>1 DEF ReserveSubscription, RetirementTypeOK, AdmissionTypeOK
<1>4. RetirementTypeOK'
  BY <1>1, <1>2 DEF RetirementTypeOK, LedgerInv
<1>5. TasksMatch'
  BY <1>1, <1>3 DEF TasksMatch
<1>6. HeldIsLive'
  BY <1>1, <1>3 DEF RetirementTypeOK, HeldIsLive, HasSubscription, Live
<1>7. ServedPublicationCharged' /\ ClosingRetires'
  BY <1>1, <1>3 DEF ServedPublicationCharged, ClosingRetires
<1> QED BY <1>2, <1>4, <1>5, <1>6, <1>7

\* The publications a commit displaces get the task that will free them, and whoever held
\* them lets go.
LEMMA StepCommitCandidate ==
  ASSUME RetirementInv, NEW s \in SubscriptionFence, CommitCandidate(s)
  PROVE  RetirementInv'
<1> DEFINE f == PublicationOf(s)
           old == Displaced(f)
<1> USE DEF RetirementInv
<1>1. /\ f \in ResourceFence /\ subscription[s] = "reserved" /\ ~stopping
      /\ UNCHANGED <<publisher, peer, preparation, offers, untracked, stopping>>
  BY FenceParts DEF CommitCandidate, ViewerAuthorized, physicalVars, goroutineVars
<1>2. CASE publication[f] = "reserved"
  <2>1. /\ CommitPublication(f) /\ Schedule(old, {})
        /\ heldPublications' = heldPublications \ old
        /\ heldSubscriptions' = {t \in heldSubscriptions : PublicationOf(t) \notin old}
    BY <1>2 DEF CommitCandidate
  <2>2. LedgerInv'
    BY <1>1, <2>1, StepCommitPublication
  <2>3. /\ old \subseteq ResourceFence /\ f \notin old
        /\ \A g \in old : publication[g] = "committed"
    BY DEF Displaced
  <2>4. /\ \A g \in ResourceFence : publication'[g] =
             IF g = f THEN "committed" ELSE IF g \in old THEN "draining" ELSE publication[g]
        /\ \A t \in SubscriptionFence : subscription'[t] =
             IF PublicationOf(t) \in old /\ subscription[t] # "absent" THEN "draining"
             ELSE IF PublicationOf(t) = f /\ subscription[t] = "reserved" THEN "committed"
             ELSE subscription[t]
    BY <2>1 DEF CommitPublication
  <2>5. /\ publicationTasks' = publicationTasks \cup old
        /\ subscriptionTasks' = {t \in subscriptionTasks : PublicationOf(t) \notin old}
        /\ closing' = [x \in Fences |->
                       IF x \in old /\ closing[x] = "none" THEN "running" ELSE closing[x]]
    BY <2>1 DEF Schedule
  <2> HIDE DEF old, f
  <2>6. RetirementTypeOK'
    BY <1>1, <2>1, <2>2, <2>3, <2>5 DEF RetirementTypeOK, LedgerInv
  <2>7. TasksMatch'
    BY <1>1, <1>2, <2>3, <2>4, <2>5, FenceParts DEF RetirementTypeOK, TasksMatch
  <2>8. HeldIsLive'
    <3>1. ASSUME NEW g \in heldPublications' PROVE Live(publication'[g])
      BY <2>1, <2>4 DEF RetirementTypeOK, HeldIsLive, Live
    <3>2. ASSUME NEW t \in heldSubscriptions'
          PROVE  Live(publication'[PublicationOf(t)]) /\ Live(subscription'[t])
      BY <2>1, <2>4, FenceParts DEF RetirementTypeOK, HeldIsLive, HasSubscription, Live
    <3>3. ASSUME NEW g \in ResourceFence, Live(publication'[g]) PROVE g \in heldPublications'
      BY <1>1, <1>2, <2>1, <2>3, <2>4, <3>3 DEF HeldIsLive, Live
    <3> QED BY <3>1, <3>2, <3>3 DEF HeldIsLive, HasSubscription, Live
  <2>9. ServedPublicationCharged' /\ ClosingRetires'
    BY <1>1, <1>2, <2>3, <2>4, <2>5, FencesApart DEF ServedPublicationCharged, ClosingRetires
  <2> QED BY <2>2, <2>6, <2>7, <2>8, <2>9
<1>3. CASE publication[f] # "reserved"
  <2>1. /\ CommitSubscription(s)
        /\ UNCHANGED <<heldPublications, heldSubscriptions,
                       publicationTasks, subscriptionTasks, closing>>
    BY <1>3 DEF CommitCandidate, heldVars, taskVars
  <2>2. LedgerInv'
    BY <2>1, StepSubscriptionState
  <2>3. publication' = publication /\ \A t \in SubscriptionFence :
          subscription'[t] = IF t = s THEN "committed" ELSE subscription[t]
    BY <2>1 DEF CommitSubscription, RetirementTypeOK, AdmissionTypeOK
  <2>4. RetirementTypeOK'
    BY <1>1, <2>1, <2>2 DEF RetirementTypeOK, LedgerInv
  <2>5. TasksMatch'
    BY <1>1, <2>1, <2>3 DEF TasksMatch
  <2>6. HeldIsLive'
    BY <1>1, <2>1, <2>3 DEF RetirementTypeOK, HeldIsLive, HasSubscription, Live
  <2>7. ServedPublicationCharged' /\ ClosingRetires'
    BY <1>1, <2>1, <2>3 DEF ServedPublicationCharged, ClosingRetires
  <2> QED BY <2>2, <2>4, <2>5, <2>6, <2>7
<1> QED BY <1>2, <1>3

LEMMA StepEndSubscriptionDrain ==
  ASSUME RetirementInv, NEW s \in SubscriptionFence, EndSubscriptionDrain(s)
  PROVE  RetirementInv'
<1> USE DEF RetirementInv
<1>1. /\ closing' = [closing EXCEPT ![s] = "none"]
      /\ UNCHANGED <<heldPublications, heldSubscriptions, publicationTasks>>
      /\ UNCHANGED <<publisher, peer, preparation, offers, untracked, stopping>>
  BY DEF EndSubscriptionDrain, heldVars, physicalVars, goroutineVars
<1>2. /\ closing' \in [Fences -> {"none", "running", "closed", "failed"}]
      /\ \A f \in ResourceFence : closing'[f] = closing[f]
  BY <1>1, FencesApart DEF RetirementTypeOK
<1>3. CASE UNCHANGED <<admissionVars, subscriptionTasks>>
  <2>1. RetirementTypeOK'
    BY <1>1, <1>2, <1>3 DEF RetirementTypeOK, AdmissionTypeOK, admissionVars
  <2> QED BY <1>1, <1>2, <1>3, <2>1, LedgerStill DEF ClosingRetires, heldVars
<1>4. CASE CompleteSubscriptionDrain(s) /\ subscriptionTasks' = subscriptionTasks \ {s}
  <2>1. LedgerInv'
    BY <1>4, StepCompleteSubscriptionDrain
  <2>2. /\ subscription[s] = "draining" /\ publication' = publication
        /\ \A t \in SubscriptionFence : subscription'[t] = IF t = s THEN "absent" ELSE subscription[t]
    BY <1>4 DEF CompleteSubscriptionDrain, RetirementTypeOK, AdmissionTypeOK
  <2>3. RetirementTypeOK'
    BY <1>1, <1>2, <1>4, <2>1 DEF RetirementTypeOK, LedgerInv
  <2>4. TasksMatch'
    BY <1>1, <1>4, <2>2 DEF TasksMatch
  <2>5. HeldIsLive'
    BY <1>1, <2>2 DEF RetirementTypeOK, HeldIsLive, HasSubscription, Live
  <2>6. ServedPublicationCharged' /\ ClosingRetires'
    BY <1>1, <1>2, <2>2 DEF ServedPublicationCharged, ClosingRetires
  <2> QED BY <2>1, <2>3, <2>4, <2>5, <2>6
<1> QED BY <1>3, <1>4 DEF EndSubscriptionDrain

LEMMA StepEndPublicationDrain ==
  ASSUME RetirementInv, NEW f \in ResourceFence, EndPublicationDrain(f)
  PROVE  RetirementInv'
<1> USE DEF RetirementInv
<1>1. /\ closing' = [closing EXCEPT ![f] = "none"]
      /\ UNCHANGED <<heldPublications, heldSubscriptions, subscriptionTasks>>
      /\ UNCHANGED <<publisher, peer, preparation, offers, untracked, stopping>>
  BY DEF EndPublicationDrain, heldVars, physicalVars, goroutineVars
<1>2. /\ closing' \in [Fences -> {"none", "running", "closed", "failed"}]
      /\ \A g \in ResourceFence : closing'[g] = IF g = f THEN "none" ELSE closing[g]
  BY <1>1, FencesApart DEF RetirementTypeOK
<1>3. CASE UNCHANGED <<admissionVars, publicationTasks>>
  <2>1. RetirementTypeOK'
    BY <1>1, <1>2, <1>3 DEF RetirementTypeOK, AdmissionTypeOK, admissionVars
  <2> QED BY <1>1, <1>2, <1>3, <2>1, LedgerStill DEF ClosingRetires, heldVars
<1>4. CASE closing[f] = "closed" /\ CompleteDrain(f) /\ publicationTasks' = publicationTasks \ {f}
  <2>1. LedgerInv'
    BY <1>4, StepCompleteDrain
  <2>2. /\ publication[f] = "draining" /\ publisher[f] \notin {"open", "closing"}
        /\ \A g \in ResourceFence : publication'[g] = IF g = f THEN "absent" ELSE publication[g]
        /\ \A t \in SubscriptionFence :
             subscription'[t] = IF PublicationOf(t) = f THEN "absent" ELSE subscription[t]
    BY <1>4 DEF CompleteDrain, RetirementTypeOK, AdmissionTypeOK, ClosingRetires
  <2>3. RetirementTypeOK'
    BY <1>1, <1>2, <1>4, <2>1 DEF RetirementTypeOK, LedgerInv
  <2>4. f \in publicationTasks /\ \A t \in subscriptionTasks : PublicationOf(t) # f
    BY <2>2 DEF RetirementTypeOK, TasksMatch
  <2>5. TasksMatch'
    BY <1>1, <1>4, <2>2, <2>4 DEF RetirementTypeOK, TasksMatch
  <2>6. HeldIsLive'
    <3>1. ASSUME NEW g \in heldPublications PROVE Live(publication'[g])
      BY <2>2 DEF RetirementTypeOK, HeldIsLive, Live
    <3>2. ASSUME NEW t \in heldSubscriptions
          PROVE  Live(publication'[PublicationOf(t)]) /\ Live(subscription'[t])
      BY <2>2, FenceParts DEF RetirementTypeOK, HeldIsLive, HasSubscription, Live
    <3>3. ASSUME ~stopping, NEW g \in ResourceFence, Live(publication'[g]) PROVE g \in heldPublications
      BY <2>2, <3>3 DEF HeldIsLive, Live
    <3> QED BY <1>1, <3>1, <3>2, <3>3 DEF HeldIsLive, HasSubscription, Live
  <2>7. ServedPublicationCharged' /\ ClosingRetires'
    BY <1>1, <1>2, <2>2 DEF ServedPublicationCharged, ClosingRetires
  <2> QED BY <2>1, <2>3, <2>5, <2>6, <2>7
<1> QED BY <1>3, <1>4 DEF EndPublicationDrain

LEMMA StepRetirement == RetirementInv /\ [RetirementNext]_retirementVars => RetirementInv'
<1> SUFFICES ASSUME RetirementInv, [RetirementNext]_retirementVars PROVE RetirementInv'
  OBVIOUS
<1>1. CASE UNCHANGED retirementVars
  <2> USE <1>1 DEF retirementVars, heldVars, taskVars, physicalVars, goroutineVars
  <2>1. RetirementTypeOK'
    BY DEF RetirementInv, RetirementTypeOK, AdmissionTypeOK, admissionVars
  <2> QED BY <2>1, LedgerStill DEF RetirementInv, ClosingRetires
<1>2. ASSUME NEW r \in Rooms, ClearRoom(r) PROVE RetirementInv'
  BY <1>2, ClearingStep DEF ClearRoom, RetirementInv, RetirementTypeOK
<1>3. CASE Stop
  BY <1>3, ClearingStep DEF Stop
<1>4. CASE RoomStep
  BY <1>2, <1>4, StepCreateCandidate, StepReuseCandidate, StepCommitCandidate,
     StepReleaseSubscription, StepRetirePublication, StepHostOffer DEF RoomStep
<1>5. ASSUME NEW s \in SubscriptionFence, SubscriberStep(s) PROVE RetirementInv'
  BY <1>5, StepSubscriberPhysical, StepSettlePreparation, StepEndSubscriptionDrain
     DEF SubscriberStep
<1>6. ASSUME NEW f \in ResourceFence, PublisherStep(f) PROVE RetirementInv'
  BY <1>6, StepSettleOffer, StepPhysical, StepEndPublicationDrain DEF PublisherStep
<1> QED BY <1>1, <1>3, <1>4, <1>5, <1>6 DEF RetirementNext

LEMMA RetirementCorrect == RetirementSpec => []RetirementInv
BY InitRetirement, StepRetirement, PTL DEF RetirementSpec

(* Every draining entry has exactly one task and no task is for anything   *)
(* else, whatever drains, absorbed tasks and late settlements interleave   *)
(* (DrainsMatchLedger).                                                    *)
THEOREM DrainsMatch == RetirementSpec => []DrainsMatchLedger
<1>1. RetirementInv => DrainsMatchLedger
  BY DEF RetirementInv, TasksMatch, DrainsMatchLedger
<1> QED BY <1>1, RetirementCorrect, PTL

(* What a controller holds is in service, and the runtime serves no        *)
(* publication whose unit was freed (HoldersAreCharged).                   *)
THEOREM HoldersCharged == RetirementSpec => []HoldersAreCharged
<1>1. RetirementInv => HoldersAreCharged
  BY DEF RetirementInv, HoldersAreCharged
<1> QED BY <1>1, RetirementCorrect, PTL
=============================================================================
