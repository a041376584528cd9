------------------------------- MODULE SfuPump -------------------------------
(***************************************************************************)
(* How rooms compete for the SFU (internal/server/signal): the single-     *)
(* flight candidate pump of each room, the reservations it makes, the set  *)
(* of rooms that wait for SFU capacity and the drains that wake them.      *)
(*                                                                         *)
(* The authority mutex is released between the synchronous prefix of a     *)
(* pump (requestPump) and its remainder (drivePump), so a reservation      *)
(* outlives the facts it was made under.  A handler that ends in           *)
(* requestPump leaves the room in due: nothing else runs before the pump   *)
(* is requested, because the handler still holds the mutex.                *)
(*                                                                         *)
(* The controller of a room is reduced to what decides its SFU use: whether*)
(* its operation has an SFU candidate at the cursor, the candidate in      *)
(* flight and the committed SFU edges.  The physical close behind a drain  *)
(* is the module SfuRetirement; here a draining unit may settle any time.  *)
(***************************************************************************)
EXTENDS SfuAdmission, Sequences, SequencesExt

CONSTANT MaxOrphans   \* bound: pumps whose room was cleared, still to run

NoFence == <<>>
None == [outcome |-> "none"]
Denied == [outcome |-> "sfu-admission"]
NoRoom == [outcome |-> "no-room"]

ASSUME PumpAssumption == NoRoom \notin Rooms /\ MaxOrphans \in Nat

VARIABLES share,           \* rooms with a live controller
          wants,           \* rooms whose operation has an SFU candidate at the cursor
          hostPublication, \* the committed publication of a room's controller
          edges,           \* subscriptions of committed, physically active edges
          current,         \* the reservation of a room's candidate in flight
          pumping,         \* rooms whose pump token is taken
          requested,       \* rooms whose pump must run once more
          pending,         \* what the synchronous prefix left for drivePump
          stale,           \* rooms whose facts moved since pending was computed
          orphans,         \* reservations of pumps whose room was cleared
          waiters,         \* resourceWaiters: rooms denied by admission, oldest first
          due,             \* requestPump calls the mutex holder has still to make
          driving,         \* the room whose drivePump holds the mutex, if any
          again            \* the driving pump must select another candidate

controllerVars == <<share, wants, hostPublication, edges, current>>
pumpVars == <<pumping, requested, pending, stale, orphans>>
lockVars == <<due, driving, again>>
vars == <<admissionVars, controllerVars, pumpVars, waiters, lockVars>>

\* A reservation charges a subscription and, when it creates one, a publication.
Reservations == [fence : SubscriptionFence, creates : BOOLEAN]

RoomOfReservation(x) == RoomOf(PublicationOf(x.fence))
InFlight == {x \in Reservations :
  x \in orphans \/ \E r \in Rooms : current[r] = x \/ pending[r] = x}

\* opaqueID never repeats: an ID in the model is drawn again only once nothing names it.
Unnamed(f) == /\ publication[f] = "absent"
              /\ f \notin {hostPublication[r] : r \in Rooms}
              /\ \A x \in InFlight : PublicationOf(x.fence) # f
UnnamedConnection(s) == /\ subscription[s] = "absent"
                        /\ s \notin edges
                        /\ \A x \in InFlight : x.fence # s

MutexFree == due = <<>> /\ driving = NoRoom
Waiting(r) == Contains(waiters, r)
Without(r) == RemoveFirst(waiters, r)
Enroll(r) == Append(Without(r), r)

-----------------------------------------------------------------------------
\* releaseResources on a set of publications and a set of subscriptions.
Release(P, S) ==
  LET drains(s) == subscription[s] # "absent" /\ (s \in S \/ PublicationOf(s) \in P) IN
  /\ publication' = [f \in ResourceFence |->
       IF f \in P /\ publication[f] # "absent" THEN "draining" ELSE publication[f]]
  /\ subscription' = [s \in SubscriptionFence |-> IF drains(s) THEN "draining" ELSE subscription[s]]
  /\ UNCHANGED <<ingressInUse, egressInUse>>

\* Mutant: the reserved subscription is forgotten.
ReleasePublicationOnly(x) == Release(IF x.creates THEN {PublicationOf(x.fence)} ELSE {}, {})
ReleaseReservation(x) ==
  Release(IF x.creates THEN {PublicationOf(x.fence)} ELSE {}, {x.fence})

NeedsCandidate(r) == wants[r] /\ current[r] = None

\* Mutant: validateOrAdvance does not look at the publication.
CandidateAlwaysValid(r) == FALSE
\* A reuse candidate is valid only against the publication it was planned for.
CandidateInvalid(r) ==
  /\ current[r] # None
  /\ ~current[r].creates
  /\ PublicationOf(current[r].fence) # hostPublication[r]

ReuseSubscription(r, x) ==
  /\ hostPublication[r] # NoFence
  /\ PublicationOf(x.fence) = hostPublication[r]
  /\ ~x.creates
  /\ UnnamedConnection(x.fence)
  /\ ReserveSubscription(x.fence)

\* prepareNewPublication: one candidate reserves a publication and its first subscription.
CreatePublication(r, x) ==
  LET f == PublicationOf(x.fence) IN
  /\ hostPublication[r] = NoFence
  /\ RoomOf(f) = r /\ x.creates
  /\ Unnamed(f)
  /\ CanReservePublication(f) /\ egressInUse < EgressCapacity
  /\ publication' = [publication EXCEPT ![f] = "reserved"]
  /\ subscription' = [subscription EXCEPT ![x.fence] = "reserved"]
  /\ ingressInUse' = ingressInUse + 1
  /\ egressInUse' = egressInUse + 1

DeniedUntouched(r) ==
  /\ IF hostPublication[r] # NoFence THEN egressInUse >= EgressCapacity
     ELSE ingressInUse >= IngressCapacity
  /\ UNCHANGED admissionVars

\* The publication was reserved, its first subscription was not: the publication is
\* charged and drains, which settles like any other drain.
DeniedHalfway(r) ==
  /\ hostPublication[r] = NoFence
  /\ egressInUse >= EgressCapacity
  /\ \E f \in ResourceFence :
       /\ RoomOf(f) = r /\ Unnamed(f) /\ CanReservePublication(f)
       /\ publication' = [publication EXCEPT ![f] = "draining"]
       /\ ingressInUse' = ingressInUse + 1
       /\ UNCHANGED <<subscription, egressInUse>>

\* selectCandidate and prepareCandidate: what the cursor's candidate gets from admission.
Select(r, outcome) ==
  \/ ~NeedsCandidate(r) /\ outcome = None /\ UNCHANGED admissionVars
  \/ NeedsCandidate(r) /\ outcome \in Reservations
       /\ (ReuseSubscription(r, outcome) \/ CreatePublication(r, outcome))
  \/ NeedsCandidate(r) /\ outcome = Denied /\ (DeniedUntouched(r) \/ DeniedHalfway(r))

Outcomes == {None, Denied} \cup Reservations

-----------------------------------------------------------------------------
Init ==
  /\ AdmissionInit
  /\ share = [r \in Rooms |-> FALSE]
  /\ wants = [r \in Rooms |-> FALSE]
  /\ hostPublication = [r \in Rooms |-> NoFence]
  /\ edges = {}
  /\ current = [r \in Rooms |-> None]
  /\ pumping = [r \in Rooms |-> FALSE]
  /\ requested = [r \in Rooms |-> FALSE]
  /\ pending = [r \in Rooms |-> None]
  /\ stale = [r \in Rooms |-> FALSE]
  /\ orphans = {}
  /\ waiters = <<>>
  /\ due = <<>>
  /\ driving = NoRoom
  /\ again = FALSE

\* What every room handler shares: it runs under the mutex, moves the room's facts or
\* revision, and ends by requesting the pump.
Handler(r) ==
  /\ MutexFree /\ share[r]
  /\ stale' = [stale EXCEPT ![r] = TRUE]
  /\ due' = <<r>>
  /\ UNCHANGED <<share, pumping, requested, pending, orphans, waiters, driving, again>>

StartShare(r) ==
  /\ MutexFree /\ ~share[r]
  /\ share' = [share EXCEPT ![r] = TRUE]
  /\ UNCHANGED <<admissionVars, wants, hostPublication, edges, current, pumpVars, waiters, lockVars>>

\* A Viewer needs a route and the SFU is its candidate.
Demand(r) ==
  /\ Handler(r) /\ ~wants[r]
  /\ wants' = [wants EXCEPT ![r] = TRUE]
  /\ UNCHANGED <<admissionVars, hostPublication, edges, current>>

\* handleRouteReady: the reservation of the candidate is committed, then the edge.
CandidateReady(r) ==
  /\ Handler(r) /\ current[r] # None /\ ~CandidateInvalid(r)
  /\ LET x == current[r] IN
       /\ IF x.creates
          THEN /\ CommitPublication(PublicationOf(x.fence))
               /\ hostPublication' = [hostPublication EXCEPT ![r] = PublicationOf(x.fence)]
          ELSE CommitSubscription(x.fence) /\ UNCHANGED hostPublication
       /\ edges' = edges \cup {x.fence}
  /\ current' = [current EXCEPT ![r] = None]
  /\ wants' = [wants EXCEPT ![r] = FALSE]

\* handleRouteFailed, the operation deadline, or a lost session: the candidate gives its
\* reservation back; the Viewer is exhausted or another one has its SFU candidate next.
CandidateFailed(r) ==
  /\ Handler(r) /\ current[r] # None
  /\ ReleaseReservation(current[r])
  /\ current' = [current EXCEPT ![r] = None]
  /\ \E more \in BOOLEAN : wants' = [wants EXCEPT ![r] = more]
  /\ UNCHANGED <<hostPublication, edges>>

\* Mutant: the deadline is armed for a candidate in flight only.
OperationExpiredInFlight(r) ==
  /\ Handler(r) /\ wants[r] /\ current[r] # None
  /\ wants' = [wants EXCEPT ![r] = FALSE]
  /\ UNCHANGED <<admissionVars, hostPublication, edges, current>>
\* The deadline of an operation with no candidate in flight: a wait ends in failure.
OperationExpired(r) ==
  /\ Handler(r) /\ wants[r] /\ current[r] = None
  /\ wants' = [wants EXCEPT ![r] = FALSE]
  /\ UNCHANGED <<admissionVars, hostPublication, edges, current>>

\* A Viewer departs or moves to a Peer route; the last one takes the publication along.
LeaveSfu(r, s) ==
  /\ Handler(r) /\ s \in edges /\ RoomOf(PublicationOf(s)) = r
  /\ edges' = edges \ {s}
  /\ LET last == ~\E t \in edges' : RoomOf(PublicationOf(t)) = r IN
       /\ Release(IF last THEN {hostPublication[r]} ELSE {}, {s})
       /\ hostPublication' = [hostPublication EXCEPT ![r] = IF last THEN NoFence ELSE @]
  /\ UNCHANGED <<wants, current>>

\* The Host's transport failed: its publication and every edge of it retire together.
PublicationFailed(r) ==
  /\ Handler(r) /\ hostPublication[r] # NoFence
  /\ LET gone == {s \in edges : PublicationOf(s) = hostPublication[r]} IN
       /\ Release({hostPublication[r]}, gone)
       /\ edges' = edges \ gone
  /\ hostPublication' = [hostPublication EXCEPT ![r] = NoFence]
  /\ wants' = [wants EXCEPT ![r] = TRUE]
  /\ UNCHANGED current

\* clearRoom: the controller is disposed and every publication of the room drains.  A
\* pump in flight keeps its own runtime and, in it, the reservation it made.
StopShare(r) ==
  /\ MutexFree /\ share[r]
  /\ pending[r] \in Reservations => Cardinality(orphans) < MaxOrphans
  /\ MarkDraining(PublicationsOf(r))
  /\ share' = [share EXCEPT ![r] = FALSE]
  /\ wants' = [wants EXCEPT ![r] = FALSE]
  /\ hostPublication' = [hostPublication EXCEPT ![r] = NoFence]
  /\ edges' = {s \in edges : RoomOf(PublicationOf(s)) # r}
  /\ current' = [current EXCEPT ![r] = None]
  /\ orphans' = orphans \cup ({pending[r]} \cap Reservations)
  /\ pumping' = [pumping EXCEPT ![r] = FALSE]
  /\ requested' = [requested EXCEPT ![r] = FALSE]
  /\ pending' = [pending EXCEPT ![r] = None]
  /\ stale' = [stale EXCEPT ![r] = FALSE]
  /\ waiters' = Without(r)
  /\ UNCHANGED lockVars

-----------------------------------------------------------------------------
\* validateOrAdvance, first thing in every pump: an invalid candidate is given back.
RetireInvalidCandidate(r) ==
  /\ (due # <<>> /\ r = Head(due) /\ ~pumping[r]) \/ driving = r
  /\ CandidateInvalid(r)
  /\ ReleaseReservation(current[r])
  /\ current' = [current EXCEPT ![r] = None]
  /\ stale' = [stale EXCEPT ![r] = TRUE]
  /\ UNCHANGED <<share, wants, hostPublication, edges, pumping, requested, pending, orphans,
                 waiters, lockVars>>

\* requestPump: takes the token and reserves at once, or asks the running pump to loop.
RequestPump(r) ==
  /\ due # <<>> /\ r = Head(due)
  /\ due' = Tail(due)
  /\ IF pumping[r]
     THEN /\ requested' = [requested EXCEPT ![r] = TRUE]
          /\ UNCHANGED <<admissionVars, pumping, pending, stale, waiters>>
     ELSE /\ ~CandidateInvalid(r)
          /\ pumping' = [pumping EXCEPT ![r] = TRUE]
          /\ requested' = [requested EXCEPT ![r] = FALSE]
          /\ stale' = [stale EXCEPT ![r] = FALSE]
          /\ waiters' = Without(r)
          /\ \E outcome \in Outcomes :
               Select(r, outcome) /\ pending' = [pending EXCEPT ![r] = outcome]
  /\ UNCHANGED <<controllerVars, orphans, driving, again>>

\* drivePump takes the mutex and first resumes what the prefix left pending.
DriveResume(r) ==
  /\ MutexFree /\ pumping[r]
  /\ driving' = r
  /\ pending' = [pending EXCEPT ![r] = None]
  /\ IF stale[r] /\ pending[r] \in Reservations
     THEN ReleaseReservation(pending[r]) ELSE UNCHANGED admissionVars
  /\ current' = [current EXCEPT ![r] =
       IF pending[r] \in Reservations /\ ~stale[r] THEN pending[r] ELSE @]
  /\ waiters' = IF pending[r] = Denied /\ ~stale[r] THEN Enroll(r) ELSE waiters
  /\ again' = (stale[r] /\ pending[r] # None)
  /\ UNCHANGED <<share, wants, hostPublication, edges, pumping, requested, stale, orphans, due>>

\* Another turn of the pump in the same hold of the mutex: its outcome takes effect at once.
DriveLoop(r) ==
  /\ driving = r /\ (again \/ requested[r]) /\ ~CandidateInvalid(r)
  /\ again' = FALSE
  /\ requested' = [requested EXCEPT ![r] = again /\ @]
  /\ stale' = [stale EXCEPT ![r] = FALSE]
  /\ \E outcome \in Outcomes :
       /\ Select(r, outcome)
       /\ current' = [current EXCEPT ![r] = IF outcome \in Reservations THEN outcome ELSE @]
       /\ waiters' = IF outcome = Denied THEN Enroll(r) ELSE Without(r)
  /\ UNCHANGED <<share, wants, hostPublication, edges, pumping, pending, orphans, due, driving>>

DriveEnd(r) ==
  /\ driving = r /\ ~again /\ ~requested[r]
  /\ driving' = NoRoom
  /\ pumping' = [pumping EXCEPT ![r] = FALSE]
  /\ UNCHANGED <<admissionVars, controllerVars, requested, pending, stale, orphans, waiters, due, again>>

\* A pump whose room was cleared owns nothing but the reservation it had made.
OrphanedDrive(x) ==
  /\ MutexFree
  /\ ReleaseReservation(x)
  /\ orphans' = orphans \ {x}
  /\ UNCHANGED <<controllerVars, pumping, requested, pending, stale, waiters, lockVars>>

\* settleSfuDrain: freed capacity wakes every waiting room, oldest first, and each wake
\* moves the room's facts.
WakeResourceWaiters ==
  /\ waiters' = <<>>
  /\ due' = waiters
  /\ stale' = [r \in Rooms |-> stale[r] \/ Waiting(r)]
  /\ UNCHANGED <<controllerVars, pumping, requested, pending, orphans, driving, again>>

SettlePublicationDrain(f) == MutexFree /\ CompleteDrain(f) /\ WakeResourceWaiters
SettleSubscriptionDrain(s) ==
  /\ MutexFree /\ publication[PublicationOf(s)] # "draining"
  /\ CompleteSubscriptionDrain(s) /\ WakeResourceWaiters

Pump(r) == RetireInvalidCandidate(r) \/ RequestPump(r) \/ DriveResume(r) \/ DriveLoop(r) \/ DriveEnd(r)

Next ==
  \/ \E r \in Rooms :
       \/ StartShare(r) \/ Demand(r) \/ CandidateReady(r) \/ CandidateFailed(r)
       \/ OperationExpired(r) \/ PublicationFailed(r) \/ StopShare(r) \/ Pump(r)
       \/ \E s \in edges : LeaveSfu(r, s)
  \/ \E x \in orphans : OrphanedDrive(x)
  \/ \E f \in ResourceFence : SettlePublicationDrain(f)
  \/ \E s \in SubscriptionFence : SettleSubscriptionDrain(s)

\* The holder of the mutex goes on; sync.Mutex starves no goroutine, so a pump that waits
\* for it resumes and the deadline of a waiting operation fires.  Nothing obliges a Viewer,
\* a Host or a physical close.
Fairness == \A r \in Rooms :
  /\ WF_vars(RetireInvalidCandidate(r) \/ RequestPump(r) \/ DriveLoop(r) \/ DriveEnd(r))
  /\ SF_vars(DriveResume(r))
  /\ SF_vars(Waiting(r) /\ OperationExpired(r))
Spec == Init /\ [][Next]_vars /\ Fairness

-----------------------------------------------------------------------------
TypeOK ==
  /\ AdmissionTypeOK
  /\ share \in [Rooms -> BOOLEAN] /\ wants \in [Rooms -> BOOLEAN]
  /\ hostPublication \in [Rooms -> ResourceFence \cup {NoFence}]
  /\ edges \subseteq SubscriptionFence
  /\ current \in [Rooms -> Reservations \cup {None}]
  /\ pumping \in [Rooms -> BOOLEAN] /\ requested \in [Rooms -> BOOLEAN]
  /\ pending \in [Rooms -> Outcomes]
  /\ stale \in [Rooms -> BOOLEAN]
  /\ orphans \subseteq Reservations
  /\ waiters \in Seq(Rooms) /\ IsInjective(waiters)
  /\ due \in Seq(Rooms) /\ (driving = NoRoom \/ driving \in Rooms) /\ again \in BOOLEAN

PublicationHolders(f) ==
  {r \in Rooms : hostPublication[r] = f} \cup {x \in InFlight : x.creates /\ PublicationOf(x.fence) = f}
SubscriptionHolders(s) ==
  {t \in edges : t = s} \cup {x \in InFlight : x.fence = s}

(* A committed SFU route keeps its charge: no late release of a reservation*)
(* of the same publication takes it away.                                  *)
ServingStaysCharged ==
  /\ \A r \in Rooms : hostPublication[r] # NoFence => publication[hostPublication[r]] = "committed"
  /\ \A s \in edges : subscription[s] = "committed"

(* Every unit the ledger counts as live is owed by exactly one holder: a   *)
(* committed route, the candidate in flight, or a pump between its two     *)
(* halves.  None is leaked when a pump finds its facts stale or its room   *)
(* cleared, none is released twice, and what a route serves stays charged. *)
EveryUnitHasOneHolder ==
  /\ TypeOK /\ ServingStaysCharged
  /\ \A f \in ResourceFence : Live(publication[f]) => Cardinality(PublicationHolders(f)) = 1
  /\ \A s \in SubscriptionFence :
       Live(subscription[s]) => Cardinality(SubscriptionHolders(s)) = 1

(* A candidate that is still valid can always be committed: proof of media *)
(* never meets a ledger that has already dropped the reservation.          *)
ValidCandidateCommits ==
  \A r \in Rooms : current[r] # None /\ ~CandidateInvalid(r) =>
    IF current[r].creates THEN CanCommitPublication(PublicationOf(current[r].fence))
    ELSE /\ publication[PublicationOf(current[r].fence)] = "committed"
         /\ subscription[current[r].fence] = "reserved"

(* Waiting is bounded: a room denied by admission gets another attempt or  *)
(* its operation expires, even if no capacity is ever freed.               *)
WaitingEnds == \A r \in Rooms : Waiting(r) ~> ~Waiting(r)

Admissible(r) ==
  /\ egressInUse < EgressCapacity
  /\ hostPublication[r] = NoFence => ingressInUse < IngressCapacity

(* docs/adr/0005-automatic-hybrid-media-routing.md: a usage decrease drains*)
(* the waiter set and reconciles its rooms, so no room waits while what it *)
(* was denied is available.                                                *)
NoRoomWaitsForFreeCapacity ==
  \A r \in Rooms : MutexFree /\ Waiting(r) => ~Admissible(r)
=============================================================================
