---------------------------- MODULE SfuRetirement ----------------------------
(***************************************************************************)
(* From a released reservation to freed capacity: the drain tasks of the   *)
(* router (internal/server/signal/router_sfu.go), the goroutines that      *)
(* prepare subscribers (router_sfu_signal.go) and the physical handles they*)
(* open and close (internal/server/sfu/media.go).                          *)
(*                                                                         *)
(* The room controllers are reduced to the resources they hold: they       *)
(* reserve a candidate, commit it, and release what they no longer use in  *)
(* any order.  Physical steps run outside the authority mutex and          *)
(* interleave with everything; a step that spawns a goroutine or settles   *)
(* one is a step under the mutex.  Picture-only retirement within a        *)
(* room-scoped publication and the voice tasks are left out.               *)
(***************************************************************************)
EXTENDS SfuAdmission

VARIABLES heldPublications,  \* publications a controller holds
          heldSubscriptions, \* subscriptions a controller holds
          publicationTasks,  \* registered publication drain tasks
          subscriptionTasks, \* registered subscription drain tasks
          closing,           \* the drain operation running on each fence
          publisher,         \* physical publication handle
          peer,              \* physical subscriber of each subscription
          preparation,       \* goroutine of prepareSfuSubscriber
          offers,            \* first Host offers being negotiated without the mutex
          untracked,         \* subscriptions a bare goroutine is closing
          stopping           \* the router is shutting down

heldVars == <<heldPublications, heldSubscriptions>>
taskVars == <<publicationTasks, subscriptionTasks, closing>>
physicalVars == <<publisher, peer>>
goroutineVars == <<preparation, offers, untracked>>
retirementVars == <<admissionVars, heldVars, taskVars, physicalVars, goroutineVars, stopping>>

Fences == ResourceFence \cup SubscriptionFence
\* A fence is of a publication or of a subscription.
ASSUME RetirementAssumption == ResourceFence \cap SubscriptionFence = {}

\* opaqueID never repeats: an ID in the model is drawn again only once nothing names it.
UnnamedSubscription(s) ==
  /\ subscription[s] = "absent" /\ s \notin heldSubscriptions
  /\ closing[s] = "none" /\ peer[s] = "none" /\ preparation[s] = "none" /\ s \notin untracked
UnnamedPublication(f) ==
  /\ publication[f] = "absent" /\ f \notin heldPublications
  /\ closing[f] = "none" /\ publisher[f] = "none" /\ f \notin offers
  /\ \A s \in SubscriptionFence : PublicationOf(s) = f => UnnamedSubscription(s)

HeldOf(f) == {s \in heldSubscriptions : PublicationOf(s) = f}
\* A controller works on one candidate at a time.
Candidates(r) ==
  {s \in heldSubscriptions : RoomOf(PublicationOf(s)) = r /\ subscription[s] = "reserved"}

\* sfuSignalAuthorized: the connection belongs to its room's candidate or edge and the
\* ledger still counts it as live.
HostAuthorized(f) == ~stopping /\ f \in heldPublications /\ HasPublication(f)
ViewerAuthorized(s) == ~stopping /\ s \in heldSubscriptions /\ HasSubscription(s)

-----------------------------------------------------------------------------
\* Mutant: a subscription gets a task even when its publication's task covers it.
ScheduleEach(P, S) ==
  /\ publicationTasks' = publicationTasks \cup P
  /\ subscriptionTasks' = {s \in subscriptionTasks : PublicationOf(s) \notin P} \cup S
  /\ closing' = [x \in Fences |->
       IF x \in P \cup S /\ closing[x] = "none" THEN "running" ELSE closing[x]]
\* Mutant: no operation is started for a publication.
ScheduleSubscriptionsOnly(P, S) ==
  LET alone == {s \in S : PublicationOf(s) \notin publicationTasks \cup P} IN
  /\ publicationTasks' = publicationTasks \cup P
  /\ subscriptionTasks' = {s \in subscriptionTasks : PublicationOf(s) \notin P} \cup alone
  /\ closing' = [x \in Fences |->
       IF x \in alone /\ closing[x] = "none" THEN "running" ELSE closing[x]]
\* scheduleSfuPublicationDrain and scheduleSfuSubscriptionDrain: a publication drain takes
\* over its subscriptions' tasks, and a task that has no operation running gets one.
Schedule(P, S) ==
  LET alone == {s \in S : PublicationOf(s) \notin publicationTasks \cup P} IN
  /\ publicationTasks' = publicationTasks \cup P
  /\ subscriptionTasks' = {s \in subscriptionTasks : PublicationOf(s) \notin P} \cup alone
  /\ closing' = [x \in Fences |->
       IF x \in P \cup alone /\ closing[x] = "none" THEN "running" ELSE closing[x]]

\* releaseResources: publications before subscriptions, each drained if it is in the ledger.
ReleaseHeld(P, S) ==
  LET draining == {f \in P : publication[f] # "absent"}
      leaving == {s \in S : subscription[s] # "absent"} IN
  /\ publication' = [f \in ResourceFence |-> IF f \in draining THEN "draining" ELSE publication[f]]
  /\ subscription' = [s \in SubscriptionFence |->
       IF s \in leaving \/ (PublicationOf(s) \in draining /\ subscription[s] # "absent")
       THEN "draining" ELSE subscription[s]]
  /\ UNCHANGED <<ingressInUse, egressInUse>>
  /\ Schedule(draining, leaving)
  /\ heldPublications' = heldPublications \ P
  /\ heldSubscriptions' = heldSubscriptions \ S

RetirementInit ==
  /\ AdmissionInit
  /\ heldPublications = {} /\ heldSubscriptions = {}
  /\ publicationTasks = {} /\ subscriptionTasks = {}
  /\ closing = [x \in Fences |-> "none"]
  /\ publisher = [f \in ResourceFence |-> "none"]
  /\ peer = [s \in SubscriptionFence |-> "none"]
  /\ preparation = [s \in SubscriptionFence |-> "none"]
  /\ offers = {} /\ untracked = {}
  /\ stopping = FALSE

\* Mutant: the failed publication goes, the subscriptions held on it stay held.
FailPublicationOnly(s) ==
  LET f == PublicationOf(s) IN
  IF publication[f] = "reserved" THEN ReleaseHeld({f}, {}) ELSE ReleaseHeld({}, {s})
\* What a failed candidate gives back: the candidate that creates the publication owns it.
FailConnection(s) ==
  LET f == PublicationOf(s) IN
  IF publication[f] = "reserved" THEN ReleaseHeld({f}, HeldOf(f)) ELSE ReleaseHeld({}, {s})

\* prepareNewPublication: a publication and its first subscription, or neither: when the
\* subscription is refused, the publication just reserved drains.
CreateCandidate(s) ==
  LET f == PublicationOf(s) IN
  /\ ~stopping /\ UnnamedPublication(f)
  /\ Candidates(RoomOf(f)) = {} /\ CanReservePublication(f)
  /\ ingressInUse' = ingressInUse + 1
  /\ IF egressInUse < EgressCapacity
     THEN /\ publication' = [publication EXCEPT ![f] = "reserved"]
          /\ subscription' = [subscription EXCEPT ![s] = "reserved"]
          /\ egressInUse' = egressInUse + 1
          /\ heldPublications' = heldPublications \cup {f}
          /\ heldSubscriptions' = heldSubscriptions \cup {s}
          /\ UNCHANGED taskVars
     ELSE /\ publication' = [publication EXCEPT ![f] = "draining"]
          /\ Schedule({f}, {})
          /\ UNCHANGED <<subscription, egressInUse, heldVars>>
  /\ UNCHANGED <<physicalVars, goroutineVars, stopping>>

\* A candidate that joins the publication in service is prepared at once, by a goroutine.
ReuseCandidate(s) ==
  LET f == PublicationOf(s) IN
  /\ ~stopping /\ UnnamedSubscription(s)
  /\ f \in heldPublications /\ publication[f] = "committed" /\ Candidates(RoomOf(f)) = {}
  /\ ReserveSubscription(s)
  /\ heldSubscriptions' = heldSubscriptions \cup {s}
  /\ preparation' = [preparation EXCEPT ![s] = "spawned"]
  /\ UNCHANGED <<heldPublications, taskVars, physicalVars, offers, untracked, stopping>>

\* commitReservation, once the Viewer has reported its transport: the publications the
\* ledger displaced drain at once, and the controller drops what it held of them.
CommitCandidate(s) ==
  LET f == PublicationOf(s)
      old == Displaced(f) IN
  /\ ViewerAuthorized(s) /\ subscription[s] = "reserved"
  /\ peer[s] = "open" /\ preparation[s] = "none"
  /\ IF publication[f] = "reserved"
     THEN /\ CommitPublication(f)
          /\ Schedule(old, {})
          /\ heldPublications' = heldPublications \ old
          /\ heldSubscriptions' = {t \in heldSubscriptions : PublicationOf(t) \notin old}
     ELSE CommitSubscription(s) /\ UNCHANGED <<heldVars, taskVars>>
  /\ UNCHANGED <<physicalVars, goroutineVars, stopping>>

\* A candidate fails, or a Viewer leaves its route; the last route of a publication takes
\* the publication along.
ReleaseSubscription(s) ==
  LET f == PublicationOf(s)
      others == {t \in HeldOf(f) : subscription[t] = "committed"} \ {s} IN
  /\ s \in heldSubscriptions
  /\ IF subscription[s] = "committed" /\ others = {}
     THEN ReleaseHeld({f}, HeldOf(f))
     ELSE FailConnection(s)
  /\ UNCHANGED <<physicalVars, goroutineVars, stopping>>

\* RetireHostPublication: the publication and every subscription of it the controller holds.
RetirePublication(f) ==
  /\ f \in heldPublications
  /\ ReleaseHeld({f}, HeldOf(f))
  /\ UNCHANGED <<physicalVars, goroutineVars, stopping>>

\* clearRoom on each room of R: what the controllers held, then the rest of the ledger.
Clear(R) ==
  LET P == {f \in ResourceFence : RoomOf(f) \in R} IN
  ReleaseHeld(P, {s \in heldSubscriptions : PublicationOf(s) \in P})

ClearRoom(r) ==
  /\ ~stopping /\ PublicationsOf(r) # {}
  /\ Clear({r})
  /\ UNCHANGED <<physicalVars, goroutineVars, stopping>>

\* router.close: all rooms are cleared and every draining publication gets an operation,
\* also one whose earlier close had failed.
Stop ==
  /\ ~stopping /\ stopping' = TRUE
  /\ Clear(Rooms)
  /\ UNCHANGED <<physicalVars, goroutineVars>>

-----------------------------------------------------------------------------
\* handleSfuSignal registers the publisher of a first Host offer before it releases the
\* mutex to negotiate it ...
HostOffer(f) ==
  /\ HostAuthorized(f) /\ publisher[f] = "none" /\ f \notin offers
  /\ publisher' = [publisher EXCEPT ![f] = "open"]
  /\ offers' = offers \cup {f}
  /\ UNCHANGED <<admissionVars, heldVars, taskVars, peer, preparation, untracked, stopping>>

\* ... and checks its authority again: the candidate goes on to its subscriber or fails
\* with the negotiation; a publisher that lost its authority is detached and closed by a
\* task of its own (RetirePublication).
SettleOffer(f) ==
  /\ f \in offers /\ offers' = offers \ {f}
  /\ \/ /\ HostAuthorized(f)
        /\ preparation' = [s \in SubscriptionFence |->
             IF s \in HeldOf(f) /\ subscription[s] = "reserved" THEN "spawned" ELSE preparation[s]]
        /\ UNCHANGED <<admissionVars, heldVars, taskVars, publisher>>
     \/ /\ HostAuthorized(f)
        /\ ReleaseHeld({f}, HeldOf(f))
        /\ UNCHANGED <<publisher, preparation>>
     \/ /\ ~HostAuthorized(f)
        /\ publisher' = [publisher EXCEPT ![f] = IF @ = "open" THEN "detached" ELSE @]
        /\ UNCHANGED <<admissionVars, heldVars, taskVars, preparation>>
  /\ UNCHANGED <<peer, untracked, stopping>>

CloseDetached(f) ==
  /\ publisher[f] = "detached"
  /\ publisher' = [publisher EXCEPT ![f] = "none"]
  /\ UNCHANGED <<admissionVars, heldVars, taskVars, peer, goroutineVars, stopping>>

\* PrepareSubscriber looks the publication up and registers the subscriber, or gives up.
RegisterSubscriber(s) ==
  /\ preparation[s] = "spawned"
  /\ IF publisher[PublicationOf(s)] = "open"
     THEN /\ preparation' = [preparation EXCEPT ![s] = "preparing"]
          /\ peer' = [peer EXCEPT ![s] = "preparing"]
     ELSE preparation' = [preparation EXCEPT ![s] = "failed"] /\ UNCHANGED peer
  /\ UNCHANGED <<admissionVars, heldVars, taskVars, publisher, offers, untracked, stopping>>

\* It then opens the transport, or fails (at the deadline, at a close or at the transport)
\* and drops its own registration.
FinishPreparation(s) ==
  /\ preparation[s] = "preparing"
  /\ \/ /\ peer' = [peer EXCEPT ![s] = "open"]
        /\ preparation' = [preparation EXCEPT ![s] = "offered"]
     \/ /\ peer' = [peer EXCEPT ![s] = "none"]
        /\ preparation' = [preparation EXCEPT ![s] = "failed"]
  /\ UNCHANGED <<admissionVars, heldVars, taskVars, publisher, offers, untracked, stopping>>

\* The goroutine takes the mutex and checks its authority again.
SettlePreparation(s) ==
  /\ preparation[s] \in {"offered", "failed"}
  /\ preparation' = [preparation EXCEPT ![s] = "none"]
  /\ untracked' = IF ViewerAuthorized(s) THEN untracked ELSE untracked \cup {s}
  /\ IF ViewerAuthorized(s) /\ preparation[s] = "failed"
     THEN FailConnection(s)
     ELSE UNCHANGED <<admissionVars, heldVars, taskVars>>
  /\ UNCHANGED <<physicalVars, offers, stopping>>

\* CloseSubscription waits for a preparation in progress; a failed close removes the
\* subscriber all the same.
CloseUntracked(s) ==
  /\ s \in untracked /\ peer[s] # "preparing"
  /\ peer' = [peer EXCEPT ![s] = "none"]
  /\ untracked' = untracked \ {s}
  /\ UNCHANGED <<admissionVars, heldVars, taskVars, publisher, preparation, offers, stopping>>

CloseSubscription(s) ==
  /\ closing[s] = "running" /\ peer[s] # "preparing"
  /\ peer' = [peer EXCEPT ![s] = "none"]
  /\ \E result \in {"closed", "failed"} :
       /\ result = "failed" => peer[s] # "none"
       /\ closing' = [closing EXCEPT ![s] = result]
  /\ UNCHANGED <<admissionVars, heldVars, publicationTasks, subscriptionTasks, publisher,
                 goroutineVars, stopping>>

\* ClosePublication refuses new subscribers first and then closes the ones it has; it has
\* nothing to do for a publisher that is gone or detached.
BeginClosePublication(f) ==
  /\ closing[f] = "running" /\ publisher[f] = "open"
  /\ publisher' = [publisher EXCEPT ![f] = "closing"]
  /\ UNCHANGED <<admissionVars, heldVars, taskVars, peer, goroutineVars, stopping>>

ClosePublication(f) ==
  /\ closing[f] = "running"
  /\ \/ /\ publisher[f] = "closing"
        /\ \A s \in SubscriptionFence : PublicationOf(s) = f => peer[s] # "preparing"
        /\ publisher' = [publisher EXCEPT ![f] = "none"]
        /\ peer' = [s \in SubscriptionFence |-> IF PublicationOf(s) = f THEN "none" ELSE peer[s]]
        /\ \E result \in {"closed", "failed"} : closing' = [closing EXCEPT ![f] = result]
     \/ /\ publisher[f] \in {"none", "detached"}
        /\ closing' = [closing EXCEPT ![f] = "closed"]
        /\ UNCHANGED physicalVars
  /\ UNCHANGED <<admissionVars, heldVars, publicationTasks, subscriptionTasks, goroutineVars,
                 stopping>>

\* settleSfuDrain: only the registered task frees capacity; a failed one keeps its charge.
EndSubscriptionDrain(s) ==
  /\ closing[s] \in {"closed", "failed"}
  /\ closing' = [closing EXCEPT ![s] = "none"]
  /\ IF closing[s] = "closed" /\ s \in subscriptionTasks
     THEN /\ CompleteSubscriptionDrain(s)
          /\ subscriptionTasks' = subscriptionTasks \ {s}
     ELSE UNCHANGED <<admissionVars, subscriptionTasks>>
  /\ UNCHANGED <<heldVars, publicationTasks, physicalVars, goroutineVars, stopping>>

EndPublicationDrain(f) ==
  /\ closing[f] \in {"closed", "failed"}
  /\ closing' = [closing EXCEPT ![f] = "none"]
  /\ IF closing[f] = "closed"
     THEN /\ CompleteDrain(f)
          /\ publicationTasks' = publicationTasks \ {f}
     ELSE UNCHANGED <<admissionVars, publicationTasks>>
  /\ UNCHANGED <<heldVars, subscriptionTasks, physicalVars, goroutineVars, stopping>>

\* The steps of goroutines already running, which the Go scheduler does not starve.
SubscriberStep(s) ==
  \/ RegisterSubscriber(s) \/ FinishPreparation(s) \/ SettlePreparation(s)
  \/ CloseUntracked(s) \/ CloseSubscription(s) \/ EndSubscriptionDrain(s)
PublisherStep(f) ==
  \/ SettleOffer(f) \/ CloseDetached(f)
  \/ BeginClosePublication(f) \/ ClosePublication(f) \/ EndPublicationDrain(f)

RoomStep ==
  \/ \E s \in SubscriptionFence :
       CreateCandidate(s) \/ ReuseCandidate(s) \/ CommitCandidate(s) \/ ReleaseSubscription(s)
  \/ \E f \in ResourceFence : RetirePublication(f) \/ HostOffer(f)
  \/ \E r \in Rooms : ClearRoom(r)

RetirementNext ==
  \/ RoomStep
  \/ Stop
  \/ \E s \in SubscriptionFence : SubscriberStep(s)
  \/ \E f \in ResourceFence : PublisherStep(f)

RetirementSpec == RetirementInit /\ [][RetirementNext]_retirementVars
\* Physical closes end: pion's Close and the preparation's deadline bound them.
FairSpec ==
  /\ RetirementSpec
  /\ \A s \in SubscriptionFence : WF_retirementVars(SubscriberStep(s))
  /\ \A f \in ResourceFence : WF_retirementVars(PublisherStep(f))

-----------------------------------------------------------------------------
RetirementTypeOK ==
  /\ AdmissionTypeOK
  /\ heldPublications \subseteq ResourceFence /\ heldSubscriptions \subseteq SubscriptionFence
  /\ publicationTasks \subseteq ResourceFence /\ subscriptionTasks \subseteq SubscriptionFence
  /\ closing \in [Fences -> {"none", "running", "closed", "failed"}]
  /\ publisher \in [ResourceFence -> {"none", "open", "closing", "detached"}]
  /\ peer \in [SubscriptionFence -> {"none", "preparing", "open"}]
  /\ preparation \in
       [SubscriptionFence -> {"none", "spawned", "preparing", "offered", "failed"}]
  /\ offers \subseteq ResourceFence /\ untracked \subseteq SubscriptionFence
  /\ stopping \in BOOLEAN

(* Every draining entry of the ledger has the one task that will free it,  *)
(* and no task exists for anything else: the tasks a publication drain     *)
(* absorbs, a late settlement and a release that finds its entry already   *)
(* draining leave neither a charge without a task nor a task without a     *)
(* charge (scheduleSfuPublicationDrain, settleSfuDrain).                   *)
DrainsMatchLedger ==
  /\ RetirementTypeOK
  /\ \A f \in ResourceFence : publication[f] = "draining" <=> f \in publicationTasks
  /\ \A s \in SubscriptionFence :
       /\ s \in subscriptionTasks => subscription[s] = "draining"
       /\ subscription[s] = "draining" =>
            (s \in subscriptionTasks) # (PublicationOf(s) \in publicationTasks)

(* What a room controller holds is charged and in service: neither a       *)
(* displaced publication nor a refused or failed candidate leaves a room   *)
(* holding a route the ledger is retiring.                                 *)
HeldIsLive ==
  /\ \A f \in heldPublications : Live(publication[f])
  /\ \A s \in heldSubscriptions : HasSubscription(s)
  /\ ~stopping => \A f \in ResourceFence : Live(publication[f]) => f \in heldPublications

(* The media runtime serves no publication whose ingress unit was freed.   *)
ServedPublicationCharged ==
  \A f \in ResourceFence : publisher[f] \in {"open", "closing"} => publication[f] # "absent"

(* Whatever a controller holds or the runtime serves has its charge        *)
(* (failSfuConnection, hostSfuPublisherAuthorized, settleSfuDrain).        *)
HoldersAreCharged == HeldIsLive /\ ServedPublicationCharged

(* The ledger's contract (admission.go:59): capacity stays charged until   *)
(* physical retirement is confirmed, for a publisher ...                   *)
PublisherStaysCharged ==
  \A f \in ResourceFence : publisher[f] # "none" => publication[f] # "absent"
(* ... and for a subscriber.                                               *)
SubscriberStaysCharged ==
  \A s \in SubscriptionFence : peer[s] = "open" => subscription[s] # "absent"

(* A retirement ends: an entry stays in retirement for ever only if a      *)
(* physical close of it failed, which waits for the shutdown's retry.      *)
RetirementCompletes ==
  /\ \A f \in ResourceFence :
       <>[](publication[f] = "draining") => <>(closing[f] = "failed")
  /\ \A s \in SubscriptionFence :
       <>[](subscription[s] = "draining") =>
         <>(closing[s] = "failed" \/ closing[PublicationOf(s)] = "failed")

(* A subscriber that opened after its subscription was freed is closed.    *)
StraySubscriberCloses ==
  \A s \in SubscriptionFence :
    peer[s] # "none" /\ subscription[s] = "absent" ~> peer[s] = "none"

(* Nothing is left half retired: drains end, and so do the subscribers that*)
(* outlived theirs (settleSfuDrain, prepareSfuSubscriber).                 *)
RetirementEnds == RetirementCompletes /\ StraySubscriberCloses
=============================================================================
