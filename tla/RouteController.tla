--------------------------- MODULE RouteController ---------------------------
(***************************************************************************)
(* The route controller of one share (internal/server/route: operation.go, *)
(* controller.go, graph.go, sfu_bootstrap.go) and the pump that drives it. *)
(* It runs at most one route operation at a time: a child, the demand it   *)
(* is for, and a list of candidate plans with a cursor. Each handler of    *)
(* the server is one action; the mutex of the router makes it atomic.      *)
(*                                                                         *)
(* Every handler first validates the operation against the facts that      *)
(* changed since it was planned (Validate), so a late answer and a timer   *)
(* that fires late both find the operation already advanced.               *)
(***************************************************************************)
EXTENDS RouteGraph

CONSTANT MaxChurn   \* bound on the environment's changes in a behaviour

ASSUME ChurnAssumption == MaxChurn \in Nat

VARIABLES
    c,      \* the controller, see RouteGraph
    churn   \* environment changes so far

vars == <<c, churn>>

Clocks == {"early", "late", "overdue"}

\* The lowest of a set of numbers.
Lowest(S) == CHOOSE n \in S : \A m \in S : n <= m

HasOp(x) == x.op.child # "none"

Planned(x) == x.op.cursor < Len(x.op.plans)

\* The plan at the cursor.
Current(x) == IF Planned(x) THEN x.op.plans[x.op.cursor + 1] ELSE NoPlan

IsPeer(plan) == plan.via \in Peers

IsSfu(plan) == plan.via \in Publications

Online(x) == x.online \cap Viewers

-----------------------------------------------------------------------------
(* Facts, revisions and the operation's reservation.                       *)

\* A changed fact makes a waiting operation plan its tail again.
TouchFacts(x) == IF HasOp(x) THEN [x EXCEPT !.op.stale = TRUE] ELSE x

\* A revision allocated outside the operation overtakes the one its attempt
\* was prepared under, and the one it is based on.
AllocateRevision(x) ==
    IF HasOp(x)
    THEN [x EXCEPT !.op.based = FALSE, !.op.att.newest = ~x.op.att.live] ELSE x

AdvanceActiveRevision(x) == [x EXCEPT !.op.based = TRUE]

ReservedGeneration(x) ==
    IF x.op.att.live /\ Current(x).via \in {"create", "replace"}
    THEN {x.op.att.gen} ELSE {}

ReservedSubscription(x) ==
    IF x.op.att.live /\ IsSfu(Current(x))
    THEN {<<x.op.child, x.op.att.sub>>} ELSE {}

\* Mutant: a failed candidate keeps the publication it reserved.
ReleaseSubscriptionOnly(x) ==
    IF x.op.att.live
    THEN AdvanceActiveRevision([x EXCEPT !.subs = @ \ ReservedSubscription(x),
                                         !.op.att = NoAttempt])
    ELSE x

ReleaseAttempt(x) ==
    IF x.op.att.live
    THEN AdvanceActiveRevision(
           [x EXCEPT !.pubs = @ \ ReservedGeneration(x),
                     !.subs = @ \ ReservedSubscription(x),
                     !.op.att = NoAttempt])
    ELSE x

AbortOperation(x) == [ReleaseAttempt(x) EXCEPT !.op = NoOperation]

-----------------------------------------------------------------------------
(* Retiring edges.                                                         *)

\* Mutant: retired SFU edges go whether or not peers hang below them.
PruneAllAnchors(x) ==
    [x EXCEPT !.retiring = {},
              !.edge = [v \in Viewers |-> IF @[v].parent = "sfu" /\ ~@[v].active
                                          THEN NoEdge ELSE @[v]]]

\* An inactive SFU edge stays as an anchor while peers hang below it.
PruneAnchors(x) ==
    LET gone == {v \in OnSfu(x) : /\ ~x.edge[v].active /\ Children(x, v) = {}
                                  /\ x.edge[v].gen \in x.retiring}
        kept == {v \in OnSfu(x) : ~x.edge[v].active} \ gone
    IN  [x EXCEPT !.edge = [v \in Viewers |-> IF v \in gone THEN NoEdge ELSE @[v]],
                  !.retiring = {x.edge[v].gen : v \in kept}]

\* Gives up the subscriptions of S; relays in S become anchors.
RetireSfuEdges(x, S) ==
    LET anchors == {v \in S : Children(x, v) # {}}
        retired(v) == IF v \in anchors
                      THEN [x.edge[v] EXCEPT !.usable = FALSE, !.active = FALSE]
                      ELSE NoEdge
    IN  [x EXCEPT
           !.edge = [v \in Viewers |-> IF v \in S THEN retired(v) ELSE @[v]],
           !.subs = @ \ {<<v, x.edge[v].sub>> : v \in {w \in S : x.edge[w].active}},
           !.retiring = @ \cup {x.edge[v].gen : v \in anchors}]

DropPublication(x) ==
    [x EXCEPT !.pubs = @ \ {x.pub.gen}, !.pub = NoPublication]

\* Mutant: the publication goes with the first viewer that leaves it.
DropUsedPublication(x) == IF x.pub.gen # 0 THEN DropPublication(x) ELSE x

DropUnusedPublication(x) ==
    IF Subscribers(x) = {} /\ x.pub.gen # 0 THEN DropPublication(x) ELSE x

Deactivate(x, v) == [x EXCEPT !.edge[v].usable = FALSE, !.edge[v].active = FALSE]

RemovePublicationGeneration(x, g) ==
    LET y == RetireSfuEdges(x, {v \in OnSfu(x) : x.edge[v].gen = g})
    IN  PruneAnchors(IF y.pub.gen = g THEN DropPublication(y) ELSE y)

\* Mutant: a waiting operation is not rebased on the new revision.
RetireHostPublicationUnfenced(x) ==
    AllocateRevision(RemovePublicationGeneration(x, x.pub.gen))

RetireHostPublication(x) ==
    AdvanceActiveRevision(AllocateRevision(RemovePublicationGeneration(x, x.pub.gen)))

RetireInvalidOperationEdge(x, v) ==
    IF ~EdgeRequiresMove(x, v) THEN x
    ELSE IF x.edge[v].parent = "sfu"
         THEN DropUnusedPublication(PruneAnchors(RetireSfuEdges(x, {v})))
         ELSE Deactivate(x, v)

\* A confirmed departure ends the departed viewer's route in the next round.
RetireDepartedEdges(x) ==
    LET leaving == {v \in x.departed : x.edge[v].active}
        y == AbortOperation(x)
        z == RetireSfuEdges(y, leaving \cap OnSfu(x))
        w == [z EXCEPT !.edge = [v \in Viewers |->
                IF v \in leaving \ OnSfu(x)
                THEN [@[v] EXCEPT !.usable = FALSE, !.active = FALSE] ELSE @[v]]]
    IN  IF leaving = {} THEN x
        ELSE AllocateRevision(TouchFacts(PruneAnchors(DropUnusedPublication(w))))

ClearBootstrapFor(x, v) ==
    [x EXCEPT !.sfuFirst = @ \ {v}, !.intent = IF @ = v THEN "none" ELSE @]

\* Departed viewers leave once no viewer that stays hangs below them.
PruneDepartedLeaves(x) ==
    LET gone == {v \in x.departed : Descendants(x, v) \subseteq x.departed}
        y == [x EXCEPT
                !.order = Kept(@, {i \in DOMAIN @ : @[i] \notin gone}),
                !.departed = @ \ gone,
                !.edge = [v \in Viewers |-> IF v \in gone THEN NoEdge ELSE @[v]],
                !.cont = [v \in Viewers |-> IF v \in gone THEN {} ELSE @[v]],
                !.exhausted = @ \ gone, !.reported = @ \ gone,
                !.sfuFirst = @ \ gone,
                !.intent = IF @ \in gone THEN "none" ELSE @]
    IN  IF gone = {} THEN x ELSE PruneAnchors(DropUnusedPublication(y))

-----------------------------------------------------------------------------
(* Opportunities.                                                          *)

Operable(x, plan) ==
    /\ CandidateValid(x, x.op.child, plan)
    /\ x.op.reason = "availability" => OpportunityAvailable(x, x.op.child, plan)

ConsumeCurrent(x) ==
    IF x.op.reason \in {"availability", "direct"} /\ Planned(x)
    THEN Spend(x, x.op.child, Current(x)) ELSE x

\* Mutant: a deadline consumes the routes over a parent only.
ConsumeAvailabilityParents(x) ==
    IF x.op.reason # "availability" THEN x
    ELSE LET visited == {x.op.plans[i] : i \in 1..Least(x.op.cursor + 1, Len(x.op.plans))}
             ranks(source) == {plan.rank : plan \in {q \in visited : q.via = source}}
         IN  [x EXCEPT !.spent[x.op.child] = [source \in DOMAIN @ |->
                Lowest({@[source]} \cup ranks(source))]]

\* A deadline consumes the visited prefix of an availability operation.
ConsumeAvailability(x) ==
    IF x.op.reason # "availability" THEN x
    ELSE LET visited == {x.op.plans[i] : i \in 1..Least(x.op.cursor + 1, Len(x.op.plans))}
             ranks(source) == {plan.rank : plan \in {q \in visited : SourceOf(q.via) = source}}
         IN  [x EXCEPT !.spent[x.op.child] = [source \in DOMAIN @ |->
                Lowest({@[source]} \cup ranks(source))]]

ConsumeContinuation(x) ==
    IF x.op.reason = "direct" /\ IsPeer(Current(x))
    THEN [x EXCEPT !.cont[x.op.child] = @ \ {Current(x).via}] ELSE x

\* Where the SFU stands in line: the first SFU plan, or behind the last plan
\* when a publication could be bootstrapped; -1 if nowhere.
ForegroundSfuIndex(x) ==
    LET ahead == {i \in x.op.cursor .. Len(x.op.plans) - 1 : IsSfu(x.op.plans[i + 1])}
    IN  IF x.op.reason = "direct" THEN -1
        ELSE IF ahead # {} THEN Lowest(ahead)
        ELSE IF SafeCarriers(x, x.op.demand) # {} THEN Len(x.op.plans)
        ELSE -1

HasSuccessor(x) ==
    x.op.cursor + 1 < Len(x.op.plans) \/ ForegroundSfuIndex(x) > x.op.cursor

\* Within the head start the next direct parent goes before the SFU at at.
PromoteBefore(x, at) ==
    LET direct == {i \in at + 2 .. Len(x.op.plans) : IsPeer(x.op.plans[i])}
        i == Lowest(direct)
    IN  IF /\ HasOp(x) /\ at = x.op.cursor + 1
           /\ x.op.clock = "early" /\ direct # {}
        THEN [x EXCEPT !.op.plans = InsertAt(RemoveAt(@, i), at + 1, x.op.plans[i])]
        ELSE x

PromoteNextDirect(x) == PromoteBefore(x, ForegroundSfuIndex(x))

\* After the head start the direct parents ahead of the SFU are deferred.
DeferDirect(x, at) ==
    LET y == IF x.op.att.live THEN ReleaseAttempt(ConsumeCurrent(x)) ELSE x
        passed == {i \in x.op.cursor + 1 .. Least(at, Len(x.op.plans)) :
                     IsPeer(x.op.plans[i])}
    IN  IF /\ IsPeer(Current(x)) /\ ~x.op.att.connected
           /\ at > x.op.cursor /\ x.op.clock # "early"
        THEN [y EXCEPT !.op.deferred = @ \cup {x.op.plans[i].via : i \in passed},
                       !.op.cursor = at]
        ELSE x

AdvanceExpiredHeadStart(x) == DeferDirect(x, ForegroundSfuIndex(x))

\* Plans the tail again under the current facts.
ReplanRemaining(x, first, restore) ==
    LET done == Least(x.op.cursor, Len(x.op.plans))
        tail == [i \in 1 .. Len(x.op.plans) - done |-> x.op.plans[done + i].via]
        forced == IF first = "none" THEN tail
                  ELSE IF tail = <<>> THEN <<first>> ELSE [tail EXCEPT ![1] = first]
        vias == IF restore = "none" \/ restore \in Range(forced) THEN forced
                ELSE Append(forced, restore)
        plans == [i \in DOMAIN vias |-> PlanCandidate(x, x.op.child, vias[i])]
    IN  [x EXCEPT !.op.plans = SubSeq(@, 1, done)
                     \o Kept(plans, {i \in DOMAIN plans : Operable(x, plans[i])}),
                  !.op.stale = FALSE]

-----------------------------------------------------------------------------
(* Bootstrapping a publication.                                            *)

GloballyNeeded(x) ==
    SfuEnabled /\ x.pub.gen = 0 /\ Copies(x, Host) + 1 > x.cap[Host]

\* The demand being served keeps its turn; otherwise the oldest viewer that
\* ran out of its own opportunities gets it.
SettleIntent(x) ==
    LET owed == {v \in Online(x) \cap x.exhausted : SafeCarriers(x, v) # {}}
    IN  IF x.intent # "none" /\ SafeCarriers(x, x.intent) # {} THEN x
        ELSE [x EXCEPT !.intent = IF owed = {} THEN "none"
                                  ELSE CHOOSE v \in Oldest(x, owed) : TRUE]

HasBootstrapWork(x) ==
    \/ x.intent # "none"
    \/ \E v \in (Online(x) \cap x.exhausted) \ x.reported : BootstrapNeeded(x, v)

ReportUncarried(x) ==
    IF x.intent # "none" THEN x
    ELSE [x EXCEPT !.reported = @ \cup
            {v \in Online(x) \cap x.exhausted : BootstrapNeeded(x, v)}]

TakeCarrier(x) == IF GloballyNeeded(x) THEN ReportUncarried(SettleIntent(x)) ELSE x

RememberUnavailable(x, v) ==
    IF BootstrapNeeded(x, v)
    THEN [x EXCEPT !.reported = @ \cup {v}, !.intent = "none"] ELSE x

\* Without another carrier the demand has failed.
CarrierSpent(x) ==
    IF SafeCarriers(x, x.intent) # {} THEN x
    ELSE [x EXCEPT !.exhausted = @ \cup {x.intent},
                   !.reported = @ \cup {x.intent}, !.intent = "none"]

SpendCarrier(x, carrier, plan) ==
    IF plan = NoPlan THEN x
    ELSE [Spend(x, carrier, plan) EXCEPT !.carried[carrier] = Least(@, plan.rank)]

\* A carrier had its attempt.
CompleteCarrier(x, carrier, attempted) ==
    IF x.intent = "none" THEN x
    ELSE CarrierSpent(SpendCarrier(x, carrier,
           IF attempted # NoPlan THEN attempted
           ELSE PlanCandidate(x, carrier, "create")))

BootstrapOwned(x) ==
    x.op.reason = "bootstrap" =>
       x.intent = x.op.demand /\ x.op.child \in SafeCarriers(x, x.op.demand)

-----------------------------------------------------------------------------
(* The life of the operation.                                              *)

\* The last plan reached.
LastPlan(x) ==
    IF Planned(x) THEN Current(x)
    ELSE IF x.op.plans = <<>> THEN NoPlan ELSE Last(x.op.plans)

\* v is left without a candidate, and without an edge that it must leave.
GiveUp(x, v) ==
    [RetireInvalidOperationEdge([x EXCEPT !.op = NoOperation], v)
       EXCEPT !.exhausted = @ \cup {v}]

ConcludeFailed(x, v) ==
    IF AvailableVias(x, v) = {} THEN RememberUnavailable(GiveUp(x, v), v)
                                ELSE GiveUp(x, v)

\* The operation has no candidate left, or no time.
Conclude(x) ==
    LET v == x.op.child
    IN  IF x.op.reason = "bootstrap"
        THEN [CompleteCarrier(x, v, LastPlan(x)) EXCEPT !.op = NoOperation]
        ELSE IF x.op.reason = "direct" THEN [x EXCEPT !.op = NoOperation]
        ELSE IF SafeCarriers(x, v) # {} THEN GiveUp([x EXCEPT !.intent = v], v)
        ELSE ConcludeFailed(ConsumeAvailability(x), v)

\* The plans between the cursor and position next are dropped.
DropTo(x, next) ==
    LET y == IF next > x.op.cursor + 1 THEN ConsumeContinuation(x) ELSE x
    IN  [y EXCEPT !.op.plans = SubSeq(@, 1, x.op.cursor)
                                 \o SubSeq(@, next, Len(x.op.plans))]

\* The plans at the cursor that no longer hold are dropped.
DropInvalid(x) ==
    LET end == Len(x.op.plans) + 1
    IN  DropTo(x, Lowest({next \in x.op.cursor + 1 .. end :
                            next = end \/ Operable(x, x.op.plans[next])}))

ConcludeIfDone(x) == IF Planned(x) THEN x ELSE Conclude(x)

Settle(x) == ConcludeIfDone(DropInvalid(x))

NoProgress(x) ==
    /\ IsPeer(Current(x)) /\ ~x.op.att.connected /\ x.op.att.stalled
    /\ HasSuccessor(x)

AttemptStands(x) ==
    /\ ~NoProgress(x) /\ Operable(x, Current(x))
    /\ IsSfu(Current(x)) =>
         /\ Host \in x.online
         /\ Current(x).via = "reuse" => x.op.att.gen = x.pub.gen

\* The attempt is given up: it was tried and failed, or never had its chance.
NextCandidate(x, tried) ==
    LET y == ReleaseAttempt(
               ConsumeContinuation(IF tried THEN ConsumeCurrent(x) ELSE x))
    IN  IF tried THEN [y EXCEPT !.op.cursor = @ + 1]
        ELSE [y EXCEPT !.op.plans = RemoveAt(@, x.op.cursor + 1)]

\* The operation at its next candidate, its tail planned under current facts.
Renewed(x, failed) ==
    IF x.op.att.live
    THEN ReplanRemaining(NextCandidate(x, failed \/ NoProgress(x)), "none", "none")
    ELSE IF x.op.stale THEN ReplanRemaining(x, "none", "none") ELSE x

Revalidate(x, failed) ==
    IF ~({x.op.child, x.op.demand} \subseteq x.online) THEN AbortOperation(x)
    ELSE IF x.op.att.live /\ ~failed /\ AttemptStands(x) THEN x
    ELSE Settle(Renewed(x, failed))

\* validateOrAdvance: failed tells that the caller failed the live attempt.
Validate(x, failed) ==
    IF ~HasOp(x) THEN x
    ELSE IF ~BootstrapOwned(x) THEN AbortOperation(x)
    ELSE IF x.op.clock = "overdue"
         THEN Conclude(ReleaseAttempt(ConsumeContinuation(ConsumeCurrent(x))))
    ELSE Revalidate(AdvanceExpiredHeadStart(x), failed)

-----------------------------------------------------------------------------
(* Choosing the next operation.                                            *)

\* Those of the free viewers that need a route now, in the order of their
\* claims: below a departed parent, beyond a parent's capacity, with a broken
\* edge, with an edge to a publication that is gone, without an edge.
Claims(x, free) ==
    LET orphans == {v \in free : x.edge[v].parent \in x.departed}
        crowded == {p \in Peers : Overflow(x, p) \cap free # {}}
        broken == {v \in free : /\ x.edge[v] # NoEdge
                                /\ \/ ~x.edge[v].usable \/ ParentRouteRetired(x, v)
                                   \/ x.edge[v].parent = "sfu" /\ ~SfuEnabled}
        dated == {v \in free \cap OnSfu(x) : ~SfuEdgeCurrent(x, v)}
        bare == {v \in free : x.edge[v] = NoEdge}
    IN  IF orphans # {} THEN Oldest(x, orphans)
        ELSE IF crowded # {}
        THEN UNION {Newest(x, Overflow(x, p) \cap free) : p \in crowded}
        ELSE IF broken # {} THEN Oldest(x, broken)
        ELSE IF dated # {} THEN Oldest(x, dated)
        ELSE Oldest(x, bare)

NextChildren(x) == Claims(x, {v \in Online(x) : ~Blocked(x, v)})

\* Direct parents to try behind a healthy SFU edge.
OpenContinuation(x, v) ==
    /\ v \in x.online /\ x.edge[v].parent = "sfu"
    /\ x.edge[v].usable /\ x.edge[v].active /\ SfuEdgeCurrent(x, v)

RestoreContinuations(x) ==
    LET direct(v) == {p \in AvailableVias(x, v) \cap Peers :
                        PlanCandidate(x, v, p).rank # Gap}
    IN  [x EXCEPT !.cont = [v \in Viewers |->
           IF OpenContinuation(x, v) THEN @[v] \cup direct(v) ELSE {}]]

Continuations(x) ==
    LET open(v, p) == /\ OpenContinuation(x, v) /\ p \in x.cont[v]
                      /\ PlanCandidate(x, v, p).rank # Gap
                      /\ CandidateValid(x, v, PlanCandidate(x, v, p))
    IN  {pick \in Viewers \X Peers : open(pick[1], pick[2])}

SfuFirst(plans) ==
    Kept(plans, {i \in DOMAIN plans : IsSfu(plans[i])})
      \o Kept(plans, {i \in DOMAIN plans : IsPeer(plans[i])})

StartOperation(x, v, demand, reason, plans) ==
    [x EXCEPT !.op = [NoOperation EXCEPT !.child = v, !.demand = demand,
                                         !.reason = reason, !.plans = plans]]

RememberUncarried(x, v) ==
    IF SafeCarriers(x, v) # {} THEN x ELSE RememberUnavailable(x, v)

\* No candidate at all: the viewer loses an edge it must leave.
Unavailable(x, v) == RememberUncarried(GiveUp(x, v), v)

Going(x) == [c |-> x, done |-> FALSE]

Done(x) == [c |-> x, done |-> TRUE]

StartRoute(x, v) ==
    {IF plans = <<>> THEN Going(Unavailable(x, v))
     ELSE Done(StartOperation(x, v, v, "availability",
                 IF v \in x.sfuFirst THEN SfuFirst(plans) ELSE plans))
       : plans \in CandidateLists(x, v)}

StartCarrier(x, carrier, plan) ==
    IF PlanUsable(x, carrier, plan) /\ plan.rank # Gap
    THEN {Done(StartOperation(x, carrier, x.intent, "bootstrap", <<plan>>))}
    ELSE {Going(CompleteCarrier(x, carrier, NoPlan))}

StartBootstrap(x, carrier) ==
    StartCarrier(x, carrier, PlanCandidate(x, carrier, "create"))

ScheduleNext(x) ==
    IF GloballyNeeded(x) /\ x.intent # "none"
    THEN UNION {StartBootstrap(x, carrier) : carrier \in Newest(x, Carriers(x))}
    ELSE IF NextChildren(x) # {}
    THEN UNION {StartRoute(x, v) : v \in NextChildren(x)}
    ELSE IF Continuations(x) # {}
    THEN {Done(StartOperation(x, pick[1], pick[1], "direct",
                 <<PlanCandidate(x, pick[1], pick[2])>>))
            : pick \in Continuations(x)}
    ELSE {Done(x)}

\* One round of the scheduling loop.
Schedule(x) == ScheduleNext(TakeCarrier(x))

Scheduled(x) ==
    LET rounds[n \in 0..Cardinality(Viewers) + 1] ==
          IF n = 0 THEN {Going(x)}
          ELSE UNION {IF r.done THEN {r} ELSE Schedule(r.c) : r \in rounds[n-1]}
    IN  {r.c : r \in rounds[Cardinality(Viewers) + 1]}

\* A direct continuation yields to work that is owed.
Yield(x) ==
    IF HasBootstrapWork(x) \/ NextChildren(x) # {} THEN AbortOperation(x) ELSE x

Foreground(x) == IF x.op.reason = "direct" THEN Yield(SettleIntent(x)) ELSE x

Tidied(x) == IF HasOp(x) THEN x ELSE PruneDepartedLeaves(x)

Resumed(x) ==
    IF x.paused \/ HasOp(x) THEN {x} ELSE Scheduled(RestoreContinuations(x))

\* Reconcile: what the controller may be after a round of the pump.
Reconciled(x) ==
    Resumed(Tidied(Foreground(Validate(RetireDepartedEdges(x), FALSE))))

-----------------------------------------------------------------------------
(* The pump and the answers of the clients.                                *)

Reconcile == c' \in Reconciled(c) /\ UNCHANGED churn

Waiting(x) == HasOp(x) /\ ~x.op.att.live /\ Planned(x) /\ ~x.paused

UnusedGenerations(x) ==
    Generations \ (x.pubs \cup x.retiring \cup {x.edge[v].gen : v \in Viewers})

Begun(x) ==
    LET v == x.op.child
        via == Current(x).via
        sub == Lowest({1, 2} \ {s \in {1, 2} : <<v, s>> \in x.subs})
        gen == IF via = "reuse" THEN x.pub.gen ELSE Lowest(UnusedGenerations(x))
    IN  IF IsPeer(Current(x)) THEN [x EXCEPT !.op.att.live = TRUE]
        ELSE [x EXCEPT !.op.att.live = TRUE,
                       !.op.att.gen = gen, !.op.att.sub = sub,
                       !.subs = @ \cup {<<v, sub>>},
                       !.pubs = @ \cup {gen}]

CanBegin(x) ==
    /\ Waiting(x) /\ Validate(x, FALSE) = x /\ x.op.based
    /\ IsSfu(Current(x)) =>
         /\ Host \in x.online
         /\ Current(x).via = "reuse" \/ UnusedGenerations(x) # {}

\* The pump reserved what the candidate needs and prepares it.
BeginCurrentCandidate ==
    /\ CanBegin(c) /\ Current(c).rank # Gap
    /\ c' = Begun(c)
    /\ UNCHANGED churn

\* Mutant: the tail is not planned again under the copy that came free.
RetiredUnplanned(x) ==
    LET v == x.op.child
    IN  IF Retirement(x, v, Current(x).via) = "edge" THEN Deactivate(x, v)
        ELSE RemovePublicationGeneration(x, x.pub.gen)

\* The producer gives up the copy that the candidate needs.
Retired(x) ==
    LET v == x.op.child
        via == Current(x).via
        kind == Retirement(x, v, via)
        old == x.edge[v]
        y == IF kind = "edge" THEN Deactivate(x, v)
             ELSE RemovePublicationGeneration(x, x.pub.gen)
        first == IF kind = "publication" /\ via = "replace" THEN "create" ELSE via
        restore == IF kind = "edge" /\ old.usable THEN old.parent ELSE "none"
    IN  ReplanRemaining(AdvanceActiveRevision(y), first, restore)

BeginRetired(x) ==
    IF CanBegin(x) /\ Current(x).rank # Gap THEN Begun(x) ELSE Validate(x, FALSE)

\* The producer has no spare copy: it gives one up before the candidate
\* starts, in the same hold of the mutex and with the same reservation.
RetireCurrentCandidateProducer ==
    /\ CanBegin(c) /\ Current(c).rank = Gap
    /\ c' = BeginRetired(Retired(c))
    /\ UNCHANGED churn

\* The Host of an SFU candidate has no session: preparation is refused.
SkipCurrentCandidate ==
    /\ Waiting(c) /\ Validate(c, FALSE) = c
    /\ IsSfu(Current(c)) /\ Host \notin c.online
    /\ c' = Validate([c EXCEPT !.op.cursor = @ + 1], FALSE)
    /\ UNCHANGED churn

\* The direct parents to try behind the SFU edge that v moves to.
ContinuationOf(x, old) ==
    IF IsPeer(Current(x)) \/ x.op.reason = "direct" THEN {}
    ELSE IF x.op.reason = "bootstrap" /\ old.parent \in Peers /\ old.usable /\ old.active
    THEN {old.parent}
    ELSE x.op.deferred \cup
         (Peers \cap {plan.via : plan \in
                     Range(SubSeq(x.op.plans, x.op.cursor + 2, Len(x.op.plans)))})

EdgeOf(plan, att) ==
    [parent |-> SourceOf(plan.via), gen |-> att.gen, sub |-> att.sub,
     usable |-> TRUE, active |-> TRUE, own |-> TRUE]

\* v's committed edge is the candidate's; x is the controller at the proof.
Installed(x, y, v) ==
    [y EXCEPT
       !.subs = @ \ {<<w, y.edge[w].sub>> : w \in {v} \cap Subscribers(y)},
       !.edge[v] = EdgeOf(Current(x), x.op.att),
       !.cont[v] = ContinuationOf(x, x.edge[v]),
       !.pub = IF Current(x).via \in {"create", "replace"}
               THEN [gen |-> x.op.att.gen, usable |-> TRUE] ELSE @,
       !.exhausted = @ \ {v}, !.reported = @ \ {v}, !.op = NoOperation]

\* The demand behind the operation has been served.
Served(x, op) ==
    IF op.reason = "bootstrap"
    THEN [x EXCEPT !.sfuFirst = @ \cup {op.demand}, !.intent = "none"]
    ELSE IF UsableRoute(x, op.child) THEN ClearBootstrapFor(x, op.child) ELSE x

\* The child now plays the candidate; what it does not use any more is freed.
Committed(x) ==
    LET v == x.op.child
        y == IF Current(x).via = "replace"
             THEN RemovePublicationGeneration(x, x.pub.gen) ELSE x
        z == PruneAnchors(Installed(x, y, v))
    IN  Served(IF x.edge[v].parent = "sfu" THEN DropUnusedPublication(z) ELSE z, x.op)

CommitLive(x) == IF x.op.att.live THEN Committed(x) ELSE x

FailLive(x) == IF x.op.att.live THEN Validate(PromoteNextDirect(x), TRUE) ELSE x

ConnectLive(x) == IF x.op.att.live THEN [x EXCEPT !.op.att.connected = TRUE] ELSE x

\* Mutant: a late answer commits without looking at what changed.
CandidateReadyUnchecked ==
    /\ c.op.att.live
    /\ c' = Committed(c)
    /\ UNCHANGED churn

CandidateReady ==
    /\ c.op.att.live
    /\ c' = CommitLive(Validate(c, FALSE))
    /\ UNCHANGED churn

\* The SFU ledger refuses the commit of an SFU candidate.
CommitRefused ==
    /\ c.op.att.live /\ IsSfu(Current(c))
    /\ c' = FailLive(Validate(c, FALSE))
    /\ UNCHANGED churn

CandidateFailed ==
    /\ c.op.att.live
    /\ c' = FailLive(c)
    /\ UNCHANGED churn

CandidateTransportConnected ==
    /\ c.op.att.live /\ IsPeer(Current(c)) /\ ~c.op.att.connected
    /\ c' = ConnectLive(Validate(c, FALSE))
    /\ UNCHANGED churn

\* The deadline timer, and every answer to an attempt that is gone.
OperationExpired == c' = Validate(c, FALSE) /\ UNCHANGED churn

\* Time passes for the operation, and for an attempt without progress.
TimePasses ==
    /\ HasOp(c)
    /\ \/ /\ c.op.clock # "overdue"
          /\ c' = [c EXCEPT !.op.clock = IF @ = "early" THEN "late" ELSE "overdue"]
       \/ /\ c.op.clock = "late" /\ c.op.att.live /\ ~c.op.att.stalled
          /\ c' = [c EXCEPT !.op.att.stalled = TRUE]
    /\ UNCHANGED churn

-----------------------------------------------------------------------------
(* What happens around the controller.                                     *)

Churn(x) ==
    /\ churn < MaxChurn
    /\ churn' = churn + 1
    /\ c' = x

\* Opportunities belong to a pair of sessions.
ClearOpportunities(x, p) ==
    [x EXCEPT
       !.spent = [v \in Viewers |->
          IF v = p THEN [source \in Peers \cup {"sfu"} |-> Fresh]
          ELSE [@[v] EXCEPT ![p] = Fresh,
                            !["sfu"] = IF p = Host THEN Fresh ELSE @]],
       !.carried = [v \in Viewers |-> IF p \in {v, Host} THEN Fresh ELSE @[v]],
       !.exhausted = @ \ {p},
       !.reported = IF p = Host THEN {} ELSE @ \ {p}]

\* The session of p ends or is replaced.
EndSession(x, p) ==
    LET y == ClearOpportunities(x, p)
    IN  IF p = Host THEN y ELSE ClearBootstrapFor([y EXCEPT !.cont[p] = {}], p)

\* The media may survive a lost control connection until the grace ends.
DisconnectSession(p) ==
    /\ p \in c.online
    /\ Churn(TouchFacts([EndSession(c, p) EXCEPT !.online = @ \ {p}]))

UsesSession(x, p) ==
    /\ HasOp(x)
    /\ \/ p \in {x.op.child, x.op.demand}
       \/ IF IsPeer(Current(x)) THEN p = Current(x).via ELSE p = Host

\* p authenticates again: in its grace, or in place of its older session.
Reconnect(p) ==
    /\ p \in Participants(c) \cup {Host}
    /\ LET x == EndSession(c, p)
           y == IF UsesSession(x, p) THEN AbortOperation(x) ELSE x
           keyed(v) == \/ v = p \/ c.edge[v].parent = p
                       \/ p = Host /\ c.edge[v].parent = "sfu"
       IN  Churn(TouchFacts([y EXCEPT
               !.online = @ \cup {p}, !.departed = @ \ {p},
               !.cap[p] = IF p = Host THEN EndpointCapacity ELSE @,
               !.edge = [v \in Viewers |->
                           [y.edge[v] EXCEPT !.own = @ /\ ~keyed(v)]]]))

Join(v) ==
    /\ v \notin Participants(c)
    /\ Churn(TouchFacts([ClearOpportunities(c, v)
                           EXCEPT !.order = Append(@, v), !.online = @ \cup {v},
                                  !.cap[v] = 0]))

ConfirmDeparture(v) ==
    /\ v \in Participants(c) \ c.departed
    /\ Churn(TouchFacts([EndSession(c, v)
                           EXCEPT !.online = @ \ {v}, !.cap[v] = 0,
                                  !.departed = @ \cup {v}]))

SetEffectiveCapacity(p, n) ==
    /\ p \in c.online /\ n # c.cap[p]
    /\ Churn(TouchFacts([c EXCEPT !.cap[p] = n]))

\* The child or the parent reports that an edge does not deliver any more.
InvalidateEdge(v) ==
    /\ v \in c.online /\ c.edge[v].usable
    /\ LET source == c.edge[v].parent
           x == IF c.edge[v].own THEN [c EXCEPT !.spent[v][source] = Steady] ELSE c
       IN  Churn(TouchFacts([x EXCEPT !.edge[v].usable = FALSE, !.cont[v] = {},
                                      !.exhausted = @ \ {v}, !.reported = @ \ {v}]))

\* The Host reports its publication lost. It is retired at once unless a
\* candidate is live; then it stays, unusable, until it is replaced.
InvalidatePublication ==
    /\ c.pub.usable /\ Host \in c.online
    /\ LET x == TouchFacts([c EXCEPT !.pub.usable = FALSE, !.intent = "none",
                                     !.cont = [v \in Viewers |-> {}]])
       IN  Churn(IF x.op.att.live THEN x
                 ELSE RetireHostPublication(x))

\* A Host with a new identity takes the share over: the tree is gone.
RebindHostIdentity ==
    /\ Churn([c EXCEPT
          !.online = @ \cup {Host}, !.cap[Host] = EndpointCapacity,
          !.edge = [v \in Viewers |-> NoEdge], !.pub = NoPublication,
          !.retiring = {}, !.op = NoOperation, !.subs = {}, !.pubs = {},
          !.exhausted = {}, !.reported = {}, !.sfuFirst = {}, !.intent = "none",
          !.cont = [v \in Viewers |-> {}],
          !.carried = [v \in Viewers |-> Fresh],
          !.spent = [v \in Viewers |-> [source \in Peers \cup {"sfu"} |-> Fresh]]])

SetPaused ==
    Churn(IF c.paused THEN TouchFacts([c EXCEPT !.paused = FALSE])
          ELSE [AbortOperation(c) EXCEPT !.paused = TRUE])

\* SFU capacity was freed while this room waited for it.
TouchExternalFacts ==
    /\ Waiting(c) /\ IsSfu(Current(c))
    /\ Churn(TouchFacts([c EXCEPT
          !.spent = [v \in Viewers |-> [@[v] EXCEPT !["sfu"] = Fresh]],
          !.carried = [v \in Viewers |-> Fresh],
          !.reported = {}, !.intent = "none"]))

Environment ==
    \/ \E p \in Peers :
         \/ DisconnectSession(p)
         \/ Reconnect(p)
         \/ \E n \in 0..EndpointCapacity : SetEffectiveCapacity(p, n)
    \/ \E v \in Viewers : Join(v) \/ ConfirmDeparture(v) \/ InvalidateEdge(v)
    \/ InvalidatePublication
    \/ SetPaused
    \/ TouchExternalFacts

-----------------------------------------------------------------------------
\* A share starts with the viewers that are in the room.
Init ==
    \E present \in SUBSET Viewers :
    \E order \in SetToSeqs(present), cap \in [Peers -> {0, EndpointCapacity}] :
      /\ cap[Host] = EndpointCapacity
      /\ \A v \in Viewers \ present : cap[v] = 0
      /\ c = [order |-> order, online |-> present \cup {Host}, departed |-> {},
              cap |-> cap, edge |-> [v \in Viewers |-> NoEdge], pub |-> NoPublication,
              retiring |-> {}, op |-> NoOperation,
              exhausted |-> {}, reported |-> {}, sfuFirst |-> {},
              spent |-> [v \in Viewers |->
                           [source \in Peers \cup {"sfu"} |-> Fresh]],
              cont |-> [v \in Viewers |-> {}], intent |-> "none",
              carried |-> [v \in Viewers |-> Fresh],
              paused |-> FALSE, subs |-> {}, pubs |-> {}]
      /\ churn = 0

Operate ==
    \/ Reconcile \/ BeginCurrentCandidate \/ RetireCurrentCandidateProducer
    \/ SkipCurrentCandidate
    \/ CandidateReady \/ CommitRefused \/ CandidateFailed
    \/ CandidateTransportConnected
    \/ OperationExpired \/ TimePasses

Next == Operate \/ Environment \/ RebindHostIdentity

Spec == Init /\ [][Next]_vars

\* Every handler requests a round of the pump, and the deadline timer is
\* armed as long as an operation exists. Nothing else is fair: candidates may
\* never be prepared and clients may never answer. The first two conjuncts are
\* weak fairness of Reconcile and OperationExpired, with ENABLED spelled out.
FairSpec ==
    /\ Spec
    /\ []<>(Reconciled(c) = {c}) \/ []<><<Reconcile>>_vars
    /\ []<>(Validate(c, FALSE) = c) \/ []<><<OperationExpired>>_vars
    /\ WF_vars(TimePasses)

-----------------------------------------------------------------------------
Plans == [via : Peers \cup Publications, rank : {Steady, Overlap, Gap}]

TypeOK ==
    /\ Participants(c) \subseteq Viewers
    /\ c.online \subseteq Participants(c) \cup {Host}
    /\ c.departed \subseteq Participants(c) \ c.online
    /\ c.cap \in [Peers -> 0..EndpointCapacity]
    /\ \A v \in Viewers : c.edge[v].parent \in (Peers \ {v}) \cup {"sfu", "none"}
    /\ c.op.child \in Viewers \cup {"none"}
    /\ c.op.demand \in Viewers \cup {"none"}
    /\ Range(c.op.plans) \subseteq Plans
    /\ c.op.att.live => Planned(c)
    /\ c.op.cursor \in 0..Len(c.op.plans)
    /\ c.op.clock \in Clocks
    /\ churn \in 0..MaxChurn

\* assertGraph (graph.go:247) panics the process on any of these: a cycle, a
\* parent that is no participant, a route that ends nowhere, an active SFU
\* edge of another publication, an anchor whose generation is forgotten or a
\* retiring generation without an anchor.
GraphOK ==
    /\ TypeOK
    /\ \A v \in Viewers : c.edge[v] # NoEdge =>
         /\ v \in Participants(c)
         /\ v \notin Descendants(c, v)
         /\ LET p == c.edge[v].parent
            IN  p \in Viewers => p \in Participants(c) /\ c.edge[p] # NoEdge
    /\ \A v \in OnSfu(c) : IF c.edge[v].active THEN c.pub.gen = c.edge[v].gen
                                               ELSE c.edge[v].gen \in c.retiring
    /\ \A g \in c.retiring : \E v \in OnSfu(c) : /\ ~c.edge[v].active
                                                 /\ c.edge[v].gen = g

\* What the controller holds is what the tree and the live attempt use: every
\* reservation is released exactly once (the ledger panics otherwise), and a
\* publication without subscribers is not kept.
ResourcesBalance ==
    /\ c.subs = {<<v, c.edge[v].sub>> : v \in Subscribers(c)} \cup ReservedSubscription(c)
    /\ c.pubs = ({c.pub.gen} \ {0}) \cup ReservedGeneration(c)
    /\ c.pub.gen # 0 => Subscribers(c) # {}

\* The copy that the live attempt makes its producer send.
Extra(x, p) ==
    IF /\ x.op.att.live
       /\ Current(x).via = p \/ (p = Host /\ Current(x).via \in {"create", "replace"})
    THEN 1 ELSE 0

\* No endpoint ever sends more copies than a transition may overlap.
CopyBudget ==
    \A p \in Peers : Copies(c, p) + Extra(c, p) <= Least(EndpointCapacity + 1, 3)

\* A live attempt was prepared under a revision newer than every revision
\* broadcast since, so the child does not discard it as outdated; a waiting
\* operation is based on the current revision, or it could never begin.
PreparedIsNewest == c.op.att.newest /\ c.op.based

Ancestors(x, v) == {p \in Viewers : v \in Descendants(x, p)}

\* A round of the pump would change nothing.
Resting(x) == ~x.paused /\ ~HasOp(x) /\ Reconciled(x) = {x}

\* When the pump has nothing left to do, every connected viewer has a route
\* that delivers, or no candidate is left for it, or it hangs below a relay
\* that may still come back within its grace; no connected viewer is fed
\* beyond its parent's capacity, and no departed one is fed at all.
RestingRoomServes ==
    Resting(c) =>
      /\ \A v \in Online(c) : \/ UsableRoute(c, v) \/ Blocked(c, v)
                              \/ ~(Ancestors(c, v) \subseteq c.online)
      /\ \A p \in Peers : Overflow(c, p) \cap c.online = {}
      /\ \A v \in c.departed : ~c.edge[v].active

\* A handover makes before it breaks: outside the announced gap, no step of
\* the controller takes a route that delivers from a connected viewer, unless
\* one of its hops had to move (graph.go:115).
HandoverKeepsMedia ==
    [][churn' = churn /\ (c.op.att.live \/ Current(c).rank # Gap) =>
         \A v \in Online(c) :
            UsableRoute(c, v) /\ ~UsableRoute(c', v) =>
               \E p \in Ancestors(c, v) \cup {v} : EdgeRequiresMove(c, p)]_vars

\* A route is committed only while it delivers: a late answer never moves a
\* viewer below a parent, or onto a publication, that was lost meanwhile.
CommitDelivers ==
    [][\A v \in Viewers :
         <<c'.edge[v].parent, c'.edge[v].sub>> # <<c.edge[v].parent, c.edge[v].sub>>
         /\ c'.edge[v] # NoEdge => UsableRoute(c', v)]_vars

\* A producer is retired only for a candidate that then starts, under the
\* reservation made before the gap: the media given up is never given up for
\* nothing, and the reservation still fits (candidates.go:286 panics if not).
GapStartsCandidate ==
    [][RetireCurrentCandidateProducer =>
         /\ c'.op.att.live /\ c'.op.child = c.op.child
         /\ SourceOf(Current(c').via) = SourceOf(Current(c).via)]_vars

\* The room comes to rest: no chain of failures, deadlines and retries keeps
\* the controller busy for ever once nothing changes around it.
RoomSettles == <>[]~HasOp(c)
=============================================================================
