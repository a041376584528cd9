----------------------------- MODULE RouteGraph -----------------------------
(***************************************************************************)
(* The committed media tree of one share and the questions the route       *)
(* controller asks of it: who may feed whom, with which copy budget, and   *)
(* which candidates a viewer still has (internal/server/route: graph.go,   *)
(* candidates.go, opportunities.go, sfu_bootstrap.go).                     *)
(*                                                                         *)
(* A controller is one record, c:                                          *)
(*   order     viewers that are participants, oldest join first            *)
(*   online    participants with a session                                 *)
(*   departed  viewers whose departure is confirmed                        *)
(*   cap       effective downstream capacity of each participant           *)
(*   edge      committed upstream edge of each viewer                      *)
(*   pub       the Host's publication: its generation (0: none), usable    *)
(*   retiring  generations kept alive by retired SFU edges with children   *)
(*   op        the single route operation in flight                        *)
(*   exhausted viewers whose opportunities ran out                         *)
(*   reported  viewers told that no bootstrap carrier is left              *)
(*   sfuFirst  viewers whose next operation tries the SFU first            *)
(*   spent     per viewer and source, the best transition rank already     *)
(*             tried (Fresh: none)                                         *)
(*   cont      direct continuation: parents to try behind an SFU edge      *)
(*   intent    viewer for which a publication is being bootstrapped        *)
(*   carried   per bootstrap carrier, the best rank already tried          *)
(*   paused    the share is paused                                         *)
(*   subs, pubs  resources charged for this controller and not released    *)
(* It models the ordinary configuration: picture rooms without voice,      *)
(* automatic route preference, NAT prediction and topology optimization    *)
(* off, no relay volunteers.                                               *)
(***************************************************************************)
EXTENDS Integers, FiniteSets, Sequences, SequencesExt

CONSTANTS
    Viewers,            \* viewers that may take part
    Host,               \* the sharing peer
    EndpointCapacity,   \* copies one endpoint sends in the steady state
    SfuEnabled,         \* whether the deployment has an SFU
    Generations         \* names for publication generations

ASSUME RouteAssumption ==
    /\ IsFiniteSet(Viewers) /\ Host \notin Viewers
    /\ (Viewers \cup {Host}) \cap {"sfu", "none", "reuse", "create", "replace"} = {}
    /\ EndpointCapacity \in 1..3
    /\ SfuEnabled \in BOOLEAN
    /\ Generations \subseteq Nat \ {0}

Peers == Viewers \cup {Host}
Fresh == 3
Publications == {"reuse", "create", "replace"}
Steady == 0
Overlap == 1
Gap == 2

NoEdge == [parent |-> "none", gen |-> 0, sub |-> 0,
           usable |-> FALSE, active |-> FALSE, own |-> FALSE]
NoPublication == [gen |-> 0, usable |-> FALSE]
NoPlan == [via |-> "none", rank |-> Steady]
NoAttempt == [live |-> FALSE, gen |-> 0, sub |-> 0,
              connected |-> FALSE, stalled |-> FALSE, newest |-> TRUE]
NoOperation == [child |-> "none", demand |-> "none", reason |-> "none",
                plans |-> <<>>, cursor |-> 0, deferred |-> {},
                stale |-> FALSE, based |-> TRUE, clock |-> "early",
                att |-> NoAttempt]

Least(a, b) == IF a <= b THEN a ELSE b

\* The elements of a sequence at the positions I, in their order.
Kept(s, I) ==
    LET kept[n \in 0..Len(s)] ==
          IF n = 0 THEN <<>>
          ELSE IF n \in I THEN Append(kept[n-1], s[n]) ELSE kept[n-1]
    IN  kept[Len(s)]

-----------------------------------------------------------------------------
(* The tree.                                                               *)

Participants(c) == Range(c.order)

Children(c, p) == {v \in Viewers : c.edge[v].parent = p}

OnSfu(c) == {v \in Viewers : c.edge[v].parent = "sfu"}

Subscribers(c) == {v \in OnSfu(c) : c.edge[v].active}

Joined(c, v) == CHOOSE i \in DOMAIN c.order : c.order[i] = v

\* The first and the last of a set of viewers in join order, as a set.
Oldest(c, S) == {v \in S : \A w \in S : Joined(c, v) <= Joined(c, w)}

Newest(c, S) == {v \in S : \A w \in S : Joined(c, v) >= Joined(c, w)}

Descendants(c, p) ==
    LET within[n \in 0..Cardinality(Viewers)] ==
          IF n = 0 THEN Children(c, p)
          ELSE within[n-1] \cup UNION {Children(c, q) : q \in within[n-1]}
    IN  within[Cardinality(Viewers)]

\* Every hop up to the Host is usable and active, within n hops.
SourceUsable(c, p) ==
    LET delivers(q, fed) ==
          LET e == c.edge[q]
          IN  /\ e.usable /\ e.active
              /\ IF e.parent = "sfu" THEN c.pub.usable /\ c.pub.gen = e.gen
                                     ELSE e.parent \in fed
        fed[n \in 0..Cardinality(Viewers)] ==
          IF n = 0 THEN {Host} ELSE {Host} \cup {q \in Viewers : delivers(q, fed[n-1])}
    IN  p \in fed[Cardinality(Viewers)]

UsableRoute(c, v) == SourceUsable(c, v)

Depth(c, p) ==
    LET hops[n \in Nat, q \in Peers] ==
          IF q = Host THEN 1
          ELSE IF n > 0 /\ c.edge[q].parent \in Viewers
               THEN 1 + hops[n-1, c.edge[q].parent]
               ELSE 2
    IN  hops[Cardinality(Viewers), p]

-----------------------------------------------------------------------------
(* The copy budget.                                                        *)

Copies(c, p) ==
    Cardinality({v \in Children(c, p) : c.edge[v].active})
      + (IF p = Host /\ c.pub.gen # 0 THEN 1 ELSE 0)

\* Mutant: an overlap may use any spare copy.
UnboundedOverlap == EndpointCapacity + 2

\* One copy above the capacity while a transition overlaps, never a fourth.
TransitionCopyLimit == Least(EndpointCapacity + 1, 3)

FedBy(c, v, p) == c.edge[v].parent = p /\ c.edge[v].active

OnlySubscriber(c, v) == Subscribers(c) = {v}

\* p would feed v within its capacity; a publication that v alone uses is
\* not counted against the Host.
TargetFits(c, p, v) ==
    Copies(c, p) + (IF FedBy(c, v, p) THEN 0 ELSE 1)
      - (IF p = Host /\ OnlySubscriber(c, v) THEN 1 ELSE 0) <= c.cap[p]

PublicationFits(c, v, replacing) ==
    /\ Host \in c.online
    /\ Copies(c, Host) + (IF replacing /\ c.pub.gen # 0 THEN 0 ELSE 1)
         - (IF FedBy(c, v, Host) THEN 1 ELSE 0) <= c.cap[Host]

Remaining(c, p, v) == c.cap[p] - Copies(c, p) - (IF FedBy(c, v, p) THEN 0 ELSE 1)

\* The active children beyond what p may keep; the oldest stay.
Overflow(c, p) ==
    LET kids == SelectSeq(c.order, LAMBDA v : FedBy(c, v, p))
        room == c.cap[p] - (IF p = Host /\ c.pub.gen # 0 THEN 1 ELSE 0)
    IN  {kids[i] : i \in {j \in DOMAIN kids : j > room}}

\* Mutant: a subtree stays with its relay whatever became of the relay.
ParentRouteKept(c, v) == FALSE

ParentRouteRetired(c, v) ==
    LET p == c.edge[v].parent
    IN  p \in Viewers /\ c.edge[p] # NoEdge /\ ~c.edge[p].active

SfuEdgeCurrent(c, v) == c.pub.usable /\ c.pub.gen = c.edge[v].gen

EdgeRequiresMove(c, v) ==
    LET e == c.edge[v]
    IN  /\ e # NoEdge
        /\ \/ ~e.usable \/ ~e.active
           \/ e.parent = "sfu" /\ ~(SfuEnabled /\ SfuEdgeCurrent(c, v))
           \/ ParentRouteRetired(c, v)
           \/ e.parent \in c.departed
           \/ e.parent \in Peers /\ v \in Overflow(c, e.parent)

-----------------------------------------------------------------------------
(* Candidates of a viewer.                                                 *)

SourceOf(via) == IF via \in Publications THEN "sfu" ELSE via

\* What the Host or a parent must give up first when it has no spare copy.
Retirement(c, v, via) ==
    LET p == IF via \in Publications THEN Host ELSE via
    IN  IF FedBy(c, v, p) THEN "edge"
        ELSE IF /\ p = Host /\ c.pub.gen # 0
                /\ via = "replace" \/ (via = Host /\ OnlySubscriber(c, v))
             THEN "publication" ELSE "none"

\* The transition for a producer that sends a number of copies.
PlanAt(c, v, via, p, copies) ==
    LET plan(rank) == [via |-> via, rank |-> rank]
    IN  IF via = "reuse" THEN plan(Steady)
        ELSE IF p \notin c.online THEN NoPlan
        ELSE IF copies + 1 <= c.cap[p] THEN plan(Steady)
        ELSE IF copies + 1 <= TransitionCopyLimit THEN plan(Overlap)
        ELSE IF Retirement(c, v, via) # "none" /\ copies <= c.cap[p]
             THEN plan(Gap) ELSE NoPlan

\* The transition the producer's copy budget allows; NoPlan if none.
PlanCandidate(c, v, via) ==
    LET p == IF via \in Publications THEN Host ELSE via
    IN  PlanAt(c, v, via, p, Copies(c, p))

ParentEligible(c, v, p) ==
    /\ p \in c.online /\ p # v /\ p \notin Descendants(c, v)
    /\ SourceUsable(c, p) /\ TargetFits(c, p, v)

PublicationEligible(c, v, via) ==
    /\ SfuEnabled
    /\ via = "reuse" => c.pub.gen # 0 /\ c.pub.usable
    /\ via = "replace" => /\ c.pub.gen # 0 /\ ~c.pub.usable
                          /\ PublicationFits(c, v, TRUE)
    /\ via = "create" => c.pub.gen = 0 /\ PublicationFits(c, v, FALSE)

CandidateValid(c, v, plan) ==
    /\ v \in c.online
    /\ IF plan.via \in Publications THEN PublicationEligible(c, v, plan.via)
                                    ELSE ParentEligible(c, v, plan.via)
    /\ PlanCandidate(c, v, plan.via) = plan

\* Each source is tried at most once per transition rank and session.
OpportunityAvailable(c, v, plan) == plan.rank < c.spent[v][SourceOf(plan.via)]

Spend(c, v, plan) ==
    [c EXCEPT !.spent[v][SourceOf(plan.via)] = Least(@, plan.rank)]

SfuVia(c, v) ==
    IF ~SfuEnabled THEN "none"
    ELSE IF c.pub.gen # 0 /\ c.pub.usable THEN "reuse"
    ELSE IF c.pub.gen # 0 THEN "replace"
    ELSE IF PublicationFits(c, v, FALSE) THEN "create" ELSE "none"

EligibleParents(c, v) == {p \in Peers : ParentEligible(c, v, p)}

PlanUsable(c, v, plan) == CandidateValid(c, v, plan) /\ OpportunityAvailable(c, v, plan)

PlanAvailable(c, v, via) == via # "none" /\ PlanUsable(c, v, PlanCandidate(c, v, via))

\* The sources v may still be moved to, in no order.
AvailableVias(c, v) ==
    {via \in EligibleParents(c, v) \cup {SfuVia(c, v)} : PlanAvailable(c, v, via)}

\* Shallow parents first, then those with most room; the remaining ties are
\* broken by a hash, so every order of them is possible.
ParentOrders(c, v) ==
    LET after(p, q) == \/ Depth(c, p) > Depth(c, q)
                       \/ /\ Depth(c, p) = Depth(c, q)
                          /\ Remaining(c, p, v) < Remaining(c, q, v)
    IN  {s \in SetToSeqs(EligibleParents(c, v)) :
           \A i, j \in DOMAIN s : i < j => ~after(s[i], s[j])}

\* The SFU comes second, behind the best parent.
WithSfu(parents, via) ==
    IF via = "none" THEN parents
    ELSE IF parents = <<>> THEN <<via>>
    ELSE <<parents[1], via>> \o Tail(parents)

CandidateLists(c, v) ==
    LET usable(vias) == Kept(vias, {i \in DOMAIN vias : PlanAvailable(c, v, vias[i])})
        planned(vias) == [i \in DOMAIN vias |-> PlanCandidate(c, v, vias[i])]
    IN  {planned(usable(WithSfu(s, SfuVia(c, v)))) : s \in ParentOrders(c, v)}

Blocked(c, v) == v \in c.exhausted /\ AvailableVias(c, v) = {}

-----------------------------------------------------------------------------
(* Bootstrapping a publication through a direct child of a full Host.      *)

BootstrapNeeded(c, v) ==
    /\ SfuEnabled /\ c.pub.gen = 0 /\ Copies(c, Host) + 1 > c.cap[Host]
    /\ v \in c.online /\ ~UsableRoute(c, v)
    /\ c.spent[v]["sfu"] > Steady

CanCarry(c, p, plan) ==
    /\ c.edge[p].usable /\ c.edge[p].active
    /\ CandidateValid(c, p, plan)
    /\ plan.rank # Gap /\ plan.rank < c.carried[p]

Carriers(c) ==
    {p \in Children(c, Host) : CanCarry(c, p, PlanCandidate(c, p, "create"))}

SafeCarriers(c, v) == IF BootstrapNeeded(c, v) THEN Carriers(c) ELSE {}
=============================================================================
