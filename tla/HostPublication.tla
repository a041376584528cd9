---------------------------- MODULE HostPublication ----------------------------
(***************************************************************************)
(* HostSfuRoute: how a Host's page follows the publications the server     *)
(* plans for it.  A publication is prepared beside the one in use, takes   *)
(* over when the server commits it, and everything that waits (connecting, *)
(* encoding, closing) runs between messages, in a queue of transitions.    *)
(*                                                                         *)
(* The server is the environment: it prepares, commits, aborts and retires *)
(* publications in increasing revisions, answers reports, loses the link,  *)
(* and restarts.  Without room media a publication's connection is named   *)
(* by its generation, so one number stands for both; 0 is none.            *)
(***************************************************************************)
EXTENDS Integers, Sequences, FiniteSets

CONSTANTS
    MaxRevision,    \* bound: revisions of the server
    MaxPubs,        \* bound: publications it creates
    MaxSlots,       \* bound: publishers the page opens
    MaxFaults,      \* bound: publishers and preparations that fail
    MaxLinks,       \* bound: links and servers lost
    MaxPauses       \* bound: pauses and resumptions

ASSUME HostPublicationAssumption ==
    {MaxRevision, MaxPubs, MaxSlots, MaxFaults, MaxLinks, MaxPauses} \subseteq Nat

VARIABLES
    host,       \* HostSfuRoute with its MediaRouteTransition and publishers
    server,     \* the route the server committed and the candidate it prepares
    inbox,      \* messages on their way to the page
    budget      \* what is left of the bounds, and the publications a pause cut short

vars == <<host, server, inbox, budget>>

Slots == 1..MaxSlots
NoSlot == [rev |-> 0, tok |-> 0, pub |-> 0, at |-> "none",
           connected |-> FALSE, active |-> FALSE, failed |-> FALSE]

Upd(phase, rev, pub, cand) == [t |-> phase, rev |-> rev, pub |-> pub, cand |-> cand]

-----------------------------------------------------------------------------
(***************************************************************************)
(* MediaRouteTransition.  A token is the generation of the update it       *)
(* belongs to; 0 is none.                                                  *)
(***************************************************************************)

NoRoute(gen) == [rev |-> -1, phase |-> "none", pub |-> 0, cand |-> "none",
                 apub |-> 0, atok |-> 0, arev |-> -1, gen |-> gen]

StaleUpdate(r, m) ==
    \/ m.rev < r.rev
    \/ m.rev = r.rev /\ (\/ r.pub # m.pub
                         \/ r.phase = "active" /\ m.t = "prepare"
                         \/ r.phase = "prepare" /\ m.t = "prepare" /\ r.cand # m.cand)

Repeated(r, m) == m.rev = r.rev /\ r.phase = m.t

Advance(r, m) ==
    IF m.t = "active"
    THEN [rev |-> m.rev, phase |-> "active", pub |-> m.pub, cand |-> "none",
          apub |-> m.pub, atok |-> r.gen + 1, arev |-> m.rev, gen |-> r.gen + 1]
    ELSE [r EXCEPT !.rev = m.rev, !.phase = "prepare", !.pub = m.pub,
                   !.cand = m.cand, !.gen = @ + 1]

-----------------------------------------------------------------------------
(***************************************************************************)
(* Slots.  A slot is failed once nothing may use it; disconnecting closes  *)
(* its publisher at the call.                                              *)
(***************************************************************************)

Report(h, t, rev, conn) ==
    IF h.link THEN [h EXCEPT !.sent = Append(@, [t |-> t, rev |-> rev, conn |-> conn])]
    ELSE h

OwnsSlot(h, i) ==
    IF h.slots[i].tok # 0 THEN h.slots[i].tok = h.route.atok
    ELSE h.route.rev = h.slots[i].rev /\ h.route.pub = h.slots[i].pub

Drop(h, i) == [h EXCEPT !.slots[i].failed = TRUE, !.open = @ \ {i}]

\* Mutant: the candidate is forgotten, its publisher stays.
ClearPendingOpen(h) ==
    IF h.pending = 0 THEN h
    ELSE [h EXCEPT !.pending = 0, !.slots[h.pending].failed = TRUE]

ClearPending(h) ==
    IF h.pending = 0 THEN h ELSE [Drop(h, h.pending) EXCEPT !.pending = 0]

RetireActive(h) ==
    IF h.active = 0 THEN h ELSE [Drop(h, h.active) EXCEPT !.active = 0]

RetirePublishers(h) == RetireActive(ClearPending(h))

NoRecovery == [rev |-> -1, refreshed |-> FALSE]

\* The server is asked once per revision to describe the connection again, and
\* is told that the publication failed when that was asked already.
RequestRecovery(h, rev, conn) ==
    IF h.recovery = [rev |-> rev, refreshed |-> TRUE]
    THEN Report(h, "failed", rev, conn)
    ELSE Report([h EXCEPT !.recovery = [rev |-> rev, refreshed |-> TRUE]], "refresh", rev, 0)

Forget(h, i) ==
    [h EXCEPT !.slots[i].failed = TRUE,
              !.pending = IF @ = i THEN 0 ELSE @,
              !.active = IF @ = i THEN 0 ELSE @]

\* handleFailure: what the loss of a slot means for the route.  A slot another
\* source needs replaced is not worth describing again.
HandleFailure(h, i, refresh) ==
    LET s == h.slots[i]
        g == Forget(h, i)
        planned == h.route.rev = s.rev /\ h.route.pub = s.pub
        committed == h.active = i \/ (s.tok # 0 /\ s.tok = h.route.atok)
    IN  IF h.closed \/ s.failed THEN h
        ELSE IF i \notin {h.pending, h.active} \/ h.route.rev < 0 THEN g
        ELSE IF h.route.phase = "prepare"
        THEN IF committed
             THEN IF h.route.arev >= 0 /\ h.route.apub = s.pub
                  THEN Report(g, "failed", h.route.arev, s.pub) ELSE g
             ELSE IF planned THEN Report(g, "prepare-failed", h.route.rev, 0) ELSE g
        ELSE IF ~planned THEN g
        ELSE IF refresh THEN RequestRecovery(g, h.route.rev, s.pub)
        ELSE Report(g, "failed", h.route.rev, s.pub)

-----------------------------------------------------------------------------
(***************************************************************************)
(* The transition queue.                                                   *)
(***************************************************************************)

Item(k, slot, tok, rev, retire) ==
    [k |-> k, slot |-> slot, tok |-> tok, rev |-> rev, retire |-> retire]
Idle == Item("idle", 0, 0, 0, FALSE)

Queue(h, item) == [h EXCEPT !.queue = Append(@, item)]

QueueActivation(h, tok, rev, retire) ==
    Queue(h, Item("activate", h.pending, tok, rev, retire))

CommitMedia(h, tok) ==
    IF h.route.atok = tok THEN [h EXCEPT !.recovery = NoRecovery] ELSE h

\* The prepared slot takes over and the one it replaces closes.
PromoteSlot(h) ==
    LET g == [h EXCEPT !.active = h.pending, !.pending = 0, !.recovery = NoRecovery]
    IN  IF h.active = 0 THEN g ELSE Drop(g, h.active)

Prepared(h, item, pub) ==
    /\ h.pending # 0 /\ h.slots[h.pending].rev = item.rev /\ h.slots[h.pending].pub = pub
    /\ h.slots[h.pending].connected /\ h.slots[h.pending].active

KeepsActive(h, pub) ==
    /\ h.active # 0 /\ ~h.slots[h.active].failed /\ h.slots[h.active].pub = pub
    /\ (h.pending # 0 => h.slots[h.pending].pub # pub)

Unpend(h, item) == IF h.pending = item.slot THEN ClearPending(h) ELSE h

\* activate: the committed route names no publication, the active one, or the
\* prepared one; anything else has to be recovered.
Activate(h, item) ==
    IF h.route.apub = 0
    THEN [RetireActive(Unpend(h, item)) EXCEPT !.run = [item EXCEPT !.k = "commit"]]
    ELSE IF KeepsActive(h, h.route.apub)
    THEN CommitMedia(Unpend([h EXCEPT !.slots[h.active].rev = item.rev,
                                      !.slots[h.active].tok = item.tok], item), item.tok)
    ELSE IF Prepared(h, item, h.route.apub) THEN PromoteSlot(h)
    ELSE RequestRecovery(h, item.rev, 0)

MayActivate(h, item) ==
    /\ ~h.closed /\ ~h.resyncing /\ h.route.atok = item.tok
    /\ ~(item.slot # 0 /\ h.slots[item.slot].tok # 0 /\ item.slot \notin {h.pending, h.active})

StartActivation(h, item) ==
    IF ~MayActivate(h, item) THEN h
    ELSE IF item.retire /\ (h.active = 0 \/ h.slots[h.active].pub # h.route.apub)
    THEN [RetireActive(h) EXCEPT !.run = [item EXCEPT !.retire = FALSE]]
    ELSE Activate(h, item)

\* A slot that lost its place while it waited is closed.
Displaced(h, i) ==
    [Drop(h, i) EXCEPT !.pending = IF @ = i THEN 0 ELSE @, !.slots[i].at = "done"]

StartPreparation(h, i) ==
    IF h.pending # i \/ ~OwnsSlot(h, i) THEN Displaced(h, i)
    ELSE [h EXCEPT !.slots[i].at = "prepare", !.run = Item("prepare", i, 0, 0, FALSE)]

Resynced(h, item) ==
    IF h.closed \/ item.tok # h.rgen THEN h
    ELSE IF h.route.atok = 0 THEN [h EXCEPT !.resyncing = FALSE]
    ELSE QueueActivation([h EXCEPT !.resyncing = FALSE], h.route.atok, h.route.arev, FALSE)

StartItem(h, item) ==
    IF item.k = "activate" THEN StartActivation(h, item)
    ELSE IF item.k = "prepare" THEN StartPreparation(h, item.slot)
    ELSE IF item.k = "close" THEN Drop(h, item.slot)
    ELSE Resynced(h, item)

\* The awaited part of a transition is over.
ContinueItem(h) ==
    LET g == [h EXCEPT !.run = Idle]
    IN  IF h.route.atok # h.run.tok THEN g
        ELSE IF h.run.k = "commit" THEN CommitMedia(g, h.run.tok)
        ELSE Activate(g, h.run)

\* Mutant: the publisher waits for a commit, which may have come already.
SlotPreparedWaits(h, i, ok) ==
    LET g == [h EXCEPT !.run = Idle, !.slots[i].at = "done"]
    IN  IF ~ok THEN [HandleFailure(g, i, TRUE) EXCEPT !.open = @ \ {i}]
        ELSE IF h.pending # i \/ ~OwnsSlot(h, i) THEN [g EXCEPT !.open = @ \ {i}]
        ELSE [g EXCEPT !.slots[i].active = TRUE]

\* preparePublisher ended: the publisher sends, or failed to.
SlotPrepared(h, i, ok) ==
    LET g == [h EXCEPT !.run = Idle, !.slots[i].at = "done"]
    IN  IF ~ok THEN [HandleFailure(g, i, TRUE) EXCEPT !.open = @ \ {i}]
        ELSE IF h.pending # i \/ ~OwnsSlot(h, i) THEN [g EXCEPT !.open = @ \ {i}]
        ELSE IF g.slots[i].tok = 0 \/ h.resyncing THEN [g EXCEPT !.slots[i].active = TRUE]
        ELSE QueueActivation([g EXCEPT !.slots[i].active = TRUE], g.slots[i].tok, g.slots[i].rev, FALSE)

SlotConnected(h, i, ok) ==
    IF h.pending # i \/ ~OwnsSlot(h, i) THEN Displaced(h, i)
    ELSE IF ~ok THEN [HandleFailure(h, i, TRUE) EXCEPT !.open = @ \ {i}, !.slots[i].at = "done"]
    ELSE Queue([h EXCEPT !.slots[i].connected = TRUE, !.slots[i].at = "queue"],
               Item("prepare", i, 0, 0, FALSE))

-----------------------------------------------------------------------------
(***************************************************************************)
(* Messages.                                                               *)
(***************************************************************************)

\* The commit of the pending slot's publication makes the slot its own.
Claim(h, m) ==
    IF h.pending # 0 /\ h.slots[h.pending].pub = m.pub
       /\ (h.slots[h.pending].rev = m.rev \/ h.slots[h.pending].tok # 0)
    THEN [h EXCEPT !.slots[h.pending].tok = h.route.atok, !.slots[h.pending].rev = m.rev]
    ELSE h

AcceptPrepare(h, m) ==
    IF h.pending # 0 /\ (\/ h.slots[h.pending].tok = 0 /\ h.slots[h.pending].rev # m.rev
                         \/ h.slots[h.pending].pub # m.pub)
    THEN ClearPending(h) ELSE h

\* Mutant: a paused page lets go of the publication in use at every commit.
DetachedAlways(h, m, dup) ==
    IF h.paused /\ ~dup /\ h.active # 0
    THEN Queue([h EXCEPT !.active = 0, !.slots[h.active].failed = TRUE],
               Item("close", h.active, 0, 0, FALSE))
    ELSE h

\* A paused page lets go of the active publication at once when the committed
\* route does not name it.
Detached(h, m, dup) ==
    IF h.paused /\ ~dup /\ h.active # 0 /\ h.slots[h.active].pub # m.pub
    THEN Queue([h EXCEPT !.active = 0, !.slots[h.active].failed = TRUE],
               Item("close", h.active, 0, 0, FALSE))
    ELSE h

AcceptActive(h, m, dup) ==
    LET g == Claim(Detached(h, m, dup), m)
    IN  IF g.resyncing THEN g ELSE QueueActivation(g, g.route.atok, g.route.arev, g.paused)

AcceptUpdate(h, m) ==
    IF h.closed \/ StaleUpdate(h.route, m) THEN h
    ELSE LET dup == Repeated(h.route, m)
             g == [h EXCEPT !.route = IF dup THEN @ ELSE Advance(@, m)]
             fresh == [g EXCEPT !.recovery = IF h.route.rev = m.rev THEN @ ELSE NoRecovery]
         IN  IF m.t = "active" THEN AcceptActive(fresh, m, dup)
             ELSE IF h.paused THEN ClearPending(g)
             ELSE AcceptPrepare(fresh, m)

\* Reauthentication: a route of an older sequence of revisions starts over.
Resync(h, m) ==
    IF h.closed \/ ~StaleUpdate(h.route, m) THEN AcceptUpdate(h, m)
    ELSE LET g == RetirePublishers([h EXCEPT !.rgen = @ + 1, !.resyncing = TRUE,
                                            !.route = NoRoute(h.route.gen + 1),
                                            !.recovery = NoRecovery])
         IN  Queue(AcceptUpdate(g, m), Item("resync", 0, h.rgen + 1, 0, FALSE))

Planned(h, m) ==
    /\ ~h.closed /\ h.route.rev = m.rev /\ h.route.phase # "none"
    /\ m.pub # 0 /\ h.route.pub = m.pub
    /\ h.route.phase = "prepare" => h.route.cand = "sfu"

\* sfu-config: the active connection is described again, the pending one is, or
\* a new publisher opens.
AcceptPublication(h, m) ==
    IF ~Planned(h, m) THEN h
    ELSE IF h.active # 0 /\ h.slots[h.active].pub = m.pub
    THEN LET g == [h EXCEPT !.slots[h.active].rev = m.rev]
         IN  IF h.route.phase = "active" /\ g.slots[h.active].active
             THEN QueueActivation(g, h.route.gen, m.rev, FALSE) ELSE g
    ELSE IF h.pending # 0 /\ h.slots[h.pending].pub = m.pub /\ ~h.slots[h.pending].failed
            /\ (h.slots[h.pending].rev = m.rev \/ h.slots[h.pending].tok # 0)
    THEN h
    ELSE [ClearPending(h) EXCEPT
            !.slots[h.next] = [NoSlot EXCEPT !.rev = m.rev, !.pub = m.pub, !.at = "connect",
                                             !.tok = IF h.route.phase = "active"
                                                     THEN h.route.atok ELSE 0],
            !.pending = h.next, !.open = (@ \ {h.pending}) \cup {h.next}, !.next = @ + 1]

Disconnected(h) ==
    RetirePublishers([h EXCEPT !.closed = TRUE, !.rgen = @ + 1, !.resyncing = FALSE,
                              !.route = NoRoute(h.route.gen + 1), !.recovery = NoRecovery])

-----------------------------------------------------------------------------
(***************************************************************************)
(* Steps of the page.                                                      *)
(***************************************************************************)

Receive ==
    /\ inbox # <<>> /\ host.next <= MaxSlots
    /\ inbox' = Tail(inbox)
    /\ host' = LET m == Head(inbox)
               IN  IF m.t = "config" THEN AcceptPublication(host, m)
                   ELSE IF m.t = "auth" THEN Resync([host EXCEPT !.link = TRUE], [m EXCEPT !.t = "active"])
                   ELSE AcceptUpdate(host, m)
    /\ UNCHANGED <<server, budget>>

\* Preparing and connecting may fail, within the bound.
Outcomes == {TRUE} \cup (IF budget.faults > 0 THEN {FALSE} ELSE {})

Spent(ok) == budget' = IF ok THEN budget ELSE [budget EXCEPT !.faults = @ - 1]

Connect ==
    \E i \in Slots, ok \in Outcomes :
        /\ host.slots[i].at = "connect"
        /\ host' = SlotConnected(host, i, ok)
        /\ Spent(ok) /\ UNCHANGED <<server, inbox>>

Transition ==
    /\ host.run = Idle /\ host.queue # <<>>
    /\ host' = StartItem([host EXCEPT !.queue = Tail(@)], Head(host.queue))
    /\ UNCHANGED <<server, inbox, budget>>

\* A publisher that was disconnected meanwhile rejects what it was doing.
EndTransition ==
    /\ host.run # Idle
    /\ IF host.run.k = "prepare"
       THEN \E ok \in Outcomes :
               /\ IF host.run.slot \in host.open
                  THEN host' = SlotPrepared(host, host.run.slot, ok) /\ Spent(ok)
                  ELSE host' = SlotPrepared(host, host.run.slot, FALSE) /\ UNCHANGED budget
       ELSE host' = ContinueItem(host) /\ UNCHANGED budget
    /\ UNCHANGED <<server, inbox>>

PublisherFails ==
    \E i \in host.open :
        /\ budget.faults > 0 /\ host.slots[i].at # "connect"
        /\ host' = [HandleFailure(host, i, TRUE) EXCEPT !.open = @ \ {i}]
        /\ Spent(FALSE) /\ UNCHANGED <<server, inbox>>

\* replaceStream: a source of another kind needs publishers of its own.
ReplaceSource ==
    /\ budget.faults > 0 /\ {host.active, host.pending} # {0}
    /\ host' = LET g == IF host.active = 0 THEN host
                        ELSE Drop(HandleFailure(host, host.active, FALSE), host.active)
               IN  IF host.pending = 0 THEN g
                   ELSE Drop(HandleFailure(g, host.pending, FALSE), host.pending)
    /\ Spent(FALSE) /\ UNCHANGED <<server, inbox>>

SetPaused ==
    /\ budget.pauses > 0 /\ ~host.closed
    /\ host' = IF host.paused THEN [host EXCEPT !.paused = FALSE]
               ELSE ClearPending([host EXCEPT !.paused = TRUE])
    /\ budget' = [budget EXCEPT !.pauses = @ - 1,
                                !.cut = IF ~host.paused /\ host.pending # 0 /\ host.slots[host.pending].tok # 0
                                        THEN @ \cup {host.slots[host.pending].pub} ELSE @]
    /\ UNCHANGED <<server, inbox>>

EndShare ==
    /\ ~host.closed
    /\ host' = Disconnected(host)
    /\ UNCHANGED <<server, inbox, budget>>

-----------------------------------------------------------------------------
(***************************************************************************)
(* The server and the link.                                                *)
(***************************************************************************)

NoPlan == [rev |-> 0, pub |-> 0, sfu |-> FALSE, flows |-> FALSE]

Tell(s, msgs) ==
    /\ server' = s
    /\ inbox' = IF server.link THEN inbox \o msgs ELSE inbox

Committed(s, pub) == [s EXCEPT !.rev = s.last + 1, !.last = @ + 1, !.pub = pub, !.plan = NoPlan]

Active(s) == Upd("active", s.rev, s.pub, "none")

PreparePublication ==
    /\ server.plan = NoPlan /\ server.pub = 0 /\ server.pubs < MaxPubs /\ server.link
    /\ server.last + 1 < MaxRevision
    /\ Tell([server EXCEPT !.last = @ + 1, !.pubs = @ + 1,
                           !.plan = [rev |-> server.last + 1, pub |-> server.pubs + 1,
                                     sfu |-> TRUE, flows |-> FALSE]],
            <<Upd("prepare", server.last + 1, server.pubs + 1, "sfu"),
              Upd("config", server.last + 1, server.pubs + 1, "none")>>)
    /\ UNCHANGED <<host, budget>>

\* The Host is prepared as the parent of a viewer.
PrepareChild ==
    /\ server.plan = NoPlan /\ server.link /\ server.last + 1 < MaxRevision
    /\ Tell([server EXCEPT !.last = @ + 1,
                           !.plan = [NoPlan EXCEPT !.rev = server.last + 1, !.pub = server.pub]],
            <<Upd("prepare", server.last + 1, server.pub, "peer")>>)
    /\ UNCHANGED <<host, budget>>

\* The SFU hears the candidate's media, and from then on a viewer may be ready.
MediaFlows ==
    /\ server.plan.sfu /\ ~server.plan.flows
    /\ \E i \in host.open : host.slots[i].pub = server.plan.pub /\ host.slots[i].active
    /\ server' = [server EXCEPT !.plan.flows = TRUE]
    /\ UNCHANGED <<host, inbox, budget>>

CommitPlan ==
    /\ server.plan # NoPlan /\ (server.plan.sfu => server.plan.flows)
    /\ LET s == [server EXCEPT !.rev = server.plan.rev, !.pub = server.plan.pub, !.plan = NoPlan]
       IN  Tell(s, <<Active(s)>>)
    /\ UNCHANGED <<host, budget>>

AbortPlan ==
    /\ server.plan # NoPlan
    /\ Tell(Committed(server, server.pub), <<Active(Committed(server, server.pub))>>)
    /\ UNCHANGED <<host, budget>>

\* The last viewer of the publication left it.
RetirePublication ==
    /\ server.pub # 0 /\ server.plan = NoPlan /\ server.last + 1 < MaxRevision
    /\ Tell(Committed(server, 0), <<Active(Committed(server, 0))>>)
    /\ UNCHANGED <<host, budget>>

Heard(m) ==
    IF m.t = "prepare-failed" /\ server.plan.sfu /\ server.plan.rev = m.rev
    THEN Tell(Committed(server, server.pub), <<Active(Committed(server, server.pub))>>)
    ELSE IF m.t = "failed" /\ server.pub # 0 /\ m.rev <= server.rev
            /\ (m.conn = server.pub \/ (m.conn = 0 /\ m.rev = server.rev))
    THEN Tell(Committed(server, 0), <<Active(Committed(server, 0))>>)
    ELSE IF m.t = "refresh" /\ server.pub # 0 /\ m.rev <= server.rev
    THEN Tell(server, <<Upd("config", server.rev, server.pub, "none")>>)
    ELSE UNCHANGED <<server, inbox>>

Hear ==
    /\ host.sent # <<>>
    /\ Heard(Head(host.sent))
    /\ host' = [host EXCEPT !.sent = Tail(@)]
    /\ UNCHANGED budget

LinkLost(s) ==
    /\ server.link /\ budget.links > 0
    /\ server' = [s EXCEPT !.link = FALSE]
    /\ inbox' = <<>>
    /\ host' = [host EXCEPT !.link = FALSE, !.sent = <<>>]
    /\ budget' = [budget EXCEPT !.links = @ - 1]

LoseLink == LinkLost(server)

\* A restarted server counts revisions from the beginning.
Restart == server.rev > 1 /\ LinkLost([server EXCEPT !.rev = 1, !.last = 1, !.pub = 0, !.plan = NoPlan])

\* The Host reauthenticates: it is told the route, and the connection of the
\* publication is described again.
Reauthenticate ==
    /\ ~server.link /\ server.plan = NoPlan
    /\ server' = [server EXCEPT !.link = TRUE]
    /\ inbox' = <<Upd("auth", server.rev, server.pub, "none")>> \o
                IF server.pub = 0 THEN <<>>
                ELSE <<Upd("config", server.rev, server.pub, "none")>>
    /\ UNCHANGED <<host, budget>>

-----------------------------------------------------------------------------

Init ==
    /\ host = [route |-> NoRoute(0), pending |-> 0, active |-> 0,
               slots |-> [i \in Slots |-> NoSlot], open |-> {}, next |-> 1,
               queue |-> <<>>, run |-> Idle, recovery |-> NoRecovery, paused |-> FALSE,
               resyncing |-> FALSE, rgen |-> 0, closed |-> FALSE, link |-> TRUE, sent |-> <<>>]
    /\ server = [rev |-> 1, last |-> 1, pub |-> 0, pubs |-> 0, plan |-> NoPlan, link |-> TRUE]
    /\ inbox = <<Upd("auth", 1, 0, "none")>>
    /\ budget = [faults |-> MaxFaults, links |-> MaxLinks, pauses |-> MaxPauses, cut |-> {}]

Page == Receive \/ Connect \/ Transition \/ EndTransition
Environment ==
    \/ PublisherFails \/ ReplaceSource \/ SetPaused \/ EndShare
    \/ PreparePublication \/ PrepareChild \/ MediaFlows \/ CommitPlan \/ AbortPlan
    \/ RetirePublication \/ Hear \/ LoseLink \/ Reauthenticate \/ Restart

Next == Page \/ Environment

Spec == Init /\ [][Next]_vars

-----------------------------------------------------------------------------

TypeOK ==
    /\ host.pending \in 0..MaxSlots /\ host.active \in 0..MaxSlots
    /\ host.open \subseteq Slots /\ host.next \in 1..(MaxSlots + 1)
    /\ server.rev \in 1..MaxRevision + 2 /\ server.pub \in 0..MaxPubs

\* Publishers a waiting operation still has to close.
Closing ==
    {i \in Slots : host.slots[i].at \in {"connect", "queue", "prepare"} /\ host.pending # i}
    \cup {host.queue[k].slot : k \in {j \in DOMAIN host.queue : host.queue[j].k = "close"}}

\* An open publisher is the active one, the pending one, or one whose waiting
\* operation closes it: nothing encodes for a route that is over, and at most
\* two publishers do for one that is not.
PublishersHeld == host.open \subseteq {host.active, host.pending} \cup Closing

PublicationSafety == TypeOK /\ PublishersHeld

Still ==
    /\ inbox = <<>> /\ host.sent = <<>> /\ host.link /\ server.link /\ server.plan = NoPlan
    /\ host.queue = <<>> /\ host.run = Idle /\ ~host.closed
    /\ \A i \in Slots : host.slots[i].at \in {"none", "done"}

\* Once nothing is on its way, the publication the server committed is sent by
\* the active publisher: a failure is never known to the page alone.  The
\* exception is a pause that closes a publisher already committed and not yet
\* taken over: the page reports nothing, and only the SFU can notice.
CommittedPublicationSent ==
    Still /\ server.pub \notin {0} \cup budget.cut =>
        /\ host.active # 0 /\ host.active \in host.open
        /\ host.slots[host.active].pub = server.pub /\ host.slots[host.active].active

\* Preparing another route leaves the publication in use alone: no message and
\* no transition makes the page let go of it while the committed route names it,
\* unless another publisher of it takes over or the revisions start over.
SendingSurvivesPreparation ==
    [][ Page /\ host.active \in host.open /\ ~host'.resyncing
        /\ host'.route.apub = host.slots[host.active].pub
        => /\ host'.active \in host'.open
           /\ host'.slots[host'.active].pub = host.slots[host.active].pub ]_vars
=============================================================================
