----------------------------- MODULE ViewerRoute -----------------------------
(***************************************************************************)
(* The viewer's side of a route: MediaRouteTransition and ViewerSfuRoute   *)
(* with the peer candidate and the peer connection its page keeps for      *)
(* them, against the signaling server that plans, commits and aborts       *)
(* routes.  Messages travel in order on one WebSocket; losing it drops     *)
(* what is in flight both ways, and the next connection authenticates      *)
(* again.                                                                  *)
(*                                                                         *)
(* The client is single threaded and none of the awaits in its transition  *)
(* queue waits for anything outside the page (a subscriber's connect and   *)
(* disconnect are synchronous inside), so one action is one event of the   *)
(* page with every continuation it queues.                                 *)
(***************************************************************************)
EXTENDS Naturals, Sequences, FiniteSets

CONSTANTS
    Peers,          \* peers that may send this viewer its media
    Publications,   \* publications of the SFU
    NoUp,           \* the assignment without an upstream
    MaxRevision,    \* bound: revisions the server allocates
    MaxLosses,      \* bound: lost signaling connections
    MaxPauses,      \* bound: changes of the Host's pause
    MaxMedia        \* bound: media connections that are interrupted or fail

ASSUME ViewerRouteAssumption ==
    /\ MaxRevision \in Nat \ {0} /\ MaxLosses \in Nat
    /\ MaxPauses \in Nat /\ MaxMedia \in Nat
    /\ Peers \cap Publications = {}
    /\ NoUp \notin Peers \cup Publications
    /\ "unset" \notin Publications

VARIABLES
    client,     \* the viewer's page: route state, slots, peers, what it sent
    server,     \* what the server committed, planned and was told
    inbox,      \* messages on their way to the viewer
    allowed     \* what is left of the bounds on faults

routeVars == <<client, server, inbox, allowed>>

Upstreams == Peers \cup Publications \cup {NoUp}
Revisions == 0..MaxRevision

(***************************************************************************)
(* The client's records.  A connection is named by the revision that       *)
(* prepared it, and an operation token by the revision it activated: the   *)
(* code's generations tell tokens of one revision apart only across a      *)
(* reset, and a reset drops every slot that carries one.                   *)
(***************************************************************************)
Slots == [conn : Revisions, rev : Revisions, pub : Upstreams, tok : Revisions,
          link : {"new", "on", "off"}, video : BOOLEAN, decoded : BOOLEAN,
          ready : BOOLEAN, armed : BOOLEAN, failed : BOOLEAN]

NoSlot == [conn |-> 0, rev |-> 0, pub |-> NoUp, tok |-> 0, link |-> "new",
           video |-> FALSE, decoded |-> FALSE, ready |-> FALSE,
           armed |-> FALSE, failed |-> FALSE]

NewSlot(m, paused) == [NoSlot EXCEPT !.conn = m.conn, !.rev = m.rev,
                                     !.pub = m.up, !.armed = ~paused]

NoCandidate == [rev |-> 0, tok |-> 0]

NoProbe == [rev |-> 0, parent |-> NoUp, st |-> "none",
            decoded |-> FALSE, ready |-> FALSE]

NoPeer == [parent |-> NoUp, conn |-> 0, st |-> "none"]

NoRoute == [rev |-> 0, phase |-> "none", plan |-> NoUp, own |-> FALSE,
            act |-> NoUp, tok |-> 0, media |-> "unset"]

Page == [route : [rev : Revisions, phase : {"none", "prepare", "active"},
                  plan : Upstreams, own : BOOLEAN, act : Upstreams,
                  tok : Revisions, media : Upstreams \cup {"unset"}],
         pendingPeer : [rev : Revisions, tok : Revisions],
         pending : Slots, active : Slots, open : SUBSET Revisions,
         probe : [rev : Revisions, parent : Upstreams,
                  st : {"none", "new", "on", "off"},
                  decoded : BOOLEAN, ready : BOOLEAN],
         peer : [parent : Upstreams, conn : Revisions,
                 st : {"none", "new", "on", "off", "dead"}],
         parent : Upstreams, paused : BOOLEAN,
         abandoned : Revisions,
         link : BOOLEAN, sent : Seq([t : {"ready", "failed", "lost", "refresh",
                                          "restart"},
                                     rev : Revisions, conn : Revisions])]

FreshPage == [route |-> NoRoute, pendingPeer |-> NoCandidate,
              pending |-> NoSlot, active |-> NoSlot, open |-> {},
              probe |-> NoProbe, peer |-> NoPeer, parent |-> NoUp,
              paused |-> FALSE, abandoned |-> 0, link |-> FALSE, sent |-> <<>>]

\* signal.send of the page: a closed socket refuses the message.
Say(c, t, rev, conn) ==
    IF c.link
    THEN [c EXCEPT !.sent = Append(@, [t |-> t, rev |-> rev, conn |-> conn])]
    ELSE c

Lost(c, rev, conn) == Say(c, "lost", rev, conn)

OwnsActive(c, tok) == tok # 0 /\ tok = c.route.tok

-----------------------------------------------------------------------------
(* Candidates and slots: what a handler drops it also closes. *)

DropProbe(c) == [c EXCEPT !.probe = NoProbe]

DropPeerCandidate(c) == [c EXCEPT !.pendingPeer = NoCandidate, !.probe = NoProbe]

ClearPending(c) ==
    [c EXCEPT !.pending = NoSlot, !.open = @ \ {c.pending.conn}]

RetireActive(c) ==
    [c EXCEPT !.active = NoSlot, !.open = @ \ {c.active.conn}]

\* A pause and a new candidate of this viewer discard one that is committed
\* and not yet playing; NothingStalls alone reads what was given up that way.
GiveUp(c) ==
    IF OwnsActive(c, c.pendingPeer.tok)
    THEN [c EXCEPT !.abandoned = c.pendingPeer.rev]
    ELSE IF OwnsActive(c, c.pending.tok)
    THEN [c EXCEPT !.abandoned = c.pending.conn] ELSE c

DiscardPending(c) == ClearPending(DropPeerCandidate(GiveUp(c)))

DropUncommitted(c) ==
    [c EXCEPT !.pendingPeer = IF @.tok = 0 THEN NoCandidate ELSE @,
              !.probe = IF c.pendingPeer.tok = 0 /\ c.pendingPeer # NoCandidate
                        THEN NoProbe ELSE @,
              !.pending = IF @.tok = 0 THEN NoSlot ELSE @,
              !.open = IF c.pending.tok = 0 THEN @ \ {c.pending.conn} ELSE @]

(***************************************************************************)
(* Showing media.  The first picture from the SFU replaces the peer the    *)
(* viewer watched until then; a candidate that is being prepared keeps it. *)
(***************************************************************************)
ShowSfu(c, initial) ==
    [c EXCEPT !.parent = NoUp,
              !.peer = IF initial /\ c.probe = NoProbe THEN NoPeer ELSE @]

\* A pending subscriber takes over once it is committed and its frames decode.
Promote(c) ==
    IF /\ c.pending # NoSlot
       /\ c.pending.link = "on" /\ c.pending.video /\ c.pending.decoded
       /\ OwnsActive(c, c.pending.tok)
       /\ c.route.act \in Publications
    THEN ShowSfu([c EXCEPT !.pending = NoSlot,
                           !.active = [c.pending EXCEPT !.armed = FALSE],
                           !.open = @ \ {c.active.conn},
                           !.route.media = c.route.act], TRUE)
    ELSE c

\* Mutant: a committed subscription the page holds nothing of is not asked for.
ActivateSfuSilent(c, ack) == IF c.pending = NoSlot THEN c ELSE Promote(c)

ActivateSfu(c, ack) ==
    IF c.active.failed /\ c.active.pub = c.route.act /\ c.pending = NoSlot
    THEN Lost(c, c.route.tok, c.active.conn)
    ELSE IF /\ c.active.rev = c.route.tok /\ c.active.pub = c.route.act
            /\ c.pending = NoSlot
    THEN c
    ELSE IF c.pending = NoSlot
    THEN IF ack THEN Say(c, "refresh", c.route.tok, 0) ELSE c
    ELSE IF c.pending.rev = c.route.tok /\ c.pending.pub = c.route.act
    THEN Promote(c) ELSE c

SfuRoute(c, ack) ==
    IF /\ c.route.media \in Publications
       /\ c.active.pub = c.route.act /\ ~c.active.failed
       /\ c.pending.pub # c.route.act
    THEN [ClearPending(c) EXCEPT !.active.rev = c.route.tok,
                                 !.route.media = c.route.act]
    ELSE ActivateSfu(c, ack)

\* What the page's activatePeer finds: a candidate it proved, or nothing.
Proved(c) ==
    /\ c.probe.ready /\ c.probe.rev = c.pendingPeer.rev
    /\ c.probe.parent = c.route.act /\ c.probe.st # "none"

TakeProbe(c) ==
    [c EXCEPT !.probe = NoProbe, !.parent = c.probe.parent,
              !.peer = [parent |-> c.probe.parent, conn |-> c.probe.rev,
                        st |-> c.probe.st]]

AssignParent(c, p) ==
    [c EXCEPT !.parent = p, !.peer = IF c.parent = p THEN @ ELSE NoPeer]

\* Mutant: the subscription outlives the switch to a peer.
FinishPeerRouteHolding(c) ==
    [ClearPending(c) EXCEPT !.pendingPeer = NoCandidate, !.route.media = c.route.act]

FinishPeerRoute(c) ==
    [RetireActive(ClearPending(c)) EXCEPT !.pendingPeer = NoCandidate,
                                          !.route.media = c.route.act]

PeerRoute(c) ==
    IF ~OwnsActive(c, c.pendingPeer.tok)
    THEN FinishPeerRoute(AssignParent(c, c.route.act))
    ELSE IF ~Proved(c)
    THEN Lost(DropProbe(c), c.route.tok, c.pendingPeer.rev)
    ELSE IF c.probe.st # "on" THEN c
    ELSE FinishPeerRoute(TakeProbe(c))

\* queueActiveRoute: make the committed assignment the one that plays.
ActiveRoute(c, ack) ==
    IF c.route.act \in Publications THEN SfuRoute(c, ack) ELSE PeerRoute(c)

RetireUnreferenced(c) ==
    IF c.paused /\ c.active.pub # c.route.act THEN RetireActive(c) ELSE c

-----------------------------------------------------------------------------
(***************************************************************************)
(* MediaRouteTransition.accept and ViewerSfuRoute.accept.                  *)
(***************************************************************************)

Stale(r, m) ==
    \/ m.rev < r.rev
    \/ /\ m.rev = r.rev
       /\ \/ r.phase = "none" \/ r.plan # m.up
          \/ r.phase = "prepare" /\ m.t = "prepare" /\ r.own # m.own
          \/ r.phase = "active" /\ m.t = "prepare"

Duplicate(r, m) == m.rev = r.rev /\ m.t = r.phase

Advanced(r, m) ==
    [r EXCEPT !.rev = m.rev, !.phase = m.t, !.plan = m.up,
              !.own = m.t = "prepare" /\ m.own,
              !.act = IF m.t = "active" THEN m.up ELSE @,
              !.tok = IF m.t = "active" THEN m.rev ELSE @]

\* The committed update claims the candidate it was prepared as, and one an
\* earlier update already committed for the same upstream; it drops others.
ClaimPeer(c, m, before) ==
    IF c.pendingPeer = NoCandidate THEN c
    ELSE IF /\ m.up \in Peers
            /\ \/ c.pendingPeer.rev = m.rev
               \/ c.pendingPeer.tok # 0 /\ before = m.up
    THEN [c EXCEPT !.pendingPeer.tok = m.rev]
    ELSE DropPeerCandidate(c)

ClaimSlot(c, m) ==
    IF c.pending = NoSlot THEN c
    ELSE IF /\ m.up \in Publications /\ c.pending.pub = m.up
            /\ c.pending.rev = m.rev \/ c.pending.tok # 0
    THEN [c EXCEPT !.pending.tok = m.rev, !.pending.rev = m.rev]
    ELSE ClearPending(c)

\* Without a claimed candidate, preparePeer discards what the page prepared.
Unprepared(c) == IF c.pendingPeer = NoCandidate THEN DropProbe(c) ELSE c

AcceptActive(c, m, ack, before) ==
    ActiveRoute(RetireUnreferenced(Unprepared(ClaimSlot(ClaimPeer(c, m, before), m))),
                ack)

\* Mutant: break before make.
AcceptOwnBreaking(c, m) == RetireActive(DiscardPending(c))

AcceptOwn(c, m) ==
    IF m.up \in Peers
    THEN [ClearPending(GiveUp(c)) EXCEPT !.pendingPeer = [rev |-> m.rev, tok |-> 0],
                                 !.probe = [NoProbe EXCEPT !.rev = m.rev,
                                                           !.parent = m.up,
                                                           !.st = "none"]]
    ELSE DiscardPending(c)

Accept(c, m, ack) ==
    IF Stale(c.route, m) THEN c
    ELSE IF m.t = "prepare" /\ c.paused
    THEN DiscardPending([c EXCEPT !.route = Advanced(@, m)])
    ELSE IF Duplicate(c.route, m) THEN c
    ELSE IF m.t = "active"
    THEN AcceptActive([c EXCEPT !.route = Advanced(@, m)], m, ack, c.route.act)
    ELSE IF m.own THEN AcceptOwn([c EXCEPT !.route = Advanced(@, m)], m)
    ELSE DropUncommitted([c EXCEPT !.route = Advanced(@, m)])

\* A configuration opens a subscriber only while its candidate is prepared; an
\* active one names a connection the server already has, which a new peer
\* could not answer for.
AcceptConfig(c, m) ==
    IF \/ c.route.phase = "none" \/ m.rev # c.route.rev
       \/ c.route.plan # m.up
       \/ c.route.phase = "prepare" /\ ~c.route.own
    THEN c
    ELSE IF /\ c.route.phase = "active"
            /\ c.active.pub = m.up /\ c.active.conn = m.conn
    THEN IF c.active.failed THEN Lost(c, m.rev, m.conn)
         ELSE ActiveRoute(RetireUnreferenced(c), TRUE)
    ELSE IF /\ c.pending.rev = m.rev /\ c.pending.pub = m.up
            /\ c.pending.conn = m.conn
    THEN c
    ELSE IF c.route.phase = "active" THEN Lost(c, m.rev, m.conn)
    ELSE [ClearPending(c) EXCEPT !.pending = NewSlot(m, c.paused),
                                 !.open = (@ \ {c.pending.conn}) \cup {m.conn}]

\* The proof of an open subscriber's frames is armed again when sharing resumes.
Rearm(s) == IF s # NoSlot /\ ~s.failed THEN [s EXCEPT !.armed = TRUE] ELSE s

SetPaused(c, paused) ==
    IF paused THEN DiscardPending([c EXCEPT !.paused = TRUE])
    ELSE [c EXCEPT !.paused = FALSE, !.pending = Rearm(@), !.active = Rearm(@)]

-----------------------------------------------------------------------------
(***************************************************************************)
(* Failures of media connections.                                          *)
(***************************************************************************)

\* ViewerSfuRoute.handleFailure, for a slot that closed itself.
FailSlot(c, which, s) ==
    LET d == [c EXCEPT ![which] = IF which = "pending" THEN NoSlot
                                  ELSE [@ EXCEPT !.failed = TRUE, !.armed = FALSE],
                       !.open = @ \ {s.conn}]
    IN IF which = "active" \/ OwnsActive(c, s.tok)
       THEN IF c.route.tok # 0 /\ c.route.act = s.pub
            THEN Lost(d, c.route.tok, s.conn) ELSE d
       ELSE IF c.route.rev = s.rev /\ c.route.plan = s.pub
       THEN IF c.route.phase = "active" THEN Lost(d, s.rev, s.conn)
            ELSE Say(d, "failed", s.rev, 0)
       ELSE d

\* ViewerSfuRoute.reportPeerFailure for the peer the viewer watches.
ReportPeer(c) ==
    IF c.route.act # c.peer.parent THEN c
    ELSE Lost(c, c.route.tok, c.peer.conn)

-----------------------------------------------------------------------------
(***************************************************************************)
(* Authentication on a new connection.                                     *)
(***************************************************************************)

Preserves(c, m) ==
    /\ c.route.media = m.up
    /\ m.up \in Publications => c.active.pub = m.up

\* resync: an interrupted subscriber cannot tell whether its renegotiation was
\* applied, so it fails rather than replay it.
CheckActive(c, m) ==
    IF c.active = NoSlot THEN c
    ELSE IF c.active.failed THEN Lost(c, m.rev, c.active.conn)
    ELSE IF c.active.link = "off" THEN FailSlot(c, "active", c.active)
    ELSE c

\* The committed route starts from nothing: every slot and the peer close.
Restart(c, m) ==
    ActiveRoute([c EXCEPT !.route = Advanced(NoRoute, m),
                          !.pendingPeer = NoCandidate, !.probe = NoProbe,
                          !.pending = NoSlot, !.active = NoSlot, !.open = {},
                          !.peer = NoPeer, !.parent = NoUp], FALSE)

ResyncAuthoritative(c, m) ==
    IF (c.active = NoSlot /\ c.pending = NoSlot) \/ Preserves(c, m)
    THEN IF Stale(c.route, m) THEN Restart(c, m)
         ELSE IF Preserves(c, m) /\ c.active # NoSlot
         THEN CheckActive(Accept(c, m, FALSE), m)
         ELSE Accept(c, m, FALSE)
    ELSE Restart(c, m)

\* The page asks the parent for the connection the server names when it does
\* not hold it, and otherwise retries one that is not connected.
RecoverPeer(c, m) ==
    IF m.conn # 0 /\ c.peer.conn # m.conn
    THEN IF c.parent \in Peers THEN Say(c, "restart", 0, m.conn) ELSE c
    ELSE IF c.peer.st = "dead" THEN [c EXCEPT !.peer.st = "off"]
    ELSE c

PageResynced(c, m, update) ==
    IF m.t = "rejoin" THEN Restart(c, update) ELSE ResyncAuthoritative(c, update)

PageAuthenticated(c, m) ==
    RecoverPeer(PageResynced(SetPaused(c, m.own), m, [m EXCEPT !.t = "active"]), m)

-----------------------------------------------------------------------------
(***************************************************************************)
(* Events of the page: messages and media connections.                     *)
(***************************************************************************)

\* An offer of a parent belongs to the candidate, to the watched connection,
\* or to the parent the viewer is assigned and has no connection with yet.
AcceptOffer(c, m) ==
    IF c.probe.parent = m.up /\ c.probe # NoProbe
    THEN IF c.probe.rev = m.conn /\ c.probe.st = "none"
         THEN [c EXCEPT !.probe.st = "new"] ELSE c
    ELSE IF c.parent = m.up /\ c.peer.conn # m.conn
    THEN [c EXCEPT !.peer = [parent |-> m.up, conn |-> m.conn, st |-> "new"]]
    ELSE c

\* sharing-stopped closes the route and the peer; the page keeps its socket.
Stopped(c) == [FreshPage EXCEPT !.link = c.link, !.sent = c.sent]

\* The socket takes the page's messages from its "authenticated" on.
Handle(c, m) ==
    IF m.t \in {"auth", "rejoin"} THEN PageAuthenticated([c EXCEPT !.link = TRUE], m)
    ELSE IF m.t \in {"prepare", "active"} THEN Accept(c, m, TRUE)
    ELSE IF m.t = "config" THEN AcceptConfig(c, m)
    ELSE IF m.t = "signal" THEN AcceptOffer(c, m)
    ELSE IF m.t = "status" THEN SetPaused(c, m.own)
    ELSE Stopped(c)

Receive ==
    /\ inbox # <<>>
    /\ client' = Handle(client, Head(inbox))
    /\ inbox' = Tail(inbox)
    /\ UNCHANGED <<server, allowed>>

Event(c) == client' = c /\ UNCHANGED <<server, inbox, allowed>>

\* A disturbance of a media connection counts against MaxMedia.
Disturb(c) ==
    /\ allowed.media > 0
    /\ allowed' = [allowed EXCEPT !.media = @ - 1]
    /\ client' = c
    /\ UNCHANGED <<server, inbox>>

\* route-ready of a prepared peer, sent once its frames decode.
ProvePeer(c) ==
    IF c.probe.st = "on" /\ c.probe.decoded /\ ~c.probe.ready
    THEN [Say(c, "ready", c.probe.rev, 0) EXCEPT !.probe.ready = c.link]
    ELSE c

RetryPeerActivation(c) ==
    IF OwnsActive(c, c.pendingPeer.tok) /\ c.pendingPeer.rev = c.probe.rev
    THEN ActiveRoute(c, FALSE) ELSE c

ProbeConnects ==
    /\ client.probe.st \in {"new", "off"}
    /\ Event(RetryPeerActivation(ProvePeer([client EXCEPT !.probe.st = "on"])))

ProbeDecodes ==
    /\ client.probe.st = "on" /\ ~client.probe.ready
    /\ Event(ProvePeer([client EXCEPT !.probe.decoded = TRUE]))

ProbeBreaks ==
    /\ client.probe.st = "on"
    /\ Disturb([client EXCEPT !.probe.st = "off"])

\* onRecoveryExhausted of a candidate: a committed one reports the connection
\* it was committed with, another one its preparation.
Exhausted(c) ==
    IF OwnsActive(c, c.pendingPeer.tok) /\ c.pendingPeer.rev = c.probe.rev
    THEN ActiveRoute(c, FALSE)
    ELSE Say(c, "failed", c.probe.rev, c.probe.rev)

ProbeExhausted ==
    /\ client.probe.st \in {"new", "off"}
    /\ Disturb(Exhausted([client EXCEPT !.probe.st = "none",
                                        !.probe.decoded = FALSE,
                                        !.probe.ready = FALSE]))

PeerConnects ==
    /\ client.peer.st \in {"new", "off"}
    /\ Event([client EXCEPT !.peer.st = "on"])

PeerBreaks ==
    /\ client.peer.st = "on"
    /\ Disturb([client EXCEPT !.peer.st = "off"])

\* An unsent report leaves the recovery to try again.
PeerExhausted ==
    /\ client.peer.st \in {"new", "off"}
    /\ client.link \/ client.route.act # client.peer.parent
    /\ Disturb([ReportPeer(client) EXCEPT !.peer.st = "dead"])

SendPendingReady(c) ==
    IF /\ c.pending.link = "on" /\ c.pending.decoded /\ ~c.pending.ready
       /\ c.route.phase = "prepare" /\ c.route.rev = c.pending.rev
    THEN [Say(c, "ready", c.pending.rev, 0) EXCEPT !.pending.ready = c.link]
    ELSE c

SlotConnects ==
    \/ /\ client.pending # NoSlot /\ client.pending.link # "on"
       /\ Event(Promote(SendPendingReady([client EXCEPT !.pending.link = "on"])))
    \/ /\ client.active # NoSlot /\ client.active.link # "on"
       /\ ~client.active.failed
       /\ Event([client EXCEPT !.active.link = "on"])

SlotVideo ==
    /\ client.pending # NoSlot /\ ~client.pending.video
    /\ client.pending.link = "on"
    /\ Event(Promote([client EXCEPT !.pending.video = TRUE]))

\* handlePendingDecodedFrame; what it returns stops or keeps the proof.
SlotFrames(c) ==
    IF OwnsActive(c, c.pending.tok)
    THEN Promote([c EXCEPT !.pending.decoded = TRUE, !.pending.armed = FALSE])
    ELSE IF c.route.rev # c.pending.rev \/ c.route.plan # c.pending.pub
    THEN [c EXCEPT !.pending.armed = FALSE]
    ELSE [SendPendingReady([c EXCEPT !.pending.decoded = TRUE])
            EXCEPT !.pending.armed = ~c.link /\ ~c.pending.ready]

SlotDecodes ==
    /\ client.pending.armed /\ client.pending.link = "on"
    /\ client.pending.video /\ ~client.paused
    /\ Event(SlotFrames(client))

SlotBreaks ==
    \E which \in {"pending", "active"} :
        /\ client[which].link = "on" /\ ~client[which].failed
        /\ Disturb([client EXCEPT ![which].link = "off"])

SlotFails ==
    \E which \in {"pending", "active"} :
        /\ client[which] # NoSlot /\ ~client[which].failed
        /\ Disturb(FailSlot(client, which, client[which]))

-----------------------------------------------------------------------------
(***************************************************************************)
(* The signaling server, as far as this viewer sees it: the route's        *)
(* revisions, the committed connection, at most one operation in flight    *)
(* and whether it was told that the committed connection failed.           *)
(***************************************************************************)

Msg(t, rev, up, conn, own) ==
    [t |-> t, rev |-> rev, up |-> up, conn |-> conn, own |-> own]

NoPlan == [rev |-> 0, up |-> NoUp, own |-> FALSE]

Room(n) == server.last + n <= MaxRevision

\* The server's view of the socket: the greeting of a new connection may be
\* still on its way to the page.
Connected == client.link \/ inbox # <<>>

Push(msgs) == IF Connected THEN inbox' = inbox \o msgs ELSE UNCHANGED inbox

\* broadcastActive of the next revision, aborting what was in flight.
Committed(s, up, conn) ==
    [s EXCEPT !.rev = s.last + 1, !.last = s.last + 1, !.up = up,
              !.conn = conn, !.plan = NoPlan]

Active(s) == Msg("active", s.rev, s.up, 0, FALSE)

Serve(s, msgs) == /\ server' = s
                  /\ Push(msgs)
                  /\ UNCHANGED <<client, allowed>>

\* A candidate of this viewer: its parent is asked to offer, its SFU
\* subscription is configured.
PrepareOwn ==
    \E up \in Peers \cup Publications :
        /\ server.plan = NoPlan /\ ~server.paused /\ Connected /\ Room(2)
        /\ up # server.up \/ server.told
        /\ Serve([server EXCEPT !.last = @ + 1,
                                !.plan = [rev |-> server.last + 1, up |-> up, own |-> TRUE],
                                !.offers = IF up \in Peers THEN @ \cup {server.last + 1} ELSE @],
                 <<Msg("prepare", server.last + 1, up, 0, TRUE)>> \o
                 IF up \in Publications
                 THEN <<Msg("config", server.last + 1, up, server.last + 1, FALSE)>>
                 ELSE <<>>)

\* A candidate of another viewer that this one takes part in.
PrepareOther ==
    /\ server.plan = NoPlan /\ ~server.paused /\ Room(2)
    /\ Serve([server EXCEPT !.last = @ + 1,
                            !.plan = [rev |-> server.last + 1, up |-> server.up, own |-> FALSE]],
             <<Msg("prepare", server.last + 1, server.up, 0, FALSE)>>)

CommitOther ==
    /\ server.plan # NoPlan /\ ~server.plan.own
    /\ Serve([server EXCEPT !.rev = server.plan.rev, !.plan = NoPlan],
             <<Msg("active", server.plan.rev, server.up, 0, FALSE)>>)

\* A deadline or a changed fact aborts the operation; the revision advances.
Abort ==
    /\ server.plan # NoPlan
    /\ Serve(Committed(server, server.up, server.conn),
             <<Active(Committed(server, server.up, server.conn))>>)

\* The committed upstream leaves the graph: its parent left, its publication
\* was retired.
Lose ==
    /\ server.up # NoUp /\ Room(1)
    /\ Serve([Committed(server, NoUp, 0) EXCEPT !.told = FALSE],
             <<Active(Committed(server, NoUp, 0))>>)

\* The parent's offer for the candidate or the committed connection.
ParentOffers ==
    \E conn \in server.offers :
        /\ Connected
        /\ Serve([server EXCEPT !.offers = @ \ {conn}],
                 IF server.plan.own /\ conn = server.plan.rev
                 THEN <<Msg("signal", 0, server.plan.up, conn, FALSE)>>
                 ELSE IF conn = server.conn /\ server.up \in Peers
                 THEN <<Msg("signal", 0, server.up, conn, FALSE)>>
                 ELSE <<>>)

HostPauses ==
    /\ allowed.pauses > 0 /\ Room(1)
    /\ allowed' = [allowed EXCEPT !.pauses = @ - 1]
    /\ IF ~server.paused /\ server.plan # NoPlan
       THEN /\ server' = [Committed(server, server.up, server.conn) EXCEPT !.paused = TRUE]
            /\ Push(<<Active(Committed(server, server.up, server.conn)),
                      Msg("status", 0, NoUp, 0, TRUE)>>)
       ELSE /\ server' = [server EXCEPT !.paused = ~@]
            /\ Push(<<Msg("status", 0, NoUp, 0, ~server.paused)>>)
    /\ UNCHANGED client

\* stop-sharing and the next share: the room keeps its sequence of revisions.
HostRestarts ==
    /\ allowed.pauses > 0 /\ Room(1)
    /\ allowed' = [allowed EXCEPT !.pauses = @ - 1]
    /\ server' = [Committed(server, NoUp, 0) EXCEPT !.told = FALSE, !.paused = FALSE,
                                                    !.offers = {}]
    /\ Push(<<Msg("stop", 0, NoUp, 0, FALSE), Active(Committed(server, NoUp, 0)),
              Msg("status", 0, NoUp, 0, FALSE)>>)
    /\ UNCHANGED client

\* handleRouteReady commits at once; a report counts against the candidate or
\* the connection it names, and one that names another is ignored.
Heard(m) ==
    IF m.t = "ready" /\ server.plan.own /\ server.plan.rev = m.rev
    THEN /\ server' = [server EXCEPT !.rev = m.rev, !.up = server.plan.up,
                                     !.conn = m.rev, !.plan = NoPlan, !.told = FALSE]
         /\ inbox' = Append(inbox, Msg("active", m.rev, server.plan.up, 0, FALSE))
    ELSE IF m.t = "failed" /\ server.plan.own /\ server.plan.rev = m.rev
    THEN /\ server' = Committed(server, server.up, server.conn)
         /\ inbox' = Append(inbox, Active(Committed(server, server.up, server.conn)))
    ELSE IF m.t = "lost" /\ m.rev <= server.rev /\ m.conn = server.conn
    THEN server' = [server EXCEPT !.told = TRUE] /\ UNCHANGED inbox
    ELSE IF m.t = "refresh" /\ m.rev <= server.rev /\ server.up \in Publications
    THEN /\ UNCHANGED server
         /\ inbox' = Append(inbox, Msg("config", server.rev, server.up, server.conn, FALSE))
    ELSE IF m.t = "restart" /\ server.up \in Peers /\ m.conn = server.conn
    THEN server' = [server EXCEPT !.offers = @ \cup {m.conn}] /\ UNCHANGED inbox
    ELSE UNCHANGED <<server, inbox>>

Hear ==
    /\ client.sent # <<>>
    /\ Heard(Head(client.sent))
    /\ client' = [client EXCEPT !.sent = Tail(@)]
    /\ UNCHANGED allowed

LoseLink ==
    /\ Connected /\ allowed.losses > 0
    /\ client' = [client EXCEPT !.link = FALSE, !.sent = <<>>]
    /\ inbox' = <<>>
    /\ allowed' = [allowed EXCEPT !.losses = @ - 1]
    /\ UNCHANGED server

\* The next connection: the same participant, or one the server forgot.  An
\* operation that used the old session is aborted.
Reauthenticate(t, s) ==
    /\ server' = s
    /\ inbox' = <<Msg(t, s.rev, s.up, s.conn, s.paused), Active(s)>> \o
                IF s.up \in Publications
                THEN <<Msg("config", s.rev, s.up, s.conn, FALSE)>> ELSE <<>>
    /\ UNCHANGED <<client, allowed>>

Reconnect ==
    /\ ~Connected
    /\ \/ Reauthenticate("auth",
             IF server.plan.own THEN Committed(server, server.up, server.conn)
             ELSE server)
       \/ /\ Room(1)
          /\ Reauthenticate("rejoin", [Committed(server, NoUp, 0) EXCEPT !.told = FALSE])

-----------------------------------------------------------------------------

RouteInit ==
    /\ client = [FreshPage EXCEPT !.link = TRUE]
    /\ server = [rev |-> 1, last |-> 1, up |-> NoUp, conn |-> 0, plan |-> NoPlan,
                 told |-> FALSE, paused |-> FALSE, offers |-> {}]
    /\ inbox = <<Msg("active", 1, NoUp, 0, FALSE)>>
    /\ allowed = [losses |-> MaxLosses, pauses |-> MaxPauses, media |-> MaxMedia]

RouteNext ==
    \/ Receive
    \/ ProbeConnects \/ ProbeDecodes \/ ProbeBreaks \/ ProbeExhausted
    \/ PeerConnects \/ PeerBreaks \/ PeerExhausted
    \/ SlotConnects \/ SlotVideo \/ SlotDecodes \/ SlotBreaks \/ SlotFails
    \/ PrepareOwn \/ PrepareOther \/ CommitOther \/ Abort \/ Lose \/ ParentOffers
    \/ HostPauses \/ HostRestarts \/ Hear \/ LoseLink \/ Reconnect

RouteSpec == RouteInit /\ [][RouteNext]_routeVars

-----------------------------------------------------------------------------
(***************************************************************************)
(* Properties.                                                             *)
(***************************************************************************)

\* Every record of the page stays in its type, and revisions in their bound.
RouteTypeOK ==
    /\ client \in Page
    /\ server.rev \in Revisions /\ server.last \in Revisions
    /\ server.up \in Upstreams /\ server.conn \in Revisions

\* No subscriber outlives its slot: what the page keeps open is what its route
\* still holds and has not failed.
OpenIsHeld ==
    client.open = {client[which].conn : which \in
        {w \in {"pending", "active"} : client[w] # NoSlot /\ ~client[w].failed}}

\* The committed media of this page, or what still waits to become it.
Playing ==
    IF server.up \in Publications
    THEN \/ client.active.conn = server.conn /\ ~client.active.failed
         \/ /\ client.pending.conn = server.conn
            /\ OwnsActive(client, client.pending.tok)
            /\ client.pending.armed \/ client.pending.link # "on"
    ELSE IF server.up \in Peers
    THEN \/ client.peer.conn = server.conn /\ client.peer.st # "dead"
         \/ /\ client.probe.rev = server.conn /\ client.probe.ready
            /\ client.pendingPeer = [rev |-> server.conn, tok |-> server.rev]
            /\ client.probe.st # "on"
    ELSE TRUE

Quiet ==
    /\ client.link /\ inbox = <<>> /\ client.sent = <<>>
    /\ server.plan = NoPlan /\ server.offers = {} /\ ~server.paused

\* A committed peer candidate failed and its report was lost with the socket:
\* the page has dropped the connection and says nothing on authentication, so
\* it is the parent's own recovery that reports it (README, "Viewer route").
LeftToParent ==
    /\ client.probe.st = "none" /\ client.route.media # server.up
    /\ client.pendingPeer = [rev |-> server.conn, tok |-> server.rev]

\* A subscriber that failed before its commit arrived, where the page still
\* holds an older one of the same publication: it keeps or reports the older.
LeftToSfu ==
    /\ client.pending = NoSlot
    /\ client.active.pub = server.up /\ client.active.conn # server.conn

\* What a discarded candidate leaves is the far end's to report.
Abandoned == client.abandoned = server.conn

\* Once everything is delivered, the page plays what the server committed, or
\* waits for a connection it kept, or the server knows that it failed: no
\* order of preparation, commit, failure, pause and reconnection leaves a
\* viewer with a route that nobody recovers.
NothingStalls ==
    Quiet => Playing \/ server.told \/ LeftToParent \/ LeftToSfu \/ Abandoned

\* viewer-sfu-route.ts, 707: a candidate's readiness may reach the server
\* before its local failure; once committed, the failure is reported against
\* the exact active connection.
CommittedFailureIsReported ==
    Quiet /\ server.up \in Publications => Playing \/ server.told \/ Abandoned

\* Make before break: while the committed subscription works, no preparation,
\* abort, pause or failure of a candidate takes it down; it ends when its link
\* is lost or fails, when other media is shown, when another upstream is
\* committed, or when the session starts again.
MediaSurvivesCandidates ==
    [][ \/ client.active = NoSlot \/ client.active.failed
        \/ client.active.conn \in client'.open
        \/ client'.active.failed \/ client.active.link = "off"
        \/ client'.route.media # client.route.media
        \/ client'.active.conn > client.active.conn
        \/ client'.route.act # client.active.pub ]_routeVars

\* Two upstreams are never held at once: a page that keeps a subscription has no
\* peer connection beside it, whatever candidate it prepares or drops meanwhile.
OneUpstream == client.active # NoSlot => client.peer = NoPeer

\* A page holds what its route holds, and one upstream (retireActive,
\* promotePendingSfu, failSubscriberSlot).
RouteSafety == RouteTypeOK /\ OpenIsHeld /\ OneUpstream
=============================================================================
