------------------------------- MODULE PeerLink -------------------------------
(***************************************************************************)
(* One committed direct edge: the HostPeer of a parent (a Host's page or a *)
(* relay), the ViewerPeer of its child, and the server between them, which *)
(* knows the edge by the connection it adopted last.  Offers, answers,     *)
(* requests for recovery and reports of failure cross; sockets are lost;   *)
(* transports drop and heal by themselves.  ICE candidates, tracks, codecs *)
(* and profiles are left out.                                              *)
(***************************************************************************)
EXTENDS Integers, Sequences, Functions

CONSTANTS
    Parents,      \* kinds of parent to consider: "host", "relay"
    MaxNames,     \* bound: connection names in use at the same time
    MaxTroubles   \* bound: transports that break, sockets lost, refusals of the browser's
                  \* WebRTC API, changes of the source's audio, retries by the user, and
                  \* timers that fire before what they wait for

ASSUME PeerLinkAssumption ==
    /\ Parents \subseteq {"host", "relay"}
    /\ MaxNames \in Nat \ {0} /\ MaxTroubles \in Nat

VARIABLES
    parent,  \* the parent's peer for this child, its timers, its socket's queues
    child,   \* the child's peer, its timers and recovery budget, its socket's queues
    edge,    \* the server's edge: connection adopted, usable; unheard: a report of the
             \* child was lost or ignored (only the properties read it)
    budget   \* troubles left

vars == <<parent, child, edge, budget>>

Names == 1..MaxNames
None == 0
States == {"opening", "connected", "disconnected", "failed"}

\* VIEWER_MAX_AUTOMATIC_RECOVERY_REQUESTS
MaxRequests == 2

Offered(id, epoch, audio, restart) ==
    [kind |-> "offer", id |-> id, epoch |-> epoch, audio |-> audio, restart |-> restart]
RestartRequest(id, rebuild) == [kind |-> "restart", id |-> id, rebuild |-> rebuild]
RouteFailed(id) == [kind |-> "failed", id |-> id]
Authenticated(id) == [kind |-> "authenticated", id |-> id]
NoOffer == Offered(None, 0, FALSE, FALSE)

\* A socket takes messages once the page has handled the "authenticated" that
\* the server sends first; what is sent before that, or without one, is refused.
MaySend(x) == x.online /\ "authenticated" \notin {m.kind : m \in Range(x.down)}

Sent(x, m) == IF MaySend(x) THEN [x EXCEPT !.up = Append(@, m)] ELSE x

OnTheWay == UNION {Range(q) : q \in {parent.up, parent.down, child.up, child.down}}

\* createOpaqueId: a name nothing refers to any more stands for a new one.
Unnamed == Names \ ({parent.id, child.id, edge.conn} \cup {m.id : m \in OnTheWay})
Fresh == CHOOSE n \in Names : n \in Unnamed

-----------------------------------------------------------------------------
(***************************************************************************)
(* The parent.  An operation of the negotiation queue is one step: what it *)
(* awaits is its own, and the queue holds back everything else but         *)
(* disposal, after which it has no effect.                                 *)
(***************************************************************************)

\* removePeer, disposePeer
Removed(p) ==
    [p EXCEPT !.id = None, !.dead = FALSE, !.state = "opening", !.epoch = 0, !.awaiting = 0,
              !.applied = 0, !.agreed = FALSE, !.pending = FALSE, !.timer = FALSE, !.change = FALSE]

\* Mutant: no timer runs for the answer of a renegotiation.
OfferWithoutTimer(p, restart, ok) ==
    LET e == p.epoch + 1
    IN IF ok THEN Sent([p EXCEPT !.epoch = e, !.awaiting = e], Offered(p.id, e, p.want, restart))
       ELSE [p EXCEPT !.epoch = e, !.awaiting = 0]

\* createOwnedOffer.  Only a renegotiation without restart arms the answer timer.
Offer(p, restart, ok) ==
    LET e == p.epoch + 1
        begun == [p EXCEPT !.epoch = e, !.awaiting = 0, !.timer = ~restart /\ p.applied # 0]
    IN IF ok THEN Sent([begun EXCEPT !.awaiting = e], Offered(p.id, e, p.want, restart))
       ELSE [begun EXCEPT !.timer = FALSE]

\* startPeer: a relay tries once more by timer, a Host reports.
Started(p, attempt, ok) ==
    IF p.id # None THEN p
    ELSE LET new == Offer([p EXCEPT !.id = Fresh], FALSE, ok)
         IN IF ok THEN new
            ELSE IF p.kind = "host" THEN Removed(Sent(new, RouteFailed(new.id)))
            ELSE [Removed(new) EXCEPT !.retry = @ \/ attempt = 0]

Rebuilt(p, ok) == Started(Removed(p), 0, ok)

\* HostPeer.fail: the page of a Host removes the peer and reports it; a relay
\* keeps it, disposed.
Failed(p) ==
    IF p.kind = "host" THEN Removed(Sent(p, RouteFailed(p.id)))
    ELSE [p EXCEPT !.dead = TRUE, !.state = "failed",
                   !.awaiting = 0, !.pending = FALSE, !.timer = FALSE]

Restarted(state, restart) ==
    CASE restart /\ state = "failed" -> {"opening"}
      [] restart /\ state = "disconnected" -> {"opening", "disconnected"}
      [] OTHER -> {state}

\* acceptAnswer: applied or refused by the browser, then the offer that waited.
AnswerAccepted(p, m, applied, ok, state) ==
    IF p.id # m.id \/ p.dead \/ p.awaiting = 0 THEN p
    ELSE IF ~applied THEN Failed(p)
    ELSE LET done == [p EXCEPT !.applied = m.epoch, !.agreed = m.audio, !.awaiting = 0, !.timer = FALSE,
                               !.pending = FALSE, !.state = state]
         IN IF ~p.pending THEN done
            ELSE IF ok THEN Offer(done, FALSE, TRUE) ELSE Failed(done)

\* recover, recoverPeer
Recovered(p, m, restarted, ok) ==
    IF m.rebuild THEN IF p.id \notin {None, m.id} THEN p ELSE Rebuilt(p, ok)
    ELSE IF p.id # m.id THEN p
    ELSE IF p.dead \/ p.awaiting # 0 \/ ~restarted THEN Rebuilt(p, ok)
    ELSE Offer(p, TRUE, TRUE)

\* Reauthentication: a peer that is not connected may have lost its signals.
Resynced(p, ok) ==
    IF p.id # None /\ p.state # "connected" THEN Rebuilt(p, ok) ELSE Started(p, 0, ok)

\* What the browser refuses is bounded; while p may not send every offer fails.
Outcome(p, ok) ==
    /\ ok => MaySend(p)
    /\ ~ok /\ MaySend(p) => budget > 0

Charged(p, oks) ==
    IF MaySend(p) /\ FALSE \in oks THEN budget - 1 ELSE budget

-----------------------------------------------------------------------------
(***************************************************************************)
(* The child.                                                              *)
(***************************************************************************)

ReportExhausted(c) ==
    CASE c.exhausted \/ c.id = None -> c
      [] ~MaySend(c) -> [c EXCEPT !.recovery = TRUE]
      [] OTHER -> [Sent(c, RouteFailed(c.id)) EXCEPT !.recovery = FALSE, !.exhausted = TRUE]

\* attemptAutomaticRecovery
Attempted(c) ==
    LET d == [c EXCEPT !.initial = FALSE]
    IN IF d.recovery \/ d.exhausted \/ d.state = "connected" \/ d.id = None THEN d
       ELSE IF d.requests >= MaxRequests \/ ~MaySend(d) THEN ReportExhausted(d)
       ELSE [Sent(d, RestartRequest(d.id, d.requests > 0)) EXCEPT !.requests = @ + 1, !.recovery = TRUE]

\* handleConnectionState
StateChanged(c, s) ==
    LET d == [c EXCEPT !.state = s]
    IN CASE s = "connected" -> [d EXCEPT !.drop = FALSE, !.initial = FALSE, !.recovery = FALSE,
                                         !.requests = 0, !.exhausted = FALSE]
         [] s = "failed" -> Attempted([d EXCEPT !.drop = FALSE])
         [] s = "disconnected" -> [d EXCEPT !.drop = TRUE]

\* replaceConnection by the same parent: the recovery budget is kept.
Replaced(c, id) ==
    [c EXCEPT !.id = id, !.state = "opening", !.answered = 0, !.initial = FALSE, !.drop = FALSE,
              !.recovery = FALSE]

\* failOffer
OfferFailed(c) ==
    IF ~c.exhausted /\ c.requests < MaxRequests /\ MaySend(c)
    THEN [Sent(c, RestartRequest(c.id, TRUE)) EXCEPT !.requests = MaxRequests, !.recovery = TRUE]
    ELSE ReportExhausted(c)

\* requestRecovery
Requested(c, rebuild) ==
    IF c.recovery \/ c.id = None \/ ~MaySend(c) THEN c
    ELSE [Sent(c, RestartRequest(c.id, rebuild)) EXCEPT
            !.initial = FALSE, !.exhausted = FALSE, !.recovery = TRUE,
            !.requests = IF rebuild THEN MaxRequests ELSE IF @ = 0 THEN 1 ELSE @]

-----------------------------------------------------------------------------
(***************************************************************************)
(* A link starts as a prepared candidate that was proven and committed.    *)
(***************************************************************************)
Init ==
    \E k \in Parents :
       /\ parent = [kind |-> k, id |-> 1, dead |-> FALSE, state |-> "connected", epoch |-> 1,
                    awaiting |-> 0, applied |-> 1, agreed |-> FALSE, want |-> FALSE,
                    pending |-> FALSE, timer |-> FALSE, change |-> FALSE, retry |-> FALSE,
                    online |-> TRUE, up |-> <<>>, down |-> <<>>]
       /\ child = [id |-> 1, state |-> "connected", todo |-> NoOffer, answered |-> 1,
                   initial |-> FALSE, drop |-> FALSE, recovery |-> FALSE,
                   requests |-> 0, exhausted |-> FALSE,
                   online |-> TRUE, up |-> <<>>, down |-> <<>>]
       /\ edge = [conn |-> 1, usable |-> TRUE, unheard |-> FALSE]
       /\ budget = MaxTroubles

\* Both ends stand on the same connection, each applied the other's description
\* and neither gave the transport up: the checks that keep it are answered.
Joined ==
    /\ parent.id = child.id /\ parent.id # None /\ ~parent.dead
    /\ parent.applied # 0 /\ child.answered # 0
    /\ "failed" \notin {parent.state, child.state}

\* A transport of two joined ends breaks as a trouble, any other by itself.
Breaks ==
    /\ Joined => budget > 0
    /\ budget' = IF Joined THEN budget - 1 ELSE budget

\* Something of the link is under way: a timer that fires before it arrived is
\* a trouble too, a timer with nothing left to wait for just fires.
Busy ==
    \/ OnTheWay # {} \/ child.todo # NoOffer \/ parent.change
    \/ Joined /\ ~(parent.state = "connected" /\ child.state = "connected")

Elapses ==
    /\ Busy => budget > 0
    /\ budget' = IF Busy THEN budget - 1 ELSE budget

(* Parent *)

ParentReceived(kind) == parent.down # <<>> /\ Head(parent.down).kind = kind
ParentRest == [parent EXCEPT !.down = Tail(@)]

ReceiveAnswer(applied, ok) ==
    /\ ParentReceived("answer")
    /\ applied \/ (ok /\ budget > 0)
    /\ IF parent.pending /\ applied THEN Outcome(ParentRest, ok) ELSE ok
    /\ \E s \in Restarted(parent.state, Head(parent.down).restart) :
          parent' = AnswerAccepted(ParentRest, Head(parent.down), applied, ok, s)
    /\ budget' = IF ~applied THEN budget - 1 ELSE Charged(ParentRest, {ok})
    /\ UNCHANGED <<child, edge>>

ReceiveRestartRequest(restarted, ok) ==
    /\ ParentReceived("restart")
    /\ Outcome(ParentRest, restarted) /\ Outcome(ParentRest, ok)
    /\ parent' = Recovered(ParentRest, Head(parent.down), restarted, ok)
    /\ budget' = Charged(ParentRest, {restarted, ok})
    /\ UNCHANGED <<child, edge>>

ParentAuthenticated(ok) ==
    /\ ParentReceived("authenticated")
    /\ Outcome(ParentRest, ok)
    /\ parent' = Resynced(ParentRest, ok)
    /\ budget' = Charged(ParentRest, {ok})
    /\ UNCHANGED <<child, edge>>

AnswerTimerFires ==
    /\ parent.timer
    /\ parent' = Failed(parent)
    /\ Elapses /\ UNCHANGED <<child, edge>>

RetryTimerFires(ok) ==
    /\ parent.retry
    /\ Outcome(parent, ok)
    /\ parent' = Started([parent EXCEPT !.retry = FALSE], 1, ok)
    /\ budget' = Charged(parent, {ok})
    /\ UNCHANGED <<child, edge>>

\* The source gains or loses its audio: the direction changes at once, the
\* offer waits its turn in the negotiation queue.
ReplaceStream(replaced) ==
    /\ budget > 0 /\ ~parent.change
    /\ LET p == [parent EXCEPT !.want = ~@]
       IN parent' = IF p.id = None
                    THEN IF p.kind = "relay" THEN Started(p, 0, MaySend(parent)) ELSE p
                    ELSE IF p.dead \/ ~replaced THEN Rebuilt(p, MaySend(parent))
                    ELSE [p EXCEPT !.change = TRUE]
    /\ budget' = budget - 1
    /\ UNCHANGED <<child, edge>>

\* Mutant: an offer is made while another one is unanswered.
CreateOfferAtOnce(ok) ==
    /\ parent.change
    /\ Outcome(parent, ok)
    /\ LET p == [parent EXCEPT !.change = FALSE]
       IN parent' = IF ~p.dead /\ ok THEN Offer(p, FALSE, TRUE) ELSE Rebuilt(p, MaySend(parent))
    /\ budget' = Charged(parent, {ok})
    /\ UNCHANGED <<child, edge>>

CreateOffer(ok) ==
    /\ parent.change
    /\ Outcome(parent, ok)
    /\ LET p == [parent EXCEPT !.change = FALSE]
       IN parent' = IF p.dead THEN Rebuilt(p, ok)
                    ELSE IF p.awaiting # 0 THEN [p EXCEPT !.pending = TRUE]
                    ELSE IF ok THEN Offer(p, FALSE, TRUE)
                    ELSE Rebuilt(p, MaySend(parent))
    /\ budget' = Charged(parent, {ok})
    /\ UNCHANGED <<child, edge>>

(* Child *)

ChildReceived(kind) == child.down # <<>> /\ Head(child.down).kind = kind
ChildRest == [child EXCEPT !.down = Tail(@)]

\* acceptSignal: another connection replaces the present one at once, the
\* description is applied in the queue of its connection.
ReceiveOffer ==
    /\ ChildReceived("offer")
    /\ LET m == Head(child.down)
       IN /\ child.id # m.id \/ child.todo = NoOffer
          /\ child' = [(IF child.id # m.id THEN Replaced(ChildRest, m.id) ELSE ChildRest) EXCEPT
                        !.todo = m]
    /\ UNCHANGED <<parent, edge, budget>>

\* acceptDescription
AcceptDescription(ok) ==
    /\ child.todo # NoOffer
    /\ ok => MaySend(child)
    /\ ~ok /\ MaySend(child) => budget > 0
    /\ LET m == child.todo
           c == [child EXCEPT !.todo = NoOffer]
       IN \E s \in Restarted(child.state, m.restart) :
             child' = IF ok THEN [Sent(c, [m EXCEPT !.kind = "answer"]) EXCEPT
                                    !.answered = m.epoch, !.state = s, !.recovery = FALSE,
                                    !.initial = s # "connected"]
                      ELSE OfferFailed(c)
    /\ budget' = IF ~ok /\ MaySend(child) THEN budget - 1 ELSE budget
    /\ UNCHANGED <<parent, edge>>

\* The page of a viewer that authenticated again.
ChildAuthenticated ==
    /\ ChildReceived("authenticated")
    /\ LET m == Head(child.down)
       IN child' = IF child.id # m.id THEN Sent(ChildRest, RestartRequest(m.id, TRUE))
                   ELSE IF child.state # "connected" THEN Requested(ChildRest, FALSE)
                   ELSE ChildRest
    /\ UNCHANGED <<parent, edge, budget>>

InitialTimerFires ==
    /\ child.initial
    /\ child' = IF child.state # "connected" THEN Attempted([child EXCEPT !.initial = FALSE])
                ELSE [child EXCEPT !.initial = FALSE]
    /\ Elapses /\ UNCHANGED <<parent, edge>>

DisconnectTimerFires ==
    /\ child.drop
    /\ child' = IF child.state = "disconnected" THEN Attempted([child EXCEPT !.drop = FALSE])
                ELSE [child EXCEPT !.drop = FALSE]
    /\ UNCHANGED <<parent, edge, budget>>

RecoveryTimerFires ==
    /\ child.recovery
    /\ child' = IF child.state # "connected" THEN Attempted([child EXCEPT !.recovery = FALSE])
                ELSE [child EXCEPT !.recovery = FALSE]
    /\ Elapses /\ UNCHANGED <<parent, edge>>

RetryConnection ==
    /\ budget > 0 /\ child.state # "connected"
    /\ child' = Requested(child, TRUE)
    /\ budget' = budget - 1
    /\ UNCHANGED <<parent, edge>>

(* Transport *)

ParentConnection(s) ==
    /\ parent.id # None /\ ~parent.dead /\ parent.applied # 0
    /\ parent' = IF s = "failed" /\ parent.kind = "host" THEN Failed(parent)
                 ELSE [parent EXCEPT !.state = s]
    /\ UNCHANGED <<child, edge>>

ParentSettles ==
    /\ parent.state \in {"opening", "disconnected"}
    /\ \/ Joined /\ ParentConnection("connected") /\ UNCHANGED budget
       \/ Breaks /\ ParentConnection("failed")

ParentDrops ==
    /\ parent.state = "connected"
    /\ Breaks /\ ParentConnection("disconnected")

ChildConnection(s) ==
    /\ child.answered # 0
    /\ child' = StateChanged(child, s)
    /\ UNCHANGED <<parent, edge>>

ChildSettles ==
    /\ child.state \in {"opening", "disconnected"}
    /\ \/ Joined /\ ChildConnection("connected") /\ UNCHANGED budget
       \/ Breaks /\ ChildConnection("failed")

ChildDrops ==
    /\ child.state = "connected"
    /\ Breaks /\ ChildConnection("disconnected")

(* Server *)

\* routePeerAssistedSignal and peerSignalAuthorization: an offer of a new
\* connection is adopted; to a peer that is away nothing is sent.
RouteOffer ==
    /\ parent.up # <<>> /\ Head(parent.up).kind = "offer"
    /\ parent' = [parent EXCEPT !.up = Tail(@)]
    /\ IF child.online
       THEN /\ child' = [child EXCEPT !.down = Append(@, Head(parent.up))]
            /\ edge' = [edge EXCEPT !.conn = Head(parent.up).id]
       ELSE UNCHANGED <<child, edge>>
    /\ UNCHANGED budget

\* An answer or a restart request of the connection adopted last.
RouteToParent ==
    /\ child.up # <<>> /\ Head(child.up).kind \in {"answer", "restart"}
    /\ child' = [child EXCEPT !.up = Tail(@)]
    /\ parent' = IF parent.online /\ Head(child.up).id = edge.conn
                 THEN [parent EXCEPT !.down = Append(@, Head(child.up))] ELSE parent
    /\ UNCHANGED <<edge, budget>>

\* handleRouteFailed: a report of another connection is ignored.
FailedReported(m, byChild) ==
    edge' = IF m.id = edge.conn THEN [edge EXCEPT !.usable = FALSE]
            ELSE [edge EXCEPT !.unheard = @ \/ byChild]

ChildReports ==
    /\ child.up # <<>> /\ Head(child.up).kind = "failed"
    /\ FailedReported(Head(child.up), TRUE)
    /\ child' = [child EXCEPT !.up = Tail(@)]
    /\ UNCHANGED <<parent, budget>>

ParentReports ==
    /\ parent.up # <<>> /\ Head(parent.up).kind = "failed"
    /\ FailedReported(Head(parent.up), FALSE)
    /\ parent' = [parent EXCEPT !.up = Tail(@)]
    /\ UNCHANGED <<child, budget>>

(* Sockets *)

LoseSocket ==
    /\ budget > 0
    /\ budget' = budget - 1
    /\ \/ parent.online /\ parent' = [parent EXCEPT !.online = FALSE, !.up = <<>>, !.down = <<>>]
          /\ UNCHANGED <<child, edge>>
       \/ child.online /\ child' = [child EXCEPT !.online = FALSE, !.up = <<>>, !.down = <<>>]
          /\ edge' = [edge EXCEPT !.unheard = @ \/ \E m \in Range(child.up) : m.kind = "failed"]
          /\ UNCHANGED parent

ParentReconnects ==
    /\ ~parent.online
    /\ parent' = [parent EXCEPT !.online = TRUE, !.down = <<Authenticated(None)>>]
    /\ UNCHANGED <<child, edge, budget>>

ChildReconnects ==
    /\ ~child.online
    /\ child' = [child EXCEPT !.online = TRUE, !.down = <<Authenticated(edge.conn)>>]
    /\ UNCHANGED <<parent, edge, budget>>

ParentStep ==
    \/ \E applied, ok \in BOOLEAN : ReceiveAnswer(applied, ok)
    \/ \E restarted, ok \in BOOLEAN : ReceiveRestartRequest(restarted, ok)
    \/ \E ok \in BOOLEAN : ParentAuthenticated(ok)

\* What the link does of its own accord.
Step ==
    \/ ParentStep \/ AnswerTimerFires
    \/ \E ok \in BOOLEAN : RetryTimerFires(ok) \/ CreateOffer(ok) \/ AcceptDescription(ok)
    \/ ReceiveOffer \/ ChildAuthenticated
    \/ InitialTimerFires \/ DisconnectTimerFires \/ RecoveryTimerFires
    \/ ParentSettles \/ ChildSettles
    \/ RouteOffer \/ RouteToParent \/ ChildReports \/ ParentReports
    \/ ParentReconnects \/ ChildReconnects

Environment ==
    \/ \E replaced \in BOOLEAN : ReplaceStream(replaced)
    \/ RetryConnection \/ ParentDrops \/ ChildDrops \/ LoseSocket

\* A report that was heard ends the link, since the server replaces the route;
\* MaxNames is a bound.
Running == edge.usable /\ Unnamed # {}

Next == Running /\ (Step \/ Environment)

Spec == Init /\ [][Next]_vars

FairSpec ==
    /\ Spec
    /\ WF_vars(Running /\ ParentStep) /\ WF_vars(Running /\ AnswerTimerFires)
    /\ WF_vars(Running /\ \E ok \in BOOLEAN : RetryTimerFires(ok))
    /\ WF_vars(Running /\ \E ok \in BOOLEAN : CreateOffer(ok))
    /\ WF_vars(Running /\ \E ok \in BOOLEAN : AcceptDescription(ok))
    /\ WF_vars(Running /\ ReceiveOffer) /\ WF_vars(Running /\ ChildAuthenticated)
    /\ WF_vars(Running /\ InitialTimerFires) /\ WF_vars(Running /\ DisconnectTimerFires)
    /\ WF_vars(Running /\ RecoveryTimerFires)
    /\ WF_vars(Running /\ ParentSettles) /\ WF_vars(Running /\ ChildSettles)
    /\ WF_vars(Running /\ ~Joined /\ ParentDrops)
    /\ WF_vars(Running /\ ~Joined /\ ChildDrops)
    /\ WF_vars(Running /\ RouteOffer) /\ WF_vars(Running /\ RouteToParent)
    /\ WF_vars(Running /\ ChildReports) /\ WF_vars(Running /\ ParentReports)
    /\ WF_vars(Running /\ ParentReconnects) /\ WF_vars(Running /\ ChildReconnects)

-----------------------------------------------------------------------------
TypeOK ==
    /\ parent.id \in Names \cup {None} /\ child.id \in Names /\ edge.conn \in Names
    /\ parent.state \in States /\ child.state \in States
    /\ child.requests \in 0..MaxRequests
    /\ budget \in 0..MaxTroubles

\* One offer is in flight at most, and a description of the child is applied to
\* the offer it answers.
AnswerMatches ==
    parent.id # None /\ ~parent.dead =>
        IF parent.awaiting = 0 THEN parent.applied = parent.epoch
        ELSE parent.awaiting = parent.epoch /\ parent.applied < parent.epoch

(* Descriptions carry the connection they are about and nothing else, so    *)
(* createOffer holds a second offer back while one is unanswered: the       *)
(* answer acceptAnswer applies is always the answer of the offer that is    *)
(* pending, whatever restarts, rebuilds, changes of the source and requests *)
(* of a reconnected child cross it.                                         *)
NegotiationSafety == TypeOK /\ AnswerMatches

Working ==
    /\ Joined /\ edge.conn = child.id
    /\ parent.state = "connected" /\ child.state = "connected"

\* The child has spent its report, and the report got lost with its socket or
\* named another connection than the one the server had adopted meanwhile.
Unheard == edge.unheard /\ child.exhausted /\ child.state # "connected"

\* The transport works, but the answer of an ICE restart was lost, for which no
\* timer runs, and a change of the audio waits for it.
Unanswered == Working /\ parent.pending

(* Every trouble ends: the link works again and carries the audio the       *)
(* source has, or the server has heard that it failed and replaces the      *)
(* route.  The initial, disconnect, recovery and answer timers, the         *)
(* recovery budget of attemptAutomaticRecovery and the resynchronisation    *)
(* after authentication see to it together.  The code leaves two cases      *)
(* open, which wait for the user or for the next lost socket.               *)
LinkSettles ==
    <>[](\/ ~edge.usable
         \/ Working /\ parent.want = parent.agreed
         \/ Unheard
         \/ Unanswered)

=============================================================================
