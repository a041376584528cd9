----------------------------- MODULE RemoteInput -----------------------------
(***************************************************************************)
(* Who may press the keys of the Host's desktop, and who lifts them again: *)
(* the one Manager of internal/app/remoteinput over the sharing Sessions   *)
(* of an App, with the endpoints of their viewers (connection).  Keys and  *)
(* buttons are Inputs.                                                     *)
(*                                                                         *)
(* Every action is one hold of the manager's mutex.  Outside it run the    *)
(* question of the operating system's permission (PolicyChange.Apply), the *)
(* opening of a gamepad, the relay that reads packets and reports lost     *)
(* branches (internal/media/inputroute), and the ticker.  The platform's   *)
(* sink is external: each call into it may fail, and one that fails has    *)
(* pressed nothing.  Replies and their wording are left out.               *)
(***************************************************************************)
EXTENDS Naturals

CONSTANTS Sessions, Endpoints, Inputs, NoSession,
          MaxFaults,  \* bound: handlers in which the sink fails
          MaxChanges  \* bound: commands of the Hosts and of their room

ASSUME RemoteInputAssumption ==
    NoSession \notin Sessions /\ {MaxFaults, MaxChanges} \subseteq Nat

VARIABLES
    desk,    \* the desktop: its owner, grants, what each endpoint holds, the sink
    peer,    \* of each endpoint: its session, its branch, what it announced and asked
    share,   \* of each session: its source, its policy, the change under way
    opening, \* the goroutine that opens a gamepad
    closed,  \* the manager is closed
    allowed, \* history: modes a Host asked for and has not withdrawn
    changes  \* used bound

vars == <<desk, peer, share, opening, closed, allowed, changes>>

NoChange == [mode |-> "none", coPlay |-> FALSE]
\* "room" stands for the modes that admit without the Host: room and password.
Modes == {"off", "ask", "room"}
Unbound == [home |-> NoSession, link |-> "down", extended |-> FALSE, requested |-> FALSE]
NewShare == [open |-> TRUE, picture |-> FALSE, paused |-> FALSE, mode |-> "off",
             coPlay |-> FALSE, simultaneous |-> FALSE, change |-> NoChange]

\* The endpoints that the room's list binds to a session.
Of(s) == {c \in Endpoints : peer[c].home = s}
Granted(d, s) == {c \in Of(s) : d.grant[c]}
Held(d) == UNION {d.held[c] : c \in Endpoints}
Available(s) == share[s].open /\ share[s].picture /\ ~share[s].paused

-----------------------------------------------------------------------------
(***************************************************************************)
(* Held inputs.  An operator yields every desktop the call may leave.      *)
(***************************************************************************)

\* releaseKey and releaseButton on each of K; those that fail are owed.
Released(d, K) ==
    {[d EXCEPT !.down = @ \ (K \ F), !.debt = (@ \ K) \cup F,
               !.faults = IF F = {} THEN @ ELSE @ + 1] :
       F \in {F \in SUBSET K : F = {} \/ d.faults < MaxFaults}}

RetryReleases(d) == Released(d, d.debt)

\* resetHeld: Reset lifts everything the sink has down, or, if it fails, some of it.
ResetDone(d, s) ==
    [d EXCEPT !.held = [c \in Endpoints |-> IF c \in Of(s) THEN {} ELSE @[c]],
              !.down = {}, !.debt = {}]
ResetFailed(d, s) ==
    {[d EXCEPT !.held = [c \in Endpoints |-> IF c \in Of(s) THEN {} ELSE @[c]],
               !.down = D, !.debt = @ \cup UNION {d.held[c] : c \in Of(s)},
               !.faults = @ + 1] :
       D \in {D \in SUBSET d.down : d.faults < MaxFaults}}
ResetHeld(d, s) == {ResetDone(d, s)} \cup ResetFailed(d, s)

\* clearHeld on each of X: what nobody else holds is released.
ClearHeld(d, X) ==
    LET x == [d EXCEPT !.held = [c \in Endpoints |-> IF c \in X THEN {} ELSE @[c]]]
    IN  Released(x, Held(d) \ Held(x))

\* applyHeld.  What is owed is retried first; while any of it stays owed, only a
\* release goes on.
Pressed(d, c, i) ==
    UNION {IF x.debt # {} THEN {x}
           ELSE LET y == [x EXCEPT !.held[c] = @ \cup {i}, !.down = @ \cup {i}]
                IN  IF i \in Held(x) \/ x.faults = MaxFaults THEN {y}
                    ELSE {y, [x EXCEPT !.faults = @ + 1]} : x \in RetryReleases(d)}
Lifted(d, c, i) ==
    UNION {LET y == [x EXCEPT !.held[c] = @ \ {i}]
           IN  Released(y, Held(x) \ Held(y)) : x \in RetryReleases(d)}

-----------------------------------------------------------------------------
(***************************************************************************)
(* Grants                                                                  *)
(***************************************************************************)

Ungranted(d, X) ==
    [d EXCEPT !.grant = [c \in Endpoints |-> IF c \in X THEN FALSE ELSE @[c]],
              !.suspended = [c \in Endpoints |-> IF c \in X THEN FALSE ELSE @[c]],
              !.pad = [c \in Endpoints |-> IF c \in X THEN "none" ELSE @[c]]]

\* release: every grant of the session that owns the desktop.
Release(d) ==
    IF d.owner = NoSession THEN {d}
    ELSE {[Ungranted(x, Of(d.owner)) EXCEPT !.owner = NoSession] : x \in ResetHeld(d, d.owner)}
ReleaseOf(d, s) == IF d.owner = s THEN Release(d) ELSE {d}

\* Mutant: the last player to leave keeps the desktop for its session.
ReleaseConnectionsOnly(d, s, X) ==
    IF Granted(d, s) \cap X = {} THEN {d}
    ELSE IF ~share[s].coPlay THEN Release(d)
    ELSE {Ungranted(x, X) : x \in ClearHeld(d, X)}

\* releaseConnection of each of X, endpoints of session s.
ReleaseConnections(d, s, X) ==
    IF Granted(d, s) \cap X = {} THEN {d}
    ELSE IF ~share[s].coPlay THEN Release(d)
    ELSE {[Ungranted(x, X) EXCEPT !.owner = IF Granted(d, s) \subseteq X THEN NoSession ELSE @] :
            x \in ClearHeld(d, X)}

\* refreshActive: the source has the focus ...
Focused(d) ==
    [d EXCEPT !.suspended = [c \in Endpoints |->
        IF d.owner # NoSession /\ c \in Granted(d, d.owner) THEN FALSE ELSE @[c]]]
\* ... has lost it, and a gamepad may not take its reset (failGamepad) ...
Suspended(d, broken) ==
    LET X == Granted(d, d.owner) IN
    [d EXCEPT !.suspended = [c \in Endpoints |-> @[c] \/ c \in X],
              !.pad = [c \in Endpoints |-> IF c \in broken THEN "none" ELSE @[c]],
              !.padFailed = [c \in Endpoints |-> @[c] \/ c \in broken]]
OpenPads(d) == {c \in Of(d.owner) : d.pad[c] = "open"}
Away(d) ==
    IF d.owner = NoSession \/ \A c \in Granted(d, d.owner) : d.suspended[c] THEN {d}
    ELSE UNION {{Suspended(x, broken) : broken \in SUBSET OpenPads(x)} : x \in ResetHeld(d, d.owner)}
\* ... or is gone.
Unfocused(d) == Away(d) \cup Release(d)
Refreshed(d) == {Focused(d)} \cup Unfocused(d)

\* canJoin
CanJoin(c) ==
    \/ desk.owner = NoSession
    \/ /\ desk.owner = peer[c].home
       /\ share[peer[c].home].coPlay /\ share[peer[c].home].simultaneous
       /\ peer[c].extended
       /\ \A e \in Endpoints : desk.grant[e] => peer[e].extended

\* grant, of an endpoint without one.
Given(d, c) ==
    LET s == peer[c].home IN
    UNION {Refreshed([x EXCEPT !.grant[c] = TRUE, !.padFailed[c] = FALSE, !.owner = s]) :
             x \in IF share[s].coPlay THEN {d} ELSE Release(d)}

-----------------------------------------------------------------------------
(***************************************************************************)
(* The viewers' packets                                                    *)
(***************************************************************************)

Change == changes < MaxChanges /\ changes' = changes + 1
hostVars == <<share, allowed, opening, closed>>
Unrequested(X) == [c \in Endpoints |-> IF c \in X THEN [peer[c] EXCEPT !.requested = FALSE]
                                       ELSE peer[c]]

\* The relay hands a packet on; it was read from a branch that is still there.
Heard(c) == ~closed /\ peer[c].home # NoSession /\ peer[c].link = "up"

\* The first packet of an epoch, or of an epoch that changed or lost its branch.
NewEpoch(c) ==
    /\ ~closed /\ peer[c].home # NoSession
    /\ \E same \in BOOLEAN :
         peer' = [peer EXCEPT ![c] = [@ EXCEPT !.link = "up", !.requested = FALSE,
                                               !.extended = same /\ @]]
    /\ desk' \in IF peer[c].link = "down" THEN {desk}
                 ELSE ReleaseConnections(desk, peer[c].home, {c})
    /\ UNCHANGED <<hostVars, changes>>

\* The input channel of a branch closes: its epochs are closed one by one ...
BranchLost(X) ==
    /\ Change /\ X # {}
    /\ \A c \in X : peer[c].link = "up"
    /\ peer' = [c \in Endpoints |-> IF c \in X THEN [peer[c] EXCEPT !.link = "lost"] ELSE peer[c]]
    /\ UNCHANGED <<desk, hostVars>>

\* ... by a packet that ends the epoch it names and no other.
EpochClosed(c) ==
    /\ peer[c].link = "lost" /\ ~closed
    /\ peer' = [peer EXCEPT ![c].link = "down", ![c].requested = FALSE]
    /\ desk' \in ReleaseConnections(desk, peer[c].home, {c})
    /\ UNCHANGED <<hostVars, changes>>

\* A transport drops and keeps its channel (Attach, ResetDown).
TransportLost(s, X) ==
    /\ ~closed /\ Change /\ X # {} /\ X \subseteq Of(s)
    /\ \A c \in X : peer[c].link # "down"
    /\ peer' = Unrequested(X)
    /\ desk' \in ReleaseConnections(desk, s, X)
    /\ UNCHANGED hostVars

Capabilities(c) ==
    /\ Heard(c)
    /\ peer' = [peer EXCEPT ![c].extended = TRUE]
    /\ UNCHANGED <<desk, hostVars, changes>>

\* A request waits for the Host, or is refused, or is granted at once.
Request(c) ==
    LET s == peer[c].home IN
    /\ Heard(c) /\ Available(s) /\ share[s].mode # "off"
    /\ ~peer[c].requested /\ ~desk.grant[c]
    /\ \/ share[s].mode = "ask" /\ peer' = [peer EXCEPT ![c].requested = TRUE] /\ desk' = desk
       \/ share[s].mode = "room" /\ CanJoin(c) /\ desk' \in Given(desk, c) /\ peer' = peer
    /\ UNCHANGED <<hostVars, changes>>

\* The viewer gives control back, or its request.
ReleaseControl(c) ==
    /\ Heard(c) /\ (peer[c].requested \/ desk.grant[c])
    /\ peer' = Unrequested({c})
    /\ desk' \in ReleaseConnections(desk, peer[c].home, {c})
    /\ UNCHANGED <<hostVars, changes>>

\* Events of a granted endpoint.
Controls(c) == Heard(c) /\ desk.grant[c] /\ Available(peer[c].home)
deskOnly == UNCHANGED <<peer, hostVars, changes>>

Unwatched(c) == Controls(c) /\ desk' \in Unfocused(desk) /\ deskOnly
Move(c) == Controls(c) /\ desk' \in RetryReleases(Focused(desk)) /\ deskOnly
Press(c, i) == Controls(c) /\ desk' \in Pressed(Focused(desk), c, i) /\ deskOnly
Lift(c, i) == Controls(c) /\ desk' \in Lifted(Focused(desk), c, i) /\ deskOnly

\* applyText: after a reset, text and, for a new line, the key i.
Text(c, i) ==
    LET s == peer[c].home IN
    /\ Controls(c) /\ (share[s].coPlay => Granted(desk, s) = {c})
    /\ desk' \in LET d == Focused(desk) IN
                 ResetHeld(d, s)
                   \cup UNION {Lifted(x, c, i) : x \in Pressed(ResetDone(d, s), c, i)}
    /\ deskOnly

\* failGamepad
PadFailed(d, c) == [d EXCEPT !.pad[c] = "none", !.padFailed[c] = TRUE]
Plays(c) == /\ peer[c].extended /\ share[peer[c].home].coPlay /\ ~desk.padFailed[c]

\* The viewer's own reset, of its gamepad and of what it holds.
ResetInput(c) ==
    /\ Controls(c)
    /\ \E d \in IF Plays(c) /\ desk.pad[c] = "open" THEN {desk, PadFailed(desk, c)} ELSE {desk} :
         desk' \in ClearHeld(d, {c})
    /\ deskOnly

\* receiveGamepad: a report, of which the first opens the device (assignGamepad).
Gamepad(c) ==
    /\ Controls(c) /\ Plays(c)
    /\ LET d == Focused(desk) IN
       CASE d.pad[c] = "open" -> desk' \in {d, PadFailed(d, c)} /\ opening' = opening
         [] d.pad[c] # "open" /\ opening # "none" -> desk' = d /\ opening' = opening
         [] OTHER -> \/ desk' = [d EXCEPT !.pad[c] = "opening"] /\ opening' = "running"
                     \/ desk' = PadFailed(d, c) /\ opening' = opening
    /\ UNCHANGED <<peer, share, closed, allowed, changes>>
GamepadStop(c) ==
    /\ Controls(c) /\ Plays(c)
    /\ desk' = [desk EXCEPT !.pad[c] = "none"] /\ deskOnly

\* The goroutine returns with a device.  pad "opening" is what its checks amount to:
\* the grant that asked for it still stands and has not stopped it.
GamepadOpened ==
    /\ opening = "running" /\ opening' = "done"
    /\ \E fails \in BOOLEAN :
         LET valid == {c \in Endpoints : desk.pad[c] = "opening" /\ ~closed
                                           /\ Available(peer[c].home) /\ share[peer[c].home].coPlay}
         IN  desk' = [desk EXCEPT
               !.pad = [c \in Endpoints |-> IF @[c] # "opening" THEN @[c]
                                            ELSE IF c \in valid /\ ~fails THEN "open" ELSE "none"],
               !.padFailed = [c \in Endpoints |-> @[c] \/ (c \in valid /\ fails)]]
    /\ UNCHANGED <<peer, share, closed, allowed, changes>>
OpeningOver ==
    /\ opening = "done" /\ opening' = "none"
    /\ UNCHANGED <<desk, peer, share, closed, allowed, changes>>

-----------------------------------------------------------------------------
(***************************************************************************)
(* The Host's commands                                                     *)
(***************************************************************************)

otherVars == <<opening, closed>>

\* applyPolicy: grants and requests of the former policy end.  Modes are those that the
\* Host has not withdrawn with it.
ApplyPolicy(s, new, modes) ==
    /\ share' = [share EXCEPT ![s] = new]
    /\ allowed' = [allowed EXCEPT ![s] = modes]
    /\ peer' = Unrequested(Of(s))
    /\ desk' \in ReleaseOf(desk, s)
    /\ UNCHANGED otherVars

\* setTarget: another source, which only the change that captured it survives.
SetTarget(s, has, own) ==
    /\ ~closed /\ share[s].open /\ Change
    /\ own => share[s].change # NoChange
    /\ ApplyPolicy(s, [share[s] EXCEPT !.picture = has, !.mode = "off", !.coPlay = FALSE,
                                       !.simultaneous = FALSE,
                                       !.change = IF own THEN @ ELSE NoChange],
                   IF own THEN allowed[s] \cap {share[s].change.mode} ELSE {})

BeginPolicy(s, mode, coPlay) ==
    /\ ~closed /\ share[s].open /\ Change
    /\ mode # "off" => Available(s)
    /\ share' = [share EXCEPT ![s].change = [mode |-> mode, coPlay |-> coPlay /\ mode # "off"]]
    /\ allowed' = [allowed EXCEPT ![s] = (@ \cap {share[s].mode}) \cup ({mode} \ {"off"})]
    /\ UNCHANGED <<desk, peer, otherVars>>

\* Apply, after the operating system's answer, which came without the mutex.
CommitPolicy(s) ==
    LET new == share[s].change IN
    /\ ~closed /\ share[s].open /\ new # NoChange
    /\ new.mode # "off" => Available(s)
    /\ ApplyPolicy(s, [share[s] EXCEPT !.mode = new.mode, !.coPlay = new.coPlay,
                                       !.change = NoChange], allowed[s] \cap {new.mode})
    /\ UNCHANGED changes

\* PolicyChange.Close, after an answer or a preparation that failed.
CancelPolicy(s) ==
    /\ share[s].change # NoChange
    /\ share' = [share EXCEPT ![s].change = NoChange]
    /\ allowed' = [allowed EXCEPT ![s] = @ \cap {share[s].mode}]
    /\ UNCHANGED <<desk, peer, otherVars, changes>>

SetSimultaneous(s) ==
    /\ ~closed /\ share[s].coPlay /\ share[s].mode # "off" /\ Available(s) /\ Change
    /\ ApplyPolicy(s, [share[s] EXCEPT !.simultaneous = ~@, !.change = NoChange],
                   allowed[s] \cap {share[s].mode})

\* Pause; while paused the policy stays and nobody controls.
Pause(s) ==
    /\ share[s].open /\ Change
    /\ ApplyPolicy(s, [share[s] EXCEPT !.paused = TRUE, !.change = NoChange],
                   allowed[s] \cap {share[s].mode})
Resume(s) ==
    /\ share[s].paused /\ share[s].open
    /\ share' = [share EXCEPT ![s].paused = FALSE]
    /\ UNCHANGED <<desk, peer, allowed, otherVars, changes>>

\* Decide on an endpoint that asked or controls.
Decidable(c) ==
    /\ ~closed /\ peer[c].home # NoSession /\ Available(peer[c].home)
    /\ peer[c].link # "down" /\ (peer[c].requested \/ desk.grant[c])
Allow(c) ==
    LET s == peer[c].home
        handOver == share[s].coPlay /\ ~share[s].simultaneous /\ desk.owner = s
    IN  /\ Decidable(c) /\ ~desk.grant[c] /\ (share[s].coPlay /\ ~handOver => CanJoin(c))
        /\ peer' = Unrequested({c})
        /\ \E d \in IF handOver THEN Release(desk) ELSE {desk} : desk' \in Given(d, c)
        /\ UNCHANGED <<hostVars, changes>>
Deny(c) ==
    LET s == peer[c].home IN
    /\ Decidable(c)
    /\ IF share[s].mode # "ask" /\ ~share[s].coPlay
       THEN ApplyPolicy(s, [share[s] EXCEPT !.mode = "ask", !.change = NoChange], {"ask"})
       ELSE /\ peer' = Unrequested({c})
            /\ desk' \in ReleaseConnections(desk, s, {c})
            /\ UNCHANGED hostVars
    /\ UNCHANGED changes

\* SetPeers: the room's list keeps some endpoints; the others leave or have a new key.
SetPeers(s, keep, fresh) ==
    LET gone == Of(s) \ keep IN
    /\ ~closed /\ share[s].open /\ Change
    /\ keep \subseteq Of(s) /\ fresh \cap keep = {} /\ gone \cup fresh # {}
    /\ \A c \in fresh : peer[c].home \in {s, NoSession}
    /\ peer' = [c \in Endpoints |-> IF c \in fresh THEN [Unbound EXCEPT !.home = s]
                                    ELSE IF c \in gone THEN Unbound ELSE peer[c]]
    /\ \E d \in ReleaseConnections(desk, s, gone) :
         desk' = [d EXCEPT !.padFailed = [c \in Endpoints |-> @[c] /\ c \notin gone]]
    /\ UNCHANGED hostVars

\* The stop shortcut: every session that allows control asks its Host again.
Revoke ==
    /\ ~closed /\ Change
    /\ share' = [s \in Sessions |-> [share[s] EXCEPT !.change = NoChange,
                                                     !.mode = IF @ = "off" THEN @ ELSE "ask"]]
    /\ allowed' = [s \in Sessions |-> IF share[s].mode = "off" THEN {} ELSE {"ask"}]
    /\ peer' = Unrequested({c \in Endpoints : peer[c].home # NoSession
                                                /\ share[peer[c].home].mode # "off"})
    /\ desk' \in IF desk.owner # NoSession /\ share[desk.owner].mode # "off"
                 THEN Release(desk) ELSE {desk}
    /\ UNCHANGED otherVars

CloseSession(s) ==
    /\ share[s].open /\ Change
    /\ share' = [share EXCEPT ![s] = [NewShare EXCEPT !.open = FALSE]]
    /\ allowed' = [allowed EXCEPT ![s] = {}]
    /\ peer' = [c \in Endpoints |-> IF c \in Of(s) THEN Unbound ELSE peer[c]]
    /\ \E d \in ReleaseOf(desk, s) :
         desk' = [d EXCEPT !.padFailed = [c \in Endpoints |-> @[c] /\ c \notin Of(s)]]
    /\ UNCHANGED otherVars

\* Close of the manager; the ticker ends with it.
Close ==
    /\ ~closed /\ closed' = TRUE /\ Change
    /\ desk' \in UNION {RetryReleases(d) : d \in Release(desk)}
    /\ UNCHANGED <<peer, share, allowed, opening>>

\* Mutant: the ticker looks at the focus only.
TickKeepsDebts == ~closed /\ desk' \in Refreshed(desk) /\ deskOnly

\* Every 100 ms.
Tick ==
    /\ ~closed
    /\ desk' \in UNION {Refreshed(d) : d \in RetryReleases(desk)}
    /\ deskOnly

-----------------------------------------------------------------------------
Init ==
    /\ desk = [owner |-> NoSession, grant |-> [c \in Endpoints |-> FALSE],
               suspended |-> [c \in Endpoints |-> FALSE], held |-> [c \in Endpoints |-> {}],
               pad |-> [c \in Endpoints |-> "none"], padFailed |-> [c \in Endpoints |-> FALSE],
               down |-> {}, debt |-> {}, faults |-> 0]
    /\ peer = [c \in Endpoints |-> Unbound]
    /\ share = [s \in Sessions |-> NewShare]
    /\ opening = "none" /\ closed = FALSE
    /\ allowed = [s \in Sessions |-> {}] /\ changes = 0

Packet(c) ==
    \/ NewEpoch(c) \/ EpochClosed(c) \/ Capabilities(c) \/ Request(c) \/ ReleaseControl(c)
    \/ Unwatched(c) \/ Move(c) \/ ResetInput(c) \/ Gamepad(c) \/ GamepadStop(c)
    \/ \E i \in Inputs : Press(c, i) \/ Lift(c, i) \/ Text(c, i)

Command(s) ==
    \/ CommitPolicy(s) \/ CancelPolicy(s) \/ SetSimultaneous(s)
    \/ Pause(s) \/ Resume(s) \/ CloseSession(s)
    \/ \E has, own \in BOOLEAN : SetTarget(s, has, own)
    \/ \E mode \in Modes, coPlay \in BOOLEAN : BeginPolicy(s, mode, coPlay)
    \/ \E keep, fresh \in SUBSET Endpoints : SetPeers(s, keep, fresh)
    \/ \E X \in SUBSET Endpoints : TransportLost(s, X)

Next ==
    \/ \E c \in Endpoints : Packet(c) \/ Allow(c) \/ Deny(c)
    \/ \E X \in SUBSET Endpoints : BranchLost(X)
    \/ \E s \in Sessions : Command(s)
    \/ GamepadOpened \/ OpeningOver \/ Revoke \/ Close \/ Tick

\* Goroutines go on: the ticker, the relay's report of a lost branch.
Fairness == WF_vars(Tick) /\ \A c \in Endpoints : WF_vars(EpochClosed(c))
Spec == Init /\ [][Next]_vars /\ Fairness

-----------------------------------------------------------------------------
(***************************************************************************)
(* Properties                                                              *)
(***************************************************************************)

Desk == [owner : Sessions \cup {NoSession}, grant : [Endpoints -> BOOLEAN],
         suspended : [Endpoints -> BOOLEAN], held : [Endpoints -> SUBSET Inputs],
         pad : [Endpoints -> {"none", "opening", "open"}], padFailed : [Endpoints -> BOOLEAN],
         down : SUBSET Inputs, debt : SUBSET Inputs, faults : Nat]
Peer == [home : Sessions \cup {NoSession}, link : {"down", "up", "lost"},
         extended : BOOLEAN, requested : BOOLEAN]
Share == [open : BOOLEAN, picture : BOOLEAN, paused : BOOLEAN, mode : Modes, coPlay : BOOLEAN,
          simultaneous : BOOLEAN, change : [mode : Modes \cup {"none"}, coPlay : BOOLEAN]]

TypeOK ==
    /\ desk \in Desk /\ peer \in [Endpoints -> Peer] /\ share \in [Sessions -> Share]
    /\ opening \in {"none", "running", "done"} /\ closed \in BOOLEAN
    /\ allowed \in [Sessions -> SUBSET {"ask", "room"}] /\ changes \in Nat

\* What is down is held by somebody, or its release is owed and will be retried; what
\* somebody holds is down and is not owed to be lifted (held.go).
Accounted(d) ==
    /\ d.down \subseteq d.debt \cup Held(d)
    /\ Held(d) \subseteq d.down \ d.debt

\* Who holds an input has a grant and the source has the focus; who has a grant has it
\* from the session that owns the desktop, which shows a source and allows control, over a
\* branch whose loss is noticed (manager.go).
Authorized(d) ==
    \A c \in Endpoints :
      /\ d.held[c] # {} => d.grant[c] /\ ~d.suspended[c]
      /\ d.grant[c] =>
           /\ d.owner = peer[c].home /\ peer[c].home # NoSession
           /\ Available(peer[c].home) /\ share[peer[c].home].mode # "off"
           /\ peer[c].link # "down"

\* A session owns the desktop only while one of its endpoints controls it: otherwise
\* nobody could be admitted any more (canJoin).
OwnerControls(d) == d.owner # NoSession => Granted(d, d.owner) # {}

\* Two control together only where the Host allows it and both announced that they can;
\* a gamepad belongs to such an endpoint (canJoin, gamepad.go).
Together(d) ==
    /\ \A c, e \in Endpoints : c # e /\ d.grant[c] /\ d.grant[e] =>
         /\ share[d.owner].coPlay /\ share[d.owner].simultaneous
         /\ peer[c].extended /\ peer[e].extended
    /\ \A c \in Endpoints : d.pad[c] # "none" =>
         /\ d.grant[c] /\ peer[c].extended /\ share[d.owner].coPlay

\* A mode that lets viewers in is one that the Host asked for and has not withdrawn since,
\* by another choice, another source, a pause or the stop shortcut, however late the
\* operating system's permission was given (policy.go).
Consented ==
    \A s \in Sessions :
      /\ share[s].mode # "off" => share[s].mode \in allowed[s]
      /\ share[s].change # NoChange => share[s].change.mode \in allowed[s] \cup {"off"}

\* A request waits only where the Host can still answer it: policies, sources and routes
\* that it was made under end it (applyPolicy, revoke).
Answerable ==
    \A c \in Endpoints : peer[c].requested =>
      /\ peer[c].home # NoSession /\ peer[c].link # "down"
      /\ Available(peer[c].home) /\ share[peer[c].home].mode = "ask"

\* The six together, over the whole manager.
InputSafety ==
    /\ TypeOK /\ Consented /\ Answerable
    /\ Accounted(desk) /\ Authorized(desk) /\ OwnerControls(desk) /\ Together(desk)

\* Somebody whose branch is up holds it.
Attended(i) == \E c \in Endpoints : i \in desk.held[c] /\ peer[c].link = "up"

\* An input whose holders have lost their branches, or whose release failed, is lifted
\* once the sink works again, unless the App closes first (relay.go, held.go).
OrphansLift ==
    \A i \in Inputs : (i \in desk.down /\ ~Attended(i)) ~> (i \notin desk.down \/ Attended(i) \/ closed)
=============================================================================
