# Piik in TLA+

Piik is private screen sharing: a Host shares its screen with the viewers of a
room, peer to peer where it can, along a tree in which viewers relay to other
viewers, and through a server-side SFU where it cannot. The signaling server
(Go, `internal/server`) owns rooms, sessions and the media routes; an App (Go,
`internal/app`, `internal/media`, `mobile`) and a browser client
(TypeScript, `src/client`) carry the media.

This directory models who may be in a room, who feeds whom and who may use the
SFU, on both sides of the signaling socket: the server's ledger, pump, drains,
route controller, rooms and sessions, and the browser's connection, share,
viewer route, peer connections, SFU publisher and microphone. It is the logic whose mistakes a
test meets last, because it is driven by answers, timers, departures and lost
connections of many peers in any order.

The server runs under one mutex (`authority`, `internal/server/signal/server.go`),
released only around a pump's second half, key derivations, SDP negotiation and
physical closes. The browser is single threaded, and everything it awaits is a
place where something else may happen first. Those releases and awaits are
where the interesting interleavings are.

Paths below are relative to the repository root.

## 1. Inventory

| Component | State | Operations | Hard behaviour | Correct when |
|---|---|---|---|---|
| SFU admission ledger (`internal/server/sfu/admission.go`) | state of every publication and subscription, two counters | reserve, commit, begin drain (one, room, all), complete drain | displaced publications, drains that settle many entries at once | counts equal the entries, capacities hold, nothing is freed before it retired |
| Route pump and SFU waiters (`signal/router_pump.go`, `router_sfu.go`) | per room: token, request flag, result of the first half; one waiter set | request, drive, select, prepare, wake | the mutex is released between the two halves; rooms compete | each reserved unit has one owner, waiting ends |
| SFU retirement (`signal/router_sfu.go`, `router_sfu_signal.go`, `sfu/media.go`) | drain tasks, physical publishers and subscribers, goroutines | schedule, settle, offer, prepare, close, shut down | asynchronous opens race closes; closes fail | tasks match the ledger; retirements end |
| Route controller (`internal/server/route`) | the committed tree, the publication, one operation with its candidates, spent opportunities | reconcile, begin, ready, failed, expired, retire, session and capacity changes | late answers, departures, handovers without spare copies, retries | the tree is sound, resources balance, handovers keep media, the room settles |
| Room store (`internal/server/room`) | rooms, tokens, grants, passwords, members, a database | create, replace, connect, disconnect, revoke, retain | derivations without the mutex, database before memory | authority agrees in memory and on disk |
| Sessions and presence (`signal/server.go`, `session.go`, `presence.go`) | sockets, authenticated sessions, grace timers, share generations | authenticate, start, stop, disconnect, revoke | an older session's callbacks arrive late | only the current session acts, store, timers, routes and voice agree on who is there |
| Signaling connection (`src/client/lib/signaling.ts`) | socket and its generation, timers, access check, watchdog | connect, authenticate, stop, challenge, replace | callbacks of older sockets, suspended pages | one socket, a healthy one is kept, a lost one is followed by another |
| Host's share (`pages/HostPage.tsx`, `signaling.ts`, server) | the share wanted, known, published, told | start, stop, pause, reconnect, reconcile | a start or stop crosses an authentication | page, server and viewers agree |
| Viewer's route (`media/route-transition.ts`, `media/viewer-sfu-route.ts`, `pages/ViewerPage.tsx`) | active and pending subscriber, candidate and active peer connection, route revisions | prepare, ready, activate, abort, fail, recover | failures before and after the commit, lost reports, reconnects | media survives candidates, no viewer stalls unseen |
| Host's SFU publication (`media/host-sfu-route.ts`, `sfu/publisher.ts`) | active and pending publisher, queue of transitions | prepare, connect, activate, pause, retire, reauthenticate | each await is overtaken by the next plan | a publisher in use is kept, none is left behind |
| Direct edge (`webrtc/host-peer.ts`, `viewer-peer.ts`, `viewer-relay.ts`, both pages, the server between them) | both ends' peer connections, negotiation queue, timers, recovery budget; the connection the server adopted | offer, answer, change audio, restart, rebuild, recover, report | recovery of both ends crosses on lossy sockets; timers race late answers | an answer meets its offer, a broken link works again or is reported |
| Room voice (`signal/voice*.go`, `sfu/voice*.go`, `src/client/room-voice`) | members, publications, captures, planned edges | join, leave, start, stop, publish, sync, plan | the user answers after having stopped; states cross commands | a device is open only while wanted, the room shows what is true |
| Router handlers (`signal/router.go`) | a controller per room | one handler per client message | act on what the client saw earlier | they fence what they act on |
| Room media (`signal/router_room_media.go`, `route/publication.go`) | several publishers of one room | select, switch, release | switching the publisher under load | one generation is served |
| Route quality (`route/quality.go`, `root_convergence.go`, `policy.go`, `voice.go`) | evidence and probe operations | report, probe, converge | stale evidence | never worsens a route that delivers |
| Remote input (`internal/media/inputroute`, `internal/app/remoteinput`) | legs and epochs; grants, held keys, release debts | attach, lose, deliver; grant, revoke, press, release | lost branches, failed releases | no key stays pressed, no retired grant acts |
| Native host, viewer, control; media edges and forwarding; capture; tunnel; mobile; launcher | processes, peer connections, RTP state | adapters and I/O | timing of packets and processes | left to their tests |

Interaction: a client message reaches a handler in `signal/server.go`, which
updates the store and calls the router; the router calls the room's route
controller, gives what the controller releases back to the admission ledger,
and requests the room's pump; the pump asks the controller what to do next
(`Reconcile`), reserves what a candidate needs from the ledger, and tells the
peers to prepare; their answers come back as messages, or the deadline timer
fires. Released entries drain: a task closes the physical object without the
mutex and then completes the drain in the ledger, which wakes the rooms that
wait for SFU capacity. In the browser `SignalingClient` owns the socket; its
messages reach the page, which hands route updates to `MediaRouteTransition`
(which of several revisions counts) and to `ViewerSfuRoute` or `HostSfuRoute`
(the peer connections to the SFU), signals of a direct edge to its `HostPeer` or
`ViewerPeer`, and voice messages to `RoomVoiceSession`.

The hazards of this code, each at its line with the properties that cover it,
are listed in `PROJECT.json`.

## 2. Modules

| Module | What it is |
|---|---|
| `ChargedPool` | abstract: a bounded pool whose units are acquired, retired, then freed |
| `SfuAdmission` | `admission.go`, one action per method; implements two `ChargedPool`s |
| `SfuPump` | rooms with their pumps, waiters and drains, extends `SfuAdmission` |
| `SfuRetirement` | drain tasks, negotiations, preparations and physical closes, extends `SfuAdmission` |
| `SfuProofs` | the theorems of these three |
| `RouteGraph` | the committed tree of one share and the questions asked of it (no variables) |
| `RouteController` | the controller, the pump that drives it and what happens around it |
| `RouteControllerProofs` | its theorems |
| `RoomAccess` | the room store, its database, sessions, grace timers, and the derivations that run without the mutex |
| `RoomAccessProofs` | its theorems |
| `SignalLink` | the client's socket, its timers and watchdog |
| `HostShare` | a Host's share from the page over the socket to the server and the viewers |
| `SignalingProofs` | the theorems of these two |
| `ViewerRoute` | the viewer's routes and candidates against the server that plans, commits and aborts |
| `HostPublication` | the Host's SFU publisher and its queue of transitions |
| `HostPublicationProofs` | its theorems |
| `PeerLink` | one committed direct edge: the parent's peer, the child's peer, the server that relays and authorises their signals |
| `MediaRouteProofs` | the theorems of `ViewerRoute` and `PeerLink` |
| `RoomVoice` | one viewer's microphone, page and server, over a socket that breaks |
| `RoomVoiceProofs` | its theorems |
| `RemoteInput` | the desktop that viewers of several shares may control: grants, policies, held inputs, gamepads, a sink that fails |
| `RemoteInputProofs` | its theorem |
| `MC*` | finite instances |

### SfuAdmission
A publication is a room and a generation, a subscription a publication and a
connection; `publication` and `subscription` map each to absent, reserved,
committed or draining. The code's booleans are guards: `CanReserve...` and
`CanCommit...` are the conditions under which a method returns true; a refusal
and an idempotent repetition change nothing and are not actions. Voice
publications use the same entries and are not distinguished.

### SfuPump
`requestPump` runs a synchronous prefix under the caller's hold of the mutex;
`drivePump` takes the mutex again for the rest. In the model a handler that
ends in `requestPump` puts its room in `due`, and no other action is enabled
until that prefix ran (`RequestPump`); `DriveResume`, `DriveLoop`, `DriveEnd`
are the second half, and between prefix and resume anything may happen.
`pending` is what the prefix left, `stale` tells that the facts moved since,
`orphans` are the remainders of pumps whose room was cleared. The controller is
reduced to whether it has an SFU candidate at the cursor, the reservation in
flight and the committed SFU edges.
A room here reserves a publication only when it has none left that serves, so a commit
never displaces one (`Displaced` is empty); displacement is exercised by
`SfuRetirement` and proved about `SfuAdmission` (section 5).

### SfuRetirement
`publicationTasks` and `subscriptionTasks` are the router's drain tasks,
`closing` the operation each runs; `publisher`, `peer` the physical objects;
`preparation`, `offers`, `untracked` the goroutines working without the mutex.
A room's controller is any client that reserves, commits and releases.
A physical close may fail; then its task stays until the shutdown retries.

### RouteGraph and RouteController
One record `c` is the controller (its fields are listed in `RouteGraph`).
`Validate` is `validateOrAdvance`, which every handler calls first;
`Reconciled` is `Reconcile`, as the set of controllers it may leave (ties
broken by a hash and by map order are left open); the operators carry the names
of the functions they stand for. Actions: `Reconcile`, `BeginCurrentCandidate`,
`RetireCurrentCandidateProducer` (with the begin that follows in the same hold
of the mutex), `SkipCurrentCandidate`, `CandidateReady`, `CommitRefused`
(the ledger refuses the commit), `CandidateFailed`,
`CandidateTransportConnected`, `OperationExpired`, and the changes around the
controller: disconnect, reconnect, join, departure, capacity, lost edge, lost
publication, new Host identity, pause, freed SFU capacity.

Abstractions, each over-approximating unless listed under "not modelled":
* time: an operation is `early` (head start), `late` or `overdue`, an attempt
  `stalled` or not, and time may pass at any moment;
* a late or mismatched answer is `OperationExpired`: the handler validates, finds
  the guard does not match and changes nothing else;
* revisions are only compared: `op.based` (the operation is based on the
  current revision) and `att.newest` (nothing newer was broadcast since the
  attempt was prepared) stand for the numbers;
* session, connection and resource names: an edge remembers whether its two
  sessions are still the current ones (`own`), resources are small numbers
  drawn again only when nothing names them;
* direct parents to retry behind an SFU edge (`cont`) are a set, and the next
  one is any of them; a continuation that no longer belongs to a healthy SFU edge is
  dropped in the next round of the pump, where the code drops it when it next
  selects one.

### RoomAccess
Every action is one critical section of the server's mutex. Rooms, sessions
and the database are separate variables; `jobs` are the operations that need a
password derived: they are queued at the gate, derived without the mutex, and
apply their result (`CommitLogin`, `Reject`, `CommitPassword`, `CommitReplace`) to
whatever the room has become. `grace` are
the armed timers of viewers who left, `fired` the callbacks already waiting for
the mutex. Durable changes write the database first and may fail there; a crash
between the two writes is a crash after both, because memory is lost either
way. Assumptions: site access is granted, a share is live throughout (its
generations are `HostShare`'s), which of several idle rooms is evicted is left
open, a password is set by `SetViewerPassword` or comes along with a
replacement, and there are more codes than rooms. The branch of
`completeAuthentication` for an admission aborted halfway cannot be reached
under the mutex and is left out.

### SignalLink
Sockets are numbered by `socketGeneration`, and each callback carries the
number it was created for. `heard` are the challenges sent, in flight and
answered; `watch` is the watchdog with the challenge pending and the one
before it. `Rebaseline` is a timer that ran late, or a page that was hidden.

### HostShare
`page` is what `HostPage` wants and believes, `signal` the client's connection
and the identity its next authentication carries, `server` the room's share with
what each session is and what viewers were last told; `up` and `server`'s
answers travel in order on each socket. The server ends an unauthenticated
session after five seconds, before the client's own eight; a lost socket's
authentication is assumed not to reach the server later than the next socket's.

### ViewerRoute
The client is single threaded and no await in its transition queue waits for
anything outside the page, so one action is one event with all it queues.
`client` is the page (`route` is `MediaRouteTransition`; `active` and `pending`
are the slots of `ViewerSfuRoute`; `peer` and `probe` the page's connections to
a parent), `server` plans one route at a time in increasing revisions and
forgets what a lost socket had in flight. The page may send again only once it has
handled the server's greeting (`SignalingClient.send` needs `authenticatedPeerId`), while
the server counts the viewer as connected from its greeting on (`Connected`).

### HostPublication
A publisher is a slot with the operation that waits in it (`at`); `queue` and
`run` are the transition queue and the transition it is executing, cut at each
await. Without room media, a publication's connection is named by its
generation. `budget.cut` remembers publications that a pause closed after their
commit (see `CommittedPublicationSent`). The server's plan is aborted when the
Host's session ends. `Reauthenticate` leaves out the `active` update that
`completeAuthentication` also broadcasts (`router.go:365-373`): it repeats the route the
authentication itself carries.

### PeerLink
`parent` is a `HostPeer` with the page that owns it, of a Host (`HostPage`) or
of a relay (`ViewerRelay`): the two differ in what a failed start or a failed peer
leaves behind (`Started`, `Failed`). `child` is the `ViewerPeer` with its
recovery budget and timers, `edge` what the server knows. Each end has an
ordered queue in each direction of its socket; a lost socket loses both. A send is
refused until the page has handled the `authenticated` of its socket (`MaySend`,
`signaling.ts:252-259`), although the server may have sent it already. One
operation of the negotiation queue (`enqueueNegotiation`) is one step, since it
holds back everything but disposal; what the browser refuses is an outcome of the
step. Opaque connection names are drawn again only when nothing refers to them.
Left out: route updates of a later revision (an update of the same revision
is a duplicate or, after an authentication, `ParentAuthenticated`), an adoption
that an availability operation denies, candidates and punch signals, tracks,
codecs and profiles, and a browser that refuses to create the child's
replacement connection. A report the server acts on ends the behaviour, because
the route is replaced then; that is `RouteController`'s.

### RoomVoice
`member` is the server's record of one viewer and its session, `page` the
`RoomVoiceSession` with its endpoint's source, `request` the state of each
capture: asking for the device, resuming its AudioContext, held, closed. The
Host and the other members are the environment. Revisions are left out since
one socket delivers in order; a send on a closing socket is a message lost with
its session. `asked` are the captures the user started and nothing ended since.

### RemoteInput
One `Manager` of `internal/app/remoteinput` over the sharing sessions of an App.
`desk` is what its mutex protects about the desktop: who owns it, which
endpoint has a grant, what each holds, what the sink has down and which releases
are owed (`debt`); `peer` and `share` are the endpoints and the sessions with
their policies; the operators that change the desktop (`ReleaseConnections`,
`Given`, `Pressed`, ...) carry the names of the code's functions and yield every
desktop that a failing sink may leave. An action is one hold of the mutex, so the
permission of the operating system (`BeginPolicy`, `CommitPolicy`,
`CancelPolicy`), the opening of a gamepad (`Gamepad`, `GamepadOpened`) and the
report of a lost branch (`BranchLost`, `EpochClosed`) are cut where the code
leaves it. `allowed` is history: the modes a Host asked for and has not
withdrawn. The relay of `internal/media/inputroute` is what it tells the manager:
packets of a branch that is up, and later that the branch is gone. That the relay
then reports every epoch of the branch (`EpochClosed`) is assumed, not derived from its own
records: a relay that forgot one would not be caught here.
Password and room admission are one mode ("room"). Left out: the hops of the
relay, the difference of keys and buttons, the limit of 256 held keys, replies
and feedback, and the registration of the stop shortcut.

## 3. Runs

| Run | Instance | Shows |
|---|---|---|
| `sfu_pump` (`DuelSpec`) | 2 rooms of which one is simple, 3 generations, 2 connections, capacities 2 and 2 | exact accounting, capacities, serving state follows the publication, the refinement of the pool of egress units; one holder per live unit and committed routes charged, a valid candidate can be committed; waiting for capacity ends |
| `sfu_retirement` | 1 room, 2 generations, 2 connections, capacities 2 | tasks match the ledger, what is held is charged; retirements complete, stray subscribers close |
| `route_controller` | 2 viewers, endpoint capacity 1, every initial room with at most one relay, 1 change | `assertGraph`, resources balance, commits deliver, the room settles |
| `route_watched` | 3 viewers that already watch, below a full Host, beside a relay or as a chain of relays, endpoint capacity 3, 2 changes (1 for the chain) | copy budget, revisions, a gap starts its candidate, handovers keep media, a room at rest serves everyone it can |
| `room_access` | 2 clients, 2 codes, one room at a time with one viewer, 2 sessions, 2 derivations, gate of one with one waiting, 2 changes, 1 fault | memory agrees with the database and every counter with what it counts; store, sessions, timers, voice and routing agree on the members; derived results apply only to what they were derived for; a grace ends only its own departure |
| `signal_link` | 3 sockets, 4 challenges, 1 rebaseline | one socket, a healthy one is kept, a lost one is followed by another |
| `host_share` | 2 shares, 3 sockets, 2 pauses, 1 refusal | page, server and viewers agree, no resurrection, every wanted share settles |
| `viewer_route` | 2 parents, 1 publication, 5 revisions, 2 losses of the socket, 2 pauses, 2 media | what is open is held, nothing stalls unseen, media survives candidates |
| `host_publication` | 4 revisions, 2 publications, 5 publishers, 1 fault, 1 lost link, 1 pause | publishers are held or being closed, a committed publication is sent, preparing does not disturb what is sent |
| `peer_link` | a Host's and a relay's child, 3 troubles, 7 names | an answer is applied to the offer it answers; the link works again with the source's audio, or the server has heard that it failed |
| `room_voice` | 3 captures, 3 sockets, 2 lost sessions, 3 changes | microphone safety, the room tells the truth, publications settle |
| `remote_input` | 2 sessions, 2 endpoints, 1 input, 1 fault, 1 change, from three states in which viewers may ask or enter | what is down is held or owed, whoever holds it may, the desktop has an owner that controls it, consent and requests end with what they were given for; what an absent holder or a failed release left down is lifted |

### Bounds and why they are enough
* Admission: the ledger is checked as the pump drives it. Of the publications and
  the subscriptions two of each fit, so both limits are met; a room can be
  drained and reserved again, and a publication drain settles two subscriptions.
  The theorems of section 5 remove every bound and
  allow every order of the ledger's operations; `SfuAdmission.cfg` checks the
  same by hand on two rooms with capacities of 3.
* Pump: two rooms are needed to compete and to wake each other; three
  generations let a drained one coexist with a serving and a reserved one;
  `MaxOrphans = 1` bounds the pumps of cleared rooms still to run. With two
  egress units, two Viewers of one room keep the other room waiting.
  `DuelSpec` (`MCSfuPump`) keeps this small enough for liveness: identities are
  drawn in one order (a reduction by symmetry), one of the two rooms only
  competes (it stays open, one Viewer at a time, no retries), and a deadline
  fires on a room that waits or has a candidate in flight. `SfuPumpWide.cfg`
  checks the safety properties without these restrictions, by hand.
* Retirement: drains and closes of two rooms never touch each other's entries,
  so one room is enough; two publications overlap as in a displacement, and
  two subscriptions distinguish a task of its own from one that the
  publication's task absorbed.
* Routes: `MaxChurn` bounds the changes of the environment in a behaviour, not
  the controller's own steps, answers and timers. Two changes make a change race the
  reaction to another. With endpoint capacity 1 a Host feeds one viewer or a
  publication, so two viewers already force relays, the SFU, anchors and the bootstrap;
  capacity 3 is the one value at which an overlap would exceed three copies, so
  the bounded gap occurs only there (`TransitionCopyLimit`), and it needs three viewers.
  `TransitionCopyLimit` is the code's `transitionCopyLimit` for endpoints that report at
  most three copies: one that reports more raises its own limit
  (`relay_volunteer.go:40-43`), and relay volunteers are not modelled.
  `FullHost`, `SideRelay` and `RelayChain` are states that three joins and three
  direct commits lead to; starting there spends the changes on what happens
  afterwards. A Host of a new identity empties the tree, so that change is left
  to `route_controller`, which starts from an empty one.
* Room access: two clients compete for one place of the room and for one slot of
  the gate; two codes let a room's successor take a code over, or its own code
  again; two derivations are one that runs and one that waits (a third, which the full
  gate refuses, is left to the theorems of section 5).
  Expiry of an idle room counts as a change, a refusal as a fault.
* Client: three sockets are one, its replacement, and one whose predecessor's
  callbacks still run; four challenges exceed the two in a row after which a
  socket is given up. Two shares make a restart. A viewer's five revisions are a
  route, its replacement and a recovery, across two lost sockets. A Host's five
  publishers are two publications with retries; deeper sequences repeat
  after each reauthentication. Three captures are a microphone, a change of its
  device, and a restart.
* Peer link: `Unheard` needs two troubles and `Unanswered` three, so three show
  every exception of `LinkSettles`.
  A trouble is a joined transport that breaks, a lost socket, a refusal by
  the browser, a change of audio, a retry by the user, or a timer that fires while
  what it waits for is still on its way. `MaxNames` bounds the connection names in
  use at a time, in the guard `Running`; with seven names that guard never holds a
  step back (without it TLC finds the same 183 804 states).
* Remote input: two sessions compete for the desktop, two endpoints play in turn or
  together; one change (a command, a lost branch) meets packets, ticks, answers
  and gamepads without bound, and one handler's sink fails in every way it can. The
  three initial states are ones that commands lead to. The theorem of section 5
  has none of these bounds.
* Deadlock checking is off where the system may rest: a settled room, a
  retired SFU, a stopped client, and where the environment's bound is used up.
* Symmetry is used only with invariants and action properties.

### Fairness and why the code justifies it
* `SfuPump`: the handler that holds the mutex goes on, and a goroutine that waits for
  `sync.Mutex` gets it (its starvation mode hands it over), hence strong
  fairness of `DriveResume`; the deadline timer of an operation is armed as
  long as it exists (`scheduleDeadline`), hence of `OperationExpired` for a
  waiting room. No client and no physical close is fair.
* `SfuRetirement`: goroutines already started end: pion's `Close` returns and
  the preparation has a timeout. A close may still fail, and no room is
  obliged to do anything.
* `RouteController` (`FairSpec`): every handler requests a round of the pump
  (`requestPump`), the deadline timer is armed, and time passes. Candidates
  need never begin and clients need never answer. The fairness of `Reconcile`
  and `OperationExpired` is written out (infinitely often either nothing would
  change or the step is taken), which is weak fairness with `ENABLED` spelled
  out.
* `SignalLink`: armed timers fire, a closing socket reports that it closed, a
  request for the site's access ends within its own timeout. No server answers.
* `HostShare`: messages on an open socket are delivered and answered, timers
  fire. `ShareSettles` asks nothing once the sockets of the bound are used up.
* `PeerLink`: messages on an open socket are delivered, routed and handled,
  armed timers fire, a transport that is opening or has dropped settles one way or the
  other, one whose ends no longer agree stops, a lost socket reconnects
  (`SignalLink`). Users and troubles are not fair.
* `RoomVoice`: messages are delivered or both ends notice the loss, an
  AudioContext answers. Nobody has to answer the permission prompt.
* `RemoteInput`: the ticker ticks until the manager is closed, and the relay, which
  has noticed that a branch is gone, says so for each of its epochs
  (`EpochClosed`). No viewer, Host or operating system is fair.
* `RoomAccess`, `ViewerRoute`, `HostPublication`: safety only; what would be
  liveness is stated for the states in which nothing is on its way any more.

## 4. What the properties except, and further counterexamples

Five properties hold only with a named exception; each exception is a behaviour
of the code that a maintainer should know of.

* `RoomTellsTruth` (`stray`): a microphone is stopped, its `unpublish` is on its
  way, and a state the server sent before handling it reaches the next capture,
  which attaches to the publication about to end (`room-voice/session.ts:101-110`
  does not look at `retiredPublications`). The publication the server then makes
  for that capture is withdrawn as that of a former page (112-116), and the start is lost
  without a message to the user.
* `NothingStalls`: `LeftToSfu`, a subscriber that failed after its `route-ready`
  and before its commit, while the page still holds an older one of the same
  publication: the failure is not reported, the older one is kept or reported
  (`viewer-sfu-route.ts:676-690, 750-752`), and recovery waits for the SFU.
  `LeftToParent`, a committed peer candidate whose failure report was lost with
  the socket: the page has dropped the connection, and the parent's recovery
  reports it. `Abandoned`: a candidate the page discarded is the far end's to
  report.
* `CommittedPublicationSent` (`budget.cut`): a pause closes a publisher that was
  committed and not yet taken over; the page reports nothing and only the
  SFU's media-failure detection notices.
* `LinkSettles`: `Unheard`, the child reports the exhaustion of its recovery once
  (`exhaustedReported`, `viewer-peer.ts:573-592`), and the report names another
  connection than the one the server adopted meanwhile from a late rebuild of
  the parent (`router.go:1090-1100` ignores it), or was lost with its
  socket. The replacement by the same parent keeps the spent budget
  (`viewer-peer.ts:269-275`), so the child neither asks nor reports again; it
  waits for the user, the next lost socket, or the parent.
  `Unanswered`, the answer of an ICE restart is lost and the transport heals on
  the old pair: no answer timer runs for a restart (`host-peer.ts:689`), the
  child's recovery is done, and an audio change stays `pendingNegotiation`,
  which the comment at `host-peer.ts:46-48` leaves to the recovery owners.
* `PausesAgree` is not a property of a run: a pause requested between a
  socket's opening and its `authenticated` is neither sent (the server refuses
  it, `signaling.ts:277-296`) nor carried by the authentication already sent,
  while the page shows "sharing stays paused" (`src/client/locales/en.ts:831`).

`RemoteInput` takes from the code that a call into the sink that returns an error
has pressed nothing (`applyHeld` records a press after it returned none). On
Windows `inject` may return an error after the system accepted some of the
events; that is behind the sink and not modelled.

Further configurations end in a counterexample when run by hand, `tlc -config
<cfg> <module>`; each states a promise more strongly than the code keeps it.

| Config, module | Property | What TLC shows |
|---|---|---|
| `SfuPumpLostWake.cfg`, `MCSfuPump` | `NoRoomWaitsForFreeCapacity` | the denial is computed in the pump's first half, the room becomes a waiter in the second (`router_pump.go:184`); a drain that settles in between wakes everybody else. ADR 0005, line 263, says a usage decrease reconciles the denied rooms; `WaitingEnds` shows the wait is bounded by the deadline |
| `SfuRetirementPublisher.cfg`, `MCSfuRetirement` | `PublisherStaysCharged` | an offer that finds its authority gone detaches the publisher (`router_sfu_signal.go:158`) while a running drain finds nothing to close and frees the ingress unit; `admission.go:60` promises the charge until retirement is confirmed |
| `SfuRetirementSubscriber.cfg`, `MCSfuRetirement` | `SubscriberStaysCharged` | a subscriber that opens after its subscription's drain completed is closed by a goroutine no drain covers (`router_sfu_signal.go:211`); that it is closed in the end is part of `RetirementEnds` |
| `ViewerRouteSilent.cfg`, `MCViewerRoute` | `CommittedFailureIsReported` | `LeftToSfu` above, against the comment at `viewer-sfu-route.ts:707` |
| `HostSharePause.cfg`, `MCHostShare` | `PausesAgree` | above |

Two more are run by hand and end without one. `SfuAdmission.cfg`
(`MCSfuAdmission`) checks the ledger alone, with `RetireBeforeFree`, which is
otherwise only proved. `SfuPumpWide.cfg` (`MCSfuPump`) checks the safety
properties of `sfu_pump` on two equal rooms, up to symmetry.

Not stated as a formula: two rooms denied after their publication was reserved
drain it again, and those drains wake each other (`router_pump.go:393`) although
the SFU is no less charged than before.

## 5. Proofs

`SfuProofs` proves, of the ledger by itself, for every set of rooms, generations and
connections (finite) and all natural capacities (`AdmissionAssumption`):

| Theorem | Property |
|---|---|
| `LedgerTypes` | `AdmissionTypeOK`: in particular no counter goes below zero |
| `LedgerSafe` | `LedgerSafety`: `ExactAccounting`; `WithinCapacity`, so `assertNoUnderflow` (admission.go:324) cannot panic; `SubscriptionFollowsPublication`; `OneServingPublication` |
| `LedgerRetires` | `RetireBeforeFree` (no run: `SfuAdmission.cfg` by hand) |
| `LedgerImplementsIngressPool`, `LedgerImplementsEgressPool` | the two refinements of `ChargedPool` |

The inductive invariant `LedgerInv` joins types, accounting, bounds and the
shape of the ledger. None of them is inductive alone: the bounds need the
accounting (a counter is known not to underflow only because it counts
something), the accounting needs the shape in `CompleteDrain`, which removes a
publication and however many subscriptions it still has, and the shape needs
`OneServingPublication` when a commit displaces the older publication of a room.
`StepLedger` has one case per action, each a lemma; the subtractions and
additions are facts about cardinalities of disjoint finite sets. The refinement
lemmas map each action to `Acquire`, `Retire`, `Free` or a stutter of the pool.

The same module proves, of the pumps of all rooms over that ledger
(`AdmissionAssumption`, and `PumpAssumption`: the mark for no room is no room):

| Theorem | Property |
|---|---|
| `UnitsHaveOneHolder` | `EveryUnitHasOneHolder`, with the types and `ServingStaysCharged` |
| `CandidatesCommit` | `ValidCandidateCommits` |
| `PumpedLedger` | `LedgerSafety`, under the pump's composite steps |
| `PumpImplementsEgressPool` | the refinement of `ChargedPool` by the composition |

`PumpInv` gives each room what is in its hand (`InHand`: the reservation its
prefix left to the other half of the pump, or else its candidate's) and says in
both directions how that and the committed route match the ledger: a reservation
in hand is charged unless it reuses a publication that is gone (`Sound`), and
whatever the ledger holds live in the room is in hand or served
(`PublicationOwned`, `SubscriptionOwned`). Two more parts make it inductive:
`Turns`, that a room whose pump is between its halves has no candidate, so
neither half overwrites the other's reservation, and `OrphansGone`, that what a
pump of a cleared room still remembers is not live. Every step but the drains
concerns one room, so `OneRoom` reduces it to that room (`LedgerElsewhere`,
`RoutesElsewhere`), and `GivenBack` and `Selected` are the two things a pump does
to the ledger. Steps of the pump that are several of the ledger's (a publication
reserved with its first subscription, one charged and denied at once, a release of a
set) keep the invariant of the ledger by lemmas of their own.

And it proves, of any rooms over that ledger (and
`RetirementAssumption`: no publication is a subscription), `DrainsMatch`
(`DrainsMatchLedger`) and `HoldersCharged` (`HoldersAreCharged`). That every
draining subscription has exactly one task is an exclusive or: its own, or the one of
its publication, which absorbed it. `RetirementInv` joins it with what the rooms
hold, and with `ClosingRetires`: an operation runs only on a publication that
is being retired, and where it is done the runtime serves nothing more. Without that
part a settlement could free the unit of a publication still served. A
release keeps the invariant because no room still holds a subscription of
what it releases (`HeldOfAll`), and a displacement because it hands the old publication and
its subscriptions to one task.

`SignalingProofs` proves, for every number of sockets, challenges and
rebaselines (`SignalLinkAssumption`), `LinkSafe` (`LinkSafety`: one socket at
most is connecting or open and it is the owned one, whatever timers, access
checks and closes of older sockets are under way) and `HealthyKept`
(`HealthySocketKept`: the watchdog never replaces a socket that answered one of
its last two challenges). `LinkInv` adds to `OneSocket` two parts without which
neither is inductive: `NewestOwned`, that the owned socket is of the newest
generation and an access check of that generation runs only while no socket is
owned (or its answer would open a second one), and `Unanswered`, that the
challenges the watchdog waits for are the last two sent, on the owned socket,
and in nobody's `got`. Most handlers end in one of two ways, losing the session
or leaving the watchdog alone; those are the lemmas the steps share.

The same module proves, for every number of shares, sockets, pauses and refused
admissions (`HostShareAssumption`), `SharesTrue` (`ShareTruth`) and `StoppedStays`
(`NoResurrection`). `ShareTruth` speaks of moments when nothing is under way; the
invariant `ShareInv` says what is under way before. On the page's side
(`Intent`), page and client want the same, newest share, and it is live exactly when no
start waits for its answer. On the server's (`Recorded`), the share its connected
Host's session owns is the one on record, and viewers were told that. Between
them is `NewestSocket`, which gives the newest socket one of four ages: ended by
the server, asking (its authentication is all it carries), answered but not heard,
or talking. While it talks, `Ordered` says that each request on its way fits the
session as the ones before will have left it, so none is taken for a stale session's; `Leads`
that the last of them leads to the share the page wants, or to an answer on its
way back; and `StillTrue` that an answer about the wanted share is not outdated by what
follows it. The `Talk...` and `Hear...` lemmas carry these through each
request the page adds and each message either side takes off, for queues of any
length. Older sockets may still be read at any time: they carry no
authentication (`Unread`), so they cannot become the Host's, and a live share
outlives whatever they ask (`Acknowledged`). That no step lifts the fence of a
stopped share (`Fenced`) needs the invariant only where a session's share says
that the policy stands, and is shown action by action.

`RoomVoiceProofs` proves `MicrophonePrivate` (`MicrophoneSafety`) for every
number of captures, sockets, losses and changes of the room
(`RoomVoiceAssumption`): however the answers of the user, the room and the
socket are ordered, an open device belongs to the capture or to the source,
is still wanted, and the source feeds the publication the page last saw.
`MicInv` is the same statement with one addition, that the current capture is
wanted even before its device opened; without it the permission prompt could
be answered after the stop. The page's operations are functions of its state
(`Cancelled`, `Unsourced`, `Attached`, ...), so each has a lemma of what it
keeps, a handler's lemma composes them in the order in which the handler calls
them (`StateReceivedIs`), and the actions only place the result. Nothing is
assumed of what the server sends: the theorem holds for any publication names
and any order of room states.

The same module proves `RoomIsTold` (`RoomTellsTruth`): once both wires are empty,
page and server agree on the membership and the publication, and a start nobody ended
has its microphone unless a stray attachment lost it. The property speaks of a rest;
why it holds is what is on the wires before. `TruthInv` has three parts beside the
types. `Linking` says in which of four ages a socket is (`Dropped`, `Greeted`,
`Subscribing`, `Attending`) and what its wires hold then: nothing outlives a
session, and only an attending page is sent rooms. In the last age, `Heard` is about
the rooms the page has and will get, in order: the last is the server's
(`Caught`), a publication that the page has not withdrawn is in all the later ones
unless the viewer is out in between (`Lasting`), and one that is gone does not come
back (`Over`); and `Sent` says that the withdrawals on their way are those the page
remembers. Forgetting one (the last line of `receive`) is safe because of `Over`.
`Kept` is about the page alone: it remembers at most the withdrawal of the room's
own publication, and only a stray attachment (`stray`) feeds a withdrawn one. The lemmas
on the wires (`HeardMore`, `HeardNext`, `SentHandled`, ...) are about any sequences of
messages; `StateReceivedSays` is what a handled room state does to publications;
`AttendingTold` and `PageSpeaks` are the two kinds of step the actions reduce to. TLC
agreed with `TruthInv` on the instance of `RoomVoice.cfg` before it was proved.

`MediaRouteProofs` proves `LinkNegotiates` (`NegotiationSafety`) for a Host's and
a relay's child and every number of names and troubles (`PeerLinkAssumption`):
whatever sockets break, timers fire and transports do, the parent applies only
the answer of its newest offer. The property only sees the parent; why it
holds is in the queues, so `LinkInv` adds `Negotiated`: while no offer is
unanswered (`Calm`), nothing anywhere describes the parent's connection, neither
an offer or answer in one of the four queues nor a negotiation of the child; while
one is unanswered (`Alone`), at most one such description exists and it has the
epoch of that offer. It is kept because a restart is only begun when no answer is
awaited, because a rebuilt connection has a name nothing refers to, and because
relaying, answering and losing descriptions never make a second one. The lemmas at the
start say what appending to a queue and taking its head do to the descriptions in
it; then each of the peer's operations has its lemma, each action composes them in the
order in which the handler makes the calls, and `StepKeeps` has one case per action.

The same module proves, for any parents and publications and every number of revisions, lost
sockets, pauses and failures (`ViewerRouteAssumption`), `RouteIsHeld` (`RouteSafety`) and
`MediaSurvives` (`MediaSurvivesCandidates`). The invariant `RouteInv` has a part about the page and one
about what is said to it. `Kept` is the page: a pending subscriber and a peer candidate exclude
each other (`PendingOK`), a subscription and a watched peer too (`ActiveOK`), and connections
are ordered: a pending subscriber is newer than the one in use, which is no newer than the
route that activated it. Without that order `MediaSurvivesCandidates` would not follow, since the code
tells a subscriber that replaces another only by its newer connection. A pending subscriber has
a connection of its own only if a configuration of the revision that prepared it names
that revision. That is the server's doing, and `Described` says it of everything in flight: `OwnPlan` are the
revisions in which this viewer's own route is prepared as far as the server, a
message on its way or the page still knows, and a configuration of such a revision names the connection it
prepared; `Numbered` keeps revisions fresh, and keeps one in reserve for the end of an operation. The proof
follows the page's calls: `Keeps` (the subscription in use is untouched), `Settles` (the route's
numbers are) and `Spares` (it survives, or ended for an admitted reason) compose, and each
operation has a lemma with the strongest of them; `HandleFine` is any message, `ProbeEventFine`,
`PeerEventFine` and `SlotEventFine` are media events, and `CommitFine` and `RemainFine` are the server's
steps, to a new revision or within one. TLC agreed with `RouteInv` on the instance of `ViewerRoute.cfg`
before it was proved.

`RemoteInputProofs` proves `InputsSafe` (`InputSafety`) for any sessions,
endpoints and inputs and any number of faults and changes
(`RemoteInputAssumption`: the mark for no session is no session): whatever the
order of packets, lost branches, commands of several Hosts, late permissions,
late gamepads and failures of the sink, an input that is down is held by an
endpoint that the owner's present policy admits, over a branch whose loss is
noticed, or its release is owed. `InputSafety` is inductive as it stands. The
proof separates what the code separates: `Safe` is what it says of a desktop, and
each operation on held inputs and grants (`Released`, `ClearHeld`, `ResetHeld`,
`Pressed`, `Release`, `ReleaseConnections`, `Given`, ...) keeps it, whatever the
sink does (`ReleasedAccounted`, `SeatsSafe` and `PadsSafe` are what these lemmas
share); `Carried` takes a safe desktop over a change of endpoints and policies
that its controllers survive; `DeskStep`, `PeerStep`, `PolicyStep` and
`ShareStep` are the four kinds of handler, and each action is one of them.
`OwnerControls` is what makes the stop shortcut reach everybody (`RevokeStep`):
without an owner nobody controls.

`RoomAccessProofs` proves, for any browsers and codes, any capacities, and any
numbers of operations, sessions and faults (`RoomAccessAssumption`: there are more codes than
rooms may be open):

| Theorem | Property |
|---|---|
| `AccessIsSafe` | `AccessSafety`: codes, stored authority, the unauthenticated counter and the derivation gate balance |
| `MembersAgree` | `MembershipAgrees`: store, sessions, timers, voice and routing agree on who is in a room |
| `DerivedStaysCurrent` | `DerivedIsCurrent`: `AdmissionIsCurrent` and `ChangesItsOwnRoom` |
| `GraceStaysItsOwn` | `GraceIsItsOwn` |

The four share the invariant `AccessInv`. Its parts that are not in the properties
are what makes it inductive. `MembershipAgrees` speaks of timers by peer, and a peer is a
name: `PeersOnce` says that a name is one Viewer's of its room and never that of a session
which may still be admitted (a session gives its number as the name of whoever it
admits first). `AwayTimed` is the exact statement of the grace: a Viewer who is
away has a timer with the number of his last departure, and every timer is of
such a Viewer; this is why a callback that lost the race to a return is
harmless (`GraceStaysItsOwn`), and why `revokeGrantViewers` and `closeRoom`
must stop timers. `Vacant` lets a room open under a reused code: nobody sits
where no room is. `SessionShape` has that only an admitted session is revoked, which the counter of
`handleDisconnect` relies on. For the balances, `Erased` and `IdsCounted` are needed (a crash
restores an empty room for a free code; identities set aside by replacements under way stay
within the bound), and `GateShape` says that nobody waits twice, so the waiter a
slot goes to is the only one to leave the queue.

The proof has a lemma per action and part: `Shaped...` (types and the shapes of jobs and
sessions), `Store...`, `Gate...` and `Presence...`. Most actions move nobody, and `Quiet` covers
them; those that empty seats (`SetViewerGrant`, the end of a grace, the rooms that close
or are replaced) satisfy one description, `Emptied`, and `PresenceEmptied` is
proved of that; admission and departure have their own (`AdmitEffect`,
`AdmitHostEffect`, `PresenceDisconnect`). A failed write is the other disjunct of each operation
of the store, a crash an action of its own (`RestoredBalanced`, `PresenceCrash`).
`StepAccess` puts them together, and `StepAdmits`, `StepChanges` and `StepGrace`
are the facts about single steps.

`RouteControllerProofs` proves, for every set of viewers, every endpoint capacity and
every bound of the environment (`RouteAssumption`):

| Theorem | Property |
|---|---|
| `ControllerGraph` | `GraphOK`: the edges are a forest of participants, `assertGraph` never panics |
| `ControllerBalances` | `ResourcesBalance`: what is reserved in the SFU ledger is what the tree and the live attempt use |
| `ControllerPrepares` | `PreparedIsNewest`: no broadcast outdates a live attempt |
| `ControllerAffords` | `CopyBudget`: nobody sends more copies than a transition may overlap |
| `ControllerDelivers` | `CommitDelivers`: a viewer is moved only onto a route that delivers |

The invariant `Good` joins the first four with what they need. A release is exact only
if what the attempt reserved is not also used by the tree: `AttemptOwn` says that the
subscription of a live attempt differs from the one its viewer still has and that a publication
it creates differs from the serving one, and `EdgesCurrent` that every subscriber is on the
serving publication, so that dropping the publication gives back all of theirs. A handler
is a composition of some forty operations on the controller's record, and between two of them a
publication may be without subscribers (`Watched` fails) until `DropUnusedPublication`, and a
retiring generation without its relay (`Anchored` fails) until `PruneAnchors`. So the proof
goes by operation: `Onward(x, y)` says that `Base`, all else, holds of `y`, that nobody is fed who
was not fed by the same parent and no attempt or publication appeared (`Shrinks`, from which the copy
budget follows), and that `Watched` and `Anchored` are kept if they held. It is transitive, so `Validate`, `Reconciled`
and the departures follow from their parts; beginning a candidate and committing it are the only
steps that add a copy, and `TargetFits`, `PublicationFits` and the retirements of the plan are what
pays for it. `Scheduled` is a recursive function of the round: that it has a value at every round
(`RoundsExist`) and that each controller it reaches is as required (`RoundsCalm`) is shown by the
least round that would fail (`LowestIs`), because the library's induction theorems take an operator.

That there is no cycle cannot be carried as it stands, because `Descendants` says nothing about the
next step. `Rooted` has instead that viewers can be numbered so that a parent's number is lower than
its child's (`Ranks`), and `RankedAcyclic` that then nobody is below itself. Removing
viewers together with everybody below them keeps the numbering (`TrimmedRooted`, also for the
departed, `DepartedClosed`), and a commit, which moves a viewer below a peer that is not below
it, has one in which all that moves is numbered behind the new parent (`MovedRanked`). For this
`Descendants` has to be what its name says: `DescendantsClosed` shows that as many hops as there are
viewers reach everybody below (as long as a hop adds somebody, it holds more viewers than hops were made),
`DescendantsLeast` that it reaches nobody else.

`CommitDelivers` is about two states, so every lemma about a handler also says that it moves
nobody (`Unmoved`: no edge has another parent or subscription than before; `Follows` adds the
invariant), and only `CandidateReady` does not. There, `Validate` leaves the attempt alone only
if it stands, and `Commits` says what the commit then changes: the child's edge, and of
what else is fed nothing (when the child moves below a peer). `SourceUsable` is a least fixpoint computed in as many hops as
there are viewers: `FedClosed` (counting, as for `Descendants`) and `FedLeast` say so. The parent
could be fed before the commit, and `ParentStaysFed` shows that it still is: the usable sources
afterwards, together with the child and everybody below it, are closed under feeding as it was
before; the parent is in that set, and it is neither the child nor below it. Among those sources may be the
last subscriber of the publication; because it is not the child, the publication stays.

`HostPublicationProofs` proves, for every number of revisions, publications, publishers,
faults, links and pauses (`HostPublicationAssumption`), `PublicationSafe`
(`PublicationSafety`) and `PublicationSurvives` (`SendingSurvivesPreparation`). The invariant
is `PageInv` for the page and `ServerInv` for the server's numbers. `Held` is `PublishersHeld` with an
exception: within a handler, between leaving the queue and ending its operation, one slot may
be open without an owner. It is inductive because of three other parts: `Placed` (the
pending and the active slot have not failed, are different, and are open if they send),
`Lined` (a queued preparation belongs to a slot that waits for it, and no slot waits for two;
what a queued closing names is neither pending nor active) and `Slotted` (slots are never
reused). Losing a slot is the same however it is reported (`Lost`, `FailureIs`), so `handleFailure`
needs no case per report. Liveness of what is sent is the relation `Survives`, which composes
with `Stays` along the calls of a handler; only the takeover (`PromoteKeeps`) changes the active
slot, to one with the same publication.

Only model-checked: of the routes,
`GapStartsCandidate`, `HandoverKeepsMedia` and that a room at rest serves everyone
(`RestingRoomServes`); of the pages, what they owe once everything is delivered
(`NothingStalls`, `CommittedPublicationSent`); that links settle, that waiting for the SFU and retirements end,
and all other liveness. Liveness under fairness and `ENABLED` are beyond the prover's reach, and so are
the library's induction theorems, which take an operator: the few facts above that need an
induction are proved of the least number at which they would fail.

## 6. Not modelled

* Of the route controller: quality convergence and topology optimisation
  (`quality.go`, `root_convergence.go`), NAT-prediction attempts and adopted
  direct connections, relay volunteers, room media, viewer preferences and the
  policies `sfuOnly` and `peerOnly`. All are off in the configuration modelled
  (`RouteGraph` names it), and that configuration already needs minutes of TLC.
* Of the pump: the messages it sends and their order; of retirement:
  renegotiation of an established connection, ICE, media flow, voice tasks.
* Of rooms and sessions: the order of eviction, outgoing queues, heartbeats,
  display names, forwarded interaction messages, the database's schema.
* Of the client: what the pages show, statistics, tracks and codecs, several children of
  one parent, prepared candidates of peer links before their commit
  (`ViewerRoute` has the viewer's side), and room voice beyond the microphone (edges, negotiation, volumes).
  The edges of voice are peer connections renegotiated by both ends; their
  convergence would be a property of the browsers' SDP and ICE machines.
* Of remote input: the hops of its relay and what section 2 lists; the platform's
  sinks.
* The parts are composed where they share state (ledger with pump and with
  retirement, store with sessions, page with server in each client module); one
  model of all of them is out of TLC's reach.
* Adapters, codecs, capture, packet forwarding, the tunnel and platform code:
  I/O whose behaviour is the operating system's, the browser's or pion's.

## 7. Plan

What a continuation would take first:

1. Composition: `RouteController` with `SfuPump` (its `wants` and `current`
   become the controller's), and the extension by quality convergence, on
   instances smaller than the present ones.
2. The hops of the remote-input relay (`internal/media/inputroute`): legs that are
   attached, lost and replaced while packets are under way.
3. The edges of room voice as a plan over members and routes, without their
   negotiation.
4. Proofs: `NothingStalls` of `ViewerRoute` (its invariant would have to say what a page
   owes the server in every age of a connection), and `HandoverKeepsMedia` and
   `RestingRoomServes` of the route controller.
