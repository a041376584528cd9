------------------------------ MODULE RoomVoice ------------------------------
(***************************************************************************)
(* The microphone of one viewer in room voice: RoomVoiceSession and the    *)
(* source of its BrowserVoiceEndpoint in the page, the member record and   *)
(* its publication in the server (signal/voice.go), and the two ordered    *)
(* wires of the socket between them.  The Host, whose own membership turns *)
(* voice on, and the other members are the environment: what they do       *)
(* reaches this viewer as one more room-voice-state.                       *)
(*                                                                         *)
(* A capture is asked of the user and of an AudioContext without blocking  *)
(* the page, so stops, states and losses of the socket fall into its       *)
(* waits.  Room state is reduced to what concerns this viewer.  Revisions  *)
(* are left out: one socket delivers them in order.                        *)
(***************************************************************************)
EXTENDS Integers, Sequences, FiniteSets

CONSTANTS
    MaxStarts,    \* bound: captures the user starts
    MaxSessions,  \* bound: sockets
    MaxLosses,    \* bound: sessions that break while both ends could go on
    MaxChanges    \* bound: joins, leaves and what the other members do

ASSUME RoomVoiceAssumption ==
    {MaxStarts, MaxSessions, MaxLosses, MaxChanges} \subseteq Nat

VARIABLES
    member,  \* server: the viewer's session, the one subscribed, its membership
    page,    \* page: the RoomVoiceSession and the endpoint's source
    request, \* page: state of each capture
    up,      \* messages on their way to the server, of member.sess
    down,    \* messages on their way to the page, of page.sock
    asked,   \* captures the user started and nobody has ended since
    stray,   \* a capture was attached to a publication its page had retired
    count    \* used bounds, publications named so far

vars == <<member, page, request, up, down, asked, stray, count>>
serverVars == <<member, down>>

Requests == 1..MaxStarts
NoRoom == [known |-> FALSE, enabled |-> FALSE, joined |-> FALSE, pub |-> 0]
NoSource == [pub |-> 0, req |-> 0]
Msg(k, pub) == [k |-> k, pub |-> pub]
Live(r) == request[r] \in {"resuming", "held"}

-----------------------------------------------------------------------------
(***************************************************************************)
(* Server.                                                                 *)
(***************************************************************************)

\* voiceSession: the subscribed session is the viewer's current one.
Present(m) == m.sess # 0 /\ m.sub = m.sess
\* voiceAllowed
Allowed(m) == Present(m) /\ m.enabled /\ m.joined

\* syncRoomVoice: a member without its session publishes nothing ...
Synced(m) == IF Present(m) THEN m ELSE [m EXCEPT !.pub = 0]

\* ... and whoever is present is sent the room as it is now.
Sync(m, wire) ==
    LET s == Synced(m) IN
    /\ member' = s
    /\ down' = IF Present(s)
               THEN Append(wire, [k |-> "state", enabled |-> s.enabled, joined |-> s.joined,
                                  pub |-> IF Allowed(s) THEN s.pub ELSE 0])
               ELSE wire

Answer(code) == down' = Append(down, Msg(code, 0)) /\ UNCHANGED member

\* subscribeRoomVoice
Subscribe(msg) ==
    /\ msg.k = "subscribe" /\ UNCHANGED count
    /\ Sync(IF member.sub = member.sess THEN member
            ELSE [member EXCEPT !.sub = member.sess, !.pub = 0], down)

\* handleRoomVoiceCommand: join and leave ...
Enter(msg) ==
    /\ msg.k = "join" /\ UNCHANGED count
    /\ IF member.enabled THEN Sync([member EXCEPT !.joined = TRUE], down)
       ELSE Answer("not-enabled")

Depart(msg) ==
    /\ msg.k = "leave" /\ UNCHANGED count
    /\ Sync([member EXCEPT !.joined = FALSE, !.pub = 0], down)

\* ... publish, refused to who is not in the room, and answered by the room as it is
\* to who publishes already ...
Publish(msg) ==
    /\ msg.k = "publish"
    /\ IF member.enabled /\ member.joined /\ member.pub = 0
       THEN /\ Sync([member EXCEPT !.pub = count.pubs + 1], down)
            /\ count' = [count EXCEPT !.pubs = @ + 1]
       ELSE /\ IF member.enabled /\ member.joined THEN Sync(member, down)
               ELSE Answer("not-allowed")
            /\ UNCHANGED count

\* ... and unpublish, of the current publication only.
Unpublish(msg) ==
    /\ msg.k = "unpublish" /\ UNCHANGED count
    /\ Sync(IF msg.pub = member.pub THEN [member EXCEPT !.pub = 0] ELSE member, down)

HandleCommand ==
    /\ up # <<>> /\ up' = Tail(up)
    /\ LET msg == Head(up) IN
       Subscribe(msg) \/ Enter(msg) \/ Depart(msg) \/ Publish(msg) \/ Unpublish(msg)
    /\ UNCHANGED <<page, request, asked, stray>>

Changed == /\ count.changes < MaxChanges
           /\ count' = [count EXCEPT !.changes = @ + 1]

\* The Host joins voice or leaves it for everybody; a new Host identity leaves too.
HostToggles ==
    /\ Changed
    /\ Sync(IF member.enabled
            THEN [member EXCEPT !.enabled = FALSE, !.joined = FALSE, !.pub = 0]
            ELSE [member EXCEPT !.enabled = TRUE], down)
    /\ UNCHANGED <<page, request, up, asked, stray>>

\* Another member, the tree or the bitrate changed.
OthersChange ==
    /\ Changed /\ Present(member) /\ Sync(member, down)
    /\ UNCHANGED <<page, request, up, asked, stray>>

\* handleDisconnect of the session that still is the viewer's current one.  The wire
\* to the page is dead with it.
ServerLoses ==
    /\ member.sess # 0
    /\ \/ page.sock # member.sess /\ UNCHANGED count
       \/ count.losses < MaxLosses /\ count' = [count EXCEPT !.losses = @ + 1]
    /\ member' = Synced([member EXCEPT !.sess = 0])
    /\ up' = <<>> /\ down' = IF page.sock = member.sess THEN <<>> ELSE down
    /\ UNCHANGED <<page, request, asked, stray>>

\* The viewer's grace ends: its member record goes with it.
GraceEnds ==
    /\ member.sess = 0 /\ (member.joined \/ member.sub # 0)
    /\ member' = [member EXCEPT !.sub = 0, !.joined = FALSE, !.pub = 0]
    /\ UNCHANGED <<page, request, up, down, asked, stray, count>>

-----------------------------------------------------------------------------
(***************************************************************************)
(* Page: what its operations make of a state [page, request, out], where   *)
(* out is what they send.                                                  *)
(***************************************************************************)

Now == [p |-> page, q |-> request, out |-> <<>>]

\* MicrophoneInput.close
Closed(q, r) ==
    [x \in Requests |-> IF x = r /\ q[x] \in {"resuming", "held"} THEN "closed" ELSE q[x]]

\* cancelCapture
Cancelled(c) == [c EXCEPT !.p = [@ EXCEPT !.capture = 0], !.q = Closed(@, c.p.capture)]

\* BrowserVoiceEndpoint.stopMicrophone
Unsourced(c) == [c EXCEPT !.p = [@ EXCEPT !.source = NoSource], !.q = Closed(@, c.p.source.req)]

Attached(c, pub, r) ==
    LET d == Unsourced(c) IN
    [d EXCEPT !.p = [@ EXCEPT !.source = [pub |-> pub, req |-> r], !.capture = 0],
              !.q = [@ EXCEPT ![r] = "held"]]

Commanded(c, msg) == [c EXCEPT !.out = Append(@, msg)]

\* Mutant: the publication is only marked as retired.
WithdrawnSilently(c) == [c EXCEPT !.p.retired = @ \cup ({c.p.room.pub} \ {0})]

\* A publication this page does not want is withdrawn, once.
Withdrawn(c) ==
    IF c.p.room.pub # 0 /\ c.p.room.pub \notin c.p.retired
    THEN Commanded([c EXCEPT !.p = [@ EXCEPT !.retired = c.p.retired \cup {c.p.room.pub}]],
                   Msg("unpublish", c.p.room.pub))
    ELSE c

\* stopMicrophone
Stopped(c) == Withdrawn(Unsourced(Cancelled(c)))

\* disconnected, with the endpoint closed.
Disconnected(c) ==
    LET d == Unsourced(Cancelled(c)) IN
    [d EXCEPT !.p = [@ EXCEPT !.publishing = 0, !.retired = {}, !.on = FALSE]]

\* Takes the new state of the page; what it sends is lost if the session is gone.
Take(c) ==
    /\ page' = c.p /\ request' = c.q
    /\ up' = IF page.sock = member.sess THEN up \o c.out ELSE up

\* setAuthority: a source without its publication stops.
Authorized(c) ==
    IF c.p.room.enabled /\ c.p.room.joined /\ c.p.room.pub = c.p.source.pub
    THEN c ELSE Unsourced(c)

\* Mutant: a publication that comes after the user stopped finds the capture.
MatchedStopped(c) ==
    LET r == c.p.publishing
        d == [c EXCEPT !.p.publishing = 0] IN
    IF c.p.room.pub = 0 \/ r = 0 THEN c
    ELSE Attached(d, d.p.room.pub, r)

\* The publication the page waited for: the capture takes it, if it is still wanted.
Matched(c) ==
    LET r == c.p.publishing
        d == [c EXCEPT !.p = [@ EXCEPT !.publishing = 0]] IN
    IF c.p.room.pub = 0 \/ r = 0 THEN c
    ELSE IF d.p.capture = r /\ d.p.room.enabled /\ d.p.room.joined
         THEN Attached(d, d.p.room.pub, r) ELSE d

\* Mutant: a publication without a microphone is left to the next start.
UnwantedKept(c) == c

\* A cancelled or former page's publication is withdrawn.
Unwanted(c) ==
    IF c.p.source = NoSource /\ c.p.publishing = 0 THEN Withdrawn(c) ELSE c

Evicted(c) == LET d == Cancelled(c) IN [d EXCEPT !.p = [@ EXCEPT !.publishing = 0]]

\* receive of a room-voice-state.
StateReceived(c, m) ==
    LET in == m.enabled /\ m.joined
        a == IF in THEN c ELSE Evicted(c)
        b == [a EXCEPT !.p = [@ EXCEPT !.room = [known |-> TRUE, enabled |-> m.enabled,
                                                 joined |-> m.joined, pub |-> m.pub]]]
        d == Unwanted(Matched(Authorized(b)))
    IN  [d EXCEPT !.p = [@ EXCEPT !.retired = d.p.retired \cap {m.pub}]]

-----------------------------------------------------------------------------
(***************************************************************************)
(* Page: actions.                                                          *)
(***************************************************************************)

\* A new socket is authenticated; the server replaces the session it had.
Connect ==
    /\ page.sock = 0 /\ count.sessions < MaxSessions
    /\ count' = [count EXCEPT !.sessions = @ + 1]
    /\ page' = [page EXCEPT !.sock = count.sessions + 1]
    /\ member' = [member EXCEPT !.sess = count.sessions + 1]
    /\ up' = <<>> /\ down' = <<Msg("authenticated", 0)>>
    /\ UNCHANGED <<request, asked, stray>>

\* The close event of the socket, or its replacement by the watchdog.
PageLoses ==
    /\ page.sock # 0
    /\ \/ page.sock # member.sess /\ UNCHANGED count
       \/ count.losses < MaxLosses /\ count' = [count EXCEPT !.losses = @ + 1]
    /\ LET c == Disconnected(Now) IN
       page' = [c.p EXCEPT !.sock = 0] /\ request' = c.q
    /\ down' = <<>> /\ asked' = {}
    /\ UNCHANGED <<member, up, stray>>

\* authenticated: voice starts over on the new socket and is subscribed to again.
Restarted(m) ==
    /\ m.k = "authenticated"
    /\ LET c == Disconnected(Now) IN
       Take([c EXCEPT !.p = [@ EXCEPT !.on = TRUE, !.room = NoRoom],
                      !.out = <<Msg("subscribe", 0)>>])
    /\ asked' = {} /\ UNCHANGED stray

StateArrived(m) ==
    /\ m.k = "state" /\ page.on
    /\ LET c == StateReceived(Now, m) IN
       /\ Take(c)
       /\ stray' = (stray \/ (c.p.source # page.source /\ c.p.source.pub \in page.retired))
    /\ asked' = IF m.enabled /\ m.joined THEN asked ELSE {}

\* room-voice-error not-allowed ends the capture that asked.
Refused(m) ==
    /\ m.k = "not-allowed" /\ page.on
    /\ Take(Evicted(Now)) /\ asked' = asked \ {page.capture} /\ UNCHANGED stray

\* Other errors are shown, and before authentication voice takes no part.
Ignored(m) ==
    /\ m.k = "not-enabled" \/ (m.k # "authenticated" /\ ~page.on)
    /\ UNCHANGED <<page, request, up, asked, stray>>

Receive ==
    /\ page.sock # 0 /\ down # <<>> /\ down' = Tail(down)
    /\ LET m == Head(down) IN Restarted(m) \/ StateArrived(m) \/ Refused(m) \/ Ignored(m)
    /\ UNCHANGED <<member, count>>

Join ==
    /\ page.on /\ page.room.known /\ page.room.enabled /\ ~page.room.joined
    /\ Changed /\ Take(Commanded(Now, Msg("join", 0)))
    /\ UNCHANGED <<serverVars, asked, stray>>

Leave ==
    /\ page.on /\ page.room.joined
    /\ Changed /\ Take(Commanded(Stopped(Now), Msg("leave", 0)))
    /\ asked' = {}
    /\ UNCHANGED <<serverVars, stray>>

\* startMicrophone, also to change the device of a running one.
StartMicrophone ==
    /\ page.on /\ page.room.enabled /\ page.room.joined
    /\ page.capture = 0 /\ page.publishing = 0
    /\ count.starts < MaxStarts
    /\ LET r == count.starts + 1 IN
       /\ page' = [page EXCEPT !.capture = r]
       /\ request' = [request EXCEPT ![r] = "asking"]
       /\ asked' = asked \cup {r}
       /\ count' = [count EXCEPT !.starts = r]
    /\ UNCHANGED <<serverVars, up, stray>>

\* The user stops, or the device of the source or of the capture ends.
StopMicrophone ==
    /\ page.on /\ (page.capture # 0 \/ page.source # NoSource)
    /\ Take(Stopped(Now))
    /\ asked' = {}
    /\ UNCHANGED <<serverVars, stray, count>>

\* getUserMedia answers: a capture given up meanwhile stops its stream at once.
Opened(r) == IF page.capture = r THEN "resuming" ELSE "closed"

GetUserMedia(r) ==
    /\ request[r] = "asking"
    /\ request' = [request EXCEPT ![r] = Opened(r)]
    /\ UNCHANGED <<serverVars, page, up, asked, stray, count>>

\* Refused, without a track, or with an AudioContext that cannot start.
CaptureFails(r) ==
    /\ request[r] \in {"asking", "resuming"}
    /\ LET c == IF page.capture = r THEN Evicted(Now) ELSE Now IN
       /\ page' = c.p
       /\ request' = [c.q EXCEPT ![r] = "closed"]
    /\ asked' = asked \ {r}
    /\ UNCHANGED <<serverVars, up, stray, count>>

\* The AudioContext runs: a running microphone changes its device, any other capture
\* asks for a publication.
Resumed(r) ==
    /\ request[r] = "resuming" /\ page.capture = r
    /\ IF page.source # NoSource /\ page.room.pub # 0
       THEN Take(Attached(Now, page.room.pub, r))
       ELSE Take(Commanded([Now EXCEPT !.p = [@ EXCEPT !.publishing = r],
                                       !.q = [@ EXCEPT ![r] = "held"]], Msg("publish", 0)))
    /\ UNCHANGED <<serverVars, asked, stray, count>>

Init ==
    /\ member = [sess |-> 0, sub |-> 0, joined |-> FALSE, enabled |-> FALSE, pub |-> 0]
    /\ page = [sock |-> 0, on |-> FALSE, room |-> NoRoom, capture |-> 0, publishing |-> 0,
               source |-> NoSource, retired |-> {}]
    /\ request = [r \in Requests |-> "idle"]
    /\ up = <<>> /\ down = <<>> /\ asked = {} /\ stray = FALSE
    /\ count = [starts |-> 0, sessions |-> 0, losses |-> 0, changes |-> 0, pubs |-> 0]

Next ==
    \/ HandleCommand \/ HostToggles \/ OthersChange \/ ServerLoses \/ GraceEnds
    \/ Connect \/ PageLoses \/ Receive \/ Join \/ Leave \/ StartMicrophone \/ StopMicrophone
    \/ \E r \in Requests : GetUserMedia(r) \/ CaptureFails(r) \/ Resumed(r)

\* The socket delivers or both ends notice that it does not; an AudioContext answers.
\* Nobody has to answer the permission prompt.
Fairness ==
    /\ WF_vars(HandleCommand) /\ WF_vars(Receive)
    /\ WF_vars(page.sock # member.sess /\ ServerLoses)
    /\ WF_vars(page.sock # member.sess /\ PageLoses)
    /\ \A r \in Requests : WF_vars(Resumed(r))

Spec == Init /\ [][Next]_vars /\ Fairness

-----------------------------------------------------------------------------
TypeOK ==
    /\ member \in [sess : 0..MaxSessions, sub : 0..MaxSessions, joined : BOOLEAN,
                   enabled : BOOLEAN, pub : 0..count.pubs]
    /\ page.capture \in Requests \cup {0} /\ page.publishing \in Requests \cup {0}
    /\ page.room \in [known : BOOLEAN, enabled : BOOLEAN, joined : BOOLEAN, pub : 0..count.pubs]
    /\ request \in [Requests -> {"idle", "asking", "resuming", "held", "closed"}]
    /\ asked \subseteq Requests

\* A device is open only for a capture or for the source: nothing else could close it.
NoStrayDevice == \A r \in Requests : Live(r) => r \in {page.capture, page.source.req}

\* A device is open only while the user wants it: no stop, leave, loss of the socket or
\* withdrawal of the room has come since it was started.
OnlyAsked == \A r \in Requests : Live(r) => r \in asked

(* Privacy of the microphone: each open device has an owner that closes it *)
(* and a start nobody ended, whatever answer comes after a stop; and it    *)
(* feeds a publication of the room as last seen (cancelCapture, receive,   *)
(* setAuthority).                                                          *)
MicrophoneSafety ==
    /\ NoStrayDevice /\ OnlyAsked
    /\ page.source # NoSource => page.on /\ page.source.pub = page.room.pub

Resting ==
    /\ page.on /\ page.sock = member.sess /\ up = <<>> /\ down = <<>>
    /\ page.capture = 0 /\ page.publishing = 0

(* When nothing is under way, the room shows the microphone as published   *)
(* exactly if it is open, under the publication the page feeds, and every  *)
(* start that nobody ended has its microphone open.  One race loses a      *)
(* start: a state sent before the server handled an unpublish gives the    *)
(* next capture the publication that is about to end (receive).            *)
RoomTellsTruth ==
    /\ TypeOK
    /\ Resting => /\ page.room.known => page.room.joined = member.joined
                  /\ page.source.pub = member.pub
                  /\ asked # {} /\ ~stray => page.source # NoSource

(* A capture that asked for its publication gets an answer or is given up, *)
(* and a publication nobody feeds is withdrawn (unpublish, disconnect).    *)
VoiceSettles ==
    /\ page.publishing # 0 ~> page.publishing = 0
    /\ (member.pub # 0 /\ page.source = NoSource /\ page.capture = 0)
         ~> (member.pub = 0 \/ page.source # NoSource \/ page.capture # 0)
=============================================================================
