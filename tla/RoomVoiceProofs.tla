---------------------------- MODULE RoomVoiceProofs ----------------------------
(***************************************************************************)
(* Proofs that no device stays open behind the user and that a room at     *)
(* rest tells the truth about the microphone, for every number of          *)
(* captures, sockets, losses and changes of the room.                      *)
(***************************************************************************)
EXTENDS RoomVoice, TLAPS

Phases == {"idle", "asking", "resuming", "held", "closed"}

(* What the operations of the page work on, field by field: nothing is     *)
(* assumed of the publications that the server names.                      *)
Whole(c) == c = [x \in {"p", "q", "out"} |-> c[x]]
WholePage(p) ==
    p = [x \in {"sock", "on", "room", "capture", "publishing", "source", "retired"} |-> p[x]]

Shape(c) ==
    /\ Whole(c) /\ WholePage(c.p)
    /\ c.p.capture \in Requests \cup {0}
    /\ c.p.publishing \in Requests \cup {0}
    /\ c.p.source.req \in Requests \cup {0}
    /\ c.q \in [Requests -> Phases]

Open(q, r) == q[r] \in {"resuming", "held"}

(* Every open device is the capture's or the source's, and wanted; so is   *)
(* the capture that has none yet.                                          *)
Owned(c, wanted) ==
    /\ \A r \in Requests : Open(c.q, r) => r \in {c.p.capture, c.p.source.req} /\ r \in wanted
    /\ c.p.capture # 0 => c.p.capture \in wanted

Fed(c) == c.p.source # NoSource => c.p.on /\ c.p.source.pub = c.p.room.pub

(* Giving up a capture closes its device, now or when it opens.            *)
LEMMA CancelledIs ==
  ASSUME NEW c, NEW w, Shape(c), Owned(c, w)
  PROVE  LET d == Cancelled(c) IN
         /\ Shape(d) /\ Owned(d, w) /\ d.p.capture = 0
         /\ d.p.source = c.p.source /\ d.p.room = c.p.room /\ d.p.on = c.p.on
         /\ d.p.publishing = c.p.publishing
         /\ \A r \in Requests : Open(d.q, r) => r # c.p.capture
<1> DEFINE d == Cancelled(c)
<1>1. /\ d.p = [c.p EXCEPT !.capture = 0] /\ d.q = Closed(c.q, c.p.capture) /\ d.out = c.out
      /\ Whole(d)
  BY DEF Cancelled, Shape, Whole
<1>2. d.q \in [Requests -> Phases]
  BY <1>1 DEF Closed, Shape, Phases
<1>3. \A r \in Requests : Open(d.q, r) => Open(c.q, r) /\ r # c.p.capture
  BY <1>1 DEF Closed, Open
<1> HIDE DEF d
<1>4. /\ d.p.capture = 0 /\ d.p.source = c.p.source /\ d.p.room = c.p.room /\ d.p.on = c.p.on
      /\ d.p.publishing = c.p.publishing /\ WholePage(d.p)
  BY <1>1 DEF Shape, WholePage
<1>5. Shape(d)
  BY <1>1, <1>2, <1>4 DEF Shape
<1>6. Owned(d, w)
  BY <1>3, <1>4 DEF Owned
<1> QED BY <1>3, <1>4, <1>5, <1>6 DEF d

(* So does dropping the source, whose device nobody else closes.           *)
LEMMA UnsourcedIs ==
  ASSUME NEW c, NEW w, Shape(c), Owned(c, w)
  PROVE  LET d == Unsourced(c) IN
         /\ Shape(d) /\ Owned(d, w) /\ d.p.source = NoSource
         /\ d.p.capture = c.p.capture /\ d.p.room = c.p.room /\ d.p.on = c.p.on
         /\ d.p.publishing = c.p.publishing
         /\ \A r \in Requests : Open(d.q, r) => r = c.p.capture
<1> DEFINE d == Unsourced(c)
<1>1. /\ d.p = [c.p EXCEPT !.source = NoSource] /\ d.q = Closed(c.q, c.p.source.req)
      /\ d.out = c.out /\ Whole(d)
  BY DEF Unsourced, Shape, Whole
<1>2. d.q \in [Requests -> Phases]
  BY <1>1 DEF Closed, Shape, Phases
<1>3. \A r \in Requests : Open(d.q, r) => Open(c.q, r) /\ r # c.p.source.req
  BY <1>1 DEF Closed, Open
<1> HIDE DEF d
<1>4. /\ d.p.source = NoSource /\ d.p.capture = c.p.capture /\ d.p.room = c.p.room
      /\ d.p.on = c.p.on /\ d.p.publishing = c.p.publishing /\ WholePage(d.p)
  BY <1>1 DEF Shape, WholePage
<1>5. NoSource.req = 0
  BY DEF NoSource
<1>6. Shape(d)
  BY <1>1, <1>2, <1>4, <1>5 DEF Shape
<1>7. Owned(d, w) /\ \A r \in Requests : Open(d.q, r) => r = c.p.capture
  BY <1>3, <1>4 DEF Owned
<1> QED BY <1>4, <1>6, <1>7 DEF d

(* The capture that becomes the source takes the place of the old one.     *)
LEMMA AttachedIs ==
  ASSUME NEW c, NEW w, NEW pub, NEW r \in Requests, Shape(c), Owned(c, w), c.p.capture = r
  PROVE  LET d == Attached(c, pub, r) IN
         /\ Shape(d) /\ Owned(d, w) /\ d.p.source = [pub |-> pub, req |-> r]
         /\ d.p.capture = 0 /\ d.p.room = c.p.room /\ d.p.on = c.p.on
         /\ d.p.publishing = c.p.publishing
<1> DEFINE e == Unsourced(c)
           d == Attached(c, pub, r)
<1>1. /\ Shape(e) /\ Owned(e, w) /\ e.p.source = NoSource
      /\ e.p.capture = r /\ e.p.room = c.p.room /\ e.p.on = c.p.on
      /\ e.p.publishing = c.p.publishing
      /\ \A x \in Requests : Open(e.q, x) => x = r
  BY UnsourcedIs
<1>2. d = [e EXCEPT !.p = [e.p EXCEPT !.source = [pub |-> pub, req |-> r], !.capture = 0],
                    !.q = [e.q EXCEPT ![r] = "held"]]
  BY DEF Attached
<1> HIDE DEF d, e
<1>3. /\ d.p = [e.p EXCEPT !.source = [pub |-> pub, req |-> r], !.capture = 0]
      /\ d.q = [e.q EXCEPT ![r] = "held"] /\ d.out = e.out /\ Whole(d)
  BY <1>1, <1>2 DEF Shape, Whole
<1>4. /\ d.p.source = [pub |-> pub, req |-> r] /\ d.p.capture = 0
      /\ d.p.room = e.p.room /\ d.p.on = e.p.on /\ d.p.publishing = e.p.publishing /\ WholePage(d.p)
  BY <1>1, <1>3 DEF Shape, WholePage
<1>5. d.q \in [Requests -> Phases] /\ \A x \in Requests : Open(d.q, x) => x = r
  BY <1>1, <1>3 DEF Shape, Phases, Open
<1>6. Shape(d)
  BY <1>1, <1>3, <1>4, <1>5 DEF Shape
<1>7. r \in w
  BY DEF Owned, Requests
<1>8. Owned(d, w)
  BY <1>4, <1>5, <1>7 DEF Owned
<1> QED BY <1>1, <1>4, <1>6, <1>8 DEF d

(* Withdrawing a publication is a message, and remembered.                 *)
LEMMA WithdrawnIs ==
  ASSUME NEW c, NEW w, Shape(c), Owned(c, w)
  PROVE  LET d == Withdrawn(c) IN
         /\ Shape(d) /\ Owned(d, w) /\ d.q = c.q
         /\ d.p.source = c.p.source /\ d.p.capture = c.p.capture /\ d.p.room = c.p.room
         /\ d.p.on = c.p.on /\ d.p.publishing = c.p.publishing
<1> DEFINE d == Withdrawn(c)
<1>1. \/ d = c
      \/ /\ d.p = [c.p EXCEPT !.retired = c.p.retired \cup {c.p.room.pub}] /\ d.q = c.q /\ Whole(d)
  <2>1. CASE d = c
    BY <2>1
  <2>2. CASE d # c
    <3> DEFINE e == [c EXCEPT !.p = [@ EXCEPT !.retired = c.p.retired \cup {c.p.room.pub}]]
    <3>1. d = Commanded(e, Msg("unpublish", c.p.room.pub))
      BY <2>2, Zenon DEF Withdrawn
    <3>2. e.p = [c.p EXCEPT !.retired = c.p.retired \cup {c.p.room.pub}] /\ e.q = c.q /\ Whole(e)
      BY DEF Shape, Whole
    <3> HIDE DEF d, e
    <3> QED BY <3>1, <3>2 DEF Commanded, Whole
  <2> QED BY <2>1, <2>2
<1> HIDE DEF d
<1>2. /\ d.q = c.q /\ Whole(d) /\ WholePage(d.p)
      /\ d.p.source = c.p.source /\ d.p.capture = c.p.capture /\ d.p.room = c.p.room
      /\ d.p.on = c.p.on /\ d.p.publishing = c.p.publishing
  BY <1>1 DEF Shape, WholePage
<1>3. Shape(d)
  BY <1>2 DEF Shape
<1>4. Owned(d, w)
  BY <1>2 DEF Owned
<1> QED BY <1>2, <1>3, <1>4 DEF d

(* What waited for a publication is given up with its capture.             *)
LEMMA EvictedIs ==
  ASSUME NEW c, NEW w, Shape(c), Owned(c, w)
  PROVE  LET d == Evicted(c) IN
         /\ Shape(d) /\ Owned(d, w \ {c.p.capture}) /\ Owned(d, w)
         /\ d.p.capture = 0 /\ d.p.publishing = 0
         /\ d.p.source = c.p.source /\ d.p.room = c.p.room /\ d.p.on = c.p.on
<1> DEFINE e == Cancelled(c)
           d == Evicted(c)
<1>1. /\ Shape(e) /\ Owned(e, w) /\ e.p.capture = 0
      /\ e.p.source = c.p.source /\ e.p.room = c.p.room /\ e.p.on = c.p.on
      /\ \A r \in Requests : Open(e.q, r) => r # c.p.capture
  BY CancelledIs
<1>2. d = [e EXCEPT !.p = [e.p EXCEPT !.publishing = 0]]
  BY DEF Evicted
<1> HIDE DEF d, e
<1>3. d.p = [e.p EXCEPT !.publishing = 0] /\ d.q = e.q /\ Whole(d)
  BY <1>1, <1>2 DEF Shape, Whole
<1>4. /\ WholePage(d.p) /\ d.p.capture = 0 /\ d.p.publishing = 0
      /\ d.p.source = e.p.source /\ d.p.room = e.p.room /\ d.p.on = e.p.on
  BY <1>1, <1>3 DEF Shape, WholePage
<1>5. Shape(d) /\ Owned(d, w \ {c.p.capture}) /\ Owned(d, w)
  BY <1>1, <1>3, <1>4 DEF Shape, Owned
<1> QED BY <1>1, <1>4, <1>5 DEF d

(* A page with neither a capture nor a source has no device open.          *)
LEMMA IdleOwns ==
  ASSUME NEW c, NEW w, NEW v, Shape(c), Owned(c, w), c.p.capture = 0, c.p.source = NoSource
  PROVE  Owned(c, v) /\ Fed(c)
BY DEF Owned, NoSource, Requests, Fed

(* Stopping leaves nothing open.                                           *)
LEMMA StoppedIs ==
  ASSUME NEW c, NEW w, Shape(c), Owned(c, w)
  PROVE  LET d == Stopped(c) IN Shape(d) /\ Owned(d, {}) /\ Fed(d)
<1> DEFINE a == Cancelled(c)
           b == Unsourced(a)
           d == Withdrawn(b)
<1>1. Shape(a) /\ Owned(a, w) /\ a.p.capture = 0
  BY CancelledIs
<1>2. Shape(b) /\ Owned(b, w) /\ b.p.capture = 0 /\ b.p.source = NoSource
  <2> HIDE DEF a
  <2> QED BY <1>1, UnsourcedIs
<1>3. Shape(d) /\ Owned(d, w) /\ d.p.capture = 0 /\ d.p.source = NoSource
  <2> HIDE DEF b
  <2> QED BY <1>2, WithdrawnIs
<1>4. d = Stopped(c)
  BY DEF Stopped
<1> HIDE DEF d
<1> QED BY <1>3, <1>4, IdleOwns

(* Neither does the loss of the session.                                   *)
LEMMA DisconnectedIs ==
  ASSUME NEW c, NEW w, Shape(c), Owned(c, w)
  PROVE  LET d == Disconnected(c) IN
         Shape(d) /\ Owned(d, {}) /\ d.p.capture = 0 /\ d.p.source = NoSource
<1> DEFINE a == Cancelled(c)
           b == Unsourced(a)
           d == Disconnected(c)
<1>1. Shape(a) /\ Owned(a, w) /\ a.p.capture = 0
  BY CancelledIs
<1>2. Shape(b) /\ Owned(b, w) /\ b.p.capture = 0 /\ b.p.source = NoSource
  <2> HIDE DEF a
  <2> QED BY <1>1, UnsourcedIs
<1>3. d = [b EXCEPT !.p = [b.p EXCEPT !.publishing = 0, !.retired = {}, !.on = FALSE]]
  BY DEF Disconnected
<1> HIDE DEF b, d
<1>4. d.p = [b.p EXCEPT !.publishing = 0, !.retired = {}, !.on = FALSE] /\ d.q = b.q /\ Whole(d)
  BY <1>2, <1>3 DEF Shape, Whole
<1>5. /\ WholePage(d.p) /\ d.p.capture = 0 /\ d.p.publishing = 0 /\ d.p.source = NoSource
  BY <1>2, <1>4 DEF Shape, WholePage
<1>6. Shape(d) /\ Owned(d, w)
  BY <1>2, <1>4, <1>5 DEF Shape, Owned
<1>7. Owned(d, {})
  BY <1>5, <1>6, IdleOwns
<1> QED BY <1>5, <1>6, <1>7 DEF d

(* setAuthority leaves a source only the publication the room shows.       *)
LEMMA AuthorizedIs ==
  ASSUME NEW c, NEW w, Shape(c), Owned(c, w), c.p.source # NoSource => c.p.on
  PROVE  LET d == Authorized(c) IN
         /\ Shape(d) /\ Owned(d, w) /\ Fed(d) /\ d.p.room = c.p.room /\ d.p.on = c.p.on
         /\ d.p.capture = c.p.capture /\ d.p.publishing = c.p.publishing
         /\ ~(c.p.room.enabled /\ c.p.room.joined) => d.p.source = NoSource
<1> DEFINE d == Authorized(c)
<1>1. CASE c.p.room.enabled /\ c.p.room.joined /\ c.p.room.pub = c.p.source.pub
  <2>1. d = c
    BY <1>1 DEF Authorized
  <2> QED BY <1>1, <2>1 DEF Fed
<1>2. CASE ~(c.p.room.enabled /\ c.p.room.joined /\ c.p.room.pub = c.p.source.pub)
  <2>1. d = Unsourced(c)
    BY <1>2 DEF Authorized
  <2> QED BY <2>1, UnsourcedIs DEF Fed
<1> QED BY <1>1, <1>2

(* A capture that waited becomes the source of the room's publication.     *)
LEMMA MatchedIs ==
  ASSUME NEW c, NEW w, Shape(c), Owned(c, w), Fed(c), c.p.on
  PROVE  LET d == Matched(c) IN
         /\ Shape(d) /\ Owned(d, w) /\ Fed(d)
         /\ c.p.publishing = 0 => d = c
<1> DEFINE r == c.p.publishing
           e == [c EXCEPT !.p = [@ EXCEPT !.publishing = 0]]
           d == Matched(c)
<1>1. CASE c.p.room.pub = 0 \/ r = 0
  BY <1>1 DEF Matched
<1>2. CASE ~(c.p.room.pub = 0 \/ r = 0)
  <2>1. e.p = [c.p EXCEPT !.publishing = 0] /\ e.q = c.q /\ Whole(e)
    BY DEF Shape, Whole
  <2>2. d = IF e.p.capture = r /\ e.p.room.enabled /\ e.p.room.joined
            THEN Attached(e, e.p.room.pub, r) ELSE e
    BY <1>2 DEF Matched
  <2>3. r \in Requests
    BY <1>2 DEF Shape
  <2> HIDE DEF e, d
  <2>4. /\ WholePage(e.p) /\ e.p.publishing = 0 /\ e.p.capture = c.p.capture
        /\ e.p.source = c.p.source /\ e.p.room = c.p.room /\ e.p.on = c.p.on
    BY <2>1 DEF Shape, WholePage
  <2>5. Shape(e) /\ Owned(e, w) /\ Fed(e)
    BY <2>1, <2>4 DEF Shape, Owned, Fed
  <2>6. CASE e.p.capture = r /\ e.p.room.enabled /\ e.p.room.joined
    <3>1. d = Attached(e, e.p.room.pub, r)
      BY <2>2, <2>6
    <3>2. /\ Shape(d) /\ Owned(d, w) /\ d.p.source = [pub |-> e.p.room.pub, req |-> r]
          /\ d.p.room = e.p.room /\ d.p.on = e.p.on
      BY <2>3, <2>5, <2>6, <3>1, AttachedIs
    <3>3. Fed(d)
      BY <2>4, <3>2 DEF Fed
    <3> QED BY <1>2, <3>2, <3>3 DEF d
  <2>7. CASE ~(e.p.capture = r /\ e.p.room.enabled /\ e.p.room.joined)
    <3>1. d = e
      BY <2>2, <2>7
    <3> QED BY <1>2, <2>5, <3>1 DEF d
  <2> QED BY <2>6, <2>7
<1> QED BY <1>1, <1>2

(* A room state keeps each device with its owner; one that puts the viewer *)
(* out of the room closes them all.                                        *)
LEMMA StateReceivedIs ==
  ASSUME NEW c, NEW w, NEW m, Shape(c), Owned(c, w), Fed(c), c.p.on
  PROVE  LET d == StateReceived(c, m) IN
         Shape(d) /\ Owned(d, IF m.enabled /\ m.joined THEN w ELSE {}) /\ Fed(d)
<1> DEFINE in == m.enabled /\ m.joined
           room == [known |-> TRUE, enabled |-> m.enabled, joined |-> m.joined, pub |-> m.pub]
           a == IF in THEN c ELSE Evicted(c)
           b == [a EXCEPT !.p = [@ EXCEPT !.room = room]]
           e == Authorized(b)
           f == Matched(e)
           g == Unwanted(f)
           d == [g EXCEPT !.p = [@ EXCEPT !.retired = g.p.retired \cap {m.pub}]]
<1>1. /\ Shape(a) /\ Owned(a, w) /\ a.p.source = c.p.source /\ a.p.on = c.p.on
      /\ ~in => a.p.capture = 0 /\ a.p.publishing = 0
  BY EvictedIs
<1> HIDE DEF a
<1>2. /\ b.p = [a.p EXCEPT !.room = room] /\ b.q = a.q /\ Whole(b)
  <2> HIDE DEF room
  <2> QED BY <1>1 DEF Shape, Whole
<1>3. room.enabled = m.enabled /\ room.joined = m.joined
  OBVIOUS
<1> HIDE DEF b, room
<1>4. /\ WholePage(b.p) /\ b.p.room = room /\ b.p.source = a.p.source /\ b.p.on = a.p.on
      /\ b.p.capture = a.p.capture /\ b.p.publishing = a.p.publishing
  BY <1>1, <1>2 DEF Shape, WholePage
<1>5. Shape(b) /\ Owned(b, w)
  BY <1>1, <1>2, <1>4 DEF Shape, Owned
<1>6. /\ Shape(e) /\ Owned(e, w) /\ Fed(e) /\ e.p.on
      /\ ~in => e.p.source = NoSource /\ e.p.capture = 0 /\ e.p.publishing = 0
  BY <1>1, <1>3, <1>4, <1>5, AuthorizedIs
<1> HIDE DEF e
<1>7. Shape(f) /\ Owned(f, w) /\ Fed(f) /\ (~in => f.p.source = NoSource /\ f.p.capture = 0)
  BY <1>6, MatchedIs
<1> HIDE DEF f
<1>8. /\ Shape(g) /\ Owned(g, w) /\ g.p.source = f.p.source /\ g.p.capture = f.p.capture
      /\ g.p.room = f.p.room /\ g.p.on = f.p.on
  BY <1>7, WithdrawnIs DEF Unwanted
<1> HIDE DEF g
<1>9. d.p = [g.p EXCEPT !.retired = g.p.retired \cap {m.pub}] /\ d.q = g.q /\ Whole(d)
  BY <1>8 DEF Shape, Whole
<1>10. d = StateReceived(c, m)
  BY Zenon DEF StateReceived, a, b, room, e, f, g
<1> HIDE DEF d
<1>11. /\ WholePage(d.p) /\ d.p.source = g.p.source /\ d.p.capture = g.p.capture
       /\ d.p.room = g.p.room /\ d.p.on = g.p.on /\ d.p.publishing = g.p.publishing
  BY <1>8, <1>9 DEF Shape, WholePage
<1>12. Shape(d) /\ Owned(d, w)
  BY <1>8, <1>9, <1>11 DEF Shape, Owned
<1>13. Fed(d)
  BY <1>7, <1>8, <1>11 DEF Fed
<1>14. ~in => Owned(d, {})
  BY <1>7, <1>8, <1>11, <1>12, IdleOwns
<1> QED BY <1>10, <1>12, <1>13, <1>14

(* The inductive invariant.                                                *)
MicInv ==
    /\ Shape(Now) /\ Owned(Now, asked) /\ Fed(Now)
    /\ count \in [starts : Nat, sessions : Nat, losses : Nat, changes : Nat, pubs : Nat]

(* At the start nothing is captured.                                       *)
LEMMA InitMic == Init => MicInv
<1> SUFFICES ASSUME Init PROVE MicInv
  OBVIOUS
<1>1. Shape(Now)
  BY DEF Init, Now, Shape, Whole, WholePage, NoSource, NoRoom, Phases
<1>2. Owned(Now, asked) /\ Fed(Now)
  BY DEF Init, Now, Owned, Open, Fed
<1> QED BY <1>1, <1>2 DEF Init, MicInv

(* A step that puts the page into the state an operation computed.         *)
LEMMA TakenMic ==
  ASSUME NEW c, page' = c.p, request' = c.q, Shape(c), Owned(c, asked'), Fed(c),
         count' \in [starts : Nat, sessions : Nat, losses : Nat, changes : Nat, pubs : Nat]
  PROVE  MicInv'
<1>1. Shape(Now)'
  BY DEF Now, Shape, Whole
<1>2. Owned(Now, asked)'
  BY DEF Now, Owned, Open
<1>3. Fed(Now)'
  BY DEF Now, Fed
<1> QED BY <1>1, <1>2, <1>3 DEF MicInv

(* What the server does, and what it is asked, leaves the devices alone.   *)
LEMMA UntouchedMic ==
  ASSUME MicInv, UNCHANGED <<page, request, asked>>,
         count' \in [starts : Nat, sessions : Nat, losses : Nat, changes : Nat, pubs : Nat]
  PROVE  MicInv'
BY DEF MicInv, Now, Shape, Whole, Owned, Open, Fed

(* Counters only grow.                                                     *)
LEMMA CountedMic ==
  ASSUME MicInv,
         \/ UNCHANGED count
         \/ Changed
         \/ count' = [count EXCEPT !.losses = @ + 1]
         \/ count' = [count EXCEPT !.sessions = @ + 1]
         \/ count' = [count EXCEPT !.pubs = @ + 1]
  PROVE  count' \in [starts : Nat, sessions : Nat, losses : Nat, changes : Nat, pubs : Nat]
BY DEF MicInv, Changed

(* The server's actions.                                                   *)
LEMMA ServerMic ==
  ASSUME MicInv, HandleCommand \/ HostToggles \/ OthersChange \/ ServerLoses \/ GraceEnds
  PROVE  MicInv'
<1>1. UNCHANGED <<page, request, asked>>
  BY DEF HandleCommand, HostToggles, OthersChange, ServerLoses, GraceEnds
<1>2. CASE HandleCommand
  <2>1. UNCHANGED count \/ count' = [count EXCEPT !.pubs = @ + 1]
    BY <1>2 DEF HandleCommand, Subscribe, Enter, Depart, Publish, Unpublish
  <2> QED BY <1>1, <2>1, CountedMic, UntouchedMic
<1>3. CASE HostToggles \/ OthersChange
  BY <1>1, <1>3, CountedMic, UntouchedMic DEF HostToggles, OthersChange
<1>4. CASE ServerLoses \/ GraceEnds
  BY <1>1, <1>4, CountedMic, UntouchedMic DEF ServerLoses, GraceEnds
<1> QED BY <1>2, <1>3, <1>4

(* A new socket changes no device.                                         *)
LEMMA ConnectMic == ASSUME MicInv, Connect PROVE MicInv'
<1> DEFINE c == [Now EXCEPT !.p = [page EXCEPT !.sock = count.sessions + 1]]
<1>1. /\ c.p = [page EXCEPT !.sock = count.sessions + 1] /\ c.q = request /\ Whole(c)
  BY DEF Now, Whole
<1>2. count' \in [starts : Nat, sessions : Nat, losses : Nat, changes : Nat, pubs : Nat]
  BY CountedMic DEF Connect
<1> HIDE DEF c
<1>3. Shape(Now) /\ Owned(Now, asked) /\ Fed(Now)
  BY DEF MicInv
<1>4. /\ WholePage(c.p) /\ c.p.capture = page.capture /\ c.p.publishing = page.publishing
      /\ c.p.source = page.source /\ c.p.on = page.on /\ c.p.room = page.room
  BY <1>1, <1>3 DEF Shape, WholePage, Now
<1>5. Shape(c) /\ Owned(c, asked) /\ Fed(c)
  BY <1>1, <1>3, <1>4 DEF Shape, Owned, Fed, Now
<1> QED BY <1>1, <1>2, <1>5, TakenMic DEF Connect

(* A lost socket closes every device ...                                   *)
LEMMA PageLosesMic == ASSUME MicInv, PageLoses PROVE MicInv'
<1> DEFINE d == Disconnected(Now)
           c == [d EXCEPT !.p = [d.p EXCEPT !.sock = 0]]
<1>1. Shape(d) /\ Owned(d, {}) /\ d.p.capture = 0 /\ d.p.source = NoSource
  BY DisconnectedIs DEF MicInv
<1>2. page' = [d.p EXCEPT !.sock = 0] /\ request' = d.q /\ asked' = {}
  BY DEF PageLoses
<1>3. count' \in [starts : Nat, sessions : Nat, losses : Nat, changes : Nat, pubs : Nat]
  BY CountedMic DEF PageLoses
<1> HIDE DEF d
<1>4. c.p = [d.p EXCEPT !.sock = 0] /\ c.q = d.q /\ Whole(c)
  BY <1>1 DEF Shape, Whole
<1> HIDE DEF c
<1>5. /\ WholePage(c.p) /\ c.p.capture = 0 /\ c.p.publishing = d.p.publishing
      /\ c.p.source = NoSource
  BY <1>1, <1>4 DEF Shape, WholePage
<1>6. Shape(c) /\ Owned(c, {})
  BY <1>1, <1>4, <1>5 DEF Shape, Owned
<1>7. Fed(c)
  BY <1>5 DEF Fed
<1> QED BY <1>2, <1>3, <1>4, <1>6, <1>7, TakenMic

(* ... and so does the authentication of the next one.                     *)
LEMMA RestartedMic == ASSUME MicInv, NEW m, Restarted(m), UNCHANGED count PROVE MicInv'
<1> DEFINE d == Disconnected(Now)
           c == [d EXCEPT !.p = [@ EXCEPT !.on = TRUE, !.room = NoRoom],
                          !.out = <<Msg("subscribe", 0)>>]
<1>1. Shape(d) /\ Owned(d, {}) /\ d.p.capture = 0 /\ d.p.source = NoSource
  BY DisconnectedIs DEF MicInv
<1>2. page' = c.p /\ request' = c.q /\ asked' = {}
  BY DEF Restarted, Take
<1> HIDE DEF d
<1>4. c.p = [d.p EXCEPT !.on = TRUE, !.room = NoRoom] /\ c.q = d.q /\ Whole(c)
  BY <1>1 DEF Shape, Whole
<1> HIDE DEF c
<1>5. /\ WholePage(c.p) /\ c.p.capture = 0 /\ c.p.publishing = d.p.publishing
      /\ c.p.source = NoSource
  BY <1>1, <1>4 DEF Shape, WholePage
<1>6. Shape(c) /\ Owned(c, {})
  BY <1>1, <1>4, <1>5 DEF Shape, Owned
<1>7. Fed(c)
  BY <1>5 DEF Fed
<1> QED BY <1>2, <1>6, <1>7, TakenMic, CountedMic

(* Room states and refusals.                                               *)
LEMMA ReceiveMic == ASSUME MicInv, Receive PROVE MicInv'
<1> DEFINE m == Head(down)
<1>1. count' \in [starts : Nat, sessions : Nat, losses : Nat, changes : Nat, pubs : Nat]
  BY CountedMic DEF Receive
<1>2. Restarted(m) \/ StateArrived(m) \/ Refused(m) \/ Ignored(m)
  BY DEF Receive
<1>3. Shape(Now) /\ Owned(Now, asked) /\ Fed(Now) /\ Now.p = page
  BY DEF MicInv, Now
<1> HIDE DEF m
<1>4. CASE Restarted(m)
  BY <1>4, RestartedMic DEF Receive
<1>5. CASE StateArrived(m)
  <2>1. /\ page' = StateReceived(Now, m).p /\ request' = StateReceived(Now, m).q
        /\ asked' = IF m.enabled /\ m.joined THEN asked ELSE {}
    BY <1>5 DEF StateArrived, Take
  <2>2. /\ Shape(StateReceived(Now, m)) /\ Owned(StateReceived(Now, m), asked')
        /\ Fed(StateReceived(Now, m))
    BY <1>3, <1>5, <2>1, StateReceivedIs DEF StateArrived
  <2> QED BY <1>1, <2>1, <2>2, TakenMic
<1>6. CASE Refused(m)
  <2>1. page' = Evicted(Now).p /\ request' = Evicted(Now).q /\ asked' = asked \ {page.capture}
    BY <1>6 DEF Refused, Take
  <2>2. /\ Shape(Evicted(Now)) /\ Owned(Evicted(Now), asked') /\ Fed(Evicted(Now))
    BY <1>3, <2>1, EvictedIs DEF Fed
  <2> QED BY <1>1, <2>1, <2>2, TakenMic
<1>7. CASE Ignored(m)
  BY <1>1, <1>7, UntouchedMic DEF Ignored
<1> QED BY <1>2, <1>4, <1>5, <1>6, <1>7

(* A command changes nothing but what is sent.                             *)
LEMMA CommandedIs ==
  ASSUME NEW c, NEW w, NEW msg, Shape(c), Owned(c, w), Fed(c)
  PROVE  LET d == Commanded(c, msg) IN
         /\ Shape(d) /\ Owned(d, w) /\ Fed(d) /\ d.p = c.p /\ d.q = c.q
<1> DEFINE d == Commanded(c, msg)
<1>1. d.p = c.p /\ d.q = c.q /\ Whole(d)
  BY DEF Commanded, Shape, Whole
<1> HIDE DEF d
<1> QED BY <1>1 DEF d, Shape, Owned, Fed

(* The user joins, leaves, and stops.                                      *)
LEMMA UserMic ==
  ASSUME MicInv, Join \/ Leave \/ StopMicrophone
  PROVE  MicInv'
<1>1. count' \in [starts : Nat, sessions : Nat, losses : Nat, changes : Nat, pubs : Nat]
  BY CountedMic DEF Join, Leave, StopMicrophone
<1>2. Shape(Now) /\ Owned(Now, asked) /\ Fed(Now)
  BY DEF MicInv
<1>3. CASE Join
  <2> DEFINE c == Commanded(Now, Msg("join", 0))
  <2>1. Shape(c) /\ Owned(c, asked) /\ Fed(c)
    BY <1>2, CommandedIs
  <2>2. page' = c.p /\ request' = c.q /\ asked' = asked
    BY <1>3 DEF Join, Take
  <2> HIDE DEF c
  <2> QED BY <1>1, <2>1, <2>2, TakenMic
<1>4. CASE Leave
  <2> DEFINE d == Stopped(Now)
             c == Commanded(d, Msg("leave", 0))
  <2>1. Shape(d) /\ Owned(d, {}) /\ Fed(d)
    BY <1>2, StoppedIs
  <2>2. page' = c.p /\ request' = c.q /\ asked' = {}
    BY <1>4 DEF Leave, Take
  <2> HIDE DEF d
  <2>3. Shape(c) /\ Owned(c, {}) /\ Fed(c)
    BY <2>1, CommandedIs
  <2> HIDE DEF c
  <2> QED BY <1>1, <2>2, <2>3, TakenMic
<1>5. CASE StopMicrophone
  <2>1. page' = Stopped(Now).p /\ request' = Stopped(Now).q /\ asked' = {}
    BY <1>5 DEF StopMicrophone, Take
  <2> QED BY <1>1, <1>2, <2>1, StoppedIs, TakenMic
<1> QED BY <1>3, <1>4, <1>5

(* A start is wanted, and has no device yet.                               *)
LEMMA StartMic == ASSUME MicInv, StartMicrophone PROVE MicInv'
<1> DEFINE r == count.starts + 1
           c == [p |-> page', q |-> request', out |-> <<>>]
<1>1. Shape(Now) /\ Owned(Now, asked) /\ Fed(Now) /\ Now.p = page /\ Now.q = request
  BY DEF MicInv, Now
<1>2. /\ r \in Requests
      /\ count' \in [starts : Nat, sessions : Nat, losses : Nat, changes : Nat, pubs : Nat]
  BY RoomVoiceAssumption DEF MicInv, StartMicrophone, Requests
<1>3. /\ page' = [page EXCEPT !.capture = r] /\ request' = [request EXCEPT ![r] = "asking"]
      /\ asked' = asked \cup {r} /\ page.capture = 0
  BY DEF StartMicrophone
<1> HIDE DEF r
<1>4. /\ WholePage(page') /\ page'.capture = r /\ page'.publishing = page.publishing
      /\ page'.source = page.source /\ page'.on = page.on /\ page'.room = page.room
  BY <1>1, <1>3 DEF Shape, WholePage
<1>5. /\ request' \in [Requests -> Phases]
      /\ \A x \in Requests : Open(request', x) => Open(request, x) /\ x # r
  BY <1>1, <1>2, <1>3 DEF Shape, Phases, Open
<1>6. Whole(c) /\ c.p = page' /\ c.q = request'
  BY DEF Whole
<1> HIDE DEF c
<1>7. Shape(c) /\ Fed(c)
  BY <1>1, <1>2, <1>4, <1>5, <1>6 DEF Shape, Fed
<1>8. \A x \in Requests : x # 0
  BY DEF Requests
<1>9. Owned(c, asked')
  BY <1>1, <1>3, <1>4, <1>5, <1>6, <1>8 DEF Owned
<1> QED BY <1>2, <1>6, <1>7, <1>9, TakenMic

(* The device opens for a capture that still is one.                       *)
LEMMA OpenedMic == ASSUME MicInv, NEW r \in Requests, GetUserMedia(r) PROVE MicInv'
<1> DEFINE c == [p |-> page', q |-> request', out |-> <<>>]
<1>1. Shape(Now) /\ Owned(Now, asked) /\ Fed(Now) /\ Now.p = page /\ Now.q = request
  BY DEF MicInv, Now
<1>2. request' = [request EXCEPT ![r] = Opened(r)] /\ UNCHANGED <<page, asked, count>>
  BY DEF GetUserMedia
<1>3. request' \in [Requests -> Phases]
  BY <1>1, <1>2 DEF Shape, Phases, Opened
<1>4. \A x \in Requests : Open(request', x) => Open(request, x) \/ (x = r /\ page.capture = r)
  BY <1>1, <1>2 DEF Shape, Open, Opened
<1>5. Whole(c) /\ c.p = page /\ c.q = request'
  BY <1>2 DEF Whole
<1> HIDE DEF c
<1>6. Shape(c) /\ Fed(c)
  BY <1>1, <1>3, <1>5 DEF Shape, Fed
<1>7. r # 0
  BY DEF Requests
<1>8. Owned(c, asked')
  BY <1>1, <1>2, <1>4, <1>5, <1>7 DEF Owned
<1> QED BY <1>2, <1>5, <1>6, <1>8, TakenMic, CountedMic

(* A capture that fails leaves no device.                                  *)
LEMMA FailedMic == ASSUME MicInv, NEW r \in Requests, CaptureFails(r) PROVE MicInv'
<1> DEFINE d == IF page.capture = r THEN Evicted(Now) ELSE Now
           c == [p |-> page', q |-> request', out |-> <<>>]
<1>1. Shape(Now) /\ Owned(Now, asked) /\ Fed(Now) /\ Now.p = page /\ Now.q = request
  BY DEF MicInv, Now
<1>2. page' = d.p /\ request' = [d.q EXCEPT ![r] = "closed"] /\ asked' = asked \ {r} /\ UNCHANGED count
  BY DEF CaptureFails
<1>3. /\ Shape(d) /\ Owned(d, asked) /\ Fed(d) /\ d.p.capture # r
  <2>1. CASE page.capture = r
    <3>1. d = Evicted(Now) /\ r # 0
      BY <2>1 DEF Requests
    <3> HIDE DEF d
    <3> QED BY <1>1, <3>1, EvictedIs DEF Fed
  <2>2. CASE page.capture # r
    BY <1>1, <2>2
  <2> QED BY <2>1, <2>2
<1> HIDE DEF d
<1>4. /\ request' \in [Requests -> Phases]
      /\ \A x \in Requests : Open(request', x) => Open(d.q, x) /\ x # r
  BY <1>2, <1>3 DEF Shape, Phases, Open
<1>5. Whole(c) /\ c.p = d.p /\ c.q = request'
  BY <1>2 DEF Whole
<1> HIDE DEF c
<1>6. Shape(c) /\ Fed(c)
  BY <1>3, <1>4, <1>5 DEF Shape, Fed
<1>7. Owned(c, asked')
  BY <1>2, <1>3, <1>4, <1>5 DEF Owned
<1> QED BY <1>2, <1>5, <1>6, <1>7, TakenMic, CountedMic

(* A capture whose device runs becomes the source, or asks to.             *)
LEMMA ResumedMic == ASSUME MicInv, NEW r \in Requests, Resumed(r) PROVE MicInv'
<1>1. Shape(Now) /\ Owned(Now, asked) /\ Fed(Now) /\ Now.p = page /\ Now.q = request
  BY DEF MicInv, Now
<1>2. page.capture = r /\ request[r] = "resuming" /\ UNCHANGED <<asked, count>>
  BY DEF Resumed
<1>3. CASE page.source # NoSource /\ page.room.pub # 0
  <2> DEFINE c == Attached(Now, page.room.pub, r)
  <2>1. page' = c.p /\ request' = c.q
    BY <1>3 DEF Resumed, Take
  <2>2. /\ Shape(c) /\ Owned(c, asked) /\ c.p.source = [pub |-> page.room.pub, req |-> r]
        /\ c.p.room = page.room /\ c.p.on = page.on
    BY <1>1, <1>2, AttachedIs
  <2> HIDE DEF c
  <2>3. Fed(c)
    BY <1>1, <1>3, <2>2 DEF Fed
  <2> QED BY <1>2, <2>1, <2>2, <2>3, TakenMic, CountedMic
<1>4. CASE ~(page.source # NoSource /\ page.room.pub # 0)
  <2> DEFINE d == [Now EXCEPT !.p = [@ EXCEPT !.publishing = r], !.q = [@ EXCEPT ![r] = "held"]]
             c == Commanded(d, Msg("publish", 0))
  <2>1. page' = c.p /\ request' = c.q
    BY <1>4 DEF Resumed, Take
  <2>2. /\ d.p = [page EXCEPT !.publishing = r] /\ d.q = [request EXCEPT ![r] = "held"] /\ Whole(d)
    BY DEF Now, Whole
  <2> HIDE DEF d
  <2>3. /\ WholePage(d.p) /\ d.p.capture = r /\ d.p.publishing = r
        /\ d.p.source = page.source /\ d.p.on = page.on /\ d.p.room = page.room
    BY <1>1, <1>2, <2>2 DEF Shape, WholePage
  <2>4. /\ d.q \in [Requests -> Phases]
        /\ \A x \in Requests : Open(d.q, x) => Open(request, x)
    BY <1>1, <1>2, <2>2 DEF Shape, Phases, Open
  <2>5. Shape(d) /\ Owned(d, asked) /\ Fed(d)
    BY <1>1, <1>2, <2>2, <2>3, <2>4 DEF Shape, Owned, Fed
  <2>6. Shape(c) /\ Owned(c, asked) /\ Fed(c)
    BY <2>5, CommandedIs
  <2> HIDE DEF c
  <2> QED BY <1>2, <2>1, <2>6, TakenMic, CountedMic
<1> QED BY <1>3, <1>4

(* Every step keeps the devices with their owners.                         *)
LEMMA StepMic == ASSUME MicInv, [Next]_vars PROVE MicInv'
<1>1. CASE UNCHANGED vars
  BY <1>1, UntouchedMic DEF vars, MicInv
<1>2. CASE HandleCommand \/ HostToggles \/ OthersChange \/ ServerLoses \/ GraceEnds
  BY <1>2, ServerMic
<1>3. CASE Connect
  BY <1>3, ConnectMic
<1>4. CASE PageLoses
  BY <1>4, PageLosesMic
<1>5. CASE Receive
  BY <1>5, ReceiveMic
<1>6. CASE Join \/ Leave \/ StopMicrophone
  BY <1>6, UserMic
<1>7. CASE StartMicrophone
  BY <1>7, StartMic
<1>8. ASSUME NEW r \in Requests, GetUserMedia(r) \/ CaptureFails(r) \/ Resumed(r)
      PROVE  MicInv'
  BY <1>8, OpenedMic, FailedMic, ResumedMic
<1> QED BY <1>1, <1>2, <1>3, <1>4, <1>5, <1>6, <1>7, <1>8 DEF Next

(* Whatever the user, the room and the socket do and in whatever order     *)
(* their answers come (cancelCapture, receive, stopMicrophone), an open    *)
(* device is the capture's or the source's, still wanted, and feeds the    *)
(* publication that the page last saw.                                     *)
THEOREM MicrophonePrivate == Spec => []MicrophoneSafety
<1>1. MicInv => MicrophoneSafety
  BY DEF MicInv, MicrophoneSafety, NoStrayDevice, OnlyAsked, Live, Owned, Open, Fed, Now
<1>2. Spec => []MicInv
  BY InitMic, StepMic, PTL DEF Spec
<1> QED BY <1>1, <1>2, PTL

-----------------------------------------------------------------------------
(* The messages between the page and the server.                           *)
Commands == [k : {"subscribe", "join", "leave", "publish", "unpublish"}, pub : Nat]
States == [k : {"state"}, enabled : BOOLEAN, joined : BOOLEAN, pub : Nat]
Notes == States \cup [k : {"authenticated", "not-enabled", "not-allowed"}, pub : {0}]

Typed ==
    /\ TypeOK
    /\ count.sessions <= MaxSessions
    /\ member.sess <= count.sessions /\ member.sub <= count.sessions
    /\ page.sock \in 0..count.sessions /\ page.on \in BOOLEAN /\ stray \in BOOLEAN
    /\ page.on => page.sock # 0
    /\ member.pub # 0 => member.enabled /\ member.joined
    /\ up \in Seq(Commands) /\ down \in Seq(Notes)
    /\ \A i \in DOMAIN up : up[i].pub <= count.pubs /\ (up[i].k = "unpublish" => up[i].pub # 0)
    /\ \A i \in DOMAIN down : down[i].pub <= count.pubs

(* What the page p keeps of the publications: of those it does not feed    *)
(* any more it remembers at most the room's, and only a stray attachment   *)
(* feeds one of them or leaves a wanted capture without its device.  Only   *)
(* a page in use captures.                                                 *)
Kept(p, s, w) ==
    /\ p.capture # 0 => p.on
    /\ p.retired \subseteq {p.room.pub} \ {0}
    /\ p.on /\ p.source = NoSource /\ p.room.pub # 0 => p.room.pub \in p.retired
    /\ p.source # NoSource => p.source.pub # 0
    /\ ~s /\ p.source # NoSource => p.source.pub \notin p.retired
    /\ ~s /\ p.source = NoSource => w \subseteq {p.capture}

(* The rooms of a page: the one it shows, at 0, and those on their way.    *)
At(room, wire, i) == IF i = 0 THEN room ELSE wire[i]
Shown(wire, i) == i = 0 \/ wire[i].k = "state"
Agrees(x, m) == x.enabled = m.enabled /\ x.joined = m.joined /\ x.pub = m.pub

\* The last of them is the server's.
Caught(room, wire, m) ==
    \E i \in 0..Len(wire) :
        /\ Shown(wire, i) /\ Agrees(At(room, wire, i), m) /\ (i = 0 => room.known)
        /\ \A j \in i + 1..Len(wire) : ~Shown(wire, j)

\* A publication the page has not withdrawn is in all that follow, unless the viewer
\* was out of the room in between.
Lasting(room, retired, wire) ==
    \A i, k \in 0..Len(wire) :
        /\ i < k /\ Shown(wire, i) /\ Shown(wire, k)
        /\ At(room, wire, i).pub # 0 /\ At(room, wire, i).pub \notin retired
        => \/ At(room, wire, k).pub = At(room, wire, i).pub
           \/ \E j \in i + 1..k : /\ Shown(wire, j)
                                  /\ ~(At(room, wire, j).enabled /\ At(room, wire, j).joined)

\* One that is gone does not come back.
Over(room, wire, m) ==
    \A i, k \in 0..Len(wire) :
        /\ i < k /\ Shown(wire, i) /\ Shown(wire, k)
        /\ At(room, wire, i).pub # 0 /\ At(room, wire, k).pub # At(room, wire, i).pub
        => /\ m.pub # At(room, wire, i).pub
           /\ \A j \in k + 1..Len(wire) :
                  Shown(wire, j) => At(room, wire, j).pub # At(room, wire, i).pub

Heard(room, retired, wire, m) ==
    Caught(room, wire, m) /\ Lasting(room, retired, wire) /\ Over(room, wire, m)

(* The withdrawals on their way are those the page remembers, as long as   *)
(* they matter.                                                            *)
Sent(wire, retired, m) ==
    /\ \A i \in DOMAIN wire :
           wire[i].k = "unpublish" => wire[i].pub \in retired \/ wire[i].pub # m.pub
    /\ \A q \in retired : q = m.pub => \E i \in DOMAIN wire : wire[i] = Msg("unpublish", q)

(* The four ages of a socket: lost by the server, not greeted yet, not     *)
(* subscribed yet, and in use.                                             *)
Dropped == member.sess = 0 /\ up = <<>> /\ down = <<>>
Greeted ==
    /\ member.sess = page.sock /\ member.sub # member.sess /\ ~page.on
    /\ up = <<>> /\ down = <<Msg("authenticated", 0)>>
Subscribing ==
    /\ member.sess = page.sock /\ member.sub # member.sess /\ page.on
    /\ up = <<Msg("subscribe", 0)>> /\ down = <<>>
    /\ page.room = NoRoom /\ page.capture = 0 /\ page.source = NoSource
Attending ==
    /\ member.sess = page.sock /\ member.sub = page.sock /\ page.on
    /\ \A i \in DOMAIN down : down[i].k # "authenticated"
    /\ Heard(page.room, page.retired, down, member)
    /\ Sent(up, page.retired, member)

Linking == page.sock # 0 => Dropped \/ Greeted \/ Subscribing \/ Attending

TruthInv == Typed /\ Kept(page, stray, asked) /\ Linking

Rooms == [known : BOOLEAN, enabled : BOOLEAN, joined : BOOLEAN, pub : Nat]

(* What the server sends of the member as it is now.                       *)
View(m) == [k |-> "state", enabled |-> m.enabled, joined |-> m.joined, pub |-> m.pub]

(* How a message at the end of the wire, or taken from its front, moves    *)
(* the rooms on it.                                                        *)
LEMMA AppendedAt ==
  ASSUME NEW room, NEW wire \in Seq(Notes), NEW note \in Notes
  PROVE  LET long == Append(wire, note)
             n == Len(wire) IN
         /\ long \in Seq(Notes) /\ Len(long) = n + 1 /\ n \in Nat
         /\ \A i \in 0..n : /\ At(room, long, i) = At(room, wire, i)
                            /\ Shown(long, i) <=> Shown(wire, i)
         /\ At(room, long, n + 1) = note /\ (Shown(long, n + 1) <=> note.k = "state")
BY DEF At, Shown

Follows(room, wire, next) ==
    IF wire[1].k = "state"
    THEN /\ next.enabled = wire[1].enabled /\ next.joined = wire[1].joined
         /\ next.pub = wire[1].pub /\ next.known
    ELSE next = room

LEMMA TakenAt ==
  ASSUME NEW room, NEW next, NEW wire \in Seq(Notes), wire # <<>>,
         Follows(room, wire, next)
  PROVE  LET rest == Tail(wire)
             n == Len(wire) IN
         /\ rest \in Seq(Notes) /\ Len(rest) = n - 1 /\ n \in Nat /\ n >= 1
         /\ \A i \in 1..n - 1 : /\ At(next, rest, i) = At(room, wire, i + 1)
                                /\ Shown(rest, i) <=> Shown(wire, i + 1)
         /\ Shown(rest, 0) /\ At(next, rest, 0) = next
BY DEF At, Shown, Follows

(* The publication of every room on the wire is a number.                  *)
LEMMA RoomsTyped ==
  ASSUME NEW room \in Rooms, NEW wire \in Seq(Notes), NEW i \in 0..Len(wire), Shown(wire, i)
  PROVE  /\ At(room, wire, i).pub \in Nat
         /\ At(room, wire, i).enabled \in BOOLEAN /\ At(room, wire, i).joined \in BOOLEAN
<1>1. CASE i = 0
  BY <1>1 DEF At, Rooms
<1>2. CASE i # 0
  <2>1. wire[i] \in Notes /\ wire[i].k = "state"
    BY <1>2 DEF Shown
  <2>2. wire[i] \in States
    BY <2>1 DEF Notes
  <2> QED BY <1>2, <2>2 DEF At, States
<1> QED BY <1>1, <1>2

(* The server tells of a change: a publication lasts unless it was         *)
(* withdrawn or the viewer is out, and a new one has a new number.         *)
LEMMA HeardMore ==
  ASSUME NEW room \in Rooms, NEW wire \in Seq(Notes), NEW retired, NEW m, NEW new, NEW pubs \in Nat,
         Heard(room, retired, wire, m),
         \A i \in 0..Len(wire) : Shown(wire, i) => At(room, wire, i).pub <= pubs,
         m.pub \in Nat, new.enabled \in BOOLEAN, new.joined \in BOOLEAN, new.pub \in Nat,
         new.pub \in {m.pub, 0, pubs + 1},
         m.pub # 0 /\ m.pub \notin retired /\ new.enabled /\ new.joined => new.pub = m.pub
  PROVE  Heard(room, retired, Append(wire, View(new)), new)
<1> DEFINE note == View(new)
           long == Append(wire, note)
           n == Len(wire)
<1>1. note \in Notes /\ note.k = "state" /\ note.pub = new.pub
      /\ note.enabled = new.enabled /\ note.joined = new.joined
  BY DEF View, Notes, States
<1>2. /\ long \in Seq(Notes) /\ Len(long) = n + 1 /\ n \in Nat
      /\ \A i \in 0..n : /\ At(room, long, i) = At(room, wire, i)
                         /\ Shown(long, i) <=> Shown(wire, i)
      /\ At(room, long, n + 1) = note /\ Shown(long, n + 1)
  BY <1>1, AppendedAt
<1> HIDE DEF note, long
<1>3. \A i \in 0..n : Shown(wire, i) => At(room, wire, i).pub \in Nat
  BY RoomsTyped
<1>4. Caught(room, long, new)
  BY <1>1, <1>2 DEF Caught, Agrees
<1>5. PICK last \in 0..n : /\ Shown(wire, last) /\ At(room, wire, last).pub = m.pub
                           /\ \A j \in last + 1..n : ~Shown(wire, j)
  BY DEF Heard, Caught, Agrees
<1>6. Lasting(room, retired, long)
  <2> SUFFICES ASSUME NEW i \in 0..n + 1, NEW k \in 0..n + 1,
                      i < k, Shown(long, i), Shown(long, k),
                      At(room, long, i).pub # 0, At(room, long, i).pub \notin retired,
                      At(room, long, k).pub # At(room, long, i).pub
               PROVE  \E j \in i + 1..k :
                        /\ Shown(long, j)
                        /\ ~(At(room, long, j).enabled /\ At(room, long, j).joined)
    BY <1>2 DEF Lasting
  <2>1. i \in 0..n /\ At(room, wire, i) = At(room, long, i) /\ Shown(wire, i)
    BY <1>2
  <2>2. CASE k \in 0..n
    <3>1. At(room, wire, k) = At(room, long, k) /\ Shown(wire, k)
      BY <1>2, <2>2
    <3>2. PICK j \in i + 1..k :
            Shown(wire, j) /\ ~(At(room, wire, j).enabled /\ At(room, wire, j).joined)
      BY <2>1, <2>2, <3>1 DEF Heard, Lasting
    <3>3. j \in 0..n
      BY <2>2
    <3> QED BY <1>2, <3>2, <3>3
  <2>3. CASE k = n + 1
    <3>1. CASE \E j \in i + 1..last :
                 Shown(wire, j) /\ ~(At(room, wire, j).enabled /\ At(room, wire, j).joined)
      <4>1. PICK j \in i + 1..last :
              Shown(wire, j) /\ ~(At(room, wire, j).enabled /\ At(room, wire, j).joined)
        BY <3>1
      <4>2. j \in 0..n /\ j \in i + 1..k
        BY <1>2, <2>1, <2>3, <4>1
      <4> QED BY <1>2, <4>1, <4>2
    <3>2. CASE ~ \E j \in i + 1..last :
                   Shown(wire, j) /\ ~(At(room, wire, j).enabled /\ At(room, wire, j).joined)
      <4>1. i = last \/ i < last
        BY <1>2, <1>5, <2>1
      <4>2. At(room, wire, i).pub = m.pub
        BY <1>5, <2>1, <3>2, <4>1 DEF Heard, Lasting
      <4>3. ~(new.enabled /\ new.joined)
        BY <1>1, <1>2, <2>1, <2>3, <4>2
      <4>4. k \in i + 1..k
        BY <1>2, <2>1, <2>3
      <4> QED BY <1>1, <1>2, <2>3, <4>3, <4>4
    <3> QED BY <3>1, <3>2
  <2> QED BY <1>2, <2>2, <2>3
<1>7. Over(room, long, new)
  <2> SUFFICES ASSUME NEW i \in 0..n + 1, NEW k \in 0..n + 1,
                      i < k, Shown(long, i), Shown(long, k),
                      At(room, long, i).pub # 0, At(room, long, k).pub # At(room, long, i).pub
               PROVE  /\ new.pub # At(room, long, i).pub
                      /\ \A j \in k + 1..n + 1 :
                             Shown(long, j) => At(room, long, j).pub # At(room, long, i).pub
    BY <1>2 DEF Over
  <2>1. i \in 0..n /\ At(room, wire, i) = At(room, long, i) /\ Shown(wire, i)
    BY <1>2
  <2>2. At(room, wire, i).pub \in Nat /\ At(room, wire, i).pub <= pubs
    BY <1>3, <2>1
  <2>3. CASE k = n + 1
    BY <1>1, <1>2, <2>3
  <2>4. CASE k \in 0..n
    <3>1. At(room, wire, k) = At(room, long, k) /\ Shown(wire, k)
      BY <1>2, <2>4
    <3>2. /\ m.pub # At(room, wire, i).pub
          /\ \A j \in k + 1..n : Shown(wire, j) => At(room, wire, j).pub # At(room, wire, i).pub
      BY <2>1, <2>4, <3>1 DEF Heard, Over
    <3>3. new.pub # At(room, wire, i).pub
      BY <2>1, <2>2, <3>2
    <3>4. ASSUME NEW j \in k + 1..n + 1, Shown(long, j)
          PROVE  At(room, long, j).pub # At(room, long, i).pub
      <4>1. CASE j = n + 1
        BY <1>1, <1>2, <2>1, <3>3, <4>1
      <4>2. CASE j # n + 1
        <5>1. j \in 0..n /\ j \in k + 1..n
          BY <1>2, <2>4, <4>2
        <5> QED BY <1>2, <2>1, <3>2, <3>4, <5>1
      <4> QED BY <4>1, <4>2
    <3> QED BY <2>1, <3>3, <3>4
  <2> QED BY <1>2, <2>3, <2>4
<1> QED BY <1>4, <1>6, <1>7 DEF Heard, long, note

(* An answer that is no room, and a withdrawal, change no room.            *)
LEMMA HeardAnswer ==
  ASSUME NEW room, NEW wire \in Seq(Notes), NEW retired, NEW m, NEW note \in Notes,
         note.k # "state", Heard(room, retired, wire, m)
  PROVE  Heard(room, retired, Append(wire, note), m)
<1> DEFINE long == Append(wire, note)
           n == Len(wire)
<1>1. /\ Len(long) = n + 1 /\ n \in Nat
      /\ \A i \in 0..n : /\ At(room, long, i) = At(room, wire, i)
                         /\ Shown(long, i) <=> Shown(wire, i)
      /\ ~Shown(long, n + 1)
  BY AppendedAt
<1> HIDE DEF long
<1>2. \A i \in 0..n + 1 : Shown(long, i) => i \in 0..n /\ Shown(wire, i)
  BY <1>1
<1>3. Caught(room, long, m)
  <2>1. PICK i \in 0..n : /\ Shown(wire, i) /\ Agrees(At(room, wire, i), m) /\ (i = 0 => room.known)
                          /\ \A j \in i + 1..n : ~Shown(wire, j)
    BY DEF Heard, Caught
  <2>2. \A j \in i + 1..n + 1 : ~Shown(long, j)
    BY <1>1, <1>2, <2>1
  <2> QED BY <1>1, <2>1, <2>2 DEF Caught
<1>4. Lasting(room, retired, long)
  <2> SUFFICES ASSUME NEW i \in 0..n + 1, NEW k \in 0..n + 1,
                      i < k, Shown(long, i), Shown(long, k),
                      At(room, long, i).pub # 0, At(room, long, i).pub \notin retired,
                      At(room, long, k).pub # At(room, long, i).pub
               PROVE  \E j \in i + 1..k :
                        /\ Shown(long, j)
                        /\ ~(At(room, long, j).enabled /\ At(room, long, j).joined)
    BY <1>1 DEF Lasting
  <2>1. /\ i \in 0..n /\ At(room, wire, i) = At(room, long, i) /\ Shown(wire, i)
        /\ k \in 0..n /\ At(room, wire, k) = At(room, long, k) /\ Shown(wire, k)
    BY <1>1, <1>2
  <2>2. PICK j \in i + 1..k :
          Shown(wire, j) /\ ~(At(room, wire, j).enabled /\ At(room, wire, j).joined)
    BY <2>1 DEF Heard, Lasting
  <2>3. j \in 0..n
    BY <2>1
  <2> QED BY <1>1, <2>2, <2>3
<1>5. Over(room, long, m)
  <2> SUFFICES ASSUME NEW i \in 0..n + 1, NEW k \in 0..n + 1,
                      i < k, Shown(long, i), Shown(long, k),
                      At(room, long, i).pub # 0, At(room, long, k).pub # At(room, long, i).pub
               PROVE  /\ m.pub # At(room, long, i).pub
                      /\ \A j \in k + 1..n + 1 :
                             Shown(long, j) => At(room, long, j).pub # At(room, long, i).pub
    BY <1>1 DEF Over
  <2>1. /\ i \in 0..n /\ At(room, wire, i) = At(room, long, i) /\ Shown(wire, i)
        /\ k \in 0..n /\ At(room, wire, k) = At(room, long, k) /\ Shown(wire, k)
    BY <1>1, <1>2
  <2>2. /\ m.pub # At(room, wire, i).pub
        /\ \A j \in k + 1..n : Shown(wire, j) => At(room, wire, j).pub # At(room, wire, i).pub
    BY <2>1 DEF Heard, Over
  <2>3. ASSUME NEW j \in k + 1..n + 1, Shown(long, j)
        PROVE  j \in k + 1..n /\ Shown(wire, j) /\ At(room, wire, j) = At(room, long, j)
    <3>1. j \in 0..n + 1
      BY <1>1, <2>1
    <3> QED BY <1>1, <1>2, <2>1, <2>3, <3>1
  <2> QED BY <2>1, <2>2, <2>3
<1> QED BY <1>3, <1>4, <1>5 DEF Heard, long

LEMMA HeardRetired ==
  ASSUME NEW room, NEW wire, NEW retired, NEW more, NEW m,
         Heard(room, retired, wire, m), retired \subseteq more
  PROVE  Heard(room, more, wire, m)
BY DEF Heard, Lasting

(* The page takes a note from the wire.  If it is a room, the page forgets *)
(* the withdrawal of any other publication than that room's, which by then *)
(* is gone for good.                                                       *)
LEMMA HeardNext ==
  ASSUME NEW room \in Rooms, NEW next, NEW wire \in Seq(Notes), wire # <<>>,
         NEW retired \in SUBSET ({room.pub} \ {0}), NEW kept, NEW m, Heard(room, retired, wire, m),
         Follows(room, wire, next),
         IF wire[1].k = "state" THEN retired \cap {next.pub} \subseteq kept ELSE kept = retired
  PROVE  /\ Heard(next, kept, Tail(wire), m)
         /\ wire[1].k = "state" /\ room.pub # 0 /\ next.pub # room.pub
            => m.pub # room.pub /\ (next.enabled /\ next.joined => room.pub \in retired)
<1> DEFINE rest == Tail(wire)
           n == Len(wire)
<1>1. /\ rest \in Seq(Notes) /\ Len(rest) = n - 1 /\ n \in Nat /\ n >= 1
      /\ \A i \in 1..n - 1 : /\ At(next, rest, i) = At(room, wire, i + 1)
                             /\ Shown(rest, i) <=> Shown(wire, i + 1)
      /\ Shown(rest, 0) /\ At(next, rest, 0) = next
  BY TakenAt
<1>2. /\ At(room, wire, 0) = room /\ Shown(wire, 0) /\ At(room, wire, 1) = wire[1]
      /\ Shown(wire, 1) <=> wire[1].k = "state"
      /\ wire[1].k = "state" => /\ next.enabled = wire[1].enabled /\ next.joined = wire[1].joined
                                /\ next.pub = wire[1].pub /\ next.known
      /\ wire[1].k # "state" => next = room
  BY DEF At, Shown, Follows
<1> HIDE DEF rest
<1> DEFINE from(i) == IF i = 0 /\ wire[1].k # "state" THEN 0 ELSE i + 1
<1>3. \A i \in 0..n - 1 :
        Shown(rest, i) =>
          /\ from(i) \in 0..n /\ Shown(wire, from(i))
          /\ At(room, wire, from(i)).pub = At(next, rest, i).pub
          /\ At(room, wire, from(i)).enabled = At(next, rest, i).enabled
          /\ At(room, wire, from(i)).joined = At(next, rest, i).joined
  <2>1. CASE wire[1].k = "state"
    BY <1>1, <1>2, <2>1
  <2>2. CASE wire[1].k # "state"
    BY <1>1, <1>2, <2>2
  <2> QED BY <2>1, <2>2
<1>4. \A j \in 1..n : Shown(wire, j) =>
        j - 1 \in 0..n - 1 /\ Shown(rest, j - 1) /\ from(j - 1) = j
  <2> SUFFICES ASSUME NEW j \in 1..n, Shown(wire, j)
               PROVE  j - 1 \in 0..n - 1 /\ Shown(rest, j - 1) /\ from(j - 1) = j
    OBVIOUS
  <2>1. CASE j = 1
    BY <1>1, <1>2, <2>1
  <2>2. CASE j # 1
    <3>1. j - 1 \in 1..n - 1
      BY <1>1, <2>2
    <3> QED BY <1>1, <3>1
  <2> QED BY <2>1, <2>2
<1>5. \A i, k \in 0..n - 1 : i < k => from(i) < from(k)
  BY <1>1
<1> HIDE DEF from
<1>6. Caught(next, rest, m)
  <2>1. PICK i \in 0..n : /\ Shown(wire, i) /\ Agrees(At(room, wire, i), m) /\ (i = 0 => room.known)
                          /\ \A j \in i + 1..n : ~Shown(wire, j)
    BY DEF Heard, Caught
  <2>2. CASE i = 0
    <3>1. wire[1].k # "state"
      BY <1>1, <1>2, <2>1, <2>2
    <3>2. \A j \in 1..n - 1 : ~Shown(rest, j)
      <4> SUFFICES ASSUME NEW j \in 1..n - 1 PROVE ~Shown(rest, j)
        OBVIOUS
      <4>1. j + 1 \in i + 1..n
        BY <1>1, <2>2
      <4> QED BY <1>1, <2>1, <4>1
    <3> QED BY <1>1, <1>2, <2>1, <2>2, <3>1, <3>2 DEF Caught, Agrees
  <2>3. CASE i # 0
    <3>1. i \in 1..n /\ i - 1 \in 0..n - 1 /\ Shown(rest, i - 1) /\ from(i - 1) = i
      BY <1>1, <1>4, <2>1, <2>3
    <3>2. Agrees(At(next, rest, i - 1), m)
      BY <1>3, <2>1, <3>1 DEF Agrees
    <3>3. \A j \in (i - 1) + 1..n - 1 : ~Shown(rest, j)
      <4> SUFFICES ASSUME NEW j \in (i - 1) + 1..n - 1 PROVE ~Shown(rest, j)
        OBVIOUS
      <4>1. j + 1 \in i + 1..n /\ j \in 1..n - 1
        BY <1>1, <3>1
      <4> QED BY <1>1, <2>1, <4>1
    <3>4. i - 1 = 0 => next.known
      BY <1>2, <2>1
    <3> QED BY <1>1, <3>1, <3>2, <3>3, <3>4 DEF Caught
  <2> QED BY <2>2, <2>3
<1>7. Lasting(next, kept, rest)
  <2> SUFFICES ASSUME NEW i \in 0..n - 1, NEW k \in 0..n - 1,
                      i < k, Shown(rest, i), Shown(rest, k),
                      At(next, rest, i).pub # 0, At(next, rest, i).pub \notin kept,
                      At(next, rest, k).pub # At(next, rest, i).pub
               PROVE  \E j \in i + 1..k :
                        /\ Shown(rest, j)
                        /\ ~(At(next, rest, j).enabled /\ At(next, rest, j).joined)
    BY <1>1 DEF Lasting
  <2> DEFINE a == from(i)
             b == from(k)
  <2>1. /\ a \in 0..n /\ b \in 0..n /\ a < b /\ Shown(wire, a) /\ Shown(wire, b)
        /\ At(room, wire, a).pub = At(next, rest, i).pub
        /\ At(room, wire, b).pub = At(next, rest, k).pub
    BY <1>3, <1>5
  <2>2. At(room, wire, a).pub \notin retired
    <3>1. CASE wire[1].k # "state"
      BY <2>1, <3>1
    <3>2. CASE wire[1].k = "state" /\ At(room, wire, a).pub = room.pub
      <4>1. a = i + 1
        BY <3>2 DEF from
      <4>2. CASE next.pub = room.pub
        BY <2>1, <3>2, <4>2
      <4>3. CASE next.pub # room.pub
        <5>1. 0 \in 0..n /\ 1 \in 0..n /\ room.pub # 0 /\ At(room, wire, 1).pub # At(room, wire, 0).pub
          BY <1>1, <1>2, <2>1, <3>2, <4>3
        <5>2. \A j \in 1 + 1..n : Shown(wire, j) => At(room, wire, j).pub # room.pub
          BY <1>2, <3>2, <5>1 DEF Heard, Over
        <5>3. a = 1 \/ a \in 1 + 1..n
          BY <2>1, <4>1
        <5> QED BY <1>2, <2>1, <3>2, <4>3, <5>2, <5>3
      <4> QED BY <4>2, <4>3
    <3>3. CASE At(room, wire, a).pub # room.pub
      BY <3>3
    <3> QED BY <3>1, <3>2, <3>3
  <2>3. PICK j \in a + 1..b :
          Shown(wire, j) /\ ~(At(room, wire, j).enabled /\ At(room, wire, j).joined)
    BY <2>1, <2>2 DEF Heard, Lasting
  <2>4. j \in 1..n /\ j - 1 \in 0..n - 1 /\ Shown(rest, j - 1) /\ from(j - 1) = j
    BY <1>1, <1>4, <2>1, <2>3
  <2>5. j - 1 \in i + 1..k
    <3>1. i + 1 <= j - 1
      <4>1. CASE i < j - 1
        BY <2>4, <4>1
      <4>2. CASE j - 1 = i
        BY <2>1, <2>3, <2>4, <4>2
      <4>3. CASE j - 1 < i
        BY <1>5, <2>1, <2>3, <2>4, <4>3
      <4> QED BY <2>4, <4>1, <4>2, <4>3
    <3>2. j - 1 <= k
      <4>1. CASE k < j - 1
        BY <1>5, <2>1, <2>3, <2>4, <4>1
      <4> QED BY <2>4, <4>1
    <3> QED BY <2>4, <3>1, <3>2
  <2> QED BY <1>3, <2>3, <2>4, <2>5
<1>8. Over(next, rest, m)
  <2> SUFFICES ASSUME NEW i \in 0..n - 1, NEW k \in 0..n - 1,
                      i < k, Shown(rest, i), Shown(rest, k),
                      At(next, rest, i).pub # 0, At(next, rest, k).pub # At(next, rest, i).pub
               PROVE  /\ m.pub # At(next, rest, i).pub
                      /\ \A j \in k + 1..n - 1 :
                             Shown(rest, j) => At(next, rest, j).pub # At(next, rest, i).pub
    BY <1>1 DEF Over
  <2>1. /\ from(i) \in 0..n /\ from(k) \in 0..n /\ from(i) < from(k)
        /\ Shown(wire, from(i)) /\ Shown(wire, from(k))
        /\ At(room, wire, from(i)).pub = At(next, rest, i).pub
        /\ At(room, wire, from(k)).pub = At(next, rest, k).pub
    BY <1>3, <1>5
  <2>2. /\ m.pub # At(next, rest, i).pub
        /\ \A j \in from(k) + 1..n :
               Shown(wire, j) => At(room, wire, j).pub # At(next, rest, i).pub
    BY <2>1 DEF Heard, Over
  <2>3. ASSUME NEW j \in k + 1..n - 1, Shown(rest, j)
        PROVE  At(next, rest, j).pub # At(next, rest, i).pub
    <3>1. j \in 0..n - 1 /\ k < j
      BY <1>1
    <3>2. from(j) \in 0..n /\ from(k) < from(j) /\ Shown(wire, from(j))
          /\ At(room, wire, from(j)).pub = At(next, rest, j).pub
      BY <1>3, <1>5, <2>3, <3>1
    <3>3. from(j) \in from(k) + 1..n
      BY <2>1, <3>2
    <3> QED BY <2>2, <3>2, <3>3
  <2> QED BY <2>2, <2>3
<1>9. ASSUME wire[1].k = "state", room.pub # 0, next.pub # room.pub
      PROVE  m.pub # room.pub /\ (next.enabled /\ next.joined => room.pub \in retired)
  <2>1. 0 \in 0..n /\ 1 \in 0..n /\ 0 < 1 /\ Shown(wire, 1) /\ At(room, wire, 1).pub # At(room, wire, 0).pub
    BY <1>1, <1>2, <1>9
  <2>2. m.pub # room.pub
    BY <1>2, <1>9, <2>1 DEF Heard, Over
  <2>3. ASSUME room.pub \notin retired
        PROVE  ~(next.enabled /\ next.joined)
    <3>1. PICK j \in 0 + 1..1 : ~(At(room, wire, j).enabled /\ At(room, wire, j).joined)
      BY <1>2, <1>9, <2>1, <2>3 DEF Heard, Lasting
    <3>2. j = 1
      BY <3>1
    <3> QED BY <1>2, <1>9, <3>1, <3>2
  <2> QED BY <2>2, <2>3
<1> QED BY <1>6, <1>7, <1>8, <1>9 DEF Heard, rest

(* The withdrawals, when the server handles a command, changes the         *)
(* publication, or is sent one more.                                       *)
LEMMA SentHandled ==
  ASSUME NEW wire \in Seq(Commands), wire # <<>>, NEW retired, NEW m, NEW new, NEW pubs \in Nat,
         Sent(wire, retired, m), m.pub \in Nat, new.pub \in {m.pub, 0, pubs + 1},
         retired \subseteq 1..pubs,
         \A i \in DOMAIN wire : wire[i].pub <= pubs /\ (wire[i].k = "unpublish" => wire[i].pub # 0),
         Head(wire).k = "unpublish" /\ Head(wire).pub = m.pub => new.pub = 0
  PROVE  Sent(Tail(wire), retired, new)
<1>1. \A i \in DOMAIN Tail(wire) : Tail(wire)[i] = wire[i + 1] /\ i + 1 \in DOMAIN wire /\ i \in Nat
  OBVIOUS
<1>2. \A i \in DOMAIN wire : i = 1 \/ (i - 1 \in DOMAIN Tail(wire) /\ Tail(wire)[i - 1] = wire[i])
  OBVIOUS
<1>3. Head(wire) = wire[1] /\ \A i \in DOMAIN wire : wire[i].pub \in Nat
  <2>1. Head(wire) = wire[1] /\ \A i \in DOMAIN wire : wire[i] \in Commands
    OBVIOUS
  <2> QED BY <2>1 DEF Commands
<1>4. ASSUME NEW i \in DOMAIN Tail(wire), Tail(wire)[i].k = "unpublish"
      PROVE  Tail(wire)[i].pub \in retired \/ Tail(wire)[i].pub # new.pub
  <2> DEFINE q == wire[i + 1].pub
  <2>1. Tail(wire)[i].pub = q /\ (q \in retired \/ q # m.pub) /\ q <= pubs /\ q # 0 /\ q \in Nat
    BY <1>1, <1>3, <1>4 DEF Sent
  <2> QED BY <2>1
<1>5. ASSUME NEW q \in retired, q = new.pub
      PROVE  \E i \in DOMAIN Tail(wire) : Tail(wire)[i] = Msg("unpublish", q)
  <2>1. q = m.pub /\ q # 0
    BY <1>5
  <2>2. PICK i \in DOMAIN wire : wire[i] = Msg("unpublish", q)
    BY <2>1 DEF Sent
  <2>3. wire[i].k = "unpublish" /\ wire[i].pub = q
    BY <2>2 DEF Msg
  <2>4. i # 1
    BY <1>3, <1>5, <2>1, <2>3
  <2> QED BY <1>2, <2>2, <2>4
<1> QED BY <1>4, <1>5 DEF Sent

LEMMA SentChanged ==
  ASSUME NEW wire \in Seq(Commands), NEW retired, NEW m, NEW new, NEW pubs \in Nat,
         Sent(wire, retired, m), m.pub \in Nat, new.pub \in {m.pub, 0, pubs + 1},
         retired \subseteq 1..pubs,
         \A i \in DOMAIN wire : wire[i].pub <= pubs /\ (wire[i].k = "unpublish" => wire[i].pub # 0)
  PROVE  Sent(wire, retired, new)
<1>1. \A i \in DOMAIN wire : wire[i].pub \in Nat
  <2>1. \A i \in DOMAIN wire : wire[i] \in Commands
    OBVIOUS
  <2> QED BY <2>1 DEF Commands
<1>2. ASSUME NEW i \in DOMAIN wire, wire[i].k = "unpublish"
      PROVE  wire[i].pub \in retired \/ wire[i].pub # new.pub
  <2>1. (wire[i].pub \in retired \/ wire[i].pub # m.pub) /\ wire[i].pub # 0 /\ wire[i].pub <= pubs
    BY <1>2 DEF Sent
  <2> QED BY <1>1, <2>1
<1>3. ASSUME NEW q \in retired, q = new.pub
      PROVE  \E i \in DOMAIN wire : wire[i] = Msg("unpublish", q)
  BY <1>3 DEF Sent
<1> QED BY <1>2, <1>3 DEF Sent

LEMMA SentCommand ==
  ASSUME NEW wire \in Seq(Commands), NEW retired, NEW m, NEW msg \in Commands,
         Sent(wire, retired, m)
  PROVE  Sent(Append(wire, msg), retired \cup (IF msg.k = "unpublish" THEN {msg.pub} ELSE {}), m)
<1> DEFINE long == Append(wire, msg)
           more == retired \cup (IF msg.k = "unpublish" THEN {msg.pub} ELSE {})
<1>1. /\ \A i \in DOMAIN wire : i \in DOMAIN long /\ long[i] = wire[i]
      /\ \A i \in DOMAIN long : i \in DOMAIN wire \/ long[i] = msg
      /\ \E i \in DOMAIN long : long[i] = msg
  <2>1. Len(wire) + 1 \in DOMAIN long /\ long[Len(wire) + 1] = msg
    OBVIOUS
  <2> QED BY <2>1
<1>2. msg.k = "unpublish" => msg = Msg("unpublish", msg.pub)
  BY DEF Commands, Msg
<1> HIDE DEF long
<1>3. \A i \in DOMAIN long : long[i].k = "unpublish" => long[i].pub \in more \/ long[i].pub # m.pub
  BY <1>1 DEF Sent
<1>4. ASSUME NEW q \in more, q = m.pub
      PROVE  \E i \in DOMAIN long : long[i] = Msg("unpublish", q)
  <2>1. CASE q \in retired
    BY <1>1, <1>4, <2>1 DEF Sent
  <2>2. CASE q \notin retired
    BY <1>1, <1>2, <2>2
  <2> QED BY <2>1, <2>2
<1> QED BY <1>3, <1>4 DEF Sent, long

LEMMA SentForgotten ==
  ASSUME NEW wire, NEW retired, NEW kept, NEW m, Sent(wire, retired, m),
         kept \subseteq retired, \A q \in retired \ kept : q # m.pub
  PROVE  Sent(wire, kept, m)
BY DEF Sent

-----------------------------------------------------------------------------
(* What the operations of the page make of the publications.               *)
Silent(c, d) ==
    /\ d.out = c.out /\ d.p.retired = c.p.retired /\ d.p.sock = c.p.sock

LEMMA SilentlyDropped ==
  ASSUME NEW c, Shape(c)
  PROVE  Silent(c, Cancelled(c)) /\ Silent(c, Unsourced(c))
<1>1. Silent(c, Cancelled(c))
  <2> DEFINE d == Cancelled(c)
  <2>1. d.p = [c.p EXCEPT !.capture = 0] /\ d.out = c.out
    BY DEF Cancelled, Shape, Whole
  <2> HIDE DEF d
  <2>2. d.p.retired = c.p.retired /\ d.p.sock = c.p.sock
    BY <2>1 DEF Shape, WholePage
  <2> QED BY <2>1, <2>2 DEF Silent, d
<1>2. Silent(c, Unsourced(c))
  <2> DEFINE d == Unsourced(c)
  <2>1. d.p = [c.p EXCEPT !.source = NoSource] /\ d.out = c.out
    BY DEF Unsourced, Shape, Whole
  <2> HIDE DEF d
  <2>2. d.p.retired = c.p.retired /\ d.p.sock = c.p.sock
    BY <2>1 DEF Shape, WholePage
  <2> QED BY <2>1, <2>2 DEF Silent, d
<1> QED BY <1>1, <1>2

LEMMA SilentlyEvicted ==
  ASSUME NEW c, NEW w, Shape(c), Owned(c, w)
  PROVE  Silent(c, Evicted(c))
<1> DEFINE e == Cancelled(c)
           d == Evicted(c)
<1>1. Shape(e) /\ Silent(c, e)
  BY CancelledIs, SilentlyDropped
<1>2. d = [e EXCEPT !.p = [e.p EXCEPT !.publishing = 0]]
  BY DEF Evicted
<1> HIDE DEF d, e
<1>3. d.p = [e.p EXCEPT !.publishing = 0] /\ d.out = e.out
  BY <1>1, <1>2 DEF Shape, Whole
<1>4. d.p.retired = e.p.retired /\ d.p.sock = e.p.sock
  BY <1>1, <1>3 DEF Shape, WholePage
<1> QED BY <1>1, <1>3, <1>4 DEF Silent, d

LEMMA SilentlyAttached ==
  ASSUME NEW c, NEW w, NEW pub, NEW r \in Requests, Shape(c), Owned(c, w)
  PROVE  Silent(c, Attached(c, pub, r))
<1> DEFINE e == Unsourced(c)
           d == Attached(c, pub, r)
<1>1. Shape(e) /\ Silent(c, e)
  BY UnsourcedIs, SilentlyDropped
<1>2. d = [e EXCEPT !.p = [e.p EXCEPT !.source = [pub |-> pub, req |-> r], !.capture = 0],
                    !.q = [e.q EXCEPT ![r] = "held"]]
  BY DEF Attached
<1> HIDE DEF d, e
<1>3. d.p = [e.p EXCEPT !.source = [pub |-> pub, req |-> r], !.capture = 0] /\ d.out = e.out
  BY <1>1, <1>2 DEF Shape, Whole
<1>4. d.p.retired = e.p.retired /\ d.p.sock = e.p.sock
  BY <1>1, <1>3 DEF Shape, WholePage
<1> QED BY <1>1, <1>3, <1>4 DEF Silent, d

(* The withdrawal of the room's publication is sent once.                  *)
Withdraws(c, d) ==
    \/ /\ d.out = c.out /\ d.p.retired = c.p.retired
       /\ c.p.room.pub = 0 \/ c.p.room.pub \in c.p.retired
    \/ /\ d.out = Append(c.out, Msg("unpublish", c.p.room.pub))
       /\ d.p.retired = c.p.retired \cup {c.p.room.pub}
       /\ c.p.room.pub # 0 /\ c.p.room.pub \notin c.p.retired

LEMMA WithdrawnSays ==
  ASSUME NEW c, Shape(c)
  PROVE  Withdraws(c, Withdrawn(c)) /\ Withdrawn(c).p.sock = c.p.sock
<1> DEFINE d == Withdrawn(c)
           e == [c EXCEPT !.p = [@ EXCEPT !.retired = c.p.retired \cup {c.p.room.pub}]]
<1>1. CASE c.p.room.pub # 0 /\ c.p.room.pub \notin c.p.retired
  <2>1. d = Commanded(e, Msg("unpublish", c.p.room.pub))
    BY <1>1, Zenon DEF Withdrawn
  <2>2. e.p = [c.p EXCEPT !.retired = c.p.retired \cup {c.p.room.pub}] /\ e.out = c.out /\ Whole(e)
    BY DEF Shape, Whole
  <2> HIDE DEF d, e
  <2>3. d.p = e.p /\ d.out = Append(c.out, Msg("unpublish", c.p.room.pub))
    BY <2>1, <2>2 DEF Commanded, Whole
  <2>4. e.p.retired = c.p.retired \cup {c.p.room.pub} /\ e.p.sock = c.p.sock
    BY <2>2 DEF Shape, WholePage
  <2> QED BY <1>1, <2>3, <2>4 DEF Withdraws, d
<1>2. CASE ~(c.p.room.pub # 0 /\ c.p.room.pub \notin c.p.retired)
  <2>1. d = c
    BY <1>2, Zenon DEF Withdrawn
  <2> QED BY <1>2, <2>1 DEF Withdraws
<1> QED BY <1>1, <1>2

LEMMA StoppedSays ==
  ASSUME NEW c, NEW w, Shape(c), Owned(c, w)
  PROVE  LET d == Stopped(c) IN
         /\ Withdraws(c, d) /\ d.p.sock = c.p.sock /\ d.p.on = c.p.on /\ d.p.room = c.p.room
         /\ d.p.source = NoSource /\ d.p.capture = 0 /\ d.p.publishing = c.p.publishing
<1> DEFINE a == Cancelled(c)
           b == Unsourced(a)
           d == Withdrawn(b)
<1>1. /\ Shape(a) /\ Owned(a, w) /\ a.p.capture = 0 /\ a.p.on = c.p.on /\ a.p.room = c.p.room
      /\ a.p.publishing = c.p.publishing /\ Silent(c, a)
  BY CancelledIs, SilentlyDropped
<1>2. /\ Shape(b) /\ Owned(b, w) /\ b.p.capture = 0 /\ b.p.on = c.p.on /\ b.p.room = c.p.room
      /\ b.p.source = NoSource /\ b.p.publishing = c.p.publishing /\ Silent(a, b)
  <2> HIDE DEF a
  <2> QED BY <1>1, UnsourcedIs, SilentlyDropped
<1>3. /\ d.p.capture = 0 /\ d.p.on = c.p.on /\ d.p.room = c.p.room /\ d.p.source = NoSource
      /\ d.p.publishing = c.p.publishing /\ Withdraws(b, d) /\ d.p.sock = b.p.sock
  <2> HIDE DEF b
  <2> QED BY <1>2, WithdrawnIs, WithdrawnSays
<1>4. d = Stopped(c)
  BY DEF Stopped
<1> HIDE DEF a, b, d
<1> QED BY <1>1, <1>2, <1>3, <1>4 DEF Withdraws, Silent

LEMMA DisconnectedSays ==
  ASSUME NEW c, NEW w, Shape(c), Owned(c, w)
  PROVE  LET d == Disconnected(c) IN
         /\ d.p.retired = {} /\ ~d.p.on /\ d.p.sock = c.p.sock /\ d.p.room = c.p.room
         /\ d.p.source = NoSource /\ d.p.capture = 0
<1> DEFINE a == Cancelled(c)
           b == Unsourced(a)
           d == Disconnected(c)
<1>1. Shape(a) /\ Owned(a, w) /\ a.p.capture = 0 /\ a.p.room = c.p.room /\ Silent(c, a)
  BY CancelledIs, SilentlyDropped
<1>2. /\ Shape(b) /\ b.p.capture = 0 /\ b.p.source = NoSource /\ b.p.room = c.p.room /\ Silent(a, b)
  <2> HIDE DEF a
  <2> QED BY <1>1, UnsourcedIs, SilentlyDropped
<1>3. d = [b EXCEPT !.p = [b.p EXCEPT !.publishing = 0, !.retired = {}, !.on = FALSE]]
  BY DEF Disconnected
<1> HIDE DEF a, b, d
<1>4. d.p = [b.p EXCEPT !.publishing = 0, !.retired = {}, !.on = FALSE]
  BY <1>2, <1>3 DEF Shape, Whole
<1>5. /\ d.p.retired = {} /\ ~d.p.on /\ d.p.sock = b.p.sock /\ d.p.room = b.p.room
      /\ d.p.source = b.p.source /\ d.p.capture = b.p.capture
  BY <1>2, <1>4 DEF Shape, WholePage
<1> QED BY <1>1, <1>2, <1>5 DEF Silent, d

LEMMA AuthorizedSays ==
  ASSUME NEW c, NEW w, Shape(c), Owned(c, w)
  PROVE  LET d == Authorized(c) IN
         /\ Silent(c, d)
         /\ d.p.source = (IF /\ c.p.room.enabled /\ c.p.room.joined
                             /\ c.p.room.pub = c.p.source.pub
                          THEN c.p.source ELSE NoSource)
<1> DEFINE d == Authorized(c)
<1>1. CASE c.p.room.enabled /\ c.p.room.joined /\ c.p.room.pub = c.p.source.pub
  <2>1. d = c
    BY <1>1 DEF Authorized
  <2> QED BY <1>1, <2>1 DEF Silent
<1>2. CASE ~(c.p.room.enabled /\ c.p.room.joined /\ c.p.room.pub = c.p.source.pub)
  <2>1. d = Unsourced(c)
    BY <1>2 DEF Authorized
  <2> QED BY <1>2, <2>1, UnsourcedIs, SilentlyDropped
<1> QED BY <1>1, <1>2

LEMMA MatchedSays ==
  ASSUME NEW c, NEW w, Shape(c), Owned(c, w)
  PROVE  LET d == Matched(c) IN
         /\ Silent(c, d) /\ d.p.room = c.p.room /\ d.p.on = c.p.on
         /\ \/ d.p.source = c.p.source /\ d.p.capture = c.p.capture
            \/ /\ c.p.room.pub # 0
               /\ d.p.source = [pub |-> c.p.room.pub, req |-> c.p.capture]
         /\ c.p.room.pub # 0 => d.p.publishing = 0
<1> DEFINE r == c.p.publishing
           e == [c EXCEPT !.p = [@ EXCEPT !.publishing = 0]]
           d == Matched(c)
<1>1. CASE c.p.room.pub = 0 \/ r = 0
  <2>1. d = c
    BY <1>1 DEF Matched
  <2> QED BY <1>1, <2>1 DEF Silent
<1>2. CASE ~(c.p.room.pub = 0 \/ r = 0)
  <2>1. e.p = [c.p EXCEPT !.publishing = 0] /\ e.q = c.q /\ e.out = c.out /\ Whole(e)
    BY DEF Shape, Whole
  <2>2. d = IF e.p.capture = r /\ e.p.room.enabled /\ e.p.room.joined
            THEN Attached(e, e.p.room.pub, r) ELSE e
    BY <1>2 DEF Matched
  <2>3. r \in Requests
    BY <1>2 DEF Shape
  <2> HIDE DEF e, d
  <2>4. /\ WholePage(e.p) /\ e.p.publishing = 0 /\ e.p.capture = c.p.capture
        /\ e.p.source = c.p.source /\ e.p.room = c.p.room /\ e.p.on = c.p.on
        /\ e.p.retired = c.p.retired /\ e.p.sock = c.p.sock
    BY <2>1 DEF Shape, WholePage
  <2>5. Shape(e) /\ Owned(e, w)
    BY <2>1, <2>4 DEF Shape, Owned
  <2>6. CASE e.p.capture = r /\ e.p.room.enabled /\ e.p.room.joined
    <3>1. d = Attached(e, e.p.room.pub, r)
      BY <2>2, <2>6
    <3>2. /\ d.p.source = [pub |-> e.p.room.pub, req |-> r]
          /\ d.p.room = e.p.room /\ d.p.on = e.p.on /\ d.p.publishing = 0
      BY <2>3, <2>4, <2>5, <2>6, <3>1, AttachedIs
    <3>3. Silent(e, d)
      BY <2>3, <2>5, <3>1, SilentlyAttached
    <3> QED BY <1>2, <2>1, <2>4, <2>6, <3>2, <3>3 DEF d, Silent
  <2>7. CASE ~(e.p.capture = r /\ e.p.room.enabled /\ e.p.room.joined)
    <3>1. d = e
      BY <2>2, <2>7
    <3> QED BY <1>2, <2>1, <2>4, <3>1 DEF d, Silent
  <2> QED BY <2>6, <2>7
<1> QED BY <1>1, <1>2

(* A room state ends the source of any other publication, gives the        *)
(* capture that waited the one it names, and withdraws what nobody feeds.  *)
LEMMA StateReceivedSays ==
  ASSUME NEW c, NEW w, NEW m, Shape(c), Owned(c, w), Fed(c), c.p.on
  PROVE  LET d == StateReceived(c, m)
             in == m.enabled /\ m.joined IN
         /\ d.p.room = [known |-> TRUE, enabled |-> m.enabled, joined |-> m.joined, pub |-> m.pub]
         /\ d.p.on = c.p.on /\ d.p.sock = c.p.sock
         /\ d.p.source = NoSource /\ m.pub # 0 => m.pub \in d.p.retired
         /\ \/ d.p.source = NoSource \/ d.p.source = c.p.source
            \/ d.p.source.pub = m.pub /\ m.pub # 0
         /\ \/ d.out = c.out /\ d.p.retired = c.p.retired \cap {m.pub}
            \/ /\ d.out = Append(c.out, Msg("unpublish", m.pub)) /\ d.p.retired = {m.pub}
               /\ m.pub # 0 /\ m.pub \notin c.p.retired /\ d.p.source = NoSource
         /\ in /\ d.p.source = NoSource => d.p.capture = c.p.capture
         /\ in /\ c.p.source # NoSource /\ c.p.source.pub = m.pub => d.p.source # NoSource
<1> DEFINE in == m.enabled /\ m.joined
           room == [known |-> TRUE, enabled |-> m.enabled, joined |-> m.joined, pub |-> m.pub]
           a == IF in THEN c ELSE Evicted(c)
           b == [a EXCEPT !.p = [@ EXCEPT !.room = room]]
           e == Authorized(b)
           f == Matched(e)
           g == Unwanted(f)
           d == [g EXCEPT !.p = [@ EXCEPT !.retired = g.p.retired \cap {m.pub}]]
<1>1. /\ Shape(a) /\ Owned(a, w) /\ a.p.source = c.p.source /\ a.p.on = c.p.on /\ Silent(c, a)
      /\ in => a.p.capture = c.p.capture
  BY EvictedIs, SilentlyEvicted DEF Silent
<1> HIDE DEF a
<1>2. b.p = [a.p EXCEPT !.room = room] /\ b.q = a.q /\ b.out = a.out /\ Whole(b)
  <2> HIDE DEF room
  <2> QED BY <1>1 DEF Shape, Whole
<1>3. room.enabled = m.enabled /\ room.joined = m.joined /\ room.pub = m.pub
  OBVIOUS
<1> HIDE DEF b, room
<1>4. /\ WholePage(b.p) /\ b.p.room = room /\ b.p.source = a.p.source /\ b.p.on = a.p.on
      /\ b.p.capture = a.p.capture /\ b.p.publishing = a.p.publishing
      /\ b.p.retired = a.p.retired /\ b.p.sock = a.p.sock
  BY <1>1, <1>2 DEF Shape, WholePage
<1>5. Shape(b) /\ Owned(b, w)
  BY <1>1, <1>2, <1>4 DEF Shape, Owned
<1>6. /\ Shape(e) /\ Owned(e, w) /\ e.p.on = b.p.on /\ e.p.room = room /\ Silent(b, e)
      /\ e.p.capture = b.p.capture
      /\ e.p.source = (IF in /\ m.pub = b.p.source.pub THEN b.p.source ELSE NoSource)
  <2>1. c.p.source # NoSource => b.p.on
    BY <1>1, <1>4
  <2>2. b.p.source # NoSource => b.p.on
    BY <1>1, <1>4, <2>1
  <2>3. /\ Shape(e) /\ Owned(e, w) /\ e.p.on = b.p.on /\ e.p.room = b.p.room
        /\ e.p.capture = b.p.capture
    BY <1>5, <2>2, AuthorizedIs
  <2>4. Silent(b, e) /\ e.p.source = (IF /\ b.p.room.enabled /\ b.p.room.joined
                                         /\ b.p.room.pub = b.p.source.pub
                                      THEN b.p.source ELSE NoSource)
    BY <1>5, AuthorizedSays
  <2> QED BY <1>3, <1>4, <2>3, <2>4
<1>7. c.p.source # NoSource => c.p.source.pub = c.p.room.pub
  BY DEF Fed
<1>8. Fed(e)
  BY <1>1, <1>3, <1>4, <1>6 DEF Fed
<1> HIDE DEF e
<1>9. Shape(f) /\ Owned(f, w)
  BY <1>1, <1>4, <1>6, <1>8, MatchedIs
<1>10. /\ Silent(e, f) /\ f.p.room = room /\ f.p.on = e.p.on
       /\ \/ f.p.source = e.p.source /\ f.p.capture = e.p.capture
          \/ m.pub # 0 /\ f.p.source.pub = m.pub
       /\ m.pub # 0 => f.p.publishing = 0
  <2>1. /\ Silent(e, f) /\ f.p.room = e.p.room /\ f.p.on = e.p.on
        /\ \/ f.p.source = e.p.source /\ f.p.capture = e.p.capture
           \/ /\ e.p.room.pub # 0
              /\ f.p.source = [pub |-> e.p.room.pub, req |-> e.p.capture]
        /\ e.p.room.pub # 0 => f.p.publishing = 0
    BY <1>6, MatchedSays
  <2>2. e.p.room.pub = m.pub
    BY <1>3, <1>6
  <2> QED BY <1>6, <2>1, <2>2
<1> HIDE DEF f
<1>11. /\ Shape(g) /\ g.p.source = f.p.source /\ g.p.capture = f.p.capture
       /\ g.p.room = f.p.room /\ g.p.on = f.p.on /\ g.p.sock = f.p.sock
       /\ \/ g.out = f.out /\ g.p.retired = f.p.retired
             /\ (f.p.source = NoSource /\ m.pub # 0 => m.pub \in f.p.retired)
          \/ /\ g.out = Append(f.out, Msg("unpublish", m.pub))
             /\ g.p.retired = f.p.retired \cup {m.pub}
             /\ m.pub # 0 /\ m.pub \notin f.p.retired /\ f.p.source = NoSource
  <2>1. CASE f.p.source = NoSource /\ f.p.publishing = 0
    <3>1. g = Withdrawn(f)
      BY <2>1 DEF Unwanted
    <3>2. /\ Shape(g) /\ g.p.source = f.p.source /\ g.p.capture = f.p.capture
          /\ g.p.room = f.p.room /\ g.p.on = f.p.on /\ g.p.sock = f.p.sock /\ Withdraws(f, g)
      BY <1>9, <3>1, WithdrawnIs, WithdrawnSays
    <3>3. f.p.room.pub = m.pub
      BY <1>3, <1>10
    <3> HIDE DEF g
    <3> QED BY <2>1, <3>2, <3>3 DEF Withdraws
  <2>2. CASE ~(f.p.source = NoSource /\ f.p.publishing = 0)
    <3>1. g = f
      BY <2>2 DEF Unwanted
    <3> HIDE DEF g
    <3> QED BY <1>9, <1>10, <2>2, <3>1
  <2> QED BY <2>1, <2>2
<1> HIDE DEF g
<1>12. d.p = [g.p EXCEPT !.retired = g.p.retired \cap {m.pub}] /\ d.out = g.out
  BY <1>11 DEF Shape, Whole
<1>13. d = StateReceived(c, m)
  BY Zenon DEF StateReceived, a, b, room, e, f, g
<1> HIDE DEF d
<1>14. /\ d.p.source = g.p.source /\ d.p.capture = g.p.capture /\ d.p.room = g.p.room
       /\ d.p.on = g.p.on /\ d.p.sock = g.p.sock /\ d.p.retired = g.p.retired \cap {m.pub}
  BY <1>11, <1>12 DEF Shape, WholePage
<1>15. /\ f.out = c.out /\ f.p.retired = c.p.retired /\ f.p.sock = c.p.sock /\ f.p.on = c.p.on
  BY <1>1, <1>2, <1>4, <1>6, <1>10 DEF Silent
<1>16. /\ d.p.room = room /\ d.p.on = c.p.on /\ d.p.sock = c.p.sock
  BY <1>10, <1>11, <1>14, <1>15
<1>17. d.p.source = NoSource /\ m.pub # 0 => m.pub \in d.p.retired
  BY <1>11, <1>14
<1>18. NoSource.pub = 0
  BY DEF NoSource
<1>19. \/ d.p.source = NoSource \/ d.p.source = c.p.source
       \/ d.p.source.pub = m.pub /\ m.pub # 0
  BY <1>1, <1>4, <1>6, <1>10, <1>11, <1>14
<1>20. \/ d.out = c.out /\ d.p.retired = c.p.retired \cap {m.pub}
       \/ /\ d.out = Append(c.out, Msg("unpublish", m.pub)) /\ d.p.retired = {m.pub}
          /\ m.pub # 0 /\ m.pub \notin c.p.retired /\ d.p.source = NoSource
  <2>1. (f.p.retired \cup {m.pub}) \cap {m.pub} = {m.pub}
    OBVIOUS
  <2> QED BY <1>11, <1>12, <1>14, <1>15, <2>1
<1>21. in /\ d.p.source = NoSource => d.p.capture = c.p.capture
  BY <1>1, <1>4, <1>6, <1>10, <1>11, <1>14, <1>18
<1>22. in /\ c.p.source # NoSource /\ c.p.source.pub = m.pub => d.p.source # NoSource
  BY <1>1, <1>4, <1>6, <1>10, <1>11, <1>14, <1>18
<1> QED BY <1>13, <1>16, <1>17, <1>19, <1>20, <1>21, <1>22 DEF room, in

-----------------------------------------------------------------------------
(* The server's steps.                                                     *)
Members ==
    [sess : Nat, sub : Nat, joined : BOOLEAN, enabled : BOOLEAN, pub : Nat]
Counts == [starts : Nat, sessions : Nat, losses : Nat, changes : Nat, pubs : Nat]

\* A change of the member: at most a publication of a new number, and none is lost
\* unless it is withdrawn or the viewer is out.
Changes(x, withdrawn) ==
    /\ x \in Members /\ x.sess = member.sess
    /\ x.pub \in {member.pub, 0, count.pubs + 1}
    /\ x.pub # 0 => x.enabled /\ x.joined
    /\ member.pub # 0 /\ x.enabled /\ x.joined => x.pub = member.pub \/ withdrawn

LEMMA SyncIs ==
  ASSUME NEW x \in Members, x.pub # 0 => x.enabled /\ x.joined, NEW wire, Sync(x, wire)
  PROVE  /\ member' \in Members /\ member'.sess = x.sess /\ member'.sub = x.sub
         /\ member'.enabled = x.enabled /\ member'.joined = x.joined
         /\ Present(x) => member' = x /\ down' = Append(wire, View(x))
         /\ ~Present(x) => member'.pub = 0 /\ down' = wire
<1>1. CASE Present(x)
  <2>1. Synced(x) = x /\ (IF Allowed(x) THEN x.pub ELSE 0) = x.pub
    BY <1>1 DEF Synced, Allowed, Members
  <2> QED BY <1>1, <2>1 DEF Sync, View
<1>2. CASE ~Present(x)
  <2>1. Synced(x) = [x EXCEPT !.pub = 0]
    BY <1>2 DEF Synced
  <2>2. ~Present(Synced(x))
    BY <1>2, <2>1 DEF Present, Members
  <2> QED BY <1>2, <2>1, <2>2 DEF Sync, Members
<1> QED BY <1>1, <1>2

(* Types of a step in which the server speaks.                             *)
LEMMA SpokenTyped ==
  ASSUME Typed, MicInv, UNCHANGED <<page, request, asked, stray>>,
         count' \in Counts, count'.sessions = count.sessions, count'.pubs >= count.pubs,
         up' = up \/ (up # <<>> /\ up' = Tail(up)),
         member' \in Members, member'.sess = member.sess, member'.sub <= count.sessions,
         member'.pub <= count'.pubs, member'.pub # 0 => member'.enabled /\ member'.joined,
         \/ down' = down
         \/ \E note \in Notes : note.pub <= count'.pubs /\ down' = Append(down, note)
  PROVE  Typed'
<1>1. MaxSessions \in Nat /\ count \in Counts
  BY RoomVoiceAssumption DEF MicInv, Counts
<1>2. /\ member'.sess \in 0..MaxSessions /\ member'.sub \in 0..MaxSessions
      /\ member'.pub \in 0..count'.pubs
  BY <1>1 DEF Typed, Members, Counts
<1>3. member' \in [sess : 0..MaxSessions, sub : 0..MaxSessions, joined : BOOLEAN,
                   enabled : BOOLEAN, pub : 0..count'.pubs]
  BY <1>2 DEF Members
<1>4. page.room \in [known : BOOLEAN, enabled : BOOLEAN, joined : BOOLEAN, pub : 0..count'.pubs]
  <2>1. count.pubs \in Nat /\ count'.pubs \in Nat
    BY <1>1 DEF Counts
  <2>2. page.room \in [known : BOOLEAN, enabled : BOOLEAN, joined : BOOLEAN, pub : 0..count.pubs]
    BY DEF Typed, TypeOK
  <2>3. 0..count.pubs \subseteq 0..count'.pubs
    BY <2>1
  <2> QED BY <2>2, <2>3
<1>5. TypeOK'
  BY <1>3, <1>4 DEF Typed, TypeOK
<1>6. /\ up' \in Seq(Commands)
      /\ \A i \in DOMAIN up' : up'[i].pub <= count'.pubs /\ (up'[i].k = "unpublish" => up'[i].pub # 0)
  <2>1. \A i \in DOMAIN up : up[i].pub <= count'.pubs
    <3>1. up \in Seq(Commands) /\ \A i \in DOMAIN up : up[i] \in Commands
      BY DEF Typed
    <3>2. \A i \in DOMAIN up : up[i].pub \in Nat
      BY <3>1 DEF Commands
    <3> QED BY <1>1, <3>2 DEF Typed, Counts
  <2>2. CASE up' = up
    BY <2>1, <2>2 DEF Typed
  <2>3. CASE up # <<>> /\ up' = Tail(up)
    <3>1. up \in Seq(Commands)
      BY DEF Typed
    <3>2. /\ up' \in Seq(Commands)
          /\ \A i \in DOMAIN up' : i + 1 \in DOMAIN up /\ up'[i] = up[i + 1]
      BY <2>3, <3>1
    <3> QED BY <2>1, <3>2 DEF Typed
  <2> QED BY <2>2, <2>3
<1>7. down' \in Seq(Notes) /\ \A i \in DOMAIN down' : down'[i].pub <= count'.pubs
  <2>1. down \in Seq(Notes) /\ \A i \in DOMAIN down : down[i] \in Notes
    BY DEF Typed
  <2>2. \A i \in DOMAIN down : down[i].pub \in Nat
    BY <2>1 DEF Notes, States
  <2>3. \A i \in DOMAIN down : down[i].pub <= count'.pubs
    BY <1>1, <2>2 DEF Typed, Counts
  <2>4. CASE down' = down
    BY <2>1, <2>3, <2>4
  <2>5. CASE \E note \in Notes : note.pub <= count'.pubs /\ down' = Append(down, note)
    <3>1. PICK note \in Notes : note.pub <= count'.pubs /\ down' = Append(down, note)
      BY <2>5
    <3>2. /\ down' \in Seq(Notes)
          /\ \A i \in DOMAIN down' : (i \in DOMAIN down /\ down'[i] = down[i]) \/ down'[i] = note
      BY <2>1, <3>1
    <3> QED BY <2>3, <3>1, <3>2
  <2> QED BY <2>4, <2>5
<1> QED BY <1>5, <1>6, <1>7 DEF Typed

(* A room on the wire has no publication the server has not named yet.     *)
LEMMA RoomsBounded ==
  ASSUME Typed, MicInv
  PROVE  /\ page.room \in Rooms /\ page.room.pub <= count.pubs
         /\ \A i \in 0..Len(down) : Shown(down, i) => At(page.room, down, i).pub <= count.pubs
<1>1. page.room \in Rooms /\ page.room.pub <= count.pubs
  BY DEF Typed, TypeOK, Rooms, MicInv
<1>2. ASSUME NEW i \in 0..Len(down)
      PROVE  At(page.room, down, i).pub <= count.pubs
  <2>1. CASE i = 0
    BY <1>1, <2>1 DEF At
  <2>2. CASE i # 0
    <3>1. i \in DOMAIN down
      BY <2>2 DEF Typed
    <3> QED BY <2>2, <3>1 DEF At, Typed
  <2> QED BY <2>1, <2>2
<1> QED BY <1>1, <1>2

(* The server tells a page in use of a change.                             *)
LEMMA AttendingTold ==
  ASSUME TruthInv, MicInv, Attending, UNCHANGED page, NEW x, NEW withdrawn,
         Changes(x, withdrawn), x.sub = member.sess, member.sess # 0, Sync(x, down),
         withdrawn /\ member.pub # 0 => member.pub \in page.retired,
         Sent(up', page.retired, x)
  PROVE  Attending'
<1>1. /\ x \in Members /\ x.sess = member.sess /\ (x.pub # 0 => x.enabled /\ x.joined)
      /\ x.pub \in {member.pub, 0, count.pubs + 1}
  BY DEF Changes
<1>2. member' = x /\ down' = Append(down, View(x))
  <2>1. Present(x)
    BY <1>1 DEF Present
  <2> QED BY <1>1, <2>1, SyncIs
<1>3. /\ page.room \in Rooms /\ down \in Seq(Notes) /\ count.pubs \in Nat /\ member.pub \in Nat
      /\ \A i \in 0..Len(down) : Shown(down, i) => At(page.room, down, i).pub <= count.pubs
  BY RoomsBounded DEF TruthInv, Typed, TypeOK, MicInv
<1>4. Heard(page.room, page.retired, down, member)
  BY DEF Attending
<1>5. x.enabled \in BOOLEAN /\ x.joined \in BOOLEAN /\ x.pub \in Nat
  BY <1>1 DEF Members
<1>6. member.pub # 0 /\ member.pub \notin page.retired /\ x.enabled /\ x.joined => x.pub = member.pub
  BY DEF Changes
<1>7. Heard(page.room, page.retired, Append(down, View(x)), x)
  BY <1>1, <1>3, <1>4, <1>5, <1>6, HeardMore
<1>8. \A i \in DOMAIN Append(down, View(x)) : Append(down, View(x))[i].k # "authenticated"
  <2>1. View(x).k = "state"
    BY DEF View
  <2> HIDE DEF View
  <2>2. \A i \in DOMAIN Append(down, View(x)) :
          (i \in DOMAIN down /\ Append(down, View(x))[i] = down[i])
          \/ Append(down, View(x))[i] = View(x)
    BY <1>3
  <2> QED BY <2>1, <2>2 DEF Attending
<1>9. member'.sess = page'.sock /\ member'.sub = page'.sock /\ page'.on
  BY <1>1, <1>2 DEF Attending
<1> QED BY <1>2, <1>7, <1>8, <1>9 DEF Attending

LEMMA MemberTyped ==
  ASSUME Typed, MicInv
  PROVE  /\ member \in Members /\ count \in Counts
         /\ member.pub <= count.pubs /\ member.sess <= count.sessions
         /\ member.sub <= count.sessions /\ page.sock \in Nat
BY DEF Typed, TypeOK, MicInv, Members, Counts

(* What a command makes of the member, or its refusal.                     *)
LEMMA CommandIs ==
  ASSUME Typed, MicInv, HandleCommand
  PROVE  LET msg == Head(up)
             withdrawn == \/ msg.k = "unpublish" /\ msg.pub = member.pub
                          \/ msg.k = "subscribe" /\ member.sub # member.sess IN
         \/ \E x \in Members :
              /\ Sync(x, down) /\ Changes(x, withdrawn) /\ x.pub <= count'.pubs
              /\ x.sub = (IF msg.k = "subscribe" THEN member.sess ELSE member.sub)
              /\ count' \in Counts /\ count'.sessions = count.sessions /\ count'.pubs >= count.pubs
              /\ withdrawn => x.pub = 0
         \/ /\ msg.k \in {"join", "publish"} /\ member' = member /\ count' = count
            /\ \E code \in {"not-enabled", "not-allowed"} : down' = Append(down, Msg(code, 0))
<1> DEFINE msg == Head(up)
           withdrawn == \/ msg.k = "unpublish" /\ msg.pub = member.pub
                        \/ msg.k = "subscribe" /\ member.sub # member.sess
           Told(x) == /\ Sync(x, down) /\ Changes(x, withdrawn) /\ x.pub <= count'.pubs
                      /\ x.sub = (IF msg.k = "subscribe" THEN member.sess ELSE member.sub)
                      /\ count' \in Counts /\ count'.sessions = count.sessions
                      /\ count'.pubs >= count.pubs
                      /\ withdrawn => x.pub = 0
           Denied == /\ msg.k \in {"join", "publish"} /\ member' = member /\ count' = count
                     /\ \E code \in {"not-enabled", "not-allowed"} : down' = Append(down, Msg(code, 0))
<1> SUFFICES (\E x \in Members : Told(x)) \/ Denied
  OBVIOUS
<1> HIDE DEF Told, Denied
<1>1. /\ member \in Members /\ count \in Counts /\ member.pub <= count.pubs
      /\ member.pub # 0 => member.enabled /\ member.joined
  BY MemberTyped DEF Typed
<1>2. Subscribe(msg) \/ Enter(msg) \/ Depart(msg) \/ Publish(msg) \/ Unpublish(msg)
  BY DEF HandleCommand
<1>3. CASE Subscribe(msg)
  <2>1. CASE member.sub = member.sess
    <3>1. Sync(member, down) /\ msg.k = "subscribe" /\ count' = count
      BY <1>3, <2>1 DEF Subscribe
    <3> HIDE DEF msg
    <3>2. Told(member)
      BY <1>1, <2>1, <3>1 DEF Told, Changes, Members, Counts
    <3> QED BY <1>1, <3>2
  <2>2. CASE member.sub # member.sess
    <3> DEFINE x == [member EXCEPT !.sub = member.sess, !.pub = 0]
    <3>1. Sync(x, down) /\ msg.k = "subscribe" /\ count' = count
      BY <1>3, <2>2 DEF Subscribe
    <3>2. x \in Members /\ x.pub = 0 /\ x.sub = member.sess /\ x.sess = member.sess
      BY <1>1 DEF Members
    <3> HIDE DEF msg, x
    <3>3. Told(x)
      BY <1>1, <2>2, <3>1, <3>2 DEF Told, Changes, Members, Counts
    <3> QED BY <3>2, <3>3
  <2> QED BY <2>1, <2>2
<1>4. CASE Enter(msg)
  <2>1. CASE member.enabled
    <3> DEFINE x == [member EXCEPT !.joined = TRUE]
    <3>1. Sync(x, down) /\ msg.k = "join" /\ count' = count
      BY <1>4, <2>1 DEF Enter
    <3>2. /\ x \in Members /\ x.pub = member.pub /\ x.sub = member.sub /\ x.sess = member.sess
          /\ x.enabled = member.enabled /\ x.joined
      BY <1>1 DEF Members
    <3> HIDE DEF msg, x
    <3>3. Told(x)
      BY <1>1, <2>1, <3>1, <3>2 DEF Told, Changes, Members, Counts
    <3> QED BY <3>2, <3>3
  <2>2. CASE ~member.enabled
    <3>1. Denied
      BY <1>4, <2>2 DEF Denied, Enter, Answer
    <3> QED BY <3>1
  <2> QED BY <2>1, <2>2
<1>5. CASE Depart(msg)
  <2> DEFINE x == [member EXCEPT !.joined = FALSE, !.pub = 0]
  <2>1. Sync(x, down) /\ msg.k = "leave" /\ count' = count
    BY <1>5 DEF Depart
  <2>2. x \in Members /\ x.pub = 0 /\ x.sub = member.sub /\ x.sess = member.sess /\ ~x.joined
    BY <1>1 DEF Members
  <2> HIDE DEF msg, x
  <2>3. Told(x)
    BY <1>1, <2>1, <2>2 DEF Told, Changes, Members, Counts
  <2> QED BY <2>2, <2>3
<1>6. CASE Publish(msg)
  <2>1. CASE member.enabled /\ member.joined /\ member.pub = 0
    <3> DEFINE x == [member EXCEPT !.pub = count.pubs + 1]
    <3>1. /\ Sync(x, down) /\ msg.k = "publish" /\ count' = [count EXCEPT !.pubs = @ + 1]
      BY <1>6, <2>1 DEF Publish
    <3>2. /\ x \in Members /\ x.pub = count.pubs + 1 /\ x.sub = member.sub /\ x.sess = member.sess
          /\ x.enabled = member.enabled /\ x.joined = member.joined
      BY <1>1 DEF Members, Counts
    <3>3. count' \in Counts /\ count'.pubs = count.pubs + 1 /\ count'.sessions = count.sessions
      BY <1>1, <3>1 DEF Counts
    <3>4. count.pubs \in Nat
      BY <1>1 DEF Counts
    <3> HIDE DEF msg, x
    <3>5. Told(x)
      BY <1>1, <2>1, <3>1, <3>2, <3>3, <3>4 DEF Told, Changes
    <3> QED BY <3>2, <3>5
  <2>2. CASE member.enabled /\ member.joined /\ member.pub # 0
    <3>1. Sync(member, down) /\ msg.k = "publish" /\ count' = count
      BY <1>6, <2>2 DEF Publish
    <3> HIDE DEF msg
    <3>2. Told(member)
      BY <1>1, <2>2, <3>1 DEF Told, Changes, Members, Counts
    <3> QED BY <1>1, <3>2
  <2>3. CASE ~(member.enabled /\ member.joined)
    <3>1. Denied
      BY <1>6, <2>3 DEF Denied, Publish, Answer
    <3> QED BY <3>1
  <2> QED BY <2>1, <2>2, <2>3
<1>7. CASE Unpublish(msg)
  <2>1. CASE msg.pub = member.pub
    <3> DEFINE x == [member EXCEPT !.pub = 0]
    <3>1. Sync(x, down) /\ msg.k = "unpublish" /\ count' = count
      BY <1>7, <2>1 DEF Unpublish
    <3>2. x \in Members /\ x.pub = 0 /\ x.sub = member.sub /\ x.sess = member.sess
      BY <1>1 DEF Members
    <3> HIDE DEF msg, x
    <3>3. Told(x)
      BY <1>1, <2>1, <3>1, <3>2 DEF Told, Changes, Members, Counts
    <3> QED BY <3>2, <3>3
  <2>2. CASE msg.pub # member.pub
    <3>1. Sync(member, down) /\ msg.k = "unpublish" /\ count' = count
      BY <1>7, <2>2 DEF Unpublish
    <3> HIDE DEF msg
    <3>2. Told(member)
      BY <1>1, <2>2, <3>1 DEF Told, Changes, Members, Counts
    <3> QED BY <1>1, <3>2
  <2> QED BY <2>1, <2>2
<1> QED BY <1>2, <1>3, <1>4, <1>5, <1>6, <1>7

(* A room state for a page that just subscribed.                           *)
LEMMA SubscribedTold ==
  ASSUME Subscribing, TruthInv, UNCHANGED page, NEW x \in Members, x.sub = member.sess,
         x.sess = member.sess, member.sess # 0, x.pub # 0 => x.enabled /\ x.joined, x.pub = 0,
         Sync(x, down), up' = <<>>
  PROVE  Attending'
<1> DEFINE note == View(x)
<1>1. member' = x /\ down' = <<note>>
  <2>1. Present(x)
    BY DEF Present
  <2>2. member' = x /\ down' = Append(down, View(x)) /\ down = <<>>
    BY <2>1, SyncIs DEF Subscribing
  <2> QED BY <2>2
<1>2. note \in Notes /\ note.k = "state" /\ Agrees(note, x)
  BY DEF View, Notes, States, Members, Agrees
<1>3. page.room.pub = 0 /\ page.retired = {}
  <2>1. page.room.pub = 0
    BY DEF Subscribing, NoRoom
  <2> QED BY <2>1 DEF TruthInv, Kept
<1> HIDE DEF note
<1>4. Len(<<note>>) = 1 /\ 1 \in 0..1 /\ Shown(<<note>>, 1) /\ At(page.room, <<note>>, 1) = note
  BY <1>2 DEF Shown, At
<1>5. Caught(page.room, <<note>>, x)
  BY <1>2, <1>4 DEF Caught
<1>6. At(page.room, <<note>>, 0).pub = 0
  BY <1>3 DEF At
<1>7. Lasting(page.room, {}, <<note>>) /\ Over(page.room, <<note>>, x)
  <2>1. \A i, k \in 0..1 : i < k => i = 0
    OBVIOUS
  <2> QED BY <1>4, <1>6, <2>1 DEF Lasting, Over
<1>8. Sent(<<>>, {}, x)
  BY DEF Sent
<1>9. \A i \in DOMAIN <<note>> : <<note>>[i].k # "authenticated"
  BY <1>2
<1> QED BY <1>1, <1>3, <1>5, <1>7, <1>8, <1>9 DEF Attending, Subscribing, Heard

LEMMA RetiredTyped ==
  ASSUME TruthInv, MicInv
  PROVE  page.retired \subseteq 1..count.pubs /\ page.retired \in SUBSET ({page.room.pub} \ {0})
<1>1. page.room \in Rooms /\ page.room.pub <= count.pubs /\ count.pubs \in Nat
  BY RoomsBounded DEF TruthInv, MicInv
<1>2. page.room.pub \in Nat
  BY <1>1 DEF Rooms
<1> QED BY <1>1, <1>2 DEF TruthInv, Kept

(* The types of a step in which the member is synchronized.                *)
LEMMA SyncTyped ==
  ASSUME Typed, MicInv, UNCHANGED <<page, request, asked, stray>>, NEW x, NEW withdrawn,
         Changes(x, withdrawn), Sync(x, down), x.pub <= count'.pubs,
         x.sub \in {member.sub, member.sess},
         count' \in Counts, count'.sessions = count.sessions, count'.pubs >= count.pubs,
         up' = up \/ (up # <<>> /\ up' = Tail(up))
  PROVE  Typed'
<1>1. /\ x \in Members /\ x.sess = member.sess /\ (x.pub # 0 => x.enabled /\ x.joined)
  BY DEF Changes
<1>2. member.sess <= count.sessions /\ member.sub <= count.sessions
  BY MemberTyped
<1>3. /\ member' \in Members /\ member'.sess = member.sess /\ member'.sub <= count.sessions
      /\ member'.pub # 0 => member'.enabled /\ member'.joined
      /\ member'.pub = x.pub \/ member'.pub = 0
  BY <1>1, <1>2, SyncIs
<1>4. member'.pub <= count'.pubs
  BY <1>3 DEF Counts
<1>5. View(x) \in Notes /\ View(x).pub = x.pub
  BY <1>1 DEF View, Notes, States, Members
<1>6. down' = down \/ down' = Append(down, View(x))
  BY <1>1, SyncIs
<1>7. \/ down' = down
      \/ \E note \in Notes : note.pub <= count'.pubs /\ down' = Append(down, note)
  BY <1>5, <1>6
<1> QED BY <1>3, <1>4, <1>7, SpokenTyped

LEMMA HandleCommandTruth == ASSUME TruthInv, MicInv, HandleCommand PROVE TruthInv'
<1> DEFINE msg == Head(up)
           withdrawn == \/ msg.k = "unpublish" /\ msg.pub = member.pub
                        \/ msg.k = "subscribe" /\ member.sub # member.sess
<1>1. UNCHANGED <<page, request, asked, stray>> /\ up # <<>> /\ up' = Tail(up)
  BY DEF HandleCommand
<1>2. /\ Typed /\ Kept(page, stray, asked) /\ up \in Seq(Commands) /\ count \in Counts
      /\ \A i \in DOMAIN up : up[i].pub <= count.pubs /\ (up[i].k = "unpublish" => up[i].pub # 0)
      /\ member.pub \in Nat /\ count.pubs \in Nat
  BY MemberTyped DEF TruthInv, Typed, Members, Counts
<1>3. Kept(page, stray, asked)'
  BY <1>1, <1>2 DEF Kept
<1>4. page.sock # 0 => Subscribing \/ Attending
  BY <1>1 DEF TruthInv, Linking, Dropped, Greeted
<1>5. page.retired \subseteq 1..count.pubs
  BY RetiredTyped
<1>6. 1 \in DOMAIN up /\ msg = up[1]
  BY <1>1, <1>2
<1>7. ASSUME NEW x \in Members, Sync(x, down), Changes(x, withdrawn), x.pub <= count'.pubs,
             x.sub = (IF msg.k = "subscribe" THEN member.sess ELSE member.sub),
             count' \in Counts, count'.sessions = count.sessions, count'.pubs >= count.pubs,
             withdrawn => x.pub = 0
      PROVE  TruthInv'
  <2>1. Typed'
    BY <1>1, <1>2, <1>7, SyncTyped
  <2>2. x.sess = member.sess /\ x.pub \in {member.pub, 0, count.pubs + 1}
        /\ (x.pub # 0 => x.enabled /\ x.joined)
    BY <1>7 DEF Changes
  <2>3. CASE Subscribing /\ page.sock # 0
    <3>1. msg.k = "subscribe" /\ Tail(up) = <<>> /\ withdrawn /\ member.sess # 0
      BY <2>3 DEF Subscribing, Msg
    <3>2. Attending'
      BY <1>1, <1>7, <2>2, <2>3, <3>1, SubscribedTold
    <3> QED BY <1>3, <2>1, <3>2 DEF TruthInv, Linking
  <2>4. CASE Attending /\ page.sock # 0
    <3>1. member.sess # 0 /\ member.sub = member.sess /\ x.sub = member.sess
      BY <1>7, <2>4 DEF Attending
    <3>2. withdrawn => msg.k = "unpublish" /\ msg.pub = member.pub
      BY <3>1
    <3>3. withdrawn => member.pub \in page.retired
      BY <1>6, <2>4, <3>2 DEF Attending, Sent
    <3>4. Sent(up, page.retired, member)
      BY <2>4 DEF Attending
    <3>5. Head(up).k = "unpublish" /\ Head(up).pub = member.pub => x.pub = 0
      BY <1>7
    <3>6. Sent(up', page.retired, x)
      BY <1>1, <1>2, <1>5, <2>2, <3>4, <3>5, SentHandled
    <3> HIDE DEF withdrawn
    <3>7. Attending'
      BY <1>1, <1>7, <2>4, <3>1, <3>3, <3>6, AttendingTold
    <3> QED BY <1>3, <2>1, <3>7 DEF TruthInv, Linking
  <2>5. CASE page.sock = 0
    BY <1>1, <1>3, <2>1, <2>5 DEF TruthInv, Linking
  <2> QED BY <1>4, <2>3, <2>4, <2>5
<1>8. ASSUME msg.k \in {"join", "publish"}, member' = member, count' = count,
             NEW code \in {"not-enabled", "not-allowed"}, down' = Append(down, Msg(code, 0))
      PROVE  TruthInv'
  <2> DEFINE note == Msg(code, 0)
  <2>1. note \in Notes /\ note.pub = 0 /\ note.k \notin {"state", "authenticated"}
    BY <1>8 DEF Msg, Notes
  <2> HIDE DEF note
  <2>2. Typed'
    <3>1. member \in Members /\ member.sub <= count.sessions /\ member.pub <= count.pubs
      BY <1>2, MemberTyped
    <3>2. member.pub # 0 => member.enabled /\ member.joined
      BY <1>2 DEF Typed
    <3>3. down' = Append(down, note) /\ note.pub <= count'.pubs
      BY <1>2, <1>8, <2>1 DEF note
    <3>4. count'.pubs >= count.pubs
      BY <1>2, <1>8
    <3> QED BY <1>1, <1>2, <1>8, <2>1, <3>1, <3>2, <3>3, <3>4, SpokenTyped
  <2>3. CASE Subscribing
    BY <1>8, <2>3 DEF Subscribing, Msg
  <2>4. CASE Attending
    <3>1. down \in Seq(Notes)
      BY <1>2 DEF Typed
    <3>2. Heard(page.room, page.retired, Append(down, note), member)
      BY <2>1, <2>4, <3>1, HeardAnswer DEF Attending
    <3>3. member.pub \in {member.pub, 0, count.pubs + 1} /\ Sent(up, page.retired, member)
      BY <2>4 DEF Attending
    <3>4. Sent(up', page.retired, member)
      BY <1>1, <1>2, <1>5, <1>8, <3>3, SentHandled
    <3>5. \A i \in DOMAIN Append(down, note) : Append(down, note)[i].k # "authenticated"
      <4>1. \A i \in DOMAIN Append(down, note) :
              (i \in DOMAIN down /\ Append(down, note)[i] = down[i]) \/ Append(down, note)[i] = note
        BY <3>1
      <4> QED BY <2>1, <2>4, <4>1 DEF Attending
    <3> QED BY <1>1, <1>3, <1>8, <2>2, <2>4, <3>2, <3>4, <3>5
            DEF TruthInv, Linking, Attending, note
  <2>5. CASE page.sock = 0
    BY <1>1, <1>3, <2>2, <2>5 DEF TruthInv, Linking
  <2> QED BY <1>4, <2>3, <2>4, <2>5
<1> QED BY <1>2, <1>7, <1>8, CommandIs

(* The Host or the others change the room.                                 *)
LEMMA RoomChangesTruth == ASSUME TruthInv, MicInv, HostToggles \/ OthersChange PROVE TruthInv'
<1>1. /\ UNCHANGED <<page, request, asked, stray>> /\ up' = up
      /\ count' \in Counts /\ count'.sessions = count.sessions /\ count'.pubs = count.pubs
  BY MemberTyped DEF TruthInv, HostToggles, OthersChange, Changed, Counts
<1>2. /\ Typed /\ Kept(page, stray, asked) /\ up \in Seq(Commands) /\ count \in Counts
      /\ \A i \in DOMAIN up : up[i].pub <= count.pubs /\ (up[i].k = "unpublish" => up[i].pub # 0)
      /\ member \in Members /\ member.pub \in Nat /\ count.pubs \in Nat /\ member.pub <= count.pubs
      /\ member.pub # 0 => member.enabled /\ member.joined
  BY MemberTyped DEF TruthInv, Typed, Members, Counts
<1>3. PICK x : Sync(x, down) /\ Changes(x, FALSE) /\ x.sub = member.sub /\ x.pub <= count.pubs
  <2>1. CASE OthersChange
    <3>1. Sync(member, down)
      BY <2>1 DEF OthersChange
    <3>2. Changes(member, FALSE)
      BY <1>2 DEF Changes
    <3> QED BY <1>2, <3>1, <3>2
  <2>2. CASE HostToggles /\ member.enabled
    <3> DEFINE x == [member EXCEPT !.enabled = FALSE, !.joined = FALSE, !.pub = 0]
    <3>1. Sync(x, down)
      BY <2>2 DEF HostToggles
    <3>2. x \in Members /\ x.sess = member.sess /\ x.sub = member.sub /\ x.pub = 0 /\ ~x.enabled
      BY <1>2 DEF Members
    <3> HIDE DEF x
    <3>3. Changes(x, FALSE)
      BY <3>2 DEF Changes
    <3>4. x.pub <= count.pubs
      BY <1>2, <3>2
    <3> QED BY <3>1, <3>2, <3>3, <3>4
  <2>3. CASE HostToggles /\ ~member.enabled
    <3> DEFINE x == [member EXCEPT !.enabled = TRUE]
    <3>1. Sync(x, down)
      BY <2>3 DEF HostToggles
    <3>2. /\ x \in Members /\ x.sess = member.sess /\ x.sub = member.sub /\ x.pub = member.pub
          /\ member.pub = 0
      BY <1>2, <2>3 DEF Members
    <3> HIDE DEF x
    <3>3. Changes(x, FALSE)
      BY <3>2 DEF Changes
    <3> QED BY <1>2, <3>1, <3>2, <3>3
  <2> QED BY <2>1, <2>2, <2>3
<1>4. /\ x \in Members /\ x.sess = member.sess /\ (x.pub # 0 => x.enabled /\ x.joined)
      /\ x.pub \in {member.pub, 0, count.pubs + 1}
  BY <1>3 DEF Changes
<1>5. Typed' /\ Kept(page, stray, asked)'
  <2>1. count'.pubs >= count.pubs
    BY <1>1, <1>2
  <2>2. Typed'
    BY <1>1, <1>2, <1>3, <2>1, SyncTyped
  <2> QED BY <1>1, <1>2, <2>2 DEF Kept
<1>6. ASSUME page.sock # 0, ~Attending
      PROVE  Linking'
  <2>1. Dropped \/ Greeted \/ Subscribing
    BY <1>6 DEF TruthInv, Linking
  <2>2. ~Present(x)
    BY <1>3, <1>4, <2>1 DEF Present, Dropped, Greeted, Subscribing
  <2>3. member'.sess = member.sess /\ member'.sub = member.sub /\ down' = down
    BY <1>3, <1>4, <2>2, SyncIs
  <2>4. Dropped' \/ Greeted' \/ Subscribing'
    BY <1>1, <2>1, <2>3 DEF Dropped, Greeted, Subscribing
  <2> QED BY <2>4 DEF Linking
<1>7. ASSUME page.sock # 0, Attending
      PROVE  Linking'
  <2>1. member.sess # 0 /\ x.sub = member.sess /\ Sent(up, page.retired, member)
    BY <1>3, <1>7 DEF Attending
  <2>2. page.retired \subseteq 1..count.pubs
    BY RetiredTyped
  <2>3. Sent(up', page.retired, x)
    BY <1>1, <1>2, <1>4, <2>1, <2>2, SentChanged
  <2>4. Attending'
    BY <1>1, <1>3, <1>7, <2>1, <2>3, AttendingTold
  <2> QED BY <2>4 DEF Linking
<1> QED BY <1>1, <1>5, <1>6, <1>7 DEF TruthInv, Linking

(* The server loses the session, and the grace of one it lost ends.        *)
LEMMA SessionEndsTruth == ASSUME TruthInv, MicInv, ServerLoses \/ GraceEnds PROVE TruthInv'
<1>1. /\ UNCHANGED <<page, request, asked, stray>>
      /\ count' \in Counts /\ count'.sessions = count.sessions /\ count'.pubs = count.pubs
      /\ up' \in {up, <<>>} /\ down' \in {down, <<>>}
  BY MemberTyped DEF TruthInv, ServerLoses, GraceEnds, Counts
<1>2. Typed /\ Kept(page, stray, asked) /\ member \in Members /\ count \in Counts
  BY MemberTyped DEF TruthInv
<1>3. /\ member' \in Members /\ member'.sess = 0 /\ member'.pub = 0
      /\ member'.sub \in {member.sub, 0}
  <2>1. CASE GraceEnds
    BY <1>2, <2>1 DEF GraceEnds, Members
  <2>2. CASE ServerLoses
    <3> DEFINE x == [member EXCEPT !.sess = 0]
    <3>1. x \in Members /\ x.sess = 0 /\ x.sub = member.sub
      BY <1>2 DEF Members
    <3>2. member' = Synced(x)
      BY <2>2 DEF ServerLoses
    <3> HIDE DEF x
    <3>3. member' = [x EXCEPT !.pub = 0]
      BY <3>1, <3>2 DEF Synced, Present
    <3> QED BY <3>1, <3>3 DEF Members
  <2> QED BY <2>1, <2>2
<1>4. Typed'
  <2>1. member'.sub \in 0..MaxSessions /\ member'.sess \in 0..MaxSessions /\ member'.sub <= count.sessions
        /\ member'.sess <= count.sessions /\ member'.pub \in 0..count.pubs
    BY <1>2, <1>3, MemberTyped, RoomVoiceAssumption DEF Typed, Members, Counts
  <2>2. member' \in [sess : 0..MaxSessions, sub : 0..MaxSessions, joined : BOOLEAN,
                     enabled : BOOLEAN, pub : 0..count.pubs]
    BY <1>3, <2>1 DEF Members
  <2>3. TypeOK'
    BY <1>1, <1>2, <2>2 DEF Typed, TypeOK
  <2>4. /\ up' \in Seq(Commands)
        /\ \A i \in DOMAIN up' : up'[i].pub <= count.pubs /\ (up'[i].k = "unpublish" => up'[i].pub # 0)
    <3>1. CASE up' = up
      BY <1>2, <3>1 DEF Typed
    <3>2. CASE up' = <<>>
      BY <3>2
    <3> QED BY <1>1, <3>1, <3>2
  <2>5. down' \in Seq(Notes) /\ \A i \in DOMAIN down' : down'[i].pub <= count.pubs
    <3>1. CASE down' = down
      BY <1>2, <3>1 DEF Typed
    <3>2. CASE down' = <<>>
      BY <3>2
    <3> QED BY <1>1, <3>1, <3>2
  <2> QED BY <1>1, <1>2, <1>3, <2>1, <2>3, <2>4, <2>5 DEF Typed
<1>5. Linking'
  <2> SUFFICES ASSUME page.sock # 0 PROVE Dropped'
    BY <1>1 DEF Linking
  <2>1. CASE GraceEnds
    <3>1. member.sess = 0
      BY <2>1 DEF GraceEnds
    <3>2. Dropped
      BY <3>1 DEF TruthInv, Linking, Greeted, Subscribing, Attending
    <3> QED BY <1>3, <2>1, <3>2 DEF GraceEnds, Dropped
  <2>2. CASE ServerLoses
    <3>1. member.sess # 0
      BY <2>2 DEF ServerLoses
    <3>2. page.sock = member.sess
      BY <3>1 DEF TruthInv, Linking, Dropped, Greeted, Subscribing, Attending
    <3> QED BY <1>3, <2>2, <3>2 DEF ServerLoses, Dropped
  <2> QED BY <2>1, <2>2
<1> QED BY <1>1, <1>2, <1>4, <1>5 DEF TruthInv, Kept

-----------------------------------------------------------------------------
(* The page's steps.                                                       *)

(* The types of what a page does.                                          *)
LEMMA PageTyped ==
  ASSUME Typed, MicInv, MicInv', UNCHANGED member,
         count'.pubs = count.pubs, count'.sessions = count.sessions,
         stray' \in BOOLEAN, asked' \subseteq Requests,
         page'.room \in Rooms, page'.room.pub <= count.pubs, page'.sock \in {page.sock, 0},
         page'.on \in BOOLEAN, page'.on => page'.sock # 0,
         up' \in Seq(Commands),
         \A i \in DOMAIN up' : up'[i].pub <= count.pubs /\ (up'[i].k = "unpublish" => up'[i].pub # 0),
         down' \in Seq(Notes), \A i \in DOMAIN down' : down'[i].pub <= count.pubs
  PROVE  Typed'
<1>1. /\ page'.capture \in Requests \cup {0} /\ page'.publishing \in Requests \cup {0}
      /\ request' \in [Requests -> Phases]
  BY DEF MicInv, Shape, Now
<1>2. page'.room \in [known : BOOLEAN, enabled : BOOLEAN, joined : BOOLEAN, pub : 0..count.pubs]
  BY DEF Rooms, MicInv
<1>3. TypeOK'
  BY <1>1, <1>2 DEF Typed, TypeOK, Phases
<1>4. page'.sock \in 0..count.sessions
  BY DEF Typed, MicInv
<1> QED BY <1>3, <1>4 DEF Typed

(* A new socket waits to be greeted.                                       *)
LEMMA ConnectTruth == ASSUME TruthInv, MicInv, MicInv', Connect PROVE TruthInv'
<1>1. /\ page.sock = 0 /\ count.sessions < MaxSessions
      /\ count' = [count EXCEPT !.sessions = @ + 1]
      /\ page' = [page EXCEPT !.sock = count.sessions + 1]
      /\ member' = [member EXCEPT !.sess = count.sessions + 1]
      /\ up' = <<>> /\ down' = <<Msg("authenticated", 0)>>
      /\ UNCHANGED <<request, asked, stray>>
  BY DEF Connect
<1>2. Typed /\ Kept(page, stray, asked) /\ member \in Members /\ count \in Counts
      /\ WholePage(page) /\ MaxSessions \in Nat /\ member.sub <= count.sessions
  BY MemberTyped, RoomVoiceAssumption DEF TruthInv, MicInv, Shape, Now
<1>3. /\ WholePage(page') /\ page'.sock = count.sessions + 1 /\ page'.room = page.room
      /\ page'.on = page.on /\ page'.source = page.source /\ page'.capture = page.capture
      /\ page'.retired = page.retired /\ page'.publishing = page.publishing
  BY <1>1, <1>2 DEF WholePage
<1>4. ~page.on
  BY <1>1, <1>2 DEF Typed
<1>5. Kept(page, stray, asked)'
  BY <1>1, <1>2, <1>3 DEF Kept
<1>6. /\ count'.sessions = count.sessions + 1 /\ count'.pubs = count.pubs /\ count.sessions \in Nat
      /\ member' \in Members /\ member'.sess = count.sessions + 1 /\ member'.sub = member.sub
      /\ member'.pub = member.pub /\ member'.enabled = member.enabled /\ member'.joined = member.joined
      /\ member.sub \in Nat
  BY <1>1, <1>2 DEF Counts, Members
<1>7. Typed'
  <2>1. member' \in [sess : 0..MaxSessions, sub : 0..MaxSessions, joined : BOOLEAN,
                     enabled : BOOLEAN, pub : 0..count'.pubs]
    <3>1. member'.sess \in 0..MaxSessions /\ member'.sub \in 0..MaxSessions
          /\ member'.pub \in 0..count'.pubs
      BY <1>1, <1>2, <1>6 DEF Typed, TypeOK
    <3> QED BY <1>6, <3>1 DEF Members
  <2>2. TypeOK'
    BY <1>1, <1>2, <1>3, <1>6, <2>1 DEF Typed, TypeOK
  <2>3. Msg("authenticated", 0) \in Notes /\ Msg("authenticated", 0).pub <= count'.pubs
    BY <1>2, <1>6 DEF Msg, Notes, Counts
  <2>4. down' \in Seq(Notes) /\ \A i \in DOMAIN down' : down'[i].pub <= count'.pubs
    <3> DEFINE note == Msg("authenticated", 0)
    <3>1. note \in Notes /\ note.pub <= count'.pubs /\ down' = <<note>>
      BY <1>1, <2>3
    <3> HIDE DEF note
    <3> QED BY <3>1
  <2>5. up' \in Seq(Commands) /\ DOMAIN up' = {}
    BY <1>1
  <2> QED BY <1>1, <1>2, <1>3, <1>4, <1>6, <2>2, <2>4, <2>5 DEF Typed
<1>8. Greeted'
  BY <1>1, <1>2, <1>3, <1>4, <1>6 DEF Greeted
<1> QED BY <1>5, <1>7, <1>8 DEF TruthInv, Linking

(* What a page sends at once: a withdrawal, a command, or both.            *)
Sendable(wire, n) ==
    /\ wire \in Seq(Commands)
    /\ \A i \in DOMAIN wire : wire[i].pub <= n /\ (wire[i].k = "unpublish" => wire[i].pub # 0)

LEMMA SendableMore ==
  ASSUME NEW n \in Nat, NEW wire, Sendable(wire, n), NEW msg \in Commands, msg.pub <= n,
         msg.k = "unpublish" => msg.pub # 0
  PROVE  Sendable(Append(wire, msg), n) /\ Append(wire, msg) = wire \o <<msg>>
<1>1. wire \in Seq(Commands)
  BY DEF Sendable
<1>2. \A i \in DOMAIN Append(wire, msg) :
        (i \in DOMAIN wire /\ Append(wire, msg)[i] = wire[i]) \/ Append(wire, msg)[i] = msg
  BY <1>1
<1>3. Append(wire, msg) \in Seq(Commands) /\ Append(wire, msg) = wire \o <<msg>>
  BY <1>1
<1> QED BY <1>2, <1>3 DEF Sendable

Said(first, rest, q, retired, more) ==
    /\ \/ first = <<>> /\ more = retired
       \/ first = <<Msg("unpublish", q)>> /\ q # 0 /\ more = retired \cup {q}
    /\ \/ rest = <<>>
       \/ \E k \in {"subscribe", "join", "leave", "publish"} : rest = <<Msg(k, 0)>>

LEMMA SaidIs ==
  ASSUME NEW n \in Nat, NEW q \in 0..n, NEW wire, NEW retired, NEW more, NEW m,
         NEW first, NEW rest, Said(first, rest, q, retired, more),
         Sendable(wire, n)
  PROVE  /\ Sendable(wire \o (first \o rest), n)
         /\ Sent(wire, retired, m) => Sent(wire \o (first \o rest), more, m)
<1> DEFINE mid == wire \o first
<1>1. wire \in Seq(Commands)
  BY DEF Sendable
<1>2. first \in Seq(Commands) /\ Sendable(mid, n) /\ (Sent(wire, retired, m) => Sent(mid, more, m))
  <2>1. CASE first = <<>> /\ more = retired
    <3>1. mid = wire
      BY <1>1, <2>1
    <3> QED BY <2>1, <3>1
  <2>2. CASE first = <<Msg("unpublish", q)>> /\ q # 0 /\ more = retired \cup {q}
    <3> DEFINE msg == Msg("unpublish", q)
    <3>1. msg \in Commands /\ msg.k = "unpublish" /\ msg.pub = q
      BY DEF Msg, Commands
    <3>2. first = <<msg>>
      BY <2>2
    <3> HIDE DEF msg
    <3>3. Sendable(Append(wire, msg), n) /\ Append(wire, msg) = mid
      BY <2>2, <3>1, <3>2, SendableMore
    <3>4. Sent(wire, retired, m) => Sent(Append(wire, msg), more, m)
      <4>1. more = retired \cup (IF msg.k = "unpublish" THEN {msg.pub} ELSE {})
        BY <2>2, <3>1
      <4> QED BY <1>1, <3>1, <4>1, SentCommand
    <3> QED BY <3>1, <3>2, <3>3, <3>4
  <2> QED BY <2>1, <2>2 DEF Said
<1>3. CASE rest = <<>>
  <2>1. first \o rest = first
    BY <1>2, <1>3
  <2> QED BY <1>2, <2>1
<1>4. ASSUME NEW k \in {"subscribe", "join", "leave", "publish"}, rest = <<Msg(k, 0)>>
      PROVE  /\ Sendable(wire \o (first \o rest), n)
             /\ Sent(wire, retired, m) => Sent(wire \o (first \o rest), more, m)
  <2> DEFINE msg == Msg(k, 0)
  <2>1. msg \in Commands /\ msg.k # "unpublish" /\ msg.pub = 0
    BY DEF Msg, Commands
  <2>2. rest = <<msg>>
    BY <1>4
  <2> HIDE DEF msg, mid
  <2>3. Sendable(Append(mid, msg), n) /\ Append(mid, msg) = mid \o rest
    BY <1>2, <2>1, <2>2, SendableMore
  <2>4. wire \o (first \o rest) = mid \o rest
    BY <1>1, <1>2, <2>1, <2>2 DEF mid
  <2>5. Sent(mid, more, m) => Sent(Append(mid, msg), more, m)
    <3>1. mid \in Seq(Commands) /\ more = more \cup (IF msg.k = "unpublish" THEN {msg.pub} ELSE {})
      BY <1>2, <2>1 DEF Sendable
    <3> QED BY <2>1, <3>1, SentCommand
  <2> QED BY <1>2, <2>3, <2>4, <2>5
<1> QED BY <1>3, <1>4 DEF Said

(* A step of the page that leaves the socket and the room as they are.     *)
LEMMA PageSpeaks ==
  ASSUME TruthInv, MicInv, MicInv', UNCHANGED <<member, down, stray>>,
         count'.pubs = count.pubs, count'.sessions = count.sessions, asked' \subseteq Requests,
         page'.room = page.room, page'.sock = page.sock, page'.on = page.on,
         Kept(page, stray, asked)', NEW first, NEW rest,
         Said(first, rest, page.room.pub, page.retired, page'.retired),
         up' = IF page.sock = member.sess THEN up \o (first \o rest) ELSE up,
         first \o rest = <<>> \/ (page.on /\ ~Subscribing),
         Subscribing => page'.capture = page.capture /\ page'.source = page.source
  PROVE  TruthInv'
<1>1. /\ Typed /\ page.room \in Rooms /\ page.room.pub \in 0..count.pubs /\ count.pubs \in Nat
      /\ Sendable(up, count.pubs)
  <2>1. Typed /\ page.room \in Rooms /\ page.room.pub <= count.pubs /\ count.pubs \in Nat
    BY RoomsBounded DEF TruthInv, MicInv
  <2> QED BY <2>1 DEF Rooms, Sendable, Typed
<1>2. /\ Sendable(up \o (first \o rest), count.pubs)
      /\ Sent(up, page.retired, member) => Sent(up \o (first \o rest), page'.retired, member)
  BY <1>1, SaidIs
<1>3. first \o rest = <<>> => up \o (first \o rest) = up
  BY <1>1 DEF Sendable
<1>4. Typed'
  <2>1. Sendable(up', count.pubs)
    BY <1>1, <1>2
  <2>2. /\ up' \in Seq(Commands)
        /\ \A i \in DOMAIN up' : up'[i].pub <= count.pubs /\ (up'[i].k = "unpublish" => up'[i].pub # 0)
    BY <2>1 DEF Sendable
  <2>3. down' \in Seq(Notes) /\ \A i \in DOMAIN down' : down'[i].pub <= count.pubs
    BY <1>1 DEF Typed
  <2>4. /\ stray' \in BOOLEAN /\ page'.on \in BOOLEAN /\ (page'.on => page'.sock # 0)
        /\ page'.sock \in {page.sock, 0}
    BY <1>1 DEF Typed
  <2>5. page'.room \in Rooms /\ page'.room.pub <= count.pubs
    BY <1>1
  <2> QED BY <1>1, <2>2, <2>3, <2>4, <2>5, PageTyped
<1>5. Linking'
  <2> SUFFICES ASSUME page.sock # 0 PROVE Linking'
    BY DEF Linking
  <2>1. CASE Dropped
    <3>1. up' = up
      BY <2>1 DEF Dropped
    <3> QED BY <2>1, <3>1 DEF Linking, Dropped
  <2>2. CASE Greeted
    <3>1. up' = up
      BY <1>3, <2>2 DEF Greeted
    <3> QED BY <2>2, <3>1 DEF Linking, Greeted
  <2>3. CASE Subscribing
    <3>1. up' = up
      BY <1>3, <2>3
    <3> QED BY <2>3, <3>1 DEF Linking, Subscribing
  <2>4. CASE Attending
    <3>1. up' = up \o (first \o rest)
      BY <2>4 DEF Attending
    <3>2. Sent(up, page.retired, member)
      BY <2>4 DEF Attending
    <3>3. page.retired \subseteq page'.retired
      BY DEF Said
    <3>4. Heard(page.room, page'.retired, down, member)
      BY <2>4, <3>3, HeardRetired DEF Attending
    <3> QED BY <1>2, <2>4, <3>1, <3>2, <3>4 DEF Linking, Attending
  <2> QED BY <2>1, <2>2, <2>3, <2>4 DEF TruthInv, Linking
<1> QED BY <1>4, <1>5 DEF TruthInv

(* The page loses its socket, and starts over on the next one.             *)
LEMMA PageLosesTruth == ASSUME TruthInv, MicInv, MicInv', PageLoses PROVE TruthInv'
<1> DEFINE d == Disconnected(Now)
<1>1. /\ Shape(d) /\ d.p.retired = {} /\ ~d.p.on /\ d.p.sock = page.sock /\ d.p.room = page.room
      /\ d.p.source = NoSource /\ d.p.capture = 0
  <2>1. Shape(Now) /\ Owned(Now, asked) /\ Now.p = page
    BY DEF MicInv, Now
  <2> QED BY <2>1, DisconnectedIs, DisconnectedSays
<1>2. /\ page' = [d.p EXCEPT !.sock = 0] /\ down' = <<>> /\ asked' = {}
      /\ UNCHANGED <<member, up, stray>>
      /\ count'.pubs = count.pubs /\ count'.sessions = count.sessions
  BY DEF PageLoses, MicInv
<1> HIDE DEF d
<1>3. /\ page'.sock = 0 /\ page'.retired = {} /\ ~page'.on /\ page'.room = page.room
      /\ page'.source = NoSource /\ page'.capture = 0 /\ page'.on \in BOOLEAN
  <2>1. Shape(Now)'
    BY DEF MicInv
  <2>2. WholePage(page')
    BY <2>1 DEF Shape, Now
  <2>3. d.p.on = FALSE
    BY <1>1, <1>2, <2>2 DEF Shape, WholePage
  <2> QED BY <1>1, <1>2, <2>3 DEF Shape, WholePage
<1>4. page.room \in Rooms /\ page.room.pub <= count.pubs
  BY RoomsBounded DEF TruthInv
<1>5. Typed'
  BY <1>2, <1>3, <1>4, PageTyped DEF TruthInv, Typed
<1>6. Kept(page, stray, asked)'
  BY <1>2, <1>3 DEF Kept
<1> QED BY <1>3, <1>5, <1>6 DEF TruthInv, Linking

LEMMA RestartedTruth ==
  ASSUME TruthInv, MicInv, MicInv', Receive, Restarted(Head(down))
  PROVE  TruthInv'
<1> DEFINE d == Disconnected(Now)
           c == [d EXCEPT !.p = [@ EXCEPT !.on = TRUE, !.room = NoRoom],
                          !.out = <<Msg("subscribe", 0)>>]
<1>1. /\ Shape(d) /\ d.p.retired = {} /\ d.p.sock = page.sock
      /\ d.p.source = NoSource /\ d.p.capture = 0
  <2>1. Shape(Now) /\ Owned(Now, asked) /\ Now.p = page
    BY DEF MicInv, Now
  <2> QED BY <2>1, DisconnectedIs, DisconnectedSays
<1>2. /\ page' = c.p /\ asked' = {} /\ UNCHANGED <<stray, member, count>> /\ down' = Tail(down)
      /\ up' = IF page.sock = member.sess THEN up \o c.out ELSE up
      /\ page.sock # 0 /\ down # <<>> /\ Head(down).k = "authenticated"
  BY DEF Restarted, Receive, Take
<1> HIDE DEF d
<1>3. c.p = [d.p EXCEPT !.on = TRUE, !.room = NoRoom] /\ c.out = <<Msg("subscribe", 0)>>
  BY <1>1 DEF Shape, Whole
<1> HIDE DEF c
<1>4. /\ page'.sock = page.sock /\ page'.on = TRUE /\ page'.room = NoRoom
      /\ page'.source = NoSource /\ page'.capture = 0 /\ page'.retired = {}
  BY <1>1, <1>2, <1>3 DEF Shape, WholePage
<1>5. Greeted
  <2>1. down \in Seq(Notes) /\ Head(down) = down[1] /\ 1 \in DOMAIN down
    BY <1>2 DEF TruthInv, Typed
  <2> QED BY <1>2, <2>1 DEF TruthInv, Linking, Dropped, Subscribing, Attending
<1>6. down' = <<>> /\ up' = <<Msg("subscribe", 0)>>
  <2>1. up = <<>> /\ down = <<Msg("authenticated", 0)>> /\ page.sock = member.sess
    BY <1>5 DEF Greeted
  <2> DEFINE note == Msg("authenticated", 0)
             msg == Msg("subscribe", 0)
  <2>2. up' = <<>> \o <<msg>> /\ down' = Tail(<<note>>)
    BY <1>2, <1>3, <2>1
  <2> HIDE DEF note, msg
  <2>3. up' = <<msg>> /\ down' = <<>>
    BY <2>2
  <2> QED BY <2>3 DEF msg
<1>7. page'.room \in Rooms /\ page'.room.pub = 0 /\ count.pubs \in Nat
  BY <1>4 DEF NoRoom, Rooms, MicInv
<1>8. Sendable(up', count.pubs)
  <2> DEFINE msg == Msg("subscribe", 0)
  <2>1. msg \in Commands /\ msg.pub = 0 /\ msg.k # "unpublish"
    BY DEF Msg, Commands
  <2> HIDE DEF msg
  <2>2. Sendable(<<msg>>, count.pubs)
    BY <1>7, <2>1 DEF Sendable
  <2> QED BY <1>6, <2>2 DEF msg
<1>9. Typed'
  <2>1. down' \in Seq(Notes) /\ \A i \in DOMAIN down' : down'[i].pub <= count.pubs
    BY <1>6
  <2>2. /\ up' \in Seq(Commands)
        /\ \A i \in DOMAIN up' : up'[i].pub <= count.pubs /\ (up'[i].k = "unpublish" => up'[i].pub # 0)
    BY <1>8 DEF Sendable
  <2>3. Typed /\ stray' \in BOOLEAN /\ asked' \subseteq Requests /\ page'.on \in BOOLEAN
    BY <1>2, <1>4 DEF TruthInv, Typed
  <2>4. page'.room.pub <= count.pubs /\ page'.sock \in {page.sock, 0} /\ page'.sock # 0
    BY <1>2, <1>4, <1>7
  <2> QED BY <1>2, <1>7, <2>1, <2>2, <2>3, <2>4, PageTyped
<1>10. Kept(page, stray, asked)'
  BY <1>2, <1>4 DEF Kept, NoRoom
<1>11. Subscribing'
  BY <1>2, <1>4, <1>5, <1>6 DEF Greeted, Subscribing
<1> QED BY <1>9, <1>10, <1>11 DEF TruthInv, Linking

LEMMA StateArrivedTruth ==
  ASSUME TruthInv, MicInv, MicInv', Receive, StateArrived(Head(down))
  PROVE  TruthInv'
<1> DEFINE m == Head(down)
           in == m.enabled /\ m.joined
           c == StateReceived(Now, m)
<1>1. /\ page.on /\ page.sock # 0 /\ down # <<>> /\ down' = Tail(down) /\ m.k = "state"
      /\ UNCHANGED <<member, count>> /\ page' = c.p
      /\ up' = (IF page.sock = member.sess THEN up \o c.out ELSE up)
      /\ stray' = (stray \/ (c.p.source # page.source /\ c.p.source.pub \in page.retired))
      /\ asked' = IF in THEN asked ELSE {}
  BY DEF Receive, StateArrived, Take
<1>2. Typed /\ Kept(page, stray, asked) /\ down \in Seq(Notes) /\ count.pubs \in Nat
      /\ page.room \in Rooms /\ page.room.pub <= count.pubs
  BY RoomsBounded DEF TruthInv, Typed, MicInv
<1>3. Attending
  BY <1>1 DEF TruthInv, Linking, Dropped, Greeted, Subscribing
<1>4. /\ 1 \in DOMAIN down /\ m = down[1] /\ m \in States /\ m.pub <= count.pubs
  <2>1. 1 \in DOMAIN down /\ m = down[1] /\ m \in Notes
    BY <1>1, <1>2
  <2> QED BY <1>1, <1>2, <2>1 DEF Notes, Typed
<1> HIDE DEF m
<1>5. m.enabled \in BOOLEAN /\ m.joined \in BOOLEAN /\ m.pub \in 0..count.pubs
  BY <1>2, <1>4 DEF States
<1>6. Shape(Now) /\ Owned(Now, asked) /\ Fed(Now) /\ Now.p = page /\ Now.out = <<>>
  BY DEF MicInv, Now
<1>7. /\ page'.room = [known |-> TRUE, enabled |-> m.enabled, joined |-> m.joined, pub |-> m.pub]
      /\ page'.on = page.on /\ page'.sock = page.sock
      /\ page'.source = NoSource /\ m.pub # 0 => m.pub \in page'.retired
      /\ \/ page'.source = NoSource \/ page'.source = page.source
         \/ page'.source.pub = m.pub /\ m.pub # 0
      /\ \/ c.out = <<>> /\ page'.retired = page.retired \cap {m.pub}
         \/ /\ c.out = Append(<<>>, Msg("unpublish", m.pub)) /\ page'.retired = {m.pub}
            /\ m.pub # 0 /\ m.pub \notin page.retired /\ page'.source = NoSource
      /\ in /\ page'.source = NoSource => page'.capture = page.capture
      /\ in /\ page.source # NoSource /\ page.source.pub = m.pub => page'.source # NoSource
  <2>1. Now.p.on
    BY <1>1, <1>6
  <2>2. /\ c.p.room = [known |-> TRUE, enabled |-> m.enabled, joined |-> m.joined, pub |-> m.pub]
        /\ c.p.on = Now.p.on /\ c.p.sock = Now.p.sock
        /\ c.p.source = NoSource /\ m.pub # 0 => m.pub \in c.p.retired
        /\ \/ c.p.source = NoSource \/ c.p.source = Now.p.source
           \/ c.p.source.pub = m.pub /\ m.pub # 0
        /\ \/ c.out = Now.out /\ c.p.retired = Now.p.retired \cap {m.pub}
           \/ /\ c.out = Append(Now.out, Msg("unpublish", m.pub)) /\ c.p.retired = {m.pub}
              /\ m.pub # 0 /\ m.pub \notin Now.p.retired /\ c.p.source = NoSource
        /\ in /\ c.p.source = NoSource => c.p.capture = Now.p.capture
        /\ in /\ Now.p.source # NoSource /\ Now.p.source.pub = m.pub => c.p.source # NoSource
    BY <1>6, <2>1, StateReceivedSays
  <2> HIDE DEF c
  <2> QED BY <1>1, <1>6, <2>2
<1>8. stray' = (stray \/ (page'.source # page.source /\ page'.source.pub \in page.retired))
  BY <1>1
<1> HIDE DEF c
<1>9. /\ page'.room \in Rooms /\ page'.room.pub = m.pub /\ page'.room.known
      /\ page'.room.enabled = m.enabled /\ page'.room.joined = m.joined
  BY <1>5, <1>7 DEF Rooms
<1>10. page.retired \in SUBSET ({page.room.pub} \ {0}) /\ page.retired \subseteq 1..count.pubs
  BY RetiredTyped
<1>11. /\ Heard(page'.room, page'.retired, Tail(down), member)
       /\ page.room.pub # 0 /\ m.pub # page.room.pub
          => member.pub # page.room.pub /\ (in => page.room.pub \in page.retired)
  <2>1. Follows(page.room, down, page'.room)
    BY <1>1, <1>4, <1>9 DEF Follows
  <2>2. page.retired \cap {page'.room.pub} \subseteq page'.retired
    BY <1>7, <1>9
  <2>3. IF down[1].k = "state" THEN page.retired \cap {page'.room.pub} \subseteq page'.retired
        ELSE page'.retired = page.retired
    BY <1>1, <1>4, <2>2
  <2>4. Heard(page.room, page.retired, down, member)
    BY <1>3 DEF Attending
  <2>5. /\ Heard(page'.room, page'.retired, Tail(down), member)
        /\ down[1].k = "state" /\ page.room.pub # 0 /\ page'.room.pub # page.room.pub
           => /\ member.pub # page.room.pub
              /\ page'.room.enabled /\ page'.room.joined => page.room.pub \in page.retired
    BY <1>1, <1>2, <1>10, <2>1, <2>3, <2>4, HeardNext
  <2> QED BY <1>1, <1>4, <1>9, <2>5
<1>12. /\ Sendable(up', count.pubs) /\ Sent(up', page'.retired, member)
  <2> DEFINE kept == page.retired \cap {m.pub}
  <2>1. Sent(up, kept, member)
    <3>1. \A q \in page.retired \ kept : q # member.pub
      BY <1>10, <1>11
    <3>2. Sent(up, page.retired, member)
      BY <1>3 DEF Attending
    <3> QED BY <3>1, <3>2, SentForgotten
  <2>2. Said(c.out, <<>>, m.pub, kept, page'.retired)
    <3>1. CASE c.out = <<>> /\ page'.retired = page.retired \cap {m.pub}
      BY <3>1 DEF Said
    <3>2. CASE /\ c.out = Append(<<>>, Msg("unpublish", m.pub)) /\ page'.retired = {m.pub}
               /\ m.pub # 0 /\ m.pub \notin page.retired
      <4>1. c.out = <<Msg("unpublish", m.pub)>>
        <5> DEFINE msg == Msg("unpublish", m.pub)
        <5>1. c.out = Append(<<>>, msg)
          BY <3>2
        <5> HIDE DEF msg
        <5>2. c.out = <<msg>>
          BY <5>1
        <5> QED BY <5>2 DEF msg
      <4>2. page'.retired = kept \cup {m.pub}
        BY <3>2
      <4> QED BY <3>2, <4>1, <4>2 DEF Said
    <3> QED BY <1>7, <3>1, <3>2
  <2>3. Sendable(up, count.pubs)
    BY <1>2 DEF Typed, Sendable
  <2> HIDE DEF kept
  <2>4. /\ Sendable(up \o (c.out \o <<>>), count.pubs)
        /\ Sent(up \o (c.out \o <<>>), page'.retired, member)
    BY <1>2, <1>5, <2>1, <2>2, <2>3, SaidIs
  <2>5. c.out \o <<>> = c.out
    <3>1. c.out = <<>> \/ c.out = <<Msg("unpublish", m.pub)>>
      BY <2>2 DEF Said
    <3> DEFINE msg == Msg("unpublish", m.pub)
    <3>2. c.out = <<>> \/ c.out = <<msg>>
      BY <3>1
    <3> HIDE DEF msg
    <3> QED BY <3>2
  <2>6. up' = up \o c.out
    BY <1>1, <1>3 DEF Attending
  <2> QED BY <2>4, <2>5, <2>6
<1>13. Kept(page, stray, asked)'
  <2>1. page'.retired \subseteq {m.pub} \ {0}
    BY <1>7, <1>10
  <2>2. page'.source # NoSource => page'.source.pub # 0
    BY <1>2, <1>7 DEF Kept
  <2>3. ~stray' /\ page'.source # NoSource => page'.source.pub \notin page'.retired
    BY <1>2, <1>7, <1>8 DEF Kept
  <2>4. ~stray' /\ page'.source = NoSource => asked' \subseteq {page'.capture}
    <3> SUFFICES ASSUME ~stray', page'.source = NoSource, in
                 PROVE  asked \subseteq {page'.capture}
      BY <1>1
    <3>1. page'.capture = page.capture /\ ~stray
      BY <1>7, <1>8
    <3>2. ASSUME page.source # NoSource
          PROVE  FALSE
      <4>1. /\ page.source.pub = page.room.pub /\ page.room.pub # 0
            /\ page.room.pub \notin page.retired
        BY <1>2, <1>6, <3>1, <3>2 DEF Kept, Fed
      <4>2. m.pub = page.room.pub
        BY <1>11, <4>1
      <4> QED BY <1>7, <3>2, <4>1, <4>2
    <3> QED BY <1>2, <3>1, <3>2 DEF Kept
  <2> QED BY <1>1, <1>7, <1>9, <2>1, <2>2, <2>3, <2>4 DEF Kept
<1>14. Typed'
  <2>1. down' \in Seq(Notes) /\ \A i \in DOMAIN down' : down'[i].pub <= count.pubs
    <3>1. /\ down' \in Seq(Notes)
          /\ \A i \in DOMAIN down' : i + 1 \in DOMAIN down /\ down'[i] = down[i + 1]
      BY <1>1, <1>2
    <3> QED BY <1>2, <3>1 DEF Typed
  <2>2. stray' \in BOOLEAN /\ asked' \subseteq Requests
    BY <1>1, <1>2 DEF Typed, TypeOK
  <2>3. page'.on \in BOOLEAN /\ page'.sock \in {page.sock, 0} /\ (page'.on => page'.sock # 0)
    BY <1>1, <1>2, <1>7 DEF Typed
  <2> QED BY <1>1, <1>2, <1>5, <1>9, <1>12, <2>1, <2>2, <2>3, PageTyped DEF Sendable
<1>15. Attending'
  <2>1. \A i \in DOMAIN down' : down'[i].k # "authenticated"
    <3>1. \A i \in DOMAIN down' : i + 1 \in DOMAIN down /\ down'[i] = down[i + 1]
      BY <1>1, <1>2
    <3> QED BY <1>3, <3>1 DEF Attending
  <2> QED BY <1>1, <1>3, <1>7, <1>11, <1>12, <2>1 DEF Attending
<1> QED BY <1>13, <1>14, <1>15 DEF TruthInv, Linking

(* An error from the server changes no room.                               *)
LEMMA AnsweredTruth ==
  ASSUME TruthInv, MicInv, MicInv', page.sock # 0, down # <<>>, down' = Tail(down),
         Head(down).k \notin {"state", "authenticated"},
         UNCHANGED <<member, count, up, stray>>, asked' \subseteq asked,
         page'.room = page.room, page'.sock = page.sock, page'.on = page.on,
         page'.retired = page.retired, Kept(page, stray, asked)'
  PROVE  TruthInv'
<1>1. /\ Typed /\ down \in Seq(Notes) /\ page.room \in Rooms /\ page.room.pub <= count.pubs
  BY RoomsBounded DEF TruthInv, Typed
<1>2. 1 \in DOMAIN down /\ Head(down) = down[1]
  BY <1>1
<1>3. /\ down' \in Seq(Notes)
      /\ \A i \in DOMAIN down' : i + 1 \in DOMAIN down /\ down'[i] = down[i + 1]
  BY <1>1
<1>4. Attending
  <2>1. ~Greeted
    BY <1>2 DEF Greeted, Msg
  <2> QED BY <2>1 DEF TruthInv, Linking, Dropped, Subscribing
<1>5. Typed'
  <2>1. \A i \in DOMAIN down' : down'[i].pub <= count.pubs
    BY <1>1, <1>3 DEF Typed
  <2>2. /\ up' \in Seq(Commands)
        /\ \A i \in DOMAIN up' : up'[i].pub <= count.pubs /\ (up'[i].k = "unpublish" => up'[i].pub # 0)
    BY <1>1 DEF Typed
  <2>3. /\ stray' \in BOOLEAN /\ asked' \subseteq Requests /\ page'.on \in BOOLEAN
        /\ page'.sock \in {page.sock, 0}
    BY <1>1 DEF Typed, TypeOK
  <2> QED BY <1>1, <1>3, <2>1, <2>2, <2>3, PageTyped
<1>6. Heard(page.room, page.retired, Tail(down), member)
  <2>1. Follows(page.room, down, page.room)
    BY <1>2 DEF Follows
  <2>2. Heard(page.room, page.retired, down, member)
    BY <1>4 DEF Attending
  <2>3. page.retired \in SUBSET ({page.room.pub} \ {0})
    BY RetiredTyped
  <2> QED BY <1>1, <1>2, <2>1, <2>2, <2>3, HeardNext
<1>7. Attending'
  BY <1>3, <1>4, <1>6 DEF Attending
<1> QED BY <1>5, <1>7 DEF TruthInv, Linking

LEMMA ReceiveTruth == ASSUME TruthInv, MicInv, MicInv', Receive PROVE TruthInv'
<1> DEFINE m == Head(down)
<1>1. Restarted(m) \/ StateArrived(m) \/ Refused(m) \/ Ignored(m)
  BY DEF Receive
<1>2. page.sock # 0 /\ down # <<>> /\ down' = Tail(down) /\ UNCHANGED <<member, count>>
  BY DEF Receive
<1>3. CASE Refused(m)
  <2> DEFINE d == Evicted(Now)
  <2>1. /\ page' = d.p /\ up' = (IF page.sock = member.sess THEN up \o d.out ELSE up)
        /\ asked' = asked \ {page.capture} /\ stray' = stray /\ m.k = "not-allowed"
    BY <1>3 DEF Refused, Take
  <2>2. Shape(Now) /\ Owned(Now, asked) /\ Now.p = page /\ Now.out = <<>>
    BY DEF MicInv, Now
  <2>3. /\ d.p.capture = 0 /\ d.p.source = page.source /\ d.p.room = page.room
        /\ d.p.on = page.on /\ Silent(Now, d)
    BY <2>2, EvictedIs, SilentlyEvicted
  <2> HIDE DEF d
  <2>4. up' = up
    <3>1. d.out = <<>> /\ up \in Seq(Commands)
      BY <2>2, <2>3 DEF Silent, TruthInv, Typed
    <3> QED BY <2>1, <3>1
  <2>5. page'.retired = page.retired /\ page'.sock = page.sock
    BY <2>1, <2>2, <2>3 DEF Silent
  <2>6. Kept(page, stray, asked)'
    BY <2>1, <2>3, <2>5 DEF TruthInv, Kept
  <2>7. m.k \notin {"state", "authenticated"}
    BY <2>1
  <2> HIDE DEF m
  <2>8. asked' \subseteq asked
    BY <2>1
  <2> QED BY <1>2, <2>1, <2>3, <2>4, <2>5, <2>6, <2>7, <2>8, AnsweredTruth DEF m
<1>4. CASE Ignored(m)
  <2>1. UNCHANGED <<page, up, asked, stray>>
        /\ (m.k = "not-enabled" \/ (m.k # "authenticated" /\ ~page.on))
    BY <1>4 DEF Ignored
  <2>2. m.k \notin {"state", "authenticated"}
    <3>1. CASE m.k = "not-enabled"
      BY <3>1
    <3>2. CASE m.k # "authenticated" /\ ~page.on
      <4>1. Greeted
        BY <1>2, <3>2 DEF TruthInv, Linking, Dropped, Subscribing, Attending
      <4> QED BY <3>2, <4>1 DEF Greeted, Msg
    <3> QED BY <2>1, <3>1, <3>2
  <2>3. Kept(page, stray, asked)'
    BY <2>1 DEF TruthInv, Kept
  <2> QED BY <1>2, <2>1, <2>2, <2>3, AnsweredTruth
<1> QED BY <1>1, <1>3, <1>4, RestartedTruth, StateArrivedTruth

(* The user joins, leaves, starts and stops.                               *)
LEMMA JoinTruth == ASSUME TruthInv, MicInv, MicInv', Join PROVE TruthInv'
<1>1. /\ page.on /\ page.room.known /\ UNCHANGED <<member, down, asked, stray>> /\ Changed
      /\ page' = Commanded(Now, Msg("join", 0)).p
      /\ up' = IF page.sock = member.sess THEN up \o Commanded(Now, Msg("join", 0)).out ELSE up
  BY DEF Join, Take, serverVars
<1>2. page' = page /\ Commanded(Now, Msg("join", 0)).out = Append(<<>>, Msg("join", 0))
  BY <1>1 DEF Commanded, Now
<1>3. count'.pubs = count.pubs /\ count'.sessions = count.sessions
  BY <1>1 DEF Changed, MicInv
<1>4. Append(<<>>, Msg("join", 0)) = <<>> \o <<Msg("join", 0)>>
  <2> DEFINE msg == Msg("join", 0)
  <2> HIDE DEF msg
  <2>1. Append(<<>>, msg) = <<>> \o <<msg>>
    OBVIOUS
  <2> QED BY <2>1 DEF msg
<1>5. Said(<<>>, <<Msg("join", 0)>>, page.room.pub, page.retired, page'.retired)
  BY <1>2 DEF Said
<1>6. ~Subscribing
  BY <1>1 DEF Subscribing, NoRoom
<1>7. Kept(page, stray, asked)' /\ asked' \subseteq Requests
  BY <1>1, <1>2 DEF TruthInv, Kept, Typed, TypeOK
<1>8. up' = IF page.sock = member.sess THEN up \o (<<>> \o <<Msg("join", 0)>>) ELSE up
  BY <1>1, <1>2, <1>4
<1> QED BY <1>1, <1>2, <1>3, <1>5, <1>6, <1>7, <1>8, PageSpeaks

(* Stopping forgets what was asked for.                                    *)
LEMMA StoppedTruth ==
  ASSUME TruthInv, MicInv
  PROVE  LET d == Stopped(Now) IN
         /\ d.p.sock = page.sock /\ d.p.on = page.on /\ d.p.room = page.room
         /\ d.p.source = NoSource /\ d.p.capture = 0
         /\ Kept(d.p, stray, {})
         /\ Said(d.out, <<>>, page.room.pub, page.retired, d.p.retired)
<1> DEFINE d == Stopped(Now)
<1>1. Shape(Now) /\ Owned(Now, asked) /\ Now.p = page /\ Now.out = <<>>
  BY DEF MicInv, Now
<1>2. /\ Withdraws(Now, d) /\ d.p.sock = page.sock /\ d.p.on = page.on /\ d.p.room = page.room
      /\ d.p.source = NoSource /\ d.p.capture = 0
  BY <1>1, StoppedSays
<1> HIDE DEF d
<1>3. Append(<<>>, Msg("unpublish", page.room.pub)) = <<Msg("unpublish", page.room.pub)>>
  <2> DEFINE msg == Msg("unpublish", page.room.pub)
  <2> HIDE DEF msg
  <2>1. Append(<<>>, msg) = <<msg>>
    OBVIOUS
  <2> QED BY <2>1 DEF msg
<1>4. Said(d.out, <<>>, page.room.pub, page.retired, d.p.retired)
  BY <1>1, <1>2, <1>3 DEF Withdraws, Said
<1>5. Kept(d.p, stray, {})
  BY <1>1, <1>2 DEF Withdraws, TruthInv, Kept
<1> QED BY <1>2, <1>4, <1>5 DEF d

LEMMA StopTruth == ASSUME TruthInv, MicInv, MicInv', Leave \/ StopMicrophone PROVE TruthInv'
<1> DEFINE d == Stopped(Now)
<1>1. /\ d.p.sock = page.sock /\ d.p.on = page.on /\ d.p.room = page.room
      /\ d.p.source = NoSource /\ d.p.capture = 0 /\ Kept(d.p, stray, {})
      /\ Said(d.out, <<>>, page.room.pub, page.retired, d.p.retired)
  BY StoppedTruth
<1>2. /\ page.on /\ UNCHANGED <<member, down, stray>> /\ asked' = {}
      /\ count'.pubs = count.pubs /\ count'.sessions = count.sessions
  BY DEF Leave, StopMicrophone, Changed, serverVars, MicInv
<1>3. CASE Leave
  <2>1. /\ page' = Commanded(d, Msg("leave", 0)).p
        /\ up' = IF page.sock = member.sess THEN up \o Commanded(d, Msg("leave", 0)).out ELSE up
        /\ page.room.joined
    BY <1>3 DEF Leave, Take
  <2>2. Shape(d) /\ d.out \in Seq(Commands)
    <3>1. Shape(d)
      BY StoppedIs DEF MicInv
    <3>2. page.room.pub \in Nat
      BY RoomsBounded DEF TruthInv, Rooms
    <3> DEFINE msg == Msg("unpublish", page.room.pub)
    <3>3. msg \in Commands
      BY <3>2 DEF Msg, Commands
    <3>4. d.out = <<>> \/ d.out = <<msg>>
      BY <1>1 DEF Said
    <3> HIDE DEF msg, d
    <3>5. <<msg>> \in Seq(Commands) /\ <<>> \in Seq(Commands)
      BY <3>3
    <3> QED BY <3>1, <3>4, <3>5
  <2> DEFINE msg == Msg("leave", 0)
  <2>3. msg \in Commands
    BY DEF Msg, Commands
  <2>4. Said(d.out, <<msg>>, page.room.pub, page.retired, d.p.retired)
    BY <1>1 DEF Said
  <2> HIDE DEF d, msg
  <2>5. Commanded(d, msg).p = d.p /\ Commanded(d, msg).out = Append(d.out, msg)
    BY <2>2 DEF Commanded, Shape, Whole
  <2>6. Append(d.out, msg) = d.out \o <<msg>>
    BY <2>2, <2>3
  <2>7. ~Subscribing
    BY <2>1 DEF Subscribing, NoRoom
  <2>8. page' = d.p /\ up' = IF page.sock = member.sess THEN up \o (d.out \o <<msg>>) ELSE up
    BY <2>1, <2>5, <2>6 DEF msg
  <2>9. Kept(page, stray, asked)' /\ asked' \subseteq Requests
    BY <1>1, <1>2, <2>8
  <2> QED BY <1>1, <1>2, <2>4, <2>7, <2>8, <2>9, PageSpeaks
<1>4. CASE StopMicrophone
  <2>1. /\ page' = d.p /\ up' = (IF page.sock = member.sess THEN up \o d.out ELSE up)
        /\ page.capture # 0 \/ page.source # NoSource
    BY <1>4 DEF StopMicrophone, Take
  <2>2. d.out \o <<>> = d.out
    <3> DEFINE msg == Msg("unpublish", page.room.pub)
    <3>1. d.out = <<>> \/ d.out = <<msg>>
      BY <1>1 DEF Said
    <3> HIDE DEF msg, d
    <3> QED BY <3>1
  <2> HIDE DEF d
  <2>3. ~Subscribing
    BY <2>1 DEF Subscribing
  <2>4. up' = IF page.sock = member.sess THEN up \o (d.out \o <<>>) ELSE up
    BY <2>1, <2>2
  <2>5. Kept(page, stray, asked)' /\ asked' \subseteq Requests
    BY <1>1, <1>2, <2>1
  <2> QED BY <1>1, <1>2, <2>1, <2>3, <2>4, <2>5, PageSpeaks
<1> QED BY <1>3, <1>4

(* A step of the page that sends nothing.                                  *)
LEMMA PageSilent ==
  ASSUME TruthInv, MicInv, MicInv', UNCHANGED <<member, down, stray, up>>,
         count'.pubs = count.pubs, count'.sessions = count.sessions, asked' \subseteq Requests,
         page'.room = page.room, page'.sock = page.sock, page'.on = page.on,
         page'.retired = page.retired, Kept(page, stray, asked)',
         Subscribing => page'.capture = page.capture /\ page'.source = page.source
  PROVE  TruthInv'
<1>1. Said(<<>>, <<>>, page.room.pub, page.retired, page'.retired)
  BY DEF Said
<1>2. up' = IF page.sock = member.sess THEN up \o (<<>> \o <<>>) ELSE up
  <2>1. up \in Seq(Commands)
    BY DEF TruthInv, Typed
  <2> QED BY <2>1
<1>3. <<>> \o <<>> = <<>>
  OBVIOUS
<1> QED BY <1>1, <1>2, <1>3, PageSpeaks

LEMMA StartTruth == ASSUME TruthInv, MicInv, MicInv', StartMicrophone PROVE TruthInv'
<1> DEFINE r == count.starts + 1
<1>1. /\ page.on /\ page.room.enabled /\ page.capture = 0 /\ count.starts < MaxStarts
      /\ page' = [page EXCEPT !.capture = r] /\ asked' = asked \cup {r}
      /\ count' = [count EXCEPT !.starts = r] /\ UNCHANGED <<member, down, up, stray>>
  BY DEF StartMicrophone, serverVars
<1>2. /\ count'.pubs = count.pubs /\ count'.sessions = count.sessions /\ r \in Requests
      /\ WholePage(page)
  <2>1. count \in Counts /\ MaxStarts \in Nat
    BY RoomVoiceAssumption DEF MicInv, Counts
  <2>2. r \in Requests
    BY <1>1, <2>1 DEF Requests, Counts
  <2>3. WholePage(page)
    BY DEF MicInv, Shape, Now
  <2>4. count'.pubs = count.pubs /\ count'.sessions = count.sessions
    BY <1>1, <2>1 DEF Counts
  <2> QED BY <2>2, <2>3, <2>4
<1> HIDE DEF r
<1>3. /\ page'.room = page.room /\ page'.sock = page.sock /\ page'.on = page.on
      /\ page'.retired = page.retired /\ page'.source = page.source /\ page'.capture = r
  BY <1>1, <1>2 DEF WholePage
<1>4. asked' \subseteq Requests
  BY <1>1, <1>2 DEF TruthInv, Typed, TypeOK
<1>5. Kept(page, stray, asked)'
  <2>1. ASSUME ~stray, page.source = NoSource
        PROVE  asked \subseteq {r}
    <3>1. asked \subseteq {0} /\ asked \subseteq Requests
      BY <1>1, <2>1 DEF TruthInv, Kept, Typed, TypeOK
    <3> QED BY <3>1 DEF Requests
  <2> QED BY <1>1, <1>3, <2>1 DEF TruthInv, Kept
<1>6. ~Subscribing
  BY <1>1 DEF Subscribing, NoRoom
<1> QED BY <1>1, <1>2, <1>3, <1>4, <1>5, <1>6, PageSilent

LEMMA CaptureTruth ==
  ASSUME TruthInv, MicInv, MicInv', NEW r \in Requests, GetUserMedia(r) \/ CaptureFails(r)
  PROVE  TruthInv'
<1>1. CASE GetUserMedia(r)
  <2>1. UNCHANGED <<member, down, page, up, asked, stray, count>>
    BY <1>1 DEF GetUserMedia, serverVars
  <2>2. Kept(page, stray, asked)' /\ asked' \subseteq Requests
    BY <2>1 DEF TruthInv, Kept, Typed, TypeOK
  <2> QED BY <2>1, <2>2, PageSilent
<1>2. CASE CaptureFails(r)
  <2> DEFINE d == IF page.capture = r THEN Evicted(Now) ELSE Now
  <2>1. page' = d.p /\ asked' = asked \ {r} /\ UNCHANGED <<member, down, up, stray, count>>
    BY <1>2 DEF CaptureFails, serverVars
  <2>2. Shape(Now) /\ Owned(Now, asked) /\ Now.p = page
    BY DEF MicInv, Now
  <2>3. /\ d.p.source = page.source /\ d.p.room = page.room /\ d.p.on = page.on
        /\ d.p.retired = page.retired /\ d.p.sock = page.sock
        /\ IF page.capture = r THEN d.p.capture = 0 ELSE d.p.capture = page.capture
    <3>1. CASE page.capture = r
      <4>1. d = Evicted(Now)
        BY <3>1
      <4> HIDE DEF d
      <4> QED BY <2>2, <3>1, <4>1, EvictedIs, SilentlyEvicted DEF Silent
    <3>2. CASE page.capture # r
      BY <2>2, <3>2
    <3> QED BY <3>1, <3>2
  <2> HIDE DEF d
  <2>4. Kept(page, stray, asked)'
    BY <2>1, <2>3 DEF TruthInv, Kept
  <2>5. asked' \subseteq Requests
    BY <2>1 DEF TruthInv, Typed, TypeOK
  <2>6. Subscribing => page'.capture = page.capture
    BY <2>1, <2>3 DEF Subscribing, Requests
  <2> QED BY <2>1, <2>3, <2>4, <2>5, <2>6, PageSilent
<1> QED BY <1>1, <1>2

LEMMA ResumedTruth ==
  ASSUME TruthInv, MicInv, MicInv', NEW r \in Requests, Resumed(r) PROVE TruthInv'
<1>1. /\ page.capture = r /\ UNCHANGED <<member, down, asked, stray, count>> /\ r # 0
  BY DEF Resumed, serverVars, Requests
<1>2. Shape(Now) /\ Owned(Now, asked) /\ Fed(Now) /\ Now.p = page /\ Now.q = request /\ Now.out = <<>>
  BY DEF MicInv, Now
<1>3. ~Subscribing /\ asked' \subseteq Requests
  BY <1>1 DEF Subscribing, TruthInv, Typed, TypeOK
<1>4. CASE page.source # NoSource /\ page.room.pub # 0
  <2> DEFINE c == Attached(Now, page.room.pub, r)
  <2>1. page' = c.p /\ up' = (IF page.sock = member.sess THEN up \o c.out ELSE up)
    BY <1>4 DEF Resumed, Take
  <2>2. /\ c.p.source = [pub |-> page.room.pub, req |-> r] /\ c.p.capture = 0
        /\ c.p.room = page.room /\ c.p.on = page.on /\ Silent(Now, c)
    BY <1>1, <1>2, AttachedIs, SilentlyAttached
  <2> HIDE DEF c
  <2>3. c.p.retired = page.retired /\ c.p.sock = page.sock /\ c.out = <<>>
    BY <1>2, <2>2 DEF Silent
  <2>4. up' = up
    BY <2>1, <2>3 DEF TruthInv, Typed
  <2>5. page.source.pub = page.room.pub
    BY <1>2, <1>4 DEF Fed
  <2>6. c.p.source # NoSource /\ c.p.source.pub = page.room.pub
    BY <1>4, <2>2 DEF NoSource
  <2>7. Kept(page, stray, asked)'
    BY <1>1, <1>4, <2>1, <2>2, <2>3, <2>5, <2>6 DEF TruthInv, Kept
  <2> QED BY <1>1, <1>3, <2>1, <2>2, <2>3, <2>4, <2>7, PageSilent
<1>5. CASE ~(page.source # NoSource /\ page.room.pub # 0)
  <2> DEFINE msg == Msg("publish", 0)
             e == [Now EXCEPT !.p = [@ EXCEPT !.publishing = r], !.q = [@ EXCEPT ![r] = "held"]]
             c == Commanded(e, msg)
  <2>1. page' = c.p /\ up' = (IF page.sock = member.sess THEN up \o c.out ELSE up)
    BY <1>5 DEF Resumed, Take
  <2>2. e.p = [page EXCEPT !.publishing = r] /\ e.out = <<>> /\ Whole(e)
    BY DEF Now, Whole
  <2>3. Said(<<>>, <<msg>>, page.room.pub, page.retired, page.retired)
    BY DEF Said
  <2> HIDE DEF e, msg
  <2>4. c.p = e.p /\ c.out = Append(<<>>, msg)
    BY <2>2 DEF Commanded, Whole
  <2>5. /\ e.p.source = page.source /\ e.p.capture = r /\ e.p.room = page.room
        /\ e.p.on = page.on /\ e.p.retired = page.retired /\ e.p.sock = page.sock
    BY <1>1, <1>2, <2>2 DEF Shape, WholePage
  <2> HIDE DEF c
  <2>6. Append(<<>>, msg) = <<>> \o <<msg>>
    OBVIOUS
  <2>7. Kept(page, stray, asked)'
    BY <1>1, <2>1, <2>4, <2>5 DEF TruthInv, Kept
  <2>8. page.on
    BY <1>1 DEF TruthInv, Kept
  <2>9. up' = IF page.sock = member.sess THEN up \o (<<>> \o <<msg>>) ELSE up
    BY <2>1, <2>4, <2>6
  <2> QED BY <1>1, <1>3, <2>1, <2>3, <2>4, <2>5, <2>7, <2>8, <2>9, PageSpeaks
<1> QED BY <1>4, <1>5

(* At the start there is no socket.                                        *)
LEMMA InitTruth == Init => TruthInv
<1> SUFFICES ASSUME Init PROVE TruthInv
  OBVIOUS
<1>1. TypeOK
  BY RoomVoiceAssumption DEF Init, TypeOK, NoRoom
<1>2. Typed
  <2>1. /\ up \in Seq(Commands) /\ down \in Seq(Notes)
        /\ \A i \in DOMAIN up : up[i].pub <= count.pubs /\ (up[i].k = "unpublish" => up[i].pub # 0)
        /\ \A i \in DOMAIN down : down[i].pub <= count.pubs
    BY DEF Init
  <2>2. /\ count.sessions = 0 /\ member.sess = 0 /\ member.sub = 0 /\ member.pub = 0
        /\ page.sock = 0 /\ page.on = FALSE /\ stray = FALSE
    BY DEF Init
  <2>3. count.sessions <= MaxSessions
    BY <2>2, RoomVoiceAssumption
  <2>4. /\ member.sess <= count.sessions /\ member.sub <= count.sessions
        /\ page.sock \in 0..count.sessions
    BY <2>2
  <2>5. /\ page.on \in BOOLEAN /\ stray \in BOOLEAN /\ (page.on => page.sock # 0)
        /\ member.pub # 0 => member.enabled /\ member.joined
    BY <2>2
  <2> QED BY <1>1, <2>1, <2>3, <2>4, <2>5 DEF Typed
<1> QED BY <1>2 DEF Init, TruthInv, Kept, Linking, NoRoom

(* Every step keeps the page and the server in line.                       *)
LEMMA StepTruth == ASSUME TruthInv, MicInv, MicInv', [Next]_vars PROVE TruthInv'
<1>1. CASE UNCHANGED vars
  <2>1. UNCHANGED <<member, page, request, up, down, asked, stray, count>>
    BY <1>1 DEF vars
  <2>2. Typed'
    BY <2>1 DEF TruthInv, Typed, TypeOK
  <2>3. Kept(page, stray, asked)'
    BY <2>1 DEF TruthInv, Kept
  <2>4. Linking'
    BY <2>1 DEF TruthInv, Linking, Dropped, Greeted, Subscribing, Attending
  <2> QED BY <2>2, <2>3, <2>4 DEF TruthInv
<1>2. CASE HandleCommand \/ HostToggles \/ OthersChange \/ ServerLoses \/ GraceEnds
  BY <1>2, HandleCommandTruth, RoomChangesTruth, SessionEndsTruth
<1>3. CASE Connect \/ PageLoses \/ Receive
  BY <1>3, ConnectTruth, PageLosesTruth, ReceiveTruth
<1>4. CASE Join \/ Leave \/ StartMicrophone \/ StopMicrophone
  BY <1>4, JoinTruth, StopTruth, StartTruth
<1>5. ASSUME NEW r \in Requests, GetUserMedia(r) \/ CaptureFails(r) \/ Resumed(r)
      PROVE  TruthInv'
  BY <1>5, CaptureTruth, ResumedTruth
<1> QED BY <1>1, <1>2, <1>3, <1>4, <1>5 DEF Next

(* With nothing on the wires, the room of the page is the server's.        *)
LEMMA TruthAtRest == ASSUME TruthInv, MicInv PROVE RoomTellsTruth
<1>1. TypeOK
  BY DEF TruthInv, Typed
<1>2. ASSUME Resting
      PROVE  /\ page.room.known => page.room.joined = member.joined
             /\ page.source.pub = member.pub
             /\ asked # {} /\ ~stray => page.source # NoSource
  <2>1. Attending /\ up = <<>> /\ down = <<>> /\ page.on /\ page.capture = 0
    <3>1. page.sock # 0
      BY <1>2 DEF Resting, TruthInv, Typed
    <3>2. up # <<Msg("subscribe", 0)>>
      BY <1>2 DEF Resting
    <3> QED BY <1>2, <3>1, <3>2 DEF Resting, TruthInv, Linking, Dropped, Greeted, Subscribing
  <2>2. Agrees(page.room, member)
    <3>1. Caught(page.room, <<>>, member)
      BY <2>1 DEF Attending, Heard
    <3>2. Len(<<>>) = 0
      OBVIOUS
    <3> QED BY <3>1, <3>2 DEF Caught, At
  <2>3. page.room.joined = member.joined /\ page.room.pub = member.pub
    BY <2>2 DEF Agrees
  <2>4. page.source.pub = member.pub
    <3>1. CASE page.source # NoSource
      BY <2>3, <3>1 DEF MicInv, Fed, Now
    <3>2. CASE page.source = NoSource
      <4>1. page.source.pub = 0
        BY <3>2 DEF NoSource
      <4>2. ASSUME page.room.pub # 0
            PROVE  FALSE
        <5>1. page.room.pub \in page.retired
          BY <2>1, <3>2, <4>2 DEF TruthInv, Kept
        <5>2. Sent(<<>>, page.retired, member)
          BY <2>1 DEF Attending
        <5>3. \E i \in DOMAIN <<>> : <<>>[i] = Msg("unpublish", page.room.pub)
          BY <2>3, <5>1, <5>2 DEF Sent
        <5> QED BY <5>3
      <4> QED BY <2>3, <4>1, <4>2
    <3> QED BY <3>1, <3>2
  <2>5. asked # {} /\ ~stray => page.source # NoSource
    <3>1. asked \subseteq Requests /\ 0 \notin Requests
      BY <1>1 DEF TypeOK, Requests
    <3> QED BY <2>1, <3>1 DEF TruthInv, Kept
  <2> QED BY <2>3, <2>4, <2>5
<1> QED BY <1>1, <1>2 DEF RoomTellsTruth

(* However commands, states and withdrawals cross on the two wires         *)
(* (receive, stopMicrophone, handleRoomVoiceCommand), once both are empty  *)
(* the room shows the microphone as published exactly if the page feeds    *)
(* it, under the same publication, and only a stray attachment loses a     *)
(* start.                                                                  *)
THEOREM RoomIsTold == Spec => []RoomTellsTruth
<1>1. Spec => []MicInv
  BY InitMic, StepMic, PTL DEF Spec
<1>2. Spec => []TruthInv
  BY <1>1, InitTruth, StepTruth, PTL DEF Spec
<1> QED BY <1>1, <1>2, TruthAtRest, PTL
=============================================================================
