---------------------------- MODULE SignalingProofs ----------------------------
(***************************************************************************)
(* Proofs about the two sides of signaling: the connection the browser's   *)
(* client keeps (SignalLink), for every number of sockets, challenges and  *)
(* rebaselines, and the share of a Host's room over it (HostShare), for    *)
(* every number of shares, sockets, pauses and refusals.                   *)
(***************************************************************************)
EXTENDS SignalLink, HostShare, SequenceTheorems, TLAPS

Challenges == [gen : 0..MaxSockets, seq : Nat, confirm : BOOLEAN]

LinkTypes ==
    /\ sockets \in [Generations -> {"none", "connecting", "open", "closing", "closed"}]
    /\ owned \in [gen : 0..MaxSockets, socket : 0..MaxSockets]
    /\ authed \in BOOLEAN /\ stopped \in BOOLEAN
    /\ timers \in [reconnect : BOOLEAN, auth : 0..MaxSockets]
    /\ checks \subseteq 0..MaxSockets
    /\ terminal \in {"none", "waiting"}
    /\ watch \in [timer : 0..MaxSockets, pending : Challenges, previous : Challenges]
    /\ heard \in [sent : Nat, flight : SUBSET [gen : 0..MaxSockets, seq : Nat], got : SUBSET Nat]

(* What keeps OneSocket: the owned socket is the one of the newest         *)
(* generation, an access check of the current generation runs only while   *)
(* no socket is owned, and a stopped client has no session.                *)
NewestOwned ==
    /\ owned.socket \in {0, owned.gen}
    /\ owned.gen \in checks => owned.socket = 0
    /\ \A g \in checks : g <= owned.gen

(* What keeps HealthySocketKept: the challenges the watchdog waits for are *)
(* the last two, of the owned socket, and neither was answered.            *)
Unanswered ==
    /\ owned.socket = 0 => watch = Unwatched
    /\ \A s \in heard.got : s <= heard.sent
    /\ \A r \in heard.flight : r.seq <= heard.sent
    /\ watch.pending # None =>
          /\ watch.pending.gen = owned.gen /\ watch.pending.seq = heard.sent
          /\ heard.sent \notin heard.got
    /\ watch.pending.confirm =>
          /\ watch.previous # None /\ watch.previous.gen = owned.gen
          /\ watch.previous.seq = heard.sent - 1
          /\ heard.sent - 1 \notin heard.got

LinkInv == LinkTypes /\ NewestOwned /\ OneSocket /\ Unanswered

(* A client starts without a socket, a timer or a challenge.               *)
LEMMA InitLink == Init => LinkInv
<1> SUFFICES ASSUME Init PROVE LinkInv
  OBVIOUS
<1> USE SignalLinkAssumption DEF Init, NoTimers, Unwatched, None
<1>1. LinkTypes
  <2>1. sockets \in [Generations -> {"none", "connecting", "open", "closing", "closed"}]
    OBVIOUS
  <2>2. watch \in [timer : 0..MaxSockets, pending : Challenges, previous : Challenges]
    BY DEF Challenges
  <2>3. heard \in [sent : Nat, flight : SUBSET [gen : 0..MaxSockets, seq : Nat], got : SUBSET Nat]
    OBVIOUS
  <2> QED BY <2>1, <2>2, <2>3 DEF LinkTypes
<1>2. NewestOwned
  BY DEF NewestOwned
<1>3. OneSocket
  BY DEF OneSocket
<1>4. Unanswered
  BY DEF Unanswered
<1> QED BY <1>1, <1>2, <1>3, <1>4 DEF LinkInv

(* Closing the owned socket leaves no other one connecting or open.        *)
LEMMA CloseOwned ==
  ASSUME LinkInv
  PROVE  LET rest == Close(sockets, owned.socket) IN
         /\ rest \in [Generations -> {"none", "connecting", "open", "closing", "closed"}]
         /\ \A g \in Generations : rest[g] \notin {"connecting", "open"}
<1>1. CASE owned.socket # 0 /\ sockets[owned.socket] \in {"connecting", "open"}
  BY <1>1 DEF Close, LinkInv, LinkTypes, OneSocket, Generations
<1>2. CASE ~(owned.socket # 0 /\ sockets[owned.socket] \in {"connecting", "open"})
  BY <1>2 DEF Close, LinkInv, LinkTypes, OneSocket, Generations
<1> QED BY <1>1, <1>2

(* Losing the session: no socket is owned, connecting or open, and no      *)
(* challenge is waited for, whatever closed it and whatever is armed next. *)
LEMMA LostKeepsLink ==
  ASSUME LinkInv,
         sockets' \in [Generations -> {"none", "connecting", "open", "closing", "closed"}],
         \A g \in Generations : sockets'[g] \notin {"connecting", "open"},
         owned' = [owned EXCEPT !.socket = 0], watch' = Unwatched,
         authed' \in BOOLEAN, stopped' \in BOOLEAN, terminal' \in {"none", "waiting"},
         timers' \in [reconnect : BOOLEAN, auth : 0..MaxSockets],
         stopped' => timers' = NoTimers,
         checks' \subseteq checks \cup {owned.gen}, heard' = heard
  PROVE  LinkInv'
<1> USE SignalLinkAssumption DEF LinkInv
<1>1. owned' \in [gen : 0..MaxSockets, socket : 0..MaxSockets] /\ owned'.socket = 0
                 /\ owned'.gen = owned.gen
  BY DEF LinkTypes
<1>2. watch' \in [timer : 0..MaxSockets, pending : Challenges, previous : Challenges]
  BY DEF Unwatched, None, Challenges
<1>3. checks' \subseteq 0..MaxSockets
  BY DEF LinkTypes
<1>4. LinkTypes'
  BY <1>1, <1>2, <1>3 DEF LinkTypes
<1>5. NewestOwned'
  BY <1>1 DEF NewestOwned, LinkTypes
<1>6. OneSocket'
  BY <1>1 DEF OneSocket
<1>7. Unanswered'
  BY <1>1 DEF Unanswered, LinkTypes, Unwatched, None
<1> QED BY <1>4, <1>5, <1>6, <1>7

(* Halt leaves neither a socket nor anything armed, whatever was going on. *)
LEMMA HaltKeepsLink ==
  ASSUME LinkInv, Halt, UNCHANGED heard
  PROVE  LinkInv'
<1>1. NoTimers \in [reconnect : BOOLEAN, auth : 0..MaxSockets]
  BY SignalLinkAssumption DEF NoTimers
<1> QED BY <1>1, CloseOwned, LostKeepsLink DEF Halt

(* Timers, checks and the death of older sockets do not touch the session. *)
LEMMA SameSession ==
  ASSUME LinkInv, UNCHANGED <<owned, stopped, watch, heard>>,
         sockets' \in [Generations -> {"none", "connecting", "open", "closing", "closed"}],
         \A g \in Generations :
            sockets'[g] \in {"connecting", "open"} => sockets[g] \in {"connecting", "open"},
         authed' \in BOOLEAN, terminal' \in {"none", "waiting"},
         timers' \in [reconnect : BOOLEAN, auth : 0..MaxSockets],
         owned.socket # 0 => ~timers'.reconnect,
         stopped => timers' = NoTimers,
         checks' \subseteq checks
  PROVE  LinkInv'
<1> USE DEF LinkInv
<1>1. LinkTypes'
  BY DEF LinkTypes
<1>2. NewestOwned'
  BY DEF NewestOwned
<1>3. OneSocket'
  BY DEF OneSocket
<1>4. Unanswered'
  BY DEF Unanswered
<1> QED BY <1>1, <1>2, <1>3, <1>4

(* A socket is opened only where none is owned or the owned one is closed  *)
(* in the same step.                                                       *)
LEMMA ConnectedKeepsLink ==
  ASSUME LinkInv, ~stopped, Connected(Close(sockets, owned.socket)),
         timers' \in [reconnect : {FALSE}, auth : 0..MaxSockets],
         authed' \in BOOLEAN, watch' = Unwatched,
         UNCHANGED <<stopped, checks, terminal, heard>>
  PROVE  LinkInv'
<1> DEFINE rest == Close(sockets, owned.socket)
<1>1. /\ rest \in [Generations -> {"none", "connecting", "open", "closing", "closed"}]
      /\ \A g \in Generations : rest[g] \notin {"connecting", "open"}
  BY CloseOwned
<1>2. sockets' = [rest EXCEPT ![owned.gen + 1] = "connecting"]
  BY DEF Connected
<1> HIDE DEF rest
<1>3. /\ owned.gen + 1 \in Generations
      /\ owned' = [gen |-> owned.gen + 1, socket |-> owned.gen + 1]
  BY SignalLinkAssumption DEF Connected, LinkInv, LinkTypes, Generations
<1>4. LinkTypes'
  <2>1. sockets' \in [Generations -> {"none", "connecting", "open", "closing", "closed"}]
    BY <1>1, <1>2
  <2>2. owned' \in [gen : 0..MaxSockets, socket : 0..MaxSockets]
    BY <1>3, SignalLinkAssumption DEF Generations
  <2>3. watch' \in [timer : 0..MaxSockets, pending : Challenges, previous : Challenges]
    BY SignalLinkAssumption DEF Unwatched, None, Challenges
  <2>4. timers' \in [reconnect : BOOLEAN, auth : 0..MaxSockets]
    OBVIOUS
  <2> QED BY <2>1, <2>2, <2>3, <2>4 DEF LinkTypes, LinkInv
<1>5. NewestOwned'
  BY <1>3 DEF NewestOwned, LinkInv, LinkTypes, Generations
<1>6. OneSocket'
  <2>1. \A g \in Generations : sockets'[g] \in {"connecting", "open"} => g = owned'.socket
    BY <1>1, <1>2, <1>3
  <2> QED BY <2>1 DEF OneSocket
<1>7. Unanswered'
  BY <1>3 DEF Unanswered, LinkInv, Unwatched, None, Generations
<1> QED BY <1>4, <1>5, <1>6, <1>7 DEF LinkInv

(* Without an owned socket there is nothing to close.                      *)
LEMMA ConnectFromNothing ==
  ASSUME LinkInv, ~stopped, owned.socket = 0, Connected(sockets),
         timers' = [timers EXCEPT !.reconnect = FALSE],
         UNCHANGED <<authed, stopped, checks, terminal, watch, heard>>
  PROVE  LinkInv'
<1>1. Connected(Close(sockets, owned.socket))
  BY DEF Close
<1>2. timers' \in [reconnect : {FALSE}, auth : 0..MaxSockets] /\ authed' \in BOOLEAN
  BY DEF LinkInv, LinkTypes
<1>3. watch' = Unwatched
  BY DEF LinkInv, Unanswered
<1> QED BY <1>1, <1>2, <1>3, ConnectedKeepsLink

(* A check of the current generation that answers finds no owned socket.   *)
LEMMA AccessAnsweredStep ==
  ASSUME LinkInv, NEW denied \in BOOLEAN, AccessAnswered(denied)
  PROVE  LinkInv'
<1>1. PICK g \in checks :
        /\ IF denied /\ ~stopped /\ g = owned.gen THEN Halt
           ELSE /\ checks' = checks \ {g}
                /\ timers' = IF ~stopped /\ g = owned.gen
                             THEN [timers EXCEPT !.reconnect = TRUE] ELSE timers
                /\ UNCHANGED <<sockets, owned, authed, stopped, terminal, watch>>
        /\ UNCHANGED <<heard, rebaselines>>
  BY DEF AccessAnswered
<1>2. CASE denied /\ ~stopped /\ g = owned.gen
  BY <1>1, <1>2, HaltKeepsLink
<1>3. CASE ~(denied /\ ~stopped /\ g = owned.gen)
  <2>1. timers' \in [reconnect : BOOLEAN, auth : 0..MaxSockets]
    BY <1>1, <1>3 DEF LinkInv, LinkTypes
  <2>2. owned.socket # 0 => ~timers'.reconnect
    BY <1>1, <1>3 DEF LinkInv, LinkTypes, NewestOwned, OneSocket
  <2>3. stopped => timers' = NoTimers
    BY <1>1, <1>3 DEF LinkInv, OneSocket
  <2> QED BY <1>1, <1>3, <2>1, <2>2, <2>3, SameSession DEF LinkInv, LinkTypes
<1> QED BY <1>2, <1>3

(* A socket that opens was connecting before.                              *)
LEMMA SocketOpensStep ==
  ASSUME LinkInv, NEW g \in Generations, SocketOpens(g)
  PROVE  LinkInv'
<1> USE DEF SocketOpens
<1>1. /\ sockets' \in [Generations -> {"none", "connecting", "open", "closing", "closed"}]
      /\ \A h \in Generations :
            sockets'[h] \in {"connecting", "open"} => sockets[h] \in {"connecting", "open"}
  BY DEF LinkInv, LinkTypes
<1>2. /\ timers' \in [reconnect : BOOLEAN, auth : 0..MaxSockets]
      /\ timers'.reconnect = timers.reconnect
      /\ stopped => timers' = timers
  BY SignalLinkAssumption DEF LinkInv, LinkTypes, Generations
<1> QED BY <1>1, <1>2, SameSession DEF LinkInv, LinkTypes, OneSocket

(* The close event: of the owned socket it ends the session.               *)
LEMMA SocketClosesStep ==
  ASSUME LinkInv, NEW g \in Generations, NEW final \in BOOLEAN, SocketCloses(g, final)
  PROVE  LinkInv'
<1>1. /\ sockets' \in [Generations -> {"none", "connecting", "open", "closing", "closed"}]
      /\ \A h \in Generations :
            sockets'[h] \in {"connecting", "open"} => h # g /\ sockets[h] \in {"connecting", "open"}
  BY DEF LinkInv, LinkTypes, SocketCloses
<1>2. CASE owned.socket # g \/ stopped
  BY <1>1, <1>2, SameSession DEF SocketCloses, LinkInv, LinkTypes, OneSocket
<1>3. CASE ~(owned.socket # g \/ stopped)
  <2>1. \A h \in Generations : sockets'[h] \notin {"connecting", "open"}
    BY <1>1, <1>3 DEF LinkInv, OneSocket
  <2>2. timers' \in [reconnect : BOOLEAN, auth : 0..MaxSockets] /\ (stopped' => timers' = NoTimers)
    <3>1. timers' = [reconnect |-> ~final, auth |-> 0] /\ stopped' = final
      BY <1>3 DEF SocketCloses
    <3>2. (~final) \in BOOLEAN /\ 0 \in 0..MaxSockets
      BY SignalLinkAssumption
    <3>3. timers' \in [reconnect : BOOLEAN, auth : 0..MaxSockets]
      BY <3>1, <3>2, Zenon
    <3>4. stopped' => timers' = NoTimers
      BY <3>1, Zenon DEF NoTimers
    <3> QED BY <3>3, <3>4
  <2>3. terminal' \in {"none", "waiting"} /\ stopped' \in BOOLEAN
    BY <1>3 DEF SocketCloses, LinkInv, LinkTypes
  <2>4. /\ owned' = [owned EXCEPT !.socket = 0] /\ watch' = Unwatched
        /\ authed' = FALSE /\ checks' = checks /\ heard' = heard
    BY <1>3 DEF SocketCloses
  <2> QED BY <1>1, <2>1, <2>2, <2>3, <2>4, LostKeepsLink
<1> QED BY <1>2, <1>3

(* AUTH_REQUIRED retires the socket before it asks or reconnects.          *)
LEMMA AuthRequiredStep ==
  ASSUME LinkInv, NEW host \in BOOLEAN, AuthRequired(host)
  PROVE  LinkInv'
<1>1. sockets' = Close(sockets, owned.socket) /\ owned' = [owned EXCEPT !.socket = 0]
  BY DEF AuthRequired, Retired
<1>2. watch' = Unwatched /\ authed' = FALSE /\ UNCHANGED <<stopped, terminal, heard>> /\ ~stopped
  BY DEF AuthRequired, Retired
<1>3. timers' \in [reconnect : BOOLEAN, auth : 0..MaxSockets]
  <2>1. timers' = [timers EXCEPT !.auth = 0] \/ timers' = [reconnect |-> TRUE, auth |-> 0]
    BY DEF AuthRequired, Retired
  <2>2. timers \in [reconnect : BOOLEAN, auth : 0..MaxSockets]
    BY DEF LinkInv, LinkTypes
  <2>3. 0 \in 0..MaxSockets
    BY SignalLinkAssumption
  <2>4. CASE timers' = [timers EXCEPT !.auth = 0]
    BY <2>2, <2>3, <2>4
  <2>5. CASE timers' = [reconnect |-> TRUE, auth |-> 0]
    BY <2>3, <2>5, Zenon
  <2> QED BY <2>1, <2>4, <2>5
<1>4. checks' \subseteq checks \cup {owned.gen}
  BY DEF AuthRequired
<1>5. stopped' \in BOOLEAN /\ terminal' \in {"none", "waiting"}
  BY <1>2 DEF LinkInv, LinkTypes
<1> QED BY <1>1, <1>2, <1>3, <1>4, <1>5, CloseOwned, LostKeepsLink

(* The handlers that touch the watchdog do not touch the socket.           *)
LEMMA AuthenticatedStep ==
  ASSUME LinkInv, Authenticated
  PROVE  LinkInv'
<1>1. CASE terminal = "waiting"
  BY <1>1, HaltKeepsLink DEF Authenticated
<1>2. CASE terminal # "waiting"
  <2>1. /\ UNCHANGED <<sockets, owned, stopped, checks, terminal, heard>>
        /\ authed' = TRUE /\ timers' = [timers EXCEPT !.auth = 0]
        /\ watch' = watch \/ watch' = [watch EXCEPT !.timer = owned.gen]
        /\ owned.socket # 0
    BY <1>2 DEF Authenticated, Refreshed
  <2> USE DEF LinkInv
  <2>2. /\ watch' \in [timer : 0..MaxSockets, pending : Challenges, previous : Challenges]
        /\ watch'.pending = watch.pending /\ watch'.previous = watch.previous
    BY <2>1 DEF LinkTypes
  <2>3. timers' \in [reconnect : BOOLEAN, auth : 0..MaxSockets] /\ timers'.reconnect = timers.reconnect
    BY <2>1, SignalLinkAssumption DEF LinkTypes
  <2>4. LinkTypes'
    BY <2>1, <2>2, <2>3 DEF LinkTypes
  <2>5. NewestOwned'
    BY <2>1 DEF NewestOwned
  <2>6. OneSocket'
    BY <2>1, <2>3 DEF OneSocket
  <2>7. Unanswered'
    BY <2>1, <2>2 DEF Unanswered
  <2> QED BY <2>4, <2>5, <2>6, <2>7
<1> QED BY <1>1, <1>2

(* What only the watchdog and its challenges change.                       *)
LEMMA WatchOnly ==
  ASSUME LinkInv, UNCHANGED <<sockets, owned, authed, stopped, timers, checks, terminal>>,
         watch' \in [timer : 0..MaxSockets, pending : Challenges, previous : Challenges],
         heard' \in [sent : Nat, flight : SUBSET [gen : 0..MaxSockets, seq : Nat], got : SUBSET Nat],
         stopped => watch' = Unwatched,
         Unanswered'
  PROVE  LinkInv'
BY DEF LinkInv, LinkTypes, NewestOwned, OneSocket

(* A watchdog started over waits for nothing yet.                          *)
LEMMA StartedOver ==
  ASSUME LinkInv,
         NEW w, w = IF Eligible THEN Refreshed(Unwatched) ELSE Unwatched
  PROVE  /\ w \in [timer : 0..MaxSockets, pending : Challenges, previous : Challenges]
         /\ w.pending = None /\ ~w.pending.confirm
         /\ owned.socket = 0 => w = Unwatched
<1>1. w = Unwatched \/ (owned.socket # 0 /\ w = [Unwatched EXCEPT !.timer = owned.gen])
  BY DEF Refreshed, Eligible
<1>2. /\ None \in Challenges /\ ~None.confirm
      /\ Unwatched \in [timer : 0..MaxSockets, pending : Challenges, previous : Challenges]
      /\ Unwatched.pending = None
  BY SignalLinkAssumption DEF None, Challenges, Unwatched
<1>3. owned.gen \in 0..MaxSockets
  BY DEF LinkInv, LinkTypes
<1> QED BY <1>1, <1>2, <1>3

(* A timer that ran late, or a hidden page, forgets the challenges.        *)
LEMMA RebaselineStep ==
  ASSUME LinkInv, Rebaseline
  PROVE  LinkInv'
<1>1. /\ watch' = IF Eligible THEN Refreshed(Unwatched) ELSE Unwatched
      /\ ~stopped /\ heard' = heard
      /\ UNCHANGED <<sockets, owned, authed, stopped, timers, checks, terminal>>
  BY DEF Rebaseline
<1>2. /\ watch' \in [timer : 0..MaxSockets, pending : Challenges, previous : Challenges]
      /\ watch'.pending = None /\ ~watch'.pending.confirm
      /\ owned.socket = 0 => watch' = Unwatched
  BY <1>1, StartedOver
<1>3. Unanswered'
  BY <1>1, <1>2 DEF LinkInv, Unanswered
<1> QED BY <1>1, <1>2, <1>3, WatchOnly DEF LinkInv, LinkTypes

(* A second challenge in a row waits with the first; both are of the owned *)
(* socket, and nothing newer than them exists that could be answered.      *)
LEMMA TickStep ==
  ASSUME LinkInv, Tick
  PROVE  LinkInv'
<1> USE DEF LinkInv
<1>1. /\ owned.socket # 0 /\ owned.socket = owned.gen /\ ~stopped
      /\ owned.gen \in 0..MaxSockets
  BY DEF Tick, Ticking, Eligible, NewestOwned, OneSocket, LinkTypes
<1>2. /\ UNCHANGED <<sockets, owned, authed, stopped, timers, checks, terminal>>
      /\ watch'.pending = [gen |-> owned.gen, seq |-> heard.sent + 1, confirm |-> watch.pending # None]
      /\ watch'.previous = IF watch.pending.gen = owned.gen THEN watch.pending ELSE None
      /\ watch'.timer = owned.gen
      /\ heard' = [heard EXCEPT !.sent = @ + 1, !.flight = @ \cup {[gen |-> owned.gen, seq |-> heard.sent + 1]}]
      /\ watch' = [timer |-> watch'.timer, pending |-> watch'.pending, previous |-> watch'.previous]
  BY DEF Tick, SendChallenge
<1>3. /\ heard'.sent = heard.sent + 1 /\ heard.sent \in Nat
      /\ heard'.got = heard.got /\ heard.got \subseteq Nat
      /\ heard'.flight = heard.flight \cup {[gen |-> owned.gen, seq |-> heard.sent + 1]}
  BY <1>2 DEF LinkTypes
<1>4. heard' \in [sent : Nat, flight : SUBSET [gen : 0..MaxSockets, seq : Nat], got : SUBSET Nat]
  <2> DEFINE flying == heard.flight \cup {[gen |-> owned.gen, seq |-> heard.sent + 1]}
  <2>1. heard.sent + 1 \in Nat
    BY <1>3
  <2>2. flying \in SUBSET [gen : 0..MaxSockets, seq : Nat]
    BY <1>1, <2>1 DEF LinkTypes
  <2>3. heard' = [heard EXCEPT !.sent = heard.sent + 1, !.flight = flying]
    BY <1>2
  <2> HIDE DEF flying
  <2> QED BY <2>1, <2>2, <2>3 DEF LinkTypes
<1>5. watch'.pending \in Challenges /\ watch'.previous \in Challenges
  <2>1. None \in Challenges
    BY SignalLinkAssumption DEF None, Challenges
  <2>2. watch.pending \in Challenges
    BY DEF LinkTypes
  <2>3. (watch.pending # None) \in BOOLEAN
    OBVIOUS
  <2> QED BY <1>1, <1>2, <1>3, <2>1, <2>2, <2>3 DEF Challenges
<1>6. watch' \in [timer : 0..MaxSockets, pending : Challenges, previous : Challenges]
  BY <1>1, <1>2, <1>5
<1>7. Unanswered'
  <2>1. \A s \in heard'.got : s <= heard.sent
    BY <1>3 DEF Unanswered
  <2>2. \A r \in heard'.flight : r.seq <= heard'.sent
    BY <1>1, <1>3 DEF Unanswered, LinkTypes
  <2>3. /\ watch'.pending.gen = owned.gen /\ watch'.pending.seq = heard'.sent
        /\ watch'.pending.confirm <=> watch.pending # None
    <3>1. watch'.pending.gen = owned.gen /\ watch'.pending.seq = heard'.sent
      BY <1>2, <1>3
    <3>2. watch'.pending.confirm = (watch.pending # None)
      BY <1>2
    <3> QED BY <3>1, <3>2
  <2>4. heard'.sent \notin heard'.got
    BY <1>3, <2>1
  <2>5. ASSUME watch.pending # None
        PROVE  /\ watch'.previous # None /\ watch'.previous.gen = owned.gen
               /\ watch'.previous.seq = heard'.sent - 1 /\ heard'.sent - 1 \notin heard'.got
    BY <2>5, <1>2, <1>3 DEF Unanswered
  <2>6. \A s \in heard'.got : s <= heard'.sent
    BY <1>3, <2>1
  <2> QED BY <1>1, <1>2, <2>2, <2>3, <2>4, <2>5, <2>6 DEF Unanswered
<1> QED BY <1>1, <1>2, <1>4, <1>6, <1>7, WatchOnly

(* A response that is not of a challenge waited for does not answer one:   *)
(* it is of the owned socket, so its number alone tells them apart.        *)
LEMMA ChallengeResponseStep ==
  ASSUME LinkInv, ChallengeResponse
  PROVE  LinkInv'
<1> USE DEF LinkInv
<1>1. PICK r \in heard.flight :
        /\ owned.socket = r.gen /\ sockets[r.gen] = "open"
        /\ heard' = [heard EXCEPT !.flight = @ \ {r}, !.got = @ \cup {r.seq}]
        /\ watch' = IF Answers(r) /\ r.gen = owned.gen
                    THEN IF Eligible THEN Refreshed(Unwatched) ELSE Unwatched
                    ELSE watch
  BY DEF ChallengeResponse
<1>2. UNCHANGED <<sockets, owned, authed, stopped, timers, checks, terminal>>
  BY DEF ChallengeResponse
<1>3. /\ r \in [gen : 0..MaxSockets, seq : Nat] /\ r.seq <= heard.sent
      /\ heard \in [sent : Nat, flight : SUBSET [gen : 0..MaxSockets, seq : Nat], got : SUBSET Nat]
  BY DEF LinkTypes, Unanswered
<1>4. /\ heard'.sent = heard.sent /\ heard'.got = heard.got \cup {r.seq}
      /\ heard'.flight = heard.flight \ {r}
  BY <1>1, <1>3
<1>5. heard' \in [sent : Nat, flight : SUBSET [gen : 0..MaxSockets, seq : Nat], got : SUBSET Nat]
  BY <1>1, <1>3
<1>6. /\ \A s \in heard'.got : s <= heard'.sent
      /\ \A x \in heard'.flight : x.seq <= heard'.sent
  BY <1>3, <1>4 DEF Unanswered
<1>7. CASE Answers(r) /\ r.gen = owned.gen
  <2>1. watch' = IF Eligible THEN Refreshed(Unwatched) ELSE Unwatched
    BY <1>1, <1>7
  <2>2. /\ watch' \in [timer : 0..MaxSockets, pending : Challenges, previous : Challenges]
        /\ watch'.pending = None /\ ~watch'.pending.confirm
        /\ owned.socket = 0 => watch' = Unwatched
    BY <2>1, StartedOver
  <2>3. stopped => watch' = Unwatched
    BY <2>2 DEF OneSocket
  <2>4. Unanswered'
    BY <1>2, <1>6, <2>2 DEF Unanswered
  <2> QED BY <1>2, <1>5, <2>2, <2>3, <2>4, WatchOnly
<1>8. CASE ~(Answers(r) /\ r.gen = owned.gen)
  <2>1. watch' = watch
    BY <1>1, <1>8
  <2>2. watch.pending # None => watch.pending.seq # r.seq
    <3>1. SUFFICES ASSUME watch.pending # None, watch.pending.seq = r.seq PROVE FALSE
      OBVIOUS
    <3>2. watch.pending.gen = owned.gen
      BY <3>1 DEF Unanswered
    <3>3. owned.gen = r.gen
      <4>1. owned.socket # 0
        BY <3>1 DEF Unanswered, Unwatched
      <4> QED BY <4>1, <1>1 DEF NewestOwned
    <3> QED BY <3>1, <3>2, <3>3, <1>8 DEF Answers
  <2>3. watch.pending.confirm => watch.previous.seq # r.seq
    <3>1. SUFFICES ASSUME watch.pending.confirm, watch.previous.seq = r.seq PROVE FALSE
      OBVIOUS
    <3>2. watch.previous # None /\ watch.previous.gen = owned.gen
      BY <3>1 DEF Unanswered
    <3>3. owned.gen = r.gen
      <4>1. owned.socket # 0
        BY <3>2 DEF Unanswered, Unwatched
      <4> QED BY <4>1, <1>1 DEF NewestOwned
    <3> QED BY <3>1, <3>2, <3>3, <1>8 DEF Answers
  <2>4. Unanswered'
    <3>1. watch.pending # None => heard'.sent \notin heard'.got
      BY <1>4, <2>2 DEF Unanswered
    <3>2. watch.pending.confirm => heard'.sent - 1 \notin heard'.got
      BY <1>4, <2>3 DEF Unanswered
    <3> QED BY <1>2, <1>4, <1>6, <2>1, <3>1, <3>2 DEF Unanswered
  <2>5. stopped => watch' = Unwatched
    BY <2>1 DEF OneSocket
  <2> QED BY <1>2, <1>5, <2>1, <2>4, <2>5, WatchOnly DEF LinkTypes
<1> QED BY <1>7, <1>8

(* The watchdog closes the socket it gives up before it opens another.     *)
LEMMA ReplaceUnresponsiveStep ==
  ASSUME LinkInv, ReplaceUnresponsive
  PROVE  LinkInv'
<1>1. owned.socket # 0 /\ ~stopped /\ ~timers.reconnect
  BY DEF ReplaceUnresponsive, Ticking, Eligible, LinkInv, OneSocket
<1>2. timers \in [reconnect : BOOLEAN, auth : 0..MaxSockets] /\ 0 \in 0..MaxSockets
  BY SignalLinkAssumption DEF LinkInv, LinkTypes
<1>3. timers' = [timers EXCEPT !.auth = 0]
  BY DEF ReplaceUnresponsive
<1>4. timers' \in [reconnect : {FALSE}, auth : 0..MaxSockets]
  BY <1>1, <1>2, <1>3
<1> QED BY <1>1, <1>4, ConnectedKeepsLink DEF ReplaceUnresponsive

(* An authentication that takes too long closes its socket.                *)
LEMMA AuthenticationTimeoutStep ==
  ASSUME LinkInv, AuthenticationTimeout
  PROVE  LinkInv'
<1>1. timers \in [reconnect : BOOLEAN, auth : 0..MaxSockets] /\ 0 \in 0..MaxSockets
  BY SignalLinkAssumption DEF LinkInv, LinkTypes
<1>2. timers' = [timers EXCEPT !.auth = 0]
  BY DEF AuthenticationTimeout
<1>3. timers' \in [reconnect : BOOLEAN, auth : 0..MaxSockets] /\ timers'.reconnect = timers.reconnect
  BY <1>1, <1>2
<1>4. stopped => timers' = NoTimers
  BY <1>1, <1>2 DEF LinkInv, OneSocket, NoTimers, AuthenticationTimeout
<1>5. sockets' = sockets \/ sockets' = Close(sockets, owned.socket)
  BY DEF AuthenticationTimeout
<1>6. /\ sockets' \in [Generations -> {"none", "connecting", "open", "closing", "closed"}]
      /\ \A g \in Generations :
            sockets'[g] \in {"connecting", "open"} => sockets[g] \in {"connecting", "open"}
  BY <1>5, CloseOwned DEF LinkInv, LinkTypes
<1> QED BY <1>3, <1>4, <1>6, SameSession DEF AuthenticationTimeout, LinkInv, LinkTypes, OneSocket

(* A message to leave with waits, or goes out and ends everything.         *)
LEMMA SendThenStopStep ==
  ASSUME LinkInv, SendThenStop
  PROVE  LinkInv'
<1>1. CASE Eligible
  BY <1>1, HaltKeepsLink DEF SendThenStop
<1>2. CASE ~Eligible
  BY <1>2, SameSession DEF SendThenStop, LinkInv, LinkTypes, OneSocket
<1> QED BY <1>1, <1>2

(* Every step keeps the invariant.                                         *)
LEMMA StepLink == LinkInv /\ [Next]_vars => LinkInv'
<1> SUFFICES ASSUME LinkInv, [Next]_vars PROVE LinkInv'
  OBVIOUS
<1>1. CASE Start
  BY <1>1, ConnectFromNothing DEF Start
<1>2. CASE Stop
  BY <1>2, HaltKeepsLink DEF Stop
<1>3. CASE SendThenStop
  BY <1>3, SendThenStopStep
<1>4. CASE TerminalTimeout
  BY <1>4, HaltKeepsLink DEF TerminalTimeout
<1>5. ASSUME NEW g \in Generations, SocketOpens(g) PROVE LinkInv'
  BY <1>5, SocketOpensStep
<1>6. ASSUME NEW g \in Generations, NEW final \in BOOLEAN, SocketCloses(g, final) PROVE LinkInv'
  BY <1>6, SocketClosesStep
<1>7. CASE AuthenticationTimeout
  BY <1>7, AuthenticationTimeoutStep
<1>8. CASE Authenticated
  BY <1>8, AuthenticatedStep
<1>9. CASE FatalError
  BY <1>9, HaltKeepsLink DEF FatalError
<1>10. CASE ReconnectTimer
  <2>1. owned.socket = 0
    BY <1>10 DEF ReconnectTimer, LinkInv, OneSocket
  <2> QED BY <1>10, <2>1, ConnectFromNothing DEF ReconnectTimer
<1>11. ASSUME NEW host \in BOOLEAN, AuthRequired(host) PROVE LinkInv'
  BY <1>11, AuthRequiredStep
<1>12. ASSUME NEW denied \in BOOLEAN, AccessAnswered(denied) PROVE LinkInv'
  BY <1>12, AccessAnsweredStep
<1>13. CASE Tick
  BY <1>13, TickStep
<1>14. CASE ReplaceUnresponsive
  BY <1>14, ReplaceUnresponsiveStep
<1>15. CASE Rebaseline
  BY <1>15, RebaselineStep
<1>16. CASE ChallengeResponse
  BY <1>16, ChallengeResponseStep
<1>17. CASE UNCHANGED vars
  BY <1>17 DEF vars, LinkInv, LinkTypes, NewestOwned, OneSocket, Unanswered, Eligible
<1> QED
  BY <1>1, <1>2, <1>3, <1>4, <1>5, <1>6, <1>7, <1>8, <1>9, <1>10, <1>11, <1>12, <1>13,
     <1>14, <1>15, <1>16, <1>17 DEF Next

(* The invariant holds from the start.                                     *)
LEMMA LinkInvariant == Spec => []LinkInv
<1>1. Init => LinkInv
  BY InitLink
<1>2. LinkInv /\ [Next]_vars => LinkInv'
  BY StepLink
<1> QED BY <1>1, <1>2, PTL DEF Spec

(* No order of opens, closes, timers, checks and stops leaves a socket     *)
(* behind the client or arms a second one (SignalingClient.connect,        *)
(* retireSocketForRecovery, stop, handleClose).                            *)
THEOREM LinkSafe == Spec => []LinkSafety
<1>1. LinkInv => LinkSafety
  BY DEF LinkInv, LinkSafety, TypeOK, LinkTypes
<1> QED BY <1>1, LinkInvariant, PTL

(* The watchdog never replaces a socket that answered one of the last two  *)
(* challenges, however responses, hidden pages and reconnects interleave   *)
(* (handleSignalingWatchdogTick, replaceUnresponsiveSocket).               *)
THEOREM HealthyKept == Spec => HealthySocketKept
<1>1. LinkInv => HealthyStep
  <2> SUFFICES ASSUME LinkInv, ReplaceUnresponsive
               PROVE  {heard.sent, heard.sent - 1} \cap heard.got = {}
    BY DEF HealthyStep
  <2>1. watch.pending.confirm
    BY DEF ReplaceUnresponsive
  <2>2. watch.pending # None
    BY <2>1 DEF None
  <2> QED BY <2>1, <2>2 DEF LinkInv, Unanswered
<1>2. LinkInv => [HealthyStep]_vars
  BY <1>1
<1> QED BY <1>2, LinkInvariant, PTL DEF HealthySocketKept

-----------------------------------------------------------------------------
(***************************************************************************)
(* The share of a Host's room, for every number of shares, sockets, pauses *)
(* and refusals.                                                           *)
(***************************************************************************)

Ups ==
    [t : {"start", "stop", "pause"}, share : 1..MaxShares, paused : BOOLEAN]
    \cup [t : {"close"}, share : {0}, paused : BOOLEAN]
    \cup [t : {"auth"}, share : Shares, only : BOOLEAN, paused : BOOLEAN]

Downs ==
    [t : {"started", "failed"}, share : 1..MaxShares, paused : BOOLEAN]
    \cup [t : {"authed", "pause-source", "close", "replaced"}, share : Shares, paused : BOOLEAN]

Pages == [gen : Shares, last : Shares, server : Shares, paused : BOOLEAN, live : BOOLEAN]

Signals ==
    [share : Shares, only : BOOLEAN, paused : BOOLEAN, pending : Shares,
     authed : BOOLEAN, sock : 0..MaxConnections, last : 0..MaxConnections,
     opened : BOOLEAN, stopped : BOOLEAN]

Servers ==
    [host : 0..MaxConnections, auth : [Sockets -> Shares \cup {NoAuth}],
     open : [Sockets -> BOOLEAN], down : [Sockets -> Seq(Downs)], gen : Shares,
     policy : BOOLEAN, paused : BOOLEAN, told : [online : BOOLEAN, paused : BOOLEAN]]

ShareTyped ==
    /\ page \in Pages /\ signal \in Signals /\ server \in Servers
    /\ up \in [Sockets -> Seq(Ups)]

(* The page and its client want the same share, the newest one, and the    *)
(* share is live once no start waits for its answer.                       *)
Intent ==
    /\ ~signal.stopped
    /\ signal.share = page.gen /\ (signal.only <=> page.gen = 0)
    /\ page.gen \in {0, page.last}
    /\ signal.pending \in {0, page.gen}
    /\ page.live <=> page.gen # 0 /\ signal.pending = 0
    /\ page.live => page.server = page.gen
    /\ signal.sock \in {0, signal.last}
    /\ signal.authed => signal.sock # 0 /\ signal.opened

(* Nothing names a share that the page has not started.                    *)
Numbered ==
    /\ server.gen <= page.last
    /\ \A k \in Sockets :
          /\ server.auth[k] <= page.last
          /\ \A i \in DOMAIN up[k] :
                /\ up[k][i].share <= page.last
                /\ up[k][i].t = "auth" => (up[k][i].only <=> up[k][i].share = 0)
          /\ \A i \in DOMAIN server.down[k] : server.down[k][i].share <= page.last

Untold == [online |-> FALSE, paused |-> FALSE]

(* The newest session, once authenticated, is the Host's; the share the    *)
(* Host's session owns is the one on record, and the viewers are told what *)
(* the record says.                                                        *)
Recorded ==
    /\ server.host # 0 => server.auth[server.host] # NoAuth
    /\ signal.sock # 0 /\ server.open[signal.sock] /\ server.auth[signal.sock] # NoAuth
          => server.host = signal.sock
    /\ server.host # 0 /\ server.auth[server.host] > 0
          => server.policy /\ server.gen = server.auth[server.host]
    /\ ~server.policy => server.told = Untold
    /\ server.gen = 0 => ~server.policy
    /\ server.host # 0 /\ server.open[server.host] =>
          server.told = IF server.auth[server.host] > 0
                        THEN [online |-> TRUE, paused |-> server.paused] ELSE Untold

(* Sockets to come are untouched, and only the newest one authenticates.   *)
Unread ==
    /\ \A k \in Sockets : k > signal.last =>
          up[k] = <<>> /\ server.down[k] = <<>> /\ server.open[k] /\ server.auth[k] = NoAuth
    /\ \A k \in Sockets : server.open[k] /\ k # signal.sock =>
          \A i \in DOMAIN up[k] : up[k][i].t # "auth"

(* A live share is on record, and nothing under way takes it off.          *)
Acknowledged ==
    page.live =>
        /\ server.policy /\ server.gen = page.gen
        /\ \A k \in Sockets : server.open[k] /\ k \in {server.host, signal.sock} =>
              \A i \in DOMAIN up[k] :
                 /\ up[k][i].t \in {"auth", "pause", "close"}
                 /\ up[k][i].t = "auth" => up[k][i].share = page.gen

(* How a session that owns share a may be asked next, and what may follow  *)
(* a request.                                                              *)
Opens(a, m) ==
    \/ m.t = "start" /\ a = 0
    \/ m.t = "stop" /\ a \in {0, m.share}
    \/ m.t = "pause" /\ a = m.share

Then(m, n) ==
    \/ m.t = "start" /\ n.t = "stop" /\ n.share = m.share
    \/ m.t = "stop" /\ n.t = "start"
    \/ m.t = "pause" /\ n.t \in {"pause", "stop"} /\ n.share = m.share

Ordered(a, q) ==
    /\ \A i \in DOMAIN q : q[i].t \in {"start", "stop", "pause"}
    /\ q # <<>> => Opens(a, q[1])
    /\ \A i \in DOMAIN q : i + 1 \in DOMAIN q => Then(q[i], q[i + 1])

(* Where the requests lead: to the share the page wants, or to an answer   *)
(* it has not read.  The page wants share g (0: none), whose start p waits *)
(* for its answer (0: none does).                                          *)
Leads(g, p, a, q, d) ==
    /\ g = 0 => IF q = <<>> THEN a = 0 ELSE q[Len(q)].t = "stop"
    /\ g # 0 /\ p = 0 => a = g /\ \A i \in DOMAIN q : q[i].t = "pause" /\ q[i].share = g
    /\ g # 0 /\ p # 0 =>
          IF q = <<>>
          THEN \E i \in DOMAIN d : d[i].t \in {"started", "failed"} /\ d[i].share = g
          ELSE /\ q[Len(q)].t = "start" /\ q[Len(q)].share = g
               /\ \A i \in DOMAIN q : i # Len(q) => q[i].share # g

(* An answer about the share the page wants is still true.                 *)
StillTrue(g, p, a, q, d) ==
    \A i \in DOMAIN d :
       /\ d[i].t \in {"started", "failed", "pause-source"}
       /\ g # 0 /\ d[i].share = g =>
             /\ d[i].t = "started" => a = g /\ (p # 0 => q = <<>>)
             /\ d[i].t = "failed" => a = 0 /\ p # 0 /\ q = <<>>

Talking(g, p, a, q, d) == Ordered(a, q) /\ Leads(g, p, a, q, d) /\ StillTrue(g, p, a, q, d)

(* The newest socket: ended by the server, not authenticated yet, answered *)
(* but not heard, or talking.                                              *)
Ended == ~signal.authed /\ \A i \in DOMAIN server.down[signal.sock] :
                              server.down[signal.sock][i].t = "close"

Asking ==
    /\ ~signal.authed /\ server.down[signal.sock] = <<>>
    /\ IF signal.opened THEN Len(up[signal.sock]) = 1 /\ up[signal.sock][1].t = "auth"
                        ELSE up[signal.sock] = <<>>

Answered(g, p, a, q, d) ==
    /\ signal.opened /\ q = <<>> /\ d # <<>>
    /\ d[1].t = "authed" /\ d[1].share = a
    /\ \A i \in DOMAIN d : i # 1 => d[i].t = "pause-source"
    /\ g # 0 /\ p = 0 => a = g

NewestSocket ==
    LET c == signal.sock
    IN  c # 0 =>
        IF ~server.open[c] THEN Ended
        ELSE IF server.auth[c] = NoAuth THEN Asking
        ELSE IF ~signal.authed
        THEN Answered(page.gen, signal.pending, server.auth[c], up[c], server.down[c])
        ELSE Talking(page.gen, signal.pending, server.auth[c], up[c], server.down[c])

ShareInv ==
    /\ ShareTyped /\ Intent /\ Numbered /\ Recorded /\ Unread /\ Acknowledged
    /\ NewestSocket

(* A message is appended to a queue, or taken from it.                     *)
LEMMA Sent ==
  ASSUME NEW S, NEW q \in Seq(S), NEW m \in S
  PROVE  LET r == q \o <<m>>
         IN  /\ r \in Seq(S) /\ r # <<>> /\ Len(q) \in Nat /\ Len(r) = Len(q) + 1
             /\ DOMAIN q = 1..Len(q) /\ DOMAIN r = 1..Len(q) + 1
             /\ \A i \in 1..Len(q) : r[i] = q[i]
             /\ r[Len(q) + 1] = m
             /\ q = <<>> <=> Len(q) = 0
<1> DEFINE r == q \o <<m>>
<1>1. <<m>> \in Seq(S) /\ Len(<<m>>) = 1 /\ <<m>>[1] = m
  OBVIOUS
<1>2. r \in Seq(S) /\ Len(r) = Len(q) + 1
  BY <1>1, ConcatProperties
<1>3. Len(q) \in Nat /\ DOMAIN q = 1..Len(q) /\ DOMAIN r = 1..Len(q) + 1
  BY <1>2, LenProperties
<1>4. \A i \in 1..Len(q) : r[i] = q[i]
  BY <1>1, <1>3, ConcatProperties
<1>5. r[Len(q) + 1] = m
  BY <1>1, <1>3, ConcatProperties
<1>6. r # <<>> /\ (q = <<>> <=> Len(q) = 0)
  BY <1>2, <1>3, EmptySeq
<1> HIDE DEF r
<1> QED BY <1>2, <1>3, <1>4, <1>5, <1>6 DEF r

LEMMA SentTwo ==
  ASSUME NEW S, NEW q \in Seq(S), NEW m \in S, NEW n \in S
  PROVE  q \o (<<m>> \o <<n>>) = (q \o <<m>>) \o <<n>>
<1>1. <<m>> \in Seq(S) /\ <<n>> \in Seq(S)
  OBVIOUS
<1> QED BY <1>1, ConcatAssociative

LEMMA Taken ==
  ASSUME NEW S, NEW q \in Seq(S), q # <<>>
  PROVE  LET r == Tail(q)
         IN  /\ r \in Seq(S) /\ Head(q) = q[1] /\ q[1] \in S
             /\ Len(q) \in Nat \ {0} /\ DOMAIN q = 1..Len(q)
             /\ Len(r) = Len(q) - 1 /\ DOMAIN r = 1..Len(q) - 1
             /\ \A i \in 1..Len(q) - 1 : i + 1 \in 1..Len(q) /\ r[i] = q[i + 1]
             /\ r = <<>> <=> Len(q) = 1
<1> DEFINE r == Tail(q)
<1>1. Len(q) \in Nat \ {0} /\ DOMAIN q = 1..Len(q)
  BY LenProperties, EmptySeq
<1>2. r \in Seq(S) /\ Len(r) = Len(q) - 1 /\ Head(q) = q[1] /\ q[1] \in S
  BY <1>1, HeadTailProperties
<1>3. DOMAIN r = 1..Len(q) - 1 /\ (r = <<>> <=> Len(q) = 1)
  BY <1>1, <1>2, LenProperties, EmptySeq
<1>4. \A i \in 1..Len(q) - 1 : i + 1 \in 1..Len(q) /\ r[i] = q[i + 1]
  BY <1>1, <1>2, <1>3, HeadTailProperties
<1> HIDE DEF r
<1> QED BY <1>1, <1>2, <1>3, <1>4 DEF r

LEMMA EmptyIs ==
  ASSUME NEW S
  PROVE  /\ <<>> \in Seq(S) /\ Len(<<>>) = 0 /\ DOMAIN <<>> = {}
         /\ \A q \in Seq(S) : <<>> \o q = q /\ q \o <<>> = q
OBVIOUS

LEMMA UpIs ==
  ASSUME NEW m \in Ups
  PROVE  /\ m.t \in {"start", "stop", "pause", "close", "auth"}
         /\ m.share \in Shares /\ m.share \in Nat /\ m.paused \in BOOLEAN
         /\ m.t \in {"start", "stop", "pause"} => m.share # 0
         /\ m.t = "auth" => m.only \in BOOLEAN
<1> USE HostShareAssumption DEF Shares
<1>1. CASE m \in [t : {"start", "stop", "pause"}, share : 1..MaxShares, paused : BOOLEAN]
  BY <1>1
<1>2. CASE m \in [t : {"close"}, share : {0}, paused : BOOLEAN]
  BY <1>2
<1>3. CASE m \in [t : {"auth"}, share : Shares, only : BOOLEAN, paused : BOOLEAN]
  BY <1>3
<1> QED BY <1>1, <1>2, <1>3 DEF Ups

LEMMA DownIs ==
  ASSUME NEW m \in Downs
  PROVE  /\ m.t \in {"authed", "started", "failed", "pause-source", "close", "replaced"}
         /\ m.share \in Shares /\ m.share \in Nat /\ m.paused \in BOOLEAN
         /\ m.t \in {"started", "failed"} => m.share # 0
<1> USE HostShareAssumption DEF Shares
<1>1. CASE m \in [t : {"started", "failed"}, share : 1..MaxShares, paused : BOOLEAN]
  BY <1>1
<1>2. CASE m \in [t : {"authed", "pause-source", "close", "replaced"}, share : Shares,
                  paused : BOOLEAN]
  BY <1>2
<1> QED BY <1>1, <1>2 DEF Downs

-----------------------------------------------------------------------------
(* What a talking session goes through, request by request.                *)

(* The page starts a share that nothing names yet.                         *)
LEMMA TalkStart ==
  ASSUME NEW n \in Shares \ {0}, NEW a \in Shares, NEW q \in Seq(Ups), NEW d \in Seq(Downs),
         NEW m \in Ups, m.t = "start", m.share = n,
         Talking(0, 0, a, q, d),
         \A i \in DOMAIN q : q[i].share < n,
         \A i \in DOMAIN d : d[i].share < n
  PROVE  Talking(n, n, a, q \o <<m>>, d)
<1> DEFINE r == q \o <<m>>
<1>1. /\ r # <<>> /\ Len(q) \in Nat /\ Len(r) = Len(q) + 1
      /\ DOMAIN q = 1..Len(q) /\ DOMAIN r = 1..Len(q) + 1
      /\ \A i \in 1..Len(q) : r[i] = q[i]
      /\ r[Len(q) + 1] = m
      /\ q = <<>> <=> Len(q) = 0
  BY Sent
<1> HIDE DEF r
<1>2. n \in Nat /\ n # 0
  BY HostShareAssumption DEF Shares
<1>3. Ordered(a, r)
  <2>1. \A i \in DOMAIN r : r[i].t \in {"start", "stop", "pause"}
    BY <1>1 DEF Talking, Ordered
  <2>2. Opens(a, r[1])
    BY <1>1 DEF Talking, Ordered, Leads, Opens
  <2>3. ASSUME NEW i \in DOMAIN r, i + 1 \in DOMAIN r PROVE Then(r[i], r[i + 1])
    <3>1. CASE i + 1 \in 1..Len(q)
      BY <1>1, <2>3, <3>1 DEF Talking, Ordered
    <3>2. CASE i + 1 = Len(q) + 1
      <4>1. i = Len(q) /\ i \in 1..Len(q) /\ q # <<>>
        BY <1>1, <2>3, <3>2
      <4> QED BY <1>1, <4>1 DEF Talking, Leads, Then
    <3> QED BY <1>1, <2>3, <3>1, <3>2
  <2> QED BY <2>1, <2>2, <2>3 DEF Ordered
<1>4. Leads(n, n, a, r, d)
  <2>1. \A i \in DOMAIN r : i # Len(r) => r[i].share # n
    <3> SUFFICES ASSUME NEW i \in DOMAIN r, i # Len(r) PROVE r[i].share # n
      OBVIOUS
    <3>1. i \in 1..Len(q) /\ r[i] = q[i]
      BY <1>1
    <3>2. q[i].share < n
      BY <1>1, <3>1
    <3>3. q[i] \in Ups
      BY <1>1, <3>1
    <3>4. q[i].share \in Nat
      BY <3>3, UpIs
    <3> QED BY <3>1, <3>2, <3>4, <1>2
  <2> QED BY <1>1, <1>2, <2>1 DEF Leads
<1>5. StillTrue(n, n, a, r, d)
  <2> SUFFICES ASSUME NEW i \in DOMAIN d
               PROVE d[i].t \in {"started", "failed", "pause-source"} /\ d[i].share # n
    BY DEF StillTrue
  <2>1. d[i] \in Downs
    BY LenProperties
  <2>2. d[i].share \in Nat /\ d[i].share < n
    BY <2>1, DownIs
  <2> QED BY <2>2, <1>2 DEF Talking, StillTrue
<1> QED BY <1>3, <1>4, <1>5 DEF Talking, r

(* It stops the share it wants.                                            *)
LEMMA TalkStop ==
  ASSUME NEW g \in Shares \ {0}, NEW p \in {0, g}, NEW a \in Shares,
         NEW q \in Seq(Ups), NEW d \in Seq(Downs),
         NEW m \in Ups, m.t = "stop", m.share = g,
         Talking(g, p, a, q, d)
  PROVE  Talking(0, 0, a, q \o <<m>>, d)
<1> DEFINE r == q \o <<m>>
<1>1. /\ r # <<>> /\ Len(q) \in Nat /\ Len(r) = Len(q) + 1
      /\ DOMAIN q = 1..Len(q) /\ DOMAIN r = 1..Len(q) + 1
      /\ \A i \in 1..Len(q) : r[i] = q[i]
      /\ r[Len(q) + 1] = m
      /\ q = <<>> <=> Len(q) = 0
  BY Sent
<1> HIDE DEF r
<1>2. g # 0
  OBVIOUS
<1>3. Ordered(a, r)
  <2>1. \A i \in DOMAIN r : r[i].t \in {"start", "stop", "pause"}
    BY <1>1 DEF Talking, Ordered
  <2>2. Opens(a, r[1])
    <3>1. CASE q # <<>>
      BY <1>1, <3>1 DEF Talking, Ordered
    <3>2. CASE q = <<>>
      <4>1. CASE p = 0
        BY <1>1, <1>2, <3>2, <4>1 DEF Talking, Leads, Opens
      <4>2. CASE p # 0
        <5>1. PICK i \in DOMAIN d : d[i].t \in {"started", "failed"} /\ d[i].share = g
          BY <1>2, <3>2, <4>2 DEF Talking, Leads
        <5>2. a \in {0, g}
          BY <1>2, <5>1 DEF Talking, StillTrue
        <5> QED BY <1>1, <3>2, <5>2 DEF Opens
      <4> QED BY <4>1, <4>2
    <3> QED BY <3>1, <3>2
  <2>3. ASSUME NEW i \in DOMAIN r, i + 1 \in DOMAIN r PROVE Then(r[i], r[i + 1])
    <3>1. CASE i + 1 \in 1..Len(q)
      BY <1>1, <2>3, <3>1 DEF Talking, Ordered
    <3>2. CASE i + 1 = Len(q) + 1
      <4>1. i = Len(q) /\ i \in 1..Len(q) /\ q # <<>>
        BY <1>1, <2>3, <3>2
      <4> QED BY <1>1, <1>2, <4>1 DEF Talking, Leads, Then
    <3> QED BY <1>1, <2>3, <3>1, <3>2
  <2> QED BY <2>1, <2>2, <2>3 DEF Ordered
<1>4. Leads(0, 0, a, r, d)
  BY <1>1 DEF Leads
<1>5. StillTrue(0, 0, a, r, d)
  BY DEF Talking, StillTrue
<1> QED BY <1>3, <1>4, <1>5 DEF Talking, r

(* It pauses or resumes the share that is live.                            *)
LEMMA TalkPause ==
  ASSUME NEW g \in Shares \ {0}, NEW a \in Shares,
         NEW q \in Seq(Ups), NEW d \in Seq(Downs),
         NEW m \in Ups, m.t = "pause", m.share = g,
         Talking(g, 0, a, q, d)
  PROVE  Talking(g, 0, a, q \o <<m>>, d)
<1> DEFINE r == q \o <<m>>
<1>1. /\ r # <<>> /\ Len(q) \in Nat /\ Len(r) = Len(q) + 1
      /\ DOMAIN q = 1..Len(q) /\ DOMAIN r = 1..Len(q) + 1
      /\ \A i \in 1..Len(q) : r[i] = q[i]
      /\ r[Len(q) + 1] = m
      /\ q = <<>> <=> Len(q) = 0
  BY Sent
<1> HIDE DEF r
<1>2. a = g /\ \A i \in 1..Len(q) : q[i].t = "pause" /\ q[i].share = g
  BY <1>1 DEF Talking, Leads
<1>3. \A i \in DOMAIN r : r[i].t = "pause" /\ r[i].share = g
  BY <1>1, <1>2
<1>4. Ordered(a, r)
  <2>1. Opens(a, r[1])
    BY <1>1, <1>2, <1>3 DEF Opens
  <2>2. \A i \in DOMAIN r : i + 1 \in DOMAIN r => Then(r[i], r[i + 1])
    BY <1>3 DEF Then
  <2> QED BY <1>3, <2>1, <2>2 DEF Ordered
<1>5. Leads(g, 0, a, r, d)
  BY <1>2, <1>3 DEF Leads
<1>6. StillTrue(g, 0, a, r, d)
  BY <1>2 DEF Talking, StillTrue
<1> QED BY <1>4, <1>5, <1>6 DEF Talking, r
(* The server takes a request: what stays in the queue is in order, from   *)
(* whatever the session owns then.                                         *)
LEMMA OrderTaken ==
  ASSUME NEW a \in Shares, NEW b \in Shares, NEW q \in Seq(Ups), q # <<>>, Ordered(a, q),
         \A n \in Ups : Then(q[1], n) => Opens(b, n)
  PROVE  Ordered(b, Tail(q))
<1> DEFINE r == Tail(q)
<1>1. /\ r \in Seq(Ups) /\ Len(q) \in Nat \ {0} /\ DOMAIN q = 1..Len(q)
      /\ DOMAIN r = 1..Len(q) - 1
      /\ \A i \in 1..Len(q) - 1 : i + 1 \in 1..Len(q) /\ r[i] = q[i + 1]
      /\ r = <<>> <=> Len(q) = 1
  BY Taken
<1> HIDE DEF r
<1>2. \A i \in DOMAIN r : r[i].t \in {"start", "stop", "pause"}
  BY <1>1 DEF Ordered
<1>3. ASSUME r # <<>> PROVE Opens(b, r[1])
  <2>1. 1 \in 1..Len(q) - 1 /\ r[1] = q[2] /\ 2 \in DOMAIN q
    BY <1>1, <1>3
  <2>2. Then(q[1], q[2])
    <3>1. 1 \in DOMAIN q /\ 1 + 1 \in DOMAIN q /\ 1 + 1 = 2
      BY <1>1, <2>1
    <3> QED BY <3>1 DEF Ordered
  <2>3. q[2] \in Ups
    BY <2>1
  <2> QED BY <2>1, <2>2, <2>3
<1>4. ASSUME NEW i \in DOMAIN r, i + 1 \in DOMAIN r PROVE Then(r[i], r[i + 1])
  <2>1. i + 1 \in DOMAIN q /\ (i + 1) + 1 \in DOMAIN q
    BY <1>1, <1>4
  <2> QED BY <1>1, <1>4, <2>1 DEF Ordered
<1> QED BY <1>2, <1>3, <1>4 DEF Ordered, r

(* A start is answered: the session owns the share, or none.               *)
LEMMA TalkStarted ==
  ASSUME NEW g \in Shares, NEW p \in {0, g}, NEW a \in Shares,
         NEW q \in Seq(Ups), NEW d \in Seq(Downs), q # <<>>, q[1].t = "start",
         Talking(g, p, a, q, d),
         NEW b \in {0, q[1].share}, NEW m \in Downs, m.share = q[1].share,
         m.t = IF b = 0 THEN "failed" ELSE "started"
  PROVE  a = 0 /\ Talking(g, p, b, Tail(q), d \o <<m>>)
<1> DEFINE r == Tail(q)
           e == d \o <<m>>
<1>1. /\ r \in Seq(Ups) /\ Len(q) \in Nat \ {0} /\ DOMAIN q = 1..Len(q)
      /\ Len(r) = Len(q) - 1 /\ DOMAIN r = 1..Len(q) - 1
      /\ \A i \in 1..Len(q) - 1 : i + 1 \in 1..Len(q) /\ r[i] = q[i + 1]
      /\ r = <<>> <=> Len(q) = 1
      /\ q[1] \in Ups
  BY Taken
<1>2. /\ Len(d) \in Nat /\ DOMAIN d = 1..Len(d) /\ DOMAIN e = 1..Len(d) + 1
      /\ \A i \in 1..Len(d) : e[i] = d[i]
      /\ e[Len(d) + 1] = m
  BY Sent
<1>3. q[1].share \in Shares \ {0} /\ b \in Shares /\ q[1].share \in Nat
  <2>1. q[1].share \in Shares /\ q[1].share # 0 /\ q[1].share \in Nat
    BY <1>1, UpIs
  <2>2. 0 \in Shares
    BY HostShareAssumption DEF Shares
  <2> QED BY <2>1, <2>2
<1> HIDE DEF r, e
<1>4. a = 0
  BY <1>1 DEF Talking, Ordered, Opens
<1>5. Ordered(b, r)
  <2>1. ASSUME NEW n \in Ups, Then(q[1], n) PROVE Opens(b, n)
    BY <2>1 DEF Then, Opens
  <2> QED BY <1>3, <2>1, OrderTaken DEF Talking, r
<1>6. g # 0 => p # 0
  BY <1>1 DEF Talking, Leads
<1>7. Leads(g, p, b, r, e)
  <2>1. CASE g = 0
    <3>1. q[Len(q)].t = "stop"
      BY <2>1 DEF Talking, Leads
    <3>2. Len(q) # 1
      BY <3>1
    <3>3. r # <<>> /\ r[Len(r)] = q[Len(q)]
      BY <1>1, <3>2
    <3> QED BY <2>1, <3>1, <3>3 DEF Leads
  <2>2. CASE g # 0 /\ Len(q) = 1
    <3>1. r = <<>> /\ q[1].share = g
      BY <1>1, <1>6, <2>2 DEF Talking, Leads
    <3>2. Len(d) + 1 \in DOMAIN e /\ e[Len(d) + 1].t \in {"started", "failed"}
          /\ e[Len(d) + 1].share = g
      BY <1>2, <3>1
    <3> QED BY <1>6, <2>2, <3>1, <3>2 DEF Leads
  <2>3. CASE g # 0 /\ Len(q) # 1
    <3>1. r # <<>> /\ r[Len(r)] = q[Len(q)]
      BY <1>1, <2>3
    <3>8. \A j \in DOMAIN q : j # Len(q) => q[j].share # g
      BY <1>1, <1>6, <2>3 DEF Talking, Leads
    <3>2. \A i \in DOMAIN r : i # Len(r) => r[i].share # g
      <4> SUFFICES ASSUME NEW i \in DOMAIN r, i # Len(r) PROVE r[i].share # g
        OBVIOUS
      <4>1. i + 1 \in DOMAIN q /\ i + 1 # Len(q) /\ r[i] = q[i + 1]
        BY <1>1
      <4> QED BY <3>8, <4>1
    <3>9. q[Len(q)].t = "start" /\ q[Len(q)].share = g
      BY <1>6, <2>3, <3>1, <3>2 DEF Talking, Leads
    <3> QED BY <1>6, <2>3, <3>1, <3>2, <3>9 DEF Leads
  <2> QED BY <2>1, <2>2, <2>3
<1>8. StillTrue(g, p, b, r, e)
  <2> SUFFICES ASSUME NEW i \in DOMAIN e
               PROVE /\ e[i].t \in {"started", "failed", "pause-source"}
                     /\ g # 0 /\ e[i].share = g =>
                           /\ e[i].t = "started" => b = g /\ (p # 0 => r = <<>>)
                           /\ e[i].t = "failed" => b = 0 /\ p # 0 /\ r = <<>>
    BY DEF StillTrue
  <2>1. CASE i \in DOMAIN d
    <3>1. e[i] = d[i]
      BY <1>2, <2>1
    <3>2. q # <<>>
      OBVIOUS
    <3> QED BY <1>6, <2>1, <3>1, <3>2 DEF Talking, StillTrue
  <2>2. CASE i = Len(d) + 1
    <3>1. e[i] = m
      BY <1>2, <2>2
    <3>2. ASSUME g # 0, m.share = g PROVE r = <<>>
      <4>1. \A j \in DOMAIN q : j # Len(q) => q[j].share # g
        BY <1>6, <3>2 DEF Talking, Leads
      <4>2. 1 \in DOMAIN q /\ q[1].share = g
        BY <1>1, <3>2
      <4>3. Len(q) = 1
        BY <4>1, <4>2
      <4> QED BY <1>1, <4>3
    <3> QED BY <1>3, <1>6, <3>1, <3>2
  <2> QED BY <1>2, <2>1, <2>2
<1> QED BY <1>4, <1>5, <1>7, <1>8 DEF Talking, r, e

(* A stop is served: it names the share the session owns, if any.          *)
LEMMA TalkStopped ==
  ASSUME NEW g \in Shares, NEW p \in {0, g}, NEW a \in Shares,
         NEW q \in Seq(Ups), NEW d \in Seq(Downs), q # <<>>, q[1].t = "stop",
         Talking(g, p, a, q, d)
  PROVE  a \in {0, q[1].share} /\ Talking(g, p, 0, Tail(q), d)
<1> DEFINE r == Tail(q)
<1>1. /\ r \in Seq(Ups) /\ Len(q) \in Nat \ {0} /\ DOMAIN q = 1..Len(q)
      /\ Len(r) = Len(q) - 1 /\ DOMAIN r = 1..Len(q) - 1
      /\ \A i \in 1..Len(q) - 1 : i + 1 \in 1..Len(q) /\ r[i] = q[i + 1]
      /\ r = <<>> <=> Len(q) = 1
      /\ q[1] \in Ups
  BY Taken
<1> HIDE DEF r
<1>2. a \in {0, q[1].share}
  BY <1>1 DEF Talking, Ordered, Opens
<1>3. Ordered(0, r)
  <2>1. ASSUME NEW n \in Ups, Then(q[1], n) PROVE Opens(0, n)
    BY <2>1 DEF Then, Opens
  <2>2. 0 \in Shares
    BY HostShareAssumption DEF Shares
  <2> QED BY <2>1, <2>2, OrderTaken DEF Talking, r
<1>4. g # 0 => p # 0 /\ Len(q) # 1
  BY <1>1 DEF Talking, Leads
<1>5. Leads(g, p, 0, r, d)
  <2>1. CASE g = 0
    <3>1. CASE Len(q) = 1
      BY <1>1, <2>1, <3>1 DEF Leads
    <3>2. CASE Len(q) # 1
      <4>1. r # <<>> /\ r[Len(r)] = q[Len(q)]
        BY <1>1, <3>2
      <4> QED BY <2>1, <4>1 DEF Talking, Leads
    <3> QED BY <3>1, <3>2
  <2>2. CASE g # 0
    <3>1. r # <<>> /\ r[Len(r)] = q[Len(q)]
      BY <1>1, <1>4, <2>2
    <3>8. \A j \in DOMAIN q : j # Len(q) => q[j].share # g
      BY <1>1, <1>4, <2>2 DEF Talking, Leads
    <3>2. \A i \in DOMAIN r : i # Len(r) => r[i].share # g
      <4> SUFFICES ASSUME NEW i \in DOMAIN r, i # Len(r) PROVE r[i].share # g
        OBVIOUS
      <4>1. i + 1 \in DOMAIN q /\ i + 1 # Len(q) /\ r[i] = q[i + 1]
        BY <1>1
      <4> QED BY <3>8, <4>1
    <3>9. q[Len(q)].t = "start" /\ q[Len(q)].share = g
      BY <1>4, <2>2, <3>1, <3>2 DEF Talking, Leads
    <3> QED BY <1>4, <2>2, <3>1, <3>2, <3>9 DEF Leads
  <2> QED BY <2>1, <2>2
<1>6. StillTrue(g, p, 0, r, d)
  <2>1. q # <<>>
    OBVIOUS
  <2> QED BY <1>4, <2>1 DEF Talking, StillTrue
<1> QED BY <1>2, <1>3, <1>5, <1>6 DEF Talking, r

(* A pause is served: it names the share the session owns.                 *)
LEMMA TalkPaused ==
  ASSUME NEW g \in Shares, NEW p \in {0, g}, NEW a \in Shares,
         NEW q \in Seq(Ups), NEW d \in Seq(Downs), q # <<>>, q[1].t = "pause",
         Talking(g, p, a, q, d)
  PROVE  a = q[1].share /\ Talking(g, p, a, Tail(q), d)
<1> DEFINE r == Tail(q)
<1>1. /\ r \in Seq(Ups) /\ Len(q) \in Nat \ {0} /\ DOMAIN q = 1..Len(q)
      /\ Len(r) = Len(q) - 1 /\ DOMAIN r = 1..Len(q) - 1
      /\ \A i \in 1..Len(q) - 1 : i + 1 \in 1..Len(q) /\ r[i] = q[i + 1]
      /\ r = <<>> <=> Len(q) = 1
      /\ q[1] \in Ups
  BY Taken
<1> HIDE DEF r
<1>2. a = q[1].share
  BY <1>1 DEF Talking, Ordered, Opens
<1>3. Ordered(a, r)
  <2>1. ASSUME NEW n \in Ups, Then(q[1], n) PROVE Opens(a, n)
    BY <1>2, <2>1 DEF Then, Opens
  <2> QED BY <2>1, OrderTaken DEF Talking, r
<1>4. g = 0 => Len(q) # 1
  BY <1>1 DEF Talking, Leads
<1>5. g # 0 /\ p # 0 => Len(q) # 1
  BY <1>1 DEF Talking, Leads
<1>6. Len(q) # 1 => r # <<>> /\ r[Len(r)] = q[Len(q)]
  BY <1>1
<1>7. Leads(g, p, a, r, d)
  <2>1. CASE g = 0
    BY <1>4, <1>6, <2>1 DEF Talking, Leads
  <2>2. CASE g # 0 /\ p = 0
    BY <1>1, <2>2 DEF Talking, Leads
  <2>3. CASE g # 0 /\ p # 0
    <3>8. \A j \in DOMAIN q : j # Len(q) => q[j].share # g
      BY <1>1, <2>3 DEF Talking, Leads
    <3>1. \A i \in DOMAIN r : i # Len(r) => r[i].share # g
      <4> SUFFICES ASSUME NEW i \in DOMAIN r, i # Len(r) PROVE r[i].share # g
        OBVIOUS
      <4>1. i + 1 \in DOMAIN q /\ i + 1 # Len(q) /\ r[i] = q[i + 1]
        BY <1>1
      <4> QED BY <3>8, <4>1
    <3>9. q[Len(q)].t = "start" /\ q[Len(q)].share = g
      BY <1>5, <1>6, <2>3, <3>1 DEF Talking, Leads
    <3> QED BY <1>5, <1>6, <2>3, <3>1, <3>9 DEF Leads
  <2> QED BY <2>1, <2>2, <2>3
<1>8. StillTrue(g, p, a, r, d)
  <2>1. q # <<>>
    OBVIOUS
  <2> QED BY <2>1 DEF Talking, StillTrue
<1> QED BY <1>2, <1>3, <1>7, <1>8 DEF Talking, r

(* The page hears that a share started.                                    *)
LEMMA HearStarted ==
  ASSUME NEW g \in Shares, NEW p \in {0, g}, NEW a \in Shares,
         NEW q \in Seq(Ups), NEW d \in Seq(Downs), d # <<>>, d[1].t = "started",
         Talking(g, p, a, q, d)
  PROVE  Talking(g, IF p = d[1].share THEN 0 ELSE p, a, q, Tail(d))
<1> DEFINE e == Tail(d)
           n == IF p = d[1].share THEN 0 ELSE p
<1>1. /\ Len(d) \in Nat \ {0} /\ DOMAIN d = 1..Len(d) /\ d[1] \in Downs
      /\ DOMAIN e = 1..Len(d) - 1
      /\ \A i \in 1..Len(d) - 1 : i + 1 \in 1..Len(d) /\ e[i] = d[i + 1]
  BY Taken
<1> HIDE DEF e
<1>2. CASE g # 0 /\ d[1].share = g /\ p = g
  <2>1. a = g /\ q = <<>>
    BY <1>1, <1>2 DEF Talking, StillTrue
  <2>2. Leads(g, 0, a, q, e)
    BY <1>2, <2>1, EmptyIs DEF Leads
  <2>3. StillTrue(g, 0, a, q, e)
    BY <1>1, <1>2, <2>1 DEF Talking, StillTrue
  <2> QED BY <1>2, <2>2, <2>3 DEF Talking, e
<1>3. CASE g # 0 /\ (d[1].share # g \/ p # g)
  <2>1. n = p
    BY <1>3
  <2>2. StillTrue(g, p, a, q, e)
    BY <1>1 DEF Talking, StillTrue
  <2>3. Leads(g, p, a, q, e)
    <3>1. CASE p = 0
      BY <1>3, <3>1 DEF Talking, Leads
    <3>2. CASE p # 0 /\ q # <<>>
      BY <1>3, <3>2 DEF Talking, Leads
    <3>3. CASE p # 0 /\ q = <<>>
      <4>1. PICK i \in DOMAIN d : d[i].t \in {"started", "failed"} /\ d[i].share = g
        BY <1>3, <3>3 DEF Talking, Leads
      <4>2. i # 1
        BY <1>3, <3>3, <4>1
      <4>3. i - 1 \in DOMAIN e /\ e[i - 1] = d[i]
        BY <1>1, <4>1, <4>2
      <4> QED BY <1>3, <3>3, <4>1, <4>3 DEF Leads
    <3> QED BY <3>1, <3>2, <3>3
  <2> QED BY <2>1, <2>2, <2>3 DEF Talking, e
<1>4. CASE g = 0
  <2>1. n = 0 /\ p = 0
    BY <1>4
  <2>2. StillTrue(g, 0, a, q, e) /\ Leads(g, 0, a, q, e)
    BY <1>1, <1>4, <2>1 DEF Talking, StillTrue, Leads
  <2> QED BY <2>1, <2>2 DEF Talking, e
<1> QED BY <1>2, <1>3, <1>4

(* It hears that a start failed, or of a pause.                            *)
LEMMA HearFailed ==
  ASSUME NEW g \in Shares, NEW p \in {0, g}, NEW a \in Shares,
         NEW q \in Seq(Ups), NEW d \in Seq(Downs), d # <<>>,
         d[1].t \in {"failed", "pause-source"},
         Talking(g, p, a, q, d)
  PROVE  IF d[1].t = "failed" /\ d[1].share = g THEN Talking(0, 0, a, q, Tail(d))
                                                ELSE Talking(g, p, a, q, Tail(d))
<1> DEFINE e == Tail(d)
<1>1. /\ Len(d) \in Nat \ {0} /\ DOMAIN d = 1..Len(d) /\ d[1] \in Downs
      /\ DOMAIN e = 1..Len(d) - 1
      /\ \A i \in 1..Len(d) - 1 : i + 1 \in 1..Len(d) /\ e[i] = d[i + 1]
  BY Taken
<1> HIDE DEF e
<1>2. CASE g # 0 /\ d[1].t = "failed" /\ d[1].share = g
  <2>1. a = 0 /\ q = <<>>
    BY <1>1, <1>2 DEF Talking, StillTrue
  <2>2. Leads(0, 0, a, q, e)
    BY <2>1 DEF Leads
  <2>3. StillTrue(0, 0, a, q, e)
    BY <1>1 DEF Talking, StillTrue
  <2> QED BY <1>2, <2>2, <2>3 DEF Talking, e
<1>3. CASE g # 0 /\ ~(d[1].t = "failed" /\ d[1].share = g)
  <2>1. StillTrue(g, p, a, q, e)
    BY <1>1 DEF Talking, StillTrue
  <2>2. Leads(g, p, a, q, e)
    <3>1. CASE p = 0
      BY <1>3, <3>1 DEF Talking, Leads
    <3>2. CASE p # 0 /\ q # <<>>
      BY <1>3, <3>2 DEF Talking, Leads
    <3>3. CASE p # 0 /\ q = <<>>
      <4>1. PICK i \in DOMAIN d : d[i].t \in {"started", "failed"} /\ d[i].share = g
        BY <1>3, <3>3 DEF Talking, Leads
      <4>2. i # 1
        BY <1>3, <3>3, <4>1
      <4>3. i - 1 \in DOMAIN e /\ e[i - 1] = d[i]
        BY <1>1, <4>1, <4>2
      <4> QED BY <1>3, <3>3, <4>1, <4>3 DEF Leads
    <3> QED BY <3>1, <3>2, <3>3
  <2> QED BY <1>3, <2>1, <2>2 DEF Talking, e
<1>4. CASE g = 0
  <2>1. p = 0
    BY <1>4
  <2>2. StillTrue(0, 0, a, q, e) /\ Leads(0, 0, a, q, e)
    BY <1>1, <1>4, <2>1 DEF Talking, StillTrue, Leads
  <2> QED BY <1>4, <2>1, <2>2 DEF Talking, e
<1> QED BY <1>2, <1>3, <1>4
(* The page hears of the session's share and answers with what it wants.   *)
LEMMA HearAuthed ==
  ASSUME NEW g \in Shares, NEW p \in {0, g}, NEW a \in Shares,
         NEW q \in Seq(Ups), NEW d \in Seq(Downs), Answered(g, p, a, q, d),
         NEW x, x.t = "stop", x.share = a, a # 0 => x \in Ups,
         NEW y, y.t = "start", y.share = g, g # 0 => y \in Ups
  PROVE  /\ g = 0 /\ a # 0 => Talking(0, 0, a, <<x>>, Tail(d))
         /\ g = 0 /\ a = 0 => Talking(0, 0, a, <<>>, Tail(d))
         /\ g # 0 /\ a = g => Talking(g, 0, a, <<>>, Tail(d))
         /\ g # 0 /\ a # g => p = g
         /\ g # 0 /\ a # g /\ a # 0 => Talking(g, g, a, <<x>> \o <<y>>, Tail(d))
         /\ g # 0 /\ a = 0 => Talking(g, g, a, <<y>>, Tail(d))
<1> DEFINE e == Tail(d)
<1>1. /\ Len(d) \in Nat \ {0} /\ DOMAIN d = 1..Len(d) /\ d[1] \in Downs
      /\ DOMAIN e = 1..Len(d) - 1
      /\ \A i \in 1..Len(d) - 1 : i + 1 \in 1..Len(d) /\ e[i] = d[i + 1]
  BY Taken DEF Answered
<1> HIDE DEF e
<1>2. \A i \in DOMAIN e : e[i].t = "pause-source"
  BY <1>1 DEF Answered
<1>3. \A h, o, b, r : StillTrue(h, o, b, r, e)
  BY <1>2 DEF StillTrue
<1>4. Ordered(a, <<>>) /\ DOMAIN <<>> = {}
  BY DEF Ordered
<1>5. /\ <<x>> # <<>> /\ DOMAIN <<x>> = {1} /\ Len(<<x>>) = 1 /\ <<x>>[1] = x
      /\ <<y>> # <<>> /\ DOMAIN <<y>> = {1} /\ Len(<<y>>) = 1 /\ <<y>>[1] = y
  OBVIOUS
<1>6. Ordered(a, <<x>>)
  BY <1>5 DEF Ordered, Opens
<1>7. a = 0 => Ordered(a, <<y>>)
  BY <1>5 DEF Ordered, Opens
<1>8. Talking(0, 0, a, <<x>>, e)
  BY <1>3, <1>5, <1>6 DEF Talking, Leads
<1>9. a = 0 => Talking(0, 0, a, <<>>, e)
  BY <1>3, <1>4 DEF Talking, Leads
<1>10. g # 0 /\ a = g => Talking(g, 0, a, <<>>, e)
  BY <1>3, <1>4 DEF Talking, Leads
<1>11. g # 0 /\ a # g => p = g
  BY DEF Answered
<1>12. ASSUME g # 0, a # g, a # 0 PROVE Talking(g, g, a, <<x>> \o <<y>>, e)
  <2> DEFINE r == <<x>> \o <<y>>
  <2>6. x \in Ups /\ y \in Ups
    BY <1>12
  <2>1. <<x>> \in Seq(Ups)
    BY <2>6
  <2>2. r # <<>> /\ Len(r) = 2 /\ DOMAIN r = 1..2 /\ r[1] = x /\ r[2] = y
    <3>1. /\ r # <<>> /\ Len(r) = 1 + 1 /\ DOMAIN r = 1..1 + 1
          /\ \A i \in 1..1 : r[i] = <<x>>[i]
          /\ r[1 + 1] = y
      BY <1>5, <2>1, <2>6, Sent
    <3> QED BY <1>5, <3>1
  <2> HIDE DEF r
  <2>3. Then(x, y)
    BY DEF Then
  <2>4. Ordered(a, r)
    <3>1. \A i \in DOMAIN r : r[i].t \in {"start", "stop", "pause"}
      BY <2>2
    <3>2. Opens(a, r[1])
      BY <2>2 DEF Opens
    <3>3. ASSUME NEW i \in DOMAIN r, i + 1 \in DOMAIN r PROVE Then(r[i], r[i + 1])
      <4>1. i = 1 /\ i + 1 = 2
        BY <2>2, <3>3
      <4> QED BY <2>2, <2>3, <4>1
    <3> QED BY <3>1, <3>2, <3>3 DEF Ordered
  <2>5. Leads(g, g, a, r, e)
    BY <1>12, <2>2 DEF Leads
  <2> QED BY <1>3, <2>4, <2>5 DEF Talking, r
<1>13. ASSUME g # 0, a = 0 PROVE Talking(g, g, a, <<y>>, e)
  <2>1. Leads(g, g, a, <<y>>, e)
    BY <1>5, <1>13 DEF Leads
  <2> QED BY <1>3, <1>7, <1>13, <2>1 DEF Talking
<1> QED BY <1>8, <1>9, <1>10, <1>11, <1>12, <1>13 DEF e

-----------------------------------------------------------------------------
(* What the server's helpers do to its state.                              *)

LEMMA AmongSent ==
  ASSUME NEW S, NEW q \in Seq(S), NEW m \in S
  PROVE  \A i \in DOMAIN (q \o <<m>>) :
            (i \in DOMAIN q /\ (q \o <<m>>)[i] = q[i]) \/ (q \o <<m>>)[i] = m
<1> DEFINE r == q \o <<m>>
<1>1. /\ DOMAIN q = 1..Len(q) /\ DOMAIN r = 1..Len(q) + 1 /\ Len(q) \in Nat
      /\ \A i \in 1..Len(q) : r[i] = q[i]
      /\ r[Len(q) + 1] = m
  BY Sent
<1> HIDE DEF r
<1>2. \A i \in DOMAIN r : (i \in DOMAIN q /\ r[i] = q[i]) \/ r[i] = m
  BY <1>1
<1> QED BY <1>2 DEF r

LEMMA AmongTaken ==
  ASSUME NEW S, NEW q \in Seq(S), q # <<>>
  PROVE  \A i \in DOMAIN Tail(q) : i + 1 \in DOMAIN q /\ Tail(q)[i] = q[i + 1]
BY Taken

LEMMA TellIs ==
  ASSUME NEW s \in Servers, NEW k \in Sockets, NEW ms \in Seq(Downs)
  PROVE  LET r == Tell(s, k, ms)
         IN  /\ r \in Servers /\ r.host = s.host /\ r.auth = s.auth /\ r.open = s.open
             /\ r.gen = s.gen /\ r.policy = s.policy /\ r.paused = s.paused
             /\ r.told = s.told
             /\ \A j \in Sockets : r.down[j] = IF j = k /\ s.open[j] THEN s.down[j] \o ms
                                               ELSE s.down[j]
<1>1. s.down[k] \in Seq(Downs) /\ s.down[k] \o ms \in Seq(Downs)
  BY ConcatProperties DEF Servers
<1> QED BY <1>1 DEF Tell, Servers

LEMMA CloseIs ==
  ASSUME NEW s \in Servers, NEW k \in Sockets, NEW m \in Downs
  PROVE  LET r == CloseSession(s, k, m)
         IN  /\ r \in Servers /\ r.host = s.host /\ r.auth = s.auth
             /\ r.gen = s.gen /\ r.policy = s.policy /\ r.paused = s.paused
             /\ r.told = s.told
             /\ r.open = [s.open EXCEPT ![k] = FALSE]
             /\ \A j \in Sockets : r.open[j] <=> s.open[j] /\ j # k
             /\ \A j \in Sockets : r.down[j] = IF j = k /\ s.open[j] THEN s.down[j] \o <<m>>
                                               ELSE s.down[j]
<1>1. <<m>> \in Seq(Downs)
  OBVIOUS
<1> DEFINE t == Tell(s, k, <<m>>)
<1>2. /\ t \in Servers /\ t.host = s.host /\ t.auth = s.auth /\ t.open = s.open
      /\ t.gen = s.gen /\ t.policy = s.policy /\ t.paused = s.paused
      /\ t.told = s.told
      /\ \A j \in Sockets : t.down[j] = IF j = k /\ s.open[j] THEN s.down[j] \o <<m>>
                                        ELSE s.down[j]
  BY <1>1, TellIs
<1>3. CloseSession(s, k, m) = [t EXCEPT !.open[k] = FALSE]
  BY DEF CloseSession
<1> HIDE DEF t
<1>4. [t EXCEPT !.open[k] = FALSE] \in Servers
  BY <1>2 DEF Servers
<1> QED BY <1>2, <1>3, <1>4 DEF Servers

LEMMA StoppedIs ==
  ASSUME NEW s \in Servers
  PROVE  LET r == Stopped(s)
         IN  /\ r \in Servers /\ r.host = s.host /\ r.open = s.open /\ r.down = s.down
             /\ r.gen = s.gen /\ ~r.policy /\ ~r.paused /\ r.told = Untold
             /\ \A j \in Sockets : r.auth[j] = IF j = s.host /\ s.auth[j] = s.gen THEN 0
                                               ELSE s.auth[j]
<1> DEFINE r == Stopped(s)
           b == IF s.host # 0 /\ s.auth[s.host] = s.gen THEN [s.auth EXCEPT ![s.host] = 0]
                ELSE s.auth
<1>1. r = [s EXCEPT !.auth = b, !.policy = FALSE, !.paused = FALSE, !.told = Untold]
  BY DEF Stopped, Untold
<1>2. 0 \in Shares \cup {NoAuth} /\ Untold \in [online : BOOLEAN, paused : BOOLEAN]
      /\ 0 \notin Sockets
  BY HostShareAssumption DEF Shares, Untold, Sockets
<1>3. b \in [Sockets -> Shares \cup {NoAuth}]
  BY <1>2 DEF Servers
<1>4. \A j \in Sockets : b[j] = IF j = s.host /\ s.auth[j] = s.gen THEN 0 ELSE s.auth[j]
  BY <1>2 DEF Servers
<1> HIDE DEF r, b
<1>5. r.auth = b /\ r.host = s.host /\ r.open = s.open /\ r.down = s.down
      /\ r.gen = s.gen /\ r.policy = FALSE /\ r.paused = FALSE /\ r.told = Untold
  BY <1>1 DEF Servers
<1>6. r \in Servers
  BY <1>1, <1>2, <1>3 DEF Servers
<1> QED BY <1>4, <1>5, <1>6 DEF r

-----------------------------------------------------------------------------
(* Frames.                                                                 *)

(* A socket in use is one of the first last.                               *)
LEMMA InUse ==
  ASSUME ShareTyped, Recorded, Unread
  PROVE  /\ \A k \in Sockets : k \in Nat /\ k # 0
         /\ signal.last \in Nat /\ signal.sock \in Nat
         /\ server.host # 0 => server.host \in Sockets /\ server.host <= signal.last
         /\ \A k \in Sockets : server.auth[k] # NoAuth => k <= signal.last
         /\ \A k \in Sockets : up[k] # <<>> => k <= signal.last
         /\ \A k \in Sockets : ~server.open[k] => k <= signal.last
         /\ signal.sock # 0 => signal.sock \in Sockets
         /\ \A k \in Sockets : up[k] \in Seq(Ups) /\ server.down[k] \in Seq(Downs)
<1>1. /\ \A k \in Sockets : k \in Nat /\ k # 0
      /\ signal.last \in Nat /\ signal.sock \in Nat /\ signal.last \in 0..MaxConnections
      /\ server.host # 0 => server.host \in Sockets
      /\ signal.sock # 0 => signal.sock \in Sockets
  BY HostShareAssumption DEF ShareTyped, Signals, Servers, Sockets
<1>2. \A k \in Sockets : up[k] \in Seq(Ups) /\ server.down[k] \in Seq(Downs)
  BY DEF ShareTyped, Servers
<1>3. \A k \in Sockets : ~(k > signal.last) => k <= signal.last
  BY <1>1
<1>4. \A k \in Sockets : server.auth[k] # NoAuth => k <= signal.last
  BY <1>3 DEF Unread
<1>5. \A k \in Sockets : up[k] # <<>> => k <= signal.last
  BY <1>3 DEF Unread
<1>6. \A k \in Sockets : ~server.open[k] => k <= signal.last
  BY <1>3 DEF Unread
<1>7. server.host # 0 => server.host <= signal.last
  BY <1>1, <1>4 DEF Recorded
<1> QED BY <1>1, <1>2, <1>4, <1>5, <1>6, <1>7

(* A step of the server on one socket, which may take a message from it.   *)
LEMMA ServerStep ==
  ASSUME ShareInv, page' = page, signal' = signal,
         NEW k \in Sockets, k <= signal.last,
         \/ up' = up
         \/ up[k] # <<>> /\ up' = [up EXCEPT ![k] = Tail(@)],
         server' \in Servers,
         \A j \in Sockets : j # k /\ j # server.host =>
            /\ server'.auth[j] = server.auth[j]
            /\ server'.open[j] = server.open[j]
            /\ server'.down[j] = server.down[j],
         \A j \in Sockets :
            /\ server'.open[j] => server.open[j]
            /\ server'.auth[j] <= page.last
            /\ \A i \in DOMAIN server'.down[j] : server'.down[j][i].share <= page.last,
         server'.gen <= page.last,
         server'.host \in {server.host, 0, signal.sock},
         page.live => server'.policy /\ server'.gen = server.gen,
         Recorded', NewestSocket'
  PROVE  ShareInv'
<1>1. /\ ShareTyped /\ Intent /\ Numbered /\ Recorded /\ Unread /\ Acknowledged
  BY DEF ShareInv
<1>2. \A j \in Sockets :
         /\ up'[j] \in Seq(Ups)
         /\ up[j] = <<>> => up'[j] = <<>>
         /\ \A i \in DOMAIN up'[j] : \E h \in DOMAIN up[j] : up'[j][i] = up[j][h]
  <2> SUFFICES ASSUME NEW j \in Sockets
               PROVE  /\ up'[j] \in Seq(Ups)
                      /\ up[j] = <<>> => up'[j] = <<>>
                      /\ \A i \in DOMAIN up'[j] : \E h \in DOMAIN up[j] : up'[j][i] = up[j][h]
    OBVIOUS
  <2>1. up \in [Sockets -> Seq(Ups)] /\ up[j] \in Seq(Ups)
    BY <1>1 DEF ShareTyped
  <2>2. CASE up'[j] = up[j]
    BY <2>1, <2>2
  <2>3. CASE up[j] # <<>> /\ up'[j] = Tail(up[j])
    BY <2>1, <2>3, Taken, AmongTaken
  <2> QED BY <2>1, <2>2, <2>3
<1>3. ShareTyped'
  <2>1. up' \in [Sockets -> Seq(Ups)]
    <3>1. up \in [Sockets -> Seq(Ups)] /\ up[k] \in Seq(Ups)
      BY <1>1 DEF ShareTyped
    <3>2. CASE up[k] # <<>> /\ up' = [up EXCEPT ![k] = Tail(@)]
      <4>1. Tail(up[k]) \in Seq(Ups)
        BY <3>1, <3>2, Taken
      <4> QED BY <3>1, <3>2, <4>1
    <3> QED BY <3>1, <3>2
  <2> QED BY <1>1, <2>1 DEF ShareTyped
<1>4. Intent'
  BY <1>1 DEF Intent
<1>5. Numbered'
  <2>1. ASSUME NEW j \in Sockets, NEW i \in DOMAIN up'[j]
        PROVE  /\ up'[j][i].share <= page.last
               /\ up'[j][i].t = "auth" => (up'[j][i].only <=> up'[j][i].share = 0)
    BY <1>1, <1>2 DEF Numbered
  <2> QED BY <2>1 DEF Numbered
<1>6. Unread'
  <2>1. ASSUME NEW j \in Sockets, j > signal.last
        PROVE  /\ up'[j] = <<>> /\ server'.down[j] = <<>> /\ server'.open[j]
               /\ server'.auth[j] = NoAuth
    <3>1. j # k /\ j # server.host
      BY <1>1, <2>1, InUse
    <3> QED BY <1>1, <1>2, <2>1, <3>1 DEF Unread
  <2>2. ASSUME NEW j \in Sockets, server'.open[j], j # signal.sock, NEW i \in DOMAIN up'[j]
        PROVE  up'[j][i].t # "auth"
    BY <1>1, <1>2, <2>2 DEF Unread
  <2> QED BY <2>1, <2>2 DEF Unread
<1>7. Acknowledged'
  <2> SUFFICES ASSUME page.live
               PROVE  /\ server'.policy /\ server'.gen = page.gen
                      /\ \A j \in Sockets : server'.open[j] /\ j \in {server'.host, signal.sock} =>
                            \A i \in DOMAIN up'[j] :
                               /\ up'[j][i].t \in {"auth", "pause", "close"}
                               /\ up'[j][i].t = "auth" => up'[j][i].share = page.gen
    BY DEF Acknowledged
  <2>1. \A j \in Sockets : j # 0
    BY <1>1, InUse
  <2>2. ASSUME NEW j \in Sockets, server'.open[j], j \in {server'.host, signal.sock},
               NEW i \in DOMAIN up'[j]
        PROVE  /\ up'[j][i].t \in {"auth", "pause", "close"}
               /\ up'[j][i].t = "auth" => up'[j][i].share = page.gen
    <3>1. server.open[j] /\ j \in {server.host, signal.sock}
      BY <2>1, <2>2
    <3>2. PICK h \in DOMAIN up[j] : up'[j][i] = up[j][h]
      BY <1>2
    <3> QED BY <1>1, <3>1, <3>2 DEF Acknowledged
  <2>3. server'.policy /\ server'.gen = page.gen
    BY <1>1 DEF Acknowledged
  <2> QED BY <2>2, <2>3
<1> QED BY <1>3, <1>4, <1>5, <1>6, <1>7 DEF ShareInv

(* What does not touch the newest socket leaves it what it was.            *)
LEMMA NewestKept ==
  ASSUME ShareInv, page' = page, signal' = signal,
         signal.sock # 0 =>
            /\ up'[signal.sock] = up[signal.sock]
            /\ server'.auth[signal.sock] = server.auth[signal.sock]
            /\ server'.open[signal.sock] = server.open[signal.sock]
            /\ server'.down[signal.sock] = server.down[signal.sock]
  PROVE  NewestSocket'
<1>1. NewestSocket
  BY DEF ShareInv
<1>2. CASE signal.sock = 0
  BY <1>2 DEF NewestSocket
<1>3. CASE signal.sock # 0 /\ ~server.open[signal.sock]
  BY <1>1, <1>3 DEF NewestSocket, Ended
<1>4. CASE signal.sock # 0 /\ server.open[signal.sock] /\ server.auth[signal.sock] = NoAuth
  <2>1. Asking
    BY <1>1, <1>4 DEF NewestSocket
  <2>2. Asking'
    BY <1>4, <2>1 DEF Asking
  <2> QED BY <1>4, <2>2 DEF NewestSocket
<1>5. CASE signal.sock # 0 /\ server.open[signal.sock] /\ server.auth[signal.sock] # NoAuth
  <2>1. CASE signal.authed
    BY <1>1, <1>5, <2>1 DEF NewestSocket
  <2>2. CASE ~signal.authed
    <3>1. Answered(page.gen, signal.pending, server.auth[signal.sock], up[signal.sock],
                   server.down[signal.sock])
      BY <1>1, <1>5, <2>2 DEF NewestSocket
    <3>2. Answered(page.gen, signal.pending, server.auth[signal.sock], up[signal.sock],
                   server.down[signal.sock])'
      BY <1>5, <3>1 DEF Answered
    <3> QED BY <1>5, <2>2, <3>2 DEF NewestSocket
  <2> QED BY <2>1, <2>2
<1> QED BY <1>2, <1>3, <1>4, <1>5

(* A socket the server ended stays ended.                                  *)
LEMMA EndedKept ==
  ASSUME ShareInv, page' = page, signal' = signal,
         signal.sock # 0, ~server.open[signal.sock], ~server'.open[signal.sock],
         server'.down[signal.sock] = server.down[signal.sock]
  PROVE  NewestSocket'
<1>1. NewestSocket
  BY DEF ShareInv
<1> QED BY <1>1 DEF NewestSocket, Ended

-----------------------------------------------------------------------------
(* The server's steps.                                                     *)

(* A session ends, by itself or for a Close it reads; the newest one only  *)
(* when the server closed it before.                                       *)
LEMMA GoneStep ==
  ASSUME ShareInv, page' = page, signal' = signal,
         NEW k \in Sockets, k <= signal.last,
         \/ up' = up
         \/ up[k] # <<>> /\ up' = [up EXCEPT ![k] = Tail(@)],
         Gone(k), k = signal.sock => ~server.open[k]
  PROVE  ShareInv'
<1>1. /\ ShareTyped /\ Intent /\ Numbered /\ Recorded /\ Unread /\ Acknowledged
  BY DEF ShareInv
<1>2. server \in Servers
  BY <1>1 DEF ShareTyped
<1>3. NoAuth \in Shares \cup {NoAuth} /\ Untold \in [online : BOOLEAN, paused : BOOLEAN]
      /\ 0 \in 0..MaxConnections /\ k # 0 /\ page.last \in Nat /\ NoAuth <= page.last
  BY <1>1, HostShareAssumption, InUse DEF Untold, ShareTyped, Pages, Shares, NoAuth
<1>4. /\ server'.auth = [server.auth EXCEPT ![k] = NoAuth]
      /\ server'.open = [server.open EXCEPT ![k] = FALSE]
      /\ server'.down = server.down /\ server'.gen = server.gen
      /\ server'.policy = server.policy /\ server'.paused = server.paused
      /\ server'.host = IF server.host = k THEN 0 ELSE server.host
      /\ server'.told = IF server.host = k THEN Untold ELSE server.told
  BY <1>2 DEF Gone, Servers, Untold
<1>5. server' \in Servers
  BY <1>2, <1>3 DEF Gone, Servers, Untold
<1>6. \A j \in Sockets : /\ server'.auth[j] = IF j = k THEN NoAuth ELSE server.auth[j]
                         /\ server'.open[j] <=> server.open[j] /\ j # k
  BY <1>2, <1>4 DEF Servers
<1>7. Recorded'
  <2>1. \A j \in Sockets : j # 0
    BY <1>1, InUse
  <2>2. CASE server.host = k
    BY <1>1, <1>3, <1>4, <1>6, <2>1, <2>2, InUse DEF Recorded
  <2>3. CASE server.host # k
    <3>1. server'.host # 0 => server'.auth[server'.host] = server.auth[server.host]
                              /\ (server'.open[server'.host] <=> server.open[server.host])
      BY <1>1, <1>4, <1>6, <2>3, InUse
    <3>2. signal.sock # 0 /\ server'.open[signal.sock] =>
             /\ server.open[signal.sock] /\ signal.sock # k
             /\ server'.auth[signal.sock] = server.auth[signal.sock]
      BY <1>1, <1>6, InUse
    <3> QED BY <1>1, <1>4, <2>3, <3>1, <3>2 DEF Recorded
  <2> QED BY <2>2, <2>3
<1>8. NewestSocket'
  <2>1. CASE k = signal.sock
    <3>1. ~server'.open[signal.sock] /\ signal.sock # 0 /\ ~server.open[signal.sock]
      BY <1>3, <1>6, <2>1
    <3> QED BY <1>4, <3>1, EndedKept
  <2>2. CASE k # signal.sock
    <3>1. signal.sock # 0 => /\ server'.auth[signal.sock] = server.auth[signal.sock]
                             /\ server'.open[signal.sock] = server.open[signal.sock]
                             /\ up'[signal.sock] = up[signal.sock]
      BY <1>1, <1>2, <1>4, <2>2, InUse DEF Servers, ShareTyped
    <3> QED BY <1>4, <3>1, NewestKept
  <2> QED BY <2>1, <2>2
<1>9. \A j \in Sockets : j # k /\ j # server.host =>
         /\ server'.auth[j] = server.auth[j]
         /\ server'.open[j] = server.open[j]
         /\ server'.down[j] = server.down[j]
  BY <1>2, <1>4 DEF Servers
<1>10. \A j \in Sockets :
         /\ server'.open[j] => server.open[j]
         /\ server'.auth[j] <= page.last
         /\ \A i \in DOMAIN server'.down[j] : server'.down[j][i].share <= page.last
  BY <1>1, <1>3, <1>4, <1>6 DEF Numbered
<1>11. server'.gen <= page.last /\ server'.host \in {server.host, 0, signal.sock}
       /\ (page.live => server'.policy /\ server'.gen = server.gen)
  BY <1>1, <1>4 DEF Numbered, Acknowledged
<1> QED BY <1>5, <1>7, <1>8, <1>9, <1>10, <1>11, ServerStep

(* The server closes a session: one that is not the newest, or one that    *)
(* did not authenticate in time.                                           *)
LEMMA CloseStep ==
  ASSUME ShareInv, page' = page, signal' = signal,
         NEW k \in Sockets, k <= signal.last,
         \/ up' = up
         \/ up[k] # <<>> /\ up' = [up EXCEPT ![k] = Tail(@)],
         NEW m \in Downs, m.share = 0,
         server' = CloseSession(server, k, m),
         k = signal.sock => server.open[k] /\ server.auth[k] = NoAuth /\ m.t = "close"
  PROVE  ShareInv'
<1>1. /\ ShareTyped /\ Intent /\ Numbered /\ Recorded /\ Unread /\ Acknowledged /\ NewestSocket
  BY DEF ShareInv
<1>2. server \in Servers
  BY <1>1 DEF ShareTyped
<1>3. k # 0 /\ page.last \in Nat
  BY <1>1, HostShareAssumption, InUse DEF ShareTyped, Pages, Shares
<1>4. /\ server' \in Servers /\ server'.host = server.host /\ server'.auth = server.auth
      /\ server'.gen = server.gen /\ server'.policy = server.policy
      /\ server'.paused = server.paused /\ server'.told = server.told
      /\ server'.open = [server.open EXCEPT ![k] = FALSE]
      /\ \A j \in Sockets : server'.open[j] <=> server.open[j] /\ j # k
      /\ \A j \in Sockets : server'.down[j] = IF j = k /\ server.open[j]
                                              THEN server.down[j] \o <<m>> ELSE server.down[j]
  BY <1>2, CloseIs
<1>5. Recorded'
  <2>1. server'.host # 0 /\ server'.open[server'.host] => server.open[server.host]
    BY <1>1, <1>4, InUse
  <2>2. signal.sock # 0 /\ server'.open[signal.sock] => server.open[signal.sock]
    BY <1>1, <1>4, InUse
  <2> QED BY <1>1, <1>4, <2>1, <2>2 DEF Recorded
<1>6. NewestSocket'
  <2>1. CASE k = signal.sock
    <3>1. ~server'.open[signal.sock] /\ signal.sock # 0
      BY <1>3, <1>4, <2>1
    <3>2. Asking
      BY <1>1, <1>3, <2>1 DEF NewestSocket
    <3>3. server'.down[signal.sock] = <<>> \o <<m>>
      BY <1>4, <2>1, <3>2 DEF Asking
    <3>4. server'.down[signal.sock] = <<m>>
      BY <3>3
    <3>5. \A i \in DOMAIN server'.down[signal.sock] : server'.down[signal.sock][i].t = "close"
      BY <2>1, <3>4
    <3> QED BY <3>1, <3>2, <3>5 DEF NewestSocket, Ended, Asking
  <2>2. CASE k # signal.sock
    <3>1. signal.sock # 0 => /\ server'.auth[signal.sock] = server.auth[signal.sock]
                             /\ server'.open[signal.sock] = server.open[signal.sock]
                             /\ server'.down[signal.sock] = server.down[signal.sock]
                             /\ up'[signal.sock] = up[signal.sock]
      BY <1>1, <1>2, <1>4, <2>2, InUse DEF Servers, ShareTyped
    <3> QED BY <3>1, NewestKept
  <2> QED BY <2>1, <2>2
<1>7. \A j \in Sockets : j # k /\ j # server.host =>
         /\ server'.auth[j] = server.auth[j]
         /\ server'.open[j] = server.open[j]
         /\ server'.down[j] = server.down[j]
  BY <1>2, <1>4 DEF Servers
<1>8. ASSUME NEW j \in Sockets, NEW i \in DOMAIN server'.down[j]
      PROVE  server'.down[j][i].share <= page.last
  <2>1. server.down[j] \in Seq(Downs)
    BY <1>2 DEF Servers
  <2>2. CASE server'.down[j] = server.down[j]
    BY <1>1, <1>8, <2>2 DEF Numbered
  <2>3. CASE server'.down[j] = server.down[j] \o <<m>>
    BY <1>1, <1>3, <1>8, <2>1, <2>3, AmongSent DEF Numbered
  <2> QED BY <1>4, <2>2, <2>3
<1>9. \A j \in Sockets :
         /\ server'.open[j] => server.open[j]
         /\ server'.auth[j] <= page.last
         /\ \A i \in DOMAIN server'.down[j] : server'.down[j][i].share <= page.last
  BY <1>1, <1>4, <1>8 DEF Numbered
<1>10. server'.gen <= page.last /\ server'.host \in {server.host, 0, signal.sock}
       /\ (page.live => server'.policy /\ server'.gen = server.gen)
  BY <1>1, <1>4 DEF Numbered, Acknowledged
<1> QED BY <1>4, <1>5, <1>6, <1>7, <1>9, <1>10, ServerStep

(* What the server does with a start of the Host's session s.host: it      *)
(* refuses it as it is, takes it up, or takes it up and stops it again.    *)
LEMMA ToldOne ==
  ASSUME NEW s \in Servers, NEW k \in Sockets, NEW x \in Downs,
         NEW r, r = Tell(s, k, <<x>>)
  PROVE  /\ r \in Servers /\ r.host = s.host /\ r.auth = s.auth /\ r.open = s.open
         /\ r.gen = s.gen /\ r.policy = s.policy /\ r.paused = s.paused
         /\ r.told = s.told
         /\ s.open[k] =>
               \A j \in Sockets : r.down[j] = IF j = k THEN s.down[j] \o <<x>> ELSE s.down[j]
<1>1. <<x>> \in Seq(Downs)
  OBVIOUS
<1>2. /\ r \in Servers /\ r.host = s.host /\ r.auth = s.auth /\ r.open = s.open
      /\ r.gen = s.gen /\ r.policy = s.policy /\ r.paused = s.paused
      /\ r.told = s.told
      /\ \A j \in Sockets : r.down[j] = IF j = k /\ s.open[j] THEN s.down[j] \o <<x>>
                                        ELSE s.down[j]
  BY <1>1, TellIs
<1> QED BY <1>2

Begun(s, k, m) ==
  [s EXCEPT !.gen = m.share, !.policy = TRUE, !.paused = m.paused, !.auth[k] = m.share]

LEMMA BegunIs ==
  ASSUME NEW s \in Servers, NEW k \in Sockets, s.host = k, NEW m \in Ups, m.share # 0,
         NEW r, r = Begun(s, k, m)
  PROVE  LET t == [r EXCEPT !.told = [online |-> TRUE, paused |-> m.paused]]
             h == Stopped(r)
         IN  /\ t \in Servers /\ t.host = k /\ t.open = s.open /\ t.down = s.down
             /\ t.gen = m.share /\ t.policy /\ t.paused = m.paused
             /\ t.told = [online |-> TRUE, paused |-> m.paused]
             /\ \A j \in Sockets : t.auth[j] = IF j = k THEN m.share ELSE s.auth[j]
             /\ h \in Servers /\ h.host = k /\ h.open = s.open /\ h.down = s.down
             /\ h.gen = m.share /\ ~h.policy /\ h.told = Untold
             /\ \A j \in Sockets : h.auth[j] = IF j = k THEN 0 ELSE s.auth[j]
<1>1. m.share \in Shares /\ m.paused \in BOOLEAN
  BY UpIs
<1>2. /\ r \in Servers /\ r.host = k /\ r.open = s.open /\ r.gen = m.share
      /\ r.policy /\ r.paused = m.paused /\ r.down = s.down
      /\ \A j \in Sockets : r.auth[j] = IF j = k THEN m.share ELSE s.auth[j]
  BY <1>1 DEF Servers, Begun
<1> DEFINE t == [r EXCEPT !.told = [online |-> TRUE, paused |-> m.paused]]
           h == Stopped(r)
<1>3. /\ t \in Servers /\ t.host = k /\ t.open = s.open /\ t.down = s.down
      /\ t.gen = m.share /\ t.policy /\ t.paused = m.paused
      /\ t.told = [online |-> TRUE, paused |-> m.paused]
      /\ t.auth = r.auth
  BY <1>1, <1>2 DEF Servers
<1>4. /\ h \in Servers /\ h.host = k /\ h.open = s.open /\ h.down = s.down
      /\ h.gen = m.share /\ ~h.policy /\ h.told = Untold
      /\ \A j \in Sockets : h.auth[j] = IF j = k THEN 0 ELSE s.auth[j]
  BY <1>2, StoppedIs
<1> HIDE DEF t, h
<1> QED BY <1>2, <1>3, <1>4 DEF t, h

StartOutcome(k, m, x) ==
  /\ server' \in Servers /\ server'.host = k /\ server'.open = server.open
  /\ x.share = m.share
  /\ \A j \in Sockets :
        server'.down[j] = IF j = k THEN server.down[j] \o <<x>> ELSE server.down[j]
  /\ \A j \in Sockets : j # k => server'.auth[j] = server.auth[j]
  /\ \/ /\ x.t = "failed" /\ server'.auth[k] = server.auth[k]
        /\ server'.gen = server.gen /\ server'.policy = server.policy
        /\ server'.paused = server.paused /\ server'.told = server.told
     \/ /\ x.t = "started" /\ server'.auth[k] = m.share /\ m.share # server.gen
        /\ server'.gen = m.share /\ server'.policy
        /\ server'.told = [online |-> TRUE, paused |-> server'.paused]
     \/ /\ x.t = "failed" /\ server'.auth[k] = 0 /\ server'.gen = m.share
        /\ ~server'.policy /\ server'.told = Untold

LEMMA StartDoes ==
  ASSUME server \in Servers, NEW k \in Sockets, server.host = k, server.open[k],
         NEW m \in Ups, m.t = "start", NEW ok, StartShare(k, m, ok)
  PROVE  \E x \in Downs : StartOutcome(k, m, x)
<1> DEFINE r == Begun(server, k, m)
           t == [r EXCEPT !.told = [online |-> TRUE, paused |-> m.paused]]
           h == Stopped(r)
           x == Msg("failed", m.share, FALSE)
           y == Msg("started", m.share, m.paused)
<1>1. m.share \in Shares /\ m.share # 0 /\ m.paused \in BOOLEAN /\ m.share \in 1..MaxShares
  BY UpIs, HostShareAssumption DEF Shares
<1>2. x \in Downs /\ x.share = m.share /\ x.t = "failed"
  BY <1>1 DEF Downs, Msg
<1>3. y \in Downs /\ y.share = m.share /\ y.t = "started"
  BY <1>1 DEF Downs, Msg
<1>4. \/ server' = Tell(server, k, <<x>>)
      \/ server' = Tell(t, k, <<y>>) /\ m.share # server.gen
      \/ server' = Tell(h, k, <<x>>)
  BY DEF StartShare, Begun, MayStart
<1>5. /\ t \in Servers /\ t.host = k /\ t.open = server.open /\ t.down = server.down
      /\ t.gen = m.share /\ t.policy /\ t.paused = m.paused
      /\ t.told = [online |-> TRUE, paused |-> m.paused]
      /\ \A j \in Sockets : t.auth[j] = IF j = k THEN m.share ELSE server.auth[j]
      /\ h \in Servers /\ h.host = k /\ h.open = server.open /\ h.down = server.down
      /\ h.gen = m.share /\ ~h.policy /\ h.told = Untold
      /\ \A j \in Sockets : h.auth[j] = IF j = k THEN 0 ELSE server.auth[j]
  BY <1>1, BegunIs
<1> HIDE DEF r, t, h, x, y
<1>9. t \in Servers /\ h \in Servers
  BY <1>5
<1>6. CASE server' = Tell(server, k, <<x>>)
  <2>1. /\ server' \in Servers /\ server'.host = server.host /\ server'.auth = server.auth
        /\ server'.open = server.open
        /\ server'.gen = server.gen /\ server'.policy = server.policy
        /\ server'.paused = server.paused /\ server'.told = server.told
        /\ server.open[k] =>
              \A j \in Sockets : server'.down[j] = IF j = k THEN server.down[j] \o <<x>>
                                                   ELSE server.down[j]
    BY <1>2, <1>6, ToldOne
  <2>2. StartOutcome(k, m, x)
    BY <1>2, <2>1 DEF StartOutcome
  <2> QED BY <1>2, <2>2
<1>7. CASE server' = Tell(t, k, <<y>>) /\ m.share # server.gen
  <2>1. /\ server' \in Servers /\ server'.host = t.host /\ server'.auth = t.auth
        /\ server'.open = t.open
        /\ server'.gen = t.gen /\ server'.policy = t.policy
        /\ server'.paused = t.paused /\ server'.told = t.told
        /\ t.open[k] =>
              \A j \in Sockets : server'.down[j] = IF j = k THEN t.down[j] \o <<y>>
                                                   ELSE t.down[j]
    BY <1>3, <1>7, <1>9, ToldOne
  <2>3. m.share # server.gen
    BY <1>7
  <2>2. StartOutcome(k, m, y)
    BY <1>3, <1>5, <2>1, <2>3 DEF StartOutcome
  <2> QED BY <1>3, <2>2
<1>8. CASE server' = Tell(h, k, <<x>>)
  <2>1. /\ server' \in Servers /\ server'.host = h.host /\ server'.auth = h.auth
        /\ server'.open = h.open
        /\ server'.gen = h.gen /\ server'.policy = h.policy
        /\ server'.paused = h.paused /\ server'.told = h.told
        /\ h.open[k] =>
              \A j \in Sockets : server'.down[j] = IF j = k THEN h.down[j] \o <<x>>
                                                   ELSE h.down[j]
    BY <1>2, <1>8, <1>9, ToldOne
  <2>2. StartOutcome(k, m, x)
    BY <1>2, <1>5, <2>1 DEF StartOutcome
  <2> QED BY <1>2, <2>2
<1> QED BY <1>4, <1>6, <1>7, <1>8

(* The newest socket, when the server reads a request on it, is talking.   *)
LEMMA RequestTalks ==
  ASSUME ShareInv, NEW k \in Sockets, k = signal.sock, up[k] # <<>>, server.open[k],
         up[k][1].t # "auth"
  PROVE  /\ server.auth[k] # NoAuth /\ signal.authed /\ server.host = k
         /\ Talking(page.gen, signal.pending, server.auth[k], up[k], server.down[k])
         /\ up[k][1].t # "close"
<1>1. ShareTyped /\ Recorded /\ Unread /\ NewestSocket
  BY DEF ShareInv
<1>2. k # 0 /\ up[k] \in Seq(Ups)
  BY <1>1, InUse
<1>3. server.auth[k] # NoAuth
  BY <1>1, <1>2 DEF NewestSocket, Asking
<1>4. signal.authed
  BY <1>1, <1>2, <1>3 DEF NewestSocket, Answered
<1>5. Talking(page.gen, signal.pending, server.auth[k], up[k], server.down[k])
  BY <1>1, <1>2, <1>3, <1>4 DEF NewestSocket
<1>6. 1 \in DOMAIN up[k]
  BY <1>2, Taken
<1> QED BY <1>1, <1>2, <1>3, <1>4, <1>5, <1>6 DEF Talking, Ordered, Recorded

LEMMA SharesTyped ==
  ASSUME ShareTyped, Intent
  PROVE  /\ page.gen \in Shares /\ signal.pending \in {0, page.gen} /\ page.last \in Shares
         /\ page.last \in Nat /\ page.gen \in Nat /\ page.gen <= page.last
         /\ \A x \in Shares : x \in Nat
BY HostShareAssumption DEF ShareTyped, Pages, Signals, Shares, Intent

LEMMA StartStep ==
  ASSUME ShareInv, page' = page, signal' = signal,
         NEW k \in Sockets, up[k] # <<>>, up' = [up EXCEPT ![k] = Tail(@)],
         server.open[k], server.host = k, server.auth[k] # NoAuth,
         up[k][1].t = "start", NEW ok, StartShare(k, up[k][1], ok)
  PROVE  ShareInv'
<1> DEFINE m == up[k][1]
<1>1. /\ ShareTyped /\ Intent /\ Numbered /\ Recorded /\ Unread /\ Acknowledged
  BY DEF ShareInv
<1>2. server \in Servers /\ k # 0 /\ k <= signal.last /\ up[k] \in Seq(Ups)
      /\ server.auth[k] \in Shares /\ server.down[k] \in Seq(Downs)
  BY <1>1, InUse DEF ShareTyped, Servers
<1>3. m \in Ups /\ 1 \in DOMAIN up[k]
  BY <1>2, Taken
<1>4. m.share \in Shares /\ m.share # 0 /\ m.share <= page.last /\ m.share \in Nat
  BY <1>1, <1>3, UpIs DEF Numbered
<1>13. m.t = "start" /\ StartShare(k, m, ok)
  OBVIOUS
<1> HIDE DEF m
<1>15. PICK x \in Downs : StartOutcome(k, m, x)
  BY <1>2, <1>3, <1>13, StartDoes
<1>5. /\ server' \in Servers /\ server'.host = k /\ server'.open = server.open
      /\ x.share = m.share
      /\ \A j \in Sockets :
            server'.down[j] = IF j = k THEN server.down[j] \o <<x>> ELSE server.down[j]
      /\ \A j \in Sockets : j # k => server'.auth[j] = server.auth[j]
      /\ \/ /\ x.t = "failed" /\ server'.auth[k] = server.auth[k]
            /\ server'.gen = server.gen /\ server'.policy = server.policy
            /\ server'.paused = server.paused /\ server'.told = server.told
         \/ /\ x.t = "started" /\ server'.auth[k] = m.share
            /\ server'.gen = m.share /\ server'.policy
            /\ server'.told = [online |-> TRUE, paused |-> server'.paused]
         \/ /\ x.t = "failed" /\ server'.auth[k] = 0 /\ server'.gen = m.share
            /\ ~server'.policy /\ server'.told = Untold
  BY <1>15 DEF StartOutcome
<1>14. x.share <= page.last
  BY <1>4, <1>5
<1>6. ~page.live
  BY <1>1, <1>3, <1>13 DEF Acknowledged, m
<1>7. Recorded'
  <2>1. signal.sock # 0 /\ server'.open[signal.sock] /\ server'.auth[signal.sock] # NoAuth
          => server'.host = signal.sock
    <3>1. CASE signal.sock = k
      BY <1>5, <3>1
    <3>2. CASE signal.sock # k
      BY <1>1, <1>5, <3>2, InUse DEF Recorded
    <3> QED BY <3>1, <3>2
  <2>2. server'.auth[k] # NoAuth
    BY <1>2, <1>4, <1>5 DEF NoAuth
  <2>3. CASE /\ x.t = "failed" /\ server'.auth[k] = server.auth[k]
             /\ server'.gen = server.gen /\ server'.policy = server.policy
             /\ server'.paused = server.paused /\ server'.told = server.told
    BY <1>1, <1>2, <1>5, <2>1, <2>2, <2>3 DEF Recorded
  <2>4. CASE /\ x.t = "started" /\ server'.auth[k] = m.share
             /\ server'.gen = m.share /\ server'.policy
             /\ server'.told = [online |-> TRUE, paused |-> server'.paused]
    BY <1>4, <1>5, <2>1, <2>2, <2>4 DEF Recorded
  <2>5. CASE /\ x.t = "failed" /\ server'.auth[k] = 0 /\ server'.gen = m.share
             /\ ~server'.policy /\ server'.told = Untold
    BY <1>4, <1>5, <2>1, <2>2, <2>5 DEF Recorded
  <2> QED BY <1>5, <2>3, <2>4, <2>5
<1>8. NewestSocket'
  <2>1. CASE k = signal.sock
    <3>1. /\ Talking(page.gen, signal.pending, server.auth[k], up[k], server.down[k])
          /\ signal.authed
      BY <1>3, <2>1, RequestTalks
    <3>2. PICK b \in {0, m.share} : /\ x.t = IF b = 0 THEN "failed" ELSE "started"
                                    /\ server.auth[k] = 0 => server'.auth[k] = b
      BY <1>4, <1>5
    <3>3. /\ server.auth[k] = 0
          /\ Talking(page.gen, signal.pending, b, Tail(up[k]), server.down[k] \o <<x>>)
      BY <1>1, <1>2, <1>5, <3>1, <3>2, SharesTyped, TalkStarted DEF m
    <3>4. up'[k] = Tail(up[k]) /\ server'.down[k] = server.down[k] \o <<x>>
      BY <1>1, <1>5 DEF ShareTyped
    <3>5. server'.auth[k] = b /\ server'.open[k]
      BY <1>5, <3>2, <3>3
    <3>6. b # NoAuth
      BY <1>4 DEF NoAuth
    <3> QED BY <1>2, <2>1, <3>1, <3>3, <3>4, <3>5, <3>6 DEF NewestSocket
  <2>2. CASE k # signal.sock
    <3>1. signal.sock # 0 => /\ server'.auth[signal.sock] = server.auth[signal.sock]
                             /\ server'.open[signal.sock] = server.open[signal.sock]
                             /\ server'.down[signal.sock] = server.down[signal.sock]
                             /\ up'[signal.sock] = up[signal.sock]
      BY <1>1, <1>5, <2>2, InUse DEF ShareTyped
    <3> QED BY <3>1, NewestKept
  <2> QED BY <2>1, <2>2
<1>9. ASSUME NEW j \in Sockets, NEW i \in DOMAIN server'.down[j]
      PROVE  server'.down[j][i].share <= page.last
  <2>1. server.down[j] \in Seq(Downs)
    BY <1>2 DEF Servers
  <2>2. CASE server'.down[j] = server.down[j]
    BY <1>1, <1>9, <2>2 DEF Numbered
  <2>3. CASE server'.down[j] = server.down[j] \o <<x>>
    <3>1. \A h \in DOMAIN server.down[j] : server.down[j][h].share <= page.last
      BY <1>1 DEF Numbered
    <3>2. server'.down[j][i] = x \/ (i \in DOMAIN server.down[j]
                                      /\ server'.down[j][i] = server.down[j][i])
      BY <1>9, <2>1, <2>3, AmongSent
    <3> QED BY <1>14, <3>1, <3>2
  <2> QED BY <1>5, <2>2, <2>3
<1>10. \A j \in Sockets :
         /\ server'.open[j] => server.open[j]
         /\ server'.auth[j] <= page.last
         /\ \A i \in DOMAIN server'.down[j] : server'.down[j][i].share <= page.last
  <2>1. server'.auth[k] <= page.last /\ \A j \in Sockets : j # k => server'.auth[j] <= page.last
    BY <1>1, <1>4, <1>5, SharesTyped DEF Numbered
  <2> QED BY <1>5, <1>9, <2>1
<1>11. server'.gen <= page.last /\ server'.host \in {server.host, 0, signal.sock}
       /\ (page.live => server'.policy /\ server'.gen = server.gen)
  BY <1>1, <1>4, <1>5, <1>6 DEF Numbered
<1>12. \A j \in Sockets : j # k /\ j # server.host =>
         /\ server'.auth[j] = server.auth[j]
         /\ server'.open[j] = server.open[j]
         /\ server'.down[j] = server.down[j]
  BY <1>5
<1> QED BY <1>2, <1>5, <1>7, <1>8, <1>10, <1>11, <1>12, ServerStep

LEMMA ClosingMsgs == Replaced \in Downs /\ CloseMsg \in Downs /\ Replaced.share = 0
                     /\ CloseMsg.share = 0 /\ CloseMsg.t = "close"
                     /\ CloseMsg \in Ups
BY HostShareAssumption DEF Replaced, CloseMsg, Msg, Downs, Ups, Shares

(* Facts a step of the Host's session starts from.                         *)
LEMMA HostSession ==
  ASSUME ShareInv, NEW k \in Sockets, up[k] # <<>>, server.host = k, server.auth[k] # NoAuth
  PROVE  /\ ShareTyped /\ Intent /\ Numbered /\ Recorded /\ Unread /\ Acknowledged
         /\ server \in Servers /\ k # 0 /\ k <= signal.last /\ up[k] \in Seq(Ups)
         /\ server.auth[k] \in Shares /\ server.down[k] \in Seq(Downs)
         /\ up[k][1] \in Ups /\ 1 \in DOMAIN up[k] /\ up[k][1].share <= page.last
         /\ up \in [Sockets -> Seq(Ups)]
<1>1. ShareTyped /\ Intent /\ Numbered /\ Recorded /\ Unread /\ Acknowledged
  BY DEF ShareInv
<1>2. server \in Servers /\ k # 0 /\ k <= signal.last /\ up[k] \in Seq(Ups)
      /\ server.auth[k] \in Shares /\ server.down[k] \in Seq(Downs)
      /\ up \in [Sockets -> Seq(Ups)]
  BY <1>1, InUse DEF ShareTyped, Servers
<1>3. up[k][1] \in Ups /\ 1 \in DOMAIN up[k]
  BY <1>2, Taken
<1> QED BY <1>1, <1>2, <1>3 DEF Numbered

(* What the newest socket is after a request of its session that leaves    *)
(* what it is sent alone.                                                  *)
LEMMA NewestServed ==
  ASSUME ShareInv, page' = page, signal' = signal,
         NEW k \in Sockets, up[k] # <<>>, up' = [up EXCEPT ![k] = Tail(@)],
         server.open[k], server.host = k, server.auth[k] # NoAuth,
         up[k][1].t \notin {"auth"},
         NEW b \in Shares,
         Talking(page.gen, signal.pending, server.auth[k], up[k], server.down[k])
            => Talking(page.gen, signal.pending, b, Tail(up[k]), server.down[k]),
         server'.open = server.open, server'.down = server.down,
         k = signal.sock => server'.auth[k] = b,
         \A j \in Sockets : j # k => server'.auth[j] = server.auth[j]
  PROVE  NewestSocket'
<1>1. /\ ShareTyped /\ Recorded /\ Unread /\ k # 0 /\ up \in [Sockets -> Seq(Ups)]
  BY HostSession
<1>2. CASE k = signal.sock
  <2>1. /\ Talking(page.gen, signal.pending, server.auth[k], up[k], server.down[k])
        /\ signal.authed
    BY <1>2, RequestTalks
  <2>2. Talking(page.gen, signal.pending, b, Tail(up[k]), server.down[k])
    BY <2>1
  <2>3. up'[k] = Tail(up[k]) /\ server'.down[k] = server.down[k] /\ server'.open[k]
    BY <1>1
  <2>4. server'.auth[k] = b /\ b # NoAuth
    BY <1>2, HostShareAssumption DEF NoAuth, Shares
  <2> QED BY <1>1, <1>2, <2>1, <2>2, <2>3, <2>4 DEF NewestSocket
<1>3. CASE k # signal.sock
  <2>1. signal.sock # 0 => /\ server'.auth[signal.sock] = server.auth[signal.sock]
                           /\ server'.open[signal.sock] = server.open[signal.sock]
                           /\ server'.down[signal.sock] = server.down[signal.sock]
                           /\ up'[signal.sock] = up[signal.sock]
    BY <1>1, <1>3, InUse
  <2> QED BY <2>1, NewestKept
<1> QED BY <1>2, <1>3

LEMMA StopStep ==
  ASSUME ShareInv, page' = page, signal' = signal,
         NEW k \in Sockets, up[k] # <<>>, up' = [up EXCEPT ![k] = Tail(@)],
         server.open[k], server.host = k, server.auth[k] # NoAuth,
         up[k][1].t = "stop", StopShare(k, up[k][1])
  PROVE  ShareInv'
<1> DEFINE m == up[k][1]
<1>1. /\ ShareTyped /\ Intent /\ Numbered /\ Recorded /\ Unread /\ Acknowledged
      /\ server \in Servers /\ k # 0 /\ k <= signal.last /\ up[k] \in Seq(Ups)
      /\ server.auth[k] \in Shares /\ server.down[k] \in Seq(Downs)
      /\ m \in Ups /\ 1 \in DOMAIN up[k] /\ m.share <= page.last
  BY HostSession
<1>2. ~page.live
  BY <1>1 DEF Acknowledged
<1>3. m.t = "stop"
  OBVIOUS
<1>4. /\ page.gen \in Shares /\ signal.pending \in {0, page.gen} /\ page.last \in Nat
      /\ 0 \in Shares /\ 0 <= page.last
  BY <1>1, SharesTyped, HostShareAssumption DEF Shares
<1>5. Talking(page.gen, signal.pending, server.auth[k], up[k], server.down[k])
        => /\ server.auth[k] \in {0, m.share}
           /\ Talking(page.gen, signal.pending, 0, Tail(up[k]), server.down[k])
  BY <1>1, <1>3, <1>4, TalkStopped
<1>6. server' = IF server.auth[k] = 0 THEN server
                ELSE IF Owns(k, m) THEN Stopped(server)
                ELSE CloseSession(server, k, Replaced)
  BY DEF StopShare
<1>7. k = signal.sock => server.auth[k] \in {0, m.share}
  BY <1>3, <1>5, RequestTalks
<1> HIDE DEF m
<1>8. CASE server.auth[k] = 0
  <2>1. server' = server
    BY <1>6, <1>8
  <2>2. NewestSocket'
    BY <1>3, <1>4, <1>5, <1>8, <2>1, NewestServed DEF m
  <2>3. Recorded'
    BY <1>1, <2>1 DEF Recorded
  <2>4. /\ server'.gen <= page.last /\ server'.host \in {server.host, 0, signal.sock}
        /\ \A j \in Sockets :
            /\ server'.open[j] => server.open[j]
            /\ server'.auth[j] <= page.last
            /\ \A i \in DOMAIN server'.down[j] : server'.down[j][i].share <= page.last
    BY <1>1, <2>1 DEF Numbered
  <2> QED BY <1>1, <1>2, <2>1, <2>2, <2>3, <2>4, ServerStep
<1>9. CASE server.auth[k] # 0 /\ Owns(k, m)
  <2>1. server' = Stopped(server)
    BY <1>6, <1>9
  <2>2. /\ server' \in Servers /\ server'.host = server.host /\ server'.open = server.open
        /\ server'.down = server.down
        /\ server'.gen = server.gen /\ ~server'.policy /\ ~server'.paused
        /\ server'.told = Untold
        /\ \A j \in Sockets : server'.auth[j] = IF j = server.host /\ server.auth[j] = server.gen
                                                THEN 0 ELSE server.auth[j]
    BY <1>1, <2>1, StoppedIs
  <2>3. server'.auth[k] = 0 /\ \A j \in Sockets : j # k => server'.auth[j] = server.auth[j]
    BY <1>9, <2>2 DEF Owns
  <2>4. NewestSocket'
    BY <1>3, <1>4, <1>5, <2>2, <2>3, NewestServed DEF m
  <2>5. Recorded'
    <3>1. 0 # NoAuth
      BY DEF NoAuth
    <3>2. signal.sock # 0 /\ server'.open[signal.sock] /\ server'.auth[signal.sock] # NoAuth
            => server'.host = signal.sock
      BY <1>1, <2>2, <2>3, InUse DEF Recorded
    <3> QED BY <2>2, <2>3, <3>1, <3>2 DEF Recorded
  <2>6. /\ server'.gen <= page.last /\ server'.host \in {server.host, 0, signal.sock}
        /\ \A j \in Sockets :
            /\ server'.open[j] => server.open[j]
            /\ server'.auth[j] <= page.last
            /\ \A i \in DOMAIN server'.down[j] : server'.down[j][i].share <= page.last
    BY <1>1, <1>4, <2>2, <2>3 DEF Numbered
  <2>7. \A j \in Sockets : j # k /\ j # server.host =>
            /\ server'.auth[j] = server.auth[j]
            /\ server'.open[j] = server.open[j]
            /\ server'.down[j] = server.down[j]
    BY <2>2, <2>3
  <2>8. server' \in Servers
    BY <2>2
  <2> QED BY <1>1, <1>2, <2>4, <2>5, <2>6, <2>7, <2>8, ServerStep
<1>10. CASE server.auth[k] # 0 /\ ~Owns(k, m)
  <2>1. server' = CloseSession(server, k, Replaced)
    BY <1>6, <1>10
  <2>2. k # signal.sock
    <3>1. ASSUME k = signal.sock PROVE FALSE
      <4>1. server.auth[k] = m.share /\ server.auth[k] > 0
        BY <1>1, <1>7, <1>10, <3>1, SharesTyped, HostShareAssumption DEF Shares
      <4>2. server.gen = server.auth[k]
        BY <1>1, <4>1 DEF Recorded
      <4> QED BY <1>10, <4>1, <4>2 DEF Owns
    <3> QED BY <3>1
  <2> QED BY <1>1, <2>1, <2>2, ClosingMsgs, CloseStep
<1> QED BY <1>8, <1>9, <1>10

LEMMA PauseStep ==
  ASSUME ShareInv, page' = page, signal' = signal,
         NEW k \in Sockets, up[k] # <<>>, up' = [up EXCEPT ![k] = Tail(@)],
         server.open[k], server.host = k, server.auth[k] # NoAuth,
         up[k][1].t = "pause", SetPaused(k, up[k][1])
  PROVE  ShareInv'
<1> DEFINE m == up[k][1]
<1>1. /\ ShareTyped /\ Intent /\ Numbered /\ Recorded /\ Unread /\ Acknowledged
      /\ server \in Servers /\ k # 0 /\ k <= signal.last /\ up[k] \in Seq(Ups)
      /\ server.auth[k] \in Shares /\ server.down[k] \in Seq(Downs)
      /\ m \in Ups /\ 1 \in DOMAIN up[k] /\ m.share <= page.last
  BY HostSession
<1>3. m.t = "pause" /\ m.share # 0 /\ m.paused \in BOOLEAN
  BY <1>1, UpIs
<1>4. page.gen \in Shares /\ signal.pending \in {0, page.gen}
  BY <1>1, SharesTyped
<1>5. Talking(page.gen, signal.pending, server.auth[k], up[k], server.down[k])
        => /\ server.auth[k] = m.share
           /\ Talking(page.gen, signal.pending, server.auth[k], Tail(up[k]), server.down[k])
  BY <1>1, <1>3, <1>4, TalkPaused
<1>6. server' = IF server.auth[k] # 0 /\ Owns(k, m)
                THEN [server EXCEPT !.paused = m.paused,
                                    !.told = [online |-> TRUE, paused |-> m.paused]]
                ELSE CloseSession(server, k, Replaced)
  BY DEF SetPaused
<1>7. k = signal.sock => server.auth[k] = m.share
  BY <1>3, <1>5, RequestTalks
<1> HIDE DEF m
<1>8. CASE server.auth[k] # 0 /\ Owns(k, m)
  <2>1. server' = [server EXCEPT !.paused = m.paused,
                                 !.told = [online |-> TRUE, paused |-> m.paused]]
    BY <1>6, <1>8
  <2>2. /\ server' \in Servers /\ server'.host = server.host /\ server'.open = server.open
        /\ server'.down = server.down /\ server'.gen = server.gen
        /\ server'.policy = server.policy /\ server'.paused = m.paused
        /\ server'.told = [online |-> TRUE, paused |-> server'.paused]
        /\ server'.auth = server.auth
    BY <1>1, <1>3, <2>1 DEF Servers
  <2>3. server.policy /\ server.auth[k] > 0
    BY <1>1, <1>8, SharesTyped, HostShareAssumption DEF Recorded, Shares
  <2>4. NewestSocket'
    BY <1>1, <1>3, <1>4, <1>5, <2>2, NewestServed DEF m
  <2>5. Recorded'
    BY <1>1, <2>2, <2>3 DEF Recorded
  <2>6. /\ server'.gen <= page.last /\ server'.host \in {server.host, 0, signal.sock}
        /\ \A j \in Sockets :
            /\ server'.open[j] => server.open[j]
            /\ server'.auth[j] <= page.last
            /\ \A i \in DOMAIN server'.down[j] : server'.down[j][i].share <= page.last
    BY <1>1, <2>2 DEF Numbered
  <2>7. page.live => server'.policy /\ server'.gen = server.gen
    BY <2>2, <2>3
  <2>8. \A j \in Sockets : j # k /\ j # server.host =>
            /\ server'.auth[j] = server.auth[j]
            /\ server'.open[j] = server.open[j]
            /\ server'.down[j] = server.down[j]
    BY <2>2
  <2>9. server' \in Servers
    BY <2>2
  <2> QED BY <1>1, <2>4, <2>5, <2>6, <2>7, <2>8, <2>9, ServerStep
<1>9. CASE ~(server.auth[k] # 0 /\ Owns(k, m))
  <2>1. server' = CloseSession(server, k, Replaced)
    BY <1>6, <1>9
  <2>2. k # signal.sock
    <3>1. ASSUME k = signal.sock PROVE FALSE
      <4>1. server.auth[k] = m.share /\ server.auth[k] > 0
        BY <1>1, <1>3, <1>7, <3>1, UpIs
      <4>2. server.gen = server.auth[k]
        BY <1>1, <4>1 DEF Recorded
      <4> QED BY <1>9, <4>1, <4>2 DEF Owns
    <3> QED BY <3>1
  <2> QED BY <1>1, <2>1, <2>2, ClosingMsgs, CloseStep
<1> QED BY <1>8, <1>9

(* The record once a session took over: the share it names, unless that is *)
(* none or was stopped.                                                    *)
LEMMA SettledIs ==
  ASSUME NEW s \in Servers, NEW m \in Ups, m.t = "auth", m.only <=> m.share = 0,
         s.gen = 0 => ~s.policy, ~s.policy => s.told = Untold,
         s.host # 0, s.auth[s.host] = NoAuth,
         NEW r, r = Settled(s, m), NEW own, own = OwnShare(s, m)
  PROVE  /\ r \in Servers /\ r.host = s.host /\ r.open = s.open /\ r.down = s.down
         /\ \A j \in Sockets : r.auth[j] = s.auth[j]
         /\ own \in {0, m.share} /\ own \in Shares
         /\ own = 0 => r.gen = s.gen /\ ~r.policy
         /\ own # 0 => r.gen = own /\ r.policy
         /\ ~r.policy => r.told = Untold
         /\ m.share # 0 /\ s.gen = m.share /\ s.policy => own = m.share
         /\ own # 0 /\ ~s.policy => own # s.gen
<1> DEFINE h == Stopped(s)
<1>1. m.share \in Shares /\ m.paused \in BOOLEAN /\ 0 \in Shares
  BY UpIs, HostShareAssumption DEF Shares
<1>2. own \in {0, m.share} /\ own \in Shares
  BY <1>1 DEF OwnShare
<1>3. /\ h \in Servers /\ h.host = s.host /\ h.open = s.open /\ h.down = s.down
      /\ h.gen = s.gen /\ ~h.policy /\ ~h.paused /\ h.told = Untold
      /\ \A j \in Sockets : h.auth[j] = IF j = s.host /\ s.auth[j] = s.gen THEN 0
                                        ELSE s.auth[j]
  BY StoppedIs
<1>4. \A j \in Sockets : h.auth[j] = s.auth[j]
  BY <1>3, HostShareAssumption DEF Servers, NoAuth, Shares
<1> HIDE DEF h
<1>5. CASE m.share = 0
  <2>1. own = 0
    BY <1>5 DEF OwnShare
  <2>2. CASE s.gen # 0
    <3>1. r = h
      BY <1>5, <2>2 DEF Settled, h
    <3> QED BY <1>2, <1>3, <1>4, <1>5, <2>1, <3>1
  <2>3. CASE s.gen = 0
    <3>1. r = s
      BY <1>5, <2>3 DEF Settled
    <3> QED BY <1>2, <1>5, <2>1, <2>3, <3>1
  <2> QED BY <2>2, <2>3
<1>6. CASE m.share # 0 /\ m.share = s.gen /\ ~s.policy
  <2>1. r = s /\ own = 0
    BY <1>6 DEF Settled, OwnShare
  <2> QED BY <1>2, <1>6, <2>1
<1>7. CASE m.share # 0 /\ ~(m.share = s.gen /\ ~s.policy)
  <2>1. own = m.share
    BY <1>7 DEF OwnShare
  <2> DEFINE b == IF s.gen # 0 /\ s.gen # m.share THEN h ELSE s
             p == m.paused \/ (s.gen = m.share /\ s.paused)
  <2>2. r = [b EXCEPT !.gen = m.share, !.policy = TRUE, !.paused = p]
    BY <1>7 DEF Settled, h
  <2>3. /\ b \in Servers /\ b.host = s.host /\ b.open = s.open /\ b.down = s.down
        /\ \A j \in Sockets : b.auth[j] = s.auth[j]
    BY <1>3, <1>4
  <2>4. p \in BOOLEAN
    OBVIOUS
  <2> HIDE DEF b, p
  <2>5. /\ r \in Servers /\ r.host = b.host /\ r.open = b.open /\ r.down = b.down
        /\ r.auth = b.auth /\ r.gen = m.share /\ r.policy
    BY <1>1, <2>2, <2>3, <2>4 DEF Servers
  <2> QED BY <1>1, <1>2, <1>7, <2>1, <2>3, <2>5
<1> QED BY <1>5, <1>6, <1>7

(* The answer to an authentication: the session's share, and its pause.    *)
Welcome(own, d) ==
  /\ d \in Seq(Downs) /\ d # <<>> /\ d[1].t = "authed"
  /\ \A i \in DOMAIN d : d[i].share = own /\ (i # 1 => d[i].t = "pause-source")

LEMMA WelcomeIs ==
  ASSUME NEW own \in Shares, NEW c \in BOOLEAN
  PROVE  Welcome(own, <<Msg("authed", own, FALSE)>> \o
                      IF c THEN <<Msg("pause-source", own, TRUE)>> ELSE <<>>)
<1> DEFINE x == Msg("authed", own, FALSE)
           y == Msg("pause-source", own, TRUE)
<1>1. x \in Downs /\ x.t = "authed" /\ x.share = own
  BY DEF Msg, Downs
<1>2. y \in Downs /\ y.t = "pause-source" /\ y.share = own
  BY DEF Msg, Downs
<1> HIDE DEF x, y
<1>3. <<x>> \in Seq(Downs) /\ Len(<<x>>) = 1 /\ <<x>>[1] = x /\ <<x>> # <<>>
      /\ DOMAIN <<x>> = {1}
  BY <1>1
<1>4. <<x>> \o <<>> = <<x>>
  BY <1>3, EmptyIs
<1>5. Welcome(own, <<x>>)
  BY <1>1, <1>3 DEF Welcome
<1>6. Welcome(own, <<x>> \o <<y>>)
  <2> DEFINE r == <<x>> \o <<y>>
  <2>1. /\ r \in Seq(Downs) /\ r # <<>> /\ DOMAIN r = 1..1 + 1
        /\ \A i \in 1..1 : r[i] = <<x>>[i]
        /\ r[1 + 1] = y
    BY <1>2, <1>3, Sent
  <2> HIDE DEF r
  <2>2. r[1] = x
    BY <1>3, <2>1
  <2>3. \A i \in DOMAIN r : i = 1 \/ i = 1 + 1
    BY <2>1
  <2> QED BY <1>1, <1>2, <2>1, <2>2, <2>3 DEF Welcome, r
<1> QED BY <1>4, <1>5, <1>6 DEF x, y

(* The last message of a session.                                          *)
Farewell(m) == <<m>>

AuthenticateOutcome(k, m, own) ==
  /\ server' \in Servers /\ server'.host = k
  /\ own \in {0, m.share} /\ own \in Shares
  /\ server'.auth[k] = own /\ \A j \in Sockets : j # k => server'.auth[j] = server.auth[j]
  /\ own = 0 => server'.gen = server.gen /\ ~server'.policy
  /\ own # 0 => server'.gen = own /\ server'.policy
  /\ ~server'.policy => server'.told = Untold
  /\ m.share # 0 /\ server.gen = m.share /\ server.policy => own = m.share
  /\ own # 0 /\ ~server.policy => own # server.gen
  /\ \A j \in Sockets : server'.open[j] => server.open[j]
  /\ \A j \in Sockets : j # k /\ j # server.host =>
        (server'.open[j] <=> server.open[j]) /\ server'.down[j] = server.down[j]
  /\ \A j \in Sockets : j # k => \/ server'.down[j] = server.down[j]
                                 \/ server'.down[j] = server.down[j] \o Farewell(Replaced)
  /\ IF server'.open[k]
     THEN /\ Welcome(own, server'.down[k])
          /\ server'.told = IF own # 0 THEN [online |-> TRUE, paused |-> server'.paused] ELSE Untold
     ELSE server'.down[k] = Farewell(CloseMsg)

(* The server takes over the session of socket k, by an authentication     *)
(* that names its share, if it wants one.                                  *)
Naming(s, m) ==
  /\ m.t = "auth" /\ (m.only <=> m.share = 0)
  /\ s.gen = 0 => ~s.policy
  /\ ~s.policy => s.told = Untold

Taking(s, k, m, own, r) ==
  /\ r \in Servers /\ r.host = k /\ r.open = s.open /\ r.down = s.down
  /\ \A j \in Sockets : r.auth[j] = IF j = k THEN own ELSE s.auth[j]
  /\ own \in {0, m.share} /\ own \in Shares
  /\ own = 0 => r.gen = s.gen /\ ~r.policy
  /\ own # 0 => r.gen = own /\ r.policy
  /\ ~r.policy => r.told = Untold
  /\ m.share # 0 /\ s.gen = m.share /\ s.policy => own = m.share
  /\ own # 0 /\ ~s.policy => own # s.gen

Owned(e, k, own) == [e EXCEPT !.auth[k] = own]

LEMMA OwnedIs ==
  ASSUME NEW e \in Servers, NEW k \in Sockets, NEW own \in Shares,
         NEW r, r = Owned(e, k, own)
  PROVE  /\ r \in Servers /\ r.host = e.host /\ r.open = e.open /\ r.down = e.down
         /\ \A j \in Sockets : r.auth[j] = IF j = k THEN own ELSE e.auth[j]
         /\ r.gen = e.gen /\ r.policy = e.policy /\ r.told = e.told
BY DEF Servers, Owned

Hosted(s, k) == [s EXCEPT !.host = k]

LEMMA TookOver ==
  ASSUME NEW s \in Servers, NEW k \in Sockets, s.auth[k] = NoAuth,
         NEW m \in Ups, Naming(s, m),
         NEW own, own = OwnShare(s, m),
         NEW r, r = Owned(Settled(Hosted(s, k), m), k, own)
  PROVE  Taking(s, k, m, own, r)
<1> DEFINE h == Hosted(s, k)
           e == Settled(h, m)
<1>8. k # 0 /\ k \in 0..MaxConnections
  BY HostShareAssumption DEF Sockets
<1>1. /\ h \in Servers /\ h.host = k /\ h.auth = s.auth /\ h.open = s.open
      /\ h.down = s.down /\ h.gen = s.gen /\ h.policy = s.policy /\ h.told = s.told
      /\ k # 0
  BY <1>8 DEF Servers, Hosted
<1>2. own = OwnShare(h, m)
  BY <1>1 DEF OwnShare
<1> HIDE DEF h
<1>3. e = Settled(h, m)
  OBVIOUS
<1> HIDE DEF e
<1>4. h \in Servers
  BY <1>1
<1>5. /\ e \in Servers /\ e.host = h.host /\ e.open = h.open /\ e.down = h.down
      /\ \A j \in Sockets : e.auth[j] = h.auth[j]
      /\ own \in {0, m.share} /\ own \in Shares
      /\ own = 0 => e.gen = h.gen /\ ~e.policy
      /\ own # 0 => e.gen = own /\ e.policy
      /\ ~e.policy => e.told = Untold
      /\ m.share # 0 /\ h.gen = m.share /\ h.policy => own = m.share
      /\ own # 0 /\ ~h.policy => own # h.gen
  BY <1>1, <1>2, <1>3, <1>4, SettledIs DEF Naming
<1>6. r = Owned(e, k, own)
  BY DEF e, h, Owned
<1>9. e \in Servers /\ own \in Shares
  BY <1>5
<1>7. /\ r \in Servers /\ r.host = e.host /\ r.open = e.open /\ r.down = e.down
      /\ \A j \in Sockets : r.auth[j] = IF j = k THEN own ELSE e.auth[j]
      /\ r.gen = e.gen /\ r.policy = e.policy /\ r.told = e.told
  BY <1>6, <1>9, OwnedIs
<1> QED BY <1>1, <1>5, <1>7 DEF Taking

Displaced(s, h, k) == IF h # 0 /\ h # k THEN CloseSession(s, h, Replaced) ELSE s

LEMMA DisplaceIs ==
  ASSUME NEW s \in Servers, NEW k \in Sockets, NEW h \in 0..MaxConnections,
         NEW r, r = Displaced(s, h, k)
  PROVE  /\ r \in Servers /\ r.host = s.host /\ r.auth = s.auth
         /\ r.gen = s.gen /\ r.policy = s.policy /\ r.paused = s.paused
         /\ r.told = s.told
         /\ \A j \in Sockets : r.open[j] => s.open[j]
         /\ \A j \in Sockets : j = k \/ j # h =>
               (r.open[j] <=> s.open[j]) /\ r.down[j] = s.down[j]
         /\ \A j \in Sockets : \/ r.down[j] = s.down[j]
                               \/ r.down[j] = s.down[j] \o Farewell(Replaced)
<1>1. CASE h # 0 /\ h # k
  <2>1. h \in Sockets /\ Replaced \in Downs
    BY <1>1, ClosingMsgs, HostShareAssumption DEF Sockets
  <2>2. r = CloseSession(s, h, Replaced)
    BY <1>1 DEF Displaced
  <2>3. /\ r \in Servers /\ r.host = s.host /\ r.auth = s.auth
        /\ r.gen = s.gen /\ r.policy = s.policy /\ r.paused = s.paused
        /\ r.told = s.told
        /\ r.open = [s.open EXCEPT ![h] = FALSE]
        /\ \A j \in Sockets : r.open[j] <=> s.open[j] /\ j # h
        /\ \A j \in Sockets : r.down[j] = IF j = h /\ s.open[j]
                                          THEN s.down[j] \o Farewell(Replaced) ELSE s.down[j]
    BY <2>1, <2>2, CloseIs DEF Farewell
  <2> QED BY <1>1, <2>3
<1>2. CASE ~(h # 0 /\ h # k)
  <2>1. r = s
    BY <1>2 DEF Displaced
  <2> QED BY <2>1
<1> QED BY <1>1, <1>2

LEMMA AdmittedIs ==
  ASSUME NEW s \in Servers, NEW k \in Sockets, NEW own \in Shares, s.down[k] = <<>>,
         NEW r, r = Admitted(s, k, own),
         own = 0 => s.told = Untold
  PROVE  /\ r \in Servers /\ r.host = s.host /\ r.auth = s.auth /\ r.open = s.open
         /\ r.gen = s.gen /\ r.policy = s.policy /\ r.paused = s.paused
         /\ r.told = IF own # 0 THEN [online |-> TRUE, paused |-> r.paused] ELSE Untold
         /\ \A j \in Sockets : j # k => r.down[j] = s.down[j]
         /\ s.open[k] => Welcome(own, r.down[k])
<1> DEFINE c == own # 0 /\ s.paused
           ms == <<Msg("authed", own, FALSE)>> \o
                    IF c THEN <<Msg("pause-source", own, TRUE)>> ELSE <<>>
           t == [s EXCEPT !.told = IF own # 0 THEN [online |-> TRUE, paused |-> s.paused]
                                              ELSE @]
<1>1. Welcome(own, ms)
  <2>1. c \in BOOLEAN
    OBVIOUS
  <2> HIDE DEF c
  <2> QED BY <2>1, WelcomeIs
<1>2. r = Tell(t, k, ms)
  BY DEF Admitted
<1> HIDE DEF ms, c
<1>3. /\ t \in Servers /\ t.host = s.host /\ t.auth = s.auth /\ t.open = s.open
      /\ t.gen = s.gen /\ t.policy = s.policy /\ t.paused = s.paused /\ t.down = s.down
      /\ t.told = IF own # 0 THEN [online |-> TRUE, paused |-> t.paused] ELSE Untold
  BY DEF Servers
<1> HIDE DEF t
<1>4. t \in Servers /\ ms \in Seq(Downs)
  BY <1>1, <1>3 DEF Welcome
<1>5. /\ r \in Servers /\ r.host = t.host /\ r.auth = t.auth /\ r.open = t.open
      /\ r.gen = t.gen /\ r.policy = t.policy /\ r.paused = t.paused
      /\ r.told = t.told
      /\ \A j \in Sockets : r.down[j] = IF j = k /\ t.open[j] THEN t.down[j] \o ms
                                        ELSE t.down[j]
  BY <1>2, <1>4, TellIs
<1>6. <<>> \o ms = ms
  BY <1>4, EmptyIs
<1>7. s.open[k] => r.down[k] = ms
  BY <1>3, <1>5, <1>6
<1> QED BY <1>1, <1>3, <1>5, <1>7

LEMMA AuthenticateDoes ==
  ASSUME server \in Servers, NEW k \in Sockets, server.auth[k] = NoAuth,
         server.down[k] = <<>>,
         NEW m \in Ups, Naming(server, m),
         NEW ok, Authenticate(k, m, ok)
  PROVE  server.open[k] => \E own \in Shares : AuthenticateOutcome(k, m, own)
<1> DEFINE own == OwnShare(server, m)
           set == Owned(Settled(Hosted(server, k), m), k, own)
           adm == Admitted(set, k, own)
<1>1. \/ server' = Displace(adm, k)
      \/ server' = CloseSession(set, k, CloseMsg)
  BY DEF Authenticate, Refused, Owned, Hosted
<1>5. Taking(server, k, m, own, set)
  BY TookOver
<1> HIDE DEF own, set
<1>2. set \in Servers /\ own \in Shares
  BY <1>5 DEF Taking
<1>3. CASE server' = Displace(adm, k)
  <2>1. set.down[k] = <<>> /\ (own = 0 => set.told = Untold)
    BY <1>5 DEF Taking
  <2>2. /\ adm \in Servers /\ adm.host = set.host /\ adm.auth = set.auth
        /\ adm.open = set.open
        /\ adm.gen = set.gen /\ adm.policy = set.policy /\ adm.paused = set.paused
        /\ adm.told = IF own # 0 THEN [online |-> TRUE, paused |-> adm.paused] ELSE Untold
        /\ \A j \in Sockets : j # k => adm.down[j] = set.down[j]
        /\ set.open[k] => Welcome(own, adm.down[k])
    BY <1>2, <2>1, AdmittedIs
  <2> HIDE DEF adm
  <2>3. adm \in Servers
    BY <2>2
  <2>4. /\ server' \in Servers /\ server'.host = adm.host /\ server'.auth = adm.auth
        /\ server'.gen = adm.gen /\ server'.policy = adm.policy
        /\ server'.paused = adm.paused /\ server'.told = adm.told
        /\ \A j \in Sockets : server'.open[j] => adm.open[j]
        /\ \A j \in Sockets : j = k \/ j # server.host =>
              (server'.open[j] <=> adm.open[j]) /\ server'.down[j] = adm.down[j]
        /\ \A j \in Sockets : \/ server'.down[j] = adm.down[j]
                              \/ server'.down[j] = adm.down[j] \o Farewell(Replaced)
    <3>1. server' = Displaced(adm, server.host, k)
      BY <1>3 DEF Displace, Displaced
    <3>2. server.host \in 0..MaxConnections
      BY DEF Servers
    <3> QED BY <2>3, <3>1, <3>2, DisplaceIs
  <2>5. server.open[k] => server'.open[k] /\ Welcome(own, server'.down[k])
    BY <1>5, <2>2, <2>4 DEF Taking
  <2>7. /\ server' \in Servers /\ server'.host = k
        /\ own \in {0, m.share} /\ own \in Shares
        /\ server'.auth[k] = own /\ \A j \in Sockets : j # k => server'.auth[j] = server.auth[j]
    BY <1>5, <2>2, <2>4 DEF Taking
  <2>8. /\ own = 0 => server'.gen = server.gen /\ ~server'.policy
        /\ own # 0 => server'.gen = own /\ server'.policy
        /\ ~server'.policy => server'.told = Untold
        /\ m.share # 0 /\ server.gen = m.share /\ server.policy => own = m.share
        /\ own # 0 /\ ~server.policy => own # server.gen
    BY <1>5, <2>2, <2>4 DEF Taking
  <2>9. /\ \A j \in Sockets : server'.open[j] => server.open[j]
        /\ \A j \in Sockets : j # k /\ j # server.host =>
              (server'.open[j] <=> server.open[j]) /\ server'.down[j] = server.down[j]
    BY <1>5, <2>2, <2>4 DEF Taking
  <2>10. \A j \in Sockets : j # k => \/ server'.down[j] = server.down[j]
                                      \/ server'.down[j] = server.down[j] \o Farewell(Replaced)
    <3> SUFFICES ASSUME NEW j \in Sockets, j # k
                 PROVE  \/ server'.down[j] = server.down[j]
                        \/ server'.down[j] = server.down[j] \o Farewell(Replaced)
      OBVIOUS
    <3>1. adm.down[j] = server.down[j]
      BY <1>5, <2>2 DEF Taking
    <3>2. \/ server'.down[j] = adm.down[j]
          \/ server'.down[j] = adm.down[j] \o Farewell(Replaced)
      BY <2>4
    <3> QED BY <3>1, <3>2
  <2>11. server'.told = IF own # 0 THEN [online |-> TRUE, paused |-> server'.paused] ELSE Untold
    BY <2>2, <2>4
  <2>6. server.open[k] => AuthenticateOutcome(k, m, own)
    BY <2>5, <2>7, <2>8, <2>9, <2>10, <2>11 DEF AuthenticateOutcome
  <2> QED BY <1>2, <2>6
<1>4. CASE server' = CloseSession(set, k, CloseMsg)
  <2>1. CloseMsg \in Downs /\ set \in Servers
    BY <1>2, ClosingMsgs
  <2>2. /\ server' \in Servers /\ server'.host = set.host /\ server'.auth = set.auth
        /\ server'.gen = set.gen /\ server'.policy = set.policy
        /\ server'.paused = set.paused
        /\ server'.told = set.told
        /\ server'.open = [set.open EXCEPT ![k] = FALSE]
        /\ \A j \in Sockets : server'.open[j] <=> set.open[j] /\ j # k
        /\ \A j \in Sockets : server'.down[j] = IF j = k /\ set.open[j]
                                                THEN set.down[j] \o Farewell(CloseMsg)
                                                ELSE set.down[j]
    BY <1>4, <2>1, CloseIs DEF Farewell
  <2>3. <<>> \o Farewell(CloseMsg) = Farewell(CloseMsg)
    BY <2>1 DEF Farewell
  <2>4. server.open[k] => ~server'.open[k] /\ server'.down[k] = Farewell(CloseMsg)
    <3>1. server.open[k] => set.open[k] /\ set.down[k] = <<>>
      BY <1>5 DEF Taking
    <3> QED BY <2>2, <2>3, <3>1
  <2>5. \A j \in Sockets : j # k => /\ (server'.open[j] <=> server.open[j])
                                    /\ server'.down[j] = server.down[j]
    BY <1>5, <2>2 DEF Taking
  <2>6. \A j \in Sockets : server'.open[j] => server.open[j]
    BY <1>5, <2>2 DEF Taking
  <2>7. server.open[k] => AuthenticateOutcome(k, m, own)
    BY <1>5, <2>2, <2>4, <2>5, <2>6 DEF AuthenticateOutcome, Taking
  <2> QED BY <1>2, <2>7
<1> QED BY <1>1, <1>3, <1>4

(* The newest socket, when the server reads an authentication: only it     *)
(* carries one, and nothing else.                                          *)
LEMMA AuthAsks ==
  ASSUME ShareInv, NEW k \in Sockets, up[k] # <<>>, server.open[k], up[k][1].t = "auth"
  PROVE  /\ k = signal.sock /\ server.auth[k] = NoAuth /\ ~signal.authed /\ signal.opened
         /\ server.down[k] = <<>> /\ Tail(up[k]) = <<>>
<1>1. ShareTyped /\ Recorded /\ Unread /\ NewestSocket
  BY DEF ShareInv
<1>2. k # 0 /\ up[k] \in Seq(Ups)
  BY <1>1, InUse
<1>3. 1 \in DOMAIN up[k]
  BY <1>2, Taken
<1>4. k = signal.sock
  BY <1>1, <1>3 DEF Unread
<1>5. ~Ordered(server.auth[k], up[k])
  BY <1>3 DEF Ordered
<1>6. server.auth[k] = NoAuth
  BY <1>1, <1>2, <1>4, <1>5 DEF NewestSocket, Answered, Talking
<1>7. Asking
  BY <1>1, <1>2, <1>4, <1>6 DEF NewestSocket
<1>8. signal.opened /\ Len(up[k]) = 1 /\ server.down[k] = <<>> /\ ~signal.authed
  BY <1>4, <1>7 DEF Asking
<1>9. Tail(up[k]) = <<>>
  BY <1>2, <1>8, Taken
<1> QED BY <1>4, <1>6, <1>8, <1>9

LEMMA FarewellIs ==
  ASSUME NEW m \in Downs
  PROVE  Farewell(m) \in Seq(Downs) /\ \A i \in DOMAIN Farewell(m) : Farewell(m)[i] = m
BY DEF Farewell

LEMMA NewestAnswered ==
  ASSUME NEW k \in Sockets, signal'.sock = k, server'.auth[k] # NoAuth, ~signal'.authed,
         Answered(page.gen, signal.pending, server.auth[k], up[k], server.down[k])'
  PROVE  server'.open[k] => NewestSocket'
BY DEF NewestSocket

LEMMA AuthStep ==
  ASSUME ShareInv, page' = page, signal' = signal,
         NEW k \in Sockets, up[k] # <<>>, up' = [up EXCEPT ![k] = Tail(@)],
         server.open[k], up[k][1].t = "auth", NEW ok, Authenticate(k, up[k][1], ok)
  PROVE  ShareInv'
<1> DEFINE m == up[k][1]
           g == page.gen
<1>1. /\ ShareTyped /\ Intent /\ Numbered /\ Recorded /\ Unread /\ Acknowledged
  BY DEF ShareInv
<1>2. /\ k = signal.sock /\ server.auth[k] = NoAuth /\ ~signal.authed /\ signal.opened
      /\ server.down[k] = <<>> /\ Tail(up[k]) = <<>>
  BY AuthAsks
<1>3. server \in Servers
  BY <1>1 DEF ShareTyped
<1>4. k # 0 /\ k <= signal.last /\ up[k] \in Seq(Ups) /\ up \in [Sockets -> Seq(Ups)]
  BY <1>1, InUse DEF ShareTyped
<1>5. m \in Ups /\ 1 \in DOMAIN up[k]
  BY <1>4, Taken
<1>6. m.t = "auth" /\ Authenticate(k, m, ok)
  OBVIOUS
<1>7. m.share <= page.last /\ Naming(server, m)
  BY <1>1, <1>5, <1>6 DEF Numbered, Recorded, Naming
<1>8. page.live => server.policy /\ server.gen = g /\ m.share = g
  BY <1>1, <1>2, <1>5, <1>6 DEF Acknowledged
<1>9. server.open[k] => \E own \in Shares : AuthenticateOutcome(k, m, own)
  BY <1>2, <1>3, <1>5, <1>6, <1>7, AuthenticateDoes
<1> HIDE DEF m
<1>10. PICK own \in Shares : AuthenticateOutcome(k, m, own)
  BY <1>9
<1>11. /\ own \in {0, m.share} /\ own \in Nat /\ own <= page.last /\ own # NoAuth
       /\ page.last \in Nat
  BY <1>1, <1>7, <1>10, SharesTyped DEF AuthenticateOutcome, NoAuth
<1>12. page.live => own = g /\ g # 0
  BY <1>1, <1>8, <1>10 DEF AuthenticateOutcome, Intent
<1>13. server'.host = k /\ server'.auth[k] = own
  BY <1>10 DEF AuthenticateOutcome
<1>14. CloseMsg \in Downs /\ Replaced \in Downs /\ CloseMsg.share = 0 /\ Replaced.share = 0
       /\ CloseMsg.t = "close"
  BY ClosingMsgs
<1>15. NewestSocket'
  <2>1. CASE server'.open[k]
    <3>1. Welcome(own, server'.down[k])
      BY <1>10, <2>1 DEF AuthenticateOutcome
    <3>2. page.gen # 0 /\ signal.pending = 0 => own = page.gen
      BY <1>1, <1>12 DEF Intent
    <3>3. 1 \in DOMAIN server'.down[k]
      BY <3>1, Taken DEF Welcome
    <3>4. Answered(page.gen, signal.pending, own, <<>>, server'.down[k])
      BY <1>2, <3>1, <3>2, <3>3 DEF Answered, Welcome
    <3>5. up'[k] = <<>>
      BY <1>2, <1>4
    <3>6. Answered(page.gen, signal.pending, server.auth[k], up[k], server.down[k])'
      BY <1>13, <3>4, <3>5 DEF Answered
    <3>7. server'.auth[k] # NoAuth /\ ~signal'.authed /\ signal'.sock = k
      BY <1>2, <1>11, <1>13
    <3> QED BY <2>1, <3>6, <3>7, NewestAnswered
  <2>2. CASE ~server'.open[k]
    <3>1. server'.down[k] = Farewell(CloseMsg)
      BY <1>10, <2>2 DEF AuthenticateOutcome
    <3>2. \A i \in DOMAIN server'.down[k] : server'.down[k][i].t = "close"
      BY <1>14, <3>1, FarewellIs
    <3> QED BY <1>2, <2>2, <3>2 DEF NewestSocket, Ended
  <2> QED BY <2>1, <2>2
<1>16. Recorded'
  <2>1. own > 0 <=> own # 0
    BY <1>11
  <2>2. /\ own = 0 => ~server'.policy
        /\ own # 0 => server'.gen = own /\ server'.policy
        /\ ~server'.policy => server'.told = Untold
        /\ server'.open[k] =>
              server'.told = IF own # 0 THEN [online |-> TRUE, paused |-> server'.paused]
                                        ELSE Untold
    BY <1>10 DEF AuthenticateOutcome
  <2> QED BY <1>2, <1>11, <1>13, <2>1, <2>2 DEF Recorded
<1>17. ASSUME NEW j \in Sockets, NEW i \in DOMAIN server'.down[j]
       PROVE  server'.down[j][i].share <= page.last
  <2>1. server.down[j] \in Seq(Downs)
    BY <1>3 DEF Servers
  <2>2. CASE j = k /\ server'.open[k]
    <3>1. server'.down[j][i].share = own
      BY <1>10, <1>17, <2>2 DEF AuthenticateOutcome, Welcome
    <3> QED BY <1>11, <3>1
  <2>3. CASE j = k /\ ~server'.open[k]
    <3>1. server'.down[j] = Farewell(CloseMsg)
      BY <1>10, <2>3 DEF AuthenticateOutcome
    <3>2. server'.down[j][i] = CloseMsg
      BY <1>14, <1>17, <3>1, FarewellIs
    <3> QED BY <1>11, <1>14, <3>2
  <2>4. CASE j # k /\ server'.down[j] = server.down[j]
    BY <1>1, <1>17, <2>4 DEF Numbered
  <2>5. CASE j # k /\ server'.down[j] = server.down[j] \o Farewell(Replaced)
    <3>1. \A h \in DOMAIN server.down[j] : server.down[j][h].share <= page.last
      BY <1>1 DEF Numbered
    <3>2. server'.down[j][i] = Replaced \/ (i \in DOMAIN server.down[j]
                                            /\ server'.down[j][i] = server.down[j][i])
      BY <1>14, <1>17, <2>1, <2>5, AmongSent DEF Farewell
    <3> QED BY <1>11, <1>14, <3>1, <3>2
  <2>6. j # k => \/ server'.down[j] = server.down[j]
                 \/ server'.down[j] = server.down[j] \o Farewell(Replaced)
    BY <1>10 DEF AuthenticateOutcome
  <2> QED BY <2>2, <2>3, <2>4, <2>5, <2>6
<1>18. \A j \in Sockets :
         /\ server'.open[j] => server.open[j]
         /\ server'.auth[j] <= page.last
         /\ \A i \in DOMAIN server'.down[j] : server'.down[j][i].share <= page.last
  <2>1. \A j \in Sockets : server'.auth[j] <= page.last
    BY <1>1, <1>10, <1>11 DEF AuthenticateOutcome, Numbered
  <2>2. \A j \in Sockets : server'.open[j] => server.open[j]
    BY <1>10 DEF AuthenticateOutcome
  <2> QED BY <1>17, <2>1, <2>2
<1>19. \A j \in Sockets : j # k /\ j # server.host =>
         /\ server'.auth[j] = server.auth[j]
         /\ server'.open[j] = server.open[j]
         /\ server'.down[j] = server.down[j]
  <2>1. \A j \in Sockets : j # k => server'.auth[j] = server.auth[j]
    BY <1>10 DEF AuthenticateOutcome
  <2>2. \A j \in Sockets : j # k /\ j # server.host =>
           (server'.open[j] <=> server.open[j]) /\ server'.down[j] = server.down[j]
    BY <1>10 DEF AuthenticateOutcome
  <2>3. server' \in Servers
    BY <1>10 DEF AuthenticateOutcome
  <2>4. server.open \in [Sockets -> BOOLEAN] /\ server'.open \in [Sockets -> BOOLEAN]
    BY <1>3, <2>3 DEF Servers
  <2>5. \A j \in Sockets : j # k /\ j # server.host => server'.open[j] = server.open[j]
    BY <2>2, <2>4
  <2> QED BY <2>1, <2>2, <2>5
<1>20. /\ server' \in Servers /\ server'.gen <= page.last
       /\ server'.host \in {server.host, 0, signal.sock}
       /\ page.live => server'.policy /\ server'.gen = server.gen
  <2>1. server' \in Servers /\ (own = 0 => server'.gen = server.gen)
        /\ (own # 0 => server'.gen = own /\ server'.policy)
    BY <1>10 DEF AuthenticateOutcome
  <2>2. server'.gen <= page.last
    BY <1>1, <1>11, <2>1 DEF Numbered
  <2> QED BY <1>2, <1>8, <1>12, <1>13, <2>1, <2>2
<1>21. server' \in Servers
  BY <1>20
<1> QED BY <1>4, <1>15, <1>16, <1>18, <1>19, <1>20, <1>21, ServerStep

-----------------------------------------------------------------------------
(* What the server reads, and what its timers do.                          *)

LEMMA ReadStep ==
  ASSUME ShareInv, Read
  PROVE  ShareInv'
<1>14. PICK k \in Sockets :
         /\ up[k] # <<>> /\ \E ok \in Admission(Head(up[k])) : Handle(k, Head(up[k]), ok)
         /\ up' = [up EXCEPT ![k] = Tail(@)]
         /\ UNCHANGED <<page, signal>>
  BY DEF Read
<1>1. PICK ok \in Admission(Head(up[k])) :
         /\ up[k] # <<>> /\ Handle(k, Head(up[k]), ok)
         /\ up' = [up EXCEPT ![k] = Tail(@)]
         /\ UNCHANGED <<page, signal>>
  BY <1>14
<1>2. /\ ShareTyped /\ Recorded /\ Unread /\ server \in Servers
      /\ up \in [Sockets -> Seq(Ups)]
  BY DEF ShareInv, ShareTyped
<1>3. k # 0 /\ k <= signal.last /\ up[k] \in Seq(Ups)
  BY <1>1, <1>2, InUse
<1>4. Head(up[k]) = up[k][1] /\ up[k][1] \in Ups /\ up[k] # <<>>
  BY <1>1, <1>3, Taken
<1> DEFINE m == up[k][1]
<1>5. Handle(k, m, ok) /\ page' = page /\ signal' = signal
      /\ up' = [up EXCEPT ![k] = Tail(@)]
  BY <1>1, <1>4
<1>6. m.t \in {"start", "stop", "pause", "close", "auth"}
  BY <1>4, UpIs
<1> HIDE DEF m
<1>7. CASE m.t = "close"
  <2>1. Gone(k)
    BY <1>5, <1>7 DEF Handle
  <2>2. k = signal.sock => ~server.open[k]
    BY <1>4, <1>7, RequestTalks DEF m
  <2> QED BY <1>3, <1>4, <1>5, <2>1, <2>2, GoneStep
<1>8. CASE m.t # "close" /\ ~server.open[k]
  <2>1. server' = server
    BY <1>5, <1>8 DEF Handle
  <2>2. NewestSocket'
    <3>1. CASE k = signal.sock
      <4>1. signal.sock # 0 /\ ~server.open[signal.sock]
        BY <1>3, <1>8, <3>1
      <4> QED BY <1>5, <2>1, <4>1, EndedKept
    <3>2. CASE k # signal.sock
      <4>1. signal.sock # 0 => up'[signal.sock] = up[signal.sock]
        BY <1>2, <1>5, <3>2, InUse
      <4> QED BY <1>5, <2>1, <4>1, NewestKept
    <3> QED BY <3>1, <3>2
  <2>3. Recorded'
    BY <1>2, <1>5, <2>1 DEF Recorded
  <2>4. /\ server'.gen <= page.last /\ server'.host \in {server.host, 0, signal.sock}
        /\ \A j \in Sockets :
            /\ server'.open[j] => server.open[j]
            /\ server'.auth[j] <= page.last
            /\ \A i \in DOMAIN server'.down[j] : server'.down[j][i].share <= page.last
    BY <2>1 DEF Numbered, ShareInv
  <2>5. page.live => server'.policy /\ server'.gen = server.gen
    BY <2>1 DEF Acknowledged, ShareInv
  <2> QED BY <1>2, <1>3, <1>4, <1>5, <2>1, <2>2, <2>3, <2>4, <2>5, ServerStep
<1>9. CASE server.open[k] /\ m.t = "auth"
  <2>1. Authenticate(k, up[k][1], ok) /\ up[k][1].t = "auth" /\ server.open[k]
    BY <1>5, <1>9 DEF Handle, m
  <2> QED BY <1>4, <1>5, <2>1, AuthStep
<1>10. CASE server.open[k] /\ m.t \in {"start", "stop", "pause"} /\ ~Current(k)
  <2>1. server' = CloseSession(server, k, Replaced)
    BY <1>5, <1>10 DEF Handle
  <2>2. k # signal.sock
    <3>1. k = signal.sock => server.auth[k] # NoAuth /\ server.host = k
      BY <1>4, <1>10, RequestTalks DEF m
    <3> QED BY <1>10, <3>1 DEF Current
  <2> QED BY <1>3, <1>4, <1>5, <2>1, <2>2, ClosingMsgs, CloseStep
<1>11. CASE server.open[k] /\ m.t = "start" /\ Current(k)
  <2>1. /\ StartShare(k, up[k][1], ok) /\ up[k][1].t = "start" /\ server.open[k]
        /\ server.host = k /\ server.auth[k] # NoAuth
    BY <1>5, <1>11 DEF Handle, Current, m
  <2> QED BY <1>4, <1>5, <2>1, StartStep
<1>12. CASE server.open[k] /\ m.t = "stop" /\ Current(k)
  <2>1. /\ StopShare(k, up[k][1]) /\ up[k][1].t = "stop" /\ server.open[k]
        /\ server.host = k /\ server.auth[k] # NoAuth
    BY <1>5, <1>12 DEF Handle, Current, m
  <2> QED BY <1>4, <1>5, <2>1, StopStep
<1>13. CASE server.open[k] /\ m.t = "pause" /\ Current(k)
  <2>1. /\ SetPaused(k, up[k][1]) /\ up[k][1].t = "pause" /\ server.open[k]
        /\ server.host = k /\ server.auth[k] # NoAuth
    BY <1>5, <1>13 DEF Handle, Current, m
  <2> QED BY <1>4, <1>5, <2>1, PauseStep
<1> QED BY <1>6, <1>7, <1>8, <1>9, <1>10, <1>11, <1>12, <1>13

LEMMA ExpireStep ==
  ASSUME ShareInv, Expire
  PROVE  ShareInv'
<1>1. PICK k \in Sockets :
         /\ k <= signal.last /\ server.open[k] /\ server.auth[k] = NoAuth
         /\ server' = CloseSession(server, k, CloseMsg)
         /\ UNCHANGED <<page, signal, up, budget>>
  BY DEF Expire
<1>2. page' = page /\ signal' = signal /\ up' = up
  BY <1>1
<1> QED BY <1>1, <1>2, ClosingMsgs, CloseStep

LEMMA DisconnectStep ==
  ASSUME ShareInv, Disconnect
  PROVE  ShareInv'
<1>1. PICK k \in Sockets :
         /\ server.auth[k] # NoAuth /\ ~server.open[k] /\ Gone(k)
         /\ UNCHANGED <<page, signal, up, budget>>
  BY DEF Disconnect
<1>2. ShareTyped /\ Recorded /\ Unread
  BY DEF ShareInv
<1>3. k <= signal.last
  BY <1>1, <1>2, InUse
<1>4. page' = page /\ signal' = signal /\ up' = up
  BY <1>1
<1> QED BY <1>1, <1>3, <1>4, GoneStep

-----------------------------------------------------------------------------
(* Frames of the page's steps: what they send goes out on the newest       *)
(* socket, and what they read comes from it.                               *)

ServerKept ==
  /\ server' \in Servers /\ server'.host = server.host /\ server'.auth = server.auth
  /\ server'.open = server.open /\ server'.gen = server.gen
  /\ server'.policy = server.policy /\ server'.paused = server.paused
  /\ server'.told = server.told
  /\ \A j \in Sockets : j # signal.sock => server'.down[j] = server.down[j]
  /\ \A j \in Sockets : \A i \in DOMAIN server'.down[j] :
        \E h \in DOMAIN server.down[j] : server'.down[j][i] = server.down[j][h]

(* What the page sends now.                                                *)
Spoken(m) ==
  /\ m.share <= page'.last
  /\ m.t = "auth" => /\ (m.only <=> m.share = 0) /\ signal'.sock = signal.sock
                     /\ (page'.live => m.share = page'.gen)
  /\ page'.live => m.t \in {"auth", "pause", "close"}

Speaks ==
  /\ up' \in [Sockets -> Seq(Ups)]
  /\ \A j \in Sockets : j # signal.sock => up'[j] = up[j]
  /\ \A j \in Sockets : \A i \in DOMAIN up'[j] :
        (\E h \in DOMAIN up[j] : up'[j][i] = up[j][h]) \/ Spoken(up'[j][i])

LEMMA SameServer ==
  ASSUME ShareTyped, server' = server
  PROVE  ServerKept
BY DEF ShareTyped, ServerKept

LEMMA SameUp ==
  ASSUME ShareTyped, up' = up
  PROVE  Speaks
BY DEF ShareTyped, Speaks

(* A message sent on the newest socket.                                    *)
LEMMA SaidOne ==
  ASSUME ShareTyped, NEW k \in Sockets, k = signal.sock, NEW m \in Ups, Spoken(m),
         up' = [up EXCEPT ![k] = @ \o <<m>>]
  PROVE  Speaks /\ up'[k] = up[k] \o <<m>>
<1>1. up \in [Sockets -> Seq(Ups)] /\ up[k] \in Seq(Ups)
  BY DEF ShareTyped
<1>2. up[k] \o <<m>> \in Seq(Ups)
  BY <1>1, Sent
<1>3. up' \in [Sockets -> Seq(Ups)] /\ up'[k] = up[k] \o <<m>>
      /\ \A j \in Sockets : j # k => up'[j] = up[j]
  BY <1>1, <1>2
<1>4. ASSUME NEW j \in Sockets, NEW i \in DOMAIN up'[j]
      PROVE  (\E h \in DOMAIN up[j] : up'[j][i] = up[j][h]) \/ Spoken(up'[j][i])
  <2>1. CASE j # k
    BY <1>3, <1>4, <2>1
  <2>2. CASE j = k
    <3>1. (i \in DOMAIN up[k] /\ up'[k][i] = up[k][i]) \/ up'[k][i] = m
      BY <1>1, <1>3, <1>4, <2>2, AmongSent
    <3> QED BY <2>2, <3>1
  <2> QED BY <2>1, <2>2
<1> QED BY <1>3, <1>4 DEF Speaks

(* A step of the page keeps what says nothing of its newest socket.        *)
LEMMA ClientStep ==
  ASSUME ShareInv, page' \in Pages, signal' \in Signals, ServerKept, Speaks,
         page.last <= page'.last, signal.last <= signal'.last,
         \/ signal'.sock = signal.sock
         \/ signal'.sock = 0
         \/ signal.sock = 0 /\ signal'.sock = signal.last + 1,
         signal'.sock = signal.sock \/ signal.sock = 0 \/ signal.authed
            \/ ~server.open[signal.sock] \/ up'[signal.sock] = <<CloseMsg>>,
         page'.live => \/ page.live /\ page'.gen = page.gen
                       \/ /\ signal'.sock = signal.sock /\ signal.sock # 0
                          /\ server.host = signal.sock
                          /\ server.policy /\ server.gen = page'.gen
                          /\ \A i \in DOMAIN up'[signal.sock] :
                                up'[signal.sock][i].t = "pause",
         Intent', NewestSocket'
  PROVE  ShareInv'
<1>1. /\ ShareTyped /\ Intent /\ Numbered /\ Recorded /\ Unread /\ Acknowledged /\ NewestSocket
  BY DEF ShareInv
<1>2. /\ \A k \in Sockets : k \in Nat /\ k # 0
      /\ signal.last \in Nat /\ signal.sock \in Nat
      /\ signal.sock # 0 => signal.sock \in Sockets
      /\ signal.sock \in {0, signal.last}
      /\ page.last \in Nat /\ page'.last \in Nat /\ signal'.last \in Nat
      /\ \A k \in Sockets : up[k] \in Seq(Ups) /\ server.down[k] \in Seq(Downs)
      /\ server.host # 0 => server.host <= signal.last
  BY <1>1, InUse, HostShareAssumption DEF Intent, Pages, Signals, ShareTyped, Shares
<1>3. ShareTyped'
  BY DEF ShareTyped, ServerKept, Speaks
<1>4. Numbered'
  <2>1. ASSUME NEW n, n \in Nat \/ n = NoAuth, n <= page.last
        PROVE  n <= page'.last
    BY <1>2, <2>1 DEF NoAuth
  <2>2. server.gen \in Nat /\ \A k \in Sockets : server.auth[k] \in Nat \/ server.auth[k] = NoAuth
    BY <1>1, HostShareAssumption DEF ShareTyped, Servers, Shares
  <2>3. server'.gen <= page'.last /\ \A k \in Sockets : server'.auth[k] <= page'.last
    BY <1>1, <2>1, <2>2 DEF Numbered, ServerKept
  <2>4. ASSUME NEW k \in Sockets, NEW i \in DOMAIN server'.down[k]
        PROVE  server'.down[k][i].share <= page'.last
    <3>1. PICK h \in DOMAIN server.down[k] : server'.down[k][i] = server.down[k][h]
      BY <2>4 DEF ServerKept
    <3>2. server.down[k][h] \in Downs
      BY <1>2, LenProperties
    <3>3. server.down[k][h].share \in Nat
      BY <3>2, DownIs
    <3> QED BY <1>1, <2>1, <3>1, <3>3 DEF Numbered
  <2>5. ASSUME NEW k \in Sockets, NEW i \in DOMAIN up'[k]
        PROVE  /\ up'[k][i].share <= page'.last
               /\ up'[k][i].t = "auth" => (up'[k][i].only <=> up'[k][i].share = 0)
    <3>1. CASE Spoken(up'[k][i])
      BY <3>1 DEF Spoken
    <3>2. CASE \E h \in DOMAIN up[k] : up'[k][i] = up[k][h]
      <4>1. PICK h \in DOMAIN up[k] : up'[k][i] = up[k][h]
        BY <3>2
      <4>2. up[k][h] \in Ups
        BY <1>2, LenProperties
      <4>3. up[k][h].share \in Nat
        BY <4>2, UpIs
      <4> QED BY <1>1, <2>1, <4>1, <4>3 DEF Numbered
    <3> QED BY <2>5, <3>1, <3>2 DEF Speaks
  <2> QED BY <2>3, <2>4, <2>5 DEF Numbered
<1>5. Recorded'
  <2>1. signal'.sock # 0 /\ server.open[signal'.sock] /\ server.auth[signal'.sock] # NoAuth
          => server.host = signal'.sock
    <3>1. CASE signal'.sock = signal.sock
      BY <1>1, <3>1 DEF Recorded
    <3>2. CASE signal.sock = 0 /\ signal'.sock = signal.last + 1
      <4>1. signal'.sock \in Sockets /\ signal'.sock > signal.last
        BY <1>2, <3>2, HostShareAssumption DEF Signals, Sockets
      <4> QED BY <1>1, <4>1 DEF Unread
    <3> QED BY <3>1, <3>2
  <2> QED BY <1>1, <2>1 DEF Recorded, ServerKept
<1>6. Unread'
  <2>1. ASSUME NEW k \in Sockets, k > signal'.last
        PROVE  /\ up'[k] = <<>> /\ server'.down[k] = <<>> /\ server'.open[k]
               /\ server'.auth[k] = NoAuth
    <3>1. k > signal.last /\ k # signal.sock
      BY <1>2, <2>1
    <3> QED BY <1>1, <3>1 DEF Unread, ServerKept, Speaks
  <2>2. ASSUME NEW k \in Sockets, server'.open[k], k # signal'.sock, NEW i \in DOMAIN up'[k]
        PROVE  up'[k][i].t # "auth"
    <3>1. server.open[k]
      BY <2>2 DEF ServerKept
    <3>2. CASE k # signal.sock
      BY <1>1, <2>2, <3>1, <3>2 DEF Unread, Speaks
    <3>3. CASE k = signal.sock /\ up'[k] = <<CloseMsg>>
      BY <2>2, <3>3, ClosingMsgs
    <3>4. CASE k = signal.sock /\ up'[k] # <<CloseMsg>>
      <4>1. signal.authed
        BY <1>2, <2>2, <3>1, <3>4
      <4>2. server.auth[k] # NoAuth
        BY <1>1, <1>2, <3>1, <3>4, <4>1 DEF NewestSocket, Asking
      <4>3. Ordered(server.auth[k], up[k])
        BY <1>1, <1>2, <3>1, <3>4, <4>1, <4>2 DEF NewestSocket, Talking
      <4>4. CASE Spoken(up'[k][i])
        BY <2>2, <3>4, <4>4 DEF Spoken
      <4>5. CASE \E h \in DOMAIN up[k] : up'[k][i] = up[k][h]
        BY <4>3, <4>5 DEF Ordered
      <4> QED BY <2>2, <4>4, <4>5 DEF Speaks
    <3> QED BY <3>2, <3>3, <3>4
  <2> QED BY <2>1, <2>2 DEF Unread
<1>7. Acknowledged'
  <2>1. CASE page'.live /\ page.live /\ page'.gen = page.gen
    <3>1. ASSUME NEW k \in Sockets, server'.open[k], k \in {server'.host, signal'.sock},
                 NEW i \in DOMAIN up'[k]
          PROVE  /\ up'[k][i].t \in {"auth", "pause", "close"}
                 /\ up'[k][i].t = "auth" => up'[k][i].share = page'.gen
      <4>1. server.open[k] /\ k \in {server.host, signal'.sock}
        BY <3>1 DEF ServerKept
      <4>2. CASE k \in {server.host, signal.sock}
        <5>1. CASE \E h \in DOMAIN up[k] : up'[k][i] = up[k][h]
          BY <1>1, <2>1, <4>1, <4>2, <5>1 DEF Acknowledged
        <5>2. CASE Spoken(up'[k][i])
          BY <2>1, <5>2 DEF Spoken
        <5> QED BY <3>1, <5>1, <5>2 DEF Speaks
      <4>3. CASE k = signal'.sock /\ k # signal.sock
        <5>1. k > signal.last
          BY <1>2, <4>3
        <5> QED BY <1>1, <3>1, <4>3, <5>1 DEF Unread, Speaks
      <4> QED BY <4>1, <4>2, <4>3
    <3> QED BY <1>1, <2>1, <3>1 DEF Acknowledged, ServerKept
  <2>2. CASE /\ page'.live /\ signal'.sock = signal.sock /\ signal.sock # 0
             /\ server.host = signal.sock
             /\ server.policy /\ server.gen = page'.gen
             /\ \A i \in DOMAIN up'[signal.sock] : up'[signal.sock][i].t = "pause"
    BY <2>2 DEF Acknowledged, ServerKept
  <2>3. CASE ~page'.live
    BY <2>3 DEF Acknowledged
  <2> QED BY <2>1, <2>2, <2>3
<1> QED BY <1>3, <1>4, <1>5, <1>6, <1>7 DEF ShareInv

LEMMA NewestTalks ==
  ASSUME NEW k \in Sockets, signal'.sock = k, server'.auth[k] # NoAuth,
         Talking(page'.gen, signal'.pending, server'.auth[k], up'[k], server'.down[k])
  PROVE  server'.open[k] /\ signal'.authed => NewestSocket'
BY DEF NewestSocket

(* The newest socket after a wish of the user.                             *)
LEMMA NewestWished ==
  ASSUME ShareInv, server' = server, signal'.sock = signal.sock,
         signal'.authed = signal.authed, signal'.opened = signal.opened,
         signal.sock # 0 /\ ~signal.authed => up'[signal.sock] = up[signal.sock],
         page'.gen # 0 /\ signal'.pending = 0 => page.gen = page'.gen /\ signal.pending = 0,
         signal.sock # 0 /\ signal.authed
           /\ Talking(page.gen, signal.pending, server.auth[signal.sock], up[signal.sock],
                      server.down[signal.sock])
           => Talking(page'.gen, signal'.pending, server.auth[signal.sock], up'[signal.sock],
                      server.down[signal.sock])
  PROVE  NewestSocket'
<1> DEFINE k == signal.sock
<1>1. NewestSocket /\ (k # 0 => k \in Sockets)
  BY InUse DEF ShareInv
<1>2. CASE k = 0
  BY <1>2 DEF NewestSocket
<1>3. CASE k # 0 /\ ~server.open[k]
  <2>1. Ended
    BY <1>1, <1>3 DEF NewestSocket
  <2>2. Ended'
    BY <2>1 DEF Ended
  <2>3. ~server'.open[signal'.sock]
    BY <1>3
  <2> QED BY <2>2, <2>3 DEF NewestSocket
<1>4. CASE k # 0 /\ server.open[k] /\ server.auth[k] = NoAuth
  <2>1. Asking
    BY <1>1, <1>4 DEF NewestSocket
  <2>2. ~signal.authed
    BY <2>1 DEF Asking
  <2>3. Asking'
    BY <1>4, <2>1, <2>2 DEF Asking
  <2>4. server'.auth[signal'.sock] = NoAuth /\ (server'.open[signal'.sock] <=> server.open[k])
    BY <1>4
  <2> QED BY <1>4, <2>3, <2>4 DEF NewestSocket
<1>5. CASE k # 0 /\ server.open[k] /\ server.auth[k] # NoAuth /\ ~signal.authed
  <2>1. Answered(page.gen, signal.pending, server.auth[k], up[k], server.down[k])
    BY <1>1, <1>5 DEF NewestSocket
  <2>2. up'[k] = up[k]
    BY <1>5
  <2>3. Answered(page.gen, signal.pending, server.auth[k], up[k], server.down[k])'
    BY <2>1, <2>2 DEF Answered
  <2>4. signal'.sock = k /\ server'.auth[k] # NoAuth /\ ~signal'.authed /\ k \in Sockets
    BY <1>1, <1>5
  <2>5. server'.open[k] => NewestSocket'
    BY <2>3, <2>4, NewestAnswered
  <2> QED BY <1>5, <2>5
<1>6. CASE k # 0 /\ server.open[k] /\ server.auth[k] # NoAuth /\ signal.authed
  <2>1. Talking(page.gen, signal.pending, server.auth[k], up[k], server.down[k])
    BY <1>1, <1>6 DEF NewestSocket
  <2>2. Talking(page'.gen, signal'.pending, server.auth[k], up'[k], server.down[k])
    BY <1>6, <2>1
  <2>3. Talking(page'.gen, signal'.pending, server'.auth[k], up'[k], server'.down[k])
    BY <2>2
  <2>4. signal'.sock = k /\ server'.auth[k] # NoAuth /\ k \in Sockets
    BY <1>1, <1>6
  <2>5. server'.open[k] /\ signal'.authed => NewestSocket'
    BY <2>3, <2>4, NewestTalks
  <2> QED BY <1>6, <2>5
<1> QED BY <1>2, <1>3, <1>4, <1>5, <1>6

(* What a wish of the user sends, when it can be sent.                     *)
LEMMA SaidIs ==
  ASSUME ShareTyped, NEW m \in Ups, Spoken(m), Say(<<m>>)
  PROVE  /\ Speaks
         /\ signal.sock # 0 /\ ~signal.authed => up'[signal.sock] = up[signal.sock]
         /\ signal.sock # 0 /\ signal.authed =>
               up'[signal.sock] = up[signal.sock] \o <<m>>
<1>1. signal.sock # 0 => signal.sock \in Sockets
  BY HostShareAssumption DEF ShareTyped, Signals, Sockets
<1>2. CASE signal.sock # 0 /\ signal.authed
  <2>1. up' = [up EXCEPT ![signal.sock] = @ \o <<m>>] /\ signal.sock \in Sockets
    BY <1>1, <1>2 DEF Say, Sending, Linked
  <2> QED BY <1>2, <2>1, SaidOne
<1>3. CASE ~(signal.sock # 0 /\ signal.authed)
  <2>1. up' = up
    BY <1>3 DEF Say, Linked
  <2> QED BY <1>3, <2>1, SameUp
<1> QED BY <1>2, <1>3

LEMMA StartSharingStep ==
  ASSUME ShareInv, StartSharing
  PROVE  ShareInv'
<1> DEFINE n == page.last + 1
           m == Msg("start", n, FALSE)
<1>1. /\ ShareTyped /\ Intent /\ Numbered /\ Recorded /\ Unread
      /\ page \in Pages /\ signal \in Signals
  BY DEF ShareInv, ShareTyped
<1>2. /\ page.gen = 0 /\ page.last < MaxShares /\ server' = server
      /\ page' = [page EXCEPT !.gen = n, !.last = n, !.paused = FALSE]
      /\ signal' = [signal EXCEPT !.only = FALSE, !.share = n, !.paused = FALSE, !.pending = n]
      /\ Say(<<m>>)
  BY <1>1 DEF StartSharing, Pages
<1>3. n \in Shares \ {0} /\ page.last < n /\ page.last <= n /\ n \in Nat /\ page.last \in Nat
      /\ n \in 1..MaxShares /\ 0 \in Shares /\ signal.last \in Nat
  BY <1>1, <1>2, HostShareAssumption DEF Pages, Shares, Signals
<1>4. m \in Ups /\ m.t = "start" /\ m.share = n
  BY <1>3 DEF Ups, Msg
<1> HIDE DEF n, m
<1>5. /\ page' \in Pages /\ page'.gen = n /\ page'.last = n /\ page'.live = page.live
      /\ page'.server = page.server
  BY <1>1, <1>2, <1>3 DEF Pages
<1>6. /\ signal' \in Signals /\ signal'.share = n /\ signal'.pending = n /\ ~signal'.only
      /\ signal'.authed = signal.authed /\ signal'.sock = signal.sock
      /\ signal'.last = signal.last /\ signal'.opened = signal.opened
      /\ signal'.stopped = signal.stopped
  BY <1>1, <1>2, <1>3 DEF Signals
<1>7. ~page.live /\ signal.pending = 0
  BY <1>1, <1>2 DEF Intent
<1>8. Spoken(m)
  BY <1>3, <1>4, <1>5, <1>7 DEF Spoken
<1>9. /\ Speaks
      /\ signal.sock # 0 /\ ~signal.authed => up'[signal.sock] = up[signal.sock]
      /\ signal.sock # 0 /\ signal.authed => up'[signal.sock] = up[signal.sock] \o <<m>>
  BY <1>1, <1>2, <1>4, <1>8, SaidIs
<1>10. ASSUME signal.sock # 0, signal.authed,
              Talking(page.gen, signal.pending, server.auth[signal.sock], up[signal.sock],
                      server.down[signal.sock])
       PROVE  Talking(page'.gen, signal'.pending, server.auth[signal.sock], up'[signal.sock],
                      server.down[signal.sock])
  <2> DEFINE k == signal.sock
             a == server.auth[k]
             q == up[k]
             d == server.down[k]
  <2>1. k \in Sockets /\ q \in Seq(Ups) /\ d \in Seq(Downs)
    BY <1>1, <1>10, InUse
  <2>8. server.auth[k] # NoAuth /\ server.open[k]
    BY <1>1, <1>10, <2>1 DEF ShareInv, NewestSocket, Ended, Asking
  <2>2. a \in Shares
    BY <1>1, <2>1, <2>8 DEF ShareTyped, Servers
  <2>3. \A i \in DOMAIN q : q[i].share < n
    <3> SUFFICES ASSUME NEW i \in DOMAIN q PROVE q[i].share < n
      OBVIOUS
    <3>1. q[i] \in Ups
      BY <2>1, LenProperties
    <3>2. q[i].share \in Nat /\ q[i].share <= page.last
      BY <1>1, <2>1, <3>1, UpIs DEF Numbered
    <3> QED BY <1>3, <3>2
  <2>4. \A i \in DOMAIN d : d[i].share < n
    <3> SUFFICES ASSUME NEW i \in DOMAIN d PROVE d[i].share < n
      OBVIOUS
    <3>1. d[i] \in Downs
      BY <2>1, LenProperties
    <3>2. d[i].share \in Nat /\ d[i].share <= page.last
      BY <1>1, <2>1, <3>1, DownIs DEF Numbered
    <3> QED BY <1>3, <3>2
  <2>5. Talking(0, 0, a, q, d)
    BY <1>2, <1>7, <1>10
  <2> HIDE DEF a, q, d, k
  <2>6. Talking(n, n, a, q \o <<m>>, d)
    BY <1>3, <1>4, <2>1, <2>2, <2>3, <2>4, <2>5, TalkStart
  <2>7. up'[k] = q \o <<m>>
    BY <1>9, <1>10 DEF k, q
  <2> QED BY <1>5, <1>6, <2>6, <2>7 DEF a, d, k
<1>11. NewestSocket'
  <2>1. n # 0
    BY <1>3
  <2> QED BY <1>2, <1>5, <1>6, <1>9, <1>10, <2>1, NewestWished
<1>12. Intent'
  <2>1. n # 0
    BY <1>3
  <2> QED BY <1>1, <1>5, <1>6, <1>7, <2>1 DEF Intent
<1>13. page.last <= page'.last /\ signal.last <= signal'.last
  BY <1>3, <1>5, <1>6
<1> QED BY <1>1, <1>2, <1>5, <1>6, <1>7, <1>9, <1>11, <1>12, <1>13, SameServer, ClientStep

LEMMA StopSharingStep ==
  ASSUME ShareInv, StopSharing
  PROVE  ShareInv'
<1> DEFINE g == page.gen
           m == Msg("stop", g, FALSE)
<1>1. /\ ShareTyped /\ Intent /\ Numbered /\ Recorded /\ Unread
      /\ page \in Pages /\ signal \in Signals
  BY DEF ShareInv, ShareTyped
<1>2. /\ g # 0 /\ server' = server
      /\ page' = [page EXCEPT !.gen = 0, !.server = 0, !.paused = FALSE, !.live = FALSE]
      /\ signal' = [Forgotten(signal) EXCEPT !.pending = 0]
      /\ Say(<<m>>)
  BY <1>1 DEF StopSharing, Intent
<1>3. g \in Shares \ {0} /\ g <= page.last /\ g \in 1..MaxShares /\ 0 \in Shares
      /\ signal.last \in Nat /\ page.last \in Nat /\ signal.pending \in {0, g}
  BY <1>1, <1>2, SharesTyped, HostShareAssumption DEF Shares, Signals
<1>4. m \in Ups /\ m.t = "stop" /\ m.share = g
  BY <1>3 DEF Ups, Msg
<1> HIDE DEF m
<1>5. /\ page' \in Pages /\ page'.gen = 0 /\ page'.last = page.last /\ ~page'.live
      /\ page'.server = 0
  BY <1>1, <1>2, <1>3 DEF Pages
<1>6. /\ signal' \in Signals /\ signal'.share = 0 /\ signal'.pending = 0 /\ signal'.only
      /\ signal'.authed = signal.authed /\ signal'.sock = signal.sock
      /\ signal'.last = signal.last /\ signal'.opened = signal.opened
      /\ signal'.stopped = signal.stopped
  BY <1>1, <1>2, <1>3 DEF Signals, Forgotten
<1>8. Spoken(m)
  BY <1>3, <1>4, <1>5 DEF Spoken
<1>9. /\ Speaks
      /\ signal.sock # 0 /\ ~signal.authed => up'[signal.sock] = up[signal.sock]
      /\ signal.sock # 0 /\ signal.authed => up'[signal.sock] = up[signal.sock] \o <<m>>
  BY <1>1, <1>2, <1>4, <1>8, SaidIs
<1>10. ASSUME signal.sock # 0, signal.authed,
              Talking(page.gen, signal.pending, server.auth[signal.sock], up[signal.sock],
                      server.down[signal.sock])
       PROVE  Talking(page'.gen, signal'.pending, server.auth[signal.sock], up'[signal.sock],
                      server.down[signal.sock])
  <2> DEFINE k == signal.sock
             a == server.auth[k]
             q == up[k]
             d == server.down[k]
  <2>1. k \in Sockets /\ q \in Seq(Ups) /\ d \in Seq(Downs)
    BY <1>1, <1>10, InUse
  <2>8. server.auth[k] # NoAuth /\ server.open[k]
    BY <1>1, <1>10, <2>1 DEF ShareInv, NewestSocket, Ended, Asking
  <2>2. a \in Shares
    BY <1>1, <2>1, <2>8 DEF ShareTyped, Servers
  <2>5. Talking(g, signal.pending, a, q, d)
    BY <1>10
  <2>7. up'[k] = q \o <<m>>
    BY <1>9, <1>10
  <2> HIDE DEF a, q, d, k, g
  <2>6. Talking(0, 0, a, q \o <<m>>, d)
    BY <1>3, <1>4, <2>1, <2>2, <2>5, TalkStop
  <2> QED BY <1>5, <1>6, <2>6, <2>7 DEF a, d, k
<1>11. NewestSocket'
  BY <1>2, <1>5, <1>6, <1>9, <1>10, NewestWished
<1>12. Intent'
  BY <1>1, <1>5, <1>6 DEF Intent
<1>13. page.last <= page'.last /\ signal.last <= signal'.last
  BY <1>3, <1>5, <1>6
<1> QED BY <1>1, <1>2, <1>5, <1>6, <1>9, <1>11, <1>12, <1>13, SameServer, ClientStep

LEMMA TogglePauseStep ==
  ASSUME ShareInv, TogglePause
  PROVE  ShareInv'
<1> DEFINE g == page.gen
           m == Msg("pause", signal.share, ~page.paused)
           b == ~page.paused \/ ~Linked
<1>1. /\ ShareTyped /\ Intent /\ Numbered /\ Recorded /\ Unread
      /\ page \in Pages /\ signal \in Signals
  BY DEF ShareInv, ShareTyped
<1>2. /\ page.live /\ server' = server
      /\ page' = [page EXCEPT !.paused = b]
      /\ signal' = [signal EXCEPT !.paused = b]
      /\ Say(<<m>>)
  BY DEF TogglePause
<1>14. b \in BOOLEAN
  OBVIOUS
<1>7. g # 0 /\ signal.pending = 0 /\ signal.share = g
  BY <1>1, <1>2 DEF Intent
<1>3. g \in Shares \ {0} /\ g <= page.last /\ g \in 1..MaxShares /\ 0 \in Shares
      /\ signal.last \in Nat /\ page.last \in Nat
  BY <1>1, <1>7, SharesTyped, HostShareAssumption DEF Shares, Signals
<1>4. m \in Ups /\ m.t = "pause" /\ m.share = g
  BY <1>1, <1>3, <1>7 DEF Ups, Msg, Pages
<1> HIDE DEF m, b
<1>5. /\ page' \in Pages /\ page'.gen = g /\ page'.last = page.last /\ page'.live = page.live
      /\ page'.server = page.server
  BY <1>1, <1>2, <1>14 DEF Pages
<1>6. /\ signal' \in Signals /\ signal'.share = signal.share
      /\ signal'.pending = signal.pending /\ signal'.only = signal.only
      /\ signal'.authed = signal.authed /\ signal'.sock = signal.sock
      /\ signal'.last = signal.last /\ signal'.opened = signal.opened
      /\ signal'.stopped = signal.stopped
  BY <1>1, <1>2, <1>14 DEF Signals
<1>8. Spoken(m)
  BY <1>3, <1>4, <1>5 DEF Spoken
<1>9. /\ Speaks
      /\ signal.sock # 0 /\ ~signal.authed => up'[signal.sock] = up[signal.sock]
      /\ signal.sock # 0 /\ signal.authed => up'[signal.sock] = up[signal.sock] \o <<m>>
  BY <1>1, <1>2, <1>4, <1>8, SaidIs
<1>10. ASSUME signal.sock # 0, signal.authed,
              Talking(page.gen, signal.pending, server.auth[signal.sock], up[signal.sock],
                      server.down[signal.sock])
       PROVE  Talking(page'.gen, signal'.pending, server.auth[signal.sock], up'[signal.sock],
                      server.down[signal.sock])
  <2> DEFINE k == signal.sock
             a == server.auth[k]
             q == up[k]
             d == server.down[k]
  <2>1. k \in Sockets /\ q \in Seq(Ups) /\ d \in Seq(Downs)
    BY <1>1, <1>10, InUse
  <2>8. server.auth[k] # NoAuth /\ server.open[k]
    BY <1>1, <1>10, <2>1 DEF ShareInv, NewestSocket, Ended, Asking
  <2>2. a \in Shares
    BY <1>1, <2>1, <2>8 DEF ShareTyped, Servers
  <2>5. Talking(g, 0, a, q, d)
    BY <1>7, <1>10
  <2>7. up'[k] = q \o <<m>>
    BY <1>9, <1>10
  <2> HIDE DEF a, q, d, k, g
  <2>6. Talking(g, 0, a, q \o <<m>>, d)
    BY <1>3, <1>4, <2>1, <2>2, <2>5, TalkPause
  <2> QED BY <1>5, <1>6, <1>7, <2>6, <2>7 DEF a, d, k
<1>11. NewestSocket'
  BY <1>2, <1>5, <1>6, <1>7, <1>9, <1>10, NewestWished
<1>12. Intent'
  BY <1>1, <1>5, <1>6 DEF Intent
<1>13. page.last <= page'.last /\ signal.last <= signal'.last
  BY <1>3, <1>5, <1>6
<1> QED BY <1>1, <1>2, <1>5, <1>6, <1>9, <1>11, <1>12, <1>13, SameServer, ClientStep

-----------------------------------------------------------------------------
(* The socket's own steps on the page's side.                              *)

LEMMA ConnectStep ==
  ASSUME ShareInv, Connect
  PROVE  ShareInv'
<1> DEFINE n == signal.last + 1
<1>1. /\ ShareTyped /\ Intent /\ Numbered /\ Recorded /\ Unread
      /\ page \in Pages /\ signal \in Signals
  BY DEF ShareInv, ShareTyped
<1>2. /\ signal.sock = 0 /\ ~signal.authed /\ signal.last < MaxConnections
      /\ page' = page /\ up' = up /\ server' = server
      /\ signal' = [signal EXCEPT !.sock = n, !.last = n, !.opened = FALSE]
  BY <1>1 DEF Connect, Intent, Signals
<1>3. n \in Sockets /\ n # 0 /\ n > signal.last /\ signal.last <= n /\ n \in 0..MaxConnections
      /\ page.last \in Nat
  BY <1>1, <1>2, SharesTyped, HostShareAssumption DEF Signals, Sockets
<1> HIDE DEF n
<1>4. /\ signal' \in Signals /\ signal'.sock = n /\ signal'.last = n /\ ~signal'.opened
      /\ signal'.share = signal.share /\ signal'.only = signal.only
      /\ signal'.pending = signal.pending /\ signal'.authed = signal.authed
      /\ signal'.stopped = signal.stopped
  BY <1>1, <1>2, <1>3 DEF Signals
<1>5. Intent'
  BY <1>1, <1>2, <1>4 DEF Intent
<1>6. up[n] = <<>> /\ server.down[n] = <<>> /\ server.auth[n] = NoAuth /\ server.open[n]
  BY <1>1, <1>3 DEF Unread
<1>7. NewestSocket'
  <2>1. Asking'
    BY <1>2, <1>4, <1>6 DEF Asking
  <2>2. server'.auth[signal'.sock] = NoAuth /\ server'.open[signal'.sock]
    BY <1>2, <1>4, <1>6
  <2> QED BY <2>1, <2>2 DEF NewestSocket
<1>8. ServerKept /\ Speaks
  BY <1>1, <1>2, SameServer, SameUp
<1>9. page' \in Pages /\ page.last <= page'.last /\ signal.last <= signal'.last
      /\ page'.live = page.live /\ page'.gen = page.gen
      /\ signal'.sock = signal.last + 1
  BY <1>1, <1>2, <1>3, <1>4 DEF n
<1> QED BY <1>2, <1>4, <1>5, <1>7, <1>8, <1>9, ClientStep

LEMMA OpenStep ==
  ASSUME ShareInv, Open
  PROVE  ShareInv'
<1> DEFINE k == signal.sock
           m == Auth(signal.share, signal.only, signal.paused)
<1>1. /\ ShareTyped /\ Intent /\ Numbered /\ Recorded /\ Unread /\ NewestSocket
      /\ page \in Pages /\ signal \in Signals
  BY DEF ShareInv, ShareTyped
<1>2. /\ signal.sock # 0 /\ ~signal.opened /\ ~signal.authed
      /\ page' = page /\ server' = server
      /\ signal' = [signal EXCEPT !.opened = TRUE]
      /\ up' = [up EXCEPT ![k] = @ \o <<m>>]
  BY <1>1 DEF Open, Intent, Sending
<1>3. k \in Sockets /\ page.last \in Nat /\ signal.last \in Nat
      /\ up[k] \in Seq(Ups)
  BY <1>1, <1>2, InUse, SharesTyped
<1>4. m \in Ups /\ m.t = "auth" /\ m.share = signal.share /\ (m.only <=> signal.only)
  BY <1>1 DEF Ups, Auth, Signals
<1> HIDE DEF m
<1>5. /\ signal' \in Signals /\ signal'.sock = signal.sock /\ signal'.last = signal.last
      /\ signal'.opened
      /\ signal'.share = signal.share /\ signal'.only = signal.only
      /\ signal'.pending = signal.pending /\ signal'.authed = signal.authed
      /\ signal'.stopped = signal.stopped
  BY <1>1, <1>2 DEF Signals
<1>6. Intent'
  BY <1>1, <1>2, <1>5 DEF Intent
<1>7. Spoken(m)
  BY <1>1, <1>2, <1>4, <1>5, SharesTyped DEF Spoken, Intent
<1>8. Speaks /\ up'[k] = up[k] \o <<m>>
  BY <1>1, <1>2, <1>3, <1>4, <1>7, SaidOne
<1>9. NewestSocket'
  <2>1. CASE ~server.open[k]
    <3>1. Ended
      BY <1>1, <1>2, <2>1 DEF NewestSocket
    <3>2. Ended'
      BY <1>2, <1>5, <3>1 DEF Ended
    <3>3. ~server'.open[signal'.sock]
      BY <1>2, <1>5, <2>1
    <3> QED BY <3>2, <3>3 DEF NewestSocket
  <2>2. CASE server.open[k] /\ server.auth[k] = NoAuth
    <3>1. up[k] = <<>> /\ server.down[k] = <<>>
      BY <1>1, <1>2, <2>2 DEF NewestSocket, Asking
    <3>2. /\ up'[k] = <<>> \o <<m>> /\ Len(<<>> \o <<m>>) = 1
          /\ (<<>> \o <<m>>)[1] = m
      BY <1>8, <3>1
    <3>3. Asking'
      BY <1>2, <1>4, <1>5, <3>1, <3>2 DEF Asking
    <3>4. server'.auth[signal'.sock] = NoAuth /\ (server'.open[signal'.sock] <=> server.open[k])
      BY <1>2, <1>5, <2>2
    <3> QED BY <2>2, <3>3, <3>4 DEF NewestSocket
  <2>3. CASE server.open[k] /\ server.auth[k] # NoAuth
    BY <1>1, <1>2, <2>3 DEF NewestSocket, Answered
  <2> QED BY <2>1, <2>2, <2>3
<1>10. ServerKept
  BY <1>1, <1>2, SameServer
<1>11. page' \in Pages /\ page.last <= page'.last /\ signal.last <= signal'.last
       /\ page'.live = page.live /\ page'.gen = page.gen
  BY <1>1, <1>2, <1>3, <1>5
<1> QED BY <1>5, <1>6, <1>8, <1>9, <1>10, <1>11, ClientStep

(* The page lets go of its socket.                                         *)
LEMMA UnlinkedStep ==
  ASSUME ShareInv, signal.sock # 0, page' = page, signal' = Unlinked(signal), ServerKept, Speaks,
         \/ signal.authed
         \/ ~server.open[signal.sock]
         \/ up'[signal.sock] = <<CloseMsg>>
  PROVE  ShareInv'
<1>1. /\ ShareTyped /\ Intent /\ page \in Pages /\ signal \in Signals
  BY DEF ShareInv, ShareTyped
<1>2. page.last \in Nat /\ signal.last \in Nat /\ 0 \in 0..MaxConnections
  BY <1>1, SharesTyped, HostShareAssumption DEF Signals
<1>3. /\ signal' \in Signals /\ signal'.sock = 0 /\ signal'.last = signal.last
      /\ ~signal'.authed
      /\ signal'.share = signal.share /\ signal'.only = signal.only
      /\ signal'.pending = signal.pending
      /\ signal'.stopped = signal.stopped
  BY <1>1, <1>2 DEF Signals, Unlinked
<1>4. Intent'
  BY <1>1, <1>3 DEF Intent
<1>5. NewestSocket'
  BY <1>3 DEF NewestSocket
<1>6. page' \in Pages /\ page.last <= page'.last /\ signal.last <= signal'.last
      /\ page'.live = page.live /\ page'.gen = page.gen
  BY <1>1, <1>2, <1>3
<1> QED BY <1>3, <1>4, <1>5, <1>6, ClientStep

LEMMA ClosingSpoken ==
  ASSUME ShareTyped, Intent, page' = page
  PROVE  Spoken(CloseMsg)
<1>1. 0 <= page.last /\ CloseMsg.share = 0 /\ CloseMsg.t = "close"
  BY SharesTyped, ClosingMsgs
<1> QED BY <1>1 DEF Spoken

LEMMA TimeOutStep ==
  ASSUME ShareInv, TimeOut
  PROVE  ShareInv'
<1>1. ShareTyped /\ Intent /\ Recorded /\ Unread
  BY DEF ShareInv
<1>2. /\ signal.sock # 0 /\ ~server.open[signal.sock] /\ page' = page /\ server' = server
      /\ signal' = Unlinked(signal)
      /\ up' = [up EXCEPT ![signal.sock] = @ \o <<CloseMsg>>]
  BY DEF TimeOut, Sending
<1>3. signal.sock \in Sockets
  BY <1>1, <1>2, InUse
<1>4. Speaks /\ ServerKept
  BY <1>1, <1>2, <1>3, ClosingMsgs, ClosingSpoken, SaidOne, SameServer
<1> QED BY <1>2, <1>4, UnlinkedStep

LEMMA RetireStep ==
  ASSUME ShareInv, Retire
  PROVE  ShareInv'
<1>1. ShareTyped /\ Intent /\ Recorded /\ Unread
  BY DEF ShareInv
<1>2. /\ signal.sock # 0 /\ signal.authed /\ page' = page /\ server' = server
      /\ signal' = Unlinked(signal)
      /\ up' = [up EXCEPT ![signal.sock] = @ \o <<CloseMsg>>]
  BY DEF Retire, Sending, Linked
<1>3. signal.sock \in Sockets
  BY <1>1, <1>2, InUse
<1>4. Speaks /\ ServerKept
  BY <1>1, <1>2, <1>3, ClosingMsgs, ClosingSpoken, SaidOne, SameServer
<1> QED BY <1>2, <1>4, UnlinkedStep

LEMMA BreakStep ==
  ASSUME ShareInv, Break
  PROVE  ShareInv'
<1>1. ShareTyped /\ Intent /\ Recorded /\ Unread
  BY DEF ShareInv
<1>2. /\ signal.sock # 0 /\ page' = page /\ server' = server
      /\ signal' = Unlinked(signal)
      /\ up' = [up EXCEPT ![signal.sock] = <<CloseMsg>>]
  BY DEF Break
<1>3. signal.sock \in Sockets /\ up \in [Sockets -> Seq(Ups)] /\ CloseMsg \in Ups
  BY <1>1, <1>2, InUse, ClosingMsgs DEF ShareTyped
<1>4. /\ <<CloseMsg>> \in Seq(Ups)
      /\ \A i \in DOMAIN <<CloseMsg>> : <<CloseMsg>>[i] = CloseMsg
  BY <1>3
<1>5. up' \in [Sockets -> Seq(Ups)] /\ up'[signal.sock] = <<CloseMsg>>
      /\ \A j \in Sockets : j # signal.sock => up'[j] = up[j]
  BY <1>2, <1>3, <1>4
<1>6. Spoken(CloseMsg)
  BY <1>1, <1>2, ClosingSpoken
<1>7. ASSUME NEW j \in Sockets, NEW i \in DOMAIN up'[j]
      PROVE  (\E h \in DOMAIN up[j] : up'[j][i] = up[j][h]) \/ Spoken(up'[j][i])
  <2>1. CASE j = signal.sock
    <3>1. up'[j][i] = CloseMsg
      BY <1>4, <1>5, <1>7, <2>1
    <3> QED BY <1>6, <3>1
  <2>2. CASE j # signal.sock
    BY <1>5, <1>7, <2>2
  <2> QED BY <2>1, <2>2
<1>8. Speaks /\ ServerKept
  BY <1>1, <1>2, <1>5, <1>7, SameServer DEF Speaks
<1> QED BY <1>2, <1>5, <1>8, UnlinkedStep

-----------------------------------------------------------------------------
(* What the page hears.                                                    *)

Heard == [server EXCEPT !.down[signal.sock] = Tail(@)]

LEMMA HeardIs ==
  ASSUME ShareTyped, signal.sock \in Sockets, server.down[signal.sock] # <<>>, server' = Heard
  PROVE  ServerKept /\ server'.down[signal.sock] = Tail(server.down[signal.sock])
<1> DEFINE k == signal.sock
<1>1. server \in Servers /\ server.down[k] \in Seq(Downs)
  BY DEF ShareTyped, Servers
<1>2. Tail(server.down[k]) \in Seq(Downs)
  BY <1>1, Taken
<1>3. /\ server' \in Servers /\ server'.host = server.host /\ server'.auth = server.auth
      /\ server'.open = server.open /\ server'.gen = server.gen
      /\ server'.policy = server.policy /\ server'.paused = server.paused
      /\ server'.told = server.told
      /\ server'.down[k] = Tail(server.down[k])
      /\ \A j \in Sockets : j # k => server'.down[j] = server.down[j]
  BY <1>1, <1>2 DEF Heard, Servers
<1>4. ASSUME NEW j \in Sockets, NEW i \in DOMAIN server'.down[j]
      PROVE  \E h \in DOMAIN server.down[j] : server'.down[j][i] = server.down[j][h]
  <2>1. CASE j = k
    <3>1. i \in DOMAIN Tail(server.down[k]) /\ server'.down[j][i] = Tail(server.down[k])[i]
      BY <1>3, <1>4, <2>1
    <3>2. i + 1 \in DOMAIN server.down[k]
          /\ Tail(server.down[k])[i] = server.down[k][i + 1]
      BY <1>1, <3>1, AmongTaken
    <3> QED BY <2>1, <3>1, <3>2
  <2>2. CASE j # k
    BY <1>3, <1>4, <2>2
  <2> QED BY <2>1, <2>2
<1> QED BY <1>3, <1>4 DEF ServerKept

(* Where the newest socket can be when it has something to hear.           *)
LEMMA HeardWhere ==
  ASSUME ShareInv, signal.sock # 0, server.down[signal.sock] # <<>>
  PROVE  LET k == signal.sock
             m == server.down[k][1]
         IN  /\ k \in Sockets /\ m \in Downs /\ 1 \in DOMAIN server.down[k]
             /\ Head(server.down[k]) = m
             /\ up[k] \in Seq(Ups) /\ server.down[k] \in Seq(Downs)
             /\ m.share <= page.last
             /\ ~server.open[k] => m.t = "close"
             /\ server.open[k] => server.auth[k] \in Shares /\ server.auth[k] # NoAuth
                                  /\ server.host = k
             /\ server.open[k] /\ ~signal.authed =>
                   Answered(page.gen, signal.pending, server.auth[k], up[k], server.down[k])
             /\ server.open[k] /\ signal.authed =>
                   Talking(page.gen, signal.pending, server.auth[k], up[k], server.down[k])
<1> DEFINE k == signal.sock
<1>1. ShareTyped /\ Numbered /\ Recorded /\ Unread /\ NewestSocket /\ server \in Servers
  BY DEF ShareInv, ShareTyped
<1>2. k \in Sockets /\ up[k] \in Seq(Ups) /\ server.down[k] \in Seq(Downs)
  BY <1>1, InUse
<1>3. server.down[k][1] \in Downs /\ 1 \in DOMAIN server.down[k]
      /\ Head(server.down[k]) = server.down[k][1]
  BY <1>2, Taken
<1>4. server.down[k][1].share <= page.last
  BY <1>1, <1>2, <1>3 DEF Numbered
<1>5. ~server.open[k] => server.down[k][1].t = "close"
  BY <1>1, <1>3 DEF NewestSocket, Ended
<1>6. server.open[k] => server.auth[k] # NoAuth
  BY <1>1 DEF NewestSocket, Asking
<1>7. server.open[k] => server.auth[k] \in Shares /\ server.host = k
  BY <1>1, <1>2, <1>6 DEF Servers, Recorded
<1>8. server.open[k] /\ ~signal.authed =>
         Answered(page.gen, signal.pending, server.auth[k], up[k], server.down[k])
  BY <1>1, <1>6 DEF NewestSocket
<1>9. server.open[k] /\ signal.authed =>
         Talking(page.gen, signal.pending, server.auth[k], up[k], server.down[k])
  BY <1>1, <1>6 DEF NewestSocket
<1> QED BY <1>2, <1>3, <1>4, <1>5, <1>6, <1>7, <1>8, <1>9

LEMMA ClosedStep ==
  ASSUME ShareInv, signal.sock # 0, server.down[signal.sock] # <<>>, server' = Heard,
         ~server.open[signal.sock],
         NEW m, m = server.down[signal.sock][1], Closed(m)
  PROVE  ShareInv'
<1>1. ShareTyped /\ Intent /\ signal \in Signals
  BY DEF ShareInv, ShareTyped
<1>2. signal.sock \in Sockets /\ m.t = "close"
  BY HeardWhere
<1>3. ~signal.stopped
  BY <1>1 DEF Intent
<1>4. signal' = [Unlinked(signal) EXCEPT !.stopped = FALSE] /\ page' = page /\ up' = up
  BY <1>2 DEF Closed
<1>5. signal' = Unlinked(signal)
  BY <1>1, <1>3, <1>4 DEF Unlinked, Signals
<1>6. ServerKept /\ Speaks
  BY <1>1, <1>2, <1>4, HeardIs, SameUp
<1> QED BY <1>4, <1>5, <1>6, UnlinkedStep

(* The session of the newest socket goes on talking.                       *)
LEMMA HeardStep ==
  ASSUME ShareInv, signal.sock # 0, server.down[signal.sock] # <<>>, server' = Heard,
         server.auth[signal.sock] # NoAuth,
         page' \in Pages, page'.last = page.last,
         signal' \in Signals, signal'.sock = signal.sock, signal'.last = signal.last,
         Speaks, Intent',
         page'.live => \/ page.live /\ page'.gen = page.gen
                       \/ /\ server.host = signal.sock
                          /\ server.policy /\ server.gen = page'.gen
                          /\ \A i \in DOMAIN up'[signal.sock] :
                                up'[signal.sock][i].t = "pause",
         Talking(page'.gen, signal'.pending, server.auth[signal.sock], up'[signal.sock],
                 Tail(server.down[signal.sock]))
  PROVE  server.open[signal.sock] /\ signal'.authed => ShareInv'
<1> SUFFICES ASSUME server.open[signal.sock] /\ signal'.authed
             PROVE  ShareInv'
  OBVIOUS
<1>1. ShareTyped /\ Intent
  BY DEF ShareInv
<1>2. signal.sock \in Sockets
  BY HeardWhere
<1>3. ServerKept /\ server'.down[signal.sock] = Tail(server.down[signal.sock])
  BY <1>1, <1>2, HeardIs
<1>4. server'.auth[signal.sock] = server.auth[signal.sock] /\ server'.open = server.open
  BY <1>3 DEF ServerKept
<1>5. Talking(page'.gen, signal'.pending, server'.auth[signal.sock], up'[signal.sock],
              server'.down[signal.sock])
  BY <1>3, <1>4
<1>6. NewestSocket'
  <2>1. server'.auth[signal.sock] # NoAuth
    BY <1>4
  <2>2. server'.open[signal.sock] /\ signal'.authed => NewestSocket'
    BY <1>2, <1>5, <2>1, NewestTalks
  <2> QED BY <1>4, <2>2
<1>7. page.last <= page'.last /\ signal.last <= signal'.last
  <2>1. page.last \in Nat /\ signal.last \in Nat
    BY <1>1, SharesTyped, HostShareAssumption DEF ShareTyped, Signals
  <2> QED BY <2>1
<1> QED BY <1>3, <1>6, <1>7, ClientStep

(* What the client answers to the share the server says it has, and the    *)
(* start that stays unanswered.                                            *)
LEMMA AnswerIs ==
  ASSUME ShareTyped, Intent, NEW a \in Shares, a <= page.last,
         page.gen # 0 /\ a # page.gen => signal.pending = page.gen
  PROVE  LET g == page.gen
             x == Msg("stop", a, FALSE)
             y == Msg("start", g, signal.paused)
         IN  /\ a # 0 => x \in Ups
             /\ g # 0 => y \in Ups
             /\ x.t = "stop" /\ x.share = a /\ y.t = "start" /\ y.share = g
             /\ Reconciled(a) = IF g = 0 THEN IF a # 0 THEN <<x>> ELSE <<>>
                                ELSE IF a = g THEN <<>>
                                ELSE IF a # 0 THEN <<x>> \o <<y>> ELSE <<>> \o <<y>>
             /\ StillPending(a) = IF g # 0 /\ a # g THEN g ELSE 0
<1>1. /\ page.gen \in Shares /\ signal.share = page.gen /\ (signal.only <=> page.gen = 0)
      /\ signal.paused \in BOOLEAN
  BY SharesTyped DEF ShareTyped, Signals, Intent
<1>2. a # 0 => Msg("stop", a, FALSE) \in Ups
  BY HostShareAssumption DEF Msg, Ups, Shares
<1>3. page.gen # 0 => Msg("start", page.gen, signal.paused) \in Ups
  BY <1>1, HostShareAssumption DEF Msg, Ups, Shares
<1>4. StillPending(a) = IF page.gen # 0 /\ a # page.gen THEN page.gen ELSE 0
  BY <1>1 DEF StillPending
<1>7. /\ Msg("stop", a, FALSE).t = "stop" /\ Msg("stop", a, FALSE).share = a
      /\ Msg("start", page.gen, signal.paused).t = "start"
      /\ Msg("start", page.gen, signal.paused).share = page.gen
  BY DEF Msg
<1>5. CASE page.gen = 0
  BY <1>1, <1>2, <1>4, <1>5, <1>7 DEF Reconciled
<1>6. CASE page.gen # 0
  BY <1>1, <1>2, <1>3, <1>4, <1>6, <1>7 DEF Reconciled
<1> QED BY <1>5, <1>6

(* Two messages, or none, sent at once.                                    *)
LEMMA SaidMany ==
  ASSUME ShareTyped, NEW k \in Sockets, k = signal.sock, up[k] = <<>>,
         NEW q \in Seq(Ups), \A i \in DOMAIN q : Spoken(q[i]), up' = [up EXCEPT ![k] = @ \o q]
  PROVE  Speaks /\ up'[k] = q
<1>1. up \in [Sockets -> Seq(Ups)] /\ <<>> \o q = q
  BY EmptyIs DEF ShareTyped
<1>2. up' \in [Sockets -> Seq(Ups)] /\ up'[k] = q
      /\ \A j \in Sockets : j # k => up'[j] = up[j]
  BY <1>1
<1>3. ASSUME NEW j \in Sockets, NEW i \in DOMAIN up'[j]
      PROVE  (\E h \in DOMAIN up[j] : up'[j][i] = up[j][h]) \/ Spoken(up'[j][i])
  <2>1. CASE j # k
    BY <1>2, <1>3, <2>1
  <2>2. CASE j = k
    BY <1>2, <1>3, <2>2
  <2> QED BY <2>1, <2>2
<1> QED BY <1>2, <1>3 DEF Speaks

LEMMA PairIs ==
  ASSUME NEW x \in Ups, NEW y \in Ups
  PROVE  /\ <<x>> \in Seq(Ups) /\ \A i \in DOMAIN <<x>> : <<x>>[i] = x
         /\ <<x>> \o <<y>> \in Seq(Ups)
         /\ \A i \in DOMAIN (<<x>> \o <<y>>) :
               (<<x>> \o <<y>>)[i] = x \/ (<<x>> \o <<y>>)[i] = y
<1>1. <<x>> \in Seq(Ups) /\ \A i \in DOMAIN <<x>> : <<x>>[i] = x
  OBVIOUS
<1> DEFINE s == <<x>>
<1>2. s \in Seq(Ups)
  BY <1>1
<1> HIDE DEF s
<1>3. /\ s \o <<y>> \in Seq(Ups)
      /\ \A i \in DOMAIN (s \o <<y>>) :
            (i \in DOMAIN s /\ (s \o <<y>>)[i] = s[i]) \/ (s \o <<y>>)[i] = y
  BY <1>2, Sent, AmongSent
<1>4. \A i \in DOMAIN s : s[i] = x
  BY <1>1 DEF s
<1>5. \A i \in DOMAIN (s \o <<y>>) : (s \o <<y>>)[i] = x \/ (s \o <<y>>)[i] = y
  BY <1>3, <1>4
<1> QED BY <1>1, <1>3, <1>5 DEF s

Reply(g, a, x, y) ==
  IF g = 0 THEN IF a # 0 THEN <<x>> ELSE <<>>
  ELSE IF a = g THEN <<>>
  ELSE IF a # 0 THEN <<x>> \o <<y>> ELSE <<>> \o <<y>>

LEMMA AnswerTalks ==
  ASSUME NEW g \in Shares, NEW p \in {0, g}, NEW a \in Shares,
         NEW q \in Seq(Ups), NEW d \in Seq(Downs), Answered(g, p, a, q, d),
         NEW x, x.t = "stop", x.share = a, a # 0 => x \in Ups,
         NEW y, y.t = "start", y.share = g, g # 0 => y \in Ups,
         NEW r, r = Reply(g, a, x, y),
         NEW n, n = IF g # 0 /\ a # g THEN g ELSE 0
  PROVE  /\ r \in Seq(Ups) /\ Talking(g, n, a, r, Tail(d))
         /\ \A i \in DOMAIN r : a # g /\ (r[i] = x \/ r[i] = y)
<1>1. /\ g = 0 /\ a # 0 => Talking(0, 0, a, <<x>>, Tail(d))
      /\ g = 0 /\ a = 0 => Talking(0, 0, a, <<>>, Tail(d))
      /\ g # 0 /\ a = g => Talking(g, 0, a, <<>>, Tail(d))
      /\ g # 0 /\ a # g /\ a # 0 => Talking(g, g, a, <<x>> \o <<y>>, Tail(d))
      /\ g # 0 /\ a = 0 => Talking(g, g, a, <<y>>, Tail(d))
  BY HearAuthed
<1>2. CASE g = 0 /\ a # 0
  <2>1. r = <<x>> /\ x \in Ups /\ n = 0
    BY <1>2 DEF Reply
  <2>2. r \in Seq(Ups) /\ \A i \in DOMAIN r : r[i] = x
    BY <2>1, PairIs
  <2>3. Talking(g, n, a, r, Tail(d))
    BY <1>1, <1>2, <2>1
  <2> QED BY <1>2, <2>2, <2>3
<1>3. CASE g = 0 /\ a = 0
  <2>1. r = <<>> /\ n = 0
    BY <1>3 DEF Reply
  <2>2. Talking(g, n, a, r, Tail(d))
    BY <1>1, <1>3, <2>1
  <2> QED BY <2>1, <2>2, EmptyIs
<1>4. CASE g # 0 /\ a = g
  <2>1. r = <<>> /\ n = 0
    BY <1>4 DEF Reply
  <2>2. Talking(g, n, a, r, Tail(d))
    BY <1>1, <1>4, <2>1
  <2> QED BY <2>1, <2>2, EmptyIs
<1>5. CASE g # 0 /\ a # g /\ a # 0
  <2>1. r = <<x>> \o <<y>> /\ x \in Ups /\ y \in Ups /\ n = g
    BY <1>5 DEF Reply
  <2>2. r \in Seq(Ups) /\ \A i \in DOMAIN r : r[i] = x \/ r[i] = y
    BY <2>1, PairIs
  <2>3. Talking(g, n, a, r, Tail(d))
    BY <1>1, <1>5, <2>1
  <2> QED BY <1>5, <2>2, <2>3
<1>6. CASE g # 0 /\ a = 0
  <2>1. r = <<>> \o <<y>> /\ y \in Ups /\ n = g
    BY <1>6 DEF Reply
  <2>2. <<y>> \in Seq(Ups) /\ \A i \in DOMAIN <<y>> : <<y>>[i] = y
    BY <2>1, PairIs
  <2>3. r = <<y>>
    BY <2>1, <2>2, EmptyIs
  <2>4. Talking(g, n, a, r, Tail(d))
    BY <1>1, <1>6, <2>1, <2>3
  <2> QED BY <1>6, <2>2, <2>3, <2>4
<1> QED BY <1>2, <1>3, <1>4, <1>5, <1>6

LEMMA HearAuthenticatedStep ==
  ASSUME ShareInv, signal.sock # 0, server.down[signal.sock] # <<>>, server' = Heard,
         ~signal.authed,
         NEW m, m = server.down[signal.sock][1], HearAuthenticated(m)
  PROVE  server.open[signal.sock] => ShareInv'
<1> SUFFICES ASSUME server.open[signal.sock]
             PROVE  ShareInv'
  OBVIOUS
<1> DEFINE k == signal.sock
           g == page.gen
           p == signal.pending
           q == up[k]
           d == server.down[k]
           x == Msg("stop", m.share, FALSE)
           y == Msg("start", g, signal.paused)
           r == Reconciled(m.share)
<1>1. /\ ShareTyped /\ Intent /\ Recorded /\ page \in Pages /\ signal \in Signals
      /\ Acknowledged
  BY DEF ShareInv, ShareTyped
<1>2. /\ k \in Sockets /\ m \in Downs /\ q \in Seq(Ups) /\ d \in Seq(Downs)
      /\ m.share <= page.last
      /\ server.auth[k] \in Shares /\ server.auth[k] # NoAuth /\ server.host = k
      /\ Answered(g, p, server.auth[k], q, d)
  BY HeardWhere
<1> DEFINE a == m.share
<1>3. server.auth[k] = a /\ signal.opened /\ q = <<>> /\ (g # 0 /\ p = 0 => a = g)
  BY <1>2 DEF Answered
<1>4. a \in Shares /\ g \in Shares /\ p \in {0, g} /\ page.last \in Nat /\ g <= page.last
      /\ \A n \in Shares : n \in Nat
  BY <1>1, <1>2, <1>3, SharesTyped
<1>5. /\ a # 0 => x \in Ups
      /\ g # 0 => y \in Ups
      /\ x.t = "stop" /\ x.share = a /\ y.t = "start" /\ y.share = g
      /\ r = IF g = 0 THEN IF a # 0 THEN <<x>> ELSE <<>>
             ELSE IF a = g THEN <<>>
             ELSE IF a # 0 THEN <<x>> \o <<y>> ELSE <<>> \o <<y>>
      /\ StillPending(a) = IF g # 0 /\ a # g THEN g ELSE 0
  BY <1>1, <1>2, <1>3, <1>4, AnswerIs
<1>6. /\ signal' = [signal EXCEPT !.authed = TRUE, !.pending = StillPending(a)]
      /\ up' = [up EXCEPT ![k] = @ \o r]
      /\ page' = [page EXCEPT !.server = a, !.live = @ \/ (g # 0 /\ a = g)]
  BY DEF HearAuthenticated, Sending
<1>7. StillPending(a) \in Shares
  BY <1>4, <1>5, HostShareAssumption DEF Shares
<1>8. /\ signal' \in Signals /\ signal'.sock = k /\ signal'.last = signal.last
      /\ signal'.authed /\ signal'.opened = signal.opened
      /\ signal'.pending = StillPending(a) /\ signal'.share = signal.share
      /\ signal'.only = signal.only /\ signal'.stopped = signal.stopped
  BY <1>1, <1>6, <1>7 DEF Signals
<1>9. /\ page' \in Pages /\ page'.gen = g /\ page'.last = page.last /\ page'.server = a
      /\ page'.live <=> page.live \/ (g # 0 /\ a = g)
  BY <1>1, <1>4, <1>6 DEF Pages
<1> HIDE DEF x, y, r, a
<1>10. Intent'
  BY <1>1, <1>3, <1>5, <1>8, <1>9 DEF Intent
<1>11. a = server.auth[k] /\ d # <<>>
  BY <1>3
<1> HIDE DEF q, d
<1>12. Answered(g, p, a, q, d)
  BY <1>2, <1>11
<1>20. q \in Seq(Ups) /\ d \in Seq(Downs)
  BY <1>2 DEF q, d
<1>14. /\ r \in Seq(Ups) /\ Talking(g, StillPending(a), a, r, Tail(d))
       /\ \A i \in DOMAIN r : a # g /\ (r[i] = x \/ r[i] = y)
  <2> DEFINE n == StillPending(a)
  <2> HIDE DEF g, p, k
  <2>1. g \in Shares /\ p \in {0, g} /\ a \in Shares
    BY <1>4
  <2>2. x.t = "stop" /\ x.share = a /\ (a # 0 => x \in Ups)
    BY <1>5
  <2>3. y.t = "start" /\ y.share = g /\ (g # 0 => y \in Ups)
    BY <1>5
  <2>4. r = Reply(g, a, x, y)
    BY <1>5 DEF Reply
  <2>5. n = IF g # 0 /\ a # g THEN g ELSE 0
    BY <1>5
  <2> HIDE DEF n
  <2>6. /\ r \in Seq(Ups) /\ Talking(g, n, a, r, Tail(d))
        /\ \A i \in DOMAIN r : a # g /\ (r[i] = x \/ r[i] = y)
    BY <1>12, <1>20, <2>1, <2>2, <2>3, <2>4, <2>5, AnswerTalks
  <2> QED BY <2>6 DEF n
<1>15. a # g => ~page'.live
  BY <1>1, <1>3, <1>9 DEF Intent
<1>16. \A i \in DOMAIN r : Spoken(r[i])
  <2> SUFFICES ASSUME NEW i \in DOMAIN r PROVE Spoken(r[i])
    OBVIOUS
  <2>1. a # g /\ (r[i] = x \/ r[i] = y)
    BY <1>14
  <2>2. ~page'.live
    BY <1>15, <2>1
  <2>3. r[i].t \in {"stop", "start"} /\ r[i].share <= page.last
    BY <1>2, <1>4, <1>5, <2>1 DEF a
  <2> QED BY <1>9, <2>2, <2>3 DEF Spoken
<1>17. Speaks /\ up'[k] = r
  BY <1>1, <1>2, <1>3, <1>6, <1>14, <1>16, SaidMany DEF q
<1>18. Talking(page'.gen, signal'.pending, server.auth[k], up'[k], Tail(server.down[k]))
  BY <1>8, <1>9, <1>11, <1>14, <1>17 DEF d
<1>19. page'.live => \/ page.live /\ page'.gen = page.gen
                     \/ /\ server.host = k
                        /\ server.policy /\ server.gen = page'.gen
                        /\ \A i \in DOMAIN up'[k] : up'[k][i].t = "pause"
  <2> SUFFICES ASSUME g # 0, a = g
               PROVE  /\ server.host = k /\ server.policy /\ server.gen = g
                      /\ \A i \in DOMAIN up'[k] : up'[k][i].t = "pause"
    BY <1>9
  <2>1. server.auth[k] > 0 /\ server.host # 0
    BY <1>1, <1>2, <1>4, <1>11
  <2>2. server.policy /\ server.gen = g
    BY <1>1, <1>2, <1>11, <2>1 DEF Recorded
  <2>3. \A i \in DOMAIN up'[k] : up'[k][i].t = "pause"
    BY <1>14, <1>17
  <2> QED BY <1>2, <2>2, <2>3
<1>21. server.open[k] /\ signal'.authed => ShareInv'
  BY <1>2, <1>8, <1>9, <1>10, <1>17, <1>18, <1>19, HeardStep
<1> QED BY <1>8, <1>21

(* A share the session owns is on record.                                  *)
LEMMA OwnedOnRecord ==
  ASSUME ShareTyped, Intent, Recorded, NEW k \in Sockets, server.host = k,
         NEW g \in Shares, g # 0, server.auth[k] = g
  PROVE  server.policy /\ server.gen = g
<1>1. g > 0 /\ server.host # 0
  BY InUse, SharesTyped, HostShareAssumption DEF Sockets
<1> QED BY <1>1 DEF Recorded

LEMMA StartedStep ==
  ASSUME ShareInv, signal.sock # 0, server.down[signal.sock] # <<>>, server' = Heard,
         NEW m, m = server.down[signal.sock][1], m.t = "started", Started(m)
  PROVE  server.open[signal.sock] /\ signal.authed => ShareInv'
<1> SUFFICES ASSUME server.open[signal.sock] /\ signal.authed
             PROVE  ShareInv'
  OBVIOUS
<1> DEFINE k == signal.sock
           g == page.gen
           p == signal.pending
           a == server.auth[k]
           q == up[k]
           d == server.down[k]
           n == IF p = m.share THEN 0 ELSE p
<1>1. /\ ShareTyped /\ Intent /\ Recorded /\ page \in Pages /\ signal \in Signals
  BY DEF ShareInv, ShareTyped
<1>2. /\ k \in Sockets /\ m \in Downs /\ q \in Seq(Ups) /\ d \in Seq(Downs)
      /\ a \in Shares /\ a # NoAuth /\ server.host = k /\ 1 \in DOMAIN d
      /\ Talking(g, p, a, q, d)
  BY HeardWhere
<1>3. m.share \in Shares /\ m.share # 0 /\ m.paused \in BOOLEAN
  BY <1>2, DownIs
<1>4. g \in Shares /\ p \in {0, g} /\ page.last \in Nat /\ 0 \in Shares
  BY <1>1, SharesTyped, HostShareAssumption DEF Shares
<1>5. n \in {0, g} /\ n \in Shares
  BY <1>4
<1>6. /\ signal' = [signal EXCEPT !.pending = n] /\ up' = up
      /\ page' = IF g # m.share THEN page
                 ELSE [page EXCEPT !.server = m.share, !.paused = m.paused, !.live = TRUE]
  BY <1>1 DEF Started, Signals
<1>7. Talking(g, n, a, q, Tail(d))
  <2>1. d # <<>> /\ d[1].t = "started" /\ d[1].share = m.share
    OBVIOUS
  <2> HIDE DEF g, p, a, q, d, k
  <2> QED BY <1>2, <1>4, <2>1, HearStarted DEF n
<1>8. m.share = g => a = g /\ n = 0 /\ \A i \in DOMAIN q : q[i].t = "pause"
  <2> SUFFICES ASSUME m.share = g
               PROVE  a = g /\ n = 0 /\ \A i \in DOMAIN q : q[i].t = "pause"
    OBVIOUS
  <2>1. a = g /\ (p # 0 => q = <<>>)
    BY <1>2, <1>3 DEF Talking, StillTrue
  <2>2. n = 0
    BY <1>4
  <2>3. CASE p = 0
    BY <1>2, <1>3, <2>3 DEF Talking, Leads
  <2>4. CASE p # 0
    <3>1. q = <<>>
      BY <2>1, <2>4
    <3>2. DOMAIN q = {}
      BY <3>1
    <3>3. \A i \in DOMAIN q : q[i].t = "pause"
      BY <3>2
    <3> QED BY <2>1, <2>2, <3>3
  <2> QED BY <2>1, <2>2, <2>3, <2>4
<1>9. m.share # g => n = p
  BY <1>3, <1>4
<1> HIDE DEF n
<1>10. /\ signal' \in Signals /\ signal'.sock = k /\ signal'.last = signal.last
       /\ (signal'.authed <=> signal.authed) /\ (signal'.opened <=> signal.opened)
       /\ signal'.pending = n /\ signal'.share = signal.share
       /\ signal'.only = signal.only /\ signal'.stopped = signal.stopped
  BY <1>1, <1>5, <1>6 DEF Signals
<1>11. /\ page' \in Pages /\ page'.gen = g /\ page'.last = page.last
       /\ IF m.share = g THEN page'.live /\ page'.server = g
          ELSE page' = page
  <2>1. CASE m.share = g
    <3>1. page' = [page EXCEPT !.server = m.share, !.paused = m.paused, !.live = TRUE]
      BY <1>6, <2>1
    <3> QED BY <1>1, <1>3, <2>1, <3>1 DEF Pages
  <2>2. CASE m.share # g
    <3>1. page' = page
      BY <1>6, <2>2
    <3> QED BY <1>1, <2>2, <3>1
  <2> QED BY <2>1, <2>2
<1>12. Intent'
  <2>1. CASE m.share = g
    BY <1>1, <1>3, <1>4, <1>8, <1>10, <1>11, <2>1 DEF Intent
  <2>2. CASE m.share # g
    BY <1>1, <1>9, <1>10, <1>11, <2>2 DEF Intent
  <2> QED BY <2>1, <2>2
<1>13. Speaks
  BY <1>1, <1>6, SameUp
<1>14. Talking(page'.gen, signal'.pending, server.auth[k], up'[k], Tail(server.down[k]))
  BY <1>6, <1>7, <1>10, <1>11
<1>15. page'.live => \/ page.live /\ page'.gen = page.gen
                     \/ /\ server.host = k
                        /\ server.policy /\ server.gen = page'.gen
                        /\ \A i \in DOMAIN up'[k] : up'[k][i].t = "pause"
  <2>1. CASE m.share = g
    <3>1. a = g /\ g # 0
      BY <1>3, <1>8, <2>1
    <3>2. server.policy /\ server.gen = g
      BY <1>1, <1>2, <1>4, <3>1, OwnedOnRecord
    <3> QED BY <1>2, <1>6, <1>8, <1>11, <2>1, <3>2
  <2>2. CASE m.share # g
    BY <1>11, <2>2
  <2> QED BY <2>1, <2>2
<1>16. server.open[k] /\ signal'.authed => ShareInv'
  BY <1>2, <1>10, <1>11, <1>12, <1>13, <1>14, <1>15, HeardStep
<1> QED BY <1>10, <1>16

(* A refusal of the share the page wants ends it; any other, and a pause   *)
(* of its source, change what the page wants of none.                      *)
LEMMA StartFailedStep ==
  ASSUME ShareInv, signal.sock # 0, server.down[signal.sock] # <<>>, server' = Heard,
         NEW m, m = server.down[signal.sock][1], m.t = "failed", StartFailed(m)
  PROVE  server.open[signal.sock] /\ signal.authed => ShareInv'
<1> SUFFICES ASSUME server.open[signal.sock] /\ signal.authed
             PROVE  ShareInv'
  OBVIOUS
<1> DEFINE k == signal.sock
           g == page.gen
           p == signal.pending
           a == server.auth[k]
           q == up[k]
           d == server.down[k]
<1>1. /\ ShareTyped /\ Intent /\ Recorded /\ page \in Pages /\ signal \in Signals
  BY DEF ShareInv, ShareTyped
<1>2. /\ k \in Sockets /\ m \in Downs /\ q \in Seq(Ups) /\ d \in Seq(Downs)
      /\ a \in Shares /\ a # NoAuth /\ server.host = k /\ 1 \in DOMAIN d
      /\ Talking(g, p, a, q, d)
  BY HeardWhere
<1>3. m.share \in Shares /\ m.share # 0
  BY <1>2, DownIs
<1>4. g \in Shares /\ p \in {0, g} /\ page.last \in Nat /\ 0 \in Shares
  BY <1>1, SharesTyped, HostShareAssumption DEF Shares
<1>5. signal.share = g /\ up' = up
  BY <1>1 DEF Intent, StartFailed
<1>6. IF m.share = g THEN Talking(0, 0, a, q, Tail(d)) ELSE Talking(g, p, a, q, Tail(d))
  <2>1. d # <<>> /\ d[1].t = "failed" /\ d[1].share = m.share
    OBVIOUS
  <2> HIDE DEF g, p, a, q, d, k
  <2> QED BY <1>2, <1>4, <2>1, HearFailed
<1>7. Speaks
  BY <1>1, <1>5, SameUp
<1>8. CASE m.share = g
  <2>1. p # 0 /\ p = m.share
    BY <1>2, <1>3, <1>4, <1>8 DEF Talking, StillTrue
  <2>2. /\ signal' = [Forgotten(signal) EXCEPT !.pending = IF @ = m.share THEN 0 ELSE @]
        /\ page' = [page EXCEPT !.gen = 0, !.server = 0, !.paused = FALSE, !.live = FALSE]
    BY <1>5, <1>8 DEF StartFailed
  <2>3. /\ signal' \in Signals /\ signal'.sock = k /\ signal'.last = signal.last
        /\ (signal'.authed <=> signal.authed) /\ (signal'.opened <=> signal.opened)
        /\ signal'.pending = 0 /\ signal'.share = 0
        /\ signal'.only /\ signal'.stopped = signal.stopped
    BY <1>1, <1>4, <2>1, <2>2 DEF Signals, Forgotten
  <2>4. /\ page' \in Pages /\ page'.gen = 0 /\ page'.last = page.last /\ ~page'.live
    BY <1>1, <1>4, <2>2 DEF Pages
  <2>5. Intent'
    BY <1>1, <2>3, <2>4 DEF Intent
  <2>6. Talking(page'.gen, signal'.pending, server.auth[k], up'[k], Tail(server.down[k]))
    BY <1>5, <1>6, <1>8, <2>3, <2>4
  <2>7. server.open[k] /\ signal'.authed => ShareInv'
    BY <1>2, <1>7, <2>3, <2>4, <2>5, <2>6, HeardStep
  <2> QED BY <2>3, <2>7
<1>9. CASE m.share # g
  <2>1. signal' = signal /\ page' = page
    BY <1>5, <1>9 DEF StartFailed
  <2>2. Intent'
    BY <1>1, <2>1 DEF Intent
  <2>3. Talking(page'.gen, signal'.pending, server.auth[k], up'[k], Tail(server.down[k]))
    BY <1>5, <1>6, <1>9, <2>1
  <2>4. page' \in Pages /\ signal' \in Signals
    BY <1>1, <2>1
  <2>5. server.open[k] /\ signal'.authed => ShareInv'
    BY <1>2, <1>7, <2>1, <2>2, <2>3, <2>4, HeardStep
  <2> QED BY <2>1, <2>5
<1> QED BY <1>8, <1>9

LEMMA PauseSourceStep ==
  ASSUME ShareInv, signal.sock # 0, server.down[signal.sock] # <<>>, server' = Heard,
         NEW m, m = server.down[signal.sock][1], m.t = "pause-source", PauseSource(m)
  PROVE  server.open[signal.sock] /\ signal.authed => ShareInv'
<1> SUFFICES ASSUME server.open[signal.sock] /\ signal.authed
             PROVE  ShareInv'
  OBVIOUS
<1> DEFINE k == signal.sock
           g == page.gen
           p == signal.pending
           a == server.auth[k]
           q == up[k]
           d == server.down[k]
<1>1. /\ ShareTyped /\ Intent /\ Recorded /\ page \in Pages /\ signal \in Signals
  BY DEF ShareInv, ShareTyped
<1>2. /\ k \in Sockets /\ q \in Seq(Ups) /\ d \in Seq(Downs)
      /\ a \in Shares /\ a # NoAuth /\ server.host = k /\ 1 \in DOMAIN d
      /\ Talking(g, p, a, q, d)
  BY HeardWhere
<1>4. g \in Shares /\ p \in {0, g}
  BY <1>1, SharesTyped
<1>5. up' = up
  BY DEF PauseSource
<1>6. Talking(g, p, a, q, Tail(d))
  <2>1. d # <<>> /\ d[1].t = "pause-source"
    OBVIOUS
  <2> HIDE DEF g, p, a, q, d, k
  <2> QED BY <1>2, <1>4, <2>1, HearFailed
<1>7. Speaks
  BY <1>1, <1>5, SameUp
<1>8. /\ signal' \in Signals /\ signal'.sock = k /\ signal'.last = signal.last
      /\ (signal'.authed <=> signal.authed)
      /\ signal'.opened = signal.opened
      /\ signal'.pending = p /\ signal'.share = signal.share
      /\ signal'.only = signal.only /\ signal'.stopped = signal.stopped
      /\ signal'.authed = signal.authed
  BY <1>1 DEF PauseSource, Signals
<1>9. /\ page' \in Pages /\ page'.gen = g /\ page'.last = page.last
      /\ page'.live = page.live /\ page'.server = page.server
  BY <1>1 DEF PauseSource, Pages
<1>10. Intent'
  BY <1>1, <1>8, <1>9 DEF Intent
<1>11. Talking(page'.gen, signal'.pending, server.auth[k], up'[k], Tail(server.down[k]))
  BY <1>5, <1>6, <1>8, <1>9
<1>12. server.open[k] /\ signal'.authed => ShareInv'
  BY <1>2, <1>7, <1>8, <1>9, <1>10, <1>11, HeardStep
<1> QED BY <1>8, <1>12

LEMMA ReceiveStep ==
  ASSUME ShareInv, Receive
  PROVE  ShareInv'
<1> DEFINE k == signal.sock
           m == server.down[k][1]
<1>1. /\ k # 0 /\ server.down[k] # <<>> /\ server' = Heard
  BY DEF Receive, Heard
<1>2. /\ Head(server.down[k]) = m
      /\ ~server.open[k] => m.t = "close"
      /\ server.open[k] /\ ~signal.authed => m.t = "authed"
      /\ server.open[k] /\ signal.authed => m.t \in {"started", "failed", "pause-source"}
  <2>1. /\ 1 \in DOMAIN server.down[k] /\ Head(server.down[k]) = m
        /\ ~server.open[k] => m.t = "close"
        /\ server.open[k] /\ ~signal.authed =>
              Answered(page.gen, signal.pending, server.auth[k], up[k], server.down[k])
        /\ server.open[k] /\ signal.authed =>
              Talking(page.gen, signal.pending, server.auth[k], up[k], server.down[k])
    BY <1>1, HeardWhere
  <2> QED BY <2>1 DEF Answered, Talking, StillTrue
<1>3. \/ m.t = "authed" /\ HearAuthenticated(m)
      \/ m.t = "started" /\ Started(m)
      \/ m.t = "failed" /\ StartFailed(m)
      \/ m.t = "pause-source" /\ PauseSource(m)
      \/ m.t \in {"close", "replaced"} /\ Closed(m)
  BY <1>2 DEF Receive
<1> HIDE DEF m
<1>4. CASE ~server.open[k]
  <2>1. Closed(m) /\ ~server.open[k]
    BY <1>2, <1>3, <1>4
  <2> QED BY <1>1, <2>1, ClosedStep DEF m
<1>5. CASE server.open[k] /\ ~signal.authed
  <2>1. HearAuthenticated(m) /\ ~signal.authed
    BY <1>2, <1>3, <1>5
  <2>2. server.open[k] => ShareInv'
    BY <1>1, <2>1, HearAuthenticatedStep DEF m
  <2> QED BY <1>5, <2>2
<1>6. CASE server.open[k] /\ signal.authed
  <2>1. CASE m.t = "started"
    <3>1. Started(m)
      BY <1>3, <2>1
    <3>2. server.open[k] /\ signal.authed => ShareInv'
      BY <1>1, <2>1, <3>1, StartedStep DEF m
    <3> QED BY <1>6, <3>2
  <2>2. CASE m.t = "failed"
    <3>1. StartFailed(m)
      BY <1>3, <2>2
    <3>2. server.open[k] /\ signal.authed => ShareInv'
      BY <1>1, <2>2, <3>1, StartFailedStep DEF m
    <3> QED BY <1>6, <3>2
  <2>3. CASE m.t = "pause-source"
    <3>1. PauseSource(m)
      BY <1>3, <2>3
    <3>2. server.open[k] /\ signal.authed => ShareInv'
      BY <1>1, <2>3, <3>1, PauseSourceStep DEF m
    <3> QED BY <1>6, <3>2
  <2> QED BY <1>2, <1>6, <2>1, <2>2, <2>3
<1> QED BY <1>4, <1>5, <1>6

-----------------------------------------------------------------------------
(* Every step, from the first state on.                                    *)

LEMMA InitShare == ShareInit => ShareInv
<1> SUFFICES ASSUME ShareInit
             PROVE  ShareInv
  OBVIOUS
<1>1. /\ 0 \in Shares /\ 0 \in 0..MaxConnections /\ <<>> \in Seq(Ups) /\ <<>> \in Seq(Downs)
      /\ DOMAIN <<>> = {} /\ \A k \in Sockets : k # 0
  BY HostShareAssumption DEF Shares, Sockets
<1>2. /\ server.host = 0 /\ server.gen = 0 /\ ~server.policy /\ ~server.paused
      /\ server.told = Untold /\ server.auth = [k \in Sockets |-> NoAuth]
      /\ server.open = [k \in Sockets |-> TRUE]
      /\ server.down = [k \in Sockets |-> <<>>] /\ up = [k \in Sockets |-> <<>>]
  BY DEF ShareInit, Untold
<1>3. ShareTyped
  <2>1. page \in Pages
    BY <1>1 DEF ShareInit, Pages
  <2>2. signal \in Signals
    BY <1>1 DEF ShareInit, Signals
  <2>3. server \in Servers
    BY <1>1 DEF ShareInit, Servers
  <2>4. up \in [Sockets -> Seq(Ups)]
    BY <1>1 DEF ShareInit
  <2> QED BY <2>1, <2>2, <2>3, <2>4 DEF ShareTyped
<1>4. Intent
  BY DEF ShareInit, Intent
<1>5. Numbered
  <2>1. page.last = 0 /\ NoAuth <= 0
    BY DEF ShareInit, NoAuth
  <2> QED BY <1>1, <1>2, <2>1 DEF Numbered
<1>6. Recorded
  <2>1. signal.sock = 0
    BY DEF ShareInit
  <2> QED BY <1>2, <2>1 DEF Recorded
<1>7. Unread
  BY <1>1, <1>2 DEF Unread
<1>8. Acknowledged
  BY DEF ShareInit, Acknowledged
<1>9. NewestSocket
  BY DEF ShareInit, NewestSocket
<1> QED BY <1>3, <1>4, <1>5, <1>6, <1>7, <1>8, <1>9 DEF ShareInv

LEMMA NoStep ==
  ASSUME ShareInv, UNCHANGED shareVars
  PROVE  ShareInv'
<1>1. page' = page /\ signal' = signal /\ up' = up /\ server' = server
  BY DEF shareVars
<1>2. ShareTyped' /\ Intent'
  BY <1>1 DEF ShareInv, ShareTyped, Intent
<1>3. Numbered'
  BY <1>1 DEF ShareInv, Numbered
<1>4. Recorded'
  BY <1>1 DEF ShareInv, Recorded
<1>5. Unread'
  BY <1>1 DEF ShareInv, Unread
<1>6. Acknowledged'
  BY <1>1 DEF ShareInv, Acknowledged
<1>7. NewestSocket'
  BY <1>1, NewestKept DEF ShareInv
<1> QED BY <1>2, <1>3, <1>4, <1>5, <1>6, <1>7 DEF ShareInv

LEMMA StepShare == ShareInv /\ [ShareNext]_shareVars => ShareInv'
<1> SUFFICES ASSUME ShareInv, [ShareNext]_shareVars
             PROVE  ShareInv'
  OBVIOUS
<1>1. CASE User
  BY <1>1, StartSharingStep, StopSharingStep, TogglePauseStep DEF User
<1>2. CASE Network
  BY <1>2, ConnectStep, OpenStep, ReceiveStep, ReadStep, DisconnectStep DEF Network
<1>3. CASE Faults
  BY <1>3, TimeOutStep, RetireStep, BreakStep, ExpireStep DEF Faults
<1>4. CASE UNCHANGED shareVars
  BY <1>4, NoStep
<1> QED BY <1>1, <1>2, <1>3, <1>4 DEF ShareNext

(* Whatever is under way between the page and the server, over however     *)
(* many sockets, leads to the share the page wants (reconcileShare of      *)
(* signaling.ts, settleHostShare and stopSharing of the room store).       *)
THEOREM ShareInvariant == ShareSpec => []ShareInv
<1>1. ShareInit => ShareInv
  BY InitShare
<1>2. ShareInv /\ [ShareNext]_shareVars => ShareInv'
  BY StepShare
<1> QED BY <1>1, <1>2, PTL DEF ShareSpec

LEMMA TypedShare ==
  ASSUME ShareInv
  PROVE  ShareTypeOK
<1>1. ShareTyped
  BY DEF ShareInv
<1>2. page \in Pages /\ signal \in Signals /\ server \in Servers
  BY <1>1 DEF ShareTyped
<1> QED BY <1>2 DEF ShareTypeOK, Pages, Signals, Servers

LEMMA ToldTruth ==
  ASSUME ShareInv
  PROVE  ViewersToldTruth
<1>1. Recorded /\ ShareTyped
  BY DEF ShareInv
<1> SUFFICES ASSUME server.host # 0, server.open[server.host]
             PROVE  server.told = [online |-> ActiveShare # 0,
                                   paused |-> ActiveShare # 0 /\ server.paused]
  BY DEF ViewersToldTruth
<1>2. server.host \in Sockets /\ server.gen \in Shares /\ server.paused \in BOOLEAN
      /\ server.auth[server.host] \in Shares \cup {NoAuth}
  BY <1>1, HostShareAssumption DEF ShareTyped, Servers, Sockets
<1>3. server.told = IF server.auth[server.host] > 0
                    THEN [online |-> TRUE, paused |-> server.paused] ELSE Untold
  BY <1>1 DEF Recorded
<1>4. CASE server.auth[server.host] > 0
  <2>1. ActiveShare # 0
    BY <1>1, <1>4, HostShareAssumption DEF Recorded, ActiveShare
  <2>2. (ActiveShare # 0) = TRUE /\ (ActiveShare # 0 /\ server.paused) = server.paused
    BY <1>2, <2>1
  <2> QED BY <1>3, <1>4, <2>2
<1>5. CASE ~(server.auth[server.host] > 0)
  <2>1. ActiveShare = 0
    BY <1>5 DEF ActiveShare
  <2>2. (ActiveShare # 0) = FALSE /\ (ActiveShare # 0 /\ server.paused) = FALSE
    BY <2>1
  <2> QED BY <1>3, <1>5, <2>2 DEF Untold
<1> QED BY <1>4, <1>5

LEMMA Agreed ==
  ASSUME ShareInv
  PROVE  SharesAgree
<1> DEFINE k == signal.sock
           g == page.gen
           p == signal.pending
           a == server.auth[k]
<1> SUFFICES ASSUME Quiet
             PROVE  ActiveShare = g /\ (page.live => page.server = g)
  BY DEF SharesAgree
<1>1. ShareTyped /\ Intent /\ Recorded /\ NewestSocket
  BY DEF ShareInv
<1>2. /\ k # 0 /\ signal.authed /\ server.host = k
      /\ server.down[k] = <<>> /\ \A j \in Sockets : up[j] = <<>>
  BY DEF Quiet, Linked
<1>3. k \in Sockets
  BY <1>1, <1>2, HostShareAssumption DEF ShareTyped, Signals, Sockets
<1>4. up[k] = <<>> /\ a # NoAuth
  BY <1>1, <1>2, <1>3 DEF Recorded
<1>5. page.live => page.server = g
  BY <1>1 DEF Intent
<1>6. g \in Shares /\ p \in {0, g} /\ 0 \in Shares /\ a \in Shares
  BY <1>1, <1>3, <1>4, SharesTyped, HostShareAssumption DEF ShareTyped, Servers, Shares
<1>7. a = g
  <2>1. server.open[k]
    BY <1>1, <1>2 DEF NewestSocket, Ended
  <2>2. Leads(g, p, a, up[k], server.down[k])
    BY <1>1, <1>2, <1>4, <2>1 DEF NewestSocket, Talking
  <2>3. DOMAIN server.down[k] = {}
    BY <1>2
  <2> QED BY <1>4, <1>6, <2>2, <2>3 DEF Leads
<1>8. ActiveShare = a
  <2>1. a = 0 => ActiveShare = 0
    BY <1>2 DEF ActiveShare
  <2>2. a # 0 => a > 0
    BY <1>6, HostShareAssumption DEF Shares
  <2>3. a > 0 => server.gen = a
    BY <1>1, <1>2 DEF Recorded
  <2>4. a > 0 => ActiveShare = server.gen
    BY <1>2, <2>3 DEF ActiveShare
  <2> QED BY <2>1, <2>2, <2>3, <2>4
<1> QED BY <1>5, <1>7, <1>8

(* The page, the server and the viewers have the same idea of the share,   *)
(* and the server never takes the page for a stale one: see ShareTruth,    *)
(* and reconcileShare, settleHostShare and broadcastHostStatus.            *)
THEOREM SharesTrue == ShareSpec => []ShareTruth
<1>1. ShareInv => ShareTruth
  <2> SUFFICES ASSUME ShareInv
               PROVE  ShareTruth
    OBVIOUS
  <2>1. NeverReplaced
    BY DEF ShareInv, Intent, NeverReplaced
  <2> QED BY <2>1, TypedShare, ToldTruth, Agreed DEF ShareTruth
<1> QED BY <1>1, ShareInvariant, PTL

(* No step takes a share that was stopped off its fence.                   *)
Fenced == server.gen # 0 /\ ~server.policy /\ server'.gen = server.gen => ~server'.policy

LEMMA FenceClosed ==
  ASSUME ShareInv, NEW k \in Sockets, NEW m \in Downs, server' = CloseSession(server, k, m)
  PROVE  Fenced
<1>1. server \in Servers
  BY DEF ShareInv, ShareTyped
<1>2. server'.policy = server.policy
  BY <1>1, CloseIs
<1> QED BY <1>2 DEF Fenced

LEMMA FenceGone ==
  ASSUME ShareInv, NEW k \in Sockets, Gone(k)
  PROVE  Fenced
<1>1. server \in Servers
  BY DEF ShareInv, ShareTyped
<1>2. server'.policy = server.policy
  BY <1>1 DEF Gone, Servers
<1> QED BY <1>2 DEF Fenced

(* A late authentication does not take up the share that was stopped.      *)
LEMMA FenceAuth ==
  ASSUME ShareInv, NEW k \in Sockets, up[k] # <<>>, up[k][1].t = "auth",
         NEW ok, Authenticate(k, up[k][1], ok)
  PROVE  server.open[k] => Fenced
<1> SUFFICES ASSUME server.open[k]
             PROVE  Fenced
  OBVIOUS
<1> DEFINE m == up[k][1]
<1>1. /\ ShareTyped /\ Numbered /\ Recorded /\ server \in Servers
      /\ up[k] \in Seq(Ups)
  BY DEF ShareInv, ShareTyped
<1>2. server.auth[k] = NoAuth /\ server.down[k] = <<>>
  BY AuthAsks
<1>3. m \in Ups /\ 1 \in DOMAIN up[k]
  BY <1>1, Taken
<1>4. m.t = "auth" /\ Authenticate(k, m, ok)
  OBVIOUS
<1>5. Naming(server, m)
  BY <1>1, <1>3, <1>4 DEF Numbered, Recorded, Naming
<1> HIDE DEF m
<1>6. server.open[k] => \E own \in Shares : AuthenticateOutcome(k, m, own)
  BY <1>1, <1>2, <1>3, <1>4, <1>5, AuthenticateDoes
<1>7. PICK own \in Shares : AuthenticateOutcome(k, m, own)
  BY <1>6
<1>8. /\ own = 0 => ~server'.policy
      /\ own # 0 => server'.gen = own
      /\ own # 0 /\ ~server.policy => own # server.gen
  BY <1>7 DEF AuthenticateOutcome
<1> QED BY <1>8 DEF Fenced

(* Nor does a start, a stop or a pause of the Host's session.              *)
LEMMA FenceRequest ==
  ASSUME ShareInv, NEW k \in Sockets, up[k] # <<>>, Current(k), NEW ok,
         \/ up[k][1].t = "start" /\ StartShare(k, up[k][1], ok)
         \/ StopShare(k, up[k][1])
         \/ SetPaused(k, up[k][1])
  PROVE  Fenced
<1> DEFINE m == up[k][1]
<1>1. server \in Servers /\ server.host = k /\ server.open[k] /\ server.auth[k] # NoAuth
  BY DEF ShareInv, ShareTyped, Current
<1>2. m \in Ups
  BY <1>1, HostSession
<1>3. \/ m.t = "start" /\ StartShare(k, m, ok)
      \/ StopShare(k, m)
      \/ SetPaused(k, m)
  OBVIOUS
<1> HIDE DEF m
<1>4. CASE m.t = "start" /\ StartShare(k, m, ok)
  <2>1. PICK x \in Downs : StartOutcome(k, m, x)
    BY <1>1, <1>2, <1>4, StartDoes
  <2>2. \/ server'.policy = server.policy
        \/ m.share # server.gen /\ server'.gen = m.share
        \/ ~server'.policy
    BY <2>1 DEF StartOutcome
  <2> QED BY <2>2 DEF Fenced
<1>5. CASE StopShare(k, m)
  <2>1. \/ server' = server
        \/ server' = Stopped(server)
        \/ server' = CloseSession(server, k, Replaced)
    BY <1>5 DEF StopShare
  <2>2. CASE server' = server
    BY <2>2 DEF Fenced
  <2>3. CASE server' = Stopped(server)
    <3>1. ~server'.policy
      BY <1>1, <2>3, StoppedIs
    <3> QED BY <3>1 DEF Fenced
  <2>4. CASE server' = CloseSession(server, k, Replaced)
    BY <2>4, ClosingMsgs, FenceClosed
  <2> QED BY <2>1, <2>2, <2>3, <2>4
<1>6. CASE SetPaused(k, m)
  <2>1. CASE server.auth[k] # 0 /\ Owns(k, m)
    <3>1. server'.policy = server.policy
      BY <1>1, <1>6, <2>1 DEF SetPaused, Servers
    <3> QED BY <3>1 DEF Fenced
  <2>2. CASE ~(server.auth[k] # 0 /\ Owns(k, m))
    <3>1. server' = CloseSession(server, k, Replaced)
      BY <1>6, <2>2 DEF SetPaused
    <3> QED BY <3>1, ClosingMsgs, FenceClosed
  <2> QED BY <2>1, <2>2
<1> QED BY <1>3, <1>4, <1>5, <1>6

LEMMA FenceRead ==
  ASSUME ShareInv, Read
  PROVE  Fenced
<1>1. PICK k \in Sockets :
         up[k] # <<>> /\ \E ok \in Admission(Head(up[k])) : Handle(k, Head(up[k]), ok)
  BY DEF Read
<1>2. PICK ok \in Admission(Head(up[k])) : Handle(k, Head(up[k]), ok)
  BY <1>1
<1>3. up[k] \in Seq(Ups)
  BY DEF ShareInv, ShareTyped
<1>4. Head(up[k]) = up[k][1] /\ up[k][1] \in Ups
  BY <1>1, <1>3, Taken
<1> DEFINE m == up[k][1]
<1>5. Handle(k, m, ok)
  BY <1>2, <1>4
<1>6. m.t \in {"start", "stop", "pause", "close", "auth"}
  BY <1>4, UpIs
<1> HIDE DEF m
<1>7. CASE m.t = "close"
  <2>1. Gone(k)
    BY <1>5, <1>7 DEF Handle
  <2> QED BY <2>1, FenceGone
<1>8. CASE m.t # "close" /\ ~server.open[k]
  <2>1. server' = server
    BY <1>5, <1>8 DEF Handle
  <2> QED BY <2>1 DEF Fenced
<1>9. CASE server.open[k] /\ m.t = "auth"
  <2>1. Authenticate(k, up[k][1], ok) /\ up[k][1].t = "auth"
    BY <1>5, <1>9 DEF Handle, m
  <2>2. server.open[k] => Fenced
    BY <1>1, <2>1, FenceAuth
  <2> QED BY <1>9, <2>2
<1>10. CASE server.open[k] /\ m.t \in {"start", "stop", "pause"} /\ ~Current(k)
  <2>1. server' = CloseSession(server, k, Replaced)
    BY <1>5, <1>10 DEF Handle
  <2> QED BY <2>1, ClosingMsgs, FenceClosed
<1>11. CASE server.open[k] /\ m.t \in {"start", "stop", "pause"} /\ Current(k)
  <2>1. \/ up[k][1].t = "start" /\ StartShare(k, up[k][1], ok)
        \/ StopShare(k, up[k][1])
        \/ SetPaused(k, up[k][1])
    BY <1>5, <1>11 DEF Handle, m
  <2> QED BY <1>1, <1>11, <2>1, FenceRequest
<1> QED BY <1>6, <1>7, <1>8, <1>9, <1>10, <1>11

LEMMA FenceHeld ==
  ASSUME ShareInv, [ShareNext]_shareVars
  PROVE  Fenced
<1>1. server \in Servers
  BY DEF ShareInv, ShareTyped
<1>2. CASE Receive
  <2>1. server'.policy = server.policy
    BY <1>1, <1>2 DEF Receive, Servers
  <2> QED BY <2>1 DEF Fenced
<1>3. CASE Read
  BY <1>3, FenceRead
<1>4. CASE Disconnect
  BY <1>4, FenceGone DEF Disconnect
<1>5. CASE Expire
  BY <1>5, ClosingMsgs, FenceClosed DEF Expire
<1>6. CASE \/ User \/ Connect \/ Open \/ TimeOut \/ Retire \/ Break \/ UNCHANGED shareVars
  <2>1. server' = server
    BY <1>6 DEF User, StartSharing, StopSharing, TogglePause, Connect, Open, TimeOut,
                Retire, Break, shareVars
  <2> QED BY <2>1 DEF Fenced
<1> QED BY <1>2, <1>3, <1>4, <1>5, <1>6 DEF ShareNext, Network, Faults

(* The generation a stop leaves on record fences the share off for good:   *)
(* see NoResurrection, and settleHostShare and startSharing.               *)
THEOREM StoppedStays == ShareSpec => NoResurrection
<1>1. ShareInv /\ ShareInv' /\ [ShareNext]_shareVars
        => [server.gen # 0 /\ ~server.policy => ActiveShare' # server.gen]_shareVars
  <2> SUFFICES ASSUME ShareInv, ShareInv', [ShareNext]_shareVars,
                      server.gen # 0, ~server.policy, ActiveShare' = server.gen
               PROVE  FALSE
    OBVIOUS
  <2>1. Fenced
    BY FenceHeld
  <2>2. Recorded'
    BY DEF ShareInv
  <2>3. /\ server'.host # 0 /\ server'.auth[server'.host] > 0
        /\ server'.gen = server.gen
    BY DEF ActiveShare
  <2>4. server'.policy
    BY <2>2, <2>3 DEF Recorded
  <2> QED BY <2>1, <2>3, <2>4 DEF Fenced
<1> QED BY <1>1, ShareInvariant, PTL DEF ShareSpec, NoResurrection
=============================================================================
