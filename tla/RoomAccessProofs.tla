---------------------------- MODULE RoomAccessProofs ----------------------------
(***************************************************************************)
(* Proof that the store, the sessions, the timers, voice and routing agree *)
(* on who is in a room, that codes, stored authority, counters and the     *)
(* derivation gate balance, and that what was derived or timed while the   *)
(* mutex was released is applied only to what it was meant for, for any    *)
(* browsers, codes, capacities, and numbers of operations and faults.      *)
(***************************************************************************)
EXTENDS RoomAccess, FiniteSetTheorems, WellFoundedInduction, TLAPS

-----------------------------------------------------------------------------
(***************************************************************************)
(* The inductive invariant, in parts.                                      *)
(***************************************************************************)

Materials == [word : Nat, salt : Nat]
Policies == {"none", "open", "private"}
Named == 0..MaxSessions
Viewers == [peer : Named, sess : Named, by : {"none", "code", "grant", "password"},
            cred : Nat, left : Named]
RoomSet == [id : Nat, grant : Nat, pw : Materials, policy : Policies,
            host : [client : Clients \cup {0}, peer : Named, sess : Named],
            viewers : [Clients -> Viewers], age : Nat]
AuthoritySet == [id : Nat, grant : Nat, pw : Materials, policy : Policies]
SessionSet == [st : {"none", "open", "gone"}, client : Clients \cup {0}, closing : BOOLEAN,
               revoked : BOOLEAN, authing : BOOLEAN, code : Codes \cup {0},
               role : {"none", "host", "viewer"}, peer : Named]
JobSet == [k : {"none", "login", "password", "replace", "answered", "lost"},
           st : {"none", "begun", "ask", "wait", "derive", "done", "over"},
           res : {"none", "ok", "cancelled", "busy"}, sess : Named, code : Codes \cup {0},
           room : Nat, word : Nat, material : Materials, policy : Policies]
Timer == [code : Codes, peer : Sessions, client : Clients, id : Sessions]
Counts == [ids : Nat, grants : Nat, changes : Nat, faults : 0..MaxFaults]

StoreTypes == rooms \in [Codes -> RoomSet] /\ free \in [Codes -> Int] /\ db \in [Codes -> AuthoritySet]
PresenceTypes ==
    /\ grace \subseteq Timer /\ fired \subseteq Timer
    /\ voice \in [Codes -> SUBSET Sessions] /\ routed \in [Codes -> SUBSET Sessions]
World == StoreTypes /\ PresenceTypes /\ sess \in [Sessions -> SessionSet] /\ unauth \in Int
Types == World /\ jobs \in [Jobs -> JobSet] /\ count \in Counts

(* A derivation is under way for a session or for a room, until it is      *)
(* answered or the process that made it ends.                              *)
JobShape ==
    \A j \in Jobs :
        LET job == jobs[j]
        IN  /\ job.k = "login" => job.sess \in Sessions
            /\ job.k \in {"password", "replace"} => job.room # 0 /\ job.st # "begun"
            /\ job.k \in {"login", "password", "replace"} =>
                  job.code \in Codes /\ job.st \notin {"none", "over"}
            /\ job.k \in {"none", "answered", "lost"} => job.st \in {"none", "over"}

(* Identities are counted, and those of the replacements set aside.        *)
IdsCounted ==
    /\ \A c \in Codes : rooms[c].id <= count.ids
    /\ count.ids + Reserved <= MaxIds

(* Nothing stays stored for a code that names no room.                     *)
Erased == \A c \in Codes : rooms[c].id = 0 => Authority(rooms[c]) = Authority(NoRoom)

Unadmitted == {i \in Sessions : sess[i].st = "open" /\ ~Authenticated(i)}

(* Only a session that was admitted can be revoked.                        *)
SessionShape ==
    /\ \A i \in Sessions : sess[i].st = "open" => sess[i].client \in Clients
    /\ \A i \in Sessions : sess[i].st = "open" /\ Authenticated(i) => sess[i].code \in Codes
    /\ \A i \in Sessions : sess[i].st # "open" => ~Authenticated(i)
    /\ \A i \in Sessions : sess[i].revoked => sess[i].closing /\ Authenticated(i)

Deriving == {j \in Jobs : jobs[j].st = "derive"}
Waiting == {j \in Jobs : jobs[j].st = "wait"}

GateShape ==
    /\ gate \in [active : Int, waiters : Seq(Jobs)]
    /\ gate.active = Cardinality(Deriving) /\ gate.active <= GateLimit
    /\ Len(gate.waiters) <= GatePending
    /\ gate.waiters # <<>> => gate.active = GateLimit
    /\ \A j \in Jobs : jobs[j].st = "wait" <=> \E n \in 1..Len(gate.waiters) : gate.waiters[n] = j
    /\ \A m, n \in 1..Len(gate.waiters) : gate.waiters[m] = gate.waiters[n] => m = n

(* Where no room is, nobody is; who has no place is not connected.         *)
Vacant ==
    /\ \A code \in Codes : rooms[code].id = 0 =>
          rooms[code].host.sess = 0 /\ \A c \in Clients : rooms[code].viewers[c].peer = 0
    /\ \A code \in Codes, c \in Clients :
          rooms[code].viewers[c].peer = 0 => rooms[code].viewers[c].sess = 0

(* The session that connects a participant is admitted as that participant. *)
Holds(i, code) == sess[i].st = "open" /\ ~sess[i].revoked /\ sess[i].code = code

ViewersHeld ==
    \A code \in Codes, c \in Clients :
        LET v == rooms[code].viewers[c]
        IN  v.sess # 0 => /\ Holds(v.sess, code) /\ sess[v.sess].role = "viewer"
                          /\ sess[v.sess].client = c /\ sess[v.sess].peer = v.peer

HostHeld ==
    \A code \in Codes :
        LET h == rooms[code].host
        IN  h.sess # 0 => /\ Holds(h.sess, code) /\ sess[h.sess].role = "host"
                          /\ sess[h.sess].peer = h.peer

Speaking(i) == sess[i].st = "open" /\ Authenticated(i) /\ ~sess[i].closing
SpeakersNamed == \A i \in Sessions : Speaking(i) => NamedByStore(i)

(* A peer is the name of one Viewer of its room, and of no session that is  *)
(* yet to be admitted.                                                     *)
PeersOnce ==
    /\ \A code \in Codes, c \in Clients :
          LET p == rooms[code].viewers[c].peer
          IN  p # 0 => sess[p].st = "gone" \/ sess[p].role # "none"
    /\ \A code \in Codes, c, d \in Clients :
          rooms[code].viewers[c].peer # 0 /\ rooms[code].viewers[c].peer = rooms[code].viewers[d].peer
             => c = d

(* Whoever is away has the timer of his last departure, and no other.      *)
AwayTimed ==
    /\ \A code \in Codes, c \in Clients :
          LET v == rooms[code].viewers[c]
          IN  v.peer # 0 /\ v.sess = 0 =>
                [code |-> code, peer |-> v.peer, client |-> c, id |-> v.left] \in grace
    /\ \A t \in grace :
          LET v == rooms[t.code].viewers[t.client]
          IN  v.peer = t.peer /\ v.sess = 0 /\ v.left = t.id

PlacesKept ==
    \A code \in Codes :
        /\ routed[code] = Peers(rooms[code]) /\ voice[code] \subseteq Peers(rooms[code])
        /\ Cardinality(Peers(rooms[code])) <= MaxViewers

GrantsCurrent ==
    \A code \in Codes, c \in Clients :
        rooms[code].viewers[c].by = "grant" => rooms[code].viewers[c].cred = rooms[code].grant

MembersInv ==
    /\ Vacant /\ ViewersHeld /\ HostHeld /\ SpeakersNamed /\ PeersOnce /\ AwayTimed
    /\ PlacesKept /\ GrantsCurrent

StoreInv == CodesConserved /\ MemoryIsDurable /\ Erased /\ IdsCounted

AccessInv ==
    Types /\ JobShape /\ SessionShape /\ StoreInv /\ UnauthenticatedCounted /\ GateShape /\ MembersInv

-----------------------------------------------------------------------------
(***************************************************************************)
(* Types, one operation at a time.                                         *)
(***************************************************************************)

LEMMA Bounds ==
  /\ {MaxRooms, MaxViewers, GateLimit, MaxIds, MaxSessions, MaxGrants} \subseteq Nat \ {0}
  /\ {GatePending, MaxJobs, MaxChanges, MaxFaults} \subseteq Nat
  /\ Sessions \subseteq Named /\ 0 \in Named /\ 0 \notin Sessions
BY RoomAccessAssumption DEF RoomAccessAssumption, Sessions, Named

LEMMA Blank ==
  /\ NoViewer \in Viewers /\ NoRoom \in RoomSet /\ NoSession \in SessionSet /\ NoJob \in JobSet
  /\ Nothing \in Materials /\ Answered \in JobSet /\ Authority(NoRoom) \in AuthoritySet
<1>1. NoViewer \in Viewers
  BY Bounds DEF NoViewer, Viewers
<1>2. Nothing \in Materials
  BY DEF Nothing, Materials
<1>3. NoRoom \in RoomSet /\ Authority(NoRoom) \in AuthoritySet
  BY <1>1, <1>2, Bounds DEF NoRoom, RoomSet, Policies, Authority, AuthoritySet, NoOne
<1>4. NoSession \in SessionSet
  BY Bounds DEF NoSession, SessionSet
<1>5. NoJob \in JobSet /\ Answered \in JobSet
  BY <1>2, Bounds DEF NoJob, Answered, JobSet, Policies
<1> QED BY <1>1, <1>2, <1>3, <1>4, <1>5

LEMMA AuthorityOf ==
  ASSUME NEW r \in RoomSet
  PROVE  /\ Authority(r) \in AuthoritySet
         /\ Authority(r).id = r.id /\ Authority(r).grant = r.grant
         /\ Authority(r).pw = r.pw /\ Authority(r).policy = r.policy
BY DEF RoomSet, AuthoritySet, Authority

(* Closing sessions, fields of the others as they were.                    *)
LEMMA ClosingIs ==
  ASSUME sess \in [Sessions -> SessionSet], NEW ids
  PROVE  /\ Closing(sess, ids) \in [Sessions -> SessionSet]
         /\ \A i \in Sessions :
              Closing(sess, ids)[i] = IF i \in ids THEN [sess[i] EXCEPT !.closing = TRUE] ELSE sess[i]
BY DEF Closing, SessionSet

LEMMA AdmitTypes ==
  ASSUME World, NEW i \in Sessions, NEW code \in Codes, sess[i].client \in Clients,
         NEW by \in {"code", "grant", "password"}, NEW cred \in Nat,
         Admit(i, code, "viewer", by, cred)
  PROVE  World'
<1> DEFINE c == sess[i].client
           old == rooms[code].viewers[c]
           peer == IF old.peer = 0 THEN i ELSE old.peer
<1>0. rooms[code] \in RoomSet /\ old \in Viewers
  BY DEF World, StoreTypes, RoomSet
<1>1. peer \in Sessions /\ peer \in Named
  BY <1>0, Bounds DEF Viewers, Named, Sessions
<1>2. [peer |-> peer, sess |-> i, by |-> by, cred |-> cred, left |-> 0] \in Viewers
  BY <1>1, Bounds DEF Viewers
<1>3. rooms' = [rooms EXCEPT ![code].viewers[c] =
                  [peer |-> peer, sess |-> i, by |-> by, cred |-> cred, left |-> 0]]
  BY DEF Admit
<1>4. rooms' \in [Codes -> RoomSet]
  BY <1>0, <1>2, <1>3 DEF World, StoreTypes, RoomSet
<1>5. sess' \in [Sessions -> SessionSet]
  <2> DEFINE b == Closing(sess, {old.sess} \ {0})
  <2>1. b \in [Sessions -> SessionSet]
    BY ClosingIs DEF World
  <2>2. sess' = [b EXCEPT ![i] = [@ EXCEPT !.authing = FALSE, !.code = code,
                                           !.role = "viewer", !.peer = peer]]
    BY DEF Admit
  <2> HIDE DEF b, peer
  <2>3. b[i] \in SessionSet
    BY <2>1
  <2>4. [b[i] EXCEPT !.authing = FALSE, !.code = code, !.role = "viewer", !.peer = peer] \in SessionSet
    BY <1>1, <2>3 DEF SessionSet
  <2> QED BY <2>1, <2>2, <2>4
<1>6. PresenceTypes'
  BY <1>1 DEF Admit, World, PresenceTypes, Timers
<1>7. unauth' \in Int /\ UNCHANGED <<free, db>>
  BY DEF Admit, World
<1> QED BY <1>4, <1>5, <1>6, <1>7 DEF World, StoreTypes

LEMMA AdmitHostTypes ==
  ASSUME World, NEW i \in Sessions, NEW code \in Codes, AdmitHost(i, code)
  PROVE  World'
<1> DEFINE c == sess[i].client
           old == rooms[code].host
           peer == IF old.client = c THEN old.peer ELSE i
<1>1. rooms[code] \in RoomSet /\ peer \in Named /\ i \in Named /\ c \in Clients \cup {0}
  BY Bounds DEF World, StoreTypes, RoomSet, SessionSet
<1>2. rooms' \in [Codes -> RoomSet]
  BY <1>1 DEF AdmitHost, World, StoreTypes, RoomSet
<1>3. sess' \in [Sessions -> SessionSet]
  <2> DEFINE b == Closing(sess, IF old.client = c THEN {old.sess} \ {0} ELSE {})
  <2>1. b \in [Sessions -> SessionSet]
    BY ClosingIs DEF World
  <2>2. sess' = [b EXCEPT ![i] = [@ EXCEPT !.authing = FALSE, !.code = code,
                                           !.role = "host", !.peer = peer]]
    BY DEF AdmitHost
  <2> HIDE DEF b, peer
  <2>3. b[i] \in SessionSet
    BY <2>1
  <2>4. [b[i] EXCEPT !.authing = FALSE, !.code = code, !.role = "host", !.peer = peer] \in SessionSet
    BY <1>1, <2>3 DEF SessionSet
  <2> QED BY <2>1, <2>2, <2>4
<1>4. unauth' \in Int /\ UNCHANGED <<free, db, presence>>
  BY DEF AdmitHost, World
<1> QED BY <1>2, <1>3, <1>4 DEF World, StoreTypes, PresenceTypes, presence

LEMMA RefuseTypes ==
  ASSUME World, NEW i \in Sessions, Refuse(i)
  PROVE  World'
<1> DEFINE z == [sess[i] EXCEPT !.closing = TRUE, !.authing = FALSE]
<1>1. z \in SessionSet
  <2>1. sess[i] \in SessionSet
    BY DEF World
  <2> QED BY <2>1 DEF SessionSet
<1>2. sess' = [sess EXCEPT ![i] = z] /\ UNCHANGED <<store, unauth, presence>>
  BY DEF Refuse
<1> HIDE DEF z
<1>3. sess' \in [Sessions -> SessionSet]
  BY <1>1, <1>2 DEF World
<1> QED BY <1>2, <1>3 DEF World, StoreTypes, PresenceTypes, store, presence

LEMMA StaysTyped ==
  ASSUME World, UNCHANGED <<store, sess, unauth, presence>>
  PROVE  World'
BY DEF World, StoreTypes, PresenceTypes, store, presence

LEMMA CloseTypes ==
  ASSUME World, NEW codes, CloseRooms(codes)
  PROVE  PresenceTypes' /\ sess' \in [Sessions -> SessionSet] /\ unauth' \in Int
BY ClosingIs DEF World, CloseRooms, PresenceTypes

LEMMA OpenedTypes ==
  ASSUME World, NEW olds \in SUBSET Codes, NEW code \in Codes, NEW r \in RoomSet,
         NEW n \in Counts, count \in Counts, Opened(olds, code, r, n)
  PROVE  World' /\ count' \in Counts
<1>1. CASE UNCHANGED <<store, sess, unauth, presence>> /\ Faulty /\ Fault(count)
  BY <1>1, StaysTyped, Bounds DEF Fault, Faulty, Counts
<1>2. CASE ~(UNCHANGED <<store, sess, unauth, presence>> /\ Faulty /\ Fault(count))
  <2>1. CloseRooms(olds) /\ count' = Issued(n)
    BY <1>2 DEF Opened
  <2>2. rooms' \in [Codes -> RoomSet]
    BY <1>2, Blank DEF Opened, World, StoreTypes
  <2>3. db' \in [Codes -> AuthoritySet]
    BY <1>2, Blank, AuthorityOf DEF Opened, World, StoreTypes
  <2>4. free' \in [Codes -> Int]
    BY <1>2 DEF Opened, World, StoreTypes
  <2>5. count' \in Counts
    <3>1. n.ids + 1 \in Nat /\ n.grants + 1 \in Nat
      BY DEF Counts
    <3> QED BY <2>1, <3>1 DEF Issued, Counts
  <2> QED BY <2>1, <2>2, <2>3, <2>4, <2>5, CloseTypes DEF World, StoreTypes
<1> QED BY <1>1, <1>2

LEMMA RetiredTypes ==
  ASSUME World, NEW olds \in SUBSET Codes, Retired(olds)
  PROVE  World'
<1>1. CloseRooms(olds)
  BY DEF Retired
<1>2. rooms' \in [Codes -> RoomSet] /\ db' \in [Codes -> AuthoritySet]
  BY Blank DEF Retired, World, StoreTypes
<1>3. free' \in [Codes -> Int]
  BY DEF Retired, World, StoreTypes
<1> QED BY <1>1, <1>2, <1>3, CloseTypes DEF World, StoreTypes

LEMMA ChangeTypes ==
  ASSUME World, count \in Counts, NEW code \in Codes, NEW r \in RoomSet,
         NEW s \in [Sessions -> SessionSet], NEW g \in SUBSET grace,
         NEW v \in [Codes -> SUBSET Sessions], NEW t \in [Codes -> SUBSET Sessions],
         NEW n \in Counts, Change(code, r, s, g, v, t, n)
  PROVE  World' /\ count' \in Counts
<1>1. CASE Faulty /\ Fault(count) /\ UNCHANGED <<store, sess, unauth, presence>>
  BY <1>1, StaysTyped, Bounds DEF Fault, Faulty, Counts
<1>2. CASE ~(Faulty /\ Fault(count) /\ UNCHANGED <<store, sess, unauth, presence>>)
  <2>1. /\ db' = [db EXCEPT ![code] = Authority(r)] /\ rooms' = [rooms EXCEPT ![code] = r]
        /\ sess' = s /\ grace' = g /\ voice' = v /\ routed' = t /\ count' = n
        /\ UNCHANGED <<free, unauth, fired>>
    BY <1>2 DEF Change
  <2> QED BY <2>1, AuthorityOf DEF World, StoreTypes, PresenceTypes
<1> QED BY <1>1, <1>2

-----------------------------------------------------------------------------
(***************************************************************************)
(* Types, shapes of derivations and sessions.                              *)
(***************************************************************************)

Shaped == Types /\ JobShape /\ SessionShape

(* What an operation other than those of the derivations leaves.           *)
LEMMA JobsKept == ASSUME JobShape, UNCHANGED jobs PROVE JobShape'
BY DEF JobShape

LEMMA Least ==
  ASSUME NEW T \in SUBSET Nat, T # {}
  PROVE  \E n \in T : \A m \in T : n <= m
<1>1. IsWellFoundedOn(OpToRel(<, Nat), Nat)
  BY NatLessThanWellFounded
<1>2. PICK n \in T : \A m \in T : ~ (<<m, n>> \in OpToRel(<, Nat))
  BY <1>1, WFMin
<1>3. ASSUME NEW m \in T PROVE n <= m
  <2>1. m < n => <<m, n>> \in OpToRel(<, Nat)
    BY DEF OpToRel
  <2>2. ~(m < n)
    BY <1>2, <2>1
  <2> QED BY <2>2
<1> QED BY <1>3

LEMMA NextJobIs ==
  ASSUME MayBegin, jobs \in [Jobs -> JobSet]
  PROVE  NextJob \in Jobs /\ jobs[NextJob].k = "none"
<1> DEFINE T == {j \in Jobs : jobs[j].k = "none"}
<1>1. T \in SUBSET Nat /\ T # {}
  BY Bounds DEF MayBegin, Jobs
<1>2. PICK n \in T : \A m \in T : n <= m
  BY <1>1, Least
<1>3. \A k \in 1..(n - 1) : k \in Jobs /\ ~(n <= k)
  BY <1>1, <1>2, Bounds DEF Jobs
<1>4. \E j \in Jobs : jobs[j].k = "none" /\ \A k \in 1..(j - 1) : jobs[k].k # "none"
  BY <1>2, <1>3
<1> QED BY <1>4 DEF NextJob

LEMMA BeginTypes ==
  ASSUME jobs \in [Jobs -> JobSet], JobShape, MayBegin, NEW job \in JobSet, Begin(job),
         \/ job.k = "login" /\ job.sess \in Sessions /\ job.code \in Codes /\ job.st = "begun"
         \/ /\ job.k \in {"password", "replace"} /\ job.room # 0 /\ job.code \in Codes
            /\ job.st = "ask"
  PROVE  jobs' \in [Jobs -> JobSet] /\ JobShape'
<1>1. NextJob \in Jobs
  BY NextJobIs
<1>2. /\ jobs' \in [Jobs -> JobSet]
      /\ \A j \in Jobs : jobs'[j] = IF j = NextJob THEN job ELSE jobs[j]
  BY <1>1 DEF Begin
<1> QED BY <1>2 DEF JobShape

LEMMA AnswerTypes ==
  ASSUME jobs \in [Jobs -> JobSet], JobShape, NEW j \in Jobs, jobs' = [jobs EXCEPT ![j] = Answered]
  PROVE  jobs' \in [Jobs -> JobSet] /\ JobShape'
<1>1. Answered.k = "answered" /\ Answered.st = "over"
  BY DEF Answered, NoJob
<1>2. jobs' \in [Jobs -> JobSet] /\ \A k \in Jobs : jobs'[k] = IF k = j THEN Answered ELSE jobs[k]
  BY Blank
<1> QED BY <1>1, <1>2 DEF JobShape

LEMMA SessionsShaped ==
  ASSUME SessionShape, sess \in [Sessions -> SessionSet], sess' \in [Sessions -> SessionSet],
         \A i \in Sessions : /\ sess'[i].st = sess[i].st /\ sess'[i].client = sess[i].client
                             /\ sess'[i].code = sess[i].code /\ sess'[i].role = sess[i].role
                             /\ sess'[i].revoked = sess[i].revoked
                             /\ sess[i].closing => sess'[i].closing
  PROVE  SessionShape'
BY DEF SessionShape, Authenticated

LEMMA CloseShaped ==
  ASSUME Types, SessionShape, NEW codes, CloseRooms(codes)
  PROVE  SessionShape'
<1>1. /\ sess \in [Sessions -> SessionSet] /\ sess' \in [Sessions -> SessionSet]
      /\ \A i \in Sessions : sess'[i] = sess[i] \/ sess'[i] = [sess[i] EXCEPT !.closing = TRUE]
  BY ClosingIs DEF Types, World, CloseRooms
<1> QED BY <1>1, SessionsShaped DEF SessionSet

LEMMA OpenedShaped ==
  ASSUME Types, SessionShape, NEW olds, NEW code, NEW r, NEW n, Opened(olds, code, r, n)
  PROVE  SessionShape'
<1>1. CASE CloseRooms(olds)
  BY <1>1, CloseShaped
<1>2. CASE UNCHANGED sess
  BY <1>2 DEF SessionShape, Authenticated
<1> QED BY <1>1, <1>2 DEF Opened

LEMMA AdmissionShaped ==
  ASSUME Shaped, NEW i \in Sessions, sess[i].st = "open", ~sess[i].revoked, NEW code \in Codes,
         NEW ids, NEW role \in {"viewer", "host"}, NEW peer,
         sess' = [Closing(sess, ids) EXCEPT ![i] = [@ EXCEPT !.authing = FALSE, !.code = code,
                                                      !.role = role, !.peer = peer]]
  PROVE  SessionShape'
<1> DEFINE b == Closing(sess, ids)
<1>1. /\ sess \in [Sessions -> SessionSet] /\ b \in [Sessions -> SessionSet]
      /\ \A k \in Sessions : b[k] = sess[k] \/ b[k] = [sess[k] EXCEPT !.closing = TRUE]
  BY ClosingIs DEF Shaped, Types, World
<1>2. sess' = [b EXCEPT ![i] = [@ EXCEPT !.authing = FALSE, !.code = code,
                                         !.role = role, !.peer = peer]]
  OBVIOUS
<1> HIDE DEF b
<1>3. b[i] \in SessionSet
  BY <1>1
<1>4. /\ \A k \in Sessions \ {i} : sess'[k] = b[k]
      /\ sess'[i].st = b[i].st /\ sess'[i].client = b[i].client /\ sess'[i].code = code
      /\ sess'[i].role = role /\ sess'[i].revoked = b[i].revoked
  <2> DEFINE a == [b[i] EXCEPT !.authing = FALSE, !.code = code, !.role = role, !.peer = peer]
  <2>1. sess' = [b EXCEPT ![i] = a]
    BY <1>2
  <2>2. /\ a.st = b[i].st /\ a.client = b[i].client /\ a.code = code
        /\ a.role = role /\ a.revoked = b[i].revoked
    BY <1>3 DEF SessionSet
  <2> HIDE DEF a
  <2> QED BY <1>1, <2>1, <2>2
<1>5. \A k \in Sessions : /\ b[k].st = sess[k].st /\ b[k].client = sess[k].client
                          /\ b[k].code = sess[k].code /\ b[k].role = sess[k].role
                          /\ b[k].revoked = sess[k].revoked /\ (sess[k].closing => b[k].closing)
  BY <1>1 DEF SessionSet
<1> QED BY <1>4, <1>5 DEF Shaped, SessionShape, Authenticated

LEMMA AdmitShaped ==
  ASSUME Shaped, NEW i \in Sessions, sess[i].st = "open", ~sess[i].revoked, NEW code \in Codes,
         NEW by, NEW cred, Admit(i, code, "viewer", by, cred)
  PROVE  SessionShape'
<1> DEFINE old == rooms[code].viewers[sess[i].client]
           p == IF old.peer = 0 THEN i ELSE old.peer
           o == {old.sess} \ {0}
<1>1. sess' = [Closing(sess, o) EXCEPT ![i] = [@ EXCEPT !.authing = FALSE, !.code = code,
                                                  !.role = "viewer", !.peer = p]]
  BY DEF Admit
<1> HIDE DEF p, o
<1> QED BY <1>1, AdmissionShaped

LEMMA AdmitHostShaped ==
  ASSUME Shaped, NEW i \in Sessions, sess[i].st = "open", ~sess[i].revoked, NEW code \in Codes,
         AdmitHost(i, code)
  PROVE  SessionShape'
<1> DEFINE c == sess[i].client
           old == rooms[code].host
           p == IF old.client = c THEN old.peer ELSE i
           o == IF old.client = c THEN {old.sess} \ {0} ELSE {}
<1>1. sess' = [Closing(sess, o) EXCEPT ![i] = [@ EXCEPT !.authing = FALSE, !.code = code,
                                                  !.role = "host", !.peer = p]]
  BY DEF AdmitHost
<1> HIDE DEF p, o
<1> QED BY <1>1, AdmissionShaped

LEMMA RefuseShaped ==
  ASSUME Types, SessionShape, NEW i \in Sessions, Refuse(i)
  PROVE  World' /\ SessionShape'
<1>1. World'
  BY RefuseTypes DEF Types
<1>2. \A k \in Sessions : k # i => sess'[k] = sess[k]
  BY DEF Refuse, Types, World
<1>3. sess'[i] = [sess[i] EXCEPT !.closing = TRUE, !.authing = FALSE]
  BY DEF Refuse, Types, World
<1>4. /\ sess'[i].st = sess[i].st /\ sess'[i].client = sess[i].client
      /\ sess'[i].code = sess[i].code /\ sess'[i].role = sess[i].role
      /\ sess'[i].revoked = sess[i].revoked /\ sess'[i].closing
  BY <1>3 DEF Types, World, SessionSet
<1> QED BY <1>1, <1>2, <1>4, SessionsShaped DEF Types, World

LEMMA ShapedAccept == ASSUME Shaped, Accept PROVE Shaped'
<1>1. PICK c \in Clients, i \in Sessions :
        /\ sess[i].st = "none" /\ unauth' = unauth + 1
        /\ sess' = [sess EXCEPT ![i] = [NoSession EXCEPT !.st = "open", !.client = c]]
  BY DEF Accept
<1> DEFINE n == [NoSession EXCEPT !.st = "open", !.client = c]
<1>2. n \in SessionSet /\ n.client \in Clients /\ n.role = "none" /\ ~n.revoked
  BY Blank DEF NoSession, SessionSet
<1>3. sess' = [sess EXCEPT ![i] = n]
  BY <1>1
<1> HIDE DEF n
<1>4. sess' \in [Sessions -> SessionSet] /\ \A k \in Sessions : sess'[k] = IF k = i THEN n ELSE sess[k]
  BY <1>2, <1>3 DEF Shaped, Types, World
<1>5. UNCHANGED <<rooms, free, db, grace, fired, voice, routed, jobs, count>>
  BY DEF Accept, store, presence
<1>6. Types'
  BY <1>1, <1>4, <1>5 DEF Shaped, Types, World, StoreTypes, PresenceTypes
<1>7. SessionShape'
  BY <1>2, <1>4 DEF Shaped, SessionShape, Authenticated
<1> QED BY <1>5, <1>6, <1>7, JobsKept DEF Shaped

LEMMA ShapedAuthenticateHost == ASSUME Shaped, AuthenticateHost PROVE Shaped'
<1>1. PICK i \in Sessions, code \in Open :
        /\ MayConnect(i) /\ ~sess[i].authing /\ (Refuse(i) \/ AdmitHost(i, code))
  BY DEF AuthenticateHost
<1>2. code \in Codes /\ UNCHANGED <<jobs, count>>
  BY DEF Open, AuthenticateHost
<1>3. World' /\ SessionShape'
  <2>1. CASE Refuse(i)
    BY <2>1, RefuseShaped DEF Shaped
  <2>2. CASE AdmitHost(i, code)
    BY <1>1, <1>2, <2>2, AdmitHostTypes, AdmitHostShaped DEF MayConnect, Shaped, Types
  <2> QED BY <1>1, <2>1, <2>2
<1> QED BY <1>2, <1>3, JobsKept DEF Shaped, Types

LEMMA ShapedAuthenticateViewer == ASSUME Shaped, AuthenticateViewer PROVE Shaped'
<1>1. PICK i \in Sessions, code \in Open, grant \in 0..count.grants :
        /\ MayConnect(i) /\ ~sess[i].authing
        /\ \/ Refuse(i)
           \/ Admit(i, code, "viewer", IF grant = 0 THEN "code" ELSE "grant", grant)
  BY DEF AuthenticateViewer
<1>2. code \in Codes /\ grant \in Nat /\ UNCHANGED <<jobs, count>>
  BY DEF Open, AuthenticateViewer, Shaped, Types, Counts
<1>3. World' /\ SessionShape'
  <2>1. CASE Refuse(i)
    BY <2>1, RefuseShaped DEF Shaped
  <2>2. CASE Admit(i, code, "viewer", IF grant = 0 THEN "code" ELSE "grant", grant)
    <3> DEFINE by == IF grant = 0 THEN "code" ELSE "grant"
    <3>1. by \in {"code", "grant", "password"} /\ Admit(i, code, "viewer", by, grant)
      BY <2>2
    <3> HIDE DEF by
    <3>2. sess[i].client \in Clients /\ sess[i].st = "open" /\ ~sess[i].revoked
      BY <1>1 DEF MayConnect, Shaped, SessionShape
    <3>3. World'
      BY <1>2, <3>1, <3>2, AdmitTypes DEF Shaped, Types
    <3> QED BY <1>2, <3>1, <3>2, <3>3, AdmitShaped
  <2> QED BY <1>1, <2>1, <2>2
<1> QED BY <1>2, <1>3, JobsKept DEF Shaped, Types

LEMMA ShapedAuthenticateWithPassword == ASSUME Shaped, AuthenticateWithPassword PROVE Shaped'
<1>1. PICK i \in Sessions, code \in Open, word \in Words :
        /\ MayBegin /\ sess' = [sess EXCEPT ![i].authing = TRUE]
        /\ Begin([NoJob EXCEPT !.k = "login", !.st = "begun", !.sess = i, !.code = code, !.word = word])
  BY DEF AuthenticateWithPassword
<1> DEFINE job == [NoJob EXCEPT !.k = "login", !.st = "begun", !.sess = i, !.code = code, !.word = word]
<1>2. job \in JobSet /\ job.k = "login" /\ job.sess = i /\ job.code \in Codes /\ job.st = "begun"
  <2>1. NoJob \in JobSet /\ i \in Named /\ word \in Nat /\ code \in Codes
    BY Blank, Bounds DEF Words, Open
  <2> QED BY <2>1 DEF JobSet
<1> HIDE DEF job
<1>3. jobs' \in [Jobs -> JobSet] /\ JobShape'
  BY <1>1, <1>2, BeginTypes DEF Shaped, Types, job
<1>4. UNCHANGED <<rooms, free, db, unauth, grace, fired, voice, routed, count>>
  BY DEF AuthenticateWithPassword, store, presence
<1>5. /\ sess' \in [Sessions -> SessionSet]
      /\ \A k \in Sessions : sess'[k] = sess[k] \/ sess'[k] = [sess[k] EXCEPT !.authing = TRUE]
  BY <1>1 DEF Shaped, Types, World, SessionSet
<1>6. SessionShape'
  BY <1>5, SessionsShaped DEF Shaped, Types, World, SessionSet
<1> QED BY <1>3, <1>4, <1>5, <1>6 DEF Shaped, Types, World, StoreTypes, PresenceTypes

(* A derivation that moves on keeps what it was begun for.                 *)
LEMMA JobMoves ==
  ASSUME jobs \in [Jobs -> JobSet], JobShape, jobs' \in [Jobs -> JobSet],
         \A j \in Jobs : \/ jobs'[j] = jobs[j]
                         \/ /\ jobs'[j].k = jobs[j].k /\ jobs'[j].sess = jobs[j].sess
                            /\ jobs'[j].code = jobs[j].code
                            /\ jobs[j].k \in {"password", "replace"} => jobs'[j].room = jobs[j].room
                            /\ jobs[j].st \notin {"none", "over"}
                            /\ jobs'[j].st \notin {"none", "over", "begun"}
  PROVE  JobShape'
BY DEF JobShape

LEMMA ShapedChallenge == ASSUME Shaped, Challenge PROVE Shaped'
<1>1. PICK j \in Jobs :
        /\ jobs[j].k = "login" /\ jobs[j].st = "begun"
        /\ jobs' = [jobs EXCEPT ![j] = [@ EXCEPT !.st = "ask", !.room = rooms[jobs[j].code].id,
               !.material = IF rooms[jobs[j].code].policy = "private" THEN rooms[jobs[j].code].pw ELSE Nothing]]
        /\ UNCHANGED <<store, sess, unauth, presence, gate, count>>
  BY DEF Challenge
<1> DEFINE r == rooms[jobs[j].code]
           m == IF r.policy = "private" THEN r.pw ELSE Nothing
           job == [jobs[j] EXCEPT !.st = "ask", !.room = r.id, !.material = m]
<1>2. r \in RoomSet
  BY <1>1 DEF Shaped, Types, World, StoreTypes, JobShape
<1>3. m \in Materials /\ r.id \in Nat
  BY <1>2, Blank DEF RoomSet
<1>4. jobs[j] \in JobSet /\ jobs \in [Jobs -> JobSet]
  BY DEF Shaped, Types
<1> HIDE DEF r, m
<1>5. /\ job \in JobSet /\ job.k = jobs[j].k /\ job.sess = jobs[j].sess
      /\ job.code = jobs[j].code /\ job.st = "ask"
  BY <1>3, <1>4 DEF JobSet
<1>6. jobs' = [jobs EXCEPT ![j] = job]
  BY <1>1 DEF r, m
<1> HIDE DEF job
<1>7. jobs' \in [Jobs -> JobSet] /\ \A k \in Jobs : jobs'[k] = IF k = j THEN job ELSE jobs[k]
  BY <1>4, <1>5, <1>6
<1>8. JobShape'
  BY <1>1, <1>4, <1>5, <1>7, JobMoves DEF Shaped
<1>9. World' /\ count' \in Counts
  BY <1>1, StaysTyped DEF Shaped, Types
<1>10. SessionShape'
  BY <1>1 DEF Shaped, SessionShape, Authenticated
<1> QED BY <1>7, <1>8, <1>9, <1>10 DEF Shaped, Types

LEMMA StaysShaped ==
  ASSUME Types, SessionShape, UNCHANGED <<store, sess, unauth, presence>>
  PROVE  World' /\ SessionShape'
<1>1. World'
  BY StaysTyped DEF Types
<1> QED BY <1>1 DEF SessionShape, Authenticated

LEMMA ShapedCommitLogin == ASSUME Shaped, CommitLogin PROVE Shaped'
<1>1. PICK j \in Jobs :
        /\ jobs[j].k = "login" /\ jobs[j].st = "done" /\ jobs' = [jobs EXCEPT ![j] = Answered]
        /\ \/ /\ LoginHolds(jobs[j])
              /\ Admit(jobs[j].sess, jobs[j].code, "viewer", "password", jobs[j].word)
           \/ Refuse(jobs[j].sess)
           \/ UNCHANGED <<store, sess, unauth, presence>>
  BY DEF CommitLogin
<1> DEFINE i == jobs[j].sess
           code == jobs[j].code
           word == jobs[j].word
<1>2. i \in Sessions /\ code \in Codes /\ word \in Nat
  BY <1>1 DEF Shaped, JobShape, Types, JobSet
<1>3. World' /\ SessionShape'
  <2>1. CASE Refuse(i)
    BY <1>2, <2>1, RefuseShaped DEF Shaped
  <2>2. CASE LoginHolds(jobs[j]) /\ Admit(i, code, "viewer", "password", word)
    <3>1. MayConnect(i) /\ Admit(i, code, "viewer", "password", word)
      BY <2>2 DEF LoginHolds
    <3> HIDE DEF i, code, word
    <3>2. sess[i].client \in Clients /\ sess[i].st = "open" /\ ~sess[i].revoked
      BY <1>2, <3>1 DEF MayConnect, Shaped, SessionShape
    <3>3. World'
      BY <1>2, <3>1, <3>2, AdmitTypes DEF Shaped, Types
    <3> QED BY <1>2, <3>1, <3>2, <3>3, AdmitShaped
  <2>3. CASE UNCHANGED <<store, sess, unauth, presence>>
    BY <2>3, StaysShaped DEF Shaped
  <2> QED BY <1>1, <2>1, <2>2, <2>3
<1>4. jobs' \in [Jobs -> JobSet] /\ JobShape'
  BY <1>1, AnswerTypes DEF Shaped, Types
<1> QED BY <1>3, <1>4 DEF CommitLogin, Shaped, Types

LEMMA ShapedReject == ASSUME Shaped, Reject PROVE Shaped'
<1>1. PICK i \in Sessions :
        /\ sess' = [sess EXCEPT ![i].closing = TRUE] /\ Faulty /\ Fault(count)
        /\ UNCHANGED <<store, unauth, presence, jobs, gate>>
  BY DEF Reject
<1>2. /\ sess' \in [Sessions -> SessionSet]
      /\ \A k \in Sessions : sess'[k] = sess[k] \/ sess'[k] = [sess[k] EXCEPT !.closing = TRUE]
  BY <1>1 DEF Shaped, Types, World, SessionSet
<1>3. SessionShape'
  BY <1>2, SessionsShaped DEF Shaped, Types, World, SessionSet
<1>4. World'
  BY <1>1, <1>2 DEF Shaped, Types, World, StoreTypes, PresenceTypes, store, presence
<1>5. count' \in Counts
  BY <1>1, Bounds DEF Shaped, Types, Fault, Faulty, Counts
<1> QED BY <1>1, <1>3, <1>4, <1>5, JobsKept DEF Shaped, Types

LEMMA ShapedDisconnect == ASSUME Shaped, Vacant, Disconnect PROVE Shaped'
<1>1. PICK i \in Sessions :
        LET s == sess[i]
            r == rooms[s.code]
            left == s.role = "viewer" /\ r.viewers[s.client].peer = s.peer /\ r.viewers[s.client].sess = i
            hostLeft == s.role = "host" /\ r.host.peer = s.peer /\ r.host.sess = i
            after == IF left THEN [r EXCEPT !.viewers[s.client] = [@ EXCEPT !.sess = 0, !.left = i]]
                     ELSE [r EXCEPT !.host.sess = 0]
        IN  /\ s.st = "open"
            /\ sess' = [sess EXCEPT ![i] = [NoSession EXCEPT !.st = "gone"]]
            /\ unauth' = IF s.revoked \/ Authenticated(i) THEN unauth ELSE unauth - 1
            /\ IF ~s.revoked /\ Authenticated(i) /\ (left \/ hostLeft)
               THEN rooms' = [rooms EXCEPT ![s.code] =
                                IF Occupied(after) THEN after ELSE [after EXCEPT !.age = 0]]
               ELSE UNCHANGED rooms
            /\ grace' = IF ~s.revoked /\ Authenticated(i) /\ left
                        THEN grace \cup {[code |-> s.code, peer |-> s.peer, client |-> s.client, id |-> i]}
                        ELSE grace
            /\ UNCHANGED <<free, db, fired, voice, routed, jobs, gate, count>>
  BY DEF Disconnect
<1> DEFINE s == sess[i]
           r == rooms[s.code]
           left == s.role = "viewer" /\ r.viewers[s.client].peer = s.peer /\ r.viewers[s.client].sess = i
           hostLeft == s.role = "host" /\ r.host.peer = s.peer /\ r.host.sess = i
           after == IF left THEN [r EXCEPT !.viewers[s.client] = [@ EXCEPT !.sess = 0, !.left = i]]
                    ELSE [r EXCEPT !.host.sess = 0]
           next == IF Occupied(after) THEN after ELSE [after EXCEPT !.age = 0]
           gone == [NoSession EXCEPT !.st = "gone"]
<1>2. gone \in SessionSet /\ gone.role = "none" /\ gone.st = "gone" /\ ~gone.revoked
  BY Blank DEF NoSession, SessionSet
<1>3. sess' \in [Sessions -> SessionSet] /\ \A k \in Sessions : sess'[k] = IF k = i THEN gone ELSE sess[k]
  BY <1>1, <1>2 DEF Shaped, Types, World
<1>4. SessionShape'
  BY <1>2, <1>3 DEF Shaped, SessionShape, Authenticated
<1>5. s.client \in Clients /\ (Authenticated(i) => s.code \in Codes)
  BY <1>1 DEF Shaped, SessionShape
<1>6. ASSUME Authenticated(i), left \/ hostLeft PROVE next \in RoomSet
  <2>1. r \in RoomSet
    BY <1>5, <1>6 DEF Shaped, Types, World, StoreTypes
  <2>2. after \in RoomSet
    <3>1. CASE left
      <4>1. r.viewers[s.client] \in Viewers
        BY <1>5, <2>1 DEF RoomSet
      <4>2. [r.viewers[s.client] EXCEPT !.sess = 0, !.left = i] \in Viewers
        BY <4>1, Bounds DEF Viewers
      <4> HIDE DEF r, s
      <4> QED BY <1>5, <2>1, <3>1, <4>2 DEF RoomSet
    <3>2. CASE ~left
      <4> HIDE DEF r, s
      <4> QED BY <2>1, <3>2, Bounds DEF RoomSet
    <3> QED BY <3>1, <3>2
  <2> HIDE DEF after
  <2> QED BY <2>2 DEF RoomSet
<1>7. rooms' \in [Codes -> RoomSet]
  <2>1. CASE ~s.revoked /\ Authenticated(i) /\ (left \/ hostLeft)
    <3>1. rooms' = [rooms EXCEPT ![s.code] = next]
      BY <1>1, <2>1
    <3> HIDE DEF next, s, left, hostLeft
    <3> QED BY <1>5, <1>6, <2>1, <3>1 DEF Shaped, Types, World, StoreTypes
  <2>2. CASE ~(~s.revoked /\ Authenticated(i) /\ (left \/ hostLeft))
    BY <1>1, <2>2 DEF Shaped, Types, World, StoreTypes
  <2> QED BY <2>1, <2>2
<1>8. grace' \subseteq Timer
  <2>1. ASSUME Authenticated(i), left
        PROVE  [code |-> s.code, peer |-> s.peer, client |-> s.client, id |-> i] \in Timer
    <3>1. r.viewers[s.client] \in Viewers
      BY <1>5, <2>1 DEF RoomSet, Shaped, Types, World, StoreTypes
    <3>2. s.peer \in Sessions
      <4>1. s.peer # 0
        BY <1>5, <2>1, Bounds DEF Vacant
      <4>2. s \in SessionSet
        BY DEF Shaped, Types, World
      <4> HIDE DEF s
      <4> QED BY <4>1, <4>2 DEF SessionSet, Named, Sessions
    <3> QED BY <1>5, <2>1, <3>2 DEF Timer
  <2> QED BY <1>1, <2>1 DEF Shaped, Types, World, PresenceTypes
<1>9. unauth' \in Int
  <2>1. unauth \in Int /\ unauth - 1 \in Int
    BY DEF Shaped, Types, World
  <2>2. unauth' = unauth \/ unauth' = unauth - 1
    BY <1>1
  <2> QED BY <2>1, <2>2
<1> QED BY <1>1, <1>3, <1>4, <1>7, <1>8, <1>9, JobsKept
        DEF Shaped, Types, World, StoreTypes, PresenceTypes

LEMMA ShapedSubscribe == ASSUME Shaped, Vacant, Subscribe PROVE Shaped'
<1>1. PICK i \in Sessions :
        /\ sess[i].role = "viewer" /\ Current(i)
        /\ voice' = [voice EXCEPT ![sess[i].code] = @ \cup {sess[i].peer}]
        /\ UNCHANGED <<store, sess, unauth, grace, fired, routed, jobs, gate, count>>
  BY DEF Subscribe
<1>2. sess[i].code \in Codes
  BY <1>1 DEF Current, Shaped, SessionShape, Authenticated
<1>3. PICK c \in Clients : rooms[sess[i].code].viewers[c].peer = sess[i].peer
                           /\ rooms[sess[i].code].viewers[c].sess = i
  BY <1>1 DEF Current
<1>4. voice' \in [Codes -> SUBSET Sessions]
  <2>1. sess[i].peer \in Named /\ sess[i].peer # 0
    BY <1>2, <1>3, Bounds DEF Vacant, Shaped, Types, World, SessionSet
  <2>2. sess[i].peer \in Sessions
    BY <2>1 DEF Named, Sessions
  <2> QED BY <1>1, <1>2, <2>2 DEF Shaped, Types, World, PresenceTypes
<1>5. SessionShape'
  BY <1>1 DEF Shaped, SessionShape, Authenticated
<1> QED BY <1>1, <1>4, <1>5, JobsKept DEF Shaped, Types, World, StoreTypes, PresenceTypes, store

LEMMA ShapedGoOff == ASSUME Shaped, GoOff PROVE Shaped'
<1>1. fired' \subseteq Timer
  BY DEF GoOff, Shaped, Types, World, PresenceTypes
<1>2. UNCHANGED <<rooms, free, db, sess, unauth, grace, voice, routed, jobs, count>>
  BY DEF GoOff, store
<1> QED BY <1>1, <1>2, JobsKept
        DEF Shaped, Types, World, StoreTypes, PresenceTypes, SessionShape, Authenticated

LEMMA ShapedGraceEnds == ASSUME Shaped, GraceEnds PROVE Shaped'
<1>1. PICK t \in fired :
        /\ fired' = fired \ {t} /\ grace' \subseteq grace
        /\ \/ UNCHANGED <<rooms, voice, routed>>
           \/ /\ rooms' = [rooms EXCEPT ![t.code].viewers[t.client] = NoViewer]
              /\ voice' = [voice EXCEPT ![t.code] = @ \ {t.peer}]
              /\ routed' = [routed EXCEPT ![t.code] = @ \ {t.peer}]
        /\ UNCHANGED <<free, db, sess, unauth, jobs, gate, count>>
  BY DEF GraceEnds
<1>2. t.code \in Codes /\ t.client \in Clients
  BY DEF Shaped, Types, World, PresenceTypes, Timer
<1>3. rooms' \in [Codes -> RoomSet]
  <2>1. rooms[t.code] \in RoomSet
    BY <1>2 DEF Shaped, Types, World, StoreTypes
  <2>2. [rooms[t.code] EXCEPT !.viewers[t.client] = NoViewer] \in RoomSet
    BY <1>2, <2>1, Blank DEF RoomSet
  <2> QED BY <1>1, <1>2, <2>2 DEF Shaped, Types, World, StoreTypes
<1>4. PresenceTypes'
  BY <1>1 DEF Shaped, Types, World, PresenceTypes
<1> QED BY <1>1, <1>3, <1>4, JobsKept
        DEF Shaped, Types, World, StoreTypes, SessionShape, Authenticated

LEMMA LeftSafe ==
  ASSUME Shaped, MayChange
  PROVE  Changed \in Counts /\ [Changed EXCEPT !.grants = @ + 1] \in Counts
<1>1. count \in Counts /\ count.changes - 1 \in Nat /\ count.grants + 1 \in Nat
  BY DEF Shaped, Types, MayChange, Counts
<1> QED BY <1>1 DEF Changed, Counts

LEMMA ShapedSetViewerGrant == ASSUME Shaped, ViewersHeld, SetViewerGrant PROVE Shaped'
<1>1. PICK code \in Open, rotate \in BOOLEAN :
        /\ MayChange /\ Rotated(code, IF rotate THEN count.grants + 1 ELSE 0)
  BY DEF SetViewerGrant
<1> DEFINE grant == IF rotate THEN count.grants + 1 ELSE 0
           r == rooms[code]
           revoked == Revocable(r)
           peers == {r.viewers[c].peer : c \in revoked}
           ids == {r.viewers[c].sess : c \in revoked} \ {0}
           left == [r EXCEPT !.grant = grant,
                             !.viewers = [c \in Clients |-> IF c \in revoked THEN NoViewer ELSE @[c]]]
           next == IF Occupied(r) /\ ~Occupied(left) THEN [left EXCEPT !.age = 0] ELSE left
           s == [i \in Sessions |-> IF i \in ids THEN [sess[i] EXCEPT !.revoked = TRUE, !.closing = TRUE]
                                    ELSE sess[i]]
           g == grace \ Timers(code, peers)
           v == [voice EXCEPT ![code] = @ \ peers]
           t == [routed EXCEPT ![code] = @ \ peers]
           n == [Changed EXCEPT !.grants = @ + 1]
<1>2. Change(code, next, s, g, v, t, n)
  BY <1>1 DEF Rotated
<1>3. code \in Codes /\ r \in RoomSet /\ grant \in Nat
  BY DEF Open, Shaped, Types, World, StoreTypes, Counts
<1>4. next \in RoomSet
  <2>1. left \in RoomSet
    <3>1. [c \in Clients |-> IF c \in revoked THEN NoViewer ELSE r.viewers[c]] \in [Clients -> Viewers]
      BY <1>3, Blank DEF RoomSet
    <3> HIDE DEF r, grant, revoked
    <3> QED BY <1>3, <3>1 DEF RoomSet
  <2> HIDE DEF left
  <2> QED BY <2>1 DEF RoomSet
<1>5. s \in [Sessions -> SessionSet]
  BY DEF Shaped, Types, World, SessionSet
<1>6. g \in SUBSET grace /\ v \in [Codes -> SUBSET Sessions] /\ t \in [Codes -> SUBSET Sessions]
  BY <1>3 DEF Shaped, Types, World, PresenceTypes
<1>7. n \in Counts
  BY <1>1, LeftSafe
<1>8. World' /\ count' \in Counts
  <2> HIDE DEF next, s, g, v, t, n
  <2> QED BY <1>2, <1>3, <1>4, <1>5, <1>6, <1>7, ChangeTypes DEF Shaped, Types
<1>9. SessionShape'
  <2>1. CASE UNCHANGED sess
    BY <2>1 DEF Shaped, SessionShape, Authenticated
  <2>2. CASE sess' = s
    <3>1. \A k \in Sessions : k \in ids => sess[k].role = "viewer"
      BY <1>3 DEF ViewersHeld, Revocable
    <3>2. \A k \in Sessions :
            /\ s[k].st = sess[k].st /\ s[k].client = sess[k].client
            /\ s[k].code = sess[k].code /\ s[k].role = sess[k].role
            /\ k \notin ids => s[k] = sess[k]
            /\ s[k].revoked => s[k].closing /\ s[k].role # "none"
      <4> HIDE DEF ids
      <4> QED BY <3>1 DEF Shaped, Types, World, SessionShape, SessionSet, Authenticated
    <3> HIDE DEF s
    <3> QED BY <2>2, <3>2 DEF Shaped, SessionShape, Authenticated
  <2> QED BY <1>2, <2>1, <2>2 DEF Change
<1> QED BY <1>8, <1>9, JobsKept DEF SetViewerGrant, Shaped, Types

LEMMA ChangeShaped ==
  ASSUME Shaped, NEW code \in Codes, NEW r \in RoomSet, NEW n \in Counts,
         Change(code, r, sess, grace, voice, routed, n)
  PROVE  World' /\ count' \in Counts /\ SessionShape'
<1>1. World' /\ count' \in Counts
  BY ChangeTypes DEF Shaped, Types, World, PresenceTypes
<1>2. UNCHANGED sess
  BY DEF Change
<1> QED BY <1>1, <1>2 DEF Shaped, SessionShape, Authenticated

LEMMA ShapedSetCodeEntryPolicy == ASSUME Shaped, SetCodeEntryPolicy PROVE Shaped'
<1>1. PICK code \in Open, policy \in {"open", "private"} :
        MayChange /\ Change(code, [rooms[code] EXCEPT !.policy = policy], sess, grace, voice, routed, Changed)
  BY DEF SetCodeEntryPolicy
<1> DEFINE r == [rooms[code] EXCEPT !.policy = policy]
<1>2. code \in Codes /\ r \in RoomSet
  BY DEF Open, Shaped, Types, World, StoreTypes, RoomSet, Policies
<1> HIDE DEF r
<1>3. Change(code, r, sess, grace, voice, routed, Changed) /\ Changed \in Counts
  BY <1>1, LeftSafe DEF r
<1>4. World' /\ count' \in Counts /\ SessionShape'
  BY <1>2, <1>3, ChangeShaped
<1> QED BY <1>4, JobsKept DEF SetCodeEntryPolicy, Shaped, Types

LEMMA ShapedBeginChange == ASSUME Shaped, BeginChange PROVE Shaped'
<1>1. PICK code \in Open, k \in {"password", "replace"}, word \in Words :
        /\ MayChange /\ MayBegin
        /\ Begin([NoJob EXCEPT !.k = k, !.st = "ask", !.code = code, !.room = rooms[code].id,
                               !.word = word, !.policy = "private"])
        /\ count' = Changed
        /\ UNCHANGED <<store, sess, unauth, presence, gate>>
  BY DEF BeginChange
<1> DEFINE job == [NoJob EXCEPT !.k = k, !.st = "ask", !.code = code, !.room = rooms[code].id,
                               !.word = word, !.policy = "private"]
<1>2. /\ job \in JobSet /\ job.k \in {"password", "replace"} /\ job.room # 0
      /\ job.code \in Codes /\ job.st = "ask"
  <2>1. NoJob \in JobSet /\ word \in Nat /\ code \in Codes /\ rooms[code].id # 0 /\ rooms[code].id \in Nat
    BY Blank DEF Words, Open, Shaped, Types, World, StoreTypes, RoomSet
  <2> QED BY <2>1 DEF JobSet, Policies
<1> HIDE DEF job
<1>3. jobs' \in [Jobs -> JobSet] /\ JobShape'
  BY <1>1, <1>2, BeginTypes DEF Shaped, Types, job
<1>4. World' /\ SessionShape' /\ count' \in Counts
  BY <1>1, StaysShaped, LeftSafe DEF Shaped
<1> QED BY <1>3, <1>4 DEF Shaped, Types

LEMMA ShapedCommitPassword == ASSUME Shaped, CommitPassword PROVE Shaped'
<1>1. PICK j \in Jobs :
        /\ jobs[j].k = "password" /\ jobs[j].st = "done" /\ jobs' = [jobs EXCEPT ![j] = Answered]
        /\ \/ Change(jobs[j].code, [rooms[jobs[j].code] EXCEPT !.pw = [word |-> jobs[j].word, salt |-> j]],
                     sess, grace, voice, routed, count)
           \/ UNCHANGED <<store, sess, unauth, presence, count>>
  BY DEF CommitPassword
<1> DEFINE code == jobs[j].code
           pw == [word |-> jobs[j].word, salt |-> j]
           r == [rooms[code] EXCEPT !.pw = pw]
<1>2. code \in Codes /\ pw \in Materials
  BY <1>1, Bounds DEF Shaped, JobShape, Types, JobSet, Jobs, Materials
<1>3. r \in RoomSet
  <2> HIDE DEF code, pw
  <2> QED BY <1>2 DEF Shaped, Types, World, StoreTypes, RoomSet
<1>4. World' /\ SessionShape' /\ count' \in Counts
  <2>1. CASE Change(code, r, sess, grace, voice, routed, count)
    <3> HIDE DEF code, r
    <3> QED BY <1>2, <1>3, <2>1, ChangeShaped DEF Shaped, Types
  <2>2. CASE UNCHANGED <<store, sess, unauth, presence, count>>
    BY <2>2, StaysShaped DEF Shaped, Types
  <2> QED BY <1>1, <2>1, <2>2
<1>5. jobs' \in [Jobs -> JobSet] /\ JobShape'
  BY <1>1, AnswerTypes DEF Shaped, Types
<1> QED BY <1>4, <1>5 DEF Shaped, Types

LEMMA FreshIs ==
  ASSUME Shaped, NEW policy \in {"none", "open", "private"}, NEW pw \in Materials
  PROVE  FreshRoom(policy, pw) \in RoomSet
<1>1. count.ids + 1 \in Nat /\ count.grants + 1 \in Nat /\ NoRoom \in RoomSet
  BY Blank DEF Shaped, Types, Counts
<1> QED BY <1>1 DEF FreshRoom, RoomSet, Policies

LEMMA ShapedCommitReplace == ASSUME Shaped, CommitReplace PROVE Shaped'
<1>1. PICK j \in Jobs, code \in Codes :
        /\ jobs[j].k = "replace" /\ jobs[j].st = "done" /\ jobs' = [jobs EXCEPT ![j] = Answered]
        /\ \/ Opened({jobs[j].code}, code,
                     FreshRoom(jobs[j].policy, [word |-> jobs[j].word, salt |-> j]), count)
           \/ UNCHANGED <<store, sess, unauth, presence, count>>
  BY DEF CommitReplace
<1> DEFINE old == jobs[j].code
           pw == [word |-> jobs[j].word, salt |-> j]
           policy == jobs[j].policy
           r == FreshRoom(policy, pw)
<1>2. old \in Codes /\ pw \in Materials /\ policy \in {"none", "open", "private"}
  BY <1>1, Bounds DEF Shaped, JobShape, Types, JobSet, Jobs, Materials, Policies
<1>3. r \in RoomSet
  <2> HIDE DEF policy, pw
  <2> QED BY <1>2, FreshIs
<1>4. World' /\ SessionShape' /\ count' \in Counts
  <2>1. CASE Opened({old}, code, r, count)
    <3> HIDE DEF old, r
    <3>1. {old} \in SUBSET Codes
      BY <1>2
    <3> QED BY <1>3, <2>1, <3>1, OpenedTypes, OpenedShaped DEF Shaped, Types
  <2>2. CASE UNCHANGED <<store, sess, unauth, presence, count>>
    BY <2>2, StaysShaped DEF Shaped, Types
  <2> QED BY <1>1, <2>1, <2>2
<1>5. jobs' \in [Jobs -> JobSet] /\ JobShape'
  BY <1>1, AnswerTypes DEF Shaped, Types
<1> QED BY <1>4, <1>5 DEF Shaped, Types

LEMMA ShapedCreateRoom == ASSUME Shaped, CreateRoom PROVE Shaped'
<1>1. PICK code \in Codes, policy \in {"open", "private"} :
        /\ MayChange
        /\ \/ Opened({}, code, FreshRoom(policy, Nothing), Changed)
           \/ \E old \in Candidates : \/ Opened({old}, code, FreshRoom(policy, Nothing), Changed)
                                      \/ Faulty /\ Fault(Changed) /\ Retired({old})
  BY DEF CreateRoom
<1>2. FreshRoom(policy, Nothing) \in RoomSet /\ Changed \in Counts
  BY <1>1, FreshIs, LeftSafe, Blank
<1>3. \A old \in Candidates : old \in Codes
  BY DEF Candidates, Open
<1>4. World' /\ SessionShape' /\ count' \in Counts
  <2>1. ASSUME NEW olds \in SUBSET Codes, Opened(olds, code, FreshRoom(policy, Nothing), Changed)
        PROVE  World' /\ SessionShape' /\ count' \in Counts
    BY <1>2, <2>1, OpenedTypes, OpenedShaped DEF Shaped, Types
  <2>2. ASSUME NEW old \in Codes, Faulty, Fault(Changed), Retired({old})
        PROVE  World' /\ SessionShape' /\ count' \in Counts
    <3>1. World' /\ SessionShape'
      BY <2>2, RetiredTypes, CloseShaped DEF Shaped, Types, Retired
    <3>2. Changed.faults = count.faults /\ count.faults \in Nat
      BY Bounds DEF Changed, Shaped, Types, Counts
    <3>3. count' \in Counts
      BY <1>2, <2>2, <3>2, Bounds DEF Fault, Faulty, Counts
    <3> QED BY <3>1, <3>3
  <2>3. CASE Opened({}, code, FreshRoom(policy, Nothing), Changed)
    BY <2>1, <2>3
  <2>4. ASSUME NEW old \in Candidates, Opened({old}, code, FreshRoom(policy, Nothing), Changed)
        PROVE  World' /\ SessionShape' /\ count' \in Counts
    <3>1. {old} \in SUBSET Codes
      BY <1>3
    <3> QED BY <2>1, <2>4, <3>1
  <2> QED BY <1>1, <1>3, <2>2, <2>3, <2>4
<1> QED BY <1>4, JobsKept DEF CreateRoom, Shaped, Types

LEMMA ShapedRoomAges == ASSUME Shaped, RoomAges PROVE Shaped'
<1>1. PICK code \in Open : rooms' = [rooms EXCEPT ![code].age = @ + 1] /\ MayChange /\ count' = Changed
  BY DEF RoomAges
<1>2. UNCHANGED <<free, db, sess, unauth, grace, fired, voice, routed, jobs>>
  BY DEF RoomAges, presence
<1>3. rooms[code] \in RoomSet /\ code \in Codes
  BY DEF Open, Shaped, Types, World, StoreTypes
<1>4. [rooms[code] EXCEPT !.age = @ + 1] \in RoomSet
  <2>1. rooms[code].age + 1 \in Nat
    BY <1>3 DEF RoomSet
  <2> QED BY <1>3, <2>1 DEF RoomSet
<1>5. rooms' \in [Codes -> RoomSet]
  BY <1>1, <1>3, <1>4 DEF Shaped, Types, World, StoreTypes
<1>6. SessionShape'
  BY <1>2 DEF Shaped, SessionShape, Authenticated
<1> QED BY <1>1, <1>2, <1>5, <1>6, JobsKept, LeftSafe DEF Shaped, Types, World, StoreTypes, PresenceTypes

LEMMA ShapedRetire == ASSUME Shaped, Retire PROVE Shaped'
<1>1. PICK codes \in {{c \in Open : ~Occupied(rooms[c]) /\ rooms[c].age = 2}, Open}
                        \cup {{c} : c \in {k \in Open : rooms[k].host.sess # 0}} :
        MayChange /\ count' = Changed /\ Retired(codes)
  BY DEF Retire
<1>2. codes \in SUBSET Codes
  BY DEF Open
<1>3. World' /\ SessionShape'
  BY <1>1, <1>2, RetiredTypes, CloseShaped DEF Shaped, Types, Retired
<1> QED BY <1>1, <1>3, JobsKept, LeftSafe DEF Retire, Shaped, Types

LEMMA ShapedAcquire == ASSUME Shaped, Acquire PROVE Shaped'
<1>1. PICK j \in Jobs :
        /\ jobs[j].st = "ask"
        /\ \/ jobs' = [jobs EXCEPT ![j].st = "derive"]
           \/ jobs' = [jobs EXCEPT ![j].st = "wait"]
           \/ jobs' = [jobs EXCEPT ![j].st = "done", ![j].res = "busy"]
  BY DEF Acquire
<1>2. UNCHANGED <<store, sess, unauth, presence, count>>
  BY DEF Acquire
<1>3. /\ jobs' \in [Jobs -> JobSet]
      /\ \A k \in Jobs \ {j} : jobs'[k] = jobs[k]
      /\ jobs'[j].k = jobs[j].k /\ jobs'[j].sess = jobs[j].sess /\ jobs'[j].code = jobs[j].code
      /\ jobs'[j].room = jobs[j].room /\ jobs'[j].st \in {"derive", "wait", "done"}
  BY <1>1 DEF Shaped, Types, JobSet
<1>4. JobShape'
  BY <1>1, <1>3, JobMoves DEF Shaped, Types
<1> QED BY <1>2, <1>3, <1>4, StaysShaped DEF Shaped, Types

LEMMA DeriveJobs ==
  ASSUME Shaped, NEW j \in Jobs,
         jobs[j].st = "derive",
         jobs' = [k \in Jobs |->
                      IF k = j THEN [jobs[j] EXCEPT !.st = "done",
                                        !.res = IF MayStart(jobs[j]) THEN "ok" ELSE "cancelled"]
                      ELSE IF k \in Woken(gate) THEN [jobs[k] EXCEPT !.st = "derive"] ELSE jobs[k]],
         \A k \in Woken(gate) : k \in Jobs /\ jobs[k].st = "wait"
  PROVE  /\ jobs' \in [Jobs -> JobSet]
         /\ \A k \in Jobs : /\ jobs'[k].k = jobs[k].k /\ jobs'[k].sess = jobs[k].sess
                            /\ jobs'[k].code = jobs[k].code /\ jobs'[k].room = jobs[k].room
                            /\ jobs'[k].st = IF k = j THEN "done" ELSE IF k \in Woken(gate) THEN "derive"
                                             ELSE jobs[k].st
                            /\ k # j /\ k \notin Woken(gate) => jobs'[k] = jobs[k]
<1> DEFINE res == IF MayStart(jobs[j]) THEN "ok" ELSE "cancelled"
<1>1. res \in {"ok", "cancelled"}
  OBVIOUS
<1> HIDE DEF res
<1>2. jobs' = [k \in Jobs |->
                      IF k = j THEN [jobs[j] EXCEPT !.st = "done", !.res = res]
                      ELSE IF k \in Woken(gate) THEN [jobs[k] EXCEPT !.st = "derive"] ELSE jobs[k]]
  BY DEF res
<1> DEFINE a == [jobs[j] EXCEPT !.st = "done", !.res = res]
           b(k) == [jobs[k] EXCEPT !.st = "derive"]
<1>3. jobs[j] \in JobSet /\ \A k \in Jobs : jobs[k] \in JobSet
  BY DEF Shaped, Types
<1>4. /\ a \in JobSet /\ a.k = jobs[j].k /\ a.sess = jobs[j].sess /\ a.code = jobs[j].code
      /\ a.room = jobs[j].room /\ a.st = "done"
  BY <1>1, <1>3 DEF JobSet
<1>5. \A k \in Jobs : /\ b(k) \in JobSet /\ b(k).k = jobs[k].k /\ b(k).sess = jobs[k].sess
                      /\ b(k).code = jobs[k].code /\ b(k).room = jobs[k].room /\ b(k).st = "derive"
  BY <1>3 DEF JobSet
<1>6. jobs' = [k \in Jobs |-> IF k = j THEN a ELSE IF k \in Woken(gate) THEN b(k) ELSE jobs[k]]
  BY <1>2
<1> HIDE DEF a, b
<1> QED BY <1>3, <1>4, <1>5, <1>6

LEMMA WokenIs ==
  ASSUME GateShape
  PROVE  /\ \A k \in Woken(gate) : k \in Jobs /\ jobs[k].st = "wait" /\ k = gate.waiters[1]
         /\ gate.waiters = <<>> => Woken(gate) = {}
         /\ gate.waiters # <<>> => Woken(gate) = {gate.waiters[1]} /\ 1 \in 1..Len(gate.waiters)
<1>1. gate.waiters \in Seq(Jobs) /\ DOMAIN gate.waiters = 1..Len(gate.waiters) /\ Len(gate.waiters) \in Nat
  BY DEF GateShape
<1>2. gate.waiters = <<>> => DOMAIN gate.waiters = {}
  BY <1>1
<1>3. gate.waiters # <<>> => 1 \in 1..Len(gate.waiters)
  BY <1>1
<1>4. Woken(gate) = IF 1 \in DOMAIN gate.waiters THEN {gate.waiters[1]} ELSE {}
  BY DEF Woken
<1> QED BY <1>1, <1>2, <1>3, <1>4 DEF GateShape

LEMMA ShapedDerive == ASSUME Shaped, GateShape, Derive PROVE Shaped'
<1>1. PICK j \in Jobs :
        /\ jobs[j].st = "derive"
        /\ jobs' = [k \in Jobs |->
                      IF k = j THEN [jobs[j] EXCEPT !.st = "done",
                                        !.res = IF MayStart(jobs[j]) THEN "ok" ELSE "cancelled"]
                      ELSE IF k \in Woken(gate) THEN [jobs[k] EXCEPT !.st = "derive"] ELSE jobs[k]]
        /\ UNCHANGED <<store, sess, unauth, presence, count>>
  BY DEF Derive
<1>2. \A k \in Woken(gate) : k \in Jobs /\ jobs[k].st = "wait"
  BY WokenIs
<1>3. /\ jobs' \in [Jobs -> JobSet]
      /\ \A k \in Jobs : /\ jobs'[k].k = jobs[k].k /\ jobs'[k].sess = jobs[k].sess
                         /\ jobs'[k].code = jobs[k].code /\ jobs'[k].room = jobs[k].room
                         /\ jobs'[k].st = IF k = j THEN "done" ELSE IF k \in Woken(gate) THEN "derive"
                                          ELSE jobs[k].st
                         /\ k # j /\ k \notin Woken(gate) => jobs'[k] = jobs[k]
  BY <1>1, <1>2, DeriveJobs
<1>4. JobShape'
  BY <1>1, <1>2, <1>3, JobMoves DEF Shaped, Types
<1> QED BY <1>1, <1>3, <1>4, StaysShaped DEF Shaped, Types

LEMMA LostIs ==
  ASSUME Types, Lost
  PROVE  /\ sess' \in [Sessions -> SessionSet] /\ jobs' \in [Jobs -> JobSet]
         /\ \A i \in Sessions : IF sess[i].st = "open"
                                THEN sess'[i].st = "gone" /\ sess'[i].role = "none" /\ ~sess'[i].revoked
                                ELSE sess'[i] = sess[i]
         /\ \A j \in Jobs : jobs'[j].k \in {"none", "lost"} /\ jobs'[j].st = "none"
<1> DEFINE gone == [NoSession EXCEPT !.st = "gone"]
           lost == [NoJob EXCEPT !.k = "lost"]
<1>1. gone \in SessionSet /\ gone.st = "gone" /\ gone.role = "none" /\ ~gone.revoked
  BY Blank DEF SessionSet, NoSession
<1>2. lost \in JobSet /\ lost.k = "lost" /\ lost.st = "none" /\ NoJob.st = "none" /\ NoJob.k = "none"
  BY Blank DEF JobSet, NoJob
<1>3. /\ sess' = [i \in Sessions |-> IF sess[i].st = "open" THEN gone ELSE sess[i]]
      /\ jobs' = [j \in Jobs |-> IF jobs[j].k = "none" THEN NoJob ELSE lost]
  BY DEF Lost
<1> HIDE DEF gone, lost
<1> QED BY <1>1, <1>2, <1>3, Blank DEF Types, World

LEMMA ShapedCrash == ASSUME Shaped, Crash PROVE Shaped'
<1>1. Faulty /\ Restored(db) /\ Lost /\ Fault(count)
  BY DEF Crash
<1>2. /\ sess' \in [Sessions -> SessionSet] /\ jobs' \in [Jobs -> JobSet]
      /\ \A i \in Sessions : IF sess[i].st = "open"
                             THEN sess'[i].st = "gone" /\ sess'[i].role = "none" /\ ~sess'[i].revoked
                             ELSE sess'[i] = sess[i]
      /\ \A j \in Jobs : jobs'[j].k \in {"none", "lost"} /\ jobs'[j].st = "none"
  BY <1>1, LostIs DEF Shaped
<1>3. rooms' \in [Codes -> RoomSet] /\ free' \in [Codes -> Int] /\ db' = db
  <2>1. ASSUME NEW c \in Codes
        PROVE  [NoRoom EXCEPT !.id = db[c].id, !.grant = db[c].grant,
                              !.pw = db[c].pw, !.policy = db[c].policy] \in RoomSet
    <3>1. db[c] \in AuthoritySet /\ NoRoom \in RoomSet
      BY Blank DEF Shaped, Types, World, StoreTypes
    <3> QED BY <3>1 DEF RoomSet, AuthoritySet
  <2> DEFINE back(c) == [NoRoom EXCEPT !.id = db[c].id, !.grant = db[c].grant,
                                       !.pw = db[c].pw, !.policy = db[c].policy]
  <2>2. rooms' = [c \in Codes |-> IF db[c].id = 0 THEN NoRoom ELSE back(c)]
    BY <1>1 DEF Restored
  <2>3. \A c \in Codes : back(c) \in RoomSet
    BY <2>1
  <2> HIDE DEF back
  <2>4. rooms' \in [Codes -> RoomSet]
    BY <2>2, <2>3, Blank
  <2>5. free' = [c \in Codes |-> IF db[c].id = 0 THEN 1 ELSE 0] /\ db' = db
    BY <1>1 DEF Restored
  <2> QED BY <2>4, <2>5
<1>4. PresenceTypes' /\ unauth' \in Int
  BY <1>1 DEF Lost, PresenceTypes
<1>5. count' \in Counts
  BY <1>1, Bounds DEF Shaped, Types, Fault, Faulty, Counts
<1>6. JobShape'
  BY <1>2 DEF JobShape
<1>7. SessionShape'
  BY <1>2 DEF Shaped, SessionShape, Authenticated
<1> QED BY <1>2, <1>3, <1>4, <1>5, <1>6, <1>7 DEF Shaped, Types, World, StoreTypes

-----------------------------------------------------------------------------
(***************************************************************************)
(* Room codes, stored authority and identities.                            *)
(***************************************************************************)

Replacing == {j \in Jobs : jobs[j].k = "replace" /\ jobs[j].st # "over"}
IdsWithin == \A c \in Codes : rooms[c].id <= count.ids
Balanced == CodesConserved /\ MemoryIsDurable /\ Erased /\ IdsWithin

LEMMA FiniteJobs == IsFiniteSet(Jobs) /\ IsFiniteSet(Sessions)
BY FS_Interval, Bounds DEF Jobs, Sessions

LEMMA ReplacingFinite == IsFiniteSet(Replacing) /\ Reserved \in Nat /\ Reserved = Cardinality(Replacing)
<1>1. Replacing \in SUBSET Jobs
  BY DEF Replacing
<1> QED BY <1>1, FiniteJobs, FS_Subset, FS_CardinalityType DEF Reserved, Replacing

LEMMA ReplacingFiniteNext ==
  IsFiniteSet(Replacing') /\ Reserved' \in Nat /\ Reserved' = Cardinality(Replacing')
<1>1. Replacing' \in SUBSET Jobs
  BY DEF Replacing
<1> QED BY <1>1, FiniteJobs, FS_Subset, FS_CardinalityType DEF Reserved, Replacing

LEMMA ReservedKept ==
  ASSUME Replacing' \subseteq Replacing
  PROVE  Reserved' <= Reserved
BY ReplacingFinite, ReplacingFiniteNext, FS_Subset

(* Rooms whose authority is as it was.                                     *)
LEMMA SameAuthority ==
  ASSUME Balanced, Shaped, Shaped', UNCHANGED <<free, db>>, count'.ids >= count.ids,
         \A c \in Codes : Authority(rooms'[c]) = Authority(rooms[c])
  PROVE  Balanced'
<1>1. \A c \in Codes : rooms[c] \in RoomSet /\ rooms'[c] \in RoomSet
  BY DEF Shaped, Types, World, StoreTypes
<1>2. \A c \in Codes : rooms'[c].id = rooms[c].id
  BY <1>1, AuthorityOf
<1>3. \A c \in Codes : rooms[c].id \in Nat
  BY <1>1 DEF RoomSet
<1>4. count.ids \in Nat /\ count'.ids \in Nat
  BY DEF Shaped, Types, Counts
<1>5. IdsWithin'
  BY <1>2, <1>3, <1>4 DEF Balanced, IdsWithin
<1> QED BY <1>2, <1>5 DEF Balanced, CodesConserved, MemoryIsDurable, Erased

LEMMA StoreStays ==
  ASSUME Balanced, Shaped, Shaped', UNCHANGED store, count'.ids >= count.ids
  PROVE  Balanced'
BY SameAuthority DEF store

(* A write of one room, which keeps its identity.                          *)
LEMMA ChangeBalanced ==
  ASSUME Balanced, Shaped, Shaped', NEW code \in Open, NEW r \in RoomSet, r.id = rooms[code].id,
         NEW s, NEW g, NEW v, NEW t, NEW n, n.ids = count.ids, Change(code, r, s, g, v, t, n)
  PROVE  Balanced' /\ count'.ids = count.ids
<1>1. CASE Faulty /\ Fault(count) /\ UNCHANGED <<store, sess, unauth, presence>>
  <2>1. count'.ids = count.ids /\ count.ids \in Nat
    BY <1>1 DEF Fault, Shaped, Types, Counts
  <2> QED BY <1>1, <2>1, StoreStays
<1>2. CASE ~(Faulty /\ Fault(count) /\ UNCHANGED <<store, sess, unauth, presence>>)
  <2>1. /\ db' = [db EXCEPT ![code] = Authority(r)] /\ rooms' = [rooms EXCEPT ![code] = r]
        /\ UNCHANGED free /\ count' = n
    BY <1>2 DEF Change
  <2>2. \A c \in Codes : /\ rooms'[c] = IF c = code THEN r ELSE rooms[c]
                         /\ db'[c] = IF c = code THEN Authority(r) ELSE db[c]
    BY <2>1 DEF Shaped, Types, World, StoreTypes
  <2>3. \A c \in Codes : rooms'[c].id = rooms[c].id
    BY <2>2
  <2> QED BY <2>1, <2>2, <2>3 DEF Balanced, CodesConserved, MemoryIsDurable, IdsWithin, Erased, Open
<1> QED BY <1>1, <1>2

LEMMA BlankRoom == NoRoom.id = 0 /\ NoRoom.host.sess = 0 /\ \A c \in Clients : NoRoom.viewers[c] = NoViewer
BY DEF NoRoom, NoOne

LEMMA OpenedBalanced ==
  ASSUME Balanced, Shaped, Shaped', NEW olds \in SUBSET Open, NEW code \in Codes,
         free[code] > 0 \/ code \in olds, NEW r, r.id = count.ids + 1, NEW n \in Counts, n.ids = count.ids,
         Opened(olds, code, r, n)
  PROVE  Balanced' /\ count'.ids <= count.ids + 1
<1>1. CASE UNCHANGED <<store, sess, unauth, presence>> /\ Faulty /\ Fault(count)
  <2>1. count'.ids = count.ids /\ count.ids \in Nat
    BY <1>1 DEF Fault, Shaped, Types, Counts
  <2> QED BY <1>1, <2>1, StoreStays
<1>2. CASE ~(UNCHANGED <<store, sess, unauth, presence>> /\ Faulty /\ Fault(count))
  <2>1. /\ rooms' = [c \in Codes |-> IF c = code THEN r ELSE IF c \in olds THEN NoRoom ELSE rooms[c]]
        /\ db' = [c \in Codes |-> IF c = code THEN Authority(r)
                                 ELSE IF c \in olds THEN Authority(NoRoom) ELSE db[c]]
        /\ free' = [c \in Codes |-> free[c] + (IF c \in olds THEN 1 ELSE 0) - (IF c = code THEN 1 ELSE 0)]
        /\ count' = Issued(n)
    BY <1>2 DEF Opened
  <2>2. count'.ids = count.ids + 1 /\ count.ids \in Nat
    <3>1. n.ids + 1 \in Nat /\ n.grants + 1 \in Nat /\ count.ids \in Nat
      BY DEF Counts, Shaped, Types
    <3> QED BY <2>1, <3>1 DEF Issued, Counts
  <2>3. \A c \in Codes : rooms[c].id <= count.ids /\ rooms[c].id \in Nat /\ free[c] \in Int
    BY DEF Balanced, IdsWithin, Shaped, Types, World, StoreTypes, RoomSet
  <2>4. \A c \in olds : c \in Codes /\ rooms[c].id # 0
    BY DEF Open
  <2>5. IdsWithin'
    BY <2>1, <2>2, <2>3, BlankRoom DEF IdsWithin
  <2>6. MemoryIsDurable'
    BY <2>1 DEF Balanced, MemoryIsDurable
  <2>7. CodesConserved'
    <3>1. ASSUME NEW c \in Codes PROVE free'[c] = IF rooms'[c].id = 0 THEN 1 ELSE 0
      <4>1. free[c] = IF rooms[c].id = 0 THEN 1 ELSE 0
        BY DEF Balanced, CodesConserved
      <4>2. CASE c = code
        BY <2>1, <2>2, <2>4, <4>1, <4>2
      <4>3. CASE c # code /\ c \in olds
        BY <2>1, <2>3, <2>4, <4>1, <4>3, BlankRoom
      <4>4. CASE c # code /\ c \notin olds
        BY <2>1, <2>3, <4>1, <4>4
      <4> QED BY <4>2, <4>3, <4>4
    <3> QED BY <3>1 DEF CodesConserved
  <2>8. Erased'
    BY <2>1, <2>2 DEF Balanced, Erased
  <2> QED BY <2>2, <2>5, <2>6, <2>7, <2>8 DEF Balanced
<1> QED BY <1>1, <1>2

LEMMA RetiredBalanced ==
  ASSUME Balanced, Shaped, Shaped', NEW olds \in SUBSET Open, count'.ids = count.ids, Retired(olds)
  PROVE  Balanced'
<1>1. /\ rooms' = [c \in Codes |-> IF c \in olds THEN NoRoom ELSE rooms[c]]
      /\ db' = [c \in Codes |-> IF c \in olds THEN Authority(NoRoom) ELSE db[c]]
      /\ free' = [c \in Codes |-> free[c] + IF c \in olds THEN 1 ELSE 0]
  BY DEF Retired
<1>2. \A c \in Codes : rooms[c].id <= count.ids /\ rooms[c].id \in Nat /\ free[c] \in Int
  BY DEF Balanced, IdsWithin, Shaped, Types, World, StoreTypes, RoomSet
<1>3. count.ids \in Nat
  BY DEF Shaped, Types, Counts
<1>4. \A c \in olds : c \in Codes /\ rooms[c].id # 0
  BY DEF Open
<1>5. IdsWithin'
  BY <1>1, <1>2, <1>3, BlankRoom DEF IdsWithin
<1>6. MemoryIsDurable'
  BY <1>1 DEF Balanced, MemoryIsDurable
<1>7. CodesConserved'
  <2>1. ASSUME NEW c \in Codes PROVE free'[c] = IF rooms'[c].id = 0 THEN 1 ELSE 0
    <3>1. free[c] = IF rooms[c].id = 0 THEN 1 ELSE 0
      BY DEF Balanced, CodesConserved
    <3>2. CASE c \in olds
      BY <1>1, <1>2, <1>4, <3>1, <3>2, BlankRoom
    <3>3. CASE c \notin olds
      BY <1>1, <1>2, <3>1, <3>3
    <3> QED BY <3>2, <3>3
  <2> QED BY <2>1 DEF CodesConserved
<1>8. Erased'
  BY <1>1 DEF Balanced, Erased
<1> QED BY <1>5, <1>6, <1>7, <1>8 DEF Balanced

LEMMA RestoredBalanced ==
  ASSUME Balanced, Shaped, Shaped', count'.ids = count.ids, Restored(db)
  PROVE  Balanced'
<1> DEFINE back(c) == [NoRoom EXCEPT !.id = db[c].id, !.grant = db[c].grant,
                                     !.pw = db[c].pw, !.policy = db[c].policy]
<1>1. \A c \in Codes : db[c] \in AuthoritySet /\ NoRoom \in RoomSet /\ Authority(NoRoom) \in AuthoritySet
  BY Blank DEF Shaped, Types, World, StoreTypes
<1>2. \A c \in Codes : back(c).id = db[c].id /\ Authority(back(c)) = db[c]
  <2>1. ASSUME NEW c \in Codes PROVE back(c).id = db[c].id /\ Authority(back(c)) = db[c]
    <3>1. /\ back(c).id = db[c].id /\ back(c).grant = db[c].grant
          /\ back(c).pw = db[c].pw /\ back(c).policy = db[c].policy
      BY <1>1 DEF RoomSet
    <3>2. db[c] = [id |-> db[c].id, grant |-> db[c].grant, pw |-> db[c].pw, policy |-> db[c].policy]
      BY <1>1 DEF AuthoritySet
    <3> HIDE DEF back
    <3> QED BY <3>1, <3>2 DEF Authority
  <2> QED BY <2>1
<1>3. rooms' = [c \in Codes |-> IF db[c].id = 0 THEN NoRoom ELSE back(c)]
  BY DEF Restored
<1>4. free' = [c \in Codes |-> IF db[c].id = 0 THEN 1 ELSE 0] /\ db' = db
  BY DEF Restored
<1> HIDE DEF back
<1>5. \A c \in Codes : rooms[c].id = db[c].id /\ rooms[c].id <= count.ids /\ rooms[c].id \in Nat
  BY AuthorityOf DEF Balanced, MemoryIsDurable, IdsWithin, Shaped, Types, World, StoreTypes, RoomSet
<1>6. \A c \in Codes : rooms'[c].id = db[c].id
  BY <1>2, <1>3, BlankRoom
<1>7. IdsWithin' /\ CodesConserved'
  BY <1>4, <1>5, <1>6 DEF IdsWithin, CodesConserved
<1>8. MemoryIsDurable'
  BY <1>2, <1>3, <1>4, <1>5 DEF Balanced, MemoryIsDurable, Erased
<1>9. Erased'
  BY <1>3, <1>6 DEF Erased
<1> QED BY <1>7, <1>8, <1>9 DEF Balanced

(* Only the people in one room change.                                     *)
LEMMA PeopleOnly ==
  ASSUME Balanced, Shaped, Shaped', UNCHANGED <<free, db, count>>,
         NEW code, NEW r, rooms' = [rooms EXCEPT ![code] = r],
         code \in Codes => Authority(r) = Authority(rooms[code])
  PROVE  Balanced'
<1>1. \A c \in Codes : Authority(rooms'[c]) = Authority(rooms[c])
  BY DEF Shaped, Types, World, StoreTypes
<1>2. count'.ids >= count.ids
  BY DEF Shaped, Types, Counts
<1> QED BY <1>1, <1>2, SameAuthority

LEMMA AdmitBalanced ==
  ASSUME Balanced, Shaped, Shaped', UNCHANGED count, NEW i, NEW code \in Codes, NEW by, NEW cred,
         Admit(i, code, "viewer", by, cred)
  PROVE  Balanced'
<1> DEFINE v == [peer |-> IF rooms[code].viewers[sess[i].client].peer = 0 THEN i
                          ELSE rooms[code].viewers[sess[i].client].peer,
                 sess |-> i, by |-> by, cred |-> cred, left |-> 0]
           r == [rooms[code] EXCEPT !.viewers[sess[i].client] = v]
<1>1. rooms' = [rooms EXCEPT ![code] = r] /\ UNCHANGED <<free, db>>
  BY DEF Admit
<1>2. Authority(r) = Authority(rooms[code])
  BY DEF Authority, Shaped, Types, World, StoreTypes, RoomSet
<1> HIDE DEF r
<1> QED BY <1>1, <1>2, PeopleOnly

LEMMA AdmitHostBalanced ==
  ASSUME Balanced, Shaped, Shaped', UNCHANGED count, NEW i, NEW code \in Codes, AdmitHost(i, code)
  PROVE  Balanced'
<1> DEFINE h == [client |-> sess[i].client,
                 peer |-> IF rooms[code].host.client = sess[i].client THEN rooms[code].host.peer ELSE i,
                 sess |-> i]
           r == [rooms[code] EXCEPT !.host = h]
<1>1. rooms' = [rooms EXCEPT ![code] = r] /\ UNCHANGED <<free, db>>
  BY DEF AdmitHost, presence
<1>2. Authority(r) = Authority(rooms[code])
  BY DEF Authority, Shaped, Types, World, StoreTypes, RoomSet
<1> HIDE DEF r
<1> QED BY <1>1, <1>2, PeopleOnly

LEMMA DisconnectBalanced ==
  ASSUME Balanced, Shaped, Shaped', Disconnect
  PROVE  Balanced'
<1>1. PICK i \in Sessions :
        LET s == sess[i]
            r == rooms[s.code]
            left == s.role = "viewer" /\ r.viewers[s.client].peer = s.peer /\ r.viewers[s.client].sess = i
            after == IF left THEN [r EXCEPT !.viewers[s.client] = [@ EXCEPT !.sess = 0, !.left = i]]
                     ELSE [r EXCEPT !.host.sess = 0]
        IN  /\ \/ rooms' = [rooms EXCEPT ![s.code] =
                                IF Occupied(after) THEN after ELSE [after EXCEPT !.age = 0]]
               \/ UNCHANGED rooms
            /\ UNCHANGED <<free, db, count>>
  BY DEF Disconnect
<1> DEFINE s == sess[i]
           r == rooms[s.code]
           left == s.role = "viewer" /\ r.viewers[s.client].peer = s.peer /\ r.viewers[s.client].sess = i
           after == IF left THEN [r EXCEPT !.viewers[s.client] = [@ EXCEPT !.sess = 0, !.left = i]]
                    ELSE [r EXCEPT !.host.sess = 0]
           next == IF Occupied(after) THEN after ELSE [after EXCEPT !.age = 0]
<1>2. CASE UNCHANGED rooms
  BY <1>1, <1>2, StoreStays DEF store, Shaped, Types, Counts
<1>3. CASE rooms' = [rooms EXCEPT ![s.code] = next]
  <2>1. s.code \in Codes => Authority(next) = Authority(r)
    <3>1. s.code \in Codes => r \in RoomSet
      BY DEF Shaped, Types, World, StoreTypes
    <3> HIDE DEF r, left
    <3> QED BY <3>1 DEF Authority, RoomSet
  <2> HIDE DEF next
  <2> QED BY <1>1, <1>3, <2>1, PeopleOnly
<1> QED BY <1>1, <1>2, <1>3

LEMMA FreshRoomIs ==
  ASSUME NEW policy, NEW pw
  PROVE  /\ FreshRoom(policy, pw).id = count.ids + 1 /\ FreshRoom(policy, pw).host = NoOne
         /\ FreshRoom(policy, pw).viewers = [c \in Clients |-> NoViewer]
BY DEF FreshRoom, NoRoom

LEMMA ChangedIds == ASSUME Shaped PROVE Changed.ids = count.ids /\ [Changed EXCEPT !.grants = @ + 1].ids = count.ids
BY DEF Changed, Shaped, Types, Counts

(* No replacement is begun, and no identity issued.                        *)
LEMMA NotIssued ==
  ASSUME Shaped, Shaped', StoreInv, count'.ids = count.ids, Balanced',
         \A j \in Jobs : jobs'[j].k = "replace" => jobs[j].k = "replace"
  PROVE  StoreInv'
<1>1. Replacing' \subseteq Replacing
  BY DEF Replacing, Shaped, JobShape
<1>2. count.ids \in Nat /\ MaxIds \in Nat
  BY Bounds DEF Shaped, Types, Counts
<1>3. count'.ids + Reserved' <= MaxIds
  BY <1>1, <1>2, ReservedKept, ReplacingFinite, ReplacingFiniteNext DEF StoreInv, IdsCounted
<1> QED BY <1>3 DEF StoreInv, Balanced, IdsCounted, IdsWithin

LEMMA BalancedOf == ASSUME StoreInv PROVE Balanced
BY DEF StoreInv, Balanced, IdsCounted, IdsWithin

LEMMA StoreUntouched ==
  ASSUME Shaped, Shaped', StoreInv, UNCHANGED <<store, jobs>>, count'.ids = count.ids
  PROVE  StoreInv'
<1>1. Balanced'
  BY BalancedOf, StoreStays DEF Shaped, Types, Counts
<1> QED BY <1>1, NotIssued

(* What a derivation that was answered leaves.                             *)
LEMMA Answering ==
  ASSUME jobs \in [Jobs -> JobSet], NEW j \in Jobs, jobs' = [jobs EXCEPT ![j] = Answered]
  PROVE  /\ \A k \in Jobs \ {j} : jobs'[k] = jobs[k]
         /\ jobs'[j].k = "answered" /\ jobs'[j].st = "over"
<1>1. Answered.k = "answered" /\ Answered.st = "over"
  BY DEF Answered, NoJob
<1> QED BY <1>1

LEMMA Beginning ==
  ASSUME jobs \in [Jobs -> JobSet], MayBegin, NEW job, Begin(job)
  PROVE  /\ NextJob \in Jobs /\ jobs[NextJob].k = "none"
         /\ \A k \in Jobs : jobs'[k] = IF k = NextJob THEN job ELSE jobs[k]
BY NextJobIs DEF Begin

LEMMA StoreSessions ==
  ASSUME Shaped, Shaped', StoreInv,
         Accept \/ AuthenticateHost \/ AuthenticateViewer \/ AuthenticateWithPassword
         \/ Reject \/ Disconnect \/ Subscribe \/ GoOff \/ GraceEnds
  PROVE  StoreInv'
<1> USE BalancedOf
<1>1. CASE Accept
  BY <1>1, StoreUntouched DEF Accept
<1>2. CASE AuthenticateHost
  <2>1. PICK i \in Sessions, code \in Open : Refuse(i) \/ AdmitHost(i, code)
    BY <1>2 DEF AuthenticateHost
  <2>2. UNCHANGED <<jobs, count>> /\ code \in Codes
    BY <1>2 DEF AuthenticateHost, Open
  <2>3. CASE Refuse(i)
    BY <2>2, <2>3, StoreUntouched DEF Refuse
  <2>4. CASE AdmitHost(i, code)
    BY <2>2, <2>4, AdmitHostBalanced, NotIssued
  <2> QED BY <2>1, <2>3, <2>4
<1>3. CASE AuthenticateViewer
  <2>1. PICK i \in Sessions, code \in Open, grant \in 0..count.grants :
          Refuse(i) \/ Admit(i, code, "viewer", IF grant = 0 THEN "code" ELSE "grant", grant)
    BY <1>3 DEF AuthenticateViewer
  <2>2. UNCHANGED <<jobs, count>> /\ code \in Codes
    BY <1>3 DEF AuthenticateViewer, Open
  <2>3. CASE Refuse(i)
    BY <2>2, <2>3, StoreUntouched DEF Refuse
  <2>4. CASE Admit(i, code, "viewer", IF grant = 0 THEN "code" ELSE "grant", grant)
    <3>1. Balanced'
      BY <2>2, <2>4, AdmitBalanced
    <3> QED BY <2>2, <3>1, NotIssued
  <2> QED BY <2>1, <2>3, <2>4
<1>4. CASE AuthenticateWithPassword
  <2>1. PICK i \in Sessions, code \in Open, word \in Words :
        /\ MayBegin
        /\ Begin([NoJob EXCEPT !.k = "login", !.st = "begun", !.sess = i, !.code = code, !.word = word])
        /\ UNCHANGED <<store, count>>
    BY <1>4 DEF AuthenticateWithPassword
  <2> DEFINE job == [NoJob EXCEPT !.k = "login", !.st = "begun", !.sess = i, !.code = code, !.word = word]
  <2>2. job.k = "login"
    BY DEF NoJob
  <2> HIDE DEF job
  <2>3. \A k \in Jobs : jobs'[k].k = "replace" => jobs[k].k = "replace"
    BY <2>1, <2>2, Beginning DEF Shaped, Types, job
  <2>4. Balanced'
    BY <2>1, StoreStays DEF Shaped, Types, Counts
  <2> QED BY <2>1, <2>3, <2>4, NotIssued
<1>5. CASE Reject
  BY <1>5, StoreUntouched DEF Reject, Fault, Shaped, Types, Counts
<1>6. CASE Disconnect
  BY <1>6, DisconnectBalanced, NotIssued DEF Disconnect
<1>7. CASE Subscribe
  BY <1>7, StoreUntouched DEF Subscribe
<1>8. CASE GoOff
  BY <1>8, StoreUntouched DEF GoOff
<1>9. CASE GraceEnds
  <2>1. PICK t \in fired :
        /\ \/ UNCHANGED rooms
           \/ rooms' = [rooms EXCEPT ![t.code].viewers[t.client] = NoViewer]
        /\ UNCHANGED <<free, db, sess, unauth, jobs, gate, count>>
    BY <1>9 DEF GraceEnds
  <2>2. CASE UNCHANGED rooms
    BY <2>1, <2>2, StoreUntouched DEF store
  <2>3. CASE rooms' = [rooms EXCEPT ![t.code].viewers[t.client] = NoViewer]
    <3> DEFINE r == [rooms[t.code] EXCEPT !.viewers[t.client] = NoViewer]
    <3>1. t.code \in Codes => Authority(r) = Authority(rooms[t.code])
      BY DEF Authority, Shaped, Types, World, StoreTypes, RoomSet
    <3>2. rooms' = [rooms EXCEPT ![t.code] = r]
      BY <2>3
    <3> HIDE DEF r
    <3>3. Balanced'
      BY <2>1, <3>1, <3>2, PeopleOnly
    <3> QED BY <2>1, <3>3, NotIssued
  <2> QED BY <2>1, <2>2, <2>3
<1> QED BY <1>1, <1>2, <1>3, <1>4, <1>5, <1>6, <1>7, <1>8, <1>9

LEMMA StoreHost ==
  ASSUME Shaped, Shaped', StoreInv, SetViewerGrant \/ SetCodeEntryPolicy \/ BeginChange \/ RoomAges \/ Retire
  PROVE  StoreInv'
<1> USE BalancedOf, ChangedIds
<1>1. CASE SetViewerGrant
  <2>1. PICK code \in Open, rotate \in BOOLEAN :
          /\ Rotated(code, IF rotate THEN count.grants + 1 ELSE 0) /\ UNCHANGED jobs
    BY <1>1 DEF SetViewerGrant
  <2> DEFINE grant == IF rotate THEN count.grants + 1 ELSE 0
             r == rooms[code]
             left == [r EXCEPT !.grant = grant,
                               !.viewers = [c \in Clients |-> IF c \in Revocable(r) THEN NoViewer ELSE @[c]]]
             next == IF Occupied(r) /\ ~Occupied(left) THEN [left EXCEPT !.age = 0] ELSE left
  <2>2. PICK s, g, v, t : Change(code, next, s, g, v, t, [Changed EXCEPT !.grants = @ + 1])
    BY <2>1 DEF Rotated
  <2>3. next \in RoomSet /\ next.id = r.id
    <3>1. r \in RoomSet /\ grant \in Nat
      BY DEF Open, Shaped, Types, World, StoreTypes, Counts
    <3>2. [c \in Clients |-> IF c \in Revocable(r) THEN NoViewer ELSE r.viewers[c]] \in [Clients -> Viewers]
      BY <3>1, Blank DEF RoomSet
    <3>3. left \in RoomSet /\ left.id = r.id
      <4> HIDE DEF r, grant
      <4> QED BY <3>1, <3>2 DEF RoomSet
    <3> HIDE DEF left, r
    <3> QED BY <3>3 DEF RoomSet
  <2> HIDE DEF next
  <2>4. Balanced' /\ count'.ids = count.ids
    BY <2>2, <2>3, ChangeBalanced
  <2> QED BY <2>1, <2>4, NotIssued
<1>2. CASE SetCodeEntryPolicy
  <2>1. PICK code \in Open, policy \in {"open", "private"} :
        /\ Change(code, [rooms[code] EXCEPT !.policy = policy], sess, grace, voice, routed, Changed)
        /\ UNCHANGED jobs
    BY <1>2 DEF SetCodeEntryPolicy
  <2> DEFINE r == [rooms[code] EXCEPT !.policy = policy]
  <2>2. r \in RoomSet /\ r.id = rooms[code].id
    BY DEF Open, Shaped, Types, World, StoreTypes, RoomSet, Policies
  <2> HIDE DEF r
  <2>3. Change(code, r, sess, grace, voice, routed, Changed)
    BY <2>1 DEF r
  <2>4. Balanced' /\ count'.ids = count.ids
    BY <2>2, <2>3, ChangeBalanced
  <2> QED BY <2>1, <2>4, NotIssued
<1>3. CASE BeginChange
  <2>1. PICK code \in Open, k \in {"password", "replace"}, word \in Words :
        /\ MayBegin /\ (k = "replace" => MayIssue)
        /\ Begin([NoJob EXCEPT !.k = k, !.st = "ask", !.code = code, !.room = rooms[code].id,
                               !.word = word, !.policy = "private"])
        /\ count' = Changed
        /\ UNCHANGED store
    BY <1>3 DEF BeginChange
  <2> DEFINE job == [NoJob EXCEPT !.k = k, !.st = "ask", !.code = code, !.room = rooms[code].id,
                               !.word = word, !.policy = "private"]
  <2>2. job.k = k
    BY DEF NoJob
  <2> HIDE DEF job
  <2>3. /\ NextJob \in Jobs /\ jobs[NextJob].k = "none"
        /\ \A i \in Jobs : jobs'[i] = IF i = NextJob THEN job ELSE jobs[i]
    BY <2>1, Beginning DEF Shaped, Types, job
  <2>4. count'.ids = count.ids /\ count.ids \in Nat /\ MaxIds \in Nat
    BY <2>1, Bounds DEF Shaped, Types, Counts
  <2>5. Balanced'
    BY <2>1, <2>4, StoreStays
  <2>6. CASE k = "password"
    BY <2>2, <2>3, <2>4, <2>5, <2>6, NotIssued
  <2>7. CASE k = "replace"
    <3>1. Replacing' \subseteq Replacing \cup {NextJob}
      BY <2>3 DEF Replacing
    <3>2. Reserved' <= Reserved + 1
      <4> DEFINE u == Replacing \cup {NextJob}
      <4>1. IsFiniteSet(u) /\ Cardinality(u) <= Reserved + 1 /\ Cardinality(u) \in Nat
        <5>1. /\ IsFiniteSet(u)
              /\ Cardinality(u) = IF NextJob \in Replacing THEN Cardinality(Replacing)
                                  ELSE Cardinality(Replacing) + 1
          BY ReplacingFinite, FS_AddElement
        <5> HIDE DEF u
        <5> QED BY <5>1, ReplacingFinite
      <4>2. Reserved' <= Cardinality(u)
        BY <3>1, <4>1, ReplacingFiniteNext, FS_Subset
      <4> QED BY <4>1, <4>2, ReplacingFinite, ReplacingFiniteNext
    <3>3. count'.ids + Reserved' <= MaxIds
      BY <2>1, <2>4, <2>7, <3>2, ReplacingFinite, ReplacingFiniteNext DEF MayIssue
    <3> QED BY <2>5, <3>3 DEF StoreInv, Balanced, IdsCounted, IdsWithin
  <2> QED BY <2>6, <2>7
<1>4. CASE RoomAges
  <2>1. PICK code \in Open : rooms' = [rooms EXCEPT ![code].age = @ + 1]
    BY <1>4 DEF RoomAges
  <2>2. UNCHANGED <<free, db, jobs>> /\ count' = Changed
    BY <1>4 DEF RoomAges
  <2> DEFINE r == [rooms[code] EXCEPT !.age = @ + 1]
  <2>3. \A c \in Codes : Authority(rooms'[c]) = Authority(rooms[c])
    <3>1. code \in Codes => Authority(r) = Authority(rooms[code])
      BY DEF Authority, Shaped, Types, World, StoreTypes, RoomSet
    <3>2. rooms' = [rooms EXCEPT ![code] = r]
      BY <2>1
    <3> HIDE DEF r
    <3> QED BY <3>1, <3>2 DEF Shaped, Types, World, StoreTypes
  <2>4. Balanced' /\ count'.ids = count.ids
    BY <2>2, <2>3, SameAuthority DEF Shaped, Types, Counts
  <2> QED BY <2>2, <2>4, NotIssued
<1>5. CASE Retire
  <2>1. PICK codes \in {{c \in Open : ~Occupied(rooms[c]) /\ rooms[c].age = 2}, Open}
                          \cup {{c} : c \in {k \in Open : rooms[k].host.sess # 0}} :
          count' = Changed /\ Retired(codes)
    BY <1>5 DEF Retire
  <2>2. codes \in SUBSET Open
    OBVIOUS
  <2>3. Balanced' /\ count'.ids = count.ids
    BY <2>1, <2>2, RetiredBalanced
  <2> QED BY <1>5, <2>3, NotIssued DEF Retire
<1> QED BY <1>1, <1>2, <1>3, <1>4, <1>5

(* An identity is issued while there is one left.                          *)
LEMMA Issuing ==
  ASSUME Shaped, Shaped', StoreInv, Balanced', count'.ids <= count.ids + 1,
         \/ /\ count.ids + Reserved < MaxIds
            /\ \A j \in Jobs : jobs'[j].k = "replace" => jobs[j].k = "replace"
         \/ \E j \in Jobs : /\ jobs[j].k = "replace" /\ jobs[j].st = "done"
                            /\ jobs'[j].k # "replace" /\ \A k \in Jobs \ {j} : jobs'[k] = jobs[k]
  PROVE  StoreInv'
<1>1. count.ids \in Nat /\ count'.ids \in Nat /\ MaxIds \in Nat
  BY Bounds DEF Shaped, Types, Counts
<1>2. CASE /\ count.ids + Reserved < MaxIds
           /\ \A j \in Jobs : jobs'[j].k = "replace" => jobs[j].k = "replace"
  <2>1. Replacing' \subseteq Replacing
    BY <1>2 DEF Replacing, Shaped, JobShape
  <2>2. count'.ids + Reserved' <= MaxIds
    BY <1>1, <1>2, <2>1, ReservedKept, ReplacingFinite, ReplacingFiniteNext
  <2> QED BY <2>2 DEF StoreInv, Balanced, IdsCounted, IdsWithin
<1>3. CASE \E j \in Jobs : /\ jobs[j].k = "replace" /\ jobs[j].st = "done"
                           /\ jobs'[j].k # "replace" /\ \A k \in Jobs \ {j} : jobs'[k] = jobs[k]
  <2>1. PICK j \in Jobs : /\ jobs[j].k = "replace" /\ jobs[j].st = "done"
                          /\ jobs'[j].k # "replace" /\ \A k \in Jobs \ {j} : jobs'[k] = jobs[k]
    BY <1>3
  <2>2. Replacing' = Replacing \ {j} /\ j \in Replacing
    BY <2>1 DEF Replacing
  <2>3. Reserved' = Reserved - 1
    BY <2>2, ReplacingFinite, ReplacingFiniteNext, FS_RemoveElement
  <2>4. count'.ids + Reserved' <= MaxIds
    BY <1>1, <2>3, ReplacingFinite, ReplacingFiniteNext DEF StoreInv, IdsCounted
  <2> QED BY <2>4 DEF StoreInv, Balanced, IdsCounted, IdsWithin
<1> QED BY <1>2, <1>3

LEMMA StoreCreate == ASSUME Shaped, Shaped', StoreInv, CreateRoom PROVE StoreInv'
<1>1. PICK code \in Codes, policy \in {"open", "private"} :
        /\ MayChange /\ MayIssue
        /\ \/ free[code] > 0 /\ Opened({}, code, FreshRoom(policy, Nothing), Changed)
           \/ \E old \in Candidates :
                \/ /\ free[code] > 0 \/ code = old
                   /\ Opened({old}, code, FreshRoom(policy, Nothing), Changed)
                \/ Faulty /\ Fault(Changed) /\ Retired({old})
  BY DEF CreateRoom
<1>2. Balanced /\ Changed \in Counts /\ Changed.ids = count.ids /\ UNCHANGED jobs
  BY <1>1, BalancedOf, LeftSafe, ChangedIds DEF CreateRoom
<1>3. FreshRoom(policy, Nothing).id = count.ids + 1
  BY FreshRoomIs
<1>4. CASE free[code] > 0 /\ Opened({}, code, FreshRoom(policy, Nothing), Changed)
  <2>1. Balanced' /\ count'.ids <= count.ids + 1
    BY <1>2, <1>3, <1>4, OpenedBalanced
  <2> QED BY <1>1, <1>2, <2>1, Issuing DEF MayIssue
<1>5. ASSUME NEW old \in Candidates, free[code] > 0 \/ code = old,
             Opened({old}, code, FreshRoom(policy, Nothing), Changed)
      PROVE  StoreInv'
  <2>1. {old} \in SUBSET Open
    BY DEF Candidates
  <2>2. Balanced' /\ count'.ids <= count.ids + 1
    BY <1>2, <1>3, <1>5, <2>1, OpenedBalanced
  <2> QED BY <1>1, <1>2, <2>2, Issuing DEF MayIssue
<1>6. ASSUME NEW old \in Candidates, Fault(Changed), Retired({old}) PROVE StoreInv'
  <2>1. {old} \in SUBSET Open
    BY DEF Candidates
  <2>2. count'.ids = count.ids
    BY <1>2, <1>6 DEF Fault, Counts
  <2>3. Balanced'
    BY <1>2, <1>6, <2>1, <2>2, RetiredBalanced
  <2> QED BY <1>2, <2>2, <2>3, NotIssued
<1> QED BY <1>1, <1>4, <1>5, <1>6

LEMMA StoreDerivations ==
  ASSUME Shaped, Shaped', StoreInv, GateShape,
         Challenge \/ Acquire \/ Derive \/ CommitLogin \/ CommitPassword \/ CommitReplace \/ Crash
  PROVE  StoreInv'
<1> USE BalancedOf
<1>1. CASE Challenge
  <2>1. PICK j \in Jobs :
          LET r == rooms[jobs[j].code]
          IN  /\ UNCHANGED <<store, count>>
              /\ jobs' = [jobs EXCEPT ![j] = [@ EXCEPT !.st = "ask", !.room = r.id,
                            !.material = IF r.policy = "private" THEN r.pw ELSE Nothing]]
    BY <1>1 DEF Challenge
  <2>2. \A k \in Jobs : jobs'[k].k = jobs[k].k
    BY <2>1 DEF Shaped, Types, JobSet
  <2>3. Balanced'
    BY <2>1, StoreStays DEF Shaped, Types, Counts
  <2> QED BY <2>1, <2>2, <2>3, NotIssued
<1>2. CASE Acquire
  <2>1. \A k \in Jobs : jobs'[k].k = jobs[k].k
    <3>1. PICK j \in Jobs :
            \/ jobs' = [jobs EXCEPT ![j].st = "derive"]
            \/ jobs' = [jobs EXCEPT ![j].st = "wait"]
            \/ jobs' = [jobs EXCEPT ![j].st = "done", ![j].res = "busy"]
      BY <1>2 DEF Acquire
    <3>2. jobs \in [Jobs -> JobSet]
      BY DEF Shaped, Types
    <3> QED BY <3>1, <3>2 DEF JobSet
  <2>2. UNCHANGED <<store, count>> /\ Balanced'
    BY <1>2, StoreStays DEF Acquire, Shaped, Types, Counts
  <2> QED BY <2>1, <2>2, NotIssued
<1>3. CASE Derive
  <2>1. \A k \in Jobs : jobs'[k].k = jobs[k].k
    BY <1>3, WokenIs, DeriveJobs DEF Derive
  <2>2. UNCHANGED <<store, count>>
    BY <1>3 DEF Derive
  <2>3. Balanced'
    BY <2>2, StoreStays DEF Shaped, Types, Counts
  <2> QED BY <2>1, <2>2, <2>3, NotIssued
<1>4. CASE CommitLogin
  <2>1. PICK j \in Jobs :
        /\ jobs[j].k = "login" /\ jobs' = [jobs EXCEPT ![j] = Answered]
        /\ \/ Admit(jobs[j].sess, jobs[j].code, "viewer", "password", jobs[j].word)
           \/ Refuse(jobs[j].sess)
           \/ UNCHANGED <<store, sess, unauth, presence>>
        /\ UNCHANGED count
    BY <1>4 DEF CommitLogin
  <2>2. \A k \in Jobs : jobs'[k].k = "replace" => jobs[k].k = "replace"
    BY <2>1, Answering DEF Shaped, Types
  <2>3. CASE Admit(jobs[j].sess, jobs[j].code, "viewer", "password", jobs[j].word)
    <3>1. jobs[j].code \in Codes
      BY <2>1 DEF Shaped, JobShape
    <3>2. Balanced'
      BY <2>1, <2>3, <3>1, AdmitBalanced
    <3> QED BY <2>1, <2>2, <3>2, NotIssued
  <2>4. CASE UNCHANGED store
    BY <2>1, <2>2, <2>4, StoreStays, NotIssued DEF Shaped, Types, Counts
  <2> QED BY <2>1, <2>3, <2>4 DEF Refuse
<1>5. CASE CommitPassword
  <2>1. PICK j \in Jobs :
        /\ jobs[j].k = "password" /\ jobs' = [jobs EXCEPT ![j] = Answered]
        /\ \/ /\ Owned(jobs[j])
              /\ Change(jobs[j].code, [rooms[jobs[j].code] EXCEPT !.pw = [word |-> jobs[j].word, salt |-> j]],
                     sess, grace, voice, routed, count)
           \/ UNCHANGED <<store, sess, unauth, presence, count>>
    BY <1>5 DEF CommitPassword
  <2>2. \A k \in Jobs : jobs'[k].k = "replace" => jobs[k].k = "replace"
    BY <2>1, Answering DEF Shaped, Types
  <2> DEFINE code == jobs[j].code
             pw == [word |-> jobs[j].word, salt |-> j]
             r == [rooms[code] EXCEPT !.pw = pw]
  <2>3. code \in Codes /\ pw \in Materials /\ jobs[j].room # 0
    <3>1. jobs[j].word \in Nat /\ j \in Nat
      BY Bounds DEF Shaped, Types, JobSet, Jobs
    <3>2. pw \in Materials
      BY <3>1 DEF Materials
    <3> QED BY <2>1, <3>2 DEF Shaped, JobShape
  <2>4. CASE Owned(jobs[j]) /\ Change(code, r, sess, grace, voice, routed, count)
    <3>1. code \in Open
      BY <2>3, <2>4 DEF Owned, Open
    <3> HIDE DEF code, pw
    <3>2. r \in RoomSet /\ r.id = rooms[code].id
      BY <2>3 DEF Shaped, Types, World, StoreTypes, RoomSet
    <3> HIDE DEF r
    <3>3. Balanced' /\ count'.ids = count.ids
      BY <2>4, <3>1, <3>2, ChangeBalanced
    <3> QED BY <2>2, <3>3, NotIssued
  <2>5. CASE UNCHANGED <<store, count>>
    BY <2>2, <2>5, StoreStays, NotIssued DEF Shaped, Types, Counts
  <2> QED BY <2>1, <2>4, <2>5
<1>6. CASE CommitReplace
  <2>1. PICK j \in Jobs, code \in Codes :
        /\ jobs[j].k = "replace" /\ jobs[j].st = "done" /\ jobs' = [jobs EXCEPT ![j] = Answered]
        /\ \/ /\ Owned(jobs[j]) /\ free[code] > 0
              /\ Opened({jobs[j].code}, code,
                     FreshRoom(jobs[j].policy, [word |-> jobs[j].word, salt |-> j]), count)
           \/ UNCHANGED <<store, sess, unauth, presence, count>>
    BY <1>6 DEF CommitReplace
  <2>2. jobs'[j].k # "replace" /\ \A k \in Jobs \ {j} : jobs'[k] = jobs[k]
    BY <2>1, Answering DEF Shaped, Types
  <2> DEFINE old == jobs[j].code
             r == FreshRoom(jobs[j].policy, [word |-> jobs[j].word, salt |-> j])
  <2>3. r.id = count.ids + 1 /\ count \in Counts /\ old \in Codes /\ jobs[j].room # 0
    BY <2>1, FreshRoomIs DEF Shaped, Types, JobShape
  <2>4. CASE Owned(jobs[j]) /\ free[code] > 0 /\ Opened({old}, code, r, count)
    <3>1. {old} \in SUBSET Open
      BY <2>3, <2>4 DEF Owned, Open
    <3> HIDE DEF old, r
    <3>2. Balanced' /\ count'.ids <= count.ids + 1
      BY <2>3, <2>4, <3>1, OpenedBalanced
    <3> QED BY <2>1, <2>2, <3>2, Issuing
  <2>5. CASE UNCHANGED <<store, count>>
    <3>1. Balanced' /\ count'.ids <= count.ids + 1
      BY <2>5, StoreStays DEF Shaped, Types, Counts
    <3> QED BY <2>1, <2>2, <3>1, Issuing
  <2> QED BY <2>1, <2>4, <2>5
<1>7. CASE Crash
  <2>1. Restored(db) /\ Lost /\ Fault(count)
    BY <1>7 DEF Crash
  <2>2. count'.ids = count.ids
    BY <2>1 DEF Fault, Shaped, Types, Counts
  <2>3. Balanced'
    BY <2>1, <2>2, RestoredBalanced
  <2>4. \A k \in Jobs : jobs'[k].k # "replace"
    BY <2>1, LostIs DEF Shaped
  <2> QED BY <2>2, <2>3, <2>4, NotIssued
<1> QED BY <1>1, <1>2, <1>3, <1>4, <1>5, <1>6, <1>7

-----------------------------------------------------------------------------
(***************************************************************************)
(* The derivation gate.                                                    *)
(***************************************************************************)

LEMMA DerivingFinite ==
  IsFiniteSet(Deriving) /\ Cardinality(Deriving) \in Nat
<1>1. Deriving \in SUBSET Jobs
  BY DEF Deriving
<1> QED BY <1>1, FiniteJobs, FS_Subset, FS_CardinalityType

LEMMA GateStays ==
  ASSUME GateShape, UNCHANGED gate,
         \A j \in Jobs : jobs'[j].st = jobs[j].st
                         \/ (jobs[j].st \notin {"derive", "wait"} /\ jobs'[j].st \notin {"derive", "wait"})
  PROVE  GateShape'
<1>1. Deriving' = Deriving
  BY DEF Deriving
<1>2. \A j \in Jobs : jobs'[j].st = "wait" <=> jobs[j].st = "wait"
  OBVIOUS
<1> QED BY <1>1, <1>2 DEF GateShape

LEMMA GateJobs ==
  ASSUME Shaped, GateShape, UNCHANGED gate,
         \/ UNCHANGED jobs
         \/ \E job : MayBegin /\ Begin(job) /\ job.st \in {"begun", "ask"}
         \/ \E j \in Jobs : jobs[j].st = "done" /\ jobs' = [jobs EXCEPT ![j] = Answered]
  PROVE  GateShape'
<1>1. CASE UNCHANGED jobs
  BY <1>1, GateStays
<1>2. ASSUME NEW job, MayBegin, Begin(job), job.st \in {"begun", "ask"} PROVE GateShape'
  <2>1. /\ NextJob \in Jobs /\ jobs[NextJob].k = "none"
        /\ \A k \in Jobs : jobs'[k] = IF k = NextJob THEN job ELSE jobs[k]
    BY <1>2, Beginning DEF Shaped, Types
  <2>2. jobs[NextJob].st \in {"none", "over"}
    BY <2>1 DEF Shaped, JobShape
  <2> QED BY <1>2, <2>1, <2>2, GateStays
<1>3. ASSUME NEW j \in Jobs, jobs[j].st = "done", jobs' = [jobs EXCEPT ![j] = Answered] PROVE GateShape'
  BY <1>3, Answering, GateStays DEF Shaped, Types
<1> QED BY <1>1, <1>2, <1>3

LEMMA GateBegins ==
  ASSUME Shaped, GateShape, AuthenticateWithPassword \/ BeginChange
  PROVE  GateShape'
<1>1. CASE AuthenticateWithPassword
  <2>1. PICK i \in Sessions, code \in Open, word \in Words :
        /\ MayBegin
        /\ Begin([NoJob EXCEPT !.k = "login", !.st = "begun", !.sess = i, !.code = code, !.word = word])
    BY <1>1 DEF AuthenticateWithPassword
  <2> DEFINE job == [NoJob EXCEPT !.k = "login", !.st = "begun", !.sess = i, !.code = code, !.word = word]
  <2>2. job.st = "begun"
    BY DEF NoJob
  <2> HIDE DEF job
  <2>3. Begin(job)
    BY <2>1 DEF job
  <2> QED BY <1>1, <2>1, <2>2, <2>3, GateJobs DEF AuthenticateWithPassword
<1>2. CASE BeginChange
  <2>1. PICK code \in Open, k \in {"password", "replace"}, word \in Words :
        /\ MayBegin
        /\ Begin([NoJob EXCEPT !.k = k, !.st = "ask", !.code = code, !.room = rooms[code].id,
                               !.word = word, !.policy = "private"])
    BY <1>2 DEF BeginChange
  <2> DEFINE job == [NoJob EXCEPT !.k = k, !.st = "ask", !.code = code, !.room = rooms[code].id,
                               !.word = word, !.policy = "private"]
  <2>2. job.st = "ask"
    BY DEF NoJob
  <2> HIDE DEF job
  <2>3. Begin(job)
    BY <2>1 DEF job
  <2> QED BY <1>2, <2>1, <2>2, <2>3, GateJobs DEF BeginChange
<1> QED BY <1>1, <1>2

LEMMA GateChallenge == ASSUME Shaped, GateShape, Challenge PROVE GateShape'
<1>1. PICK j \in Jobs :
        LET r == rooms[jobs[j].code]
        IN  /\ UNCHANGED gate /\ jobs[j].st = "begun"
            /\ jobs' = [jobs EXCEPT ![j] = [@ EXCEPT !.st = "ask", !.room = r.id,
                          !.material = IF r.policy = "private" THEN r.pw ELSE Nothing]]
  BY DEF Challenge
<1>2. jobs'[j].st = "ask" /\ \A k \in Jobs \ {j} : jobs'[k] = jobs[k]
  BY <1>1 DEF Shaped, Types, JobSet
<1> QED BY <1>1, <1>2, GateStays

LEMMA GateAcquire == ASSUME Shaped, GateShape, Acquire PROVE GateShape'
<1>1. PICK j \in Jobs :
        /\ jobs[j].st = "ask"
        /\ IF gate.active < GateLimit
           THEN /\ gate' = [gate EXCEPT !.active = @ + 1]
                /\ jobs' = [jobs EXCEPT ![j].st = "derive"]
           ELSE IF Len(gate.waiters) < GatePending
           THEN /\ gate' = [gate EXCEPT !.waiters = Append(@, j)]
                /\ jobs' = [jobs EXCEPT ![j].st = "wait"]
           ELSE jobs' = [jobs EXCEPT ![j].st = "done", ![j].res = "busy"] /\ UNCHANGED gate
  BY DEF Acquire
<1>2. /\ gate.active \in Int /\ gate.waiters \in Seq(Jobs) /\ Len(gate.waiters) \in Nat
      /\ gate \in [active : Int, waiters : Seq(Jobs)]
      /\ GateLimit \in Nat /\ GatePending \in Nat
  BY Bounds DEF GateShape
<1>3. jobs \in [Jobs -> JobSet]
  BY DEF Shaped, Types
<1>4. CASE gate.active < GateLimit
  <2>1. gate'.active = gate.active + 1 /\ gate'.waiters = gate.waiters /\ gate' \in [active : Int, waiters : Seq(Jobs)]
    BY <1>1, <1>2, <1>4
  <2>2. jobs'[j].st = "derive" /\ \A k \in Jobs \ {j} : jobs'[k] = jobs[k]
    BY <1>1, <1>3, <1>4 DEF JobSet
  <2>3. Deriving' = Deriving \cup {j} /\ j \notin Deriving
    BY <1>1, <2>2 DEF Deriving
  <2>4. Cardinality(Deriving') = Cardinality(Deriving) + 1
    BY <2>3, DerivingFinite, FS_AddElement
  <2>5. gate.waiters = <<>>
    BY <1>2, <1>4 DEF GateShape
  <2>6. \A k \in Jobs : jobs'[k].st = "wait" <=> jobs[k].st = "wait"
    BY <1>1, <2>2
  <2> QED BY <1>2, <1>4, <2>1, <2>4, <2>5, <2>6 DEF GateShape
<1>5. CASE ~(gate.active < GateLimit) /\ Len(gate.waiters) < GatePending
  <2>1. /\ gate'.active = gate.active /\ gate'.waiters = Append(gate.waiters, j)
        /\ gate' \in [active : Int, waiters : Seq(Jobs)]
    <3>1. gate' = [gate EXCEPT !.waiters = Append(@, j)]
      BY <1>1, <1>5
    <3>2. Append(gate.waiters, j) \in Seq(Jobs)
      BY <1>2
    <3> QED BY <1>2, <3>1, <3>2
  <2>2. jobs'[j].st = "wait" /\ \A k \in Jobs \ {j} : jobs'[k] = jobs[k]
    BY <1>1, <1>3, <1>5 DEF JobSet
  <2>3. Deriving' = Deriving
    BY <1>1, <2>2 DEF Deriving
  <2>4. gate.active = GateLimit
    BY <1>2, <1>5 DEF GateShape
  <2> DEFINE w == gate.waiters
             x == gate'.waiters
  <2>5. /\ Len(x) = Len(w) + 1 /\ x[Len(w) + 1] = j /\ \A n \in 1..Len(w) : x[n] = w[n]
    BY <1>2, <2>1
  <2>6. \A n \in 1..Len(w) : w[n] # j
    BY <1>1 DEF GateShape
  <2>7. \A k \in Jobs : jobs[k].st = "wait" <=> \E n \in 1..Len(w) : w[n] = k
    BY DEF GateShape
  <2>8. \A m, n \in 1..Len(w) : w[m] = w[n] => m = n
    BY DEF GateShape
  <2>9. Len(w) \in Nat
    BY <1>2
  <2> HIDE DEF w, x
  <2>10. \A k \in Jobs : jobs'[k].st = "wait" <=> \E n \in 1..Len(x) : x[n] = k
    <3>1. \A n \in 1..Len(x) : n = Len(w) + 1 \/ n \in 1..Len(w)
      BY <2>5, <2>9
    <3>2. \A n \in 1..Len(w) : n \in 1..Len(x)
      BY <2>5, <2>9
    <3>3. Len(w) + 1 \in 1..Len(x)
      BY <2>5, <2>9
    <3> QED BY <2>2, <2>5, <2>7, <3>1, <3>2, <3>3
  <2>11. \A m, n \in 1..Len(x) : x[m] = x[n] => m = n
    BY <2>5, <2>6, <2>8, <2>9
  <2>12. Len(x) <= GatePending
    BY <1>2, <1>5, <2>5 DEF w
  <2> QED BY <2>1, <2>3, <2>4, <2>10, <2>11, <2>12 DEF GateShape, x
<1>6. CASE ~(gate.active < GateLimit) /\ ~(Len(gate.waiters) < GatePending)
  <2>1. jobs'[j].st = "done" /\ \A k \in Jobs \ {j} : jobs'[k] = jobs[k]
    BY <1>1, <1>3, <1>6 DEF JobSet
  <2> QED BY <1>1, <1>6, <2>1, GateStays
<1> QED BY <1>4, <1>5, <1>6

LEMMA GateDerive == ASSUME Shaped, GateShape, Derive PROVE GateShape'
<1>1. PICK j \in Jobs :
        /\ jobs[j].st = "derive" /\ gate' = Released(gate)
        /\ jobs' = [k \in Jobs |->
                      IF k = j THEN [jobs[j] EXCEPT !.st = "done",
                                        !.res = IF MayStart(jobs[j]) THEN "ok" ELSE "cancelled"]
                      ELSE IF k \in Woken(gate) THEN [jobs[k] EXCEPT !.st = "derive"] ELSE jobs[k]]
  BY DEF Derive
<1>2. \A k \in Jobs : jobs'[k].st = IF k = j THEN "done" ELSE IF k \in Woken(gate) THEN "derive"
                                    ELSE jobs[k].st
  <2>1. \A k \in Woken(gate) : k \in Jobs /\ jobs[k].st = "wait"
    BY WokenIs
  <2> QED BY <1>1, <2>1, DeriveJobs
<1>3. /\ gate.active \in Int /\ gate.waiters \in Seq(Jobs) /\ Len(gate.waiters) \in Nat
      /\ gate \in [active : Int, waiters : Seq(Jobs)]
      /\ GateLimit \in Nat /\ GatePending \in Nat
  BY Bounds DEF GateShape
<1>4. j \in Deriving
  BY <1>1 DEF Deriving
<1>5. Cardinality(Deriving \ {j}) = Cardinality(Deriving) - 1 /\ IsFiniteSet(Deriving \ {j})
  BY <1>4, DerivingFinite, FS_RemoveElement
<1>6. CASE gate.waiters = <<>>
  <2>1. gate'.active = gate.active - 1 /\ gate'.waiters = <<>> /\ gate' \in [active : Int, waiters : Seq(Jobs)]
    <3>1. gate' = [gate EXCEPT !.active = @ - 1]
      BY <1>1, <1>6 DEF Released
    <3> QED BY <1>3, <1>6, <3>1
  <2>2. Deriving' = Deriving \ {j}
    BY <1>2, <1>6, WokenIs DEF Deriving
  <2>3. \A k \in Jobs : jobs'[k].st = "wait" <=> jobs[k].st = "wait"
    BY <1>1, <1>2, <1>6, WokenIs
  <2> QED BY <1>3, <1>5, <1>6, <2>1, <2>2, <2>3 DEF GateShape
<1>7. CASE gate.waiters # <<>>
  <2> DEFINE w == gate.waiters
             x == gate'.waiters
             h == w[1]
  <2>1. gate'.active = gate.active /\ x = Tail(w) /\ gate' \in [active : Int, waiters : Seq(Jobs)]
    <3>1. gate' = [gate EXCEPT !.waiters = Tail(@)]
      BY <1>1, <1>7 DEF Released
    <3>2. Tail(gate.waiters) \in Seq(Jobs)
      BY <1>3, <1>7
    <3> QED BY <1>3, <3>1, <3>2
  <2>2. /\ Len(x) = Len(w) - 1 /\ Len(w) \in Nat /\ Len(w) > 0 /\ \A n \in 1..Len(x) : x[n] = w[n + 1]
    BY <1>3, <1>7, <2>1
  <2>3. Woken(gate) = {h} /\ h \in Jobs /\ jobs[h].st = "wait"
    BY <1>7, WokenIs
  <2>4. Deriving' = (Deriving \ {j}) \cup {h} /\ h \notin Deriving
    BY <1>1, <1>2, <2>3 DEF Deriving
  <2>5. Cardinality(Deriving') = Cardinality(Deriving)
    <3>1. Cardinality((Deriving \ {j}) \cup {h}) = Cardinality(Deriving \ {j}) + 1
      BY <1>5, <2>4, FS_AddElement
    <3> QED BY <1>5, <2>4, <3>1, DerivingFinite
  <2>6. \A k \in Jobs : jobs[k].st = "wait" <=> \E n \in 1..Len(w) : w[n] = k
    BY DEF GateShape
  <2>7. \A m, n \in 1..Len(w) : w[m] = w[n] => m = n
    BY DEF GateShape
  <2>8. \A k \in Jobs : jobs'[k].st = "wait" <=> jobs[k].st = "wait" /\ k # h
    BY <1>1, <1>2, <2>3
  <2>9. gate.active = GateLimit
    BY <1>7 DEF GateShape
  <2>10. Len(w) <= GatePending
    BY DEF GateShape
  <2> HIDE DEF w, x
  <2>11. \A k \in Jobs : jobs'[k].st = "wait" <=> \E n \in 1..Len(x) : x[n] = k
    <3>1. \A n \in 1..Len(w) : n = 1 \/ n - 1 \in 1..Len(x)
      BY <2>2
    <3>2. \A n \in 1..Len(x) : n + 1 \in 1..Len(w) /\ n + 1 # 1
      BY <2>2
    <3>3. 1 \in 1..Len(w)
      BY <2>2
    <3>4. ASSUME NEW k \in Jobs, jobs'[k].st = "wait" PROVE \E n \in 1..Len(x) : x[n] = k
      <4>1. PICK n \in 1..Len(w) : w[n] = k
        BY <2>6, <2>8, <3>4
      <4>2. n # 1
        BY <2>8, <3>4, <4>1
      <4>3. n - 1 \in 1..Len(x) /\ x[n - 1] = w[n]
        BY <2>2, <3>1, <4>2
      <4> QED BY <4>1, <4>3
    <3>5. ASSUME NEW k \in Jobs, NEW n \in 1..Len(x), x[n] = k PROVE jobs'[k].st = "wait"
      <4>1. n + 1 \in 1..Len(w) /\ w[n + 1] = k /\ n + 1 # 1
        BY <2>2, <3>2, <3>5
      <4>2. k # h
        BY <2>7, <3>3, <4>1
      <4> QED BY <2>6, <2>8, <4>1, <4>2
    <3> QED BY <3>4, <3>5
  <2>12. \A m, n \in 1..Len(x) : x[m] = x[n] => m = n
    BY <2>2, <2>7
  <2>13. /\ gate' \in [active : Int, waiters : Seq(Jobs)]
         /\ gate'.active = Cardinality(Deriving') /\ gate'.active = GateLimit
    <3>1. gate.active = Cardinality(Deriving)
      BY DEF GateShape
    <3> QED BY <2>1, <2>5, <2>9, <3>1
  <2>14. gate'.active <= GateLimit /\ Len(x) <= GatePending
    BY <1>3, <2>2, <2>10, <2>13
  <2>15. GateShape'
    <3> HIDE DEF h
    <3> QED BY <2>11, <2>12, <2>13, <2>14 DEF GateShape, x
  <2> QED BY <2>15
<1> QED BY <1>6, <1>7

LEMMA GateCrash == ASSUME Shaped, Lost PROVE GateShape'
<1>1. \A j \in Jobs : jobs'[j].st = "none"
  BY LostIs DEF Shaped
<1>2. Deriving' = {}
  BY <1>1 DEF Deriving
<1>3. gate' = [active |-> 0, waiters |-> <<>>]
  BY DEF Lost
<1> QED BY <1>1, <1>2, <1>3, FS_EmptySet, Bounds DEF GateShape

-----------------------------------------------------------------------------
(***************************************************************************)
(* Who is connected, who is away, and who is yet to be admitted.           *)
(***************************************************************************)

PresenceInv == UnauthenticatedCounted /\ MembersInv

Alike(s, t) ==
    /\ s.st = t.st /\ s.client = t.client /\ s.revoked = t.revoked
    /\ s.code = t.code /\ s.role = t.role /\ s.peer = t.peer
SameRoom(r, q) == r.id = q.id /\ r.grant = q.grant /\ r.host = q.host /\ r.viewers = q.viewers

LEMMA UnadmittedFinite == IsFiniteSet(Unadmitted) /\ Cardinality(Unadmitted) \in Nat
<1>1. Unadmitted \in SUBSET Sessions
  BY DEF Unadmitted
<1> QED BY <1>1, FiniteJobs, FS_Subset, FS_CardinalityType

LEMMA CountedIs == UnauthenticatedCounted <=> unauth = Cardinality(Unadmitted)
BY DEF UnauthenticatedCounted, Unadmitted

LEMMA CountedNext == UnauthenticatedCounted' <=> unauth' = Cardinality(Unadmitted')
BY DEF UnauthenticatedCounted, Unadmitted

LEMMA CountStays ==
  ASSUME UnauthenticatedCounted, unauth' = unauth,
         \A i \in Sessions : sess'[i].st = sess[i].st
                             /\ (sess'[i].role = "none" <=> sess[i].role = "none")
  PROVE  UnauthenticatedCounted'
<1>1. Unadmitted' = Unadmitted
  BY DEF Unadmitted, Authenticated
<1> QED BY <1>1, CountedIs, CountedNext

LEMMA CountLess ==
  ASSUME UnauthenticatedCounted, NEW i \in Sessions, sess[i].st = "open", sess[i].role = "none",
         unauth' = unauth - 1, sess'[i].st # "open" \/ sess'[i].role # "none",
         \A k \in Sessions \ {i} : sess'[k].st = sess[k].st
                                   /\ (sess'[k].role = "none" <=> sess[k].role = "none")
  PROVE  UnauthenticatedCounted'
<1>1. Unadmitted' = Unadmitted \ {i} /\ i \in Unadmitted
  BY DEF Unadmitted, Authenticated
<1>2. Cardinality(Unadmitted') = Cardinality(Unadmitted) - 1
  BY <1>1, UnadmittedFinite, FS_RemoveElement
<1> QED BY <1>2, CountedIs, CountedNext

(* Nobody moves: a room's other fields change, or sessions close.          *)
LEMMA Quiet ==
  ASSUME PresenceInv, unauth' = unauth, UNCHANGED <<grace, voice, routed>>,
         \A c \in Codes : SameRoom(rooms'[c], rooms[c]),
         \A i \in Sessions : Alike(sess'[i], sess[i]) /\ (sess[i].closing => sess'[i].closing),
         Shaped, Shaped'
  PROVE  PresenceInv'
<1> USE DEF SameRoom, Alike
<1>1. UnauthenticatedCounted'
  BY CountStays DEF PresenceInv
<1>2. Vacant'
  BY DEF PresenceInv, MembersInv, Vacant
<1>3. ViewersHeld'
  <2>1. ASSUME NEW code \in Codes, NEW c \in Clients, rooms'[code].viewers[c].sess # 0
        PROVE  rooms[code].viewers[c].sess \in Sessions
    BY <2>1 DEF Shaped, Types, World, StoreTypes, RoomSet, Viewers, Named, Sessions
  <2>2. ASSUME NEW code \in Codes, NEW c \in Clients, rooms'[code].viewers[c].sess # 0
        PROVE  LET v == rooms'[code].viewers[c]
                   s == sess'[v.sess]
               IN  /\ s.st = "open" /\ ~s.revoked /\ s.code = code /\ s.role = "viewer"
                   /\ s.client = c /\ s.peer = v.peer
    <3>1. rooms'[code].viewers[c] = rooms[code].viewers[c]
      OBVIOUS
    <3>2. rooms[code].viewers[c].sess \in Sessions
      BY <2>1, <2>2
    <3> QED BY <2>2, <3>1, <3>2 DEF PresenceInv, MembersInv, ViewersHeld, Holds
  <2> QED BY <2>2 DEF ViewersHeld, Holds
<1>4. HostHeld'
  <2>1. ASSUME NEW code \in Codes, rooms'[code].host.sess # 0
        PROVE  rooms[code].host.sess \in Sessions
    BY <2>1 DEF Shaped, Types, World, StoreTypes, RoomSet, Named, Sessions
  <2> QED BY <2>1 DEF PresenceInv, MembersInv, HostHeld, Holds
<1>5. SpeakersNamed'
  BY DEF PresenceInv, MembersInv, SpeakersNamed, Speaking, NamedByStore, Authenticated, Shaped, SessionShape
<1>6. PeersOnce'
  <2>1. ASSUME NEW code \in Codes, NEW c \in Clients, rooms'[code].viewers[c].peer # 0
        PROVE  rooms[code].viewers[c].peer \in Sessions
    BY <2>1 DEF Shaped, Types, World, StoreTypes, RoomSet, Viewers, Named, Sessions
  <2> QED BY <2>1 DEF PresenceInv, MembersInv, PeersOnce
<1>7. AwayTimed'
  BY DEF PresenceInv, MembersInv, AwayTimed, Shaped, Types, World, PresenceTypes, Timer
<1>8. PlacesKept'
  <2>1. \A code \in Codes : Peers(rooms'[code]) = Peers(rooms[code])
    BY DEF Peers
  <2> QED BY <2>1 DEF PresenceInv, MembersInv, PlacesKept
<1>9. GrantsCurrent'
  BY DEF PresenceInv, MembersInv, GrantsCurrent
<1> QED BY <1>1, <1>2, <1>3, <1>4, <1>5, <1>6, <1>7, <1>8, <1>9 DEF PresenceInv, MembersInv

LEMMA Seats ==
  ASSUME Shaped, NEW code \in Codes
  PROVE  /\ rooms[code] \in RoomSet
         /\ rooms[code].host.sess # 0 => rooms[code].host.sess \in Sessions
         /\ \A c \in Clients :
              /\ rooms[code].viewers[c] \in Viewers
              /\ rooms[code].viewers[c].sess # 0 => rooms[code].viewers[c].sess \in Sessions
              /\ rooms[code].viewers[c].peer # 0 => rooms[code].viewers[c].peer \in Sessions
BY DEF Shaped, Types, World, StoreTypes, RoomSet, Viewers, Named, Sessions

LEMMA SeatsNext ==
  ASSUME Shaped', NEW code \in Codes
  PROVE  /\ rooms'[code] \in RoomSet
         /\ rooms'[code].host.sess # 0 => rooms'[code].host.sess \in Sessions
         /\ \A c \in Clients :
              /\ rooms'[code].viewers[c] \in Viewers
              /\ rooms'[code].viewers[c].sess # 0 => rooms'[code].viewers[c].sess \in Sessions
              /\ rooms'[code].viewers[c].peer # 0 => rooms'[code].viewers[c].peer \in Sessions
BY DEF Shaped, Types, World, StoreTypes, RoomSet, Viewers, Named, Sessions

LEMMA PresenceAccept == ASSUME PresenceInv, Shaped, Shaped', Accept PROVE PresenceInv'
<1>1. PICK c \in Clients, i \in Sessions :
        /\ sess[i].st = "none" /\ unauth' = unauth + 1
        /\ sess' = [sess EXCEPT ![i] = [NoSession EXCEPT !.st = "open", !.client = c]]
        /\ UNCHANGED <<store, presence>>
  BY DEF Accept
<1>2. UNCHANGED <<rooms, grace, voice, routed>>
  BY <1>1 DEF store, presence
<1>3. /\ sess'[i].st = "open" /\ sess'[i].role = "none" /\ sess[i].role = "none"
      /\ \A k \in Sessions \ {i} : sess'[k] = sess[k]
  <2> DEFINE n == [NoSession EXCEPT !.st = "open", !.client = c]
  <2>1. n.st = "open" /\ n.role = "none"
    BY DEF NoSession
  <2>2. sess[i].role = "none"
    BY <1>1 DEF Shaped, SessionShape, Authenticated
  <2> HIDE DEF n
  <2> QED BY <1>1, <2>1, <2>2 DEF Shaped, Types, World, n
<1>4. UnauthenticatedCounted'
  <2>1. Unadmitted' = Unadmitted \cup {i} /\ i \notin Unadmitted
    BY <1>1, <1>3 DEF Unadmitted, Authenticated
  <2>2. Cardinality(Unadmitted') = Cardinality(Unadmitted) + 1
    BY <2>1, UnadmittedFinite, FS_AddElement
  <2> QED BY <1>1, <2>2, CountedIs, CountedNext DEF PresenceInv
<1>5. Vacant' /\ AwayTimed' /\ PlacesKept' /\ GrantsCurrent'
  BY <1>2 DEF PresenceInv, MembersInv, Vacant, AwayTimed, PlacesKept, GrantsCurrent
<1>6. ViewersHeld'
  <2>1. ASSUME NEW code \in Codes, NEW d \in Clients, rooms[code].viewers[d].sess # 0
        PROVE  rooms[code].viewers[d].sess \in Sessions \ {i}
    BY <1>1, <2>1, Seats DEF PresenceInv, MembersInv, ViewersHeld, Holds
  <2> QED BY <1>2, <1>3, <2>1 DEF PresenceInv, MembersInv, ViewersHeld, Holds
<1>7. HostHeld'
  <2>1. ASSUME NEW code \in Codes, rooms[code].host.sess # 0
        PROVE  rooms[code].host.sess \in Sessions \ {i}
    BY <1>1, <2>1, Seats DEF PresenceInv, MembersInv, HostHeld, Holds
  <2> QED BY <1>2, <1>3, <2>1 DEF PresenceInv, MembersInv, HostHeld, Holds
<1>8. SpeakersNamed'
  BY <1>2, <1>3 DEF PresenceInv, MembersInv, SpeakersNamed, Speaking, NamedByStore, Authenticated
<1>9. PeersOnce'
  <2>1. ASSUME NEW code \in Codes, NEW d \in Clients, rooms[code].viewers[d].peer # 0
        PROVE  rooms[code].viewers[d].peer \in Sessions \ {i}
    BY <1>1, <1>3, <2>1, Seats DEF PresenceInv, MembersInv, PeersOnce
  <2> QED BY <1>2, <1>3, <2>1 DEF PresenceInv, MembersInv, PeersOnce
<1> QED BY <1>4, <1>5, <1>6, <1>7, <1>8, <1>9 DEF PresenceInv, MembersInv

(* What admitting a Viewer changes, and what it leaves.                    *)
AdmitEffect(i, code, by, cred, c, old, peer) ==
    /\ rooms'[code].viewers[c] = [peer |-> peer, sess |-> i, by |-> by, cred |-> cred, left |-> 0]
    /\ \A d \in Clients \ {c} : rooms'[code].viewers[d] = rooms[code].viewers[d]
    /\ \A k \in Codes \ {code} : rooms'[k] = rooms[k]
    /\ rooms'[code].id = rooms[code].id /\ rooms'[code].grant = rooms[code].grant
    /\ rooms'[code].host = rooms[code].host /\ rooms'[code].policy = rooms[code].policy
    /\ rooms'[code].pw = rooms[code].pw
    /\ \A k \in Sessions \ {i} : /\ Alike(sess'[k], sess[k])
                                 /\ sess[k].closing => sess'[k].closing
                                 /\ k = old.sess => sess'[k].closing
    /\ sess'[i].st = sess[i].st /\ sess'[i].client = c /\ sess'[i].code = code
    /\ sess'[i].role = "viewer" /\ sess'[i].peer = peer /\ sess'[i].revoked = sess[i].revoked
    /\ sess[i].closing => sess'[i].closing
    /\ grace' = grace \ Timers(code, {peer}) /\ voice' = voice
    /\ \A k \in Codes : routed'[k] = IF k = code THEN routed[k] \cup {peer} ELSE routed[k]
    /\ unauth' = unauth - 1

LEMMA AdmitIs ==
  ASSUME Shaped, NEW i \in Sessions, NEW code \in Codes, sess[i].client \in Clients, sess[i].role = "none",
         NEW by, NEW cred, Admit(i, code, "viewer", by, cred),
         NEW c, c = sess[i].client, NEW old, old = rooms[code].viewers[c],
         NEW peer, peer = IF old.peer = 0 THEN i ELSE old.peer
  PROVE  AdmitEffect(i, code, by, cred, c, old, peer)
<1> DEFINE v == [peer |-> peer, sess |-> i, by |-> by, cred |-> cred, left |-> 0]
           b == Closing(sess, {old.sess} \ {0})
           r == [rooms[code] EXCEPT !.viewers[c] = v]
           a == [b[i] EXCEPT !.authing = FALSE, !.code = code, !.role = "viewer", !.peer = peer]
<1>1. /\ rooms' = [rooms EXCEPT ![code] = r] /\ sess' = [b EXCEPT ![i] = a]
      /\ grace' = grace \ Timers(code, {peer}) /\ voice' = voice
      /\ routed' = [routed EXCEPT ![code] = @ \cup {peer}] /\ unauth' = unauth - 1
  BY DEF Admit
<1>2. rooms[code] \in RoomSet /\ rooms \in [Codes -> RoomSet] /\ routed \in [Codes -> SUBSET Sessions]
  BY DEF Shaped, Types, World, StoreTypes, PresenceTypes
<1>3. /\ r.viewers[c] = v /\ \A d \in Clients \ {c} : r.viewers[d] = rooms[code].viewers[d]
      /\ r.id = rooms[code].id /\ r.grant = rooms[code].grant /\ r.host = rooms[code].host
      /\ r.policy = rooms[code].policy /\ r.pw = rooms[code].pw
  <2> HIDE DEF v
  <2> QED BY <1>2 DEF RoomSet
<1>4. /\ b \in [Sessions -> SessionSet]
      /\ \A k \in Sessions : b[k] = IF k \in {old.sess} \ {0} THEN [sess[k] EXCEPT !.closing = TRUE] ELSE sess[k]
  BY ClosingIs DEF Shaped, Types, World
<1>5. \A k \in Sessions : sess[k] \in SessionSet /\ k # 0
  BY Bounds DEF Shaped, Types, World
<1> HIDE DEF b
<1>6. \A k \in Sessions : Alike(b[k], sess[k]) /\ (sess[k].closing => b[k].closing)
                          /\ (k = old.sess => b[k].closing)
  BY <1>4, <1>5 DEF SessionSet, Alike
<1>7. /\ a.st = b[i].st /\ a.client = b[i].client /\ a.code = code /\ a.role = "viewer" /\ a.peer = peer
      /\ a.revoked = b[i].revoked /\ a.closing = b[i].closing
  BY <1>4 DEF SessionSet
<1> HIDE DEF a, r, v
<1>8. /\ rooms'[code] = r /\ \A k \in Codes \ {code} : rooms'[k] = rooms[k]
      /\ sess'[i] = a /\ \A k \in Sessions \ {i} : sess'[k] = b[k]
  BY <1>1, <1>2, <1>4
<1>9. \A k \in Codes : routed'[k] = IF k = code THEN routed[k] \cup {peer} ELSE routed[k]
  BY <1>1, <1>2
<1>10. /\ rooms'[code].viewers[c] = v
       /\ \A d \in Clients \ {c} : rooms'[code].viewers[d] = rooms[code].viewers[d]
       /\ rooms'[code].id = rooms[code].id /\ rooms'[code].grant = rooms[code].grant
       /\ rooms'[code].host = rooms[code].host /\ rooms'[code].policy = rooms[code].policy
       /\ rooms'[code].pw = rooms[code].pw
  BY <1>3, <1>8
<1>11. \A k \in Sessions \ {i} : /\ Alike(sess'[k], sess[k])
                                 /\ sess[k].closing => sess'[k].closing
                                 /\ k = old.sess => sess'[k].closing
  BY <1>6, <1>8
<1>12. /\ sess'[i].st = sess[i].st /\ sess'[i].client = c /\ sess'[i].code = code
       /\ sess'[i].role = "viewer" /\ sess'[i].peer = peer /\ sess'[i].revoked = sess[i].revoked
       /\ sess[i].closing => sess'[i].closing
  BY <1>6, <1>7, <1>8 DEF Alike
<1> QED BY <1>1, <1>8, <1>9, <1>10, <1>11, <1>12 DEF v, AdmitEffect

LEMMA PeersAre ==
  ASSUME Shaped, NEW code \in Codes
  PROVE  /\ Peers(rooms[code]) \subseteq Sessions /\ IsFiniteSet(Peers(rooms[code]))
         /\ Cardinality(Peers(rooms[code])) \in Nat
<1>1. Peers(rooms[code]) \in SUBSET Sessions
  BY Seats DEF Peers
<1> QED BY <1>1, FiniteJobs, FS_Subset, FS_CardinalityType

(* Nobody sits as a session that is yet to be admitted.                    *)
LEMMA Stranger ==
  ASSUME PresenceInv, Shaped, NEW i \in Sessions, sess[i].st = "open", sess[i].role = "none",
         NEW code \in Codes
  PROVE  /\ rooms[code].host.sess # i
         /\ \A d \in Clients : rooms[code].viewers[d].sess # i /\ rooms[code].viewers[d].peer # i
<1>1. i # 0
  BY Bounds
<1> QED BY <1>1 DEF PresenceInv, MembersInv, HostHeld, ViewersHeld, PeersOnce

LEMMA PresenceAdmit ==
  ASSUME PresenceInv, Shaped, Shaped', NEW i \in Sessions, NEW code \in Codes, MayConnect(i),
         rooms[code].id # 0, HasPlace(code, sess[i].client), NEW by, NEW cred,
         by = "grant" => cred = rooms[code].grant, Admit(i, code, "viewer", by, cred)
  PROVE  PresenceInv'
<1>1. PICK c : c = sess[i].client
  OBVIOUS
<1>2. PICK old : old = rooms[code].viewers[c]
  OBVIOUS
<1>3. PICK peer : peer = IF old.peer = 0 THEN i ELSE old.peer
  OBVIOUS
<1>4. c \in Clients /\ sess[i].client \in Clients /\ sess[i].st = "open" /\ ~sess[i].revoked /\ sess[i].role = "none"
  BY <1>1 DEF MayConnect, Shaped, SessionShape, Authenticated
<1>5. old \in Viewers /\ (old.peer # 0 => old.peer \in Sessions) /\ peer \in Sessions /\ peer # 0 /\ i # 0
  BY <1>2, <1>3, <1>4, Seats, Bounds
<1> DEFINE seat == [peer |-> peer, sess |-> i, by |-> by, cred |-> cred, left |-> 0]
<1>0. AdmitEffect(i, code, by, cred, c, old, peer)
  BY <1>1, <1>2, <1>3, <1>4, AdmitIs
<1>6. /\ rooms'[code].viewers[c] = seat
      /\ \A d \in Clients \ {c} : rooms'[code].viewers[d] = rooms[code].viewers[d]
      /\ \A k \in Codes \ {code} : rooms'[k] = rooms[k]
      /\ rooms'[code].id = rooms[code].id /\ rooms'[code].grant = rooms[code].grant
      /\ rooms'[code].host = rooms[code].host
  BY <1>0 DEF AdmitEffect
<1>7. \A k \in Sessions \ {i} : /\ Alike(sess'[k], sess[k])
                                /\ sess[k].closing => sess'[k].closing
                                /\ k = old.sess => sess'[k].closing
  BY <1>0 DEF AdmitEffect
<1>8. /\ sess'[i].st = "open" /\ sess'[i].client = c /\ sess'[i].code = code
      /\ sess'[i].role = "viewer" /\ sess'[i].peer = peer /\ ~sess'[i].revoked
  BY <1>0, <1>4 DEF AdmitEffect
<1>9. /\ grace' = grace \ Timers(code, {peer}) /\ voice' = voice
      /\ \A k \in Codes : routed'[k] = IF k = code THEN routed[k] \cup {peer} ELSE routed[k]
      /\ unauth' = unauth - 1
  BY <1>0 DEF AdmitEffect
<1>10. seat.peer = peer /\ seat.sess = i /\ seat.by = by /\ seat.cred = cred
  OBVIOUS
<1> HIDE DEF seat
<1>11. \A k \in Codes, d \in Clients : k # code \/ d # c => rooms'[k].viewers[d] = rooms[k].viewers[d]
  BY <1>6
<1>12. \A k \in Codes : /\ rooms'[k].host = rooms[k].host /\ rooms'[k].id = rooms[k].id
                        /\ rooms'[k].grant = rooms[k].grant
  BY <1>6
<1>13. UnauthenticatedCounted'
  <2>1. \A k \in Sessions \ {i} : sess'[k].st = sess[k].st /\ sess'[k].role = sess[k].role
    BY <1>7 DEF Alike
  <2> QED BY <1>4, <1>8, <1>9, <2>1, CountLess DEF PresenceInv
<1>14. Vacant'
  <2>1. \A k \in Codes : k = code => rooms'[k].id # 0
    BY <1>12
  <2> QED BY <1>5, <1>6, <1>10, <1>11, <1>12, <2>1 DEF PresenceInv, MembersInv, Vacant
<1>15. ViewersHeld'
  <2>1. ASSUME NEW k \in Codes, NEW d \in Clients, rooms'[k].viewers[d].sess # 0, k # code \/ d # c
        PROVE  LET v == rooms'[k].viewers[d]
                   s == sess'[v.sess]
               IN  /\ s.st = "open" /\ ~s.revoked /\ s.code = k /\ s.role = "viewer"
                   /\ s.client = d /\ s.peer = v.peer
    <3>1. rooms'[k].viewers[d] = rooms[k].viewers[d]
      BY <1>11, <2>1
    <3>2. rooms[k].viewers[d].sess \in Sessions \ {i}
      BY <1>4, <2>1, <3>1, Seats, Stranger
    <3>3. Alike(sess'[rooms[k].viewers[d].sess], sess[rooms[k].viewers[d].sess])
      BY <1>7, <3>2
    <3>4. LET v == rooms[k].viewers[d]
              s == sess[v.sess]
          IN  /\ s.st = "open" /\ ~s.revoked /\ s.code = k /\ s.role = "viewer"
              /\ s.client = d /\ s.peer = v.peer
      BY <2>1, <3>1 DEF PresenceInv, MembersInv, ViewersHeld, Holds
    <3> QED BY <3>1, <3>3, <3>4 DEF Alike
  <2> QED BY <1>6, <1>8, <1>10, <2>1 DEF ViewersHeld, Holds
<1>16. HostHeld'
  <2>1. ASSUME NEW k \in Codes, rooms'[k].host.sess # 0
        PROVE  LET h == rooms'[k].host
                   s == sess'[h.sess]
               IN  s.st = "open" /\ ~s.revoked /\ s.code = k /\ s.role = "host" /\ s.peer = h.peer
    <3>1. rooms'[k].host = rooms[k].host
      BY <1>12
    <3>2. rooms[k].host.sess \in Sessions \ {i}
      BY <1>4, <2>1, <3>1, Seats, Stranger
    <3>3. Alike(sess'[rooms[k].host.sess], sess[rooms[k].host.sess])
      BY <1>7, <3>2
    <3> QED BY <2>1, <3>1, <3>3 DEF PresenceInv, MembersInv, HostHeld, Holds, Alike
  <2> QED BY <2>1 DEF HostHeld, Holds
<1>17. SpeakersNamed'
  <2>1. ASSUME NEW k \in Sessions, Speaking(k)', k # i PROVE NamedByStore(k)'
    <3>1. /\ sess'[k].st = "open" /\ sess'[k].role # "none" /\ ~sess'[k].closing
      BY <2>1 DEF Speaking, Authenticated
    <3>2. Alike(sess'[k], sess[k]) /\ ~sess[k].closing /\ k # old.sess
      BY <1>7, <2>1, <3>1 DEF Shaped, Types, World, SessionSet
    <3>3. Speaking(k) /\ sess[k].code \in Codes /\ sess[k].client \in Clients
      BY <3>1, <3>2 DEF Speaking, Authenticated, Alike, Shaped, SessionShape
    <3>4. NamedByStore(k)
      BY <3>3 DEF PresenceInv, MembersInv, SpeakersNamed
    <3>5. CASE sess[k].role = "host"
      BY <1>12, <3>2, <3>3, <3>4, <3>5 DEF NamedByStore, Alike
    <3>6. CASE sess[k].role # "host"
      <4>1. sess[k].code # code \/ sess[k].client # c
        BY <1>2, <3>2, <3>4, <3>6 DEF NamedByStore
      <4> QED BY <1>11, <3>2, <3>3, <3>4, <3>6, <4>1 DEF NamedByStore, Alike
    <3> QED BY <3>5, <3>6
  <2>2. NamedByStore(i)'
    BY <1>6, <1>8, <1>10 DEF NamedByStore
  <2> QED BY <2>1, <2>2 DEF SpeakersNamed
<1>18. PeersOnce'
  <2>1. ASSUME NEW k \in Codes, NEW d \in Clients, rooms'[k].viewers[d].peer # 0
        PROVE  LET p == rooms'[k].viewers[d].peer IN sess'[p].st = "gone" \/ sess'[p].role # "none"
    <3>1. CASE rooms'[k].viewers[d].peer = i
      BY <1>8, <3>1
    <3>2. CASE rooms'[k].viewers[d].peer # i
      <4>1. rooms'[k].viewers[d].peer = rooms[k].viewers[d].peer
        BY <1>2, <1>3, <1>6, <1>10, <1>11, <3>2
      <4>2. rooms[k].viewers[d].peer \in Sessions \ {i}
        BY <2>1, <3>2, <4>1, Seats
      <4>3. Alike(sess'[rooms[k].viewers[d].peer], sess[rooms[k].viewers[d].peer])
        BY <1>7, <4>2
      <4> QED BY <2>1, <4>1, <4>3 DEF PresenceInv, MembersInv, PeersOnce, Alike
    <3> QED BY <3>1, <3>2
  <2>2. ASSUME NEW k \in Codes, NEW d \in Clients, NEW e \in Clients, rooms'[k].viewers[d].peer # 0,
               rooms'[k].viewers[d].peer = rooms'[k].viewers[e].peer
        PROVE  d = e
    <3>1. ASSUME NEW f \in Clients, rooms[code].viewers[f].peer = peer PROVE f = c
      <4>1. peer = old.peer
        BY <1>3, <1>4, <3>1, Stranger
      <4> QED BY <1>2, <1>4, <1>5, <3>1, <4>1 DEF PresenceInv, MembersInv, PeersOnce
    <3>2. CASE k # code
      BY <1>11, <2>2, <3>2 DEF PresenceInv, MembersInv, PeersOnce
    <3>3. CASE k = code
      BY <1>6, <1>10, <1>11, <2>2, <3>1, <3>3 DEF PresenceInv, MembersInv, PeersOnce
    <3> QED BY <3>2, <3>3
  <2> QED BY <2>1, <2>2 DEF PeersOnce
<1>19. AwayTimed'
  <2>1. ASSUME NEW k \in Codes, NEW d \in Clients,
               rooms'[k].viewers[d].peer # 0, rooms'[k].viewers[d].sess = 0
        PROVE  [code |-> k, peer |-> rooms'[k].viewers[d].peer, client |-> d,
                id |-> rooms'[k].viewers[d].left] \in grace'
    <3>1. k # code \/ d # c
      BY <1>5, <1>6, <1>10, <2>1
    <3> DEFINE t == [code |-> k, peer |-> rooms[k].viewers[d].peer, client |-> d,
                     id |-> rooms[k].viewers[d].left]
    <3>2. t \in grace
      BY <1>11, <2>1, <3>1 DEF PresenceInv, MembersInv, AwayTimed
    <3>3. ~(k = code /\ rooms[k].viewers[d].peer = peer)
      BY <1>4, <1>5, <1>6, <1>10, <1>11, <1>18, <2>1, <3>1 DEF PeersOnce
    <3>4. t \notin Timers(code, {peer})
      BY <3>3 DEF Timers
    <3> QED BY <1>9, <1>11, <3>1, <3>2, <3>4
  <2>2. ASSUME NEW t \in grace'
        PROVE  LET v == rooms'[t.code].viewers[t.client]
               IN  v.peer = t.peer /\ v.sess = 0 /\ v.left = t.id
    <3>1. t \in grace /\ t \notin Timers(code, {peer})
      BY <1>9, <2>2
    <3>2. t.code \in Codes /\ t.client \in Clients /\ t.peer \in Sessions
      BY <3>1 DEF Shaped, Types, World, PresenceTypes, Timer
    <3>3. LET v == rooms[t.code].viewers[t.client]
          IN  v.peer = t.peer /\ v.sess = 0 /\ v.left = t.id
      BY <3>1 DEF PresenceInv, MembersInv, AwayTimed
    <3>4. t.code # code \/ t.client # c
      BY <1>2, <1>3, <3>1, <3>2, <3>3, Bounds DEF Timers
    <3> QED BY <1>11, <3>2, <3>3, <3>4
  <2> QED BY <2>1, <2>2 DEF AwayTimed
<1>20. PlacesKept'
  <2>1. Peers(rooms'[code]) = Peers(rooms[code]) \cup {peer}
    BY <1>2, <1>3, <1>4, <1>5, <1>6, <1>10 DEF Peers
  <2>2. Cardinality(Peers(rooms'[code])) <= MaxViewers
    <3>1. CASE old.peer # 0
      <4>1. peer \in Peers(rooms[code])
        BY <1>2, <1>3, <1>4, <3>1 DEF Peers
      <4>2. Peers(rooms'[code]) = Peers(rooms[code])
        BY <2>1, <4>1
      <4> QED BY <4>2 DEF PresenceInv, MembersInv, PlacesKept
    <3>2. CASE old.peer = 0
      <4>1. Cardinality(Peers(rooms[code])) < MaxViewers
        BY <1>1, <1>2, <3>2 DEF HasPlace
      <4>2. Cardinality(Peers(rooms'[code])) <= Cardinality(Peers(rooms[code])) + 1
        <5>1. IsFiniteSet(Peers(rooms[code])) /\ Cardinality(Peers(rooms[code])) \in Nat
          BY PeersAre
        <5>2. Cardinality(Peers(rooms[code]) \cup {peer}) =
                IF peer \in Peers(rooms[code]) THEN Cardinality(Peers(rooms[code]))
                ELSE Cardinality(Peers(rooms[code])) + 1
          BY <5>1, FS_AddElement
        <5> QED BY <2>1, <5>1, <5>2
      <4>3. Cardinality(Peers(rooms'[code])) \in Nat /\ Cardinality(Peers(rooms[code])) \in Nat /\ MaxViewers \in Nat
        BY <2>1, PeersAre, FS_AddElement, FS_CardinalityType, Bounds
      <4> QED BY <4>1, <4>2, <4>3
    <3> QED BY <3>1, <3>2
  <2>3. \A k \in Codes \ {code} : Peers(rooms'[k]) = Peers(rooms[k])
    BY <1>6
  <2> QED BY <1>9, <2>1, <2>2, <2>3 DEF PresenceInv, MembersInv, PlacesKept
<1>21. GrantsCurrent'
  BY <1>6, <1>10, <1>11, <1>12 DEF PresenceInv, MembersInv, GrantsCurrent
<1> QED BY <1>13, <1>14, <1>15, <1>16, <1>17, <1>18, <1>19, <1>20, <1>21 DEF PresenceInv, MembersInv

(* What admitting a Host changes, and what it leaves.                      *)
AdmitHostEffect(i, code, c, old, peer) ==
    /\ rooms'[code].host = [client |-> c, peer |-> peer, sess |-> i]
    /\ \A k \in Codes \ {code} : rooms'[k] = rooms[k]
    /\ rooms'[code].id = rooms[code].id /\ rooms'[code].grant = rooms[code].grant
    /\ rooms'[code].viewers = rooms[code].viewers
    /\ \A k \in Sessions \ {i} : /\ Alike(sess'[k], sess[k])
                                 /\ sess[k].closing => sess'[k].closing
                                 /\ k = old.sess /\ old.client = c => sess'[k].closing
    /\ sess'[i].st = sess[i].st /\ sess'[i].client = c /\ sess'[i].code = code
    /\ sess'[i].role = "host" /\ sess'[i].peer = peer /\ sess'[i].revoked = sess[i].revoked
    /\ grace' = grace /\ voice' = voice /\ routed' = routed /\ unauth' = unauth - 1

LEMMA AdmitHostIs ==
  ASSUME Shaped, NEW i \in Sessions, NEW code \in Codes, AdmitHost(i, code),
         NEW c, c = sess[i].client, NEW old, old = rooms[code].host,
         NEW peer, peer = IF old.client = c THEN old.peer ELSE i
  PROVE  AdmitHostEffect(i, code, c, old, peer)
<1> DEFINE h == [client |-> c, peer |-> peer, sess |-> i]
           o == IF old.client = c THEN {old.sess} \ {0} ELSE {}
           b == Closing(sess, o)
           r == [rooms[code] EXCEPT !.host = h]
           a == [b[i] EXCEPT !.authing = FALSE, !.code = code, !.role = "host", !.peer = peer]
<1>1. /\ rooms' = [rooms EXCEPT ![code] = r] /\ sess' = [b EXCEPT ![i] = a]
      /\ grace' = grace /\ voice' = voice /\ routed' = routed /\ unauth' = unauth - 1
  BY DEF AdmitHost, presence
<1>2. rooms[code] \in RoomSet /\ rooms \in [Codes -> RoomSet]
  BY DEF Shaped, Types, World, StoreTypes
<1>3. /\ r.host = h /\ r.viewers = rooms[code].viewers
      /\ r.id = rooms[code].id /\ r.grant = rooms[code].grant
  <2> HIDE DEF h
  <2> QED BY <1>2 DEF RoomSet
<1>4. /\ b \in [Sessions -> SessionSet]
      /\ \A k \in Sessions : b[k] = IF k \in o THEN [sess[k] EXCEPT !.closing = TRUE] ELSE sess[k]
  <2> HIDE DEF o
  <2> QED BY ClosingIs DEF Shaped, Types, World
<1>5. \A k \in Sessions : sess[k] \in SessionSet /\ k # 0
  BY Bounds DEF Shaped, Types, World
<1> HIDE DEF b
<1>6. \A k \in Sessions : Alike(b[k], sess[k]) /\ (sess[k].closing => b[k].closing)
                          /\ (k = old.sess /\ old.client = c => b[k].closing)
  BY <1>4, <1>5 DEF SessionSet, Alike
<1>7. /\ a.st = b[i].st /\ a.client = b[i].client /\ a.code = code /\ a.role = "host" /\ a.peer = peer
      /\ a.revoked = b[i].revoked
  BY <1>4 DEF SessionSet
<1> HIDE DEF a, r, h
<1>8. /\ rooms'[code] = r /\ \A k \in Codes \ {code} : rooms'[k] = rooms[k]
      /\ sess'[i] = a /\ \A k \in Sessions \ {i} : sess'[k] = b[k]
  BY <1>1, <1>2, <1>4
<1>9. \A k \in Sessions \ {i} : /\ Alike(sess'[k], sess[k])
                                /\ sess[k].closing => sess'[k].closing
                                /\ k = old.sess /\ old.client = c => sess'[k].closing
  BY <1>6, <1>8
<1>10. /\ sess'[i].st = sess[i].st /\ sess'[i].client = c /\ sess'[i].code = code
       /\ sess'[i].role = "host" /\ sess'[i].peer = peer /\ sess'[i].revoked = sess[i].revoked
  BY <1>6, <1>7, <1>8 DEF Alike
<1> QED BY <1>1, <1>3, <1>8, <1>9, <1>10 DEF h, AdmitHostEffect

LEMMA PresenceAdmitHost ==
  ASSUME PresenceInv, Shaped, Shaped', NEW i \in Sessions, NEW code \in Codes, MayConnect(i),
         rooms[code].id # 0, rooms[code].host.sess = 0 \/ rooms[code].host.client = sess[i].client,
         AdmitHost(i, code)
  PROVE  PresenceInv'
<1>1. PICK c : c = sess[i].client
  OBVIOUS
<1>2. PICK old : old = rooms[code].host
  OBVIOUS
<1>3. PICK peer : peer = IF old.client = c THEN old.peer ELSE i
  OBVIOUS
<1>4. c \in Clients /\ sess[i].st = "open" /\ ~sess[i].revoked /\ sess[i].role = "none" /\ i # 0
  BY <1>1, Bounds DEF MayConnect, Shaped, SessionShape, Authenticated
<1>0. AdmitHostEffect(i, code, c, old, peer)
  BY <1>1, <1>2, <1>3, AdmitHostIs
<1> DEFINE seat == [client |-> c, peer |-> peer, sess |-> i]
<1>5. seat.peer = peer /\ seat.sess = i
  OBVIOUS
<1>6. /\ rooms'[code].host = seat /\ \A k \in Codes \ {code} : rooms'[k] = rooms[k]
      /\ \A k \in Codes : /\ rooms'[k].viewers = rooms[k].viewers /\ rooms'[k].id = rooms[k].id
                          /\ rooms'[k].grant = rooms[k].grant
  BY <1>0 DEF AdmitHostEffect
<1> HIDE DEF seat
<1>7. \A k \in Sessions \ {i} : /\ Alike(sess'[k], sess[k])
                                /\ sess[k].closing => sess'[k].closing
                                /\ k = old.sess => sess'[k].closing
  <2>1. \A k \in Sessions : k = old.sess => old.client = c
    BY <1>1, <1>2, Bounds
  <2> QED BY <1>0, <2>1 DEF AdmitHostEffect
<1>8. /\ sess'[i].st = "open" /\ sess'[i].client = c /\ sess'[i].code = code
      /\ sess'[i].role = "host" /\ sess'[i].peer = peer /\ ~sess'[i].revoked
  BY <1>0, <1>4 DEF AdmitHostEffect
<1>9. grace' = grace /\ voice' = voice /\ routed' = routed /\ unauth' = unauth - 1
  BY <1>0 DEF AdmitHostEffect
<1>10. UnauthenticatedCounted'
  <2>1. \A k \in Sessions \ {i} : sess'[k].st = sess[k].st /\ sess'[k].role = sess[k].role
    BY <1>7 DEF Alike
  <2> QED BY <1>4, <1>8, <1>9, <2>1, CountLess DEF PresenceInv
<1>11. Vacant'
  BY <1>6 DEF PresenceInv, MembersInv, Vacant
<1>12. ViewersHeld'
  <2>1. ASSUME NEW k \in Codes, NEW d \in Clients, rooms'[k].viewers[d].sess # 0
        PROVE  LET v == rooms'[k].viewers[d]
                   s == sess'[v.sess]
               IN  /\ s.st = "open" /\ ~s.revoked /\ s.code = k /\ s.role = "viewer"
                   /\ s.client = d /\ s.peer = v.peer
    <3>1. rooms'[k].viewers[d] = rooms[k].viewers[d]
      BY <1>6
    <3>2. rooms[k].viewers[d].sess \in Sessions \ {i}
      BY <1>4, <2>1, <3>1, Seats, Stranger
    <3>3. Alike(sess'[rooms[k].viewers[d].sess], sess[rooms[k].viewers[d].sess])
      BY <1>7, <3>2
    <3>4. LET v == rooms[k].viewers[d]
              s == sess[v.sess]
          IN  /\ s.st = "open" /\ ~s.revoked /\ s.code = k /\ s.role = "viewer"
              /\ s.client = d /\ s.peer = v.peer
      BY <2>1, <3>1 DEF PresenceInv, MembersInv, ViewersHeld, Holds
    <3> QED BY <3>1, <3>3, <3>4 DEF Alike
  <2> QED BY <2>1 DEF ViewersHeld, Holds
<1>13. HostHeld'
  <2>1. ASSUME NEW k \in Codes, rooms'[k].host.sess # 0, k # code
        PROVE  LET h == rooms'[k].host
                   s == sess'[h.sess]
               IN  s.st = "open" /\ ~s.revoked /\ s.code = k /\ s.role = "host" /\ s.peer = h.peer
    <3>1. rooms'[k].host = rooms[k].host
      BY <1>6, <2>1
    <3>2. rooms[k].host.sess \in Sessions \ {i}
      BY <1>4, <2>1, <3>1, Seats, Stranger
    <3>3. Alike(sess'[rooms[k].host.sess], sess[rooms[k].host.sess])
      BY <1>7, <3>2
    <3> QED BY <2>1, <3>1, <3>3 DEF PresenceInv, MembersInv, HostHeld, Holds, Alike
  <2> QED BY <1>5, <1>6, <1>8, <2>1 DEF HostHeld, Holds
<1>14. SpeakersNamed'
  <2>1. ASSUME NEW k \in Sessions, Speaking(k)', k # i PROVE NamedByStore(k)'
    <3>1. /\ sess'[k].st = "open" /\ sess'[k].role # "none" /\ ~sess'[k].closing
      BY <2>1 DEF Speaking, Authenticated
    <3>2. Alike(sess'[k], sess[k]) /\ ~sess[k].closing /\ k # old.sess
      BY <1>7, <2>1, <3>1 DEF Shaped, Types, World, SessionSet
    <3>3. Speaking(k) /\ sess[k].code \in Codes /\ sess[k].client \in Clients
      BY <3>1, <3>2 DEF Speaking, Authenticated, Alike, Shaped, SessionShape
    <3>4. NamedByStore(k)
      BY <3>3 DEF PresenceInv, MembersInv, SpeakersNamed
    <3>5. CASE sess[k].role = "host"
      <4>1. sess[k].code # code
        BY <1>2, <3>2, <3>4, <3>5 DEF NamedByStore
      <4> QED BY <1>6, <3>2, <3>3, <3>4, <3>5, <4>1 DEF NamedByStore, Alike
    <3>6. CASE sess[k].role # "host"
      BY <1>6, <3>2, <3>3, <3>4, <3>6 DEF NamedByStore, Alike
    <3> QED BY <3>5, <3>6
  <2>2. NamedByStore(i)'
    BY <1>5, <1>6, <1>8 DEF NamedByStore
  <2> QED BY <2>1, <2>2 DEF SpeakersNamed
<1>15. PeersOnce'
  <2>1. ASSUME NEW k \in Codes, NEW d \in Clients, rooms'[k].viewers[d].peer # 0
        PROVE  LET p == rooms'[k].viewers[d].peer IN sess'[p].st = "gone" \/ sess'[p].role # "none"
    <3>1. rooms'[k].viewers[d] = rooms[k].viewers[d]
      BY <1>6
    <3>2. rooms[k].viewers[d].peer \in Sessions \ {i}
      BY <1>4, <2>1, <3>1, Seats, Stranger
    <3>3. Alike(sess'[rooms[k].viewers[d].peer], sess[rooms[k].viewers[d].peer])
      BY <1>7, <3>2
    <3> QED BY <2>1, <3>1, <3>3 DEF PresenceInv, MembersInv, PeersOnce, Alike
  <2> QED BY <1>6, <2>1 DEF PresenceInv, MembersInv, PeersOnce
<1>16. AwayTimed' /\ GrantsCurrent'
  BY <1>6, <1>9 DEF PresenceInv, MembersInv, AwayTimed, GrantsCurrent, Shaped, Types, World,
     PresenceTypes, Timer
<1>17. PlacesKept'
  <2>1. \A k \in Codes : Peers(rooms'[k]) = Peers(rooms[k])
    BY <1>6 DEF Peers
  <2> QED BY <1>9, <2>1 DEF PresenceInv, MembersInv, PlacesKept
<1> QED BY <1>10, <1>11, <1>12, <1>13, <1>14, <1>15, <1>16, <1>17 DEF PresenceInv, MembersInv

(* A session that is gone: the one that connected a participant leaves his  *)
(* place, and a Viewer's is kept for the time of a grace.                  *)
LEMMA PresenceDisconnect == ASSUME PresenceInv, Shaped, Shaped', Disconnect PROVE PresenceInv'
<1>1. PICK i \in Sessions :
        LET s == sess[i]
            r == rooms[s.code]
            left == s.role = "viewer" /\ r.viewers[s.client].peer = s.peer /\ r.viewers[s.client].sess = i
            hostLeft == s.role = "host" /\ r.host.peer = s.peer /\ r.host.sess = i
            after == IF left THEN [r EXCEPT !.viewers[s.client] = [@ EXCEPT !.sess = 0, !.left = i]]
                     ELSE [r EXCEPT !.host.sess = 0]
        IN  /\ s.st = "open"
            /\ sess' = [sess EXCEPT ![i] = [NoSession EXCEPT !.st = "gone"]]
            /\ unauth' = IF s.revoked \/ Authenticated(i) THEN unauth ELSE unauth - 1
            /\ IF ~s.revoked /\ Authenticated(i) /\ (left \/ hostLeft)
               THEN rooms' = [rooms EXCEPT ![s.code] =
                                IF Occupied(after) THEN after ELSE [after EXCEPT !.age = 0]]
               ELSE UNCHANGED rooms
            /\ grace' = IF ~s.revoked /\ Authenticated(i) /\ left
                        THEN grace \cup {[code |-> s.code, peer |-> s.peer, client |-> s.client, id |-> i]}
                        ELSE grace
            /\ UNCHANGED <<free, db, fired, voice, routed, jobs, gate, count>>
  BY DEF Disconnect
<1>2. PICK s, k, c : s = sess[i] /\ k = s.code /\ c = s.client
  OBVIOUS
<1>3. s \in SessionSet /\ c \in Clients /\ s.st = "open" /\ i # 0 /\ (s.role # "none" => k \in Codes)
  BY <1>1, <1>2, Bounds DEF Shaped, SessionShape, Authenticated, Types, World
<1>4. sess'[i].st = "gone" /\ sess'[i].role = "none" /\ \A j \in Sessions \ {i} : sess'[j] = sess[j]
  <2> DEFINE gone == [NoSession EXCEPT !.st = "gone"]
  <2>1. gone.st = "gone" /\ gone.role = "none"
    BY DEF NoSession
  <2> HIDE DEF gone
  <2> QED BY <1>1, <2>1 DEF Shaped, Types, World, gone
<1>5. voice' = voice /\ routed' = routed
  BY <1>1
<1>6. UnauthenticatedCounted'
  <2>1. s.revoked => s.role # "none"
    BY <1>2 DEF Shaped, SessionShape, Authenticated
  <2>2. CASE s.role = "none"
    <3>1. unauth' = unauth - 1
      BY <1>1, <1>2, <2>1, <2>2 DEF Authenticated
    <3> QED BY <1>2, <1>3, <1>4, <2>2, <3>1, CountLess DEF PresenceInv
  <2>3. CASE s.role # "none"
    <3>1. unauth' = unauth
      BY <1>1, <1>2, <2>3 DEF Authenticated
    <3>2. Unadmitted' = Unadmitted
      BY <1>2, <1>4, <2>3 DEF Unadmitted, Authenticated
    <3> QED BY <3>1, <3>2, CountedIs, CountedNext DEF PresenceInv
  <2> QED BY <2>2, <2>3
<1> DEFINE r == rooms[k]
           seat == r.viewers[c]
           L == s.role = "viewer" /\ seat.peer = s.peer /\ seat.sess = i
           H == s.role = "host" /\ r.host.peer = s.peer /\ r.host.sess = i
           empty == [seat EXCEPT !.sess = 0, !.left = i]
           after == IF L THEN [r EXCEPT !.viewers[c] = empty] ELSE [r EXCEPT !.host.sess = 0]
           next == IF Occupied(after) THEN after ELSE [after EXCEPT !.age = 0]
           t == [code |-> k, peer |-> s.peer, client |-> c, id |-> i]
<1>7. L \/ H => ~s.revoked /\ k \in Codes
  <2>1. L \/ H => s.role # "none"
    OBVIOUS
  <2>2. L => rooms[k].viewers[c].sess = i
    OBVIOUS
  <2>3. H => rooms[k].host.sess = i
    OBVIOUS
  <2> HIDE DEF L, H
  <2>4. L => ~s.revoked
    BY <1>2, <1>3, <2>1, <2>2 DEF PresenceInv, MembersInv, ViewersHeld, Holds
  <2>5. H => ~s.revoked
    BY <1>2, <1>3, <2>1, <2>3 DEF PresenceInv, MembersInv, HostHeld, Holds
  <2> QED BY <1>3, <2>1, <2>4, <2>5
<1>8. IF L \/ H THEN rooms' = [rooms EXCEPT ![k] = next] ELSE UNCHANGED rooms
  BY <1>1, <1>2, <1>7 DEF Authenticated
<1>9. grace' = IF L THEN grace \cup {t} ELSE grace
  BY <1>1, <1>2, <1>7 DEF Authenticated
<1>10. L \/ H => r \in RoomSet /\ seat \in Viewers
  BY <1>3, <1>7, Seats
<1>11. L => /\ next.id = r.id /\ next.grant = r.grant /\ next.host = r.host
            /\ next.viewers[c].peer = seat.peer /\ next.viewers[c].sess = 0 /\ next.viewers[c].left = i
            /\ next.viewers[c].by = seat.by /\ next.viewers[c].cred = seat.cred
            /\ \A d \in Clients \ {c} : next.viewers[d] = r.viewers[d]
  <2> SUFFICES ASSUME L PROVE /\ next.id = r.id /\ next.grant = r.grant /\ next.host = r.host
            /\ next.viewers[c].peer = seat.peer /\ next.viewers[c].sess = 0 /\ next.viewers[c].left = i
            /\ next.viewers[c].by = seat.by /\ next.viewers[c].cred = seat.cred
            /\ \A d \in Clients \ {c} : next.viewers[d] = r.viewers[d]
    OBVIOUS
  <2>1. /\ empty.peer = seat.peer /\ empty.sess = 0 /\ empty.left = i
        /\ empty.by = seat.by /\ empty.cred = seat.cred
    <3> HIDE DEF seat
    <3> QED BY <1>10 DEF Viewers
  <2>2. after = [r EXCEPT !.viewers[c] = empty]
    OBVIOUS
  <2> HIDE DEF empty, after
  <2>3. /\ after.id = r.id /\ after.grant = r.grant /\ after.host = r.host /\ after.viewers[c] = empty
        /\ \A d \in Clients \ {c} : after.viewers[d] = r.viewers[d]
    BY <1>3, <1>10, <2>2 DEF RoomSet
  <2>4. after \in [{"id", "grant", "pw", "policy", "host", "viewers", "age"} -> {after[x] : x \in DOMAIN after}]
    BY <1>10, <2>2 DEF RoomSet
  <2>5. next.id = after.id /\ next.grant = after.grant /\ next.host = after.host /\ next.viewers = after.viewers
    BY <2>4
  <2> HIDE DEF next
  <2> QED BY <2>1, <2>3, <2>5
<1>12. H => /\ next.id = r.id /\ next.grant = r.grant /\ next.viewers = r.viewers
            /\ next.host.peer = r.host.peer /\ next.host.sess = 0
  <2> SUFFICES ASSUME H PROVE /\ next.id = r.id /\ next.grant = r.grant /\ next.viewers = r.viewers
                              /\ next.host.peer = r.host.peer /\ next.host.sess = 0
    OBVIOUS
  <2>1. after = [r EXCEPT !.host.sess = 0]
    OBVIOUS
  <2> HIDE DEF after
  <2>2. /\ after.id = r.id /\ after.grant = r.grant /\ after.viewers = r.viewers
        /\ after.host.peer = r.host.peer /\ after.host.sess = 0
    BY <1>10, <2>1 DEF RoomSet
  <2>3. next.id = after.id /\ next.grant = after.grant /\ next.host = after.host /\ next.viewers = after.viewers
    BY <1>10, <2>1 DEF RoomSet
  <2> HIDE DEF next
  <2> QED BY <2>2, <2>3
<1>13. t = [code |-> k, peer |-> s.peer, client |-> c, id |-> i]
  OBVIOUS
<1>14. L <=> s.role = "viewer" /\ rooms[k].viewers[c].peer = s.peer /\ rooms[k].viewers[c].sess = i
  OBVIOUS
<1>15. H <=> s.role = "host" /\ rooms[k].host.peer = s.peer /\ rooms[k].host.sess = i
  OBVIOUS
<1>16. rooms \in [Codes -> RoomSet]
  BY DEF Shaped, Types, World, StoreTypes
<1>17. ~(L /\ H)
  OBVIOUS
<1> HIDE DEF next, after, empty, t, L, H
<1>0. L \/ H => rooms'[k] = next /\ \A q \in Codes \ {k} : rooms'[q] = rooms[q]
  BY <1>7, <1>8, <1>16
<1>18. \A q \in Codes : /\ rooms'[q].id = rooms[q].id /\ rooms'[q].grant = rooms[q].grant
                        /\ \/ rooms'[q].host = rooms[q].host
                           \/ (H /\ q = k /\ rooms'[q].host.sess = 0)
  <2>1. CASE L
    BY <1>0, <1>11, <2>1
  <2>2. CASE H
    BY <1>0, <1>12, <2>2
  <2>3. CASE ~L /\ ~H
    BY <1>8, <2>3
  <2> QED BY <2>1, <2>2, <2>3
<1>19. \A q \in Codes, d \in Clients : rooms'[q].viewers[d] = rooms[q].viewers[d] \/ (L /\ q = k /\ d = c)
  <2>1. CASE L
    BY <1>0, <1>11, <2>1
  <2>2. CASE H
    BY <1>0, <1>12, <2>2
  <2>3. CASE ~L /\ ~H
    BY <1>8, <2>3
  <2> QED BY <2>1, <2>2, <2>3
<1>20. L => /\ k \in Codes /\ rooms'[k].viewers[c].peer = s.peer /\ rooms[k].viewers[c].peer = s.peer
            /\ rooms'[k].viewers[c].sess = 0 /\ rooms'[k].viewers[c].left = i
            /\ rooms'[k].viewers[c].by = rooms[k].viewers[c].by
            /\ rooms'[k].viewers[c].cred = rooms[k].viewers[c].cred
  BY <1>7, <1>8, <1>11, <1>14, <1>16
<1>21. \A q \in Codes, d \in Clients : rooms'[q].viewers[d].sess # i
  <2>1. ASSUME NEW q \in Codes, NEW d \in Clients, rooms'[q].viewers[d].sess = i PROVE FALSE
    <3>1. rooms[q].viewers[d].sess = i
      BY <1>3, <1>19, <1>20, <2>1
    <3>2. s.role = "viewer" /\ s.code = q /\ s.client = d /\ s.peer = rooms[q].viewers[d].peer
      BY <1>2, <1>3, <3>1 DEF PresenceInv, MembersInv, ViewersHeld, Holds
    <3>3. L /\ q = k /\ d = c
      BY <1>2, <1>14, <3>1, <3>2
    <3> QED BY <1>3, <1>20, <2>1, <3>3
  <2> QED BY <2>1
<1>22. \A q \in Codes : rooms'[q].host.sess # i
  <2>1. ASSUME NEW q \in Codes, rooms'[q].host.sess = i PROVE FALSE
    <3>1. rooms[q].host.sess = i /\ ~(H /\ q = k)
      BY <1>3, <1>7, <1>8, <1>12, <1>16, <1>18, <2>1
    <3>2. s.role = "host" /\ s.code = q /\ s.peer = rooms[q].host.peer
      BY <1>2, <1>3, <3>1 DEF PresenceInv, MembersInv, HostHeld, Holds
    <3> QED BY <1>2, <1>15, <3>1, <3>2
  <2> QED BY <2>1
<1>23. \A q \in Codes, d \in Clients : rooms'[q].viewers[d].peer = rooms[q].viewers[d].peer
  BY <1>19, <1>20
<1>24. Vacant'
  BY <1>18, <1>19, <1>20 DEF PresenceInv, MembersInv, Vacant
<1>25. ViewersHeld'
  <2>1. ASSUME NEW q \in Codes, NEW d \in Clients, rooms'[q].viewers[d].sess # 0
        PROVE  LET v == rooms'[q].viewers[d]
                   z == sess'[v.sess]
               IN  /\ z.st = "open" /\ ~z.revoked /\ z.code = q /\ z.role = "viewer"
                   /\ z.client = d /\ z.peer = v.peer
    <3>1. rooms'[q].viewers[d] = rooms[q].viewers[d]
      BY <1>19, <1>20, <2>1
    <3>2. rooms[q].viewers[d].sess \in Sessions \ {i}
      BY <1>21, <2>1, <3>1, Seats
    <3> QED BY <1>4, <2>1, <3>1, <3>2 DEF PresenceInv, MembersInv, ViewersHeld, Holds
  <2> QED BY <2>1 DEF ViewersHeld, Holds
<1>26. HostHeld'
  <2>1. ASSUME NEW q \in Codes, rooms'[q].host.sess # 0
        PROVE  LET h == rooms'[q].host
                   z == sess'[h.sess]
               IN  z.st = "open" /\ ~z.revoked /\ z.code = q /\ z.role = "host" /\ z.peer = h.peer
    <3>1. rooms'[q].host = rooms[q].host
      BY <1>18, <2>1
    <3>2. rooms[q].host.sess \in Sessions \ {i}
      BY <1>22, <2>1, <3>1, Seats
    <3> QED BY <1>4, <2>1, <3>1, <3>2 DEF PresenceInv, MembersInv, HostHeld, Holds
  <2> QED BY <2>1 DEF HostHeld, Holds
<1>27. SpeakersNamed'
  <2>1. ASSUME NEW j \in Sessions, Speaking(j)' PROVE NamedByStore(j)'
    <3>1. j # i /\ sess'[j] = sess[j]
      BY <1>4, <2>1 DEF Speaking
    <3>2. Speaking(j) /\ sess[j].code \in Codes /\ sess[j].client \in Clients
      BY <2>1, <3>1 DEF Speaking, Authenticated, Shaped, SessionShape
    <3>3. NamedByStore(j)
      BY <3>2 DEF PresenceInv, MembersInv, SpeakersNamed
    <3>4. CASE sess[j].role = "host"
      <4>1. ~(H /\ sess[j].code = k)
        BY <1>15, <3>1, <3>3, <3>4 DEF NamedByStore
      <4> QED BY <1>18, <3>1, <3>2, <3>3, <3>4, <4>1 DEF NamedByStore
    <3>5. CASE sess[j].role # "host"
      <4>1. ~(L /\ sess[j].code = k /\ sess[j].client = c)
        BY <1>14, <3>1, <3>3, <3>5 DEF NamedByStore
      <4> QED BY <1>19, <3>1, <3>2, <3>3, <3>5, <4>1 DEF NamedByStore
    <3> QED BY <3>4, <3>5
  <2> QED BY <2>1 DEF SpeakersNamed
<1>28. PeersOnce'
  <2>1. ASSUME NEW q \in Codes, NEW d \in Clients, rooms'[q].viewers[d].peer # 0
        PROVE  LET p == rooms'[q].viewers[d].peer IN sess'[p].st = "gone" \/ sess'[p].role # "none"
    <3>1. rooms'[q].viewers[d].peer = rooms[q].viewers[d].peer
      BY <1>23
    <3>2. rooms[q].viewers[d].peer \in Sessions
      BY <2>1, <3>1, Seats
    <3> QED BY <1>4, <2>1, <3>1, <3>2 DEF PresenceInv, MembersInv, PeersOnce
  <2> QED BY <1>23, <2>1 DEF PresenceInv, MembersInv, PeersOnce
<1>29. AwayTimed'
  <2>1. ASSUME NEW q \in Codes, NEW d \in Clients,
               rooms'[q].viewers[d].peer # 0, rooms'[q].viewers[d].sess = 0
        PROVE  [code |-> q, peer |-> rooms'[q].viewers[d].peer, client |-> d,
                id |-> rooms'[q].viewers[d].left] \in grace'
    <3>1. CASE L /\ q = k /\ d = c
      BY <1>9, <1>13, <1>20, <3>1
    <3>2. CASE ~(L /\ q = k /\ d = c)
      BY <1>9, <1>19, <2>1, <3>2 DEF PresenceInv, MembersInv, AwayTimed
    <3> QED BY <3>1, <3>2
  <2>2. ASSUME NEW u \in grace'
        PROVE  LET v == rooms'[u.code].viewers[u.client]
               IN  v.peer = u.peer /\ v.sess = 0 /\ v.left = u.id
    <3>1. CASE L /\ u = t
      <4>1. u.code = k /\ u.client = c /\ u.peer = s.peer /\ u.id = i
        BY <1>13, <3>1
      <4> QED BY <1>20, <3>1, <4>1
    <3>2. CASE ~(L /\ u = t)
      <4>1. u \in grace
        BY <1>9, <2>2, <3>2
      <4>2. u.code \in Codes /\ u.client \in Clients
        BY <4>1 DEF Shaped, Types, World, PresenceTypes, Timer
      <4>3. LET v == rooms[u.code].viewers[u.client]
            IN  v.peer = u.peer /\ v.sess = 0 /\ v.left = u.id
        BY <4>1 DEF PresenceInv, MembersInv, AwayTimed
      <4>4. ~(L /\ u.code = k /\ u.client = c)
        BY <1>3, <1>14, <4>3
      <4> QED BY <1>19, <4>2, <4>3, <4>4
    <3> QED BY <3>1, <3>2
  <2> QED BY <2>1, <2>2 DEF AwayTimed
<1>30. PlacesKept'
  <2>1. \A q \in Codes : Peers(rooms'[q]) = Peers(rooms[q])
    BY <1>23 DEF Peers
  <2> QED BY <1>5, <2>1 DEF PresenceInv, MembersInv, PlacesKept
<1>31. GrantsCurrent'
  BY <1>18, <1>19, <1>20 DEF PresenceInv, MembersInv, GrantsCurrent
<1> QED BY <1>6, <1>24, <1>25, <1>26, <1>27, <1>28, <1>29, <1>30, <1>31 DEF PresenceInv, MembersInv

(* Some seats are emptied, with their timers and names; some rooms close.  *)
Emptied ==
    /\ unauth' = unauth
    /\ \A q \in Codes, d \in Clients :
          /\ rooms'[q].viewers[d] \in {rooms[q].viewers[d], NoViewer}
          /\ rooms'[q].viewers[d] # rooms[q].viewers[d] /\ rooms[q].viewers[d].sess # 0 =>
                sess'[rooms[q].viewers[d].sess].closing
          /\ rooms'[q].viewers[d].by = "grant" => rooms'[q].grant = rooms[q].grant
    /\ \A q \in Codes :
          /\ \/ rooms'[q].host = rooms[q].host /\ rooms'[q].id = rooms[q].id
             \/ rooms'[q].host.sess = 0 /\ \A d \in Clients : rooms'[q].viewers[d] = NoViewer
          /\ rooms'[q].host # rooms[q].host /\ rooms[q].host.sess # 0 =>
                sess'[rooms[q].host.sess].closing
          /\ routed'[q] = Peers(rooms'[q]) /\ voice'[q] \subseteq Peers(rooms'[q])
    /\ \A i \in Sessions :
          /\ sess'[i].st = sess[i].st /\ sess'[i].client = sess[i].client
          /\ sess'[i].code = sess[i].code /\ sess'[i].role = sess[i].role /\ sess'[i].peer = sess[i].peer
          /\ sess[i].closing => sess'[i].closing
          /\ sess'[i].revoked /\ ~sess[i].revoked =>
                \A q \in Codes : /\ rooms'[q].host.sess # i
                                 /\ \A d \in Clients : rooms'[q].viewers[d].sess # i
    /\ grace' \subseteq grace
    /\ \A t \in grace :
          t \in grace' <=> rooms'[t.code].viewers[t.client] = rooms[t.code].viewers[t.client]

LEMMA NoViewerIs ==
  /\ NoViewer.peer = 0 /\ NoViewer.sess = 0 /\ NoViewer.by = "none" /\ NoViewer.left = 0
  /\ NoRoom.host.sess = 0 /\ \A c \in Clients : NoRoom.viewers[c] = NoViewer
BY DEF NoViewer, NoRoom, NoOne

LEMMA PresenceEmptied == ASSUME PresenceInv, Shaped, Shaped', Emptied PROVE PresenceInv'
<1>1. UnauthenticatedCounted'
  BY CountStays DEF PresenceInv, Emptied
<1>2. \A q \in Codes, d \in Clients :
        rooms'[q].viewers[d].peer # 0 \/ rooms'[q].viewers[d].sess # 0 \/ rooms'[q].viewers[d].by = "grant" =>
           rooms'[q].viewers[d] = rooms[q].viewers[d]
  BY NoViewerIs DEF Emptied
<1>3. \A q \in Codes : rooms'[q].host.sess # 0 => rooms'[q].host = rooms[q].host
  BY DEF Emptied
<1>4. Vacant'
  <2>1. ASSUME NEW q \in Codes, rooms'[q].id = 0
        PROVE  rooms'[q].host.sess = 0 /\ \A d \in Clients : rooms'[q].viewers[d].peer = 0
    <3>1. CASE rooms'[q].host = rooms[q].host /\ rooms'[q].id = rooms[q].id
      BY <1>2, <2>1, <3>1 DEF PresenceInv, MembersInv, Vacant
    <3>2. CASE rooms'[q].host.sess = 0 /\ \A d \in Clients : rooms'[q].viewers[d] = NoViewer
      BY <3>2, NoViewerIs
    <3> QED BY <3>1, <3>2 DEF Emptied
  <2>2. ASSUME NEW q \in Codes, NEW d \in Clients, rooms'[q].viewers[d].peer = 0
        PROVE  rooms'[q].viewers[d].sess = 0
    BY <1>2, <2>2 DEF PresenceInv, MembersInv, Vacant
  <2> QED BY <2>1, <2>2 DEF Vacant
<1>5. ViewersHeld'
  <2>1. ASSUME NEW q \in Codes, NEW d \in Clients, rooms'[q].viewers[d].sess # 0
        PROVE  LET v == rooms'[q].viewers[d]
                   z == sess'[v.sess]
               IN  /\ z.st = "open" /\ ~z.revoked /\ z.code = q /\ z.role = "viewer"
                   /\ z.client = d /\ z.peer = v.peer
    <3>1. rooms'[q].viewers[d] = rooms[q].viewers[d]
      BY <1>2, <2>1
    <3>2. PICK i : i = rooms[q].viewers[d].sess
      OBVIOUS
    <3>3. i \in Sessions /\ rooms'[q].viewers[d].sess = i /\ i # 0
      BY <2>1, <3>1, <3>2, Seats
    <3>4. LET z == sess[i]
          IN  /\ z.st = "open" /\ ~z.revoked /\ z.code = q /\ z.role = "viewer"
              /\ z.client = d /\ z.peer = rooms[q].viewers[d].peer
      BY <3>2, <3>3 DEF PresenceInv, MembersInv, ViewersHeld, Holds
    <3>5. ~sess'[i].revoked
      <4>1. sess'[i].revoked \in BOOLEAN
        BY <3>3 DEF Shaped, Types, World, SessionSet
      <4> QED BY <3>3, <3>4, <4>1 DEF Emptied
    <3>6. /\ sess'[i].st = sess[i].st /\ sess'[i].client = sess[i].client
          /\ sess'[i].code = sess[i].code /\ sess'[i].role = sess[i].role /\ sess'[i].peer = sess[i].peer
      BY <3>3 DEF Emptied
    <3> QED BY <3>1, <3>2, <3>3, <3>4, <3>5, <3>6
  <2> QED BY <2>1 DEF ViewersHeld, Holds
<1>6. HostHeld'
  <2>1. ASSUME NEW q \in Codes, rooms'[q].host.sess # 0
        PROVE  LET h == rooms'[q].host
                   z == sess'[h.sess]
               IN  z.st = "open" /\ ~z.revoked /\ z.code = q /\ z.role = "host" /\ z.peer = h.peer
    <3>1. rooms'[q].host = rooms[q].host
      BY <1>3, <2>1
    <3>2. PICK i : i = rooms[q].host.sess
      OBVIOUS
    <3>3. i \in Sessions /\ rooms'[q].host.sess = i /\ i # 0
      BY <2>1, <3>1, <3>2, Seats
    <3>4. LET z == sess[i]
          IN  z.st = "open" /\ ~z.revoked /\ z.code = q /\ z.role = "host" /\ z.peer = rooms[q].host.peer
      BY <3>2, <3>3 DEF PresenceInv, MembersInv, HostHeld, Holds
    <3>5. ~sess'[i].revoked
      BY <3>3, <3>4 DEF Emptied
    <3> QED BY <3>1, <3>2, <3>3, <3>4, <3>5 DEF Emptied
  <2> QED BY <2>1 DEF HostHeld, Holds
<1>7. SpeakersNamed'
  <2>1. ASSUME NEW i \in Sessions, Speaking(i)' PROVE NamedByStore(i)'
    <3>1. /\ sess'[i].st = sess[i].st /\ sess'[i].client = sess[i].client /\ sess'[i].code = sess[i].code
          /\ sess'[i].role = sess[i].role /\ sess'[i].peer = sess[i].peer /\ ~sess[i].closing
          /\ ~sess'[i].closing
      BY <2>1 DEF Emptied, Speaking
    <3>2. Speaking(i) /\ sess[i].code \in Codes /\ sess[i].client \in Clients /\ i # 0
      BY <2>1, <3>1, Bounds DEF Speaking, Authenticated, Shaped, SessionShape
    <3>3. NamedByStore(i)
      BY <3>2 DEF PresenceInv, MembersInv, SpeakersNamed
    <3>4. CASE sess[i].role = "host"
      <4>1. rooms'[sess[i].code].host = rooms[sess[i].code].host
        BY <3>1, <3>2, <3>3, <3>4 DEF NamedByStore, Emptied
      <4> QED BY <3>1, <3>3, <3>4, <4>1 DEF NamedByStore
    <3>5. CASE sess[i].role # "host"
      <4>1. rooms'[sess[i].code].viewers[sess[i].client] = rooms[sess[i].code].viewers[sess[i].client]
        BY <3>1, <3>2, <3>3, <3>5 DEF NamedByStore, Emptied
      <4> QED BY <3>1, <3>3, <3>5, <4>1 DEF NamedByStore
    <3> QED BY <3>4, <3>5
  <2> QED BY <2>1 DEF SpeakersNamed
<1>8. PeersOnce'
  <2>1. ASSUME NEW q \in Codes, NEW d \in Clients, rooms'[q].viewers[d].peer # 0
        PROVE  LET p == rooms'[q].viewers[d].peer IN sess'[p].st = "gone" \/ sess'[p].role # "none"
    <3>1. rooms'[q].viewers[d] = rooms[q].viewers[d] /\ rooms[q].viewers[d].peer \in Sessions
      BY <1>2, <2>1, Seats
    <3> QED BY <2>1, <3>1 DEF PresenceInv, MembersInv, PeersOnce, Emptied
  <2>2. ASSUME NEW q \in Codes, NEW d \in Clients, NEW e \in Clients, rooms'[q].viewers[d].peer # 0,
               rooms'[q].viewers[d].peer = rooms'[q].viewers[e].peer
        PROVE  d = e
    BY <1>2, <2>2 DEF PresenceInv, MembersInv, PeersOnce
  <2> QED BY <2>1, <2>2 DEF PeersOnce
<1>9. AwayTimed'
  <2>1. ASSUME NEW q \in Codes, NEW d \in Clients,
               rooms'[q].viewers[d].peer # 0, rooms'[q].viewers[d].sess = 0
        PROVE  [code |-> q, peer |-> rooms'[q].viewers[d].peer, client |-> d,
                id |-> rooms'[q].viewers[d].left] \in grace'
    <3>1. rooms'[q].viewers[d] = rooms[q].viewers[d]
      BY <1>2, <2>1
    <3> DEFINE t == [code |-> q, peer |-> rooms[q].viewers[d].peer, client |-> d,
                     id |-> rooms[q].viewers[d].left]
    <3>2. t \in grace
      BY <2>1, <3>1 DEF PresenceInv, MembersInv, AwayTimed
    <3>3. t.code = q /\ t.client = d
      OBVIOUS
    <3>4. t \in grace'
      <4> HIDE DEF t
      <4> QED BY <3>1, <3>2, <3>3 DEF Emptied
    <3> QED BY <3>1, <3>4
  <2>2. ASSUME NEW t \in grace'
        PROVE  LET v == rooms'[t.code].viewers[t.client]
               IN  v.peer = t.peer /\ v.sess = 0 /\ v.left = t.id
    <3>1. t \in grace /\ rooms'[t.code].viewers[t.client] = rooms[t.code].viewers[t.client]
      BY <2>2 DEF Emptied
    <3> QED BY <3>1 DEF PresenceInv, MembersInv, AwayTimed
  <2> QED BY <2>1, <2>2 DEF AwayTimed
<1>10. PlacesKept'
  <2>1. ASSUME NEW q \in Codes PROVE Cardinality(Peers(rooms'[q])) <= MaxViewers
    <3>1. Peers(rooms'[q]) \subseteq Peers(rooms[q])
      <4>1. ASSUME NEW p \in Peers(rooms'[q]) PROVE p \in Peers(rooms[q])
        <5>1. PICK d \in Clients : rooms'[q].viewers[d].peer = p /\ p # 0
          BY <4>1 DEF Peers
        <5> QED BY <1>2, <5>1 DEF Peers
      <4> QED BY <4>1
    <3>2. IsFiniteSet(Peers(rooms'[q])) /\ Cardinality(Peers(rooms'[q])) <= Cardinality(Peers(rooms[q]))
      BY <3>1, PeersAre, FS_Subset
    <3>3. Cardinality(Peers(rooms'[q])) \in Nat /\ Cardinality(Peers(rooms[q])) \in Nat /\ MaxViewers \in Nat
      BY <3>2, PeersAre, FS_CardinalityType, Bounds
    <3> QED BY <3>2, <3>3 DEF PresenceInv, MembersInv, PlacesKept
  <2> QED BY <2>1 DEF Emptied, PlacesKept
<1>11. GrantsCurrent'
  <2>1. ASSUME NEW q \in Codes, NEW d \in Clients, rooms'[q].viewers[d].by = "grant"
        PROVE  rooms'[q].viewers[d].cred = rooms'[q].grant
    BY <1>2, <2>1 DEF Emptied, PresenceInv, MembersInv, GrantsCurrent
  <2> QED BY <2>1 DEF GrantsCurrent
<1> QED BY <1>1, <1>4, <1>5, <1>6, <1>7, <1>8, <1>9, <1>10, <1>11 DEF PresenceInv, MembersInv

(* The names left when some seats of a room are emptied.                   *)
LEMMA PeersLeft ==
  ASSUME PresenceInv, Shaped, NEW q \in Codes, NEW gone \in SUBSET Clients,
         \A d \in Clients : rooms'[q].viewers[d] = IF d \in gone THEN NoViewer ELSE rooms[q].viewers[d],
         NEW names, names = {rooms[q].viewers[d].peer : d \in gone}
  PROVE  Peers(rooms'[q]) = Peers(rooms[q]) \ names
<1>1. ASSUME NEW p \in Peers(rooms'[q]) PROVE p \in Peers(rooms[q]) \ names
  <2>1. PICK d \in Clients : rooms'[q].viewers[d].peer = p /\ p # 0
    BY <1>1 DEF Peers
  <2>2. d \notin gone /\ rooms[q].viewers[d].peer = p
    BY <2>1, NoViewerIs
  <2>3. \A e \in gone : rooms[q].viewers[e].peer # p
    BY <2>1, <2>2 DEF PresenceInv, MembersInv, PeersOnce
  <2> QED BY <2>1, <2>2, <2>3 DEF Peers
<1>2. ASSUME NEW p \in Peers(rooms[q]), p \notin names PROVE p \in Peers(rooms'[q])
  <2>1. PICK d \in Clients : rooms[q].viewers[d].peer = p /\ p # 0
    BY <1>2 DEF Peers
  <2>2. d \notin gone
    BY <1>2, <2>1
  <2> QED BY <2>1, <2>2 DEF Peers
<1> QED BY <1>1, <1>2

LEMMA PresenceSubscribe == ASSUME PresenceInv, Shaped, Shaped', Subscribe PROVE PresenceInv'
<1>1. PICK i \in Sessions :
        /\ sess[i].role = "viewer" /\ Current(i)
        /\ voice' = [voice EXCEPT ![sess[i].code] = @ \cup {sess[i].peer}]
        /\ UNCHANGED <<rooms, sess, unauth, grace, routed>>
  BY DEF Subscribe, store
<1>2. PICK k, p : k = sess[i].code /\ p = sess[i].peer
  OBVIOUS
<1>3. k \in Codes /\ i # 0
  BY <1>1, <1>2, Bounds DEF Current, Shaped, SessionShape, Authenticated
<1>4. PICK c \in Clients : rooms[k].viewers[c].peer = p /\ rooms[k].viewers[c].sess = i
  BY <1>1, <1>2 DEF Current
<1>5. p \in Peers(rooms[k])
  BY <1>3, <1>4 DEF Peers, PresenceInv, MembersInv, Vacant
<1>6. \A q \in Codes : voice'[q] = IF q = k THEN voice[q] \cup {p} ELSE voice[q]
  BY <1>1, <1>2 DEF Shaped, Types, World, PresenceTypes
<1>7. PlacesKept'
  <2>1. \A q \in Codes : Peers(rooms'[q]) = Peers(rooms[q]) /\ routed'[q] = routed[q]
    BY <1>1
  <2>2. \A q \in Codes : voice[q] \subseteq Peers(rooms[q])
    BY DEF PresenceInv, MembersInv, PlacesKept
  <2>3. \A q \in Codes : voice'[q] \subseteq Peers(rooms[q])
    BY <1>5, <1>6, <2>2
  <2> QED BY <2>1, <2>3 DEF PresenceInv, MembersInv, PlacesKept
<1>8. UnauthenticatedCounted'
  BY <1>1 DEF PresenceInv, UnauthenticatedCounted, Authenticated
<1>9. Vacant' /\ ViewersHeld' /\ HostHeld' /\ SpeakersNamed' /\ PeersOnce' /\ AwayTimed' /\ GrantsCurrent'
  <2>1. rooms' = rooms /\ sess' = sess /\ grace' = grace
    BY <1>1
  <2>2. Vacant' /\ PeersOnce' /\ AwayTimed' /\ GrantsCurrent'
    BY <2>1 DEF PresenceInv, MembersInv, Vacant, PeersOnce, AwayTimed, GrantsCurrent
  <2>3. ViewersHeld' /\ HostHeld'
    BY <2>1 DEF PresenceInv, MembersInv, ViewersHeld, HostHeld, Holds
  <2>4. SpeakersNamed'
    BY <2>1 DEF PresenceInv, MembersInv, SpeakersNamed, Speaking, NamedByStore, Authenticated
  <2> QED BY <2>2, <2>3, <2>4
<1> QED BY <1>7, <1>8, <1>9 DEF PresenceInv, MembersInv

(* What the end of a grace finds: the departure it was begun for.          *)
LEMMA TimerIs ==
  ASSUME PresenceInv, Shaped, NEW t \in grace
  PROVE  LET v == rooms[t.code].viewers[t.client]
         IN  /\ t.code \in Codes /\ t.client \in Clients /\ t.peer # 0
             /\ v.peer = t.peer /\ v.sess = 0 /\ v.left = t.id
<1>1. t \in Timer
  BY DEF Shaped, Types, World, PresenceTypes
<1> QED BY <1>1, Bounds DEF Timer, PresenceInv, MembersInv, AwayTimed

(* Two timers of one seat are one.                                         *)
LEMMA TimersOf ==
  ASSUME PresenceInv, Shaped, NEW q \in Codes, NEW gone \in SUBSET Clients,
         NEW names, names = {rooms[q].viewers[d].peer : d \in gone}, NEW t \in grace
  PROVE  t \in Timers(q, names) <=> t.code = q /\ t.client \in gone
<1>1. /\ t.client \in Clients /\ t.peer # 0 /\ rooms[t.code].viewers[t.client].peer = t.peer
  BY TimerIs
<1>2. ASSUME t \in Timers(q, names) PROVE t.code = q /\ t.client \in gone
  <2>1. t.code = q /\ t.peer \in names
    BY <1>2 DEF Timers
  <2>2. PICK d \in gone : rooms[q].viewers[d].peer = t.peer
    BY <2>1
  <2>3. d = t.client
    BY <1>1, <2>1, <2>2 DEF PresenceInv, MembersInv, PeersOnce
  <2> QED BY <2>1, <2>2, <2>3
<1>3. ASSUME t.code = q, t.client \in gone PROVE t \in Timers(q, names)
  BY <1>1, <1>3 DEF Timers
<1> QED BY <1>2, <1>3

LEMMA PresenceGraceEnds == ASSUME PresenceInv, Shaped, Shaped', GraceEnds PROVE PresenceInv'
<1>1. PICK t \in fired :
        LET v == rooms[t.code].viewers[t.client]
        IN  /\ IF ~Registered(t) THEN UNCHANGED <<rooms, grace, voice, routed>>
               ELSE /\ grace' = grace \ Timers(t.code, {t.peer})
                    /\ IF v.peer = t.peer /\ v.sess = 0
                       THEN /\ rooms' = [rooms EXCEPT ![t.code].viewers[t.client] = NoViewer]
                            /\ voice' = [voice EXCEPT ![t.code] = @ \ {t.peer}]
                            /\ routed' = [routed EXCEPT ![t.code] = @ \ {t.peer}]
                       ELSE UNCHANGED <<rooms, voice, routed>>
            /\ UNCHANGED <<sess, unauth>>
  BY DEF GraceEnds
<1>2. CASE ~Registered(t)
  BY <1>1, <1>2, Quiet DEF SameRoom, Alike
<1>3. CASE Registered(t)
  <2>0. PICK k, c, p : k = t.code /\ c = t.client /\ p = t.peer
    OBVIOUS
  <2>1. /\ k \in Codes /\ c \in Clients /\ p # 0 /\ t \in grace
        /\ rooms[k].viewers[c].peer = p /\ rooms[k].viewers[c].sess = 0
    BY <1>3, <2>0, TimerIs DEF Registered
  <2>2. /\ rooms' = [rooms EXCEPT ![k].viewers[c] = NoViewer]
        /\ voice' = [voice EXCEPT ![k] = @ \ {p}] /\ routed' = [routed EXCEPT ![k] = @ \ {p}]
        /\ grace' = grace \ Timers(k, {p}) /\ sess' = sess /\ unauth' = unauth
    BY <1>1, <1>3, <2>0, <2>1
  <2>3. rooms \in [Codes -> RoomSet] /\ rooms[k] \in RoomSet
    BY <2>1 DEF Shaped, Types, World, StoreTypes
  <2>4. /\ \A q \in Codes \ {k} : rooms'[q] = rooms[q]
        /\ rooms'[k].id = rooms[k].id /\ rooms'[k].grant = rooms[k].grant /\ rooms'[k].host = rooms[k].host
        /\ \A d \in Clients : rooms'[k].viewers[d] = IF d \in {c} THEN NoViewer ELSE rooms[k].viewers[d]
    BY <2>1, <2>2, <2>3 DEF RoomSet
  <2>5. {p} = {rooms[k].viewers[d].peer : d \in {c}} /\ {c} \in SUBSET Clients
    BY <2>1
  <2>6. Peers(rooms'[k]) = Peers(rooms[k]) \ {p}
    <3>1. \A gone \in SUBSET Clients :
            /\ \A d \in Clients : rooms'[k].viewers[d] = IF d \in gone THEN NoViewer ELSE rooms[k].viewers[d]
            /\ {p} = {rooms[k].viewers[d].peer : d \in gone}
            => Peers(rooms'[k]) = Peers(rooms[k]) \ {p}
      BY <2>1, PeersLeft
    <3> QED BY <2>4, <2>5, <3>1
  <2>7. \A q \in Codes : routed'[q] = Peers(rooms'[q]) /\ voice'[q] \subseteq Peers(rooms'[q])
    <3>1. voice \in [Codes -> SUBSET Sessions] /\ routed \in [Codes -> SUBSET Sessions]
      BY DEF Shaped, Types, World, PresenceTypes
    <3>2. /\ voice'[k] = voice[k] \ {p} /\ routed'[k] = routed[k] \ {p}
          /\ \A q \in Codes \ {k} : voice'[q] = voice[q] /\ routed'[q] = routed[q]
      BY <2>1, <2>2, <3>1
    <3> QED BY <2>4, <2>6, <3>2 DEF PresenceInv, MembersInv, PlacesKept
  <2>8. \A u \in grace : u \in grace' <=> rooms'[u.code].viewers[u.client] = rooms[u.code].viewers[u.client]
    <3>1. ASSUME NEW u \in grace
          PROVE  u \in grace' <=> rooms'[u.code].viewers[u.client] = rooms[u.code].viewers[u.client]
      <4>1. u \in Timers(k, {p}) <=> u.code = k /\ u.client \in {c}
        <5>1. \A gone \in SUBSET Clients :
                {p} = {rooms[k].viewers[d].peer : d \in gone} =>
                  (u \in Timers(k, {p}) <=> u.code = k /\ u.client \in gone)
          BY <2>1, TimersOf
        <5> QED BY <2>5, <5>1
      <4>2. u.code \in Codes /\ u.client \in Clients /\ u.peer # 0 /\ rooms[u.code].viewers[u.client].peer = u.peer
        BY TimerIs
      <4>3. u \in grace' <=> ~(u.code = k /\ u.client = c)
        BY <2>2, <4>1
      <4> QED BY <2>4, <4>2, <4>3, NoViewerIs
    <3> QED BY <3>1
  <2>9. \A q \in Codes, d \in Clients :
          /\ rooms'[q].viewers[d] \in {rooms[q].viewers[d], NoViewer}
          /\ rooms'[q].viewers[d] # rooms[q].viewers[d] => rooms[q].viewers[d].sess = 0
          /\ rooms'[q].grant = rooms[q].grant /\ rooms'[q].host = rooms[q].host /\ rooms'[q].id = rooms[q].id
    BY <2>1, <2>4
  <2>10. \A q \in Codes : rooms'[q].host = rooms[q].host /\ rooms'[q].id = rooms[q].id
    BY <2>4
  <2>11. grace' \subseteq grace
    BY <2>2
  <2>12. Emptied
    BY <2>2, <2>7, <2>8, <2>9, <2>10, <2>11 DEF Emptied
  <2> QED BY <2>12, PresenceEmptied
<1> QED BY <1>2, <1>3

(* Rooms that close, and a room that opens where none was.                 *)
LEMMA PresenceClosed ==
  ASSUME PresenceInv, Shaped, Shaped', NEW olds \in SUBSET Codes, CloseRooms(olds),
         NEW fresh \in SUBSET Codes, olds \subseteq fresh,
         \A q \in Codes \ fresh : rooms'[q] = rooms[q],
         \A q \in fresh : rooms'[q].host.sess = 0 /\ \A d \in Clients : rooms'[q].viewers[d] = NoViewer,
         \A q \in fresh \ olds : rooms[q].id = 0
  PROVE  PresenceInv'
<1> DEFINE ids == UNION {Connected(rooms[c]) : c \in olds}
<1>1. \A i \in Sessions : sess'[i] = IF i \in ids THEN [sess[i] EXCEPT !.closing = TRUE] ELSE sess[i]
  <2>1. sess' = Closing(sess, ids)
    BY DEF CloseRooms
  <2>2. sess \in [Sessions -> SessionSet]
    BY DEF Shaped, Types, World
  <2> HIDE DEF ids
  <2> QED BY <2>1, <2>2, ClosingIs
<1>2. \A q \in olds : /\ rooms[q].host.sess # 0 => rooms[q].host.sess \in ids
                      /\ \A d \in Clients : rooms[q].viewers[d].sess # 0 => rooms[q].viewers[d].sess \in ids
  BY DEF Connected
<1> HIDE DEF ids
<1>3. \A i \in Sessions :
        /\ sess'[i].st = sess[i].st /\ sess'[i].client = sess[i].client
        /\ sess'[i].code = sess[i].code /\ sess'[i].role = sess[i].role /\ sess'[i].peer = sess[i].peer
        /\ sess'[i].revoked = sess[i].revoked
        /\ sess[i].closing => sess'[i].closing
        /\ i \in ids => sess'[i].closing
  <2>1. ASSUME NEW i \in Sessions
        PROVE  /\ sess'[i].st = sess[i].st /\ sess'[i].client = sess[i].client
               /\ sess'[i].code = sess[i].code /\ sess'[i].role = sess[i].role
               /\ sess'[i].peer = sess[i].peer /\ sess'[i].revoked = sess[i].revoked
               /\ sess[i].closing => sess'[i].closing
               /\ i \in ids => sess'[i].closing
    <3>1. sess[i] \in SessionSet
      BY DEF Shaped, Types, World
    <3>2. sess'[i] = IF i \in ids THEN [sess[i] EXCEPT !.closing = TRUE] ELSE sess[i]
      BY <1>1
    <3> QED BY <3>1, <3>2 DEF SessionSet
  <2> QED BY <2>1
<1>4. \A q \in fresh \ olds :
        rooms[q].host.sess = 0 /\ \A d \in Clients : rooms[q].viewers[d].sess = 0 /\ rooms[q].viewers[d].peer = 0
  BY DEF PresenceInv, MembersInv, Vacant
<1>5. \A q \in Codes, d \in Clients :
        /\ rooms'[q].viewers[d] \in {rooms[q].viewers[d], NoViewer}
        /\ rooms'[q].viewers[d] # rooms[q].viewers[d] /\ rooms[q].viewers[d].sess # 0 =>
              sess'[rooms[q].viewers[d].sess].closing
        /\ rooms'[q].viewers[d].by = "grant" => rooms'[q].grant = rooms[q].grant
  <2>1. ASSUME NEW q \in Codes, NEW d \in Clients, rooms'[q].viewers[d] # rooms[q].viewers[d],
               rooms[q].viewers[d].sess # 0
        PROVE  sess'[rooms[q].viewers[d].sess].closing
    <3>1. q \in olds
      BY <1>4, <2>1
    <3> QED BY <1>2, <1>3, <2>1, <3>1, Seats
  <2> QED BY <2>1, NoViewerIs
<1>6. \A q \in Codes :
        /\ \/ rooms'[q].host = rooms[q].host /\ rooms'[q].id = rooms[q].id
           \/ rooms'[q].host.sess = 0 /\ \A d \in Clients : rooms'[q].viewers[d] = NoViewer
        /\ rooms'[q].host # rooms[q].host /\ rooms[q].host.sess # 0 =>
              sess'[rooms[q].host.sess].closing
  <2>1. ASSUME NEW q \in Codes, rooms'[q].host # rooms[q].host, rooms[q].host.sess # 0
        PROVE  sess'[rooms[q].host.sess].closing
    <3>1. q \in olds
      BY <1>4, <2>1
    <3> QED BY <1>2, <1>3, <2>1, <3>1, Seats
  <2> QED BY <2>1
<1>7. \A q \in Codes : routed'[q] = Peers(rooms'[q]) /\ voice'[q] \subseteq Peers(rooms'[q])
  <2>1. ASSUME NEW q \in Codes PROVE routed'[q] = Peers(rooms'[q]) /\ voice'[q] \subseteq Peers(rooms'[q])
    <3>1. /\ voice'[q] = IF q \in olds THEN {} ELSE voice[q]
          /\ routed'[q] = IF q \in olds THEN {} ELSE routed[q]
      BY DEF CloseRooms
    <3>2. routed[q] = Peers(rooms[q]) /\ voice[q] \subseteq Peers(rooms[q])
      BY DEF PresenceInv, MembersInv, PlacesKept
    <3>3. CASE q \in fresh
      <4>1. Peers(rooms'[q]) = {}
        BY <3>3, NoViewerIs DEF Peers
      <4>2. q \notin olds => Peers(rooms[q]) = {}
        BY <1>4, <3>3 DEF Peers
      <4> QED BY <3>1, <3>2, <4>1, <4>2
    <3>4. CASE q \notin fresh
      BY <3>1, <3>2, <3>4
    <3> QED BY <3>3, <3>4
  <2> QED BY <2>1
<1>8. \A t \in grace : t \in grace' <=> rooms'[t.code].viewers[t.client] = rooms[t.code].viewers[t.client]
  <2>1. ASSUME NEW t \in grace
        PROVE  t \in grace' <=> rooms'[t.code].viewers[t.client] = rooms[t.code].viewers[t.client]
    <3>1. t \in grace' <=> t.code \notin olds
      BY DEF CloseRooms
    <3>2. t.code \in Codes /\ t.client \in Clients /\ rooms[t.code].viewers[t.client].peer # 0
      BY TimerIs
    <3>3. t.code \notin fresh \ olds
      BY <1>4, <3>2
    <3> QED BY <3>1, <3>2, <3>3, NoViewerIs
  <2> QED BY <2>1
<1>9. unauth' = unauth /\ grace' \subseteq grace
  BY DEF CloseRooms
<1>10. Emptied
  BY <1>3, <1>5, <1>6, <1>7, <1>8, <1>9 DEF Emptied
<1> QED BY <1>10, PresenceEmptied

LEMMA PresenceOpened ==
  ASSUME PresenceInv, Shaped, Shaped', StoreInv, NEW olds \in SUBSET Codes, NEW code \in Codes,
         free[code] > 0 \/ code \in olds, NEW r, NEW n,
         r.host.sess = 0, \A d \in Clients : r.viewers[d] = NoViewer, Opened(olds, code, r, n)
  PROVE  PresenceInv'
<1>1. CASE UNCHANGED <<store, sess, unauth, presence>>
  BY <1>1, Quiet DEF store, presence, SameRoom, Alike
<1>2. CASE ~UNCHANGED <<store, sess, unauth, presence>>
  <2>1. /\ rooms' = [c \in Codes |-> IF c = code THEN r ELSE IF c \in olds THEN NoRoom ELSE rooms[c]]
        /\ CloseRooms(olds)
    BY <1>2 DEF Opened
  <2> DEFINE fresh == olds \cup {code}
  <2>2. fresh \in SUBSET Codes /\ olds \subseteq fresh
    OBVIOUS
  <2>3. \A q \in fresh : rooms'[q].host.sess = 0 /\ \A d \in Clients : rooms'[q].viewers[d] = NoViewer
    BY <2>1, NoViewerIs
  <2>4. \A q \in fresh \ olds : rooms[q].id = 0
    BY DEF StoreInv, CodesConserved
  <2>5. \A q \in Codes \ fresh : rooms'[q] = rooms[q]
    BY <2>1
  <2> HIDE DEF fresh
  <2> QED BY <2>1, <2>2, <2>3, <2>4, <2>5, PresenceClosed
<1> QED BY <1>1, <1>2

LEMMA PresenceRetired ==
  ASSUME PresenceInv, Shaped, Shaped', NEW olds \in SUBSET Codes, Retired(olds)
  PROVE  PresenceInv'
<1>1. /\ rooms' = [c \in Codes |-> IF c \in olds THEN NoRoom ELSE rooms[c]] /\ CloseRooms(olds)
  BY DEF Retired
<1>2. \A q \in olds : rooms'[q].host.sess = 0 /\ \A d \in Clients : rooms'[q].viewers[d] = NoViewer
  BY <1>1, NoViewerIs
<1>3. \A q \in Codes \ olds : rooms'[q] = rooms[q]
  BY <1>1
<1> QED BY <1>1, <1>2, <1>3, PresenceClosed

LEMMA PresenceSetViewerGrant == ASSUME PresenceInv, Shaped, Shaped', SetViewerGrant PROVE PresenceInv'
<1>1. PICK code \in Open, rotate \in BOOLEAN :
        /\ MayChange /\ Rotated(code, IF rotate THEN count.grants + 1 ELSE 0)
  BY DEF SetViewerGrant
<1> DEFINE grant == IF rotate THEN count.grants + 1 ELSE 0
           r == rooms[code]
           gone == Revocable(r)
           names == {r.viewers[c].peer : c \in gone}
           ids == {r.viewers[c].sess : c \in gone} \ {0}
           left == [r EXCEPT !.grant = grant,
                             !.viewers = [c \in Clients |-> IF c \in gone THEN NoViewer ELSE @[c]]]
           next == IF Occupied(r) /\ ~Occupied(left) THEN [left EXCEPT !.age = 0] ELSE left
           s == [i \in Sessions |-> IF i \in ids THEN [sess[i] EXCEPT !.revoked = TRUE, !.closing = TRUE]
                                    ELSE sess[i]]
           g == grace \ Timers(code, names)
           v == [voice EXCEPT ![code] = @ \ names]
           t == [routed EXCEPT ![code] = @ \ names]
           n == [Changed EXCEPT !.grants = @ + 1]
<1>2. Change(code, next, s, g, v, t, n)
  BY <1>1 DEF Rotated
<1>3. code \in Codes /\ r \in RoomSet /\ rooms \in [Codes -> RoomSet] /\ gone \in SUBSET Clients
  BY DEF Open, Shaped, Types, World, StoreTypes, Revocable
<1>4. /\ next.id = r.id /\ next.host = r.host
      /\ \A d \in Clients : next.viewers[d] = IF d \in gone THEN NoViewer ELSE r.viewers[d]
  <2>1. /\ left.id = r.id /\ left.host = r.host
        /\ left.viewers = [c \in Clients |-> IF c \in gone THEN NoViewer ELSE r.viewers[c]]
    <3> HIDE DEF grant, gone
    <3> QED BY <1>3 DEF RoomSet
  <2>2. next.id = left.id /\ next.host = left.host /\ next.viewers = left.viewers
    <3> HIDE DEF grant, gone
    <3> QED BY <1>3 DEF RoomSet
  <2> HIDE DEF next, left, gone
  <2> QED BY <2>1, <2>2
<1>5. CASE UNCHANGED <<store, sess, unauth, presence>>
  BY <1>5, Quiet DEF store, presence, SameRoom, Alike
<1>6. CASE ~UNCHANGED <<store, sess, unauth, presence>>
  <2>1. /\ rooms' = [rooms EXCEPT ![code] = next] /\ sess' = s /\ grace' = g
        /\ voice' = v /\ routed' = t /\ unauth' = unauth
    <3> HIDE DEF next, s, g, v, t, n
    <3> QED BY <1>2, <1>6 DEF Change
  <2>2. /\ \A q \in Codes \ {code} : rooms'[q] = rooms[q]
        /\ rooms'[code].id = r.id /\ rooms'[code].host = r.host
        /\ \A d \in Clients : rooms'[code].viewers[d] = IF d \in gone THEN NoViewer ELSE r.viewers[d]
    <3> HIDE DEF next, gone
    <3> QED BY <1>3, <1>4, <2>1
  <2>3. \A i \in Sessions :
          /\ sess'[i].st = sess[i].st /\ sess'[i].client = sess[i].client
          /\ sess'[i].code = sess[i].code /\ sess'[i].role = sess[i].role /\ sess'[i].peer = sess[i].peer
          /\ sess[i].closing => sess'[i].closing
          /\ i \in ids => sess'[i].closing
          /\ i \notin ids => sess'[i].revoked = sess[i].revoked
    <3> HIDE DEF ids
    <3>1. \A i \in Sessions : sess[i] \in SessionSet
      BY DEF Shaped, Types, World
    <3> QED BY <2>1, <3>1 DEF SessionSet
  <2>4. \A d \in gone : r.viewers[d].sess # 0 => r.viewers[d].sess \in ids
    OBVIOUS
  <2>5. \A i \in ids : \E d \in gone : r.viewers[d].sess = i /\ i # 0
    OBVIOUS
  <2>6. Peers(rooms'[code]) = Peers(rooms[code]) \ names
    <3>1. names = {rooms[code].viewers[d].peer : d \in gone}
      OBVIOUS
    <3> HIDE DEF names, gone
    <3> QED BY <1>3, <2>2, <3>1, PeersLeft
  <2>7. \A u \in grace : u \in Timers(code, names) <=> u.code = code /\ u.client \in gone
    <3>1. names = {rooms[code].viewers[d].peer : d \in gone}
      OBVIOUS
    <3> HIDE DEF names, gone
    <3> QED BY <1>3, <3>1, TimersOf
  <2>8. /\ voice'[code] = voice[code] \ names /\ routed'[code] = routed[code] \ names
        /\ \A q \in Codes \ {code} : voice'[q] = voice[q] /\ routed'[q] = routed[q]
    <3> HIDE DEF names
    <3> QED BY <1>3, <2>1 DEF Shaped, Types, World, PresenceTypes
  <2>9. \A d \in Clients : d \notin gone => r.viewers[d].by # "grant"
    BY DEF Revocable
  <2>10. grace' = grace \ Timers(code, names)
    BY <2>1
  <2> HIDE DEF ids, names, gone
  <2>11. \A q \in Codes, d \in Clients :
           /\ rooms'[q].viewers[d] \in {rooms[q].viewers[d], NoViewer}
           /\ rooms'[q].viewers[d] # rooms[q].viewers[d] /\ rooms[q].viewers[d].sess # 0 =>
                 sess'[rooms[q].viewers[d].sess].closing
           /\ rooms'[q].viewers[d].by = "grant" => rooms'[q].grant = rooms[q].grant
    <3>1. ASSUME NEW q \in Codes, NEW d \in Clients, rooms'[q].viewers[d] # rooms[q].viewers[d],
                 rooms[q].viewers[d].sess # 0
          PROVE  sess'[rooms[q].viewers[d].sess].closing
      <4>1. q = code /\ d \in gone
        BY <2>2, <3>1
      <4>2. rooms[q].viewers[d].sess \in Sessions
        BY <3>1, Seats
      <4> QED BY <2>3, <2>4, <3>1, <4>1, <4>2
    <3>2. ASSUME NEW q \in Codes, NEW d \in Clients, rooms'[q].viewers[d].by = "grant"
          PROVE  q # code
      BY <2>2, <2>9, <3>2, NoViewerIs
    <3>3. \A q \in Codes, d \in Clients : rooms'[q].viewers[d] \in {rooms[q].viewers[d], NoViewer}
      BY <2>2
    <3> QED BY <2>2, <3>1, <3>2, <3>3
  <2>12. \A q \in Codes :
           /\ rooms'[q].host = rooms[q].host /\ rooms'[q].id = rooms[q].id
           /\ routed'[q] = Peers(rooms'[q]) /\ voice'[q] \subseteq Peers(rooms'[q])
    BY <2>2, <2>6, <2>8 DEF PresenceInv, MembersInv, PlacesKept
  <2>13. ASSUME NEW i \in ids, NEW q \in Codes
         PROVE  rooms'[q].host.sess # i /\ \A d \in Clients : rooms'[q].viewers[d].sess # i
    <3>1. PICK e \in gone : r.viewers[e].sess = i /\ i # 0
      BY <2>5
    <3>2. sess[i].code = code /\ sess[i].role = "viewer" /\ sess[i].client = e
      BY <1>3, <3>1 DEF PresenceInv, MembersInv, ViewersHeld, Holds
    <3>3. rooms'[q].host.sess # i
      BY <2>12, <3>1, <3>2 DEF PresenceInv, MembersInv, HostHeld
    <3>4. ASSUME NEW d \in Clients, rooms'[q].viewers[d].sess = i PROVE FALSE
      <4>1. rooms[q].viewers[d].sess = i
        BY <2>11, <3>1, <3>4, NoViewerIs
      <4>2. q = code /\ d = e
        BY <3>1, <3>2, <4>1 DEF PresenceInv, MembersInv, ViewersHeld, Holds
      <4> QED BY <2>2, <3>1, <3>4, <4>2, NoViewerIs
    <3> QED BY <3>3, <3>4
  <2>14. \A u \in grace : u \in grace' <=> rooms'[u.code].viewers[u.client] = rooms[u.code].viewers[u.client]
    <3>1. ASSUME NEW u \in grace
          PROVE  u \in grace' <=> rooms'[u.code].viewers[u.client] = rooms[u.code].viewers[u.client]
      <4>1. u.code \in Codes /\ u.client \in Clients /\ rooms[u.code].viewers[u.client].peer # 0
        BY TimerIs
      <4>2. u \in grace' <=> ~(u.code = code /\ u.client \in gone)
        BY <2>7, <2>10
      <4> QED BY <2>2, <4>1, <4>2, NoViewerIs
    <3> QED BY <3>1
  <2>15. Emptied
    BY <2>1, <2>3, <2>10, <2>11, <2>12, <2>13, <2>14 DEF Emptied
  <2> QED BY <2>15, PresenceEmptied
<1> QED BY <1>5, <1>6

(* Nobody is left after a crash.                                           *)
LEMMA PresenceCrash == ASSUME PresenceInv, Shaped, Shaped', Crash PROVE PresenceInv'
<1>1. \A i \in Sessions : sess'[i].st # "open"
  BY LostIs DEF Crash, Shaped
<1>2. \A q \in Codes : rooms'[q].host.sess = 0 /\ \A d \in Clients : rooms'[q].viewers[d] = NoViewer
  <2> DEFINE back(c) == [NoRoom EXCEPT !.id = db[c].id, !.grant = db[c].grant,
                                       !.pw = db[c].pw, !.policy = db[c].policy]
  <2>1. rooms' = [c \in Codes |-> IF db[c].id = 0 THEN NoRoom ELSE back(c)]
    BY DEF Crash, Restored
  <2>2. \A c \in Codes : back(c).host = NoRoom.host /\ back(c).viewers = NoRoom.viewers
    BY DEF NoRoom
  <2> HIDE DEF back
  <2> QED BY <2>1, <2>2, NoViewerIs
<1>3. /\ unauth' = 0 /\ grace' = {}
      /\ \A q \in Codes : voice'[q] = {} /\ routed'[q] = {}
  BY DEF Crash, Lost
<1>4. UnauthenticatedCounted'
  <2>1. Unadmitted' = {}
    BY <1>1 DEF Unadmitted
  <2> QED BY <1>3, <2>1, FS_EmptySet, CountedNext
<1>5. \A q \in Codes : Peers(rooms'[q]) = {}
  BY <1>2, NoViewerIs DEF Peers
<1>6. Cardinality({}) = 0 /\ 0 <= MaxViewers
  BY FS_EmptySet, Bounds
<1>7. PlacesKept'
  BY <1>3, <1>5, <1>6 DEF PlacesKept
<1>8. Vacant' /\ ViewersHeld' /\ HostHeld' /\ PeersOnce' /\ AwayTimed' /\ GrantsCurrent'
  BY <1>2, <1>3, NoViewerIs DEF Vacant, ViewersHeld, HostHeld, PeersOnce, AwayTimed, GrantsCurrent
<1>9. SpeakersNamed'
  BY <1>1 DEF SpeakersNamed, Speaking
<1> QED BY <1>4, <1>7, <1>8, <1>9 DEF PresenceInv, MembersInv

(* Nobody moves when a session only closes, a job or the gate moves on, or *)
(* a room's age, password or policy is set.                                *)
LEMMA QuietSession ==
  ASSUME PresenceInv, Shaped, Shaped', NEW i \in Sessions, NEW z,
         sess' = [sess EXCEPT ![i] = z], Alike(z, sess[i]), sess[i].closing => z.closing,
         unauth' = unauth, UNCHANGED <<rooms, grace, voice, routed>>
  PROVE  PresenceInv'
<1>1. \A k \in Sessions : Alike(sess'[k], sess[k]) /\ (sess[k].closing => sess'[k].closing)
  BY DEF Shaped, Types, World, Alike
<1>2. \A q \in Codes : SameRoom(rooms'[q], rooms[q])
  BY DEF SameRoom
<1> QED BY <1>1, <1>2, Quiet

LEMMA QuietRefuse ==
  ASSUME PresenceInv, Shaped, Shaped', NEW i \in Sessions, Refuse(i)
  PROVE  PresenceInv'
<1> DEFINE z == [sess[i] EXCEPT !.closing = TRUE, !.authing = FALSE]
<1>1. Alike(z, sess[i]) /\ z.closing
  BY DEF Shaped, Types, World, SessionSet, Alike
<1>2. sess' = [sess EXCEPT ![i] = z] /\ unauth' = unauth /\ UNCHANGED <<rooms, grace, voice, routed>>
  BY DEF Refuse, store, presence
<1> HIDE DEF z
<1> QED BY <1>1, <1>2, QuietSession

LEMMA QuietChange ==
  ASSUME PresenceInv, Shaped, Shaped', NEW code \in Codes, NEW r, NEW n, SameRoom(r, rooms[code]),
         Change(code, r, sess, grace, voice, routed, n)
  PROVE  PresenceInv'
<1>1. rooms' = rooms \/ rooms' = [rooms EXCEPT ![code] = r]
  BY DEF Change, store
<1>2. \A q \in Codes : SameRoom(rooms'[q], rooms[q])
  BY <1>1 DEF SameRoom, Shaped, Types, World, StoreTypes
<1>3. UNCHANGED <<sess, unauth, grace, voice, routed>>
  BY DEF Change, store, presence
<1> QED BY <1>2, <1>3, Quiet DEF Alike

LEMMA QuietStays ==
  ASSUME PresenceInv, Shaped, Shaped', UNCHANGED <<rooms, sess, unauth, grace, voice, routed>>
  PROVE  PresenceInv'
BY Quiet DEF SameRoom, Alike

LEMMA PresenceQuiet ==
  ASSUME PresenceInv, Shaped, Shaped',
         \/ AuthenticateWithPassword \/ Reject \/ GoOff \/ SetCodeEntryPolicy \/ BeginChange \/ RoomAges
         \/ Challenge \/ Acquire \/ Derive \/ CommitPassword
  PROVE  PresenceInv'
<1>1. CASE AuthenticateWithPassword
  <2>1. PICK i \in Sessions : sess' = [sess EXCEPT ![i].authing = TRUE]
    BY <1>1 DEF AuthenticateWithPassword
  <2> DEFINE z == [sess[i] EXCEPT !.authing = TRUE]
  <2>2. Alike(z, sess[i]) /\ z.closing = sess[i].closing
    BY DEF Shaped, Types, World, SessionSet, Alike
  <2>3. sess' = [sess EXCEPT ![i] = z]
    BY <2>1
  <2>4. UNCHANGED <<rooms, unauth, grace, voice, routed>>
    BY <1>1 DEF AuthenticateWithPassword, store, presence
  <2> HIDE DEF z
  <2> QED BY <2>2, <2>3, <2>4, QuietSession
<1>2. CASE Reject
  <2>1. PICK i \in Sessions : sess' = [sess EXCEPT ![i].closing = TRUE]
    BY <1>2 DEF Reject
  <2> DEFINE z == [sess[i] EXCEPT !.closing = TRUE]
  <2>2. Alike(z, sess[i]) /\ z.closing
    BY DEF Shaped, Types, World, SessionSet, Alike
  <2>3. sess' = [sess EXCEPT ![i] = z]
    BY <2>1
  <2>4. UNCHANGED <<rooms, unauth, grace, voice, routed>>
    BY <1>2 DEF Reject, store, presence
  <2> HIDE DEF z
  <2> QED BY <2>2, <2>3, <2>4, QuietSession
<1>3. CASE GoOff \/ BeginChange \/ Challenge \/ Acquire \/ Derive
  <2>1. UNCHANGED <<rooms, sess, unauth, grace, voice, routed>>
    BY <1>3 DEF GoOff, BeginChange, Challenge, Acquire, Derive, store, presence
  <2> QED BY <2>1, QuietStays
<1>4. CASE SetCodeEntryPolicy
  <2>1. PICK code \in Open, policy \in {"open", "private"} :
          Change(code, [rooms[code] EXCEPT !.policy = policy], sess, grace, voice, routed, Changed)
    BY <1>4 DEF SetCodeEntryPolicy
  <2> DEFINE r == [rooms[code] EXCEPT !.policy = policy]
  <2>2. code \in Codes /\ SameRoom(r, rooms[code])
    BY DEF Open, SameRoom, Shaped, Types, World, StoreTypes, RoomSet
  <2>3. Change(code, r, sess, grace, voice, routed, Changed)
    BY <2>1
  <2> HIDE DEF r
  <2> QED BY <2>2, <2>3, QuietChange
<1>5. CASE RoomAges
  <2>1. PICK code \in Open : rooms' = [rooms EXCEPT ![code].age = @ + 1]
    BY <1>5 DEF RoomAges
  <2>2. \A q \in Codes : SameRoom(rooms'[q], rooms[q])
    <3>1. code \in Codes /\ rooms \in [Codes -> RoomSet]
      BY DEF Open, Shaped, Types, World, StoreTypes
    <3> QED BY <2>1, <3>1 DEF SameRoom, RoomSet
  <2>3. UNCHANGED <<sess, unauth, grace, voice, routed>>
    BY <1>5 DEF RoomAges, presence
  <2> QED BY <2>2, <2>3, Quiet DEF Alike
<1>6. CASE CommitPassword
  <2>1. PICK j \in Jobs :
        /\ jobs[j].k = "password"
        /\ \/ Change(jobs[j].code, [rooms[jobs[j].code] EXCEPT !.pw = [word |-> jobs[j].word, salt |-> j]],
                     sess, grace, voice, routed, count)
           \/ UNCHANGED <<store, sess, unauth, presence, count>>
    BY <1>6 DEF CommitPassword
  <2> DEFINE code == jobs[j].code
             pw == [word |-> jobs[j].word, salt |-> j]
             r == [rooms[code] EXCEPT !.pw = pw]
  <2>2. code \in Codes
    BY <2>1 DEF Shaped, JobShape
  <2>3. SameRoom(r, rooms[code])
    <3> HIDE DEF code, pw
    <3> QED BY <2>2 DEF SameRoom, Shaped, Types, World, StoreTypes, RoomSet
  <2>4. CASE Change(code, r, sess, grace, voice, routed, count)
    <3> HIDE DEF code, r
    <3> QED BY <2>2, <2>3, <2>4, QuietChange
  <2>5. CASE UNCHANGED <<store, sess, unauth, presence, count>>
    BY <2>5, QuietStays DEF store, presence
  <2> QED BY <2>1, <2>4, <2>5
<1> QED BY <1>1, <1>2, <1>3, <1>4, <1>5, <1>6

LEMMA PresenceAuthenticate ==
  ASSUME PresenceInv, Shaped, Shaped', AuthenticateHost \/ AuthenticateViewer
  PROVE  PresenceInv'
<1>1. CASE AuthenticateHost
  <2>1. PICK i \in Sessions, code \in Open :
          /\ MayConnect(i)
          /\ IF rooms[code].host.sess # 0 /\ rooms[code].host.client # sess[i].client
             THEN Refuse(i) ELSE AdmitHost(i, code)
    BY <1>1 DEF AuthenticateHost
  <2>2. code \in Codes /\ rooms[code].id # 0
    BY DEF Open
  <2>3. CASE Refuse(i)
    BY <2>3, QuietRefuse
  <2>4. CASE /\ rooms[code].host.sess = 0 \/ rooms[code].host.client = sess[i].client
             /\ AdmitHost(i, code)
    BY <2>1, <2>2, <2>4, PresenceAdmitHost
  <2> QED BY <2>1, <2>3, <2>4
<1>2. CASE AuthenticateViewer
  <2>1. PICK i \in Sessions, code \in Open, grant \in 0..count.grants :
          /\ MayConnect(i)
          /\ \/ /\ HasPlace(code, sess[i].client) /\ (grant # 0 => rooms[code].grant = grant)
                /\ Admit(i, code, "viewer", IF grant = 0 THEN "code" ELSE "grant", grant)
             \/ Refuse(i)
    BY <1>2 DEF AuthenticateViewer
  <2>2. code \in Codes /\ rooms[code].id # 0
    BY DEF Open
  <2>3. CASE Refuse(i)
    BY <2>3, QuietRefuse
  <2>4. CASE /\ HasPlace(code, sess[i].client) /\ (grant # 0 => rooms[code].grant = grant)
             /\ Admit(i, code, "viewer", IF grant = 0 THEN "code" ELSE "grant", grant)
    <3>1. PICK by : by = IF grant = 0 THEN "code" ELSE "grant"
      OBVIOUS
    <3>2. by = "grant" => grant = rooms[code].grant
      BY <2>4, <3>1
    <3>3. Admit(i, code, "viewer", by, grant)
      BY <2>4, <3>1
    <3> QED BY <2>1, <2>2, <2>4, <3>2, <3>3, PresenceAdmit
  <2> QED BY <2>1, <2>3, <2>4
<1> QED BY <1>1, <1>2

LEMMA PresenceCommitLogin == ASSUME PresenceInv, Shaped, Shaped', CommitLogin PROVE PresenceInv'
<1>1. PICK j \in Jobs :
        /\ jobs[j].k = "login"
        /\ \/ /\ LoginHolds(jobs[j])
              /\ Admit(jobs[j].sess, jobs[j].code, "viewer", "password", jobs[j].word)
           \/ Refuse(jobs[j].sess)
           \/ UNCHANGED <<store, sess, unauth, presence>>
  BY DEF CommitLogin
<1>2. PICK i, code, word : i = jobs[j].sess /\ code = jobs[j].code /\ word = jobs[j].word
  OBVIOUS
<1>3. i \in Sessions /\ code \in Codes
  BY <1>1, <1>2 DEF Shaped, JobShape
<1>4. CASE Refuse(i)
  BY <1>3, <1>4, QuietRefuse
<1>5. CASE LoginHolds(jobs[j]) /\ Admit(i, code, "viewer", "password", word)
  <2>1. MayConnect(i) /\ HasPlace(code, sess[i].client) /\ rooms[code].id # 0
    BY <1>2, <1>5 DEF LoginHolds
  <2>2. \A by : by = "password" => (by = "grant" => word = rooms[code].grant)
    OBVIOUS
  <2> QED BY <1>3, <1>5, <2>1, <2>2, PresenceAdmit
<1>6. CASE UNCHANGED <<store, sess, unauth, presence>>
  BY <1>6, QuietStays DEF store, presence
<1> QED BY <1>1, <1>2, <1>4, <1>5, <1>6

LEMMA FreshIsEmpty ==
  ASSUME NEW policy, NEW pw
  PROVE  FreshRoom(policy, pw).host.sess = 0 /\ \A d \in Clients : FreshRoom(policy, pw).viewers[d] = NoViewer
BY FreshRoomIs DEF NoOne

LEMMA PresenceCommitReplace ==
  ASSUME PresenceInv, Shaped, Shaped', StoreInv, CommitReplace
  PROVE  PresenceInv'
<1>1. PICK j \in Jobs, code \in Codes :
        /\ jobs[j].k = "replace"
        /\ \/ /\ free[code] > 0
              /\ Opened({jobs[j].code}, code,
                     FreshRoom(jobs[j].policy, [word |-> jobs[j].word, salt |-> j]), count)
           \/ UNCHANGED <<store, sess, unauth, presence, count>>
  BY DEF CommitReplace
<1>2. PICK old, r : old = {jobs[j].code} /\ r = FreshRoom(jobs[j].policy, [word |-> jobs[j].word, salt |-> j])
  OBVIOUS
<1>3. old \in SUBSET Codes
  BY <1>1, <1>2 DEF Shaped, JobShape
<1>4. r.host.sess = 0 /\ \A d \in Clients : r.viewers[d] = NoViewer
  BY <1>2, FreshIsEmpty
<1>5. CASE free[code] > 0 /\ Opened(old, code, r, count)
  BY <1>3, <1>4, <1>5, PresenceOpened
<1>6. CASE UNCHANGED <<store, sess, unauth, presence, count>>
  BY <1>6, QuietStays DEF store, presence
<1> QED BY <1>1, <1>2, <1>5, <1>6

LEMMA PresenceCreateRoom ==
  ASSUME PresenceInv, Shaped, Shaped', StoreInv, CreateRoom
  PROVE  PresenceInv'
<1>1. PICK code \in Codes, policy \in {"open", "private"} :
        \/ free[code] > 0 /\ Opened({}, code, FreshRoom(policy, Nothing), Changed)
        \/ \E old \in Candidates :
             \/ /\ free[code] > 0 \/ code = old
                /\ Opened({old}, code, FreshRoom(policy, Nothing), Changed)
             \/ Retired({old})
  BY DEF CreateRoom
<1>2. PICK r : r = FreshRoom(policy, Nothing)
  OBVIOUS
<1>3. r.host.sess = 0 /\ \A d \in Clients : r.viewers[d] = NoViewer
  BY <1>2, FreshIsEmpty
<1>4. ASSUME NEW olds \in SUBSET Codes, free[code] > 0 \/ code \in olds, Opened(olds, code, r, Changed)
      PROVE  PresenceInv'
  BY <1>3, <1>4, PresenceOpened
<1>5. \A old \in Candidates : {old} \in SUBSET Codes /\ old \in {old}
  BY DEF Candidates, Open
<1>6. ASSUME NEW old \in Candidates, Retired({old}) PROVE PresenceInv'
  BY <1>5, <1>6, PresenceRetired
<1>7. ASSUME NEW old \in Candidates, free[code] > 0 \/ code = old, Opened({old}, code, r, Changed)
      PROVE PresenceInv'
  BY <1>4, <1>5, <1>7
<1>8. CASE free[code] > 0 /\ Opened({}, code, r, Changed)
  <2>1. {} \in SUBSET Codes
    OBVIOUS
  <2> QED BY <1>4, <1>8, <2>1
<1> QED BY <1>1, <1>2, <1>6, <1>7, <1>8

LEMMA PresenceRetire == ASSUME PresenceInv, Shaped, Shaped', Retire PROVE PresenceInv'
<1>1. PICK codes \in {{c \in Open : ~Occupied(rooms[c]) /\ rooms[c].age = 2}, Open}
                        \cup {{c} : c \in {k \in Open : rooms[k].host.sess # 0}} : Retired(codes)
  BY DEF Retire
<1>2. codes \in SUBSET Codes
  BY DEF Open
<1> QED BY <1>1, <1>2, PresenceRetired

-----------------------------------------------------------------------------
(***************************************************************************)
(* The invariant.                                                          *)
(***************************************************************************)

LEMMA InvIs == AccessInv <=> Shaped /\ StoreInv /\ GateShape /\ PresenceInv
BY DEF AccessInv, Shaped, PresenceInv

LEMMA InitAccess == Init => AccessInv
<1> SUFFICES ASSUME Init PROVE AccessInv
  OBVIOUS
<1>1. PICK code \in Codes :
        /\ rooms = [c \in Codes |-> IF c = code THEN First ELSE NoRoom]
        /\ db = [c \in Codes |-> Authority(rooms[c])]
        /\ free = [c \in Codes |-> IF c = code THEN 0 ELSE 1]
  BY DEF Init
<1>2. /\ First \in RoomSet /\ First.id = 1 /\ First.host = NoOne
      /\ First.viewers = [c \in Clients |-> NoViewer]
  <2>1. NoRoom \in RoomSet
    BY Blank
  <2>2. NoRoom.host = NoOne /\ NoRoom.viewers = [c \in Clients |-> NoViewer]
    BY DEF NoRoom
  <2> QED BY <2>1, <2>2 DEF First, RoomSet, Materials, Policies
<1>3. /\ sess = [i \in Sessions |-> NoSession] /\ unauth = 0 /\ grace = {} /\ fired = {}
      /\ voice = [c \in Codes |-> {}] /\ routed = [c \in Codes |-> {}]
      /\ jobs = [j \in Jobs |-> NoJob] /\ gate = [active |-> 0, waiters |-> <<>>]
      /\ count = [ids |-> 1, grants |-> 1, changes |-> MaxChanges, faults |-> MaxFaults]
  BY DEF Init
<1>4. \A q \in Codes : rooms[q] \in RoomSet /\ db[q] \in AuthoritySet /\ db[q] = Authority(rooms[q])
  BY <1>1, <1>2, Blank, AuthorityOf
<1>5. Types
  BY <1>1, <1>3, <1>4, Blank, Bounds DEF Types, World, StoreTypes, PresenceTypes, Counts
<1>6. \A i \in Sessions : sess[i].st = "none" /\ sess[i].role = "none" /\ ~sess[i].revoked
  BY <1>3 DEF NoSession
<1>7. \A j \in Jobs : jobs[j].st = "none" /\ jobs[j].k = "none"
  BY <1>3 DEF NoJob
<1>8. JobShape /\ SessionShape
  BY <1>6, <1>7 DEF JobShape, SessionShape, Authenticated
<1>9. NoRoom.id = 0 /\ \A q \in Codes : rooms[q].id = IF q = code THEN 1 ELSE 0
  BY <1>1, <1>2, BlankRoom
<1>10. CodesConserved /\ MemoryIsDurable /\ Erased
  BY <1>1, <1>4, <1>9 DEF CodesConserved, MemoryIsDurable, Erased
<1>11. IdsCounted
  <2>1. Replacing = {}
    BY <1>7 DEF Replacing
  <2>2. Reserved = 0
    BY <2>1, FS_EmptySet, ReplacingFinite
  <2>3. count.ids = 1 /\ 1 + 0 <= MaxIds
    BY <1>3, Bounds
  <2> QED BY <1>9, <2>2, <2>3 DEF IdsCounted
<1>12. UnauthenticatedCounted
  <2>1. Unadmitted = {}
    BY <1>6 DEF Unadmitted
  <2> QED BY <1>3, <2>1, FS_EmptySet, CountedIs
<1>13. GateShape
  <2>1. Deriving = {}
    BY <1>7 DEF Deriving
  <2> QED BY <1>3, <1>7, <2>1, FS_EmptySet, Bounds DEF GateShape
<1>14. \A q \in Codes : rooms[q].host.sess = 0 /\ \A d \in Clients : rooms[q].viewers[d] = NoViewer
  BY <1>1, <1>2, NoViewerIs DEF NoOne
<1>15. PlacesKept
  <2>1. \A q \in Codes : Peers(rooms[q]) = {}
    BY <1>14, NoViewerIs DEF Peers
  <2>2. Cardinality({}) = 0 /\ 0 <= MaxViewers
    BY FS_EmptySet, Bounds
  <2> QED BY <1>3, <2>1, <2>2 DEF PlacesKept
<1>16. Vacant /\ ViewersHeld /\ HostHeld /\ PeersOnce /\ AwayTimed /\ GrantsCurrent /\ SpeakersNamed
  BY <1>3, <1>6, <1>14, NoViewerIs
     DEF Vacant, ViewersHeld, HostHeld, PeersOnce, AwayTimed, GrantsCurrent, SpeakersNamed, Speaking
<1> QED BY <1>5, <1>8, <1>10, <1>11, <1>12, <1>13, <1>15, <1>16 DEF AccessInv, StoreInv, MembersInv

LEMMA StepAccess == AccessInv /\ [Next]_vars => AccessInv'
<1> SUFFICES ASSUME AccessInv, [Next]_vars PROVE AccessInv'
  OBVIOUS
<1>1. Shaped /\ StoreInv /\ GateShape /\ PresenceInv /\ Vacant /\ ViewersHeld
  BY InvIs DEF PresenceInv, MembersInv
<1>2. ASSUME Shaped', StoreInv', GateShape', PresenceInv' PROVE AccessInv'
  BY <1>2 DEF AccessInv, Shaped, PresenceInv
<1>3. ASSUME UNCHANGED vars PROVE AccessInv'
  <2>1. UNCHANGED <<rooms, free, db, sess, unauth, grace, fired, voice, routed, jobs, gate, count>>
    BY <1>3 DEF vars, store, presence
  <2>2. Shaped'
    BY <1>1, <2>1, JobsKept, StaysShaped DEF Shaped, Types, store, presence
  <2>3. StoreInv'
    <3>1. Reserved' = Reserved
      BY <2>1 DEF Reserved
    <3> QED BY <1>1, <2>1, <3>1 DEF StoreInv, CodesConserved, MemoryIsDurable, Erased, IdsCounted
  <2>4. GateShape'
    BY <1>1, <2>1, GateStays
  <2>5. PresenceInv'
    BY <1>1, <2>1, <2>2, QuietStays
  <2> QED BY <1>2, <2>2, <2>3, <2>4, <2>5
<1>4. CASE Accept \/ AuthenticateHost \/ AuthenticateViewer \/ AuthenticateWithPassword
           \/ Reject \/ Disconnect \/ Subscribe \/ GoOff \/ GraceEnds
  <2>1. Shaped'
    BY <1>1, <1>4, ShapedAccept, ShapedAuthenticateHost, ShapedAuthenticateViewer,
       ShapedAuthenticateWithPassword, ShapedReject, ShapedDisconnect, ShapedSubscribe, ShapedGoOff,
       ShapedGraceEnds
  <2>2. StoreInv'
    BY <1>1, <1>4, <2>1, StoreSessions
  <2>3. GateShape'
    <3>1. CASE AuthenticateWithPassword
      BY <1>1, <3>1, GateBegins
    <3>2. CASE Accept \/ AuthenticateHost \/ AuthenticateViewer \/ Reject \/ Disconnect \/ Subscribe
               \/ GoOff \/ GraceEnds
      <4>1. UNCHANGED <<gate, jobs>>
        BY <3>2 DEF Accept, AuthenticateHost, AuthenticateViewer, Reject, Disconnect, Subscribe, GoOff,
           GraceEnds
      <4> QED BY <1>1, <4>1, GateStays
    <3> QED BY <1>4, <3>1, <3>2
  <2>4. PresenceInv'
    BY <1>1, <1>4, <2>1, PresenceAccept, PresenceAuthenticate, PresenceQuiet, PresenceDisconnect,
       PresenceSubscribe, PresenceGraceEnds
  <2> QED BY <1>2, <2>1, <2>2, <2>3, <2>4
<1>5. CASE SetViewerGrant \/ SetCodeEntryPolicy \/ BeginChange \/ RoomAges \/ Retire \/ CreateRoom
  <2>1. Shaped'
    BY <1>1, <1>5, ShapedSetViewerGrant, ShapedSetCodeEntryPolicy, ShapedBeginChange, ShapedRoomAges,
       ShapedRetire, ShapedCreateRoom
  <2>2. StoreInv'
    BY <1>1, <1>5, <2>1, StoreHost, StoreCreate
  <2>3. GateShape'
    <3>1. CASE BeginChange
      BY <1>1, <3>1, GateBegins
    <3>2. CASE SetViewerGrant \/ SetCodeEntryPolicy \/ RoomAges \/ Retire \/ CreateRoom
      <4>1. UNCHANGED <<gate, jobs>>
        BY <3>2 DEF SetViewerGrant, SetCodeEntryPolicy, RoomAges, Retire, CreateRoom
      <4> QED BY <1>1, <4>1, GateStays
    <3> QED BY <1>5, <3>1, <3>2
  <2>4. PresenceInv'
    BY <1>1, <1>5, <2>1, PresenceSetViewerGrant, PresenceQuiet, PresenceRetire, PresenceCreateRoom
  <2> QED BY <1>2, <2>1, <2>2, <2>3, <2>4
<1>6. CASE Challenge \/ Acquire \/ Derive \/ CommitLogin \/ CommitPassword \/ CommitReplace \/ Crash
  <2>1. Shaped'
    BY <1>1, <1>6, ShapedChallenge, ShapedAcquire, ShapedDerive, ShapedCommitLogin, ShapedCommitPassword,
       ShapedCommitReplace, ShapedCrash
  <2>2. StoreInv'
    BY <1>1, <1>6, <2>1, StoreDerivations
  <2>3. GateShape'
    <3>1. CASE Challenge \/ Acquire \/ Derive \/ Crash
      BY <1>1, <3>1, GateChallenge, GateAcquire, GateDerive, GateCrash DEF Crash
    <3>2. CASE CommitLogin \/ CommitPassword \/ CommitReplace
      <4>1. UNCHANGED gate /\ \E j \in Jobs : jobs[j].st = "done" /\ jobs' = [jobs EXCEPT ![j] = Answered]
        BY <3>2 DEF CommitLogin, CommitPassword, CommitReplace
      <4> QED BY <1>1, <4>1, GateJobs
    <3> QED BY <1>6, <3>1, <3>2
  <2>4. PresenceInv'
    BY <1>1, <1>6, <2>1, PresenceQuiet, PresenceCommitLogin, PresenceCommitReplace, PresenceCrash
  <2> QED BY <1>2, <2>1, <2>2, <2>3, <2>4
<1> QED BY <1>3, <1>4, <1>5, <1>6 DEF Next

(* What the invariant says of the balances.                                *)
LEMMA SafetyHolds == AccessInv => AccessSafety
<1> SUFFICES ASSUME AccessInv PROVE AccessSafety
  OBVIOUS
<1>1. Shaped /\ StoreInv /\ GateShape /\ UnauthenticatedCounted
  BY InvIs DEF PresenceInv
<1>2. TypeOK
  <2>1. Open \subseteq Codes
    BY DEF Open
  <2>2. \A c \in Codes : free[c] \in Nat
    BY <1>1 DEF StoreInv, CodesConserved
  <2>3. \A c \in Codes : rooms[c].id \in 0..MaxIds
    <3>1. \A c \in Codes : rooms[c].id \in Nat /\ rooms[c].id <= count.ids
      BY <1>1 DEF StoreInv, IdsCounted, Shaped, Types, World, StoreTypes, RoomSet
    <3>2. count.ids \in Nat /\ count.ids <= MaxIds /\ MaxIds \in Nat
      BY <1>1, Bounds, ReplacingFinite DEF StoreInv, IdsCounted, Shaped, Types, Counts
    <3> QED BY <3>1, <3>2
  <2>4. sess \in [Sessions -> SessionSet] /\ fired \subseteq Timer /\ count.faults \in 0..MaxFaults
    BY <1>1 DEF Shaped, Types, World, PresenceTypes, Counts
  <2>5. unauth \in Nat
    BY <1>1, CountedIs, UnadmittedFinite
  <2>6. gate.active \in Nat
    <3>1. IsFiniteSet(Deriving) => Cardinality(Deriving) \in Nat
      BY FS_CardinalityType
    <3> QED BY <1>1, <3>1, DerivingFinite DEF GateShape
  <2> QED BY <2>1, <2>2, <2>3, <2>4, <2>5, <2>6 DEF TypeOK, SessionSet, Named, Timer
<1>3. GateCounted
  <2>1. ToSet(gate.waiters) = {gate.waiters[n] : n \in 1..Len(gate.waiters)}
    BY <1>1 DEF ToSet, GateShape
  <2>2. ToSet(gate.waiters) = {j \in Jobs : jobs[j].st = "wait"}
    BY <1>1, <2>1 DEF GateShape
  <2> QED BY <1>1, <2>2 DEF GateShape, GateCounted, Deriving
<1> QED BY <1>1, <1>2, <1>3 DEF AccessSafety, StoreInv

(* What the invariant says of who is in a room.                            *)
LEMMA MembershipHolds == AccessInv => MembershipAgrees
<1> SUFFICES ASSUME AccessInv PROVE MembershipAgrees
  OBVIOUS
<1>1. Shaped /\ PresenceInv
  BY InvIs
<1>2. ASSUME NEW code \in Open, NEW i \in Connected(rooms[code])
      PROVE  sess[i].st = "open" /\ ~sess[i].revoked /\ sess[i].code = code /\ NamedByStore(i)
  <2>1. code \in Codes /\ i # 0
    BY <1>2 DEF Open, Connected
  <2>2. CASE rooms[code].host.sess = i
    <3>1. /\ sess[i].st = "open" /\ ~sess[i].revoked /\ sess[i].code = code
          /\ sess[i].role = "host" /\ sess[i].peer = rooms[code].host.peer
      BY <1>1, <2>1, <2>2 DEF PresenceInv, MembersInv, HostHeld, Holds
    <3> QED BY <2>2, <3>1 DEF NamedByStore
  <2>3. ASSUME NEW c \in Clients, rooms[code].viewers[c].sess = i
        PROVE  sess[i].st = "open" /\ ~sess[i].revoked /\ sess[i].code = code /\ NamedByStore(i)
    <3>1. /\ sess[i].st = "open" /\ ~sess[i].revoked /\ sess[i].code = code /\ sess[i].role = "viewer"
          /\ sess[i].client = c /\ sess[i].peer = rooms[code].viewers[c].peer
      BY <1>1, <2>1, <2>3 DEF PresenceInv, MembersInv, ViewersHeld, Holds
    <3> QED BY <2>3, <3>1 DEF NamedByStore
  <2> QED BY <1>2, <2>2, <2>3 DEF Connected
<1>3. SessionsAgree
  BY <1>1, <1>2 DEF SessionsAgree, PresenceInv, MembersInv, SpeakersNamed, Speaking
<1>4. ASSUME NEW code \in Codes, NEW c \in Clients
      PROVE  LET v == rooms[code].viewers[c]
             IN  {t.id : t \in Timers(code, {v.peer})} = IF v.peer # 0 /\ v.sess = 0 THEN {v.left} ELSE {}
  <2>1. PICK v : v = rooms[code].viewers[c]
    OBVIOUS
  <2>2. ASSUME NEW t \in Timers(code, {v.peer}) PROVE v.peer # 0 /\ v.sess = 0 /\ t.id = v.left
    <3>1. t \in grace /\ t.code = code /\ t.peer = v.peer
      BY <2>2 DEF Timers
    <3>2. LET u == rooms[t.code].viewers[t.client]
          IN  t.client \in Clients /\ t.peer # 0 /\ u.peer = t.peer /\ u.sess = 0 /\ u.left = t.id
      BY <1>1, <3>1, TimerIs
    <3>3. t.client = c
      BY <1>1, <2>1, <3>1, <3>2 DEF PresenceInv, MembersInv, PeersOnce
    <3> QED BY <2>1, <3>1, <3>2, <3>3
  <2>3. ASSUME v.peer # 0, v.sess = 0 PROVE \E t \in Timers(code, {v.peer}) : t.id = v.left
    <3> DEFINE t == [code |-> code, peer |-> v.peer, client |-> c, id |-> v.left]
    <3>1. t \in grace
      BY <1>1, <2>1, <2>3 DEF PresenceInv, MembersInv, AwayTimed
    <3>2. t.code = code /\ t.peer = v.peer /\ t.id = v.left
      OBVIOUS
    <3> HIDE DEF t
    <3> QED BY <3>1, <3>2 DEF Timers
  <2> QED BY <2>1, <2>2, <2>3
<1>5. \A t \in grace : t.peer \in Peers(rooms[t.code])
  BY <1>1, TimerIs DEF Peers
<1> QED BY <1>1, <1>3, <1>4, <1>5 DEF MembershipAgrees, PresenceInv, MembersInv, PlacesKept, GrantsCurrent

-----------------------------------------------------------------------------
(***************************************************************************)
(* What a step may do to what was found out before it.                     *)
(***************************************************************************)

(* Only an admission makes a session a Viewer's.                           *)
LEMMA AdmittedOnly ==
  ASSUME Shaped, NEW i \in Sessions, NEW code \in Codes, MayConnect(i), NEW by, NEW cred,
         Admit(i, code, "viewer", by, cred),
         \/ by = "code" /\ rooms[code].policy = "open"
         \/ by = "grant" /\ cred = rooms[code].grant
         \/ by = "password" /\ rooms[code].policy = "private" /\ cred = rooms[code].pw.word,
         NEW k \in Sessions, sess[k].role = "none", sess'[k].role = "viewer"
  PROVE  Admitted(k)
<1>1. PICK c, old : c = sess[i].client /\ old = rooms[code].viewers[c]
  OBVIOUS
<1>2. PICK peer : peer = IF old.peer = 0 THEN i ELSE old.peer
  OBVIOUS
<1>3. sess[i].client \in Clients /\ sess[i].role = "none"
  BY DEF MayConnect, Authenticated, Shaped, SessionShape
<1>4. AdmitEffect(i, code, by, cred, c, old, peer)
  BY <1>1, <1>2, <1>3, AdmitIs
<1>5. k = i
  BY <1>4 DEF AdmitEffect, Alike
<1> DEFINE v == [peer |-> peer, sess |-> i, by |-> by, cred |-> cred, left |-> 0]
<1>6. v.sess = i /\ v.by = by /\ v.cred = cred
  OBVIOUS
<1> HIDE DEF v
<1>7. /\ sess'[k].code = code /\ sess'[k].client = c /\ rooms'[code].viewers[c] = v
      /\ rooms'[code].policy = rooms[code].policy /\ rooms'[code].grant = rooms[code].grant
      /\ rooms'[code].pw = rooms[code].pw
  BY <1>4, <1>5 DEF AdmitEffect, v
<1> QED BY <1>5, <1>6, <1>7 DEF Admitted

RolesKept == \A k \in Sessions : sess'[k].role \in {sess[k].role, "none", "host"}

LEMMA RolesStay ==
  ASSUME Shaped,
         \/ UNCHANGED sess
         \/ \E i \in Sessions : Refuse(i)
         \/ \E i \in Sessions, code \in Codes : AdmitHost(i, code)
         \/ \E ids : sess' = Closing(sess, ids)
         \/ Accept \/ AuthenticateWithPassword \/ Reject \/ Disconnect \/ SetViewerGrant \/ Lost
  PROVE  RolesKept
<1>1. \A i \in Sessions : sess[i] \in SessionSet
  BY DEF Shaped, Types, World
<1>2. CASE UNCHANGED sess
  BY <1>2 DEF RolesKept
<1>3. ASSUME NEW i \in Sessions, NEW z, sess' = [sess EXCEPT ![i] = z], z.role \in {sess[i].role, "none"}
      PROVE  RolesKept
  BY <1>3 DEF RolesKept, Shaped, Types, World
<1>4. ASSUME NEW i \in Sessions, Refuse(i) PROVE RolesKept
  <2> DEFINE z == [sess[i] EXCEPT !.closing = TRUE, !.authing = FALSE]
  <2>1. sess' = [sess EXCEPT ![i] = z] /\ z.role = sess[i].role
    BY <1>1, <1>4 DEF Refuse, SessionSet
  <2> HIDE DEF z
  <2> QED BY <1>3, <2>1
<1>5. ASSUME NEW i \in Sessions, NEW code \in Codes, AdmitHost(i, code) PROVE RolesKept
  <2>1. PICK c, old : c = sess[i].client /\ old = rooms[code].host
    OBVIOUS
  <2>2. PICK peer : peer = IF old.client = c THEN old.peer ELSE i
    OBVIOUS
  <2>3. AdmitHostEffect(i, code, c, old, peer)
    BY <1>5, <2>1, <2>2, AdmitHostIs
  <2> QED BY <2>3 DEF RolesKept, AdmitHostEffect, Alike
<1>6. ASSUME NEW ids, sess' = Closing(sess, ids) PROVE RolesKept
  <2>1. sess \in [Sessions -> SessionSet]
    BY DEF Shaped, Types, World
  <2>2. \A k \in Sessions : sess'[k] = IF k \in ids THEN [sess[k] EXCEPT !.closing = TRUE] ELSE sess[k]
    BY <1>6, <2>1, ClosingIs
  <2>3. \A k \in Sessions : sess'[k].role = sess[k].role
    BY <1>1, <2>2 DEF SessionSet
  <2> QED BY <2>3 DEF RolesKept
<1>7. CASE Accept
  <2>1. PICK c \in Clients, i \in Sessions : sess' = [sess EXCEPT ![i] = [NoSession EXCEPT !.st = "open", !.client = c]]
    BY <1>7 DEF Accept
  <2> DEFINE z == [NoSession EXCEPT !.st = "open", !.client = c]
  <2>2. z.role = "none"
    BY DEF NoSession
  <2>3. sess' = [sess EXCEPT ![i] = z]
    BY <2>1
  <2> HIDE DEF z
  <2> QED BY <1>3, <2>2, <2>3
<1>8. CASE AuthenticateWithPassword
  <2>1. PICK i \in Sessions : sess' = [sess EXCEPT ![i].authing = TRUE]
    BY <1>8 DEF AuthenticateWithPassword
  <2> DEFINE z == [sess[i] EXCEPT !.authing = TRUE]
  <2>2. sess' = [sess EXCEPT ![i] = z] /\ z.role = sess[i].role
    BY <1>1, <2>1 DEF SessionSet
  <2> HIDE DEF z
  <2> QED BY <1>3, <2>2
<1>9. CASE Reject
  <2>1. PICK i \in Sessions : sess' = [sess EXCEPT ![i].closing = TRUE]
    BY <1>9 DEF Reject
  <2> DEFINE z == [sess[i] EXCEPT !.closing = TRUE]
  <2>2. sess' = [sess EXCEPT ![i] = z] /\ z.role = sess[i].role
    BY <1>1, <2>1 DEF SessionSet
  <2> HIDE DEF z
  <2> QED BY <1>3, <2>2
<1>10. CASE Disconnect
  <2>1. PICK i \in Sessions : sess' = [sess EXCEPT ![i] = [NoSession EXCEPT !.st = "gone"]]
    BY <1>10 DEF Disconnect
  <2> DEFINE z == [NoSession EXCEPT !.st = "gone"]
  <2>2. z.role = "none"
    BY DEF NoSession
  <2>3. sess' = [sess EXCEPT ![i] = z]
    BY <2>1
  <2> HIDE DEF z
  <2> QED BY <1>3, <2>2, <2>3
<1>11. CASE SetViewerGrant
  <2>1. PICK code, grant : Rotated(code, grant)
    BY <1>11 DEF SetViewerGrant
  <2> DEFINE ids == {rooms[code].viewers[c].sess : c \in Revocable(rooms[code])} \ {0}
             s == [i \in Sessions |-> IF i \in ids THEN [sess[i] EXCEPT !.revoked = TRUE, !.closing = TRUE]
                                      ELSE sess[i]]
  <2>2. sess' = s \/ sess' = sess
    BY <2>1 DEF Rotated, Change
  <2>3. \A k \in Sessions : s[k].role = sess[k].role
    <3> HIDE DEF ids
    <3> QED BY <1>1 DEF SessionSet
  <2> HIDE DEF s
  <2> QED BY <2>2, <2>3 DEF RolesKept
<1>12. CASE Lost
  BY <1>12, LostIs DEF RolesKept, Shaped
<1> QED BY <1>2, <1>4, <1>5, <1>6, <1>7, <1>8, <1>9, <1>10, <1>11, <1>12

LEMMA OpenedRoles ==
  ASSUME Shaped, NEW olds, NEW code, NEW r, NEW n, Opened(olds, code, r, n)
  PROVE  RolesKept
<1>1. UNCHANGED sess \/ \E ids : sess' = Closing(sess, ids)
  BY DEF Opened, CloseRooms
<1> QED BY <1>1, RolesStay

LEMMA RetiredRoles == ASSUME Shaped, NEW olds, Retired(olds) PROVE RolesKept
<1>1. \E ids : sess' = Closing(sess, ids)
  BY DEF Retired, CloseRooms
<1> QED BY <1>1, RolesStay

LEMMA StepAdmits ==
  ASSUME AccessInv, [Next]_vars, NEW k \in Sessions, sess[k].role = "none", sess'[k].role = "viewer"
  PROVE  Admitted(k)
<1>0. Shaped
  BY InvIs
<1> SUFFICES ASSUME ~RolesKept PROVE Admitted(k)
  BY DEF RolesKept
<1>1. ~UNCHANGED vars
  BY <1>0, RolesStay DEF vars
<1>2. ~(Accept \/ AuthenticateWithPassword \/ Reject \/ Disconnect \/ SetViewerGrant)
  BY <1>0, RolesStay
<1>3. ~Crash
  BY <1>0, RolesStay DEF Crash
<1>4. ~(Subscribe \/ GoOff \/ GraceEnds \/ SetCodeEntryPolicy \/ BeginChange \/ RoomAges
        \/ Challenge \/ Acquire \/ Derive \/ CommitPassword)
  <2>1. ~UNCHANGED sess
    BY <1>0, RolesStay
  <2> QED BY <2>1 DEF Subscribe, GoOff, GraceEnds, SetCodeEntryPolicy, BeginChange, RoomAges,
                      Challenge, Acquire, Derive, CommitPassword, Change
<1>5. ~CreateRoom
  BY <1>0, OpenedRoles, RetiredRoles DEF CreateRoom
<1>6. ~Retire
  BY <1>0, RetiredRoles DEF Retire
<1>7. ~CommitReplace
  <2>1. CommitReplace => UNCHANGED sess \/ \E olds, code, r, n : Opened(olds, code, r, n)
    BY DEF CommitReplace
  <2> QED BY <1>0, <2>1, OpenedRoles, RolesStay
<1>8. ~AuthenticateHost
  <2>1. AuthenticateHost => \E i \in Sessions, code \in Codes : Refuse(i) \/ AdmitHost(i, code)
    BY DEF AuthenticateHost, Open
  <2> QED BY <1>0, <2>1, RolesStay
<1>9. CASE AuthenticateViewer
  <2>1. PICK i \in Sessions, code \in Open, grant \in 0..count.grants :
          /\ MayConnect(i)
          /\ IF /\ HasPlace(code, sess[i].client)
                /\ IF grant = 0 THEN rooms[code].policy = "open" ELSE rooms[code].grant = grant
             THEN Admit(i, code, "viewer", IF grant = 0 THEN "code" ELSE "grant", grant)
             ELSE Refuse(i)
    BY <1>9 DEF AuthenticateViewer
  <2>2. PICK by : by = IF grant = 0 THEN "code" ELSE "grant"
    OBVIOUS
  <2>3. ~Refuse(i)
    BY <1>0, RolesStay
  <2>4. /\ IF grant = 0 THEN rooms[code].policy = "open" ELSE rooms[code].grant = grant
        /\ Admit(i, code, "viewer", by, grant)
    BY <2>1, <2>2, <2>3
  <2>5. code \in Codes
    BY DEF Open
  <2>6. \/ by = "code" /\ rooms[code].policy = "open"
        \/ by = "grant" /\ grant = rooms[code].grant
    BY <2>2, <2>4
  <2> QED BY <1>0, <2>1, <2>4, <2>5, <2>6, AdmittedOnly
<1>10. CASE CommitLogin
  <2>1. PICK j \in Jobs :
          /\ jobs[j].k = "login"
          /\ \/ /\ LoginHolds(jobs[j])
                /\ Admit(jobs[j].sess, jobs[j].code, "viewer", "password", jobs[j].word)
             \/ Refuse(jobs[j].sess)
             \/ UNCHANGED sess
    BY <1>10 DEF CommitLogin
  <2>2. PICK i, code, word : i = jobs[j].sess /\ code = jobs[j].code /\ word = jobs[j].word
    OBVIOUS
  <2>3. i \in Sessions /\ code \in Codes
    BY <1>0, <2>1, <2>2 DEF Shaped, JobShape
  <2>4. ~Refuse(i) /\ ~UNCHANGED sess
    BY <1>0, <2>3, RolesStay
  <2>5. LoginHolds(jobs[j]) /\ Admit(i, code, "viewer", "password", word)
    BY <2>1, <2>2, <2>4
  <2>6. MayConnect(i) /\ rooms[code].policy = "private" /\ word = rooms[code].pw.word
    BY <2>2, <2>5 DEF LoginHolds
  <2> QED BY <1>0, <2>3, <2>5, <2>6, AdmittedOnly
<1> QED BY <1>1, <1>2, <1>3, <1>4, <1>5, <1>6, <1>7, <1>8, <1>9, <1>10 DEF Next

(* A change that was derived is committed for the room it was asked for.   *)
LEMMA StepChanges ==
  ASSUME AccessInv, [Next]_vars, NEW j \in Jobs, NEW code \in Codes,
         jobs[j].k \in {"password", "replace"}, jobs'[j].st = "over", jobs[j].st = "done",
         rooms'[code].pw.salt = j, rooms[code].pw.salt # j
  PROVE  rooms[jobs[j].code].id = jobs[j].room
<1>1. Shaped
  BY InvIs
<1>2. jobs'[j] # jobs[j] /\ rooms' # rooms
  OBVIOUS
<1>3. ~(UNCHANGED vars \/ Accept \/ AuthenticateHost \/ AuthenticateViewer \/ Reject \/ Disconnect
        \/ Subscribe \/ GoOff \/ GraceEnds \/ SetViewerGrant \/ SetCodeEntryPolicy \/ CreateRoom
        \/ RoomAges \/ Retire)
  <2>1. ~UNCHANGED jobs
    BY <1>2
  <2> QED BY <2>1 DEF vars, Accept, AuthenticateHost, AuthenticateViewer, Reject, Disconnect,
        Subscribe, GoOff, GraceEnds, SetViewerGrant, SetCodeEntryPolicy, CreateRoom, RoomAges, Retire
<1>4. ~(AuthenticateWithPassword \/ BeginChange \/ Challenge \/ Acquire \/ Derive)
  <2>1. ~UNCHANGED store
    BY <1>2 DEF store
  <2> QED BY <2>1 DEF AuthenticateWithPassword, BeginChange, Challenge, Acquire, Derive
<1>5. ~CommitLogin
  <2>1. CommitLogin => \E i \in Jobs : jobs[i].k = "login" /\ jobs' = [jobs EXCEPT ![i] = Answered]
    BY DEF CommitLogin
  <2> QED BY <1>1, <1>2, <2>1 DEF Shaped, Types
<1>6. ~Crash
  <2>1. Crash => jobs'[j].st = "none"
    BY <1>1, LostIs DEF Crash, Shaped
  <2> QED BY <2>1
<1>7. CASE CommitPassword
  <2>1. PICK i \in Jobs : /\ jobs' = [jobs EXCEPT ![i] = Answered]
                          /\ Owned(jobs[i]) \/ UNCHANGED store
    BY <1>7 DEF CommitPassword
  <2>2. i = j
    BY <1>1, <1>2, <2>1 DEF Shaped, Types
  <2> QED BY <1>2, <2>1, <2>2 DEF Owned, store
<1>8. CASE CommitReplace
  <2>1. PICK i \in Jobs : /\ jobs' = [jobs EXCEPT ![i] = Answered]
                          /\ Owned(jobs[i]) \/ UNCHANGED store
    BY <1>8 DEF CommitReplace
  <2>2. i = j
    BY <1>1, <1>2, <2>1 DEF Shaped, Types
  <2> QED BY <1>2, <2>1, <2>2 DEF Owned, store
<1> QED BY <1>3, <1>4, <1>5, <1>6, <1>7, <1>8 DEF Next

(* The end of a grace finds the departure it was begun for.                *)
LEMMA StepGrace ==
  ASSUME AccessInv, GraceEnds, NEW code \in Codes, NEW c \in Clients,
         rooms[code].viewers[c] # rooms'[code].viewers[c]
  PROVE  /\ rooms[code].viewers[c].sess = 0
         /\ \E t \in fired \ fired' : t.id = rooms[code].viewers[c].left
<1>1. Shaped /\ PresenceInv
  BY InvIs
<1>2. PICK t \in fired :
        /\ fired' = fired \ {t}
        /\ \/ rooms' = rooms
           \/ t \in grace /\ rooms' = [rooms EXCEPT ![t.code].viewers[t.client] = NoViewer]
  BY DEF GraceEnds, Registered
<1>3. t \in grace /\ rooms' = [rooms EXCEPT ![t.code].viewers[t.client] = NoViewer]
  BY <1>2
<1>4. LET v == rooms[t.code].viewers[t.client]
      IN  t.code \in Codes /\ t.client \in Clients /\ v.sess = 0 /\ v.left = t.id
  BY <1>1, <1>3, TimerIs
<1>5. code = t.code /\ c = t.client
  <2>1. rooms \in [Codes -> RoomSet]
    BY <1>1 DEF Shaped, Types, World, StoreTypes
  <2>2. code = t.code
    BY <1>3, <1>4, <2>1
  <2>3. rooms'[code].viewers = [rooms[code].viewers EXCEPT ![t.client] = NoViewer]
    BY <1>3, <2>1, <2>2 DEF RoomSet
  <2>4. rooms[code].viewers \in [Clients -> Viewers]
    BY <2>1 DEF RoomSet
  <2> QED BY <2>2, <2>3, <2>4
<1> QED BY <1>2, <1>4, <1>5

-----------------------------------------------------------------------------
(***************************************************************************)
(* The theorems.                                                           *)
(***************************************************************************)

LEMMA AccessCorrect == Spec => []AccessInv
BY InitAccess, StepAccess, PTL DEF Spec

(* AccessSafety: whatever browsers, codes and capacities there are, a code *)
(* is free exactly once while no room has it, the database holds the       *)
(* authority memory has, the connections counted as unauthenticated are    *)
(* the ones that are, and the derivation gate's slots are the derivations  *)
(* running (Store, Server.unauthenticatedConnections, gate), although any  *)
(* write may fail and the process may end at any point.                    *)
THEOREM AccessIsSafe == Spec => []AccessSafety
BY AccessCorrect, SafetyHolds, PTL

(* MembershipAgrees: the store, the sessions, the grace timers, voice and  *)
(* routing agree on who is in a room in every state; nothing is kept for a *)
(* Viewer the store forgot, whoever is away has a timer of his own and no  *)
(* other, no room holds more Viewers than it may, and nobody stays by an   *)
(* invitation that was revoked (connectViewer, revokeGrantViewers,         *)
(* closeRoom, handleDisconnect).                                           *)
THEOREM MembersAgree == Spec => []MembershipAgrees
BY AccessCorrect, MembershipHolds, PTL

(* DerivedIsCurrent: an admission by password, code or invitation is by    *)
(* what the room accepts at that moment, and a password or a successor is  *)
(* set for the room it was asked for, however the rooms changed while the  *)
(* mutex was released for the derivation (ConnectViewerWithPassword,       *)
(* SetViewerPassword, ReplaceRoom).                                        *)
THEOREM DerivedStaysCurrent == Spec => DerivedIsCurrent
<1>1. AccessInv /\ [Next]_vars =>
        [\A i \in Sessions : sess[i].role = "none" /\ sess'[i].role = "viewer" => Admitted(i)]_vars
  BY StepAdmits
<1>2. AccessInv /\ [Next]_vars =>
        [\A j \in Jobs : \A code \in Codes :
           (jobs[j].k \in {"password", "replace"} /\ jobs'[j].st = "over" /\ jobs[j].st = "done"
              /\ rooms'[code].pw.salt = j /\ rooms[code].pw.salt # j)
           => rooms[jobs[j].code].id = jobs[j].room]_vars
  BY StepChanges
<1> QED BY <1>1, <1>2, AccessCorrect, PTL DEF Spec, DerivedIsCurrent, AdmissionIsCurrent, ChangesItsOwnRoom

(* GraceIsItsOwn: the timer that ends a Viewer's stay is the one his last  *)
(* departure began, so that a callback that lost the race for the mutex to *)
(* his return ends nothing (the callback of handleDisconnect).             *)
THEOREM GraceStaysItsOwn == Spec => GraceIsItsOwn
<1>1. AccessInv /\ [Next]_vars =>
        [GraceEnds =>
           \A code \in Codes, c \in Clients :
              rooms[code].viewers[c] # rooms'[code].viewers[c] =>
                 /\ rooms[code].viewers[c].sess = 0
                 /\ \E t \in fired \ fired' : t.id = rooms[code].viewers[c].left]_vars
  BY StepGrace
<1> QED BY <1>1, AccessCorrect, PTL DEF Spec, GraceIsItsOwn
=============================================================================
