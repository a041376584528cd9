------------------------------- MODULE RoomAccess -------------------------------
(***************************************************************************)
(* Who may be in a room: the room store with its database, the sessions of *)
(* the signaling server, the grace a disconnected Viewer is given, and the *)
(* passwords derived while the server's mutex is released.                 *)
(*                                                                         *)
(* Every action is one critical section of Server.mu.  A room is named by  *)
(* its code, which is reused; `id' is its identity, and stands for the     *)
(* Host token that identity alone holds.  A peer is named by the session   *)
(* that first admitted it.                                                 *)
(***************************************************************************)
EXTENDS Integers, Sequences, FiniteSets, SequencesExt

CONSTANTS
    Clients,        \* browsers
    Codes,          \* room codes
    MaxRooms,       \* rooms the store admits
    MaxViewers,     \* Viewers a room admits
    GateLimit,      \* derivations at a time
    GatePending,    \* derivations that may wait for it
    MaxIds,         \* bound: rooms ever created
    MaxSessions,    \* bound: sessions ever accepted
    MaxJobs,        \* bound: derivations ever begun
    MaxGrants,      \* bound: invitations ever issued
    MaxChanges,     \* bound: operations of the Hosts, and spans of an empty room's time
    MaxFaults       \* bound: failed writes, crashes, connections the server closes

ASSUME RoomAccessAssumption ==
    /\ {MaxRooms, MaxViewers, GateLimit, MaxIds, MaxSessions, MaxGrants} \subseteq Nat \ {0}
    /\ Cardinality(Codes) > MaxRooms
    /\ {GatePending, MaxJobs, MaxChanges, MaxFaults} \subseteq Nat

VARIABLES
    rooms,      \* by code; id 0 is no room
    free,       \* how often a code is in freeRoomCodes
    db,         \* stored authority, by code
    sess,       \* Server.sessions
    unauth,     \* Server.unauthenticatedConnections
    grace,      \* viewerGraceTimers: who waits under which timer
    fired,      \* timers that went off and wait for the mutex
    voice,      \* members of the rooms' voices, by code
    routed,     \* Viewers the rooms' routes know, by code
    jobs,       \* password derivations
    gate,       \* slots taken, and derivations waiting for one
    count       \* identities used, and what is left of the bounds

store == <<rooms, free, db>>
presence == <<grace, fired, voice, routed>>
vars == <<store, sess, unauth, presence, jobs, gate, count>>

Words == {1, 2}
Nothing == [word |-> 0, salt |-> 0]
NoOne == [client |-> 0, peer |-> 0, sess |-> 0]
NoViewer == [peer |-> 0, sess |-> 0, by |-> "none", cred |-> 0, left |-> 0]
NoRoom == [id |-> 0, grant |-> 0, pw |-> Nothing, policy |-> "none", host |-> NoOne,
           viewers |-> [c \in Clients |-> NoViewer], age |-> 0]
NoSession == [st |-> "none", client |-> 0, closing |-> FALSE, revoked |-> FALSE,
              authing |-> FALSE, code |-> 0, role |-> "none", peer |-> 0]
NoJob == [k |-> "none", st |-> "none", res |-> "none", sess |-> 0, code |-> 0,
          room |-> 0, word |-> 0, material |-> Nothing, policy |-> "none"]

Sessions == 1..MaxSessions
Jobs == 1..MaxJobs
Open == {c \in Codes : rooms[c].id # 0}

Authority(r) == [id |-> r.id, grant |-> r.grant, pw |-> r.pw, policy |-> r.policy]

Occupied(r) == r.host.sess # 0 \/ \E c \in Clients : r.viewers[c].sess # 0
Peers(r) == {r.viewers[c].peer : c \in Clients} \ {0}
Connected(r) == ({r.host.sess} \cup {r.viewers[c].sess : c \in Clients}) \ {0}

Authenticated(i) == sess[i].role # "none"

\* mayConnect: the session is still waiting to be admitted.
MayConnect(i) ==
    /\ sess[i].st = "open" /\ ~sess[i].closing /\ ~sess[i].revoked /\ ~Authenticated(i)

-----------------------------------------------------------------------------
(***************************************************************************)
(* Durable writes: the database first, then memory.  A write may fail, and *)
(* then the operation does; the process may end right after it.            *)
(***************************************************************************)

Lost ==
    /\ sess' = [i \in Sessions |-> IF sess[i].st = "open" THEN [NoSession EXCEPT !.st = "gone"]
                                   ELSE sess[i]]
    /\ unauth' = 0 /\ grace' = {} /\ fired' = {}
    /\ voice' = [c \in Codes |-> {}] /\ routed' = [c \in Codes |-> {}]
    /\ jobs' = [j \in Jobs |-> IF jobs[j].k = "none" THEN NoJob ELSE [NoJob EXCEPT !.k = "lost"]]
    /\ gate' = [active |-> 0, waiters |-> <<>>]

\* Initialize: what the database holds is all there is.
Restored(d) ==
    /\ rooms' = [c \in Codes |-> IF d[c].id = 0 THEN NoRoom
                                 ELSE [NoRoom EXCEPT !.id = d[c].id, !.grant = d[c].grant,
                                                     !.pw = d[c].pw, !.policy = d[c].policy]]
    /\ free' = [c \in Codes |-> IF d[c].id = 0 THEN 1 ELSE 0]
    /\ db' = d

Faulty == count.faults > 0
Fault(n) == count' = [n EXCEPT !.faults = @ - 1]
MayChange == count.changes > 0
Changed == [count EXCEPT !.changes = @ - 1]

\* The process ends and starts again.  A crash between a write and the change
\* of memory after it leaves what a crash after both would.
Crash == Faulty /\ Restored(db) /\ Lost /\ Fault(count)

-----------------------------------------------------------------------------
(***************************************************************************)
(* Membership.                                                             *)
(***************************************************************************)

Timers(code, peers) == {t \in grace : t.code = code /\ t.peer \in peers}

Closing(s, ids) == [i \in Sessions |-> IF i \in ids THEN [s[i] EXCEPT !.closing = TRUE] ELSE s[i]]

\* connectViewer and completeAuthentication: the newest session of a client
\* replaces the one before it.
Admit(i, code, role, by, cred) ==
    LET c == sess[i].client
        old == rooms[code].viewers[c]
        peer == IF old.peer = 0 THEN i ELSE old.peer
    IN  /\ rooms' = [rooms EXCEPT ![code].viewers[c] =
                        [peer |-> peer, sess |-> i, by |-> by, cred |-> cred, left |-> 0]]
        /\ sess' = [Closing(sess, {old.sess} \ {0})
                      EXCEPT ![i] = [@ EXCEPT !.authing = FALSE, !.code = code,
                                              !.role = role, !.peer = peer]]
        /\ grace' = grace \ Timers(code, {peer})
        /\ routed' = [routed EXCEPT ![code] = @ \cup {peer}]
        /\ unauth' = unauth - 1
        /\ UNCHANGED <<free, db, fired, voice>>

HasPlace(code, c) ==
    \/ rooms[code].viewers[c].peer # 0
    \/ Cardinality(Peers(rooms[code])) < MaxViewers

AdmitHost(i, code) ==
    LET c == sess[i].client
        old == rooms[code].host
        peer == IF old.client = c THEN old.peer ELSE i
    IN  /\ rooms' = [rooms EXCEPT ![code].host = [client |-> c, peer |-> peer, sess |-> i]]
        /\ sess' = [Closing(sess, IF old.client = c THEN {old.sess} \ {0} ELSE {})
                      EXCEPT ![i] = [@ EXCEPT !.authing = FALSE, !.code = code,
                                              !.role = "host", !.peer = peer]]
        /\ unauth' = unauth - 1
        /\ UNCHANGED <<free, db, presence>>

Refuse(i) ==
    /\ sess' = [sess EXCEPT ![i] = [@ EXCEPT !.closing = TRUE, !.authing = FALSE]]
    /\ UNCHANGED <<store, unauth, presence>>

\* closeRoom: everything kept for the room goes with it.
CloseRooms(codes) ==
    /\ sess' = Closing(sess, UNION {Connected(rooms[c]) : c \in codes})
    /\ grace' = {t \in grace : t.code \notin codes}
    /\ voice' = [c \in Codes |-> IF c \in codes THEN {} ELSE voice[c]]
    /\ routed' = [c \in Codes |-> IF c \in codes THEN {} ELSE routed[c]]
    /\ UNCHANGED <<unauth, fired>>

-----------------------------------------------------------------------------
(***************************************************************************)
(* Sessions.                                                               *)
(***************************************************************************)

Accept ==
    \E c \in Clients, i \in Sessions :
        /\ sess[i].st = "none" /\ \A k \in 1..(i - 1) : sess[k].st # "none"
        /\ sess' = [sess EXCEPT ![i] = [NoSession EXCEPT !.st = "open", !.client = c]]
        /\ unauth' = unauth + 1
        /\ UNCHANGED <<store, presence, jobs, gate, count>>

\* A Host token admits its holder, unless another browser is the Host.
AuthenticateHost ==
    \E i \in Sessions, code \in Open :
        /\ MayConnect(i) /\ ~sess[i].authing
        /\ IF rooms[code].host.sess # 0 /\ rooms[code].host.client # sess[i].client
           THEN Refuse(i) ELSE AdmitHost(i, code)
        /\ UNCHANGED <<jobs, gate, count>>

\* An invitation, or none where the code alone opens the room.
AuthenticateViewer ==
    \E i \in Sessions, code \in Open, grant \in 0..count.grants :
        /\ MayConnect(i) /\ ~sess[i].authing
        /\ IF /\ HasPlace(code, sess[i].client)
              /\ IF grant = 0 THEN rooms[code].policy = "open" ELSE rooms[code].grant = grant
           THEN Admit(i, code, "viewer", IF grant = 0 THEN "code" ELSE "grant", grant)
           ELSE Refuse(i)
        /\ UNCHANGED <<jobs, gate, count>>

\* Bounds: a replacement under way keeps its identity and its invitation.
Reserved == Cardinality({j \in Jobs : jobs[j].k = "replace" /\ jobs[j].st # "over"})
MayInvite == count.grants + Reserved < MaxGrants
MayIssue == count.ids + Reserved < MaxIds /\ MayInvite

Answered == [NoJob EXCEPT !.k = "answered", !.st = "over"]
NextJob == CHOOSE j \in Jobs : jobs[j].k = "none" /\ \A k \in 1..(j - 1) : jobs[k].k # "none"
Begin(job) == jobs' = [jobs EXCEPT ![NextJob] = job]
MayBegin == \E j \in Jobs : jobs[j].k = "none"

AuthenticateWithPassword ==
    \E i \in Sessions, code \in Open, word \in Words :
        /\ MayBegin /\ MayConnect(i) /\ ~sess[i].authing
        /\ sess' = [sess EXCEPT ![i].authing = TRUE]
        /\ Begin([NoJob EXCEPT !.k = "login", !.st = "begun", !.sess = i, !.code = code, !.word = word])
        /\ UNCHANGED <<store, unauth, presence, gate, count>>

\* ViewerPasswordChallenge: what there is to compare with, as of now.
Challenge ==
    \E j \in Jobs :
        LET r == rooms[jobs[j].code]
        IN  /\ jobs[j].k = "login" /\ jobs[j].st = "begun"
            /\ jobs' = [jobs EXCEPT ![j] = [@ EXCEPT !.st = "ask", !.room = r.id,
                            !.material = IF r.policy = "private" THEN r.pw ELSE Nothing]]
            /\ UNCHANGED <<store, sess, unauth, presence, gate, count>>

\* Mutant: the room's password is not compared again.
LoginHoldsUnchecked(job) ==
    LET r == rooms[job.code]
    IN  /\ r.id # 0 /\ r.id = job.room /\ r.policy = "private" /\ r.pw # Nothing
        /\ job.word = job.material.word
        /\ MayConnect(job.sess) /\ HasPlace(job.code, sess[job.sess].client)

\* ConnectViewerWithPassword: the room and its password are still the ones the
\* derivation was made for.
LoginHolds(job) ==
    LET r == rooms[job.code]
    IN  /\ r.id # 0 /\ r.id = job.room /\ r.policy = "private" /\ r.pw # Nothing
        /\ job.word = job.material.word /\ r.pw = job.material
        /\ MayConnect(job.sess) /\ HasPlace(job.code, sess[job.sess].client)

CommitLogin ==
    \E j \in Jobs :
        LET job == jobs[j]
        IN  /\ job.k = "login" /\ job.st = "done"
            /\ IF job.res = "ok" /\ LoginHolds(job)
               THEN Admit(job.sess, job.code, "viewer", "password", job.word)
               ELSE IF sess[job.sess].st = "open" /\ ~sess[job.sess].revoked THEN Refuse(job.sess)
               ELSE UNCHANGED <<store, sess, unauth, presence>>
            /\ jobs' = [jobs EXCEPT ![j] = Answered]
            /\ UNCHANGED <<gate, count>>

\* The authentication deadline, a second authentication, a full queue, a silent
\* heartbeat: the server closes the session.
Reject ==
    \E i \in Sessions :
        /\ sess[i].st = "open" /\ ~sess[i].closing
        /\ sess' = [sess EXCEPT ![i].closing = TRUE]
        /\ Faulty /\ Fault(count)
        /\ UNCHANGED <<store, unauth, presence, jobs, gate>>

\* handleDisconnect, once the connection is gone.
Disconnect ==
    \E i \in Sessions :
        LET s == sess[i]
            r == rooms[s.code]
            left == s.role = "viewer" /\ r.viewers[s.client].peer = s.peer /\ r.viewers[s.client].sess = i
            hostLeft == s.role = "host" /\ r.host.peer = s.peer /\ r.host.sess = i
            after == IF left THEN [r EXCEPT !.viewers[s.client] = [@ EXCEPT !.sess = 0, !.left = i]]
                     ELSE [r EXCEPT !.host.sess = 0]
        IN  /\ s.st = "open"
            /\ sess' = [sess EXCEPT ![i] = [NoSession EXCEPT !.st = "gone"]]
            /\ unauth' = IF s.revoked \/ Authenticated(i) THEN unauth ELSE unauth - 1
            /\ IF ~s.revoked /\ Authenticated(i) /\ (left \/ hostLeft)
               THEN rooms' = [rooms EXCEPT ![s.code] =
                                IF Occupied(after) THEN after ELSE [after EXCEPT !.age = 0]]
               ELSE UNCHANGED rooms
            /\ grace' = IF ~s.revoked /\ Authenticated(i) /\ left
                        THEN grace \cup {[code |-> s.code, peer |-> s.peer, client |-> s.client, id |-> i]}
                        ELSE grace
            /\ UNCHANGED <<free, db, fired, voice, routed, jobs, gate, count>>

\* handleMessage lets through what isCurrentSession confirms.
Current(i) ==
    /\ sess[i].st = "open" /\ ~sess[i].closing /\ ~sess[i].revoked
    /\ LET r == rooms[sess[i].code]
       IN  \E c \in Clients : r.viewers[c].peer = sess[i].peer /\ r.viewers[c].sess = i

\* A Viewer's message that leaves a trace: it subscribes to the room's voice.
Subscribe ==
    \E i \in Sessions :
        /\ sess[i].role = "viewer" /\ Current(i) /\ sess[i].peer \notin voice[sess[i].code]
        /\ voice' = [voice EXCEPT ![sess[i].code] = @ \cup {sess[i].peer}]
        /\ UNCHANGED <<store, sess, unauth, grace, fired, routed, jobs, gate, count>>

-----------------------------------------------------------------------------
(***************************************************************************)
(* The grace of a disconnected Viewer.                                     *)
(***************************************************************************)

\* The timer goes off; its callback has yet to take the mutex.
GoOff ==
    \E t \in grace \ fired :
        /\ fired' = fired \cup {t}
        /\ UNCHANGED <<store, sess, unauth, grace, voice, routed, jobs, gate, count>>

\* Mutant: only the store is asked whether the Viewer is still away.
RegisteredOnce(t) == \E u \in grace : u.code = t.code /\ u.peer = t.peer

Registered(t) == t \in grace

GraceEnds ==
    \E t \in fired :
        LET v == rooms[t.code].viewers[t.client]
        IN  /\ fired' = fired \ {t}
            /\ IF ~Registered(t) THEN UNCHANGED <<rooms, grace, voice, routed>>
               ELSE /\ grace' = grace \ Timers(t.code, {t.peer})
                    /\ IF v.peer = t.peer /\ v.sess = 0
                       THEN /\ rooms' = [rooms EXCEPT ![t.code].viewers[t.client] = NoViewer]
                            /\ voice' = [voice EXCEPT ![t.code] = @ \ {t.peer}]
                            /\ routed' = [routed EXCEPT ![t.code] = @ \ {t.peer}]
                       ELSE UNCHANGED <<rooms, voice, routed>>
            /\ UNCHANGED <<free, db, sess, unauth, jobs, gate, count>>

-----------------------------------------------------------------------------
(***************************************************************************)
(* The Host's operations.                                                  *)
(***************************************************************************)

\* An operation that writes the stored authority of one room.
Change(code, r, s, g, v, t, n) ==
    LET d == [db EXCEPT ![code] = Authority(r)]
    IN  \/ /\ db' = d /\ rooms' = [rooms EXCEPT ![code] = r]
           /\ sess' = s /\ grace' = g /\ voice' = v /\ routed' = t /\ count' = n
           /\ UNCHANGED <<free, unauth, fired>>
        \/ /\ Faulty /\ Fault(count)
           /\ UNCHANGED <<store, sess, unauth, presence>>

\* Mutant: a Viewer who is away keeps the admission a revoked invitation gave.
RevocableOnline(r) == {c \in Clients : r.viewers[c].by = "grant" /\ r.viewers[c].sess # 0}

Revocable(r) == {c \in Clients : r.viewers[c].by = "grant"}

\* SetViewerGrant and revokeGrantViewers: a new invitation, or none, and the
\* Viewers the old one admitted are gone with all that was kept for them.
Rotated(code, grant) ==
    LET r == rooms[code]
        revoked == Revocable(r)
        peers == {r.viewers[c].peer : c \in revoked}
        ids == {r.viewers[c].sess : c \in revoked} \ {0}
        left == [r EXCEPT !.grant = grant,
                          !.viewers = [c \in Clients |-> IF c \in revoked THEN NoViewer ELSE @[c]]]
    IN  Change(code, IF Occupied(r) /\ ~Occupied(left) THEN [left EXCEPT !.age = 0] ELSE left,
               [i \in Sessions |-> IF i \in ids THEN [sess[i] EXCEPT !.revoked = TRUE, !.closing = TRUE]
                                   ELSE sess[i]],
               grace \ Timers(code, peers), [voice EXCEPT ![code] = @ \ peers],
               [routed EXCEPT ![code] = @ \ peers],
               [Changed EXCEPT !.grants = @ + 1])

SetViewerGrant ==
    \E code \in Open, rotate \in BOOLEAN :
        /\ MayChange /\ MayInvite
        /\ Rotated(code, IF rotate THEN count.grants + 1 ELSE 0)
        /\ UNCHANGED <<jobs, gate>>

SetCodeEntryPolicy ==
    \E code \in Open, policy \in {"open", "private"} :
        /\ MayChange /\ rooms[code].policy # policy
        /\ Change(code, [rooms[code] EXCEPT !.policy = policy], sess, grace, voice, routed, Changed)
        /\ UNCHANGED <<jobs, gate>>

\* HostManagedRoom, then the derivation: SetViewerPassword and ReplaceRoom.
BeginChange ==
    \E code \in Open, k \in {"password", "replace"} : \E word \in Words \ {rooms[code].pw.word} :
        /\ MayChange /\ MayBegin /\ (k = "replace" => MayIssue)
        /\ Begin([NoJob EXCEPT !.k = k, !.st = "ask", !.code = code, !.room = rooms[code].id,
                               !.word = word, !.policy = "private"])
        /\ count' = Changed
        /\ UNCHANGED <<store, sess, unauth, presence, gate>>

\* getHostManagedRoom once more: the code still names the room that was asked.
Owned(job) == rooms[job.code].id = job.room

CommitPassword ==
    \E j \in Jobs :
        LET job == jobs[j]
            r == [rooms[job.code] EXCEPT !.pw = [word |-> job.word, salt |-> j]]
        IN  /\ job.k = "password" /\ job.st = "done"
            /\ IF job.res = "ok" /\ Owned(job)
               THEN Change(job.code, r, sess, grace, voice, routed, count)
               ELSE UNCHANGED <<store, sess, unauth, presence, count>>
            /\ jobs' = [jobs EXCEPT ![j] = Answered] /\ UNCHANGED gate

FreshRoom(policy, pw) ==
    [NoRoom EXCEPT !.id = count.ids + 1, !.grant = count.grants + 1, !.pw = pw, !.policy = policy]

Issued(n) == [n EXCEPT !.ids = @ + 1, !.grants = @ + 1]

\* abandonRooms: one write retires them all, and gives back their codes.
Retired(olds) ==
    /\ rooms' = [c \in Codes |-> IF c \in olds THEN NoRoom ELSE rooms[c]]
    /\ db' = [c \in Codes |-> IF c \in olds THEN Authority(NoRoom) ELSE db[c]]
    /\ free' = [c \in Codes |-> free[c] + IF c \in olds THEN 1 ELSE 0]
    /\ CloseRooms(olds)

\* Another room under a free code, in the place of some or of none.
Opened(olds, code, r, n) ==
    \/ /\ rooms' = [c \in Codes |-> IF c = code THEN r ELSE IF c \in olds THEN NoRoom ELSE rooms[c]]
       /\ db' = [c \in Codes |-> IF c = code THEN Authority(r)
                                 ELSE IF c \in olds THEN Authority(NoRoom) ELSE db[c]]
       /\ free' = [c \in Codes |-> free[c] + (IF c \in olds THEN 1 ELSE 0) - (IF c = code THEN 1 ELSE 0)]
       /\ CloseRooms(olds) /\ count' = Issued(n)
    \/ /\ Faulty /\ Fault(count)
       /\ UNCHANGED <<store, sess, unauth, presence>>

CommitReplace ==
    \E j \in Jobs, code \in Codes :
        LET job == jobs[j]
        IN  /\ job.k = "replace" /\ job.st = "done"
            /\ IF job.res = "ok" /\ Owned(job) /\ free[code] > 0
               THEN Opened({job.code}, code, FreshRoom(job.policy, [word |-> job.word, salt |-> j]), count)
               ELSE /\ ~(job.res = "ok" /\ Owned(job))
                    /\ UNCHANGED <<store, sess, unauth, presence, count>>
            /\ jobs' = [jobs EXCEPT ![j] = Answered] /\ UNCHANGED gate

\* roomCapacityCandidate: an empty room that expired, else one whose Host had
\* the grace to come back.
Candidates ==
    LET aged(n) == {c \in Open : ~Occupied(rooms[c]) /\ rooms[c].age >= n}
    IN  IF aged(2) # {} THEN aged(2) ELSE aged(1)

CreateRoom ==
    \E code \in Codes, policy \in {"open", "private"} :
        /\ MayChange /\ MayIssue
        /\ IF Cardinality(Open) < MaxRooms
           THEN free[code] > 0 /\ Opened({}, code, FreshRoom(policy, Nothing), Changed)
           ELSE \E old \in Candidates :
                   \/ /\ free[code] > 0 \/ code = old
                      /\ Opened({old}, code, FreshRoom(policy, Nothing), Changed)
                   \/ Faulty /\ Fault(Changed) /\ Retired({old})
        /\ UNCHANGED <<jobs, gate>>

RoomAges ==
    \E code \in Open :
        /\ ~Occupied(rooms[code]) /\ rooms[code].age < 2
        /\ rooms' = [rooms EXCEPT ![code].age = @ + 1]
        /\ MayChange /\ count' = Changed
        /\ UNCHANGED <<free, db, sess, unauth, presence, jobs, gate>>

\* expireEmptyRooms, EndAllRooms, and a Host that abandons his room.
Retire ==
    \E codes \in {{c \in Open : ~Occupied(rooms[c]) /\ rooms[c].age = 2}, Open}
                     \cup {{c} : c \in {k \in Open : rooms[k].host.sess # 0}} :
        /\ codes # {} /\ MayChange /\ count' = Changed
        /\ Retired(codes) /\ UNCHANGED <<jobs, gate>>

-----------------------------------------------------------------------------
(***************************************************************************)
(* The derivation gate.                                                    *)
(***************************************************************************)

Acquire ==
    \E j \in Jobs :
        /\ jobs[j].st = "ask"
        /\ IF gate.active < GateLimit
           THEN /\ gate' = [gate EXCEPT !.active = @ + 1]
                /\ jobs' = [jobs EXCEPT ![j].st = "derive"]
           ELSE IF Len(gate.waiters) < GatePending
           THEN /\ gate' = [gate EXCEPT !.waiters = Append(@, j)]
                /\ jobs' = [jobs EXCEPT ![j].st = "wait"]
           ELSE jobs' = [jobs EXCEPT ![j].st = "done", ![j].res = "busy"] /\ UNCHANGED gate
        /\ UNCHANGED <<store, sess, unauth, presence, count>>

MayStart(job) == IF job.k = "login" THEN MayConnect(job.sess) ELSE Owned(job)

\* release: the slot goes to the first waiter.
Released(g) ==
    IF g.waiters = <<>> THEN [g EXCEPT !.active = @ - 1] ELSE [g EXCEPT !.waiters = Tail(@)]

\* Mutant: the slot changes hands but nobody is told.
WokenNone(g) == {}

\* The derivation the freed slot goes to.
Woken(g) == {g.waiters[1] : i \in {1} \cap DOMAIN g.waiters}

Derive ==
    \E j \in Jobs :
        /\ jobs[j].st = "derive"
        /\ gate' = Released(gate)
        /\ jobs' = [k \in Jobs |->
                      IF k = j THEN [jobs[j] EXCEPT !.st = "done",
                                        !.res = IF MayStart(jobs[j]) THEN "ok" ELSE "cancelled"]
                      ELSE IF k \in Woken(gate) THEN [jobs[k] EXCEPT !.st = "derive"] ELSE jobs[k]]
        /\ UNCHANGED <<store, sess, unauth, presence, count>>

-----------------------------------------------------------------------------

First == [NoRoom EXCEPT !.id = 1, !.grant = 1, !.policy = "private", !.pw = [word |-> 1, salt |-> 0]]

\* One room exists, with an invitation and a password.
Init ==
    /\ \E code \in Codes :
          /\ rooms = [c \in Codes |-> IF c = code THEN First ELSE NoRoom]
          /\ db = [c \in Codes |-> Authority(rooms[c])]
          /\ free = [c \in Codes |-> IF c = code THEN 0 ELSE 1]
    /\ sess = [i \in Sessions |-> NoSession]
    /\ unauth = 0 /\ grace = {} /\ fired = {}
    /\ voice = [c \in Codes |-> {}] /\ routed = [c \in Codes |-> {}]
    /\ jobs = [j \in Jobs |-> NoJob]
    /\ gate = [active |-> 0, waiters |-> <<>>]
    /\ count = [ids |-> 1, grants |-> 1, changes |-> MaxChanges, faults |-> MaxFaults]

Next ==
    \/ Accept \/ AuthenticateHost \/ AuthenticateViewer \/ AuthenticateWithPassword
    \/ Reject \/ Disconnect \/ Subscribe \/ GoOff \/ GraceEnds
    \/ SetViewerGrant \/ SetCodeEntryPolicy \/ BeginChange \/ CreateRoom \/ RoomAges \/ Retire
    \/ Challenge \/ Acquire \/ Derive \/ CommitLogin \/ CommitPassword \/ CommitReplace \/ Crash

Spec == Init /\ [][Next]_vars

-----------------------------------------------------------------------------
(***************************************************************************)
(* Properties.                                                             *)
(***************************************************************************)

TypeOK ==
    /\ Open \subseteq Codes /\ \A c \in Codes : free[c] \in Nat /\ rooms[c].id \in 0..MaxIds
    /\ sess \in [Sessions -> [st : {"none", "open", "gone"}, client : Clients \cup {0},
                              closing : BOOLEAN, revoked : BOOLEAN, authing : BOOLEAN,
                              code : Codes \cup {0}, role : {"none", "host", "viewer"},
                              peer : 0..MaxSessions]]
    /\ unauth \in Nat /\ fired \in SUBSET [code : Codes, peer : Sessions, client : Clients, id : Sessions]
    /\ gate.active \in Nat /\ count.faults \in 0..MaxFaults

\* A code is free exactly while no room has it, once.
CodesConserved == \A c \in Codes : free[c] = IF rooms[c].id = 0 THEN 1 ELSE 0

\* Memory holds the authority the database would restore.
MemoryIsDurable == \A c \in Codes : db[c] = Authority(rooms[c])

\* The connections counted as unauthenticated are the ones that are.
UnauthenticatedCounted ==
    unauth = Cardinality({i \in Sessions : sess[i].st = "open" /\ ~Authenticated(i)})

\* The slots are held by running derivations, and waited for only when taken.
GateCounted ==
    /\ gate.active = Cardinality({j \in Jobs : jobs[j].st = "derive"})
    /\ gate.active <= GateLimit /\ Len(gate.waiters) <= GatePending
    /\ gate.waiters # <<>> => gate.active = GateLimit
    /\ ToSet(gate.waiters) = {j \in Jobs : jobs[j].st = "wait"}

\* Room codes, stored authority, admission counters and the derivation gate
\* balance in every state (Store, Server.unauthenticatedConnections, gate).
AccessSafety == TypeOK /\ CodesConserved /\ MemoryIsDurable /\ UnauthenticatedCounted /\ GateCounted

NamedByStore(i) ==
    LET s == sess[i]
        r == rooms[s.code]
    IN  IF s.role = "host" THEN r.host.sess = i /\ r.host.peer = s.peer
        ELSE r.viewers[s.client].sess = i /\ r.viewers[s.client].peer = s.peer

\* The session a participant is connected by is open and not revoked, and a
\* session that may still speak is the one its participant is connected by.
SessionsAgree ==
    /\ \A code \in Open : \A i \in Connected(rooms[code]) :
          sess[i].st = "open" /\ ~sess[i].revoked /\ sess[i].code = code /\ NamedByStore(i)
    /\ \A i \in Sessions :
          sess[i].st = "open" /\ Authenticated(i) /\ ~sess[i].closing => NamedByStore(i)

\* The store, the sessions, the timers, voice and routing agree on who is in a
\* room: nothing is kept for anybody the store forgot, whoever is away has a
\* timer of his own, and an invitation that was revoked admits nobody still
\* there (connectViewer, revokeGrantViewers, closeRoom, handleDisconnect).
MembershipAgrees ==
    /\ SessionsAgree
    /\ \A code \in Codes :
          LET r == rooms[code]
          IN  /\ routed[code] = Peers(r) /\ voice[code] \subseteq Peers(r)
              /\ Cardinality(Peers(r)) <= MaxViewers
              /\ \A c \in Clients :
                    LET v == r.viewers[c]
                    IN  /\ {t.id : t \in Timers(code, {v.peer})} =
                              IF v.peer # 0 /\ v.sess = 0 THEN {v.left} ELSE {}
                        /\ v.by = "grant" => v.cred = r.grant
    /\ \A t \in grace : t.peer \in Peers(rooms[t.code])

Admitted(i) ==
    LET r == rooms'[sess'[i].code]
        v == r.viewers[sess'[i].client]
    IN  /\ v.sess = i
        /\ \/ v.by = "code" /\ r.policy = "open"
           \/ v.by = "grant" /\ v.cred = r.grant
           \/ v.by = "password" /\ r.policy = "private" /\ v.cred = r.pw.word

\* A Viewer is admitted by what the room accepts at that moment, however long
\* his password was being derived (ConnectViewerWithPassword).
AdmissionIsCurrent ==
    [][\A i \in Sessions : sess[i].role = "none" /\ sess'[i].role = "viewer" => Admitted(i)]_vars

\* A room's password and successor are set by the Host that asked, for the room
\* he asked about: a room that took over its code is left alone
\* (SetViewerPassword and ReplaceRoom after a derivation).
ChangesItsOwnRoom ==
    [][\A j \in Jobs : \A code \in Codes :
         (jobs[j].k \in {"password", "replace"} /\ jobs'[j].st = "over" /\ jobs[j].st = "done"
            /\ rooms'[code].pw.salt = j /\ rooms[code].pw.salt # j)
         => rooms[jobs[j].code].id = jobs[j].room]_vars

\* What an operation found out before it let go of the mutex is applied only to
\* what it found it out about.
DerivedIsCurrent == AdmissionIsCurrent /\ ChangesItsOwnRoom

\* The grace that ends a Viewer's stay is the one his last departure began
\* (the callback of handleDisconnect, racing his return).
GraceIsItsOwn ==
    [][GraceEnds =>
         \A code \in Codes, c \in Clients :
            rooms[code].viewers[c] # rooms'[code].viewers[c] =>
               /\ rooms[code].viewers[c].sess = 0
               /\ \E t \in fired \ fired' : t.id = rooms[code].viewers[c].left]_vars
=============================================================================
