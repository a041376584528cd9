--------------------------- MODULE MediaRouteProofs ---------------------------
(***************************************************************************)
(* Proofs about a viewer's media: a peer link applies an answer only to    *)
(* the offer it answers, for both kinds of parent (PeerLink); and across   *)
(* every preparation, commit, abort, failure, pause and reconnection a     *)
(* viewer's page holds what its route holds and keeps a working            *)
(* subscription (ViewerRoute).                                             *)
(***************************************************************************)
EXTENDS PeerLink, ViewerRoute, SequenceTheorems, TLAPS

-----------------------------------------------------------------------------
(***************************************************************************)
(* The peer link, for every number of names and troubles.                  *)
(***************************************************************************)

Offers == [kind : {"offer", "answer"}, id : Names, epoch : Nat, audio : BOOLEAN, restart : BOOLEAN]

Notes ==
    [kind : {"restart"}, id : Names, rebuild : BOOLEAN]
    \cup [kind : {"failed", "authenticated"}, id : Names \cup {None}]

Descriptions == Offers \cup Notes

\* The server tells a child which connection it adopted.
ForChild == Offers \cup [kind : {"authenticated"}, id : Names]

WholeParent(p) ==
    p = [x \in {"kind", "id", "dead", "state", "epoch", "awaiting", "applied", "agreed", "want",
                "pending", "timer", "change", "retry", "online", "up", "down"} |-> p[x]]

WholeChild(c) ==
    c = [x \in {"id", "state", "todo", "answered", "initial", "drop", "recovery", "requests",
                "exhausted", "online", "up", "down"} |-> c[x]]

ParentShape(p) ==
    /\ WholeParent(p)
    /\ p.id \in Names \cup {None} /\ p.state \in States
    /\ p.epoch \in Nat /\ p.awaiting \in Nat /\ p.applied \in Nat
    /\ p.want \in BOOLEAN /\ p.online \in BOOLEAN
    /\ p.up \in Seq(Descriptions) /\ p.down \in Seq(Descriptions)
    /\ p.id = None => p.epoch = 0 /\ p.awaiting = 0 /\ p.applied = 0 /\ ~p.change

ChildShape(c) ==
    /\ WholeChild(c)
    /\ c.id \in Names /\ c.state \in States /\ c.requests \in 0..MaxRequests
    /\ c.up \in Seq(Descriptions) /\ c.down \in Seq(Descriptions)
    /\ c.down \in Seq(ForChild)
    /\ c.todo \in Offers \cup {NoOffer}
    /\ c.todo \in Offers => c.todo.id = c.id

(* A description of connection n: an offer on its way to the child, or the *)
(* answer on its way back.                                                 *)
About(m, n) == m \in Offers /\ m.id = n
Has(q, n) == \E i \in DOMAIN q : About(q[i], n)
Once(q, n, e) ==
    \A i \in DOMAIN q : About(q[i], n) =>
        /\ q[i].epoch = e
        /\ \A j \in DOMAIN q : About(q[j], n) => i = j

(* No description of connection n is under way.                            *)
Calm(p, c, n) ==
    /\ ~Has(p.up, n) /\ ~Has(c.down, n) /\ ~About(c.todo, n) /\ ~Has(c.up, n) /\ ~Has(p.down, n)

OneOf(u, v, w, x, y) ==
    /\ ~(u /\ v) /\ ~(u /\ w) /\ ~(u /\ x) /\ ~(u /\ y) /\ ~(v /\ w)
    /\ ~(v /\ x) /\ ~(v /\ y) /\ ~(w /\ x) /\ ~(w /\ y) /\ ~(x /\ y)

(* One description of connection n at most is under way, of epoch e.       *)
Alone(p, c, n, e) ==
    /\ Once(p.up, n, e) /\ Once(c.down, n, e) /\ Once(c.up, n, e) /\ Once(p.down, n, e)
    /\ About(c.todo, n) => c.todo.epoch = e
    /\ OneOf(Has(p.up, n), Has(c.down, n), About(c.todo, n), Has(c.up, n), Has(p.down, n))

(* While no offer is unanswered nothing is under way; otherwise what is    *)
(* under way belongs to the offer that is.                                 *)
Negotiated(p, c) ==
    p.id # None /\ ~p.dead =>
        \/ p.awaiting = 0 /\ p.applied = p.epoch /\ Calm(p, c, p.id)
        \/ p.awaiting = p.epoch /\ p.applied < p.epoch /\ Alone(p, c, p.id, p.epoch)

LinkInv ==
    /\ ParentShape(parent) /\ ChildShape(child) /\ Negotiated(parent, child)
    /\ edge = [x \in {"conn", "usable", "unheard"} |-> edge[x]]
    /\ edge.conn \in Names /\ budget \in 0..MaxTroubles

-----------------------------------------------------------------------------
(* Queues                                                                  *)

LEMMA Joining ==
  ASSUME NEW q \in Seq(Descriptions), NEW m \in Descriptions, NEW n, NEW e
  PROVE  /\ Append(q, m) \in Seq(Descriptions)
         /\ Has(Append(q, m), n) <=> Has(q, n) \/ About(m, n)
         /\ Once(q, n, e) /\ ~About(m, n) => Once(Append(q, m), n, e)
         /\ ~Has(q, n) /\ m.epoch = e => Once(Append(q, m), n, e)
<1> DEFINE r == Append(q, m)
<1>1. r \in Seq(Descriptions) /\ Len(r) = Len(q) + 1 /\ r[Len(q) + 1] = m
      /\ \A i \in 1..Len(q) : r[i] = q[i]
  OBVIOUS
<1>2. DOMAIN q = 1..Len(q) /\ DOMAIN r = 1..(Len(q) + 1) /\ Len(q) \in Nat
  BY <1>1
<1> HIDE DEF r
<1>3. \A i \in DOMAIN r : (i \in DOMAIN q /\ r[i] = q[i]) \/ (i = Len(q) + 1 /\ r[i] = m)
  BY <1>1, <1>2
<1>4. Has(r, n) <=> Has(q, n) \/ About(m, n)
  BY <1>1, <1>2, <1>3 DEF Has
<1>5. Once(q, n, e) /\ ~About(m, n) => Once(r, n, e)
  BY <1>3 DEF Once
<1>6. ~Has(q, n) /\ m.epoch = e => Once(r, n, e)
  BY <1>3 DEF Once, Has
<1> QED BY <1>1, <1>4, <1>5, <1>6 DEF r

LEMMA Leaving ==
  ASSUME NEW q \in Seq(Descriptions), q # <<>>, NEW n, NEW e
  PROVE  /\ Head(q) \in Descriptions /\ Tail(q) \in Seq(Descriptions)
         /\ Has(Tail(q), n) => Has(q, n)
         /\ About(Head(q), n) => Has(q, n)
         /\ Once(q, n, e) => Once(Tail(q), n, e)
         /\ Once(q, n, e) /\ About(Head(q), n) => Head(q).epoch = e /\ ~Has(Tail(q), n)
<1> DEFINE r == Tail(q)
<1>1. /\ Head(q) = q[1] /\ Head(q) \in Descriptions /\ Len(q) \in Nat /\ Len(q) > 0
      /\ r \in Seq(Descriptions) /\ Len(r) = Len(q) - 1
      /\ \A i \in 1..Len(r) : r[i] = q[i + 1]
  OBVIOUS
<1>2. DOMAIN q = 1..Len(q) /\ DOMAIN r = 1..(Len(q) - 1)
  BY <1>1
<1> HIDE DEF r
<1>3. \A i \in DOMAIN r : i + 1 \in DOMAIN q /\ r[i] = q[i + 1] /\ i \in Nat
  BY <1>1, <1>2
<1>4. 1 \in DOMAIN q
  BY <1>1, <1>2
<1>5. Has(r, n) => Has(q, n)
  BY <1>3 DEF Has
<1>6. About(Head(q), n) => Has(q, n)
  BY <1>1, <1>4 DEF Has
<1>7. Once(q, n, e) => Once(r, n, e)
  <2> SUFFICES ASSUME Once(q, n, e), NEW i \in DOMAIN r, About(r[i], n)
               PROVE  r[i].epoch = e /\ \A j \in DOMAIN r : About(r[j], n) => i = j
    BY DEF Once
  <2>1. q[i + 1].epoch = e /\ \A j \in DOMAIN q : About(q[j], n) => i + 1 = j
    BY <1>3 DEF Once
  <2>2. \A j \in DOMAIN r : About(r[j], n) => i + 1 = j + 1
    BY <1>3, <2>1
  <2> QED BY <1>3, <2>1, <2>2
<1>8. Once(q, n, e) /\ About(Head(q), n) => Head(q).epoch = e /\ ~Has(r, n)
  <2> SUFFICES ASSUME Once(q, n, e), About(Head(q), n)
               PROVE  Head(q).epoch = e /\ ~Has(r, n)
    OBVIOUS
  <2>1. q[1].epoch = e /\ \A j \in DOMAIN q : About(q[j], n) => 1 = j
    BY <1>1, <1>4 DEF Once
  <2>2. \A i \in DOMAIN r : ~About(r[i], n)
    BY <1>3, <1>2, <1>1, <2>1
  <2> QED BY <1>1, <2>1, <2>2 DEF Has
<1> QED BY <1>1, <1>5, <1>6, <1>7, <1>8 DEF r

LEMMA Nothing ==
  ASSUME NEW n, NEW e
  PROVE  <<>> \in Seq(Descriptions) /\ ~Has(<<>>, n) /\ Once(<<>>, n, e)
BY DEF Has, Once

\* What a queue of one note holds: no offer and no answer.
LEMMA Single ==
  ASSUME NEW m \in Descriptions, NEW n, NEW e, ~About(m, n)
  PROVE  <<m>> \in Seq(Descriptions) /\ ~Has(<<m>>, n) /\ Once(<<m>>, n, e)
<1> DEFINE q == <<>>
<1>1. q \in Seq(Descriptions) /\ ~Has(q, n) /\ Once(q, n, e)
  BY Nothing
<1>2. <<m>> = Append(q, m)
  OBVIOUS
<1> HIDE DEF q
<1>3. /\ Append(q, m) \in Seq(Descriptions)
      /\ ~Has(Append(q, m), n)
      /\ Once(Append(q, m), n, e)
  BY <1>1, Joining
<1> QED BY <1>2, <1>3

LEMMA Absent == ASSUME NEW q, NEW n, NEW e, ~Has(q, n) PROVE Once(q, n, e)
BY DEF Has, Once

-----------------------------------------------------------------------------
(* The parent's operations                                                 *)

\* Queues only grow, and only by notes.
Noted(q, r) == r = q \/ \E m \in Notes : r = Append(q, m)

LEMMA NotesAreNoOffers ==
  ASSUME NEW m \in Notes, NEW n PROVE m \in Descriptions /\ ~About(m, n)
BY DEF Notes, Descriptions, About, Offers

LEMMA NotedIs ==
  ASSUME NEW q \in Seq(Descriptions), NEW r, Noted(q, r), NEW n, NEW e
  PROVE  r \in Seq(Descriptions) /\ (Has(r, n) <=> Has(q, n)) /\ (Once(q, n, e) => Once(r, n, e))
<1>1. CASE r = q
  BY <1>1
<1>2. CASE \E m \in Notes : r = Append(q, m)
  <2>1. PICK m \in Notes : r = Append(q, m)
    BY <1>2
  <2>2. m \in Descriptions /\ ~About(m, n)
    BY NotesAreNoOffers
  <2> QED BY <2>1, <2>2, Joining
<1> QED BY <1>1, <1>2 DEF Noted

LEMMA RemovedIs ==
  ASSUME NEW p, ParentShape(p)
  PROVE  LET d == Removed(p) IN
         ParentShape(d) /\ d.id = None /\ d.up = p.up /\ d.down = p.down
<1> DEFINE d == Removed(p)
<1>1. d = [p EXCEPT !.id = None, !.dead = FALSE, !.state = "opening", !.epoch = 0, !.awaiting = 0,
              !.applied = 0, !.agreed = FALSE, !.pending = FALSE, !.timer = FALSE, !.change = FALSE]
  BY DEF Removed
<1> HIDE DEF d
<1>2. /\ d.id = None /\ d.state = "opening" /\ d.epoch = 0 /\ d.awaiting = 0 /\ d.applied = 0
      /\ ~d.change /\ d.want = p.want /\ d.online = p.online /\ d.up = p.up
      /\ d.down = p.down /\ WholeParent(d)
  BY <1>1 DEF ParentShape, WholeParent
<1>3. ParentShape(d)
  BY <1>2 DEF ParentShape, States
<1> QED BY <1>2, <1>3 DEF d

LEMMA MaySendIs == \A x : MaySend(x) \in BOOLEAN
BY DEF MaySend

LEMMA SentIs ==
  ASSUME NEW p, ParentShape(p), NEW m
  PROVE  LET d == Sent(p, m) IN
         /\ d = [p EXCEPT !.up = d.up] /\ (d.up = p.up \/ d.up = Append(p.up, m))
<1>1. CASE MaySend(p)
  BY <1>1 DEF Sent, ParentShape, WholeParent
<1>2. CASE Sent(p, m) = p
  BY <1>2 DEF ParentShape, WholeParent
<1> QED BY <1>1, <1>2 DEF Sent

LEMMA FailedKeeps ==
  ASSUME NEW p, ParentShape(p), NEW c
  PROVE  ParentShape(Failed(p)) /\ Negotiated(Failed(p), c)
<1>1. CASE p.kind = "host"
  <2> DEFINE d == Sent(p, RouteFailed(p.id))
  <2>1. d = [p EXCEPT !.up = d.up] /\ (d.up = p.up \/ d.up = Append(p.up, RouteFailed(p.id)))
    BY SentIs
  <2>2. RouteFailed(p.id) \in Descriptions
    BY DEF RouteFailed, ParentShape, Descriptions, Notes
  <2> HIDE DEF d
  <2>3. d.up \in Seq(Descriptions)
    BY <2>1, <2>2, Joining DEF ParentShape
  <2>4. ParentShape(d)
    BY <2>1, <2>3 DEF ParentShape, WholeParent
  <2>5. ParentShape(Removed(d)) /\ Removed(d).id = None
    BY <2>4, RemovedIs
  <2> QED BY <1>1, <2>5 DEF Failed, Negotiated, d
<1>2. CASE p.kind # "host"
  <2> DEFINE d == Failed(p)
  <2>1. d = [p EXCEPT !.dead = TRUE, !.state = "failed",
                      !.awaiting = 0, !.pending = FALSE, !.timer = FALSE]
    BY <1>2 DEF Failed
  <2> HIDE DEF d
  <2>2. /\ d.dead = TRUE /\ d.state = "failed" /\ d.awaiting = 0 /\ d.id = p.id /\ d.epoch = p.epoch
        /\ d.applied = p.applied /\ d.change = p.change /\ d.want = p.want /\ d.online = p.online
        /\ d.up = p.up /\ d.down = p.down /\ WholeParent(d)
    BY <2>1 DEF ParentShape, WholeParent
  <2>3. ParentShape(d)
    BY <2>2 DEF ParentShape, States
  <2> QED BY <2>2, <2>3 DEF Negotiated, d
<1> QED BY <1>1, <1>2

(* An offer is made only while nothing of its connection is under way.     *)
LEMMA OfferKeeps ==
  ASSUME NEW p, ParentShape(p), p.id \in Names, p.applied <= p.epoch, NEW c, Calm(p, c, p.id),
         NEW restart \in BOOLEAN
  PROVE  ParentShape(Offer(p, restart, TRUE)) /\ Negotiated(Offer(p, restart, TRUE), c)
<1> DEFINE e == p.epoch + 1
           m == Offered(p.id, e, p.want, restart)
           b == [p EXCEPT !.epoch = e, !.awaiting = e, !.timer = ~restart /\ p.applied # 0]
           d == Sent(b, m)
<1>1. Offer(p, restart, TRUE) = d
  BY DEF Offer, ParentShape, WholeParent
<1>2. /\ b.epoch = e /\ b.awaiting = e /\ b.applied = p.applied /\ b.id = p.id /\ b.state = p.state
      /\ b.want = p.want /\ b.online = p.online /\ b.change = p.change /\ b.up = p.up
      /\ b.down = p.down /\ b.dead = p.dead
      /\ WholeParent(b)
  BY DEF ParentShape, WholeParent
<1>3. e \in Nat /\ p.applied < e /\ p.id # None
  BY DEF ParentShape, Names, None
<1>4. ParentShape(b)
  BY <1>2, <1>3 DEF ParentShape
<1>5. m \in Descriptions /\ About(m, p.id) /\ m.epoch = e
  BY <1>3 DEF Offered, Descriptions, Offers, About, ParentShape
<1> HIDE DEF b, m, e
<1>6. d = [b EXCEPT !.up = d.up] /\ (d.up = p.up \/ d.up = Append(p.up, m))
  BY <1>2, <1>4, SentIs
<1>7. p.up \in Seq(Descriptions)
  BY DEF ParentShape
<1>8. d.up \in Seq(Descriptions) /\ Once(d.up, p.id, e)
  <2>1. ~Has(p.up, p.id)
    BY DEF Calm
  <2> QED BY <1>5, <1>6, <1>7, <2>1, Joining, Absent
<1> HIDE DEF d
<1>9. /\ d.epoch = e /\ d.awaiting = e /\ d.applied = p.applied /\ d.id = p.id /\ d.dead = p.dead
      /\ d.down = p.down
  BY <1>2, <1>6 DEF WholeParent
<1>10. ParentShape(d)
  BY <1>4, <1>6, <1>8 DEF ParentShape, WholeParent
<1>11. Alone(d, c, p.id, e)
  <2>1. ~Has(c.down, p.id) /\ ~About(c.todo, p.id) /\ ~Has(c.up, p.id) /\ ~Has(d.down, p.id)
    BY <1>9 DEF Calm
  <2> QED BY <1>8, <2>1, Absent DEF Alone, OneOf
<1>12. Negotiated(d, c)
  BY <1>3, <1>9, <1>11 DEF Negotiated
<1> QED BY <1>1, <1>10, <1>12

(* A new peer takes a name nothing refers to.                              *)
LEMMA StartedKeeps ==
  ASSUME NEW p, ParentShape(p), NEW c, Negotiated(p, c), Fresh \in Names, Calm(p, c, Fresh),
         NEW attempt, NEW ok \in BOOLEAN
  PROVE  ParentShape(Started(p, attempt, ok)) /\ Negotiated(Started(p, attempt, ok), c)
<1>1. CASE p.id # None
  BY <1>1 DEF Started
<1>2. CASE p.id = None
  <2> DEFINE b == [p EXCEPT !.id = Fresh]
             d == Offer(b, FALSE, ok)
  <2>1. /\ b.id = Fresh /\ b.epoch = 0 /\ b.applied = 0 /\ b.awaiting = 0 /\ b.up = p.up
        /\ b.down = p.down /\ b.state = p.state /\ b.want = p.want
        /\ b.online = p.online /\ ~b.change /\ WholeParent(b)
    BY <1>2 DEF ParentShape, WholeParent
  <2>2. ParentShape(b)
    BY <2>1 DEF ParentShape
  <2>3. Calm(b, c, b.id)
    BY <2>1 DEF Calm
  <2> HIDE DEF b
  <2>4. CASE ok = TRUE
    <3>1. Started(p, attempt, ok) = Offer(b, FALSE, TRUE)
      BY <1>2, <2>4 DEF Started, b
    <3>2. b.id \in Names /\ b.applied <= b.epoch /\ FALSE \in BOOLEAN
      BY <2>1
    <3>3. ParentShape(Offer(b, FALSE, TRUE)) /\ Negotiated(Offer(b, FALSE, TRUE), c)
      BY <2>2, <2>3, <3>2, OfferKeeps
    <3> QED BY <3>1, <3>3, Zenon
  <2>5. CASE ok = FALSE
    <3>1. d = [[b EXCEPT !.epoch = b.epoch + 1, !.awaiting = 0, !.timer = ~FALSE /\ b.applied # 0]
                EXCEPT !.timer = FALSE]
      BY <2>5, Zenon DEF Offer
    <3> HIDE DEF d
    <3>2. /\ d.id = b.id /\ d.epoch = b.epoch + 1 /\ d.applied = b.applied /\ d.awaiting = 0
          /\ d.up = b.up /\ d.down = b.down /\ d.state = b.state /\ d.want = b.want
          /\ d.online = b.online
          /\ WholeParent(d)
      BY <2>1, <3>1 DEF WholeParent
    <3>3. ParentShape(d)
      BY <3>2, <2>2, <2>1 DEF ParentShape, None, Names
    <3>4. CASE p.kind = "host"
      <4>1. Started(p, attempt, ok) = Removed(Sent(d, RouteFailed(d.id)))
        BY <1>2, <2>5, <3>4, Zenon DEF Started, b, d
      <4> DEFINE f == Sent(d, RouteFailed(d.id))
      <4>2. f = [d EXCEPT !.up = f.up] /\ (f.up = d.up \/ f.up = Append(d.up, RouteFailed(d.id)))
        BY <3>3, SentIs
      <4>3. RouteFailed(d.id) \in Descriptions
        BY <2>1, <3>2 DEF RouteFailed, Descriptions, Notes
      <4> HIDE DEF f
      <4>4. f.up \in Seq(Descriptions)
        BY <4>2, <4>3, <3>3, Joining DEF ParentShape
      <4>5. ParentShape(f)
        BY <4>2, <4>4, <3>3 DEF ParentShape, WholeParent
      <4>6. ParentShape(Removed(f)) /\ Removed(f).id = None
        BY <4>5, RemovedIs
      <4> QED BY <4>1, <4>6 DEF f, Negotiated
    <3>5. CASE p.kind # "host"
      <4> DEFINE f == Removed(d)
                 g == [f EXCEPT !.retry = @ \/ attempt = 0]
      <4>1. Started(p, attempt, ok) = g
        BY <1>2, <2>5, <3>5 DEF Started, b, d
      <4>2. ParentShape(f) /\ f.id = None
        BY <3>3, RemovedIs
      <4> HIDE DEF f
      <4>3. ParentShape(g) /\ g.id = None
        BY <4>2 DEF ParentShape, WholeParent
      <4> QED BY <4>1, <4>3 DEF Negotiated
    <3> QED BY <3>4, <3>5
  <2> QED BY <2>4, <2>5
<1> QED BY <1>1, <1>2

LEMMA RebuiltKeeps ==
  ASSUME NEW p, ParentShape(p), NEW c, Fresh \in Names, Calm(p, c, Fresh), NEW ok \in BOOLEAN
  PROVE  ParentShape(Rebuilt(p, ok)) /\ Negotiated(Rebuilt(p, ok), c)
<1> DEFINE d == Removed(p)
<1>1. ParentShape(d) /\ d.id = None /\ d.up = p.up /\ d.down = p.down
  BY RemovedIs
<1> HIDE DEF d
<1>2. Negotiated(d, c) /\ Calm(d, c, Fresh)
  BY <1>1 DEF Negotiated, Calm
<1> QED BY <1>1, <1>2, StartedKeeps DEF Rebuilt, d

(* Reading a message: what it describes is no longer under way.            *)
LEMMA ReadByParent ==
  ASSUME NEW p, ParentShape(p), NEW c, Negotiated(p, c), p.down # <<>>
  PROVE  LET r == [p EXCEPT !.down = Tail(@)]
             m == Head(p.down)
         IN /\ ParentShape(r) /\ Negotiated(r, c) /\ m \in Descriptions
            /\ \A n : Calm(p, c, n) => Calm(r, c, n)
            /\ r.id = p.id
            /\ About(m, r.id) /\ ~r.dead /\ r.awaiting # 0 => m.epoch = r.epoch /\ Calm(r, c, r.id)
<1> DEFINE r == [p EXCEPT !.down = Tail(@)]
           m == Head(p.down)
<1>1. /\ r.id = p.id /\ r.dead = p.dead /\ r.state = p.state /\ r.epoch = p.epoch
      /\ r.awaiting = p.awaiting /\ r.applied = p.applied /\ r.change = p.change
      /\ r.want = p.want /\ r.online = p.online
      /\ r.up = p.up /\ r.down = Tail(p.down) /\ WholeParent(r)
  BY DEF ParentShape, WholeParent
<1>2. p.down \in Seq(Descriptions)
  BY DEF ParentShape
<1> HIDE DEF r
<1>3. /\ r.down \in Seq(Descriptions) /\ m \in Descriptions
      /\ \A n : Has(r.down, n) => Has(p.down, n)
      /\ \A n : About(m, n) => Has(p.down, n)
      /\ \A n, e : Once(p.down, n, e) => Once(r.down, n, e)
      /\ \A n, e : Once(p.down, n, e) /\ About(m, n) => m.epoch = e /\ ~Has(r.down, n)
  BY <1>1, <1>2, Leaving
<1> HIDE DEF m
<1>4. ParentShape(r)
  BY <1>1, <1>3 DEF ParentShape
<1>5. \A n : Calm(p, c, n) => Calm(r, c, n)
  BY <1>1, <1>3 DEF Calm
<1>6. \A n, e : Alone(p, c, n, e) => Alone(r, c, n, e)
  BY <1>1, <1>3 DEF Alone, OneOf
<1>7. Negotiated(r, c)
  BY <1>1, <1>5, <1>6 DEF Negotiated
<1>8. About(m, r.id) /\ ~r.dead /\ r.awaiting # 0 => m.epoch = r.epoch /\ Calm(r, c, r.id)
  <2> SUFFICES ASSUME About(m, r.id), ~r.dead, r.awaiting # 0
               PROVE  m.epoch = r.epoch /\ Calm(r, c, r.id)
    OBVIOUS
  <2>1. p.id # None
    BY <1>1 DEF About, Offers, Names, None
  <2>2. Alone(p, c, p.id, p.epoch)
    BY <1>1, <2>1 DEF Negotiated
  <2>3. m.epoch = p.epoch /\ ~Has(r.down, p.id) /\ Has(p.down, p.id)
    BY <1>1, <1>3, <2>2 DEF Alone
  <2>4. ~Has(p.up, p.id) /\ ~Has(c.down, p.id) /\ ~About(c.todo, p.id) /\ ~Has(c.up, p.id)
    BY <2>2, <2>3 DEF Alone, OneOf
  <2> QED BY <1>1, <2>3, <2>4 DEF Calm
<1> QED BY <1>1, <1>3, <1>4, <1>5, <1>7, <1>8 DEF r, m

LEMMA RestartedIs ==
  ASSUME NEW s \in States, NEW restart, NEW t \in Restarted(s, restart) PROVE t \in States
BY DEF Restarted, States

LEMMA AnswerAcceptedKeeps ==
  ASSUME NEW p, ParentShape(p), NEW c, Negotiated(p, c), NEW m \in Offers, NEW state \in States,
         NEW applied \in BOOLEAN, NEW ok \in BOOLEAN,
         About(m, p.id) /\ ~p.dead /\ p.awaiting # 0 => m.epoch = p.epoch /\ Calm(p, c, p.id)
  PROVE  LET d == AnswerAccepted(p, m, applied, ok, state) IN ParentShape(d) /\ Negotiated(d, c)
<1> DEFINE d == AnswerAccepted(p, m, applied, ok, state)
<1>1. CASE p.id # m.id \/ p.dead \/ p.awaiting = 0
  BY <1>1 DEF AnswerAccepted
<1>2. CASE ~(p.id # m.id \/ p.dead \/ p.awaiting = 0) /\ ~applied
  <2>1. d = Failed(p)
    BY <1>2, Zenon DEF AnswerAccepted
  <2> QED BY <2>1, FailedKeeps
<1>3. CASE ~(p.id # m.id \/ p.dead \/ p.awaiting = 0) /\ applied
  <2> DEFINE done == [p EXCEPT !.applied = m.epoch, !.agreed = m.audio, !.awaiting = 0,
                               !.timer = FALSE, !.pending = FALSE, !.state = state]
  <2>1. d = IF ~p.pending THEN done
            ELSE IF ok THEN Offer(done, FALSE, TRUE) ELSE Failed(done)
    BY <1>3, Zenon DEF AnswerAccepted
  <2>2. m.epoch = p.epoch /\ Calm(p, c, p.id) /\ p.id \in Names
    BY <1>3 DEF About, Offers
  <2>3. /\ done.id = p.id /\ done.state = state /\ done.epoch = p.epoch /\ done.awaiting = 0
        /\ done.applied = m.epoch /\ done.change = p.change /\ done.want = p.want
        /\ done.online = p.online
        /\ done.up = p.up /\ done.down = p.down /\ WholeParent(done)
    BY DEF ParentShape, WholeParent
  <2> HIDE DEF done, d
  <2>4. ParentShape(done)
    BY <2>2, <2>3 DEF ParentShape, Names, None
  <2>5. Calm(done, c, done.id)
    BY <2>2, <2>3 DEF Calm
  <2>6. Negotiated(done, c)
    BY <2>2, <2>3, <2>5 DEF Negotiated
  <2>7. done.id \in Names /\ done.applied <= done.epoch /\ FALSE \in BOOLEAN
    BY <2>2, <2>3 DEF ParentShape
  <2>8. ParentShape(Offer(done, FALSE, TRUE)) /\ Negotiated(Offer(done, FALSE, TRUE), c)
    BY <2>4, <2>5, <2>7, OfferKeeps
  <2>9. ParentShape(Failed(done)) /\ Negotiated(Failed(done), c)
    BY <2>4, FailedKeeps
  <2> QED BY <2>1, <2>4, <2>6, <2>8, <2>9, Zenon DEF d
<1> QED BY <1>1, <1>2, <1>3

(* A restart is offered only by a peer that waits for no answer.           *)
LEMMA RecoveredKeeps ==
  ASSUME NEW p, ParentShape(p), NEW c, Negotiated(p, c), NEW m, m.id \in Names,
         NEW restarted \in BOOLEAN, NEW ok \in BOOLEAN, Fresh \in Names, Calm(p, c, Fresh)
  PROVE  LET d == Recovered(p, m, restarted, ok) IN ParentShape(d) /\ Negotiated(d, c)
<1> DEFINE d == Recovered(p, m, restarted, ok)
<1>1. \/ d = p \/ d = Rebuilt(p, ok)
      \/ p.id = m.id /\ ~p.dead /\ p.awaiting = 0 /\ d = Offer(p, TRUE, TRUE)
  BY Zenon DEF Recovered
<1>2. ParentShape(Rebuilt(p, ok)) /\ Negotiated(Rebuilt(p, ok), c)
  BY RebuiltKeeps
<1>3. CASE p.id = m.id /\ ~p.dead /\ p.awaiting = 0 /\ d = Offer(p, TRUE, TRUE)
  <2>1. p.id # None /\ p.id \in Names
    BY <1>3 DEF Names, None
  <2>2. p.epoch \in Nat /\ p.awaiting = 0
    BY <1>3 DEF ParentShape
  <2>3. p.applied = p.epoch /\ Calm(p, c, p.id)
    BY <1>3, <2>1, <2>2 DEF Negotiated, ParentShape
  <2>4. p.applied <= p.epoch /\ TRUE \in BOOLEAN
    BY <2>2, <2>3
  <2>5. ParentShape(Offer(p, TRUE, TRUE)) /\ Negotiated(Offer(p, TRUE, TRUE), c)
    BY <2>1, <2>3, <2>4, OfferKeeps
  <2> QED BY <1>3, <2>5, Zenon
<1> QED BY <1>1, <1>2, <1>3, Zenon

LEMMA ResyncedKeeps ==
  ASSUME NEW p, ParentShape(p), NEW c, Negotiated(p, c), NEW ok \in BOOLEAN,
         Fresh \in Names, Calm(p, c, Fresh)
  PROVE  ParentShape(Resynced(p, ok)) /\ Negotiated(Resynced(p, ok), c)
<1>1. Resynced(p, ok) = Rebuilt(p, ok) \/ Resynced(p, ok) = Started(p, 0, ok)
  BY Zenon DEF Resynced
<1> QED BY <1>1, RebuiltKeeps, StartedKeeps

-----------------------------------------------------------------------------
(* The child's operations: its queue grows by a note at most.              *)

ChildKept(c, d) ==
    /\ ChildShape(d) /\ d.id = c.id /\ d.down = c.down /\ d.todo = c.todo /\ Noted(c.up, d.up)

LEMMA NoteSent ==
  ASSUME NEW c, ChildShape(c), NEW m \in Notes
  PROVE  ChildKept(c, Sent(c, m)) /\ Sent(c, m).state = c.state /\ Sent(c, m).requests = c.requests
<1> DEFINE d == Sent(c, m)
<1>1. d = c \/ d = [c EXCEPT !.up = Append(@, m)]
  BY Zenon DEF Sent
<1>2. c.up \in Seq(Descriptions) /\ m \in Descriptions
  BY NotesAreNoOffers DEF ChildShape
<1>3. Append(c.up, m) \in Seq(Descriptions)
  BY <1>2, Joining
<1> HIDE DEF d
<1>4. /\ d.id = c.id /\ d.state = c.state /\ d.requests = c.requests /\ d.todo = c.todo
      /\ d.down = c.down /\ WholeChild(d) /\ (d.up = c.up \/ d.up = Append(c.up, m))
  BY <1>1 DEF ChildShape, WholeChild
<1>5. ChildShape(d)
  BY <1>2, <1>3, <1>4 DEF ChildShape
<1> QED BY <1>4, <1>5 DEF ChildKept, Noted, d

LEMMA ReportKept == ASSUME NEW c, ChildShape(c) PROVE ChildKept(c, ReportExhausted(c))
<1> DEFINE s == Sent(c, RouteFailed(c.id))
           d == ReportExhausted(c)
<1>1. d = c \/ d = [c EXCEPT !.recovery = TRUE] \/ d = [s EXCEPT !.recovery = FALSE, !.exhausted = TRUE]
  BY DEF ReportExhausted
<1> SUFFICES ChildKept(c, d)
  OBVIOUS
<1>2. RouteFailed(c.id) \in Notes
  BY DEF RouteFailed, Notes, ChildShape
<1>3. ChildKept(c, s)
  BY <1>2, NoteSent
<1> HIDE DEF s, d
<1>4. CASE d = c
  BY <1>4 DEF ChildKept, Noted
<1>5. CASE d = [c EXCEPT !.recovery = TRUE]
  <2>1. /\ d.id = c.id /\ d.state = c.state /\ d.requests = c.requests /\ d.todo = c.todo
        /\ d.down = c.down /\ d.up = c.up /\ WholeChild(d)
    BY <1>5 DEF ChildShape, WholeChild
  <2> QED BY <2>1 DEF ChildKept, ChildShape, Noted
<1>6. CASE d = [s EXCEPT !.recovery = FALSE, !.exhausted = TRUE]
  <2>1. /\ d.id = s.id /\ d.state = s.state /\ d.requests = s.requests /\ d.todo = s.todo
        /\ d.down = s.down /\ d.up = s.up /\ WholeChild(d)
    BY <1>3, <1>6 DEF ChildKept, ChildShape, WholeChild
  <2> QED BY <1>3, <2>1 DEF ChildKept, ChildShape
<1> QED BY <1>1, <1>4, <1>5, <1>6

\* Timers and flags do not matter here.
LEMMA Adjusted ==
  ASSUME NEW c, NEW s, ChildKept(c, s), NEW d, WholeChild(d), d.id = s.id, d.todo = s.todo,
         d.down = s.down, d.up = s.up, d.state \in States, d.requests \in 0..MaxRequests
  PROVE  ChildKept(c, d)
BY DEF ChildKept, ChildShape

LEMMA Unchanged == ASSUME NEW c, ChildShape(c) PROVE ChildKept(c, c)
BY DEF ChildKept, Noted

LEMMA Then ==
  ASSUME NEW c, NEW d, NEW e, ChildKept(c, d), d.up = c.up, ChildKept(d, e) PROVE ChildKept(c, e)
BY DEF ChildKept

LEMMA AttemptKept == ASSUME NEW c, ChildShape(c) PROVE ChildKept(c, Attempted(c))
<1> DEFINE d == [c EXCEPT !.initial = FALSE]
           s == Sent(d, RestartRequest(d.id, d.requests > 0))
           e == [s EXCEPT !.requests = @ + 1, !.recovery = TRUE]
<1>1. \/ Attempted(c) \in {d, ReportExhausted(d)}
      \/ ~(d.requests >= MaxRequests) /\ Attempted(c) = e
  BY Zenon DEF Attempted
<1>2. /\ d.id = c.id /\ d.state = c.state /\ d.requests = c.requests /\ d.todo = c.todo
      /\ d.down = c.down /\ d.up = c.up /\ WholeChild(d)
  BY DEF ChildShape, WholeChild
<1> HIDE DEF d
<1>3. ChildKept(c, d) /\ ChildShape(d)
  BY <1>2, Unchanged, Adjusted DEF ChildShape, ChildKept
<1>4. ChildKept(c, ReportExhausted(d))
  BY <1>2, <1>3, ReportKept, Then
<1>5. CASE ~(d.requests >= MaxRequests) /\ Attempted(c) = e
  <2>1. RestartRequest(d.id, d.requests > 0) \in Notes
    BY <1>3 DEF RestartRequest, Notes, ChildShape
  <2>2. ChildKept(d, s) /\ s.state = d.state /\ s.requests = d.requests
    BY <1>3, <2>1, NoteSent
  <2> HIDE DEF s
  <2>3. s.requests + 1 \in 0..MaxRequests /\ s.state \in States
    BY <1>3, <1>5, <2>2 DEF ChildShape, MaxRequests
  <2>4. /\ e.id = s.id /\ e.state = s.state /\ e.requests = s.requests + 1 /\ e.todo = s.todo
        /\ e.down = s.down /\ e.up = s.up /\ WholeChild(e)
    BY <2>2 DEF ChildKept, ChildShape, WholeChild
  <2> HIDE DEF e
  <2>5. ChildKept(d, e)
    BY <2>2, <2>3, <2>4, Adjusted
  <2>6. ChildKept(c, e)
    BY <1>2, <1>3, <2>5, Then
  <2> QED BY <1>5, <2>6, Zenon
<1> QED BY <1>1, <1>3, <1>4, <1>5, Zenon

LEMMA StateKept ==
  ASSUME NEW c, ChildShape(c), NEW s \in {"connected", "failed", "disconnected"}
  PROVE  ChildKept(c, StateChanged(c, s))
<1> DEFINE d == [c EXCEPT !.state = s]
           f == [d EXCEPT !.drop = FALSE]
<1>1. /\ d.id = c.id /\ d.state = s /\ d.requests = c.requests /\ d.todo = c.todo
      /\ d.down = c.down /\ d.up = c.up /\ WholeChild(d)
  BY DEF ChildShape, WholeChild
<1>2. s \in States /\ 0 \in 0..MaxRequests
  BY DEF States, MaxRequests
<1> HIDE DEF d
<1>3. ChildShape(d) /\ ChildKept(c, d)
  BY <1>1, <1>2, Unchanged, Adjusted DEF ChildShape, ChildKept
<1>4. CASE s = "connected"
  <2> DEFINE e == [d EXCEPT !.drop = FALSE, !.initial = FALSE, !.recovery = FALSE,
                            !.requests = 0, !.exhausted = FALSE]
  <2>1. StateChanged(c, s) = e
    BY <1>4 DEF StateChanged, d
  <2>2. /\ e.id = d.id /\ e.state = d.state /\ e.requests = 0 /\ e.todo = d.todo
        /\ e.down = d.down /\ e.up = d.up /\ WholeChild(e)
    BY <1>1 DEF WholeChild
  <2> HIDE DEF e
  <2> QED BY <1>1, <1>2, <1>3, <2>1, <2>2, Adjusted
<1>5. CASE s = "failed"
  <2>1. StateChanged(c, s) = Attempted(f)
    BY <1>5 DEF StateChanged, d
  <2>2. /\ f.id = d.id /\ f.state = d.state /\ f.requests = d.requests /\ f.todo = d.todo
        /\ f.down = d.down /\ f.up = d.up /\ WholeChild(f)
    BY <1>1 DEF WholeChild
  <2> HIDE DEF f
  <2>3. ChildKept(c, f) /\ ChildShape(f)
    BY <1>1, <1>2, <1>3, <2>2, Adjusted DEF ChildShape, ChildKept
  <2>4. ChildKept(f, Attempted(f))
    BY <2>3, AttemptKept
  <2> QED BY <1>1, <2>1, <2>2, <2>3, <2>4, Then
<1>6. CASE s = "disconnected"
  <2> DEFINE e == [d EXCEPT !.drop = TRUE]
  <2>1. StateChanged(c, s) = e
    BY <1>6 DEF StateChanged, d
  <2>2. /\ e.id = d.id /\ e.state = d.state /\ e.requests = d.requests /\ e.todo = d.todo
        /\ e.down = d.down /\ e.up = d.up /\ WholeChild(e)
    BY <1>1 DEF WholeChild
  <2> HIDE DEF e
  <2>3. e.requests \in 0..MaxRequests
    BY <1>3, <2>2 DEF ChildShape
  <2> QED BY <1>1, <1>2, <1>3, <2>1, <2>2, <2>3, Adjusted
<1> QED BY <1>4, <1>5, <1>6

LEMMA RestartSent ==
  ASSUME NEW c, ChildShape(c), NEW rebuild \in BOOLEAN, NEW n \in 0..MaxRequests, NEW d,
         d.requests = n, WholeChild(d),
         LET s == Sent(c, RestartRequest(c.id, rebuild)) IN
         /\ d.id = s.id /\ d.todo = s.todo /\ d.down = s.down /\ d.up = s.up /\ d.state = s.state
  PROVE  ChildKept(c, d)
<1>1. RestartRequest(c.id, rebuild) \in Notes
  BY DEF RestartRequest, Notes, ChildShape
<1>2. /\ ChildKept(c, Sent(c, RestartRequest(c.id, rebuild)))
      /\ Sent(c, RestartRequest(c.id, rebuild)).state = c.state
  BY <1>1, NoteSent
<1>3. d.state \in States
  BY <1>2 DEF ChildShape
<1> QED BY <1>2, <1>3, Adjusted

LEMMA OfferFailedKept == ASSUME NEW c, ChildShape(c) PROVE ChildKept(c, OfferFailed(c))
<1> DEFINE s == Sent(c, RestartRequest(c.id, TRUE))
           d == [s EXCEPT !.requests = MaxRequests, !.recovery = TRUE]
<1>1. OfferFailed(c) = d \/ OfferFailed(c) = ReportExhausted(c)
  BY Zenon DEF OfferFailed
<1>2. RestartRequest(c.id, TRUE) \in Notes
  BY DEF RestartRequest, Notes, ChildShape
<1>3. WholeChild(s)
  BY <1>2, NoteSent DEF ChildKept, ChildShape
<1>4. /\ d.id = s.id /\ d.state = s.state /\ d.requests = MaxRequests /\ d.todo = s.todo
      /\ d.down = s.down /\ d.up = s.up /\ WholeChild(d)
  BY <1>3 DEF WholeChild
<1>5. MaxRequests \in 0..MaxRequests /\ TRUE \in BOOLEAN
  BY DEF MaxRequests
<1> HIDE DEF d
<1>6. ChildKept(c, d)
  BY <1>4, <1>5, RestartSent
<1>7. ChildKept(c, ReportExhausted(c))
  BY ReportKept
<1> QED BY <1>1, <1>6, <1>7, Zenon

LEMMA RequestKept ==
  ASSUME NEW c, ChildShape(c), NEW rebuild \in BOOLEAN PROVE ChildKept(c, Requested(c, rebuild))
<1> DEFINE s == Sent(c, RestartRequest(c.id, rebuild))
           n == IF rebuild THEN MaxRequests ELSE IF s.requests = 0 THEN 1 ELSE s.requests
           d == [s EXCEPT !.initial = FALSE, !.exhausted = FALSE, !.recovery = TRUE, !.requests = n]
<1>1. Requested(c, rebuild) = d \/ Requested(c, rebuild) = c
  BY Zenon DEF Requested
<1>2. RestartRequest(c.id, rebuild) \in Notes
  BY DEF RestartRequest, Notes, ChildShape
<1>3. WholeChild(s) /\ s.requests \in 0..MaxRequests
  BY <1>2, NoteSent DEF ChildKept, ChildShape
<1>4. n \in 0..MaxRequests
  BY <1>3 DEF MaxRequests
<1> HIDE DEF n
<1>5. /\ d.id = s.id /\ d.state = s.state /\ d.requests = n /\ d.todo = s.todo
      /\ d.down = s.down /\ d.up = s.up /\ WholeChild(d)
  BY <1>3 DEF WholeChild
<1> HIDE DEF d
<1>6. ChildKept(c, d)
  BY <1>4, <1>5, RestartSent
<1> QED BY <1>1, <1>6, Unchanged, Zenon

(* What the child notes changes nothing about the negotiation.             *)
LEMMA NegotiationKept ==
  ASSUME NEW p, NEW c, ChildShape(c), Negotiated(p, c), NEW d, ChildKept(c, d)
  PROVE  ChildShape(d) /\ Negotiated(p, d)
<1>1. /\ ChildShape(d) /\ d.down = c.down /\ d.todo = c.todo /\ Noted(c.up, d.up)
      /\ c.up \in Seq(Descriptions)
  BY DEF ChildKept, ChildShape
<1>2. \A n, e : (Has(d.up, n) <=> Has(c.up, n)) /\ (Once(c.up, n, e) => Once(d.up, n, e))
  BY <1>1, NotedIs
<1>3. \A n : Calm(p, c, n) => Calm(p, d, n)
  BY <1>1, <1>2 DEF Calm
<1>4. \A n, e : Alone(p, c, n, e) => Alone(p, d, n, e)
  BY <1>1, <1>2 DEF Alone, OneOf
<1> QED BY <1>1, <1>3, <1>4 DEF Negotiated

-----------------------------------------------------------------------------
(* The parent's actions                                                    *)

LEMMA FreshIs ==
  ASSUME LinkInv, Unnamed # {} PROVE Fresh \in Names /\ Calm(parent, child, Fresh)
<1>1. Fresh \in Names /\ Fresh \in Unnamed
  BY DEF Fresh, Unnamed
<1>2. Fresh # child.id /\ \A m \in OnTheWay : m.id # Fresh
  BY <1>1 DEF Unnamed
<1>3. \A q \in {parent.up, parent.down, child.up, child.down} : Range(q) \subseteq OnTheWay
  BY DEF OnTheWay
<1>4. \A q \in {parent.up, parent.down, child.up, child.down} : \A i \in DOMAIN q : q[i].id # Fresh
  BY <1>2, <1>3 DEF Range
<1>5. ~About(child.todo, Fresh)
  BY <1>2 DEF About, LinkInv, ChildShape
<1> QED BY <1>1, <1>4, <1>5 DEF Calm, Has, About

LEMMA ChildTouched ==
  ASSUME NEW p, ParentShape(p), NEW c, Negotiated(p, c), NEW d, WholeParent(d), d.id = p.id,
         d.dead = p.dead, d.state \in States, d.epoch = p.epoch, d.awaiting = p.awaiting,
         d.applied = p.applied, d.want \in BOOLEAN, d.online \in BOOLEAN, d.id = None => ~d.change,
         d.up = p.up, d.down = p.down
  PROVE  ParentShape(d) /\ Negotiated(d, c) /\ \A n : Calm(p, c, n) => Calm(d, c, n)
<1>1. ParentShape(d)
  BY DEF ParentShape
<1>2. \A n : Calm(p, c, n) => Calm(d, c, n)
  BY DEF Calm
<1>3. \A n, e : Alone(p, c, n, e) => Alone(d, c, n, e)
  BY DEF Alone, OneOf
<1> QED BY <1>1, <1>2, <1>3 DEF Negotiated

LEMMA BudgetKept ==
  ASSUME budget \in 0..MaxTroubles, NEW a \in BOOLEAN, NEW b \in BOOLEAN,
         NEW p, Outcome(p, a), Outcome(p, b)
  PROVE  Charged(p, {a, b}) \in 0..MaxTroubles /\ Charged(p, {a}) \in 0..MaxTroubles
<1>1. MaySend(p) /\ (a = FALSE \/ b = FALSE) => budget > 0
  BY DEF Outcome
<1>2. budget > 0 => budget - 1 \in 0..MaxTroubles
  BY PeerLinkAssumption
<1>3. CASE a = FALSE \/ b = FALSE
  BY <1>1, <1>2, <1>3 DEF Charged
<1>4. CASE a = TRUE /\ b = TRUE
  BY <1>4 DEF Charged
<1> QED BY <1>3, <1>4

LEMMA ParentKeeps ==
  ASSUME LinkInv, ParentShape(parent'), Negotiated(parent', child), budget' \in 0..MaxTroubles,
         UNCHANGED <<child, edge>>
  PROVE  LinkInv'
BY DEF LinkInv, ParentShape, ChildShape, WholeParent, WholeChild, Negotiated, Calm, Alone, OneOf

ParentReads ==
    /\ ParentShape(ParentRest) /\ Negotiated(ParentRest, child) /\ Head(parent.down) \in Descriptions
    /\ Fresh \in Names /\ Calm(ParentRest, child, Fresh)

LEMMA ParentReadsIs == ASSUME LinkInv, Unnamed # {}, parent.down # <<>> PROVE ParentReads
BY FreshIs, ReadByParent DEF LinkInv, ParentReads, ParentRest

LEMMA ReceiveAnswerKeeps ==
  ASSUME LinkInv, Unnamed # {}, NEW applied \in BOOLEAN, NEW ok \in BOOLEAN,
         ReceiveAnswer(applied, ok)
  PROVE  LinkInv'
<1> DEFINE m == Head(parent.down)
<1>1. parent.down # <<>> /\ m.kind = "answer"
  BY DEF ReceiveAnswer, ParentReceived
<1>2. ParentReads
  BY <1>1, ParentReadsIs
<1>3. m \in Offers
  BY <1>1, <1>2 DEF ParentReads, Descriptions, Notes
<1>4. About(m, ParentRest.id) /\ ~ParentRest.dead /\ ParentRest.awaiting # 0
        => m.epoch = ParentRest.epoch /\ Calm(ParentRest, child, ParentRest.id)
  BY <1>1, ReadByParent DEF LinkInv, ParentRest
<1>5. PICK s \in Restarted(parent.state, m.restart) :
         parent' = AnswerAccepted(ParentRest, m, applied, ok, s)
  BY DEF ReceiveAnswer
<1>6. s \in States
  BY RestartedIs DEF LinkInv, ParentShape
<1> HIDE DEF m
<1>7. ParentShape(parent') /\ Negotiated(parent', child)
  BY <1>2, <1>3, <1>4, <1>5, <1>6, AnswerAcceptedKeeps DEF ParentReads
<1>8. budget' \in 0..MaxTroubles
  <2>1. budget \in 0..MaxTroubles
    BY DEF LinkInv
  <2>2. CASE ~applied
    BY <2>1, <2>2, PeerLinkAssumption DEF ReceiveAnswer
  <2>3. CASE applied
    <3>1. CASE parent.pending
      <4>1. Outcome(ParentRest, ok)
        BY <2>3, <3>1 DEF ReceiveAnswer
      <4> QED BY <2>1, <2>3, <4>1, BudgetKept DEF ReceiveAnswer
    <3>2. CASE ~parent.pending
      BY <2>1, <2>3, <3>2 DEF ReceiveAnswer, Charged
    <3> QED BY <3>1, <3>2
  <2> QED BY <2>2, <2>3
<1> QED BY <1>7, <1>8, ParentKeeps DEF ReceiveAnswer

LEMMA ReceiveRestartRequestKeeps ==
  ASSUME LinkInv, Unnamed # {}, NEW restarted \in BOOLEAN, NEW ok \in BOOLEAN,
         ReceiveRestartRequest(restarted, ok)
  PROVE  LinkInv'
<1> DEFINE m == Head(parent.down)
<1>1. parent.down # <<>> /\ m.kind = "restart"
  BY DEF ReceiveRestartRequest, ParentReceived
<1>2. ParentReads
  BY <1>1, ParentReadsIs
<1>3. m.id \in Names
  BY <1>1, <1>2 DEF ParentReads, Descriptions, Notes, Offers
<1>4. parent' = Recovered(ParentRest, m, restarted, ok)
  BY DEF ReceiveRestartRequest
<1> HIDE DEF m
<1>5. ParentShape(parent') /\ Negotiated(parent', child)
  BY <1>2, <1>3, <1>4, RecoveredKeeps DEF ParentReads
<1>6. budget' \in 0..MaxTroubles
  BY BudgetKept DEF ReceiveRestartRequest, LinkInv, ParentShape
<1> QED BY <1>5, <1>6, ParentKeeps DEF ReceiveRestartRequest

LEMMA ParentAuthenticatedKeeps ==
  ASSUME LinkInv, Unnamed # {}, NEW ok \in BOOLEAN, ParentAuthenticated(ok)
  PROVE  LinkInv'
<1>1. ParentReads
  BY ParentReadsIs DEF ParentAuthenticated, ParentReceived
<1>2. ParentShape(parent') /\ Negotiated(parent', child)
  BY <1>1, ResyncedKeeps DEF ParentReads, ParentAuthenticated
<1>3. budget' \in 0..MaxTroubles
  BY BudgetKept DEF ParentAuthenticated, LinkInv, ParentShape
<1> QED BY <1>2, <1>3, ParentKeeps DEF ParentAuthenticated

LEMMA AnswerTimerKeeps ==
  ASSUME LinkInv, AnswerTimerFires PROVE LinkInv'
<1>1. ParentShape(parent') /\ Negotiated(parent', child)
  BY FailedKeeps DEF AnswerTimerFires, LinkInv
<1>2. budget' \in 0..MaxTroubles
  BY PeerLinkAssumption DEF AnswerTimerFires, Elapses, LinkInv
<1> QED BY <1>1, <1>2, ParentKeeps DEF AnswerTimerFires

LEMMA RetryTimerKeeps ==
  ASSUME LinkInv, Unnamed # {}, NEW ok \in BOOLEAN, RetryTimerFires(ok) PROVE LinkInv'
<1> DEFINE d == [parent EXCEPT !.retry = FALSE]
<1>1. /\ d.id = parent.id /\ d.dead = parent.dead /\ d.state = parent.state
      /\ d.epoch = parent.epoch /\ d.awaiting = parent.awaiting /\ d.applied = parent.applied
      /\ d.want = parent.want /\ d.online = parent.online /\ d.change = parent.change
      /\ d.up = parent.up /\ d.down = parent.down /\ WholeParent(d)
  BY DEF LinkInv, ParentShape, WholeParent
<1>2. parent' = Started(d, 1, ok)
  BY DEF RetryTimerFires
<1>3. ParentShape(parent) /\ Negotiated(parent, child) /\ parent.state \in States
      /\ parent.want \in BOOLEAN /\ parent.online \in BOOLEAN
      /\ (parent.id = None => ~parent.change)
  BY DEF LinkInv, ParentShape
<1> HIDE DEF d
<1>4. ParentShape(d) /\ Negotiated(d, child) /\ \A n : Calm(parent, child, n) => Calm(d, child, n)
  BY <1>1, <1>3, ChildTouched
<1>5. ParentShape(parent') /\ Negotiated(parent', child)
  BY <1>2, <1>4, FreshIs, StartedKeeps
<1>6. budget' \in 0..MaxTroubles
  BY BudgetKept DEF RetryTimerFires, LinkInv, ParentShape
<1> QED BY <1>5, <1>6, ParentKeeps DEF RetryTimerFires

LEMMA ReplaceStreamKeeps ==
  ASSUME LinkInv, Unnamed # {}, NEW replaced \in BOOLEAN, ReplaceStream(replaced) PROVE LinkInv'
<1> DEFINE d == [parent EXCEPT !.want = ~@]
           e == [d EXCEPT !.change = TRUE]
<1>1. budget' \in 0..MaxTroubles
  BY PeerLinkAssumption DEF ReplaceStream, LinkInv
<1> SUFFICES ParentShape(parent') /\ Negotiated(parent', child)
  BY <1>1, ParentKeeps DEF ReplaceStream
<1>2. /\ d.id = parent.id /\ d.dead = parent.dead /\ d.state = parent.state
      /\ d.epoch = parent.epoch /\ d.awaiting = parent.awaiting /\ d.applied = parent.applied
      /\ d.want \in BOOLEAN /\ d.online = parent.online /\ d.change = parent.change
      /\ d.up = parent.up /\ d.down = parent.down /\ WholeParent(d)
  BY DEF LinkInv, ParentShape, WholeParent
<1>3. \/ parent' \in {d, Started(d, 0, MaySend(parent)), Rebuilt(d, MaySend(parent))}
      \/ parent.id # None /\ parent' = e
  BY <1>2 DEF ReplaceStream
<1>4. ParentShape(parent) /\ Negotiated(parent, child) /\ parent.state \in States
      /\ parent.online \in BOOLEAN /\ (parent.id = None => ~parent.change)
  BY DEF LinkInv, ParentShape
<1> HIDE DEF d
<1>5. ParentShape(d) /\ Negotiated(d, child) /\ \A n : Calm(parent, child, n) => Calm(d, child, n)
  BY <1>2, <1>4, ChildTouched
<1>6. /\ ParentShape(Started(d, 0, MaySend(parent))) /\ Negotiated(Started(d, 0, MaySend(parent)), child)
      /\ ParentShape(Rebuilt(d, MaySend(parent))) /\ Negotiated(Rebuilt(d, MaySend(parent)), child)
  BY <1>4, <1>5, FreshIs, StartedKeeps, RebuiltKeeps, MaySendIs
<1>7. CASE parent.id # None /\ parent' = e
  <2>1. /\ e.id = d.id /\ e.dead = d.dead /\ e.state = d.state
        /\ e.epoch = d.epoch /\ e.awaiting = d.awaiting /\ e.applied = d.applied
        /\ e.want = d.want /\ e.online = d.online
        /\ e.up = d.up /\ e.down = d.down /\ WholeParent(e)
    BY <1>2 DEF WholeParent
  <2> HIDE DEF e
  <2>2. ParentShape(e) /\ Negotiated(e, child)
    BY <1>2, <1>4, <1>5, <1>7, <2>1, ChildTouched
  <2> QED BY <1>7, <2>2
<1> QED BY <1>3, <1>5, <1>6, <1>7

LEMMA CreateOfferKeeps ==
  ASSUME LinkInv, Unnamed # {}, NEW ok \in BOOLEAN, CreateOffer(ok) PROVE LinkInv'
<1> DEFINE d == [parent EXCEPT !.change = FALSE]
           e == [d EXCEPT !.pending = TRUE]
<1>1. budget' \in 0..MaxTroubles
  BY BudgetKept DEF CreateOffer, LinkInv, ParentShape
<1> SUFFICES ParentShape(parent') /\ Negotiated(parent', child)
  BY <1>1, ParentKeeps DEF CreateOffer
<1>2. /\ d.id = parent.id /\ d.dead = parent.dead /\ d.state = parent.state
      /\ d.epoch = parent.epoch /\ d.awaiting = parent.awaiting /\ d.applied = parent.applied
      /\ d.want = parent.want /\ d.online = parent.online /\ ~d.change
      /\ d.up = parent.up /\ d.down = parent.down /\ WholeParent(d)
  BY DEF LinkInv, ParentShape, WholeParent
<1>3. \/ parent' \in {e, Rebuilt(d, ok), Rebuilt(d, MaySend(parent))}
      \/ ~d.dead /\ d.awaiting = 0 /\ parent' = Offer(d, FALSE, TRUE)
  BY DEF CreateOffer
<1>4. ParentShape(parent) /\ Negotiated(parent, child) /\ parent.state \in States
      /\ parent.want \in BOOLEAN /\ parent.online \in BOOLEAN
  BY DEF LinkInv, ParentShape
<1>5. parent.id \in Names /\ parent.id # None
  BY DEF LinkInv, ParentShape, CreateOffer, Names, None
<1> HIDE DEF d
<1>6. ParentShape(d) /\ Negotiated(d, child) /\ \A n : Calm(parent, child, n) => Calm(d, child, n)
  BY <1>2, <1>4, ChildTouched
<1>7. /\ ParentShape(Rebuilt(d, ok)) /\ Negotiated(Rebuilt(d, ok), child)
      /\ ParentShape(Rebuilt(d, MaySend(parent))) /\ Negotiated(Rebuilt(d, MaySend(parent)), child)
  BY <1>4, <1>6, FreshIs, RebuiltKeeps, MaySendIs
<1>8. CASE parent' = e
  <2>1. /\ e.id = d.id /\ e.dead = d.dead /\ e.state = d.state
        /\ e.epoch = d.epoch /\ e.awaiting = d.awaiting /\ e.applied = d.applied
        /\ e.want = d.want /\ e.online = d.online /\ ~e.change
        /\ e.up = d.up /\ e.down = d.down /\ WholeParent(e)
    BY <1>2 DEF WholeParent
  <2> HIDE DEF e
  <2>2. ParentShape(e) /\ Negotiated(e, child)
    BY <1>2, <1>4, <1>6, <2>1, ChildTouched
  <2> QED BY <1>8, <2>2
<1>9. CASE ~d.dead /\ d.awaiting = 0 /\ parent' = Offer(d, FALSE, TRUE)
  <2>1. d.epoch \in Nat /\ d.applied \in Nat /\ d.id # None /\ d.id \in Names
    BY <1>2, <1>5, <1>6 DEF ParentShape
  <2>2. d.applied = d.epoch /\ Calm(d, child, d.id)
    BY <1>6, <1>9, <2>1 DEF Negotiated
  <2>3. d.applied <= d.epoch /\ FALSE \in BOOLEAN
    BY <2>1, <2>2
  <2>4. ParentShape(Offer(d, FALSE, TRUE)) /\ Negotiated(Offer(d, FALSE, TRUE), child)
    BY <1>6, <2>1, <2>2, <2>3, OfferKeeps
  <2> QED BY <1>9, <2>4, Zenon
<1> QED BY <1>3, <1>7, <1>8, <1>9

-----------------------------------------------------------------------------
(* The child's actions                                                     *)

LEMMA ChildKeeps ==
  ASSUME LinkInv, ChildShape(child'), Negotiated(parent, child'), budget' \in 0..MaxTroubles,
         UNCHANGED <<parent, edge>>
  PROVE  LinkInv'
BY DEF LinkInv, ParentShape, ChildShape, WholeParent, WholeChild, Negotiated, Calm, Alone, OneOf

(* A queue that loses messages takes nothing from the negotiation.         *)
LEMMA Fewer ==
  ASSUME NEW p, NEW c, Negotiated(p, c), NEW d, NEW f,
         d.id = p.id, d.dead = p.dead, d.awaiting = p.awaiting, d.applied = p.applied,
         d.epoch = p.epoch,
         \A n : /\ (Has(d.up, n) => Has(p.up, n)) /\ (Has(d.down, n) => Has(p.down, n))
                /\ (Has(f.up, n) => Has(c.up, n)) /\ (Has(f.down, n) => Has(c.down, n))
                /\ (About(f.todo, n) => f.todo = c.todo),
         \A n, e : /\ (Once(p.up, n, e) => Once(d.up, n, e))
                   /\ (Once(p.down, n, e) => Once(d.down, n, e))
                   /\ (Once(c.up, n, e) => Once(f.up, n, e))
                   /\ (Once(c.down, n, e) => Once(f.down, n, e))
  PROVE  Negotiated(d, f)
<1>1. \A n : Calm(p, c, n) => Calm(d, f, n)
  BY DEF Calm
<1>2. \A n, e : Alone(p, c, n, e) => Alone(d, f, n, e)
  BY DEF Alone, OneOf
<1> QED BY <1>1, <1>2 DEF Negotiated

LEMMA ReadByChild ==
  ASSUME NEW p, NEW c, ChildShape(c), Negotiated(p, c), c.down # <<>>
  PROVE  LET r == [c EXCEPT !.down = Tail(@)] IN
         /\ ChildShape(r) /\ Negotiated(p, r) /\ Head(c.down) \in ForChild
         /\ r.id = c.id /\ r.todo = c.todo /\ r.up = c.up /\ r.down = Tail(c.down)
<1> DEFINE r == [c EXCEPT !.down = Tail(@)]
<1>1. /\ r.id = c.id /\ r.state = c.state /\ r.requests = c.requests /\ r.todo = c.todo
      /\ r.up = c.up /\ r.down = Tail(c.down) /\ WholeChild(r)
  BY DEF ChildShape, WholeChild
<1>2. c.down \in Seq(Descriptions) /\ c.down \in Seq(ForChild)
  BY DEF ChildShape
<1>3. Head(c.down) \in ForChild /\ Tail(c.down) \in Seq(ForChild)
  BY <1>2
<1> HIDE DEF r
<1>4. /\ r.down \in Seq(Descriptions)
      /\ \A n : Has(r.down, n) => Has(c.down, n)
      /\ \A n, e : Once(c.down, n, e) => Once(r.down, n, e)
  BY <1>1, <1>2, Leaving
<1>5. ChildShape(r)
  BY <1>1, <1>3, <1>4 DEF ChildShape
<1>6. Negotiated(p, r)
  BY <1>1, <1>4, Fewer
<1> QED BY <1>1, <1>3, <1>5, <1>6 DEF r

LEMMA ReceiveOfferKeeps == ASSUME LinkInv, ReceiveOffer PROVE LinkInv'
<1> DEFINE m == Head(child.down)
           r == ChildRest
           d == child'
<1>1. ChildShape(child) /\ Negotiated(parent, child) /\ child.down # <<>> /\ m.kind = "offer"
  BY DEF LinkInv, ReceiveOffer, ChildReceived
<1>2. /\ ChildShape(r) /\ Negotiated(parent, r) /\ m \in ForChild
      /\ r.id = child.id /\ r.todo = child.todo /\ r.up = child.up /\ r.down = Tail(child.down)
  BY <1>1, ReadByChild DEF ChildRest
<1>3. m \in Offers
  BY <1>1, <1>2 DEF ForChild
<1>4. d = [(IF child.id # m.id THEN Replaced(r, m.id) ELSE r) EXCEPT !.todo = m]
  BY DEF ReceiveOffer
<1> HIDE DEF m, r, d
<1>5. /\ d.id = m.id /\ d.state \in States /\ d.requests = r.requests /\ d.todo = m
      /\ d.down = r.down /\ d.up = r.up /\ WholeChild(d)
  <2>1. CASE child.id = m.id
    BY <1>2, <1>4, <2>1 DEF ChildShape, WholeChild
  <2>2. CASE child.id # m.id
    BY <1>2, <1>4, <2>2 DEF ChildShape, WholeChild, Replaced, States
  <2> QED BY <2>1, <2>2
<1>6. ChildShape(d)
  BY <1>2, <1>3, <1>5 DEF ChildShape, Offers
<1>7. /\ \A n : Has(d.down, n) => Has(child.down, n)
      /\ \A n : About(m, n) => Has(child.down, n)
      /\ \A n, e : Once(child.down, n, e) => Once(d.down, n, e)
      /\ \A n, e : Once(child.down, n, e) /\ About(m, n) => m.epoch = e /\ ~Has(d.down, n)
  <2>1. d.down = Tail(child.down) /\ m = Head(child.down)
    BY <1>2, <1>5 DEF m
  <2>2. child.down \in Seq(Descriptions) /\ child.down # <<>>
    BY <1>1 DEF ChildShape
  <2>3. /\ \A n : Has(Tail(child.down), n) => Has(child.down, n)
        /\ \A n : About(Head(child.down), n) => Has(child.down, n)
        /\ \A n, e : Once(child.down, n, e) => Once(Tail(child.down), n, e)
        /\ \A n, e : Once(child.down, n, e) /\ About(Head(child.down), n)
                       => Head(child.down).epoch = e /\ ~Has(Tail(child.down), n)
    BY <2>2, Leaving
  <2> QED BY <2>1, <2>3
<1>8. \A n : Calm(parent, child, n) => Calm(parent, d, n)
  BY <1>2, <1>5, <1>7 DEF Calm
<1>9. \A n, e : Alone(parent, child, n, e) => Alone(parent, d, n, e)
  BY <1>2, <1>5, <1>7 DEF Alone, OneOf
<1>10. Negotiated(parent, d)
  BY <1>1, <1>8, <1>9 DEF Negotiated
<1> QED BY <1>6, <1>10, ChildKeeps DEF ReceiveOffer, LinkInv, d

LEMMA AcceptDescriptionKeeps ==
  ASSUME LinkInv, NEW ok \in BOOLEAN, AcceptDescription(ok) PROVE LinkInv'
<1> DEFINE m == child.todo
           c == [child EXCEPT !.todo = NoOffer]
           a == [m EXCEPT !.kind = "answer"]
           t == Sent(c, a)
           d == child'
<1>1. budget' \in 0..MaxTroubles
  BY PeerLinkAssumption DEF AcceptDescription, LinkInv
<1>2. ChildShape(child) /\ Negotiated(parent, child) /\ m \in Offers
  BY DEF LinkInv, AcceptDescription, ChildShape
<1>3. PICK s \in Restarted(child.state, m.restart) :
         d = IF ok THEN [t EXCEPT !.answered = m.epoch, !.state = s, !.recovery = FALSE,
                                  !.initial = s # "connected"]
             ELSE OfferFailed(c)
  BY DEF AcceptDescription
<1>4. s \in States
  BY <1>2, RestartedIs DEF ChildShape
<1>5. /\ c.id = child.id /\ c.state = child.state /\ c.requests = child.requests /\ c.todo = NoOffer
      /\ c.up = child.up /\ c.down = child.down /\ WholeChild(c)
  BY <1>2 DEF ChildShape, WholeChild
<1>6. a \in Descriptions /\ a.epoch = m.epoch /\ \A n : About(a, n) => About(m, n)
  BY <1>2 DEF Descriptions, Offers, About
<1>7. NoOffer \notin Offers /\ \A n : ~About(NoOffer, n)
  BY DEF NoOffer, Offered, Offers, About, Names, None
<1> HIDE DEF m, c, a, d
<1>8. ChildShape(c)
  BY <1>2, <1>5, <1>7 DEF ChildShape
<1>9. Negotiated(parent, c)
  BY <1>2, <1>5, <1>7, Fewer
<1>10. CASE ok = FALSE
  <2>1. d = OfferFailed(c)
    BY <1>3, <1>10
  <2>2. ChildShape(d) /\ Negotiated(parent, d)
    BY <1>8, <1>9, <2>1, OfferFailedKept, NegotiationKept
  <2> QED BY <1>1, <2>2, ChildKeeps DEF AcceptDescription, d
<1>11. CASE ok = TRUE
  <2>1. t = c \/ t = [c EXCEPT !.up = Append(@, a)]
    BY Zenon DEF Sent
  <2>2. d = [t EXCEPT !.answered = m.epoch, !.state = s, !.recovery = FALSE,
                      !.initial = s # "connected"]
    BY <1>3, <1>11
  <2> HIDE DEF t
  <2>3. /\ t.id = c.id /\ t.requests = c.requests /\ t.todo = c.todo /\ t.down = c.down
        /\ WholeChild(t) /\ (t.up = c.up \/ t.up = Append(c.up, a))
    BY <1>5, <2>1 DEF WholeChild
  <2>4. /\ d.id = c.id /\ d.state = s /\ d.requests = c.requests /\ d.todo = NoOffer
        /\ d.down = c.down /\ WholeChild(d) /\ (d.up = c.up \/ d.up = Append(c.up, a))
    BY <1>5, <2>2, <2>3 DEF WholeChild
  <2>5. c.up \in Seq(Descriptions)
    BY <1>8 DEF ChildShape
  <2>6. /\ d.up \in Seq(Descriptions)
        /\ \A n : Has(d.up, n) => Has(c.up, n) \/ About(m, n)
        /\ \A n, e : Once(c.up, n, e) /\ ~About(m, n) => Once(d.up, n, e)
        /\ \A n, e : ~Has(c.up, n) /\ m.epoch = e => Once(d.up, n, e)
    <3>1. CASE d.up = c.up
      BY <2>5, <3>1, Absent
    <3>2. CASE d.up = Append(c.up, a)
      BY <1>6, <2>5, <3>2, Joining
    <3> QED BY <2>4, <3>1, <3>2
  <2>7. ChildShape(d)
    BY <1>4, <1>8, <1>7, <2>4, <2>6 DEF ChildShape
  <2>8. \A n : Calm(parent, child, n) => Calm(parent, d, n)
    BY <1>5, <1>7, <2>4, <2>6 DEF Calm, m
  <2>9. \A n, e : Alone(parent, child, n, e) => Alone(parent, d, n, e)
    <3> SUFFICES ASSUME NEW n, NEW e, Alone(parent, child, n, e) PROVE Alone(parent, d, n, e)
      OBVIOUS
    <3>1. CASE About(m, n)
      BY <1>5, <1>7, <2>4, <2>6, <3>1 DEF Alone, OneOf, m
    <3>2. CASE ~About(m, n)
      BY <1>5, <1>7, <2>4, <2>6, <3>2 DEF Alone, OneOf, m
    <3> QED BY <3>1, <3>2
  <2>10. Negotiated(parent, d)
    BY <1>2, <2>8, <2>9 DEF Negotiated
  <2> QED BY <1>1, <2>7, <2>10, ChildKeeps DEF AcceptDescription, d
<1> QED BY <1>10, <1>11

LEMMA ChildAuthenticatedKeeps == ASSUME LinkInv, ChildAuthenticated PROVE LinkInv'
<1> DEFINE m == Head(child.down)
           r == ChildRest
<1>1. ChildShape(child) /\ Negotiated(parent, child) /\ child.down # <<>>
  BY DEF LinkInv, ChildAuthenticated, ChildReceived
<1>2. ChildShape(r) /\ Negotiated(parent, r) /\ m \in ForChild
  BY <1>1, ReadByChild DEF ChildRest
<1>3. child' \in {r, Requested(r, FALSE), Sent(r, RestartRequest(m.id, TRUE))}
  BY DEF ChildAuthenticated
<1>4. RestartRequest(m.id, TRUE) \in Notes /\ FALSE \in BOOLEAN
  BY <1>2 DEF RestartRequest, Notes, ForChild, Offers
<1> HIDE DEF m, r
<1>5. ChildKept(r, child')
  BY <1>2, <1>3, <1>4, Unchanged, RequestKept, NoteSent
<1>6. ChildShape(child') /\ Negotiated(parent, child')
  BY <1>2, <1>5, NegotiationKept
<1> QED BY <1>6, ChildKeeps DEF ChildAuthenticated, LinkInv

(* The three timers differ in the flag they clear.                         *)
LEMMA TimerKeeps ==
  ASSUME LinkInv, NEW d, child' \in {d, Attempted(d)}, WholeChild(d), d.id = child.id,
         d.state = child.state, d.requests = child.requests, d.todo = child.todo,
         d.down = child.down, d.up = child.up, UNCHANGED <<parent, edge>>,
         budget' \in 0..MaxTroubles
  PROVE  LinkInv'
<1>1. ChildShape(child) /\ Negotiated(parent, child)
      /\ child.state \in States /\ child.requests \in 0..MaxRequests
  BY DEF LinkInv, ChildShape
<1>2. ChildKept(child, d)
  BY <1>1, Unchanged, Adjusted
<1>3. ChildShape(d) /\ Negotiated(parent, d)
  BY <1>1, <1>2, NegotiationKept
<1>4. ChildShape(Attempted(d)) /\ Negotiated(parent, Attempted(d))
  BY <1>3, AttemptKept, NegotiationKept
<1> QED BY <1>3, <1>4, ChildKeeps

LEMMA TimersKeep ==
  ASSUME LinkInv, InitialTimerFires \/ DisconnectTimerFires \/ RecoveryTimerFires PROVE LinkInv'
<1>1. budget' \in 0..MaxTroubles /\ UNCHANGED <<parent, edge>>
  BY PeerLinkAssumption
     DEF InitialTimerFires, DisconnectTimerFires, RecoveryTimerFires, Elapses, LinkInv
<1>2. WholeChild(child)
  BY DEF LinkInv, ChildShape
<1>3. CASE InitialTimerFires
  <2> DEFINE d == [child EXCEPT !.initial = FALSE]
  <2>1. child' \in {d, Attempted(d)}
    BY <1>3 DEF InitialTimerFires
  <2>2. /\ d.id = child.id /\ d.state = child.state /\ d.requests = child.requests
        /\ d.todo = child.todo /\ d.down = child.down /\ d.up = child.up /\ WholeChild(d)
    BY <1>2 DEF WholeChild
  <2> HIDE DEF d
  <2> QED BY <1>1, <2>1, <2>2, TimerKeeps
<1>4. CASE DisconnectTimerFires
  <2> DEFINE d == [child EXCEPT !.drop = FALSE]
  <2>1. child' \in {d, Attempted(d)}
    BY <1>4 DEF DisconnectTimerFires
  <2>2. /\ d.id = child.id /\ d.state = child.state /\ d.requests = child.requests
        /\ d.todo = child.todo /\ d.down = child.down /\ d.up = child.up /\ WholeChild(d)
    BY <1>2 DEF WholeChild
  <2> HIDE DEF d
  <2> QED BY <1>1, <2>1, <2>2, TimerKeeps
<1>5. CASE RecoveryTimerFires
  <2> DEFINE d == [child EXCEPT !.recovery = FALSE]
  <2>1. child' \in {d, Attempted(d)}
    BY <1>5 DEF RecoveryTimerFires
  <2>2. /\ d.id = child.id /\ d.state = child.state /\ d.requests = child.requests
        /\ d.todo = child.todo /\ d.down = child.down /\ d.up = child.up /\ WholeChild(d)
    BY <1>2 DEF WholeChild
  <2> HIDE DEF d
  <2> QED BY <1>1, <2>1, <2>2, TimerKeeps
<1> QED BY <1>3, <1>4, <1>5

LEMMA RetryConnectionKeeps == ASSUME LinkInv, RetryConnection PROVE LinkInv'
<1>1. ChildShape(child) /\ Negotiated(parent, child) /\ TRUE \in BOOLEAN
  BY DEF LinkInv
<1>2. ChildShape(child') /\ Negotiated(parent, child')
  BY <1>1, RequestKept, NegotiationKept DEF RetryConnection
<1>3. budget' \in 0..MaxTroubles
  BY PeerLinkAssumption DEF RetryConnection, LinkInv
<1> QED BY <1>2, <1>3, ChildKeeps DEF RetryConnection

-----------------------------------------------------------------------------
(* Transport, server and sockets                                           *)

LEMMA ParentConnectionKeeps ==
  ASSUME LinkInv, NEW s \in {"connected", "failed", "disconnected"}, ParentConnection(s),
         budget' \in 0..MaxTroubles
  PROVE  LinkInv'
<1> DEFINE d == [parent EXCEPT !.state = s]
<1>1. ParentShape(parent) /\ Negotiated(parent, child) /\ parent.want \in BOOLEAN
      /\ parent.online \in BOOLEAN /\ parent.id # None /\ s \in States
  BY DEF LinkInv, ParentShape, ParentConnection, States
<1>2. /\ d.id = parent.id /\ d.dead = parent.dead /\ d.state = s
      /\ d.epoch = parent.epoch /\ d.awaiting = parent.awaiting /\ d.applied = parent.applied
      /\ d.want = parent.want /\ d.online = parent.online
      /\ d.up = parent.up /\ d.down = parent.down /\ WholeParent(d)
  BY <1>1 DEF ParentShape, WholeParent
<1>3. parent' = d \/ parent' = Failed(parent)
  BY Zenon DEF ParentConnection
<1> HIDE DEF d
<1>4. ParentShape(d) /\ Negotiated(d, child)
  BY <1>1, <1>2, ChildTouched
<1>5. ParentShape(parent') /\ Negotiated(parent', child)
  BY <1>1, <1>3, <1>4, FailedKeeps
<1> QED BY <1>5, ParentKeeps DEF ParentConnection

LEMMA ChildConnectionKeeps ==
  ASSUME LinkInv, NEW s \in {"connected", "failed", "disconnected"}, ChildConnection(s),
         budget' \in 0..MaxTroubles
  PROVE  LinkInv'
<1>1. ChildShape(child) /\ Negotiated(parent, child)
  BY DEF LinkInv
<1>2. ChildShape(child') /\ Negotiated(parent, child')
  BY <1>1, StateKept, NegotiationKept DEF ChildConnection
<1> QED BY <1>2, ChildKeeps DEF ChildConnection

LEMMA TransportKeeps ==
  ASSUME LinkInv, ParentSettles \/ ParentDrops \/ ChildSettles \/ ChildDrops PROVE LinkInv'
<1>1. budget' \in 0..MaxTroubles
  BY PeerLinkAssumption DEF ParentSettles, ParentDrops, ChildSettles, ChildDrops, Breaks, LinkInv
<1>2. \E s \in {"connected", "failed", "disconnected"} : ParentConnection(s) \/ ChildConnection(s)
  BY DEF ParentSettles, ParentDrops, ChildSettles, ChildDrops
<1> QED BY <1>1, <1>2, ParentConnectionKeeps, ChildConnectionKeeps

\* Taking a message from the queue to the server.
LEMMA TakenFromParent ==
  ASSUME LinkInv, parent.up # <<>>
  PROVE  LET d == [parent EXCEPT !.up = Tail(@)] IN
         /\ ParentShape(d) /\ Negotiated(d, child) /\ Head(parent.up) \in Descriptions
         /\ d.id = parent.id /\ d.dead = parent.dead /\ d.epoch = parent.epoch
         /\ d.awaiting = parent.awaiting /\ d.applied = parent.applied
         /\ d.down = parent.down /\ d.up = Tail(parent.up)
<1> DEFINE d == [parent EXCEPT !.up = Tail(@)]
<1>1. /\ d.id = parent.id /\ d.dead = parent.dead /\ d.state = parent.state
      /\ d.epoch = parent.epoch /\ d.awaiting = parent.awaiting /\ d.applied = parent.applied
      /\ d.want = parent.want /\ d.online = parent.online /\ d.change = parent.change
      /\ d.up = Tail(parent.up) /\ d.down = parent.down /\ WholeParent(d)
  BY DEF LinkInv, ParentShape, WholeParent
<1>2. ParentShape(parent) /\ Negotiated(parent, child) /\ parent.up \in Seq(Descriptions)
  BY DEF LinkInv, ParentShape
<1> HIDE DEF d
<1>3. /\ d.up \in Seq(Descriptions) /\ Head(parent.up) \in Descriptions
      /\ \A n : Has(d.up, n) => Has(parent.up, n)
      /\ \A n, e : Once(parent.up, n, e) => Once(d.up, n, e)
  BY <1>1, <1>2, Leaving
<1>4. ParentShape(d)
  BY <1>1, <1>2, <1>3 DEF ParentShape
<1>5. Negotiated(d, child)
  BY <1>1, <1>2, <1>3, Fewer
<1> QED BY <1>1, <1>3, <1>4, <1>5 DEF d

LEMMA TakenFromChild ==
  ASSUME LinkInv, child.up # <<>>
  PROVE  LET d == [child EXCEPT !.up = Tail(@)] IN
         /\ ChildShape(d) /\ Negotiated(parent, d) /\ Head(child.up) \in Descriptions
         /\ d.down = child.down /\ d.todo = child.todo /\ d.up = Tail(child.up)
<1> DEFINE d == [child EXCEPT !.up = Tail(@)]
<1>1. /\ d.id = child.id /\ d.state = child.state /\ d.requests = child.requests
      /\ d.todo = child.todo /\ d.down = child.down /\ d.up = Tail(child.up) /\ WholeChild(d)
  BY DEF LinkInv, ChildShape, WholeChild
<1>2. ChildShape(child) /\ Negotiated(parent, child) /\ child.up \in Seq(Descriptions)
  BY DEF LinkInv, ChildShape
<1> HIDE DEF d
<1>3. /\ d.up \in Seq(Descriptions) /\ Head(child.up) \in Descriptions
      /\ \A n : Has(d.up, n) => Has(child.up, n)
      /\ \A n, e : Once(child.up, n, e) => Once(d.up, n, e)
  BY <1>1, <1>2, Leaving
<1>4. ChildShape(d)
  BY <1>1, <1>2, <1>3 DEF ChildShape
<1>5. Negotiated(parent, d)
  BY <1>1, <1>2, <1>3, Fewer
<1> QED BY <1>1, <1>3, <1>4, <1>5 DEF d

LEMMA Routed ==
  ASSUME LinkInv, ParentShape(parent'), ChildShape(child'), Negotiated(parent', child'),
         edge' = [x \in {"conn", "usable", "unheard"} |-> edge'[x]], edge'.conn \in Names,
         budget' \in 0..MaxTroubles
  PROVE  LinkInv'
BY DEF LinkInv, ParentShape, ChildShape, WholeParent, WholeChild, Negotiated, Calm, Alone, OneOf

(* The offer leaves one queue when it enters the next.                     *)
LEMMA RouteOfferKeeps == ASSUME LinkInv, RouteOffer PROVE LinkInv'
<1> DEFINE m == Head(parent.up)
           p == [parent EXCEPT !.up = Tail(@)]
           c == [child EXCEPT !.down = Append(@, m)]
<1>1. parent.up # <<>> /\ m.kind = "offer" /\ parent' = p /\ budget' = budget
  BY DEF RouteOffer
<1>2. \/ child' = child /\ edge' = edge
      \/ child' = c /\ edge' = [edge EXCEPT !.conn = m.id]
  BY DEF RouteOffer
<1>3. /\ ParentShape(p) /\ Negotiated(p, child) /\ m \in Descriptions
      /\ p.id = parent.id /\ p.dead = parent.dead /\ p.epoch = parent.epoch
      /\ p.awaiting = parent.awaiting /\ p.applied = parent.applied
      /\ p.down = parent.down /\ p.up = Tail(parent.up)
  BY <1>1, TakenFromParent
<1>4. m \in Offers /\ m \in ForChild /\ m.id \in Names
  BY <1>1, <1>3 DEF Descriptions, Notes, Offers, ForChild
<1>5. ChildShape(child) /\ Negotiated(parent, child) /\ parent.up \in Seq(Descriptions)
      /\ child.down \in Seq(Descriptions) /\ child.down \in Seq(ForChild)
  BY DEF LinkInv, ParentShape, ChildShape
<1>6. /\ c.id = child.id /\ c.state = child.state /\ c.requests = child.requests
      /\ c.todo = child.todo /\ c.up = child.up /\ c.down = Append(child.down, m) /\ WholeChild(c)
  BY <1>5 DEF ChildShape, WholeChild
<1>7. m = Head(parent.up)
  OBVIOUS
<1>8. /\ edge = [x \in {"conn", "usable", "unheard"} |-> edge[x]] /\ edge.conn \in Names
      /\ budget \in 0..MaxTroubles
  BY DEF LinkInv
<1> HIDE DEF m, p, c
<1>9. CASE child' = child /\ edge' = edge
  BY <1>1, <1>3, <1>5, <1>8, <1>9, Routed
<1>10. CASE child' = c /\ edge' = [edge EXCEPT !.conn = m.id]
  <2>1. c.down \in Seq(ForChild)
    BY <1>4, <1>5, <1>6
  <2>2. /\ c.down \in Seq(Descriptions)
        /\ \A n : Has(c.down, n) => Has(child.down, n) \/ About(m, n)
        /\ \A n, e : Once(child.down, n, e) /\ ~About(m, n) => Once(c.down, n, e)
        /\ \A n, e : ~Has(child.down, n) /\ m.epoch = e => Once(c.down, n, e)
    BY <1>3, <1>5, <1>6, Joining
  <2>3. /\ \A n : Has(p.up, n) => Has(parent.up, n)
        /\ \A n : About(m, n) => Has(parent.up, n)
        /\ \A n, e : Once(parent.up, n, e) => Once(p.up, n, e)
        /\ \A n, e : Once(parent.up, n, e) /\ About(m, n) => m.epoch = e /\ ~Has(p.up, n)
    <3>1. /\ \A n : Has(Tail(parent.up), n) => Has(parent.up, n)
          /\ \A n : About(Head(parent.up), n) => Has(parent.up, n)
          /\ \A n, e : Once(parent.up, n, e) => Once(Tail(parent.up), n, e)
          /\ \A n, e : Once(parent.up, n, e) /\ About(Head(parent.up), n)
                         => Head(parent.up).epoch = e /\ ~Has(Tail(parent.up), n)
      BY <1>1, <1>5, Leaving
    <3> QED BY <1>3, <1>7, <3>1
  <2>4. ChildShape(c)
    BY <1>5, <1>6, <2>1, <2>2 DEF ChildShape
  <2>5. \A n : Calm(parent, child, n) => Calm(p, c, n)
    BY <1>3, <1>6, <2>2, <2>3 DEF Calm
  <2>6. \A n, e : Alone(parent, child, n, e) => Alone(p, c, n, e)
    <3> SUFFICES ASSUME NEW n, NEW e, Alone(parent, child, n, e) PROVE Alone(p, c, n, e)
      OBVIOUS
    <3>1. CASE About(m, n)
      BY <1>3, <1>6, <2>2, <2>3, <3>1 DEF Alone, OneOf
    <3>2. CASE ~About(m, n)
      BY <1>3, <1>6, <2>2, <2>3, <3>2 DEF Alone, OneOf
    <3> QED BY <3>1, <3>2
  <2>7. Negotiated(p, c)
    BY <1>3, <1>5, <2>5, <2>6 DEF Negotiated
  <2>8. edge' = [x \in {"conn", "usable", "unheard"} |-> edge'[x]] /\ edge'.conn \in Names
    BY <1>4, <1>8, <1>10
  <2> QED BY <1>1, <1>3, <1>8, <1>10, <2>4, <2>7, <2>8, Routed
<1> QED BY <1>2, <1>9, <1>10

LEMMA RouteToParentKeeps == ASSUME LinkInv, RouteToParent PROVE LinkInv'
<1> DEFINE m == Head(child.up)
           c == [child EXCEPT !.up = Tail(@)]
           p == [parent EXCEPT !.down = Append(@, m)]
<1>1. child.up # <<>> /\ child' = c /\ budget' = budget /\ edge' = edge
      /\ (parent' = p \/ parent' = parent)
  BY DEF RouteToParent
<1>2. /\ ChildShape(c) /\ Negotiated(parent, c) /\ m \in Descriptions
      /\ c.down = child.down /\ c.todo = child.todo /\ c.up = Tail(child.up)
  BY <1>1, TakenFromChild
<1>3. ParentShape(parent) /\ Negotiated(parent, child) /\ child.up \in Seq(Descriptions)
      /\ parent.down \in Seq(Descriptions)
  BY DEF LinkInv, ParentShape, ChildShape
<1>4. /\ p.id = parent.id /\ p.dead = parent.dead /\ p.state = parent.state
      /\ p.epoch = parent.epoch /\ p.awaiting = parent.awaiting /\ p.applied = parent.applied
      /\ p.want = parent.want /\ p.online = parent.online /\ p.change = parent.change
      /\ p.up = parent.up /\ p.down = Append(parent.down, m) /\ WholeParent(p)
  BY <1>3 DEF ParentShape, WholeParent
<1>5. m = Head(child.up)
  OBVIOUS
<1>6. /\ edge = [x \in {"conn", "usable", "unheard"} |-> edge[x]] /\ edge.conn \in Names
      /\ budget \in 0..MaxTroubles
  BY DEF LinkInv
<1> HIDE DEF m, p, c
<1>7. CASE parent' = parent
  BY <1>1, <1>2, <1>3, <1>6, <1>7, Routed
<1>8. CASE parent' = p
  <2>1. /\ p.down \in Seq(Descriptions)
        /\ \A n : Has(p.down, n) => Has(parent.down, n) \/ About(m, n)
        /\ \A n, e : Once(parent.down, n, e) /\ ~About(m, n) => Once(p.down, n, e)
        /\ \A n, e : ~Has(parent.down, n) /\ m.epoch = e => Once(p.down, n, e)
    BY <1>2, <1>3, <1>4, Joining
  <2>2. /\ \A n : Has(c.up, n) => Has(child.up, n)
        /\ \A n : About(m, n) => Has(child.up, n)
        /\ \A n, e : Once(child.up, n, e) => Once(c.up, n, e)
        /\ \A n, e : Once(child.up, n, e) /\ About(m, n) => m.epoch = e /\ ~Has(c.up, n)
    <3>1. /\ \A n : Has(Tail(child.up), n) => Has(child.up, n)
          /\ \A n : About(Head(child.up), n) => Has(child.up, n)
          /\ \A n, e : Once(child.up, n, e) => Once(Tail(child.up), n, e)
          /\ \A n, e : Once(child.up, n, e) /\ About(Head(child.up), n)
                         => Head(child.up).epoch = e /\ ~Has(Tail(child.up), n)
      BY <1>1, <1>3, Leaving
    <3> QED BY <1>2, <1>5, <3>1
  <2>3. ParentShape(p)
    BY <1>3, <1>4, <2>1 DEF ParentShape
  <2>4. \A n : Calm(parent, child, n) => Calm(p, c, n)
    BY <1>2, <1>4, <2>1, <2>2 DEF Calm
  <2>5. \A n, e : Alone(parent, child, n, e) => Alone(p, c, n, e)
    <3> SUFFICES ASSUME NEW n, NEW e, Alone(parent, child, n, e) PROVE Alone(p, c, n, e)
      OBVIOUS
    <3>1. CASE About(m, n)
      BY <1>2, <1>4, <2>1, <2>2, <3>1 DEF Alone, OneOf
    <3>2. CASE ~About(m, n)
      BY <1>2, <1>4, <2>1, <2>2, <3>2 DEF Alone, OneOf
    <3> QED BY <3>1, <3>2
  <2>6. Negotiated(p, c)
    BY <1>3, <1>4, <2>4, <2>5 DEF Negotiated
  <2> QED BY <1>1, <1>2, <1>6, <1>8, <2>3, <2>6, Routed
<1> QED BY <1>1, <1>7, <1>8

LEMMA ReportsKeep == ASSUME LinkInv, ChildReports \/ ParentReports PROVE LinkInv'
<1>1. edge' = [x \in {"conn", "usable", "unheard"} |-> edge'[x]] /\ edge'.conn \in Names
  BY DEF ChildReports, ParentReports, FailedReported, LinkInv
<1>2. budget' \in 0..MaxTroubles /\ ParentShape(parent) /\ ChildShape(child)
  BY DEF ChildReports, ParentReports, LinkInv
<1>3. CASE ChildReports
  <2>1. child.up # <<>> /\ child' = [child EXCEPT !.up = Tail(@)] /\ parent' = parent
    BY <1>3 DEF ChildReports
  <2>2. ChildShape(child') /\ Negotiated(parent', child') /\ ParentShape(parent')
    BY <1>2, <2>1, TakenFromChild
  <2> QED BY <1>1, <1>2, <2>2, Routed
<1>4. CASE ParentReports
  <2>1. parent.up # <<>> /\ parent' = [parent EXCEPT !.up = Tail(@)] /\ child' = child
    BY <1>4 DEF ParentReports
  <2>2. ParentShape(parent') /\ Negotiated(parent', child') /\ ChildShape(child')
    BY <1>2, <2>1, TakenFromParent
  <2> QED BY <1>1, <1>2, <2>2, Routed
<1> QED BY <1>3, <1>4

(* A lost socket takes what is under way with it.                          *)
LEMMA ParentSocketKeeps ==
  ASSUME LinkInv, NEW online \in BOOLEAN, NEW up, NEW down, up = <<>>,
         down = <<>> \/ down = <<Authenticated(None)>>,
         NEW d, WholeParent(d), d.id = parent.id, d.dead = parent.dead, d.state = parent.state,
         d.epoch = parent.epoch, d.awaiting = parent.awaiting, d.applied = parent.applied,
         d.want = parent.want, d.change = parent.change, d.online = online,
         d.up = up \/ d.up = parent.up, d.down = down
  PROVE  ParentShape(d) /\ Negotiated(d, child)
<1>1. Authenticated(None) \in Notes
  BY DEF Authenticated, Notes
<1>2. down \in Seq(Descriptions) /\ \A n, e : ~Has(down, n) /\ Once(down, n, e)
  <2> DEFINE a == Authenticated(None)
  <2>1. a \in Descriptions /\ \A n : ~About(a, n)
    BY <1>1, NotesAreNoOffers
  <2> HIDE DEF a
  <2>3. <<a>> \in Seq(Descriptions) /\ \A n, e : ~Has(<<a>>, n) /\ Once(<<a>>, n, e)
    BY <2>1, Single
  <2> QED BY <2>3, Nothing DEF a
<1>3. parent.up \in Seq(Descriptions) /\ ParentShape(parent) /\ Negotiated(parent, child)
  BY DEF LinkInv, ParentShape
<1>4. /\ d.up \in Seq(Descriptions) /\ \A n : Has(d.up, n) => Has(parent.up, n)
      /\ \A n, e : Once(parent.up, n, e) => Once(d.up, n, e)
  BY <1>3, Nothing
<1>5. ParentShape(d)
  BY <1>2, <1>3, <1>4 DEF ParentShape
<1>6. Negotiated(d, child)
  BY <1>2, <1>3, <1>4, Fewer
<1> QED BY <1>5, <1>6

LEMMA ChildSocketKeeps ==
  ASSUME LinkInv, NEW down, down = <<>> \/ down = <<Authenticated(edge.conn)>>,
         NEW d, WholeChild(d), d.id = child.id, d.state = child.state, d.requests = child.requests,
         d.todo = child.todo, d.up = <<>> \/ d.up = child.up, d.down = down
  PROVE  ChildShape(d) /\ Negotiated(parent, d)
<1>1. Authenticated(edge.conn) \in Notes /\ Authenticated(edge.conn) \in ForChild
  BY DEF Authenticated, Notes, ForChild, LinkInv
<1>2. /\ down \in Seq(Descriptions) /\ down \in Seq(ForChild)
      /\ \A n, e : ~Has(down, n) /\ Once(down, n, e)
  <2> DEFINE a == Authenticated(edge.conn)
  <2>1. a \in Descriptions /\ a \in ForChild /\ \A n : ~About(a, n)
    BY <1>1, NotesAreNoOffers
  <2> HIDE DEF a
  <2>2. <<a>> \in Seq(ForChild) /\ <<>> \in Seq(ForChild)
    BY <2>1
  <2>3. <<a>> \in Seq(Descriptions) /\ \A n, e : ~Has(<<a>>, n) /\ Once(<<a>>, n, e)
    BY <2>1, Single
  <2> QED BY <2>2, <2>3, Nothing DEF a
<1>3. child.up \in Seq(Descriptions) /\ ChildShape(child) /\ Negotiated(parent, child)
  BY DEF LinkInv, ChildShape
<1>4. /\ d.up \in Seq(Descriptions) /\ \A n : Has(d.up, n) => Has(child.up, n)
      /\ \A n, e : Once(child.up, n, e) => Once(d.up, n, e)
  BY <1>3, Nothing
<1>5. ChildShape(d)
  BY <1>2, <1>3, <1>4 DEF ChildShape
<1>6. Negotiated(parent, d)
  BY <1>2, <1>3, <1>4, Fewer
<1> QED BY <1>5, <1>6

LEMMA SocketsKeep ==
  ASSUME LinkInv, LoseSocket \/ ParentReconnects \/ ChildReconnects PROVE LinkInv'
<1>1. edge' = [x \in {"conn", "usable", "unheard"} |-> edge'[x]] /\ edge'.conn \in Names
  BY DEF LoseSocket, ParentReconnects, ChildReconnects, LinkInv
<1>2. budget' \in 0..MaxTroubles
  BY PeerLinkAssumption DEF LoseSocket, ParentReconnects, ChildReconnects, LinkInv
<1>3. ParentShape(parent) /\ ChildShape(child) /\ WholeParent(parent) /\ WholeChild(child)
  BY DEF LinkInv, ParentShape, ChildShape
<1>4. CASE child' = child /\ \/ parent' = [parent EXCEPT !.online = FALSE, !.up = <<>>, !.down = <<>>]
                             \/ parent' = [parent EXCEPT !.online = TRUE,
                                                  !.down = <<Authenticated(None)>>]
  <2> DEFINE d == parent'
  <2>1. /\ d.id = parent.id /\ d.dead = parent.dead /\ d.state = parent.state
        /\ d.epoch = parent.epoch /\ d.awaiting = parent.awaiting /\ d.applied = parent.applied
        /\ d.want = parent.want /\ d.change = parent.change /\ WholeParent(d)
        /\ (d.online = TRUE \/ d.online = FALSE) /\ (d.up = <<>> \/ d.up = parent.up)
        /\ (d.down = <<>> \/ d.down = <<Authenticated(None)>>)
    BY <1>3, <1>4 DEF WholeParent
  <2> HIDE DEF d
  <2>2. ParentShape(d) /\ Negotiated(d, child)
    BY <2>1, ParentSocketKeeps
  <2> QED BY <1>1, <1>2, <1>3, <1>4, <2>2, Routed DEF d
<1>5. CASE parent' = parent /\ \/ child' = [child EXCEPT !.online = FALSE, !.up = <<>>, !.down = <<>>]
                               \/ child' = [child EXCEPT !.online = TRUE,
                                                         !.down = <<Authenticated(edge.conn)>>]
  <2> DEFINE d == child'
  <2>1. /\ d.id = child.id /\ d.state = child.state /\ d.requests = child.requests
        /\ d.todo = child.todo /\ WholeChild(d) /\ (d.up = <<>> \/ d.up = child.up)
        /\ (d.down = <<>> \/ d.down = <<Authenticated(edge.conn)>>)
    BY <1>3, <1>5 DEF WholeChild
  <2> HIDE DEF d
  <2>2. ChildShape(d) /\ Negotiated(parent, d)
    BY <2>1, ChildSocketKeeps
  <2> QED BY <1>1, <1>2, <1>3, <1>5, <2>2, Routed DEF d
<1> QED BY <1>4, <1>5 DEF LoseSocket, ParentReconnects, ChildReconnects

-----------------------------------------------------------------------------
LEMMA InitKeeps == Init => LinkInv
<1> SUFFICES ASSUME Init PROVE LinkInv
  OBVIOUS
<1>1. /\ WholeParent(parent) /\ parent.id = 1 /\ parent.state = "connected" /\ parent.epoch = 1
      /\ parent.awaiting = 0 /\ parent.applied = 1 /\ parent.want \in BOOLEAN
      /\ parent.online \in BOOLEAN
      /\ parent.up = <<>> /\ parent.down = <<>>
  BY DEF Init, WholeParent
<1>2. /\ WholeChild(child) /\ child.id = 1 /\ child.state = "connected" /\ child.requests = 0
      /\ child.up = <<>> /\ child.down = <<>> /\ child.todo = NoOffer
  BY DEF Init, WholeChild
<1>3. edge = [x \in {"conn", "usable", "unheard"} |-> edge[x]] /\ edge.conn = 1
      /\ budget = MaxTroubles
  BY DEF Init
<1>4. 1 \in Names /\ 1 # None
  BY PeerLinkAssumption DEF Names, None
<1>5. NoOffer \notin Offers /\ \A n : ~About(NoOffer, n)
  BY DEF NoOffer, Offered, Offers, About, Names, None
<1>6. ParentShape(parent)
  BY <1>1, <1>4, Nothing DEF ParentShape, States
<1>7. ChildShape(child)
  BY <1>2, <1>4, <1>5, Nothing DEF ChildShape, States, MaxRequests
<1>8. Calm(parent, child, parent.id)
  BY <1>1, <1>2, <1>5, Nothing DEF Calm
<1>9. Negotiated(parent, child)
  BY <1>1, <1>8 DEF Negotiated
<1>10. budget \in 0..MaxTroubles
  BY <1>3, PeerLinkAssumption
<1> QED BY <1>3, <1>4, <1>6, <1>7, <1>9, <1>10 DEF LinkInv

LEMMA StepKeeps == LinkInv /\ [Next]_vars => LinkInv'
<1> SUFFICES ASSUME LinkInv, [Next]_vars PROVE LinkInv'
  OBVIOUS
<1>1. CASE UNCHANGED vars
  BY <1>1 DEF vars, LinkInv, ParentShape, ChildShape, WholeParent, WholeChild, Negotiated, Calm,
              Alone, OneOf
<1>2. CASE Next
  <2>1. Unnamed # {}
    BY <1>2 DEF Next, Running
  <2>2. CASE ParentStep
    BY <2>1, <2>2, ReceiveAnswerKeeps, ReceiveRestartRequestKeeps, ParentAuthenticatedKeeps
       DEF ParentStep
  <2>3. CASE Step /\ ~ParentStep
    BY <2>1, <2>3, AnswerTimerKeeps, RetryTimerKeeps, CreateOfferKeeps, AcceptDescriptionKeeps,
       ReceiveOfferKeeps, ChildAuthenticatedKeeps, TimersKeep, TransportKeeps, RouteOfferKeeps,
       RouteToParentKeeps, ReportsKeep, SocketsKeep DEF Step
  <2>4. CASE Environment
    BY <2>1, <2>4, ReplaceStreamKeeps, RetryConnectionKeeps, TransportKeeps, SocketsKeep
       DEF Environment
  <2> QED BY <1>2, <2>2, <2>3, <2>4 DEF Next
<1> QED BY <1>1, <1>2

(* NegotiationSafety: acceptAnswer never applies a description of the      *)
(* child to another offer than the one it answers, and the link stays      *)
(* well typed, for every number of names and troubles.                     *)
THEOREM LinkNegotiates == Spec => []NegotiationSafety
<1>1. LinkInv => NegotiationSafety
  BY DEF LinkInv, NegotiationSafety, TypeOK, AnswerMatches, Negotiated, ParentShape, ChildShape
<1> QED BY <1>1, InitKeeps, StepKeeps, PTL DEF Spec

-----------------------------------------------------------------------------
(***************************************************************************)
(* The viewer's route, for any parents and publications and every bound.   *)
(***************************************************************************)

(* The page: a slot in use is open until it fails; a pending subscriber    *)
(* and a peer candidate exclude each other, and so do an active subscriber *)
(* and a watched peer; a subscriber is newer than the one it replaces, and *)
(* no newer than what was committed when it became active.                 *)
PendingOK(p, a, r, cand, probe) ==
    p # NoSlot =>
       /\ p.pub \in Publications /\ ~p.failed /\ p.conn # 0
       /\ a.conn < p.conn /\ p.conn <= p.rev /\ p.rev <= r.rev
       /\ p.tok # 0 => p.conn <= p.tok /\ p.tok <= r.tok
       /\ cand = NoCandidate /\ probe = NoProbe

ActiveOK(a, r, watched, from) ==
    a # NoSlot =>
       /\ a.pub \in Publications /\ a.conn # 0 /\ a.conn <= r.tok
       /\ r.media \in Publications
       /\ watched = NoPeer /\ from = NoUp

OpenOf(p, a) ==
    (IF p # NoSlot THEN {p.conn} ELSE {})
    \cup (IF a # NoSlot /\ ~a.failed THEN {a.conn} ELSE {})

(* A subscription that is being prepared excludes a peer candidate before   *)
(* its subscriber opens.                                                   *)
PreparedOK(r, cand, probe) ==
    r.phase = "prepare" /\ r.own /\ r.plan \in Publications =>
        cand = NoCandidate /\ probe = NoProbe

RouteOK(r) == r.tok <= r.rev /\ (r.phase = "prepare" => r.tok < r.rev)

Kept(c) ==
    /\ PendingOK(c.pending, c.active, c.route, c.pendingPeer, c.probe)
    /\ ActiveOK(c.active, c.route, c.peer, c.parent)
    /\ c.open = OpenOf(c.pending, c.active)
    /\ RouteOK(c.route)
    /\ PreparedOK(c.route, c.pendingPeer, c.probe)

Plans == [rev : Revisions, up : Upstreams, own : BOOLEAN]

Servers ==
    [rev : Revisions, last : Revisions, up : Upstreams, conn : Revisions, plan : Plans,
     told : BOOLEAN, paused : BOOLEAN, offers : SUBSET Revisions]

Messages ==
    [t : {"auth", "rejoin", "prepare", "active", "config", "signal", "status", "stop"},
     rev : Revisions, up : Upstreams, conn : Revisions, own : BOOLEAN]

RouteTyped ==
    /\ client \in Page /\ server \in Servers /\ inbox \in Seq(Messages)

(* The server's numbers: a plan is newer than the route, and its end has a *)
(* revision left; what a candidate waits for is an offer of a peer.        *)
Numbered(s) ==
    /\ s.conn <= s.rev /\ s.rev <= s.last
    /\ s.plan # NoPlan => s.rev < s.plan.rev /\ s.plan.rev <= s.last /\ s.last < MaxRevision
    /\ \A n \in s.offers : n <= s.last
    /\ s.plan.own /\ s.plan.rev \in s.offers => s.plan.up \in Peers

InFlight(q) == {q[i] : i \in DOMAIN q}

(* Revisions in which this viewer's own route is prepared, as far as       *)
(* anybody still knows.                                                    *)
OwnPlan(s, M, c, r) ==
    \/ s.plan.own /\ s.plan.rev = r
    \/ \E m \in M : m.t = "prepare" /\ m.own /\ m.rev = r
    \/ c.route.phase = "prepare" /\ c.route.own /\ c.route.rev = r

(* A configuration of such a revision describes the connection that it     *)
(* prepared.                                                               *)
Described(s, M, c) ==
    /\ c.route.rev <= s.last
    /\ \A m \in M :
          /\ m.rev <= s.last
          /\ m.t = "config" => m.up \in Publications
          /\ m.t = "config" /\ OwnPlan(s, M, c, m.rev) => m.conn = m.rev
          /\ m.t = "signal" => m.up \in Peers
    /\ OwnPlan(s, M, c, s.rev) => s.conn = s.rev
    /\ s.plan # NoPlan /\ ~s.plan.own => ~OwnPlan(s, M, c, s.plan.rev)

RouteInv ==
    /\ RouteTyped
    /\ Kept(client) /\ Numbered(server) /\ Described(server, InFlight(inbox), client)

LEMMA SlotFacts ==
  /\ NoSlot \in Slots /\ NoSlot.conn = 0 /\ NoSlot.pub = NoUp /\ NoSlot.pub \notin Publications
  /\ NoSlot.rev = 0 /\ NoSlot.tok = 0 /\ NoSlot.link = "new" /\ ~NoSlot.video
  /\ ~NoSlot.armed /\ ~NoSlot.failed /\ 0 \in Revisions /\ NoUp \in Upstreams
  /\ \A n \in Revisions : n \in Nat
  /\ Publications \subseteq Upstreams /\ Peers \subseteq Upstreams
  /\ Peers \cap Publications = {} /\ NoUp \notin Peers /\ NoUp \notin Publications
BY ViewerRouteAssumption DEF NoSlot, Slots, Revisions, Upstreams

LEMMA SlotTypes ==
  ASSUME NEW s \in Slots
  PROVE  /\ s.conn \in Revisions /\ s.rev \in Revisions /\ s.tok \in Revisions
         /\ s.conn \in Nat /\ s.rev \in Nat /\ s.tok \in Nat
         /\ s.pub \in Upstreams /\ s.link \in {"new", "on", "off"} /\ s.video \in BOOLEAN
         /\ s.decoded \in BOOLEAN /\ s.ready \in BOOLEAN /\ s.armed \in BOOLEAN
         /\ s.failed \in BOOLEAN
BY SlotFacts DEF Slots

Routes == [rev : Revisions, phase : {"none", "prepare", "active"}, plan : Upstreams,
           own : BOOLEAN, act : Upstreams, tok : Revisions,
           media : Upstreams \cup {"unset"}]
Candidates == [rev : Revisions, tok : Revisions]
Probes == [rev : Revisions, parent : Upstreams, st : {"none", "new", "on", "off"},
           decoded : BOOLEAN, ready : BOOLEAN]
Watched == [parent : Upstreams, conn : Revisions, st : {"none", "new", "on", "off", "dead"}]
Kinds == {"ready", "failed", "lost", "refresh", "restart"}
Reports == [t : Kinds, rev : Revisions, conn : Revisions]

LEMMA PageIs ==
  Page = [route : Routes, pendingPeer : Candidates, pending : Slots, active : Slots,
          open : SUBSET Revisions, probe : Probes, peer : Watched, parent : Upstreams,
          paused : BOOLEAN, abandoned : Revisions, link : BOOLEAN, sent : Seq(Reports)]
BY DEF Page, Routes, Candidates, Probes, Watched, Reports, Kinds

LEMMA PageTypes ==
  ASSUME NEW c \in Page
  PROVE  /\ c.route \in Routes /\ c.pendingPeer \in Candidates
         /\ c.pending \in Slots /\ c.active \in Slots /\ c.open \in SUBSET Revisions
         /\ c.probe \in Probes /\ c.peer \in Watched /\ c.parent \in Upstreams
         /\ c.paused \in BOOLEAN /\ c.abandoned \in Revisions /\ c.link \in BOOLEAN
         /\ c.sent \in Seq(Reports)
BY PageIs

LEMMA RouteTypes ==
  ASSUME NEW r \in Routes
  PROVE  /\ r.rev \in Revisions /\ r.tok \in Revisions /\ r.rev \in Nat /\ r.tok \in Nat
         /\ r.plan \in Upstreams /\ r.act \in Upstreams /\ r.own \in BOOLEAN
         /\ r.media \in Upstreams \cup {"unset"}
         /\ r.phase \in {"none", "prepare", "active"}
BY SlotFacts DEF Routes

LEMMA NothingTypes ==
  /\ NoCandidate \in Candidates /\ NoProbe \in Probes /\ NoPeer \in Watched
  /\ NoRoute \in Routes /\ NoRoute.media = "unset" /\ NoRoute.tok = 0 /\ NoRoute.rev = 0
  /\ NoRoute.phase = "none" /\ NoRoute.act = NoUp
  /\ NoProbe.st = "none" /\ NoPeer.st = "none" /\ ~NoProbe.ready
  /\ NoCandidate.tok = 0 /\ NoCandidate.rev = 0
BY SlotFacts DEF NoCandidate, NoProbe, NoPeer, NoRoute, Candidates, Probes, Watched, Routes

-----------------------------------------------------------------------------
(* What an operation of the page may do with the subscription in use.      *)

Fine(c) == c \in Page /\ Kept(c)

(* It is left alone, and so are the route's numbers.                       *)
Holds(c, d) ==
  /\ d.route.media = c.route.media
  /\ d.active = NoSlot <=> c.active = NoSlot
  /\ d.active.conn = c.active.conn /\ d.active.pub = c.active.pub
  /\ d.active.failed = c.active.failed /\ d.active.link = c.active.link

Settles(c, d) ==
  /\ d.route.rev = c.route.rev /\ d.route.phase = c.route.phase
  /\ d.route.plan = c.route.plan /\ d.route.own = c.route.own
  /\ d.route.act = c.route.act /\ d.route.tok = c.route.tok

Keeps(c, d) == Holds(c, d) /\ Settles(c, d)

(* It stays open, or ends for one of the reasons MediaSurvivesCandidates   *)
(* admits.                                                                 *)
Spares(c, d) ==
  \/ c.active = NoSlot \/ c.active.failed
  \/ c.active.conn \in d.open
  \/ d.active.failed \/ c.active.link = "off"
  \/ d.route.media # c.route.media
  \/ d.active.conn > c.active.conn
  \/ d.route.act # c.active.pub

LEMMA SettlesItself == \A c, d : d.route = c.route => Settles(c, d)
BY DEF Settles

LEMMA SettlesBoth ==
  ASSUME NEW c, NEW d, NEW e, Settles(c, d), Settles(d, e)
  PROVE  Settles(c, e)
BY DEF Settles

LEMMA KeepsItself == \A c : Keeps(c, c)
BY DEF Keeps, Holds, Settles

LEMMA KeepsBoth ==
  ASSUME NEW c, NEW d, NEW e, Keeps(c, d), Keeps(d, e)
  PROVE  Keeps(c, e)
BY DEF Keeps, Holds, Settles

LEMMA HoldsSpares ==
  ASSUME NEW c, NEW d, Fine(d), Holds(c, d)
  PROVE  Spares(c, d)
BY DEF Holds, Spares, Fine, Kept, OpenOf

LEMMA KeepsSpares ==
  ASSUME NEW c, NEW d, Fine(d), Keeps(c, d)
  PROVE  Spares(c, d) /\ Settles(c, d)
BY HoldsSpares DEF Keeps

LEMMA HoldsThen ==
  ASSUME NEW c, NEW d, NEW e, Holds(c, d), Spares(d, e)
  PROVE  Spares(c, e)
BY DEF Holds, Spares

LEMMA KeepsThen ==
  ASSUME NEW c, NEW d, NEW e, Keeps(c, d)
  PROVE  /\ Spares(d, e) => Spares(c, e)
         /\ Settles(d, e) => Settles(c, e)
BY HoldsThen, SettlesBoth DEF Keeps

(* A slot that is touched keeps its connection.                            *)
SameSlot(s, t) ==
  /\ t = NoSlot <=> s = NoSlot
  /\ t.conn = s.conn /\ t.pub = s.pub /\ t.failed = s.failed

(* What concerns neither the connections of the slots nor, while they are  *)
(* in use, what they exclude.                                              *)
LEMMA Touched ==
  ASSUME NEW c, Fine(c), NEW d \in Page,
         d.route = c.route, d.open = c.open,
         SameSlot(c.pending, d.pending), SameSlot(c.active, d.active),
         d.pending.rev = c.pending.rev, d.pending.tok = c.pending.tok,
         d.pendingPeer = c.pendingPeer, d.probe = c.probe,
         d.peer = c.peer, d.parent = c.parent
  PROVE  Fine(d)
<1>1. PendingOK(d.pending, d.active, d.route, d.pendingPeer, d.probe)
  BY DEF Fine, Kept, PendingOK, SameSlot
<1>2. ActiveOK(d.active, d.route, d.peer, d.parent)
  BY DEF Fine, Kept, ActiveOK, SameSlot
<1>3. d.open = OpenOf(d.pending, d.active)
  BY DEF Fine, Kept, OpenOf, SameSlot
<1>4. RouteOK(d.route) /\ PreparedOK(d.route, d.pendingPeer, d.probe)
  BY DEF Fine, Kept
<1> QED BY <1>1, <1>2, <1>3, <1>4 DEF Fine, Kept

LEMMA Aside ==
  ASSUME NEW c, Fine(c), NEW d \in Page,
         d.route = c.route, d.pending = c.pending, d.active = c.active, d.open = c.open,
         c.pending # NoSlot => d.pendingPeer = c.pendingPeer /\ d.probe = c.probe,
         c.active # NoSlot => d.peer = c.peer /\ d.parent = c.parent,
         c.route.phase = "prepare" => \/ d.pendingPeer = c.pendingPeer /\ d.probe = c.probe
                                      \/ d.pendingPeer = NoCandidate /\ d.probe = NoProbe
                                      \/ ~(c.route.own /\ c.route.plan \in Publications)
  PROVE  Fine(d) /\ Keeps(c, d)
<1>1. PendingOK(d.pending, d.active, d.route, d.pendingPeer, d.probe)
  BY DEF Fine, Kept, PendingOK
<1>2. ActiveOK(d.active, d.route, d.peer, d.parent)
  BY DEF Fine, Kept, ActiveOK
<1>3. d.open = OpenOf(d.pending, d.active) /\ RouteOK(d.route)
  BY DEF Fine, Kept
<1>4. PreparedOK(d.route, d.pendingPeer, d.probe)
  BY DEF Fine, Kept, PreparedOK
<1> QED BY <1>1, <1>2, <1>3, <1>4 DEF Fine, Kept, Keeps, Holds, Settles

(* While an update is applied its candidates may still have to go: all but *)
(* the exclusion of a subscription that is only now prepared.              *)
Nearly(c) ==
  /\ c \in Page
  /\ PendingOK(c.pending, c.active, c.route, c.pendingPeer, c.probe)
  /\ ActiveOK(c.active, c.route, c.peer, c.parent)
  /\ c.open = OpenOf(c.pending, c.active)
  /\ RouteOK(c.route)

LEMMA FineIsNearly ==
  ASSUME NEW c
  PROVE  Fine(c) <=> Nearly(c) /\ PreparedOK(c.route, c.pendingPeer, c.probe)
BY DEF Fine, Kept, Nearly

LEMMA NearlyAside ==
  ASSUME NEW c, Nearly(c), NEW d \in Page,
         d.route = c.route, d.pending = c.pending, d.active = c.active, d.open = c.open,
         c.pending # NoSlot => d.pendingPeer = NoCandidate /\ d.probe = NoProbe,
         d.peer = c.peer, d.parent = c.parent
  PROVE  Nearly(d) /\ Keeps(c, d)
<1>1. PendingOK(d.pending, d.active, d.route, d.pendingPeer, d.probe)
  BY DEF Nearly, PendingOK
<1>2. ActiveOK(d.active, d.route, d.peer, d.parent) /\ RouteOK(d.route)
  BY DEF Nearly
<1>3. d.open = OpenOf(d.pending, d.active)
  BY DEF Nearly
<1> QED BY <1>1, <1>2, <1>3 DEF Nearly, Keeps, Holds, Settles

LEMMA Said ==
  ASSUME NEW c \in Page, NEW t \in Kinds,
         NEW rev \in Revisions, NEW conn \in Revisions
  PROVE  /\ Say(c, t, rev, conn) \in Page
         /\ Say(c, t, rev, conn).route = c.route
         /\ Say(c, t, rev, conn).pending = c.pending
         /\ Say(c, t, rev, conn).active = c.active
         /\ Say(c, t, rev, conn).open = c.open
         /\ Say(c, t, rev, conn).pendingPeer = c.pendingPeer
         /\ Say(c, t, rev, conn).probe = c.probe
         /\ Say(c, t, rev, conn).peer = c.peer
         /\ Say(c, t, rev, conn).parent = c.parent
         /\ Say(c, t, rev, conn).paused = c.paused
         /\ Say(c, t, rev, conn).link = c.link
         /\ Say(c, t, rev, conn).abandoned = c.abandoned
<1> DEFINE m == [t |-> t, rev |-> rev, conn |-> conn]
<1>1. m \in Reports
  BY DEF Reports
<1>2. Append(c.sent, m) \in Seq(Reports)
  BY <1>1, PageIs
<1> HIDE DEF m
<1>3. Say(c, t, rev, conn) = IF c.link THEN [c EXCEPT !.sent = Append(c.sent, m)] ELSE c
  BY PageIs DEF Say, m
<1> QED BY <1>2, <1>3, PageIs

LEMMA SaidFine ==
  ASSUME NEW c, Fine(c), NEW t \in Kinds,
         NEW rev \in Revisions, NEW conn \in Revisions
  PROVE  /\ Fine(Say(c, t, rev, conn)) /\ Keeps(c, Say(c, t, rev, conn))
         /\ Say(c, t, rev, conn).route = c.route
         /\ Say(c, t, rev, conn).open = c.open
<1>1. c \in Page
  BY DEF Fine
<1> DEFINE d == Say(c, t, rev, conn)
<1>2. /\ d \in Page
      /\ d.route = c.route /\ d.pending = c.pending /\ d.active = c.active
      /\ d.open = c.open /\ d.pendingPeer = c.pendingPeer /\ d.probe = c.probe
      /\ d.peer = c.peer /\ d.parent = c.parent
  BY <1>1, Said
<1> HIDE DEF d
<1>3. Fine(d) /\ Keeps(c, d)
  BY <1>2, Aside
<1> QED BY <1>2, <1>3 DEF d


-----------------------------------------------------------------------------
(* The operators of the page, each with what it changes.                   *)

LEMMA ClearPendingIs ==
  ASSUME NEW c \in Page
  PROVE  /\ ClearPending(c) \in Page
         /\ ClearPending(c).pending = NoSlot /\ ClearPending(c).active = c.active
         /\ ClearPending(c).open = c.open \ {c.pending.conn}
         /\ ClearPending(c).route = c.route /\ ClearPending(c).pendingPeer = c.pendingPeer
         /\ ClearPending(c).probe = c.probe /\ ClearPending(c).peer = c.peer
         /\ ClearPending(c).parent = c.parent /\ ClearPending(c).paused = c.paused
BY PageIs, SlotFacts DEF ClearPending

LEMMA ClearPendingNearly ==
  ASSUME NEW c, Nearly(c)
  PROVE  Nearly(ClearPending(c)) /\ Keeps(c, ClearPending(c))
<1> DEFINE d == ClearPending(c)
<1>1. c \in Page
  BY DEF Nearly
<1>2. /\ d \in Page /\ d.pending = NoSlot /\ d.active = c.active
      /\ d.open = c.open \ {c.pending.conn} /\ d.route = c.route
      /\ d.pendingPeer = c.pendingPeer /\ d.probe = c.probe /\ d.peer = c.peer
      /\ d.parent = c.parent
  BY <1>1, ClearPendingIs
<1> HIDE DEF d
<1>3. c.active.conn \in Nat /\ c.pending.conn \in Nat
  BY <1>1, PageTypes, SlotTypes
<1>4. d.open = OpenOf(d.pending, d.active)
  BY <1>2, <1>3, SlotFacts DEF Nearly, OpenOf, PendingOK, ActiveOK
<1>5. PendingOK(d.pending, d.active, d.route, d.pendingPeer, d.probe)
  BY <1>2 DEF PendingOK
<1>6. ActiveOK(d.active, d.route, d.peer, d.parent) /\ RouteOK(d.route)
  BY <1>2 DEF Nearly
<1>7. Nearly(d) /\ Keeps(c, d)
  BY <1>2, <1>4, <1>5, <1>6 DEF Nearly, Keeps, Holds, Settles
<1> QED BY <1>7 DEF d

LEMMA ClearPendingFine ==
  ASSUME NEW c, Fine(c)
  PROVE  Fine(ClearPending(c)) /\ Keeps(c, ClearPending(c))
<1>1. Nearly(c) /\ PreparedOK(c.route, c.pendingPeer, c.probe) /\ c \in Page
  BY FineIsNearly DEF Nearly
<1>2. Nearly(ClearPending(c)) /\ Keeps(c, ClearPending(c))
  BY <1>1, ClearPendingNearly
<1>3. PreparedOK(ClearPending(c).route, ClearPending(c).pendingPeer, ClearPending(c).probe)
  BY <1>1, ClearPendingIs
<1> QED BY <1>2, <1>3, FineIsNearly

LEMMA RetireActiveIs ==
  ASSUME NEW c \in Page
  PROVE  /\ RetireActive(c) \in Page
         /\ RetireActive(c).active = NoSlot /\ RetireActive(c).pending = c.pending
         /\ RetireActive(c).open = c.open \ {c.active.conn}
         /\ RetireActive(c).route = c.route /\ RetireActive(c).pendingPeer = c.pendingPeer
         /\ RetireActive(c).probe = c.probe /\ RetireActive(c).peer = c.peer
         /\ RetireActive(c).parent = c.parent /\ RetireActive(c).paused = c.paused
BY PageIs, SlotFacts DEF RetireActive

LEMMA RetireActiveFine ==
  ASSUME NEW c, Fine(c)
  PROVE  Fine(RetireActive(c))
<1> DEFINE d == RetireActive(c)
<1>1. c \in Page
  BY DEF Fine
<1>2. /\ d \in Page /\ d.active = NoSlot /\ d.pending = c.pending
      /\ d.open = c.open \ {c.active.conn} /\ d.route = c.route
      /\ d.pendingPeer = c.pendingPeer /\ d.probe = c.probe
  BY <1>1, RetireActiveIs
<1> HIDE DEF d
<1>3. c.active.conn \in Nat /\ c.pending.conn \in Nat
  BY <1>1, PageTypes, SlotTypes
<1>4. d.open = OpenOf(d.pending, d.active)
  BY <1>2, <1>3, SlotFacts DEF Fine, Kept, OpenOf, PendingOK, ActiveOK
<1>5. PendingOK(d.pending, d.active, d.route, d.pendingPeer, d.probe)
  BY <1>2, <1>3, SlotFacts DEF Fine, Kept, PendingOK
<1>6. ActiveOK(d.active, d.route, d.peer, d.parent) /\ RouteOK(d.route)
      /\ PreparedOK(d.route, d.pendingPeer, d.probe)
  BY <1>2 DEF Fine, Kept, ActiveOK
<1>7. Fine(d)
  BY <1>2, <1>4, <1>5, <1>6 DEF Fine, Kept
<1> QED BY <1>7 DEF d

(* Giving up a candidate and dropping the peer candidate leave the slots.  *)
LEMMA GiveUpIs ==
  ASSUME NEW c \in Page
  PROVE  /\ GiveUp(c) \in Page
         /\ GiveUp(c).pending = c.pending /\ GiveUp(c).active = c.active
         /\ GiveUp(c).open = c.open /\ GiveUp(c).route = c.route
         /\ GiveUp(c).pendingPeer = c.pendingPeer /\ GiveUp(c).probe = c.probe
         /\ GiveUp(c).peer = c.peer /\ GiveUp(c).parent = c.parent
         /\ GiveUp(c).paused = c.paused
<1>1. c.pendingPeer.rev \in Revisions /\ c.pending.conn \in Revisions
  BY PageTypes, SlotTypes DEF Candidates
<1>2. \/ GiveUp(c) = [c EXCEPT !.abandoned = c.pendingPeer.rev]
      \/ GiveUp(c) = [c EXCEPT !.abandoned = c.pending.conn]
      \/ GiveUp(c) = c
  BY DEF GiveUp
<1> QED BY <1>1, <1>2, PageIs

LEMMA GiveUpNearly ==
  ASSUME NEW c, Nearly(c)
  PROVE  Nearly(GiveUp(c)) /\ Keeps(c, GiveUp(c))
<1>1. c \in Page /\ (c.pending # NoSlot => c.pendingPeer = NoCandidate /\ c.probe = NoProbe)
  BY DEF Nearly, PendingOK
<1> QED BY <1>1, GiveUpIs, NearlyAside

LEMMA DropPeerCandidateIs ==
  ASSUME NEW c \in Page
  PROVE  /\ DropPeerCandidate(c) \in Page
         /\ DropPeerCandidate(c).pending = c.pending /\ DropPeerCandidate(c).active = c.active
         /\ DropPeerCandidate(c).open = c.open /\ DropPeerCandidate(c).route = c.route
         /\ DropPeerCandidate(c).pendingPeer = NoCandidate
         /\ DropPeerCandidate(c).probe = NoProbe
         /\ DropPeerCandidate(c).peer = c.peer /\ DropPeerCandidate(c).parent = c.parent
         /\ DropPeerCandidate(c).paused = c.paused
BY PageIs, NothingTypes DEF DropPeerCandidate

LEMMA DropPeerCandidateNearly ==
  ASSUME NEW c, Nearly(c)
  PROVE  Nearly(DropPeerCandidate(c)) /\ Keeps(c, DropPeerCandidate(c))
<1>1. c \in Page
  BY DEF Nearly
<1> QED BY <1>1, DropPeerCandidateIs, NearlyAside

LEMMA DiscardPendingFine ==
  ASSUME NEW c, Nearly(c)
  PROVE  /\ Fine(DiscardPending(c)) /\ Keeps(c, DiscardPending(c))
         /\ DiscardPending(c).route = c.route
         /\ DiscardPending(c).pending = NoSlot
         /\ DiscardPending(c).pendingPeer = NoCandidate
         /\ DiscardPending(c).probe = NoProbe
         /\ DiscardPending(c).paused = c.paused
<1> DEFINE d == GiveUp(c)  e == DropPeerCandidate(d)  f == ClearPending(e)
<1>1. Nearly(d) /\ Keeps(c, d) /\ d \in Page /\ d.route = c.route /\ d.paused = c.paused
  BY GiveUpNearly, GiveUpIs DEF Nearly
<1>2. Nearly(e) /\ Keeps(d, e) /\ e \in Page /\ e.route = d.route /\ e.paused = d.paused
      /\ e.pendingPeer = NoCandidate /\ e.probe = NoProbe
  BY <1>1, DropPeerCandidateNearly, DropPeerCandidateIs
<1>3. Nearly(f) /\ Keeps(e, f) /\ f.route = e.route /\ f.paused = e.paused
      /\ f.pendingPeer = e.pendingPeer /\ f.probe = e.probe /\ f.pending = NoSlot
  BY <1>2, ClearPendingNearly, ClearPendingIs
<1>4. DiscardPending(c) = f
  BY DEF DiscardPending
<1> HIDE DEF d, e, f
<1>5. Fine(f)
  BY <1>2, <1>3, FineIsNearly DEF PreparedOK
<1> QED BY <1>1, <1>2, <1>3, <1>4, <1>5, KeepsBoth

LEMMA DropUncommittedFine ==
  ASSUME NEW c, Nearly(c),
         ~(c.route.phase = "prepare" /\ c.route.own /\ c.route.plan \in Publications)
  PROVE  Fine(DropUncommitted(c)) /\ Keeps(c, DropUncommitted(c))
         /\ DropUncommitted(c).route = c.route
<1> DEFINE d == DropUncommitted(c)
<1>1. c \in Page
  BY DEF Nearly
<1>2. /\ d \in Page /\ d.active = c.active /\ d.route = c.route
      /\ d.peer = c.peer /\ d.parent = c.parent
      /\ d.pending = IF c.pending.tok = 0 THEN NoSlot ELSE c.pending
      /\ d.open = IF c.pending.tok = 0 THEN c.open \ {c.pending.conn} ELSE c.open
      /\ d.pendingPeer = IF c.pendingPeer.tok = 0 THEN NoCandidate ELSE c.pendingPeer
      /\ d.probe = IF c.pendingPeer.tok = 0 /\ c.pendingPeer # NoCandidate
                   THEN NoProbe ELSE c.probe
  BY <1>1, PageIs, NothingTypes, SlotFacts DEF DropUncommitted
<1> HIDE DEF d
<1>4. c.active.conn \in Nat /\ c.pending.conn \in Nat
  BY <1>1, PageTypes, SlotTypes
<1>5. d.open = OpenOf(d.pending, d.active)
  BY <1>2, <1>4, SlotFacts DEF Nearly, OpenOf, PendingOK, ActiveOK
<1>6. PendingOK(d.pending, d.active, d.route, d.pendingPeer, d.probe)
  BY <1>2, NothingTypes DEF Nearly, PendingOK
<1>7. ActiveOK(d.active, d.route, d.peer, d.parent) /\ RouteOK(d.route)
  BY <1>2 DEF Nearly
<1>8. PreparedOK(d.route, d.pendingPeer, d.probe)
  BY <1>2 DEF PreparedOK
<1>9. Fine(d) /\ Keeps(c, d)
  BY <1>2, <1>5, <1>6, <1>7, <1>8, FineIsNearly DEF Nearly, Keeps, Holds, Settles
<1> QED BY <1>2, <1>9 DEF d

-----------------------------------------------------------------------------
(* Making the committed assignment the one that plays.                     *)

LEMMA PromoteFine ==
  ASSUME NEW c, Fine(c)
  PROVE  Fine(Promote(c)) /\ Spares(c, Promote(c)) /\ Settles(c, Promote(c))
<1>1. c \in Page
  BY DEF Fine
<1> DEFINE Takes == /\ c.pending # NoSlot /\ OwnsActive(c, c.pending.tok)
                    /\ c.route.act \in Publications
           d == Promote(c)
           s == [c.pending EXCEPT !.armed = FALSE]
           r == [c.route EXCEPT !.media = c.route.act]
           u == [c EXCEPT !.pending = NoSlot, !.active = s,
                          !.open = c.open \ {c.active.conn}, !.route = r]
<1>2. CASE Takes /\ d # c
  <2>1. c.probe = NoProbe
    BY <1>2 DEF Fine, Kept, PendingOK
  <2>2. d = ShowSfu(u, TRUE)
    BY <1>2 DEF Promote
  <2>3. /\ s \in Slots /\ s.conn = c.pending.conn /\ s.pub = c.pending.pub
        /\ s.failed = c.pending.failed
    BY <1>1, PageTypes DEF Slots
  <2>4. /\ r \in Routes /\ r.media = c.route.act /\ r.rev = c.route.rev
        /\ r.phase = c.route.phase /\ r.plan = c.route.plan /\ r.own = c.route.own
        /\ r.act = c.route.act /\ r.tok = c.route.tok
    BY <1>1, PageTypes, RouteTypes DEF Routes
  <2> HIDE DEF s, r
  <2>14. /\ u \in Page /\ u.pending = NoSlot /\ u.active = s /\ u.route = r
         /\ u.open = c.open \ {c.active.conn}
         /\ u.pendingPeer = c.pendingPeer /\ u.probe = c.probe
    BY <1>1, <2>3, <2>4, PageIs, SlotFacts
  <2> HIDE DEF u
  <2>5. /\ d \in Page /\ d.pending = NoSlot /\ d.active = s /\ d.route = r
        /\ d.open = c.open \ {c.active.conn} /\ d.peer = NoPeer /\ d.parent = NoUp
        /\ d.pendingPeer = c.pendingPeer /\ d.probe = c.probe
    BY <2>1, <2>2, <2>14, PageIs, NothingTypes, SlotFacts DEF ShowSfu
  <2> HIDE DEF d
  <2>6. c.active.conn \in Nat /\ c.pending.conn \in Nat /\ c.route.tok \in Nat
        /\ c.pending.tok \in Nat
    BY <1>1, PageTypes, SlotTypes, RouteTypes
  <2>7. /\ c.pending.pub \in Publications /\ ~c.pending.failed /\ c.pending.conn # 0
        /\ c.active.conn < c.pending.conn /\ c.pending.conn <= c.route.tok
    BY <1>2, <2>6 DEF Fine, Kept, PendingOK, OwnsActive
  <2>8. d.open = OpenOf(d.pending, d.active)
    BY <1>2, <2>3, <2>5, <2>6, <2>7, SlotFacts DEF Fine, Kept, OpenOf, ActiveOK
  <2>9. PendingOK(d.pending, d.active, d.route, d.pendingPeer, d.probe)
    BY <2>5 DEF PendingOK
  <2>10. ActiveOK(d.active, d.route, d.peer, d.parent)
    BY <1>2, <2>3, <2>4, <2>5, <2>7 DEF ActiveOK
  <2>11. RouteOK(d.route) /\ PreparedOK(d.route, d.pendingPeer, d.probe)
    BY <2>4, <2>5 DEF Fine, Kept, RouteOK, PreparedOK
  <2>12. Fine(d)
    BY <2>5, <2>8, <2>9, <2>10, <2>11 DEF Fine, Kept
  <2>13. Spares(c, d) /\ Settles(c, d)
    BY <2>3, <2>4, <2>5, <2>7 DEF Spares, Settles
  <2> QED BY <2>12, <2>13 DEF d
<1>3. CASE d = c
  BY <1>3, KeepsItself, KeepsSpares, SettlesItself
<1>4. Takes \/ d = c
  BY DEF Promote
<1> QED BY <1>2, <1>3, <1>4

LEMMA ActivateSfuFine ==
  ASSUME NEW c, Fine(c), NEW ack
  PROVE  Fine(ActivateSfu(c, ack)) /\ Spares(c, ActivateSfu(c, ack))
         /\ Settles(c, ActivateSfu(c, ack))
<1> DEFINE d == ActivateSfu(c, ack)
<1>1. c \in Page
  BY DEF Fine
<1>2. c.route.tok \in Revisions /\ c.active.conn \in Revisions /\ 0 \in Revisions
  BY <1>1, PageTypes, SlotTypes, RouteTypes, SlotFacts
<1>3. \/ d = Say(c, "lost", c.route.tok, c.active.conn)
      \/ d = Say(c, "refresh", c.route.tok, 0)
      \/ d = c \/ d = Promote(c)
  BY DEF ActivateSfu, Lost
<1>4. \A t \in Kinds, n \in Revisions, k \in Revisions :
         /\ Fine(Say(c, t, n, k)) /\ Spares(c, Say(c, t, n, k))
         /\ Settles(c, Say(c, t, n, k))
  BY SaidFine, KeepsSpares, SettlesItself
<1>5. "lost" \in Kinds /\ "refresh" \in Kinds
  BY DEF Kinds
<1>6. Fine(c) /\ Spares(c, c) /\ Settles(c, c)
  BY KeepsItself, KeepsSpares, SettlesItself
<1>7. Fine(Promote(c)) /\ Spares(c, Promote(c)) /\ Settles(c, Promote(c))
  BY PromoteFine
<1> QED BY <1>2, <1>3, <1>4, <1>5, <1>6, <1>7

LEMMA SfuRouteFine ==
  ASSUME NEW c, Fine(c), NEW ack, c.route.act \in Publications
  PROVE  Fine(SfuRoute(c, ack)) /\ Spares(c, SfuRoute(c, ack)) /\ Settles(c, SfuRoute(c, ack))
<1> DEFINE d == SfuRoute(c, ack)
           u == ClearPending(c)
           s == [c.active EXCEPT !.rev = c.route.tok]
           r == [c.route EXCEPT !.media = c.route.act]
           Kept1 == c.active.pub = c.route.act /\ ~c.active.failed
<1>1. c \in Page
  BY DEF Fine
<1>2. CASE Kept1 /\ d # ActivateSfu(c, ack)
  <2>1. d = [u EXCEPT !.active.rev = c.route.tok, !.route.media = c.route.act]
    BY <1>2 DEF SfuRoute
  <2>2. /\ u \in Page /\ u.pending = NoSlot /\ u.active = c.active /\ u.route = c.route
        /\ Fine(u) /\ u.pendingPeer = c.pendingPeer /\ u.probe = c.probe
    BY <1>1, ClearPendingIs, ClearPendingFine
  <2>3. /\ s \in Slots /\ s.conn = c.active.conn /\ s.pub = c.active.pub
        /\ s.failed = c.active.failed
    BY <1>1, PageTypes, RouteTypes DEF Slots
  <2>4. /\ r \in Routes /\ r.media = c.route.act /\ r.rev = c.route.rev
        /\ r.phase = c.route.phase /\ r.plan = c.route.plan /\ r.own = c.route.own
        /\ r.act = c.route.act /\ r.tok = c.route.tok
    BY <1>1, PageTypes, RouteTypes DEF Routes
  <2> HIDE DEF u
  <2>5. d = [u EXCEPT !.active = s, !.route = r]
    BY <2>1, <2>2, PageIs
  <2> HIDE DEF s, r, d
  <2>6. /\ d \in Page /\ d.pending = NoSlot /\ d.active = s /\ d.route = r
        /\ d.open = u.open /\ d.peer = u.peer /\ d.parent = u.parent
        /\ d.pendingPeer = u.pendingPeer /\ d.probe = u.probe
    BY <2>2, <2>3, <2>4, <2>5, PageIs
  <2>7. c.active # NoSlot /\ s # NoSlot
    BY <1>2, <2>3, SlotFacts
  <2>8. d.open = OpenOf(d.pending, d.active)
    BY <2>2, <2>3, <2>6, <2>7 DEF Fine, Kept, OpenOf
  <2>9. PendingOK(d.pending, d.active, d.route, d.pendingPeer, d.probe)
    BY <2>6 DEF PendingOK
  <2>10. ActiveOK(d.active, d.route, d.peer, d.parent)
    BY <2>2, <2>3, <2>4, <2>6, <2>7 DEF Fine, Kept, ActiveOK
  <2>11. RouteOK(d.route) /\ PreparedOK(d.route, d.pendingPeer, d.probe)
    BY <2>2, <2>4, <2>6 DEF Fine, Kept, RouteOK, PreparedOK
  <2>12. Fine(d)
    BY <2>6, <2>8, <2>9, <2>10, <2>11 DEF Fine, Kept
  <2>13. c.active.conn \in d.open
    BY <1>2, <2>3, <2>6, <2>7, <2>8 DEF OpenOf
  <2>14. Spares(c, d) /\ Settles(c, d)
    BY <2>4, <2>6, <2>13 DEF Spares, Settles
  <2> QED BY <2>12, <2>14 DEF d
<1>3. CASE d = ActivateSfu(c, ack)
  BY <1>3, ActivateSfuFine
<1>4. Kept1 \/ d = ActivateSfu(c, ack)
  BY DEF SfuRoute
<1> QED BY <1>2, <1>3, <1>4

(* A switch to a peer closes both slots; the page need not be settled.     *)
LEMMA FinishPeerRouteFine ==
  ASSUME NEW c \in Page, c.open \subseteq {c.pending.conn, c.active.conn},
         RouteOK(c.route),
         PreparedOK(c.route, NoCandidate, c.probe)
  PROVE  /\ Fine(FinishPeerRoute(c)) /\ Settles(c, FinishPeerRoute(c))
<1> DEFINE d == FinishPeerRoute(c)
           u == RetireActive(ClearPending(c))
           r == [c.route EXCEPT !.media = c.route.act]
<1>1. /\ u \in Page /\ u.pending = NoSlot /\ u.active = NoSlot /\ u.open = {}
      /\ u.route = c.route /\ u.probe = c.probe
  <2>1. /\ ClearPending(c) \in Page /\ ClearPending(c).pending = NoSlot
        /\ ClearPending(c).active = c.active
        /\ ClearPending(c).open = c.open \ {c.pending.conn}
        /\ ClearPending(c).route = c.route /\ ClearPending(c).probe = c.probe
    BY ClearPendingIs
  <2>2. (c.open \ {c.pending.conn}) \ {c.active.conn} = {}
    OBVIOUS
  <2> QED BY <2>1, <2>2, RetireActiveIs
<1>2. /\ r \in Routes /\ r.media = c.route.act /\ r.rev = c.route.rev
      /\ r.phase = c.route.phase /\ r.plan = c.route.plan /\ r.own = c.route.own
      /\ r.act = c.route.act /\ r.tok = c.route.tok
  BY PageTypes, RouteTypes DEF Routes
<1>3. d = [u EXCEPT !.pendingPeer = NoCandidate, !.route.media = c.route.act]
  BY DEF FinishPeerRoute
<1> HIDE DEF u
<1>4. d = [u EXCEPT !.pendingPeer = NoCandidate, !.route = r]
  BY <1>1, <1>3, PageIs
<1> HIDE DEF r, d
<1>5. /\ d \in Page /\ d.pending = NoSlot /\ d.active = NoSlot /\ d.open = {}
      /\ d.route = r /\ d.pendingPeer = NoCandidate /\ d.probe = c.probe
  BY <1>1, <1>2, <1>4, PageIs, NothingTypes
<1>6. RouteOK(d.route) /\ PreparedOK(d.route, d.pendingPeer, d.probe)
  BY <1>2, <1>5 DEF RouteOK, PreparedOK
<1>7. Fine(d) /\ Settles(c, d)
  BY <1>2, <1>5, <1>6 DEF Fine, Kept, PendingOK, ActiveOK, OpenOf, Settles
<1> QED BY <1>7 DEF d

LEMMA OpenWithin ==
  ASSUME NEW c, Fine(c)
  PROVE  c.open \subseteq {c.pending.conn, c.active.conn}
BY DEF Fine, Kept, OpenOf

LEMMA TakeProbeIs ==
  ASSUME NEW c \in Page
  PROVE  /\ TakeProbe(c) \in Page
         /\ TakeProbe(c).pending = c.pending /\ TakeProbe(c).active = c.active
         /\ TakeProbe(c).open = c.open /\ TakeProbe(c).route = c.route
         /\ TakeProbe(c).probe = NoProbe
<1> DEFINE p == [parent |-> c.probe.parent, conn |-> c.probe.rev, st |-> c.probe.st]
<1>1. p \in Watched /\ c.probe.parent \in Upstreams
  BY PageTypes DEF Watched, Probes
<1>2. TakeProbe(c) = [c EXCEPT !.probe = NoProbe, !.parent = c.probe.parent, !.peer = p]
  BY DEF TakeProbe
<1> HIDE DEF p
<1> QED BY <1>1, <1>2, PageIs, NothingTypes

LEMMA AssignParentIs ==
  ASSUME NEW c \in Page, NEW p \in Upstreams
  PROVE  /\ AssignParent(c, p) \in Page
         /\ AssignParent(c, p).pending = c.pending /\ AssignParent(c, p).active = c.active
         /\ AssignParent(c, p).open = c.open /\ AssignParent(c, p).route = c.route
         /\ AssignParent(c, p).probe = c.probe
<1> DEFINE q == IF c.parent = p THEN c.peer ELSE NoPeer
<1>1. q \in Watched
  BY PageTypes, NothingTypes
<1>2. AssignParent(c, p) = [c EXCEPT !.parent = p, !.peer = q]
  BY PageIs DEF AssignParent
<1> HIDE DEF q
<1> QED BY <1>1, <1>2, PageIs

LEMMA PeerRouteFine ==
  ASSUME NEW c, Fine(c), c.route.act \notin Publications
  PROVE  Fine(PeerRoute(c)) /\ Spares(c, PeerRoute(c)) /\ Settles(c, PeerRoute(c))
<1> DEFINE d == PeerRoute(c)
<1>1. /\ c \in Page /\ RouteOK(c.route) /\ PreparedOK(c.route, c.pendingPeer, c.probe)
      /\ c.open \subseteq {c.pending.conn, c.active.conn}
  BY OpenWithin DEF Fine, Kept
<1>2. /\ c.route.act \in Upstreams /\ c.route.tok \in Revisions
      /\ c.pendingPeer.rev \in Revisions
  BY <1>1, PageTypes, RouteTypes DEF Candidates
<1>3. \A e : Settles(c, e) => Spares(c, e)
  BY DEF Settles, Spares, Fine, Kept, ActiveOK
<1>4. PreparedOK(c.route, NoCandidate, c.probe) /\ PreparedOK(c.route, NoCandidate, NoProbe)
  BY <1>1 DEF PreparedOK
<1>5. CASE d = FinishPeerRoute(AssignParent(c, c.route.act))
  <2> DEFINE u == AssignParent(c, c.route.act)
  <2>1. /\ u \in Page /\ u.pending = c.pending /\ u.active = c.active /\ u.open = c.open
        /\ u.route = c.route /\ u.probe = c.probe
    BY <1>1, <1>2, AssignParentIs
  <2> HIDE DEF u
  <2>2. Fine(FinishPeerRoute(u)) /\ Settles(u, FinishPeerRoute(u))
    BY <1>1, <1>4, <2>1, FinishPeerRouteFine
  <2>3. Settles(c, FinishPeerRoute(u))
    BY <2>1, <2>2, SettlesItself, SettlesBoth
  <2>4. d = FinishPeerRoute(u)
    BY <1>5 DEF u
  <2> QED BY <1>3, <2>2, <2>3, <2>4
<1>6. CASE d = Lost(DropProbe(c), c.route.tok, c.pendingPeer.rev)
  <2> DEFINE u == DropProbe(c)
  <2>1. /\ u \in Page /\ u.pending = c.pending /\ u.active = c.active /\ u.open = c.open
        /\ u.route = c.route /\ u.pendingPeer = c.pendingPeer /\ u.probe = NoProbe
        /\ u.peer = c.peer /\ u.parent = c.parent
    BY <1>1, PageIs, NothingTypes DEF DropProbe
  <2> HIDE DEF u
  <2>2. c.pending # NoSlot => c.probe = NoProbe
    BY DEF Fine, Kept, PendingOK
  <2>3. c.route.phase = "prepare" /\ c.route.own /\ c.route.plan \in Publications =>
           c.pendingPeer = NoCandidate /\ c.probe = NoProbe
    BY <1>1 DEF PreparedOK
  <2>4. Fine(u) /\ Keeps(c, u)
    BY <2>1, <2>2, <2>3, Aside
  <2>5. "lost" \in Kinds
    BY DEF Kinds
  <2> DEFINE v == Say(u, "lost", c.route.tok, c.pendingPeer.rev)
  <2>6. Fine(v) /\ v.route = u.route
    BY <1>2, <2>4, <2>5, SaidFine
  <2>7. d = v
    BY <1>6 DEF u, Lost
  <2> HIDE DEF v
  <2> QED BY <1>3, <2>1, <2>6, <2>7, SettlesItself
<1>7. CASE d = c
  BY <1>7, KeepsItself, KeepsSpares, SettlesItself
<1>8. CASE d = FinishPeerRoute(TakeProbe(c))
  <2> DEFINE u == TakeProbe(c)
  <2>1. /\ u \in Page /\ u.pending = c.pending /\ u.active = c.active /\ u.open = c.open
        /\ u.route = c.route /\ u.probe = NoProbe
    BY <1>1, TakeProbeIs
  <2> HIDE DEF u
  <2>2. Fine(FinishPeerRoute(u)) /\ Settles(u, FinishPeerRoute(u))
    BY <1>1, <1>4, <2>1, FinishPeerRouteFine
  <2>3. Settles(c, FinishPeerRoute(u))
    BY <2>1, <2>2, SettlesItself, SettlesBoth
  <2>4. d = FinishPeerRoute(u)
    BY <1>8 DEF u
  <2> QED BY <1>3, <2>2, <2>3, <2>4
<1> QED BY <1>5, <1>6, <1>7, <1>8 DEF PeerRoute

LEMMA ActiveRouteFine ==
  ASSUME NEW c, Fine(c), NEW ack
  PROVE  Fine(ActiveRoute(c, ack)) /\ Spares(c, ActiveRoute(c, ack))
         /\ Settles(c, ActiveRoute(c, ack))
BY SfuRouteFine, PeerRouteFine DEF ActiveRoute

LEMMA RetireUnreferencedFine ==
  ASSUME NEW c, Fine(c)
  PROVE  /\ Fine(RetireUnreferenced(c)) /\ RetireUnreferenced(c).route = c.route
         /\ Keeps(c, RetireUnreferenced(c)) \/ c.route.act # c.active.pub
<1>1. c \in Page
  BY DEF Fine
<1>2. Fine(RetireActive(c)) /\ RetireActive(c).route = c.route
  BY <1>1, RetireActiveFine, RetireActiveIs
<1>3. Keeps(c, c)
  BY KeepsItself
<1> QED BY <1>2, <1>3 DEF RetireUnreferenced

LEMMA ActivatedFine ==
  ASSUME NEW c, Fine(c), NEW ack
  PROVE  LET d == ActiveRoute(RetireUnreferenced(c), ack)
         IN  Fine(d) /\ Spares(c, d) /\ Settles(c, d)
<1> DEFINE u == RetireUnreferenced(c)
           d == ActiveRoute(u, ack)
<1>1. Fine(u) /\ u.route = c.route /\ (Keeps(c, u) \/ c.route.act # c.active.pub)
  BY RetireUnreferencedFine
<1> HIDE DEF u
<1>2. Fine(d) /\ Spares(u, d) /\ Settles(u, d)
  BY <1>1, ActiveRouteFine
<1> HIDE DEF d
<1>3. Settles(c, d)
  BY <1>1, <1>2, SettlesItself, SettlesBoth
<1>4. Keeps(c, u) => Spares(c, d)
  BY <1>2, KeepsThen
<1>5. c.route.act # c.active.pub => Spares(c, d)
  BY <1>3 DEF Settles, Spares
<1>6. Fine(d) /\ Spares(c, d) /\ Settles(c, d)
  BY <1>1, <1>2, <1>3, <1>4, <1>5
<1> QED BY <1>6 DEF u, d

-----------------------------------------------------------------------------
(* Updates of the route.                                                   *)

LEMMA MessageTypes ==
  ASSUME NEW m \in Messages
  PROVE  /\ m.rev \in Revisions /\ m.up \in Upstreams /\ m.conn \in Revisions
         /\ m.own \in BOOLEAN /\ m.rev \in Nat /\ m.conn \in Nat
         /\ m.t \in {"auth", "rejoin", "prepare", "active", "config", "signal", "status", "stop"}
BY SlotFacts DEF Messages

LEMMA AdvancedIs ==
  ASSUME NEW r \in Routes, NEW m \in Messages, m.t \in {"prepare", "active"}
  PROVE  /\ Advanced(r, m) \in Routes
         /\ Advanced(r, m).rev = m.rev /\ Advanced(r, m).phase = m.t
         /\ Advanced(r, m).plan = m.up
         /\ Advanced(r, m).own => m.t = "prepare" /\ m.own
         /\ Advanced(r, m).act = IF m.t = "active" THEN m.up ELSE r.act
         /\ Advanced(r, m).tok = IF m.t = "active" THEN m.rev ELSE r.tok
         /\ Advanced(r, m).media = r.media
BY MessageTypes, RouteTypes DEF Advanced, Routes

Advance(c, m) == [c EXCEPT !.route = Advanced(c.route, m)]

LEMMA AdvanceIs ==
  ASSUME NEW c \in Page, NEW m \in Messages, m.t \in {"prepare", "active"}
  PROVE  /\ [c EXCEPT !.route = Advanced(@, m)] = Advance(c, m)
         /\ Advance(c, m) \in Page /\ Advance(c, m).route = Advanced(c.route, m)
         /\ Advance(c, m).pending = c.pending /\ Advance(c, m).active = c.active
         /\ Advance(c, m).open = c.open /\ Advance(c, m).pendingPeer = c.pendingPeer
         /\ Advance(c, m).probe = c.probe /\ Advance(c, m).peer = c.peer
         /\ Advance(c, m).parent = c.parent /\ Advance(c, m).paused = c.paused
<1>1. Advanced(c.route, m) \in Routes
  BY AdvancedIs, PageTypes
<1> QED BY <1>1, PageIs DEF Advance

LEMMA AdvanceNearly ==
  ASSUME NEW c, Fine(c), NEW m \in Messages, m.t \in {"prepare", "active"},
         m.rev >= c.route.rev,
         m.t = "prepare" => c.route.phase = "prepare" \/ m.rev > c.route.rev
  PROVE  Nearly(Advance(c, m)) /\ Holds(c, Advance(c, m))
         /\ (m.t = "active" => Fine(Advance(c, m)))
<1> DEFINE d == Advance(c, m)
           r == Advanced(c.route, m)
<1>1. c \in Page /\ c.route \in Routes
  BY PageTypes DEF Fine
<1>2. /\ d \in Page /\ d.route = r /\ d.pending = c.pending /\ d.active = c.active
      /\ d.open = c.open /\ d.pendingPeer = c.pendingPeer /\ d.probe = c.probe
      /\ d.peer = c.peer /\ d.parent = c.parent
  BY <1>1, AdvanceIs
<1>3. /\ r \in Routes /\ r.rev = m.rev /\ r.phase = m.t /\ r.media = c.route.media
      /\ r.tok = IF m.t = "active" THEN m.rev ELSE c.route.tok
  BY <1>1, AdvancedIs
<1> HIDE DEF d, r
<1>4. /\ c.route.rev \in Nat /\ c.route.tok \in Nat /\ m.rev \in Nat
      /\ c.active.conn \in Nat /\ c.pending.conn \in Nat /\ c.pending.tok \in Nat
      /\ c.pending.rev \in Nat
  BY <1>1, PageTypes, RouteTypes, SlotTypes, MessageTypes
<1>5. c.route.tok <= c.route.rev /\ (c.route.phase = "prepare" => c.route.tok < c.route.rev)
  BY DEF Fine, Kept, RouteOK
<1>6. RouteOK(r) /\ c.route.rev <= r.rev /\ c.route.tok <= r.tok /\ r.rev \in Nat /\ r.tok \in Nat
  BY <1>3, <1>4, <1>5 DEF RouteOK
<1>7. PendingOK(d.pending, d.active, d.route, d.pendingPeer, d.probe)
  BY <1>2, <1>4, <1>6 DEF Fine, Kept, PendingOK
<1>8. ActiveOK(d.active, d.route, d.peer, d.parent)
  BY <1>2, <1>3, <1>4, <1>6 DEF Fine, Kept, ActiveOK
<1>9. d.open = OpenOf(d.pending, d.active)
  BY <1>2 DEF Fine, Kept
<1>10. Nearly(d)
  BY <1>2, <1>6, <1>7, <1>8, <1>9 DEF Nearly
<1>11. Holds(c, d)
  BY <1>2, <1>3 DEF Holds
<1>12. m.t = "active" => PreparedOK(d.route, d.pendingPeer, d.probe)
  BY <1>2, <1>3 DEF PreparedOK
<1> QED BY <1>10, <1>11, <1>12, FineIsNearly DEF d


LEMMA AcceptOwnFine ==
  ASSUME NEW c, Nearly(c), NEW m \in Messages, c.route.plan = m.up
  PROVE  Fine(AcceptOwn(c, m)) /\ Keeps(c, AcceptOwn(c, m))
<1>1. CASE m.up \in Peers
  <2> DEFINE g == GiveUp(c)  u == ClearPending(g)
             cand == [rev |-> m.rev, tok |-> 0]
             probe == [NoProbe EXCEPT !.rev = m.rev, !.parent = m.up, !.st = "none"]
             d == [u EXCEPT !.pendingPeer = cand, !.probe = probe]
  <2>1. cand \in Candidates /\ probe \in Probes
    BY MessageTypes, SlotFacts DEF Candidates, Probes, NoProbe
  <2>2. AcceptOwn(c, m) = d
    BY <1>1 DEF AcceptOwn
  <2>3. c \in Page
    BY DEF Nearly
  <2>4. Nearly(g) /\ Keeps(c, g) /\ g \in Page /\ g.route = c.route
    BY <2>3, GiveUpNearly, GiveUpIs
  <2>5. Nearly(u) /\ Keeps(g, u) /\ u \in Page /\ u.route = g.route /\ u.pending = NoSlot
    BY <2>4, ClearPendingNearly, ClearPendingIs
  <2> HIDE DEF g, u, cand, probe
  <2>6. /\ d \in Page /\ d.route = u.route /\ d.pending = u.pending /\ d.active = u.active
        /\ d.open = u.open /\ d.peer = u.peer /\ d.parent = u.parent
    BY <2>1, <2>5, PageIs
  <2> HIDE DEF d
  <2>7. Nearly(d) /\ Keeps(u, d)
    BY <2>5, <2>6, NearlyAside
  <2>8. PreparedOK(d.route, d.pendingPeer, d.probe)
    BY <1>1, <2>4, <2>5, <2>6, SlotFacts DEF PreparedOK
  <2> QED BY <2>2, <2>4, <2>5, <2>7, <2>8, FineIsNearly, KeepsBoth
<1>2. CASE m.up \notin Peers
  BY <1>2, DiscardPendingFine DEF AcceptOwn
<1> QED BY <1>1, <1>2

LEMMA ClaimPeerFine ==
  ASSUME NEW c, Fine(c), NEW m \in Messages, NEW before, c.route.phase = "active"
  PROVE  /\ Fine(ClaimPeer(c, m, before)) /\ Keeps(c, ClaimPeer(c, m, before))
         /\ ClaimPeer(c, m, before).route = c.route
<1> DEFINE k == [c.pendingPeer EXCEPT !.tok = m.rev]
           d == [c EXCEPT !.pendingPeer = k]
<1>1. c \in Page /\ c.pendingPeer \in Candidates
  BY PageTypes DEF Fine
<1>2. k \in Candidates
  BY <1>1, MessageTypes DEF Candidates
<1>3. [c EXCEPT !.pendingPeer.tok = m.rev] = d
  BY <1>1, PageIs
<1> HIDE DEF k
<1>4. /\ d \in Page /\ d.route = c.route /\ d.pending = c.pending /\ d.active = c.active
      /\ d.open = c.open /\ d.probe = c.probe /\ d.peer = c.peer /\ d.parent = c.parent
  BY <1>1, <1>2, PageIs
<1> HIDE DEF d
<1>5. c.pendingPeer # NoCandidate => c.pending = NoSlot
  BY DEF Fine, Kept, PendingOK
<1>6. c.pendingPeer # NoCandidate => Fine(d) /\ Keeps(c, d)
  BY <1>4, <1>5, Aside
<1> DEFINE e == DropPeerCandidate(c)
<1>7. Fine(e) /\ Keeps(c, e) /\ e.route = c.route
  <2>1. Nearly(e) /\ Keeps(c, e) /\ e.route = c.route
    BY <1>1, FineIsNearly, DropPeerCandidateNearly, DropPeerCandidateIs
  <2>2. PreparedOK(e.route, e.pendingPeer, e.probe)
    BY <2>1 DEF PreparedOK
  <2> QED BY <2>1, <2>2, FineIsNearly
<1> HIDE DEF e
<1>8. \/ ClaimPeer(c, m, before) = c
      \/ c.pendingPeer # NoCandidate /\ ClaimPeer(c, m, before) = d
      \/ ClaimPeer(c, m, before) = e
  BY <1>3 DEF ClaimPeer, e
<1> QED BY <1>4, <1>6, <1>7, <1>8, KeepsItself

LEMMA ClaimSlotFine ==
  ASSUME NEW c, Fine(c), NEW m \in Messages,
         c.route.rev = m.rev, c.route.tok = m.rev, c.route.phase = "active"
  PROVE  Fine(ClaimSlot(c, m)) /\ Keeps(c, ClaimSlot(c, m))
         /\ ClaimSlot(c, m).route = c.route
<1> DEFINE s == [c.pending EXCEPT !.tok = m.rev, !.rev = m.rev]
           d == [c EXCEPT !.pending = s]
<1>1. c \in Page /\ c.pending \in Slots
  BY PageTypes DEF Fine
<1>2. s \in Slots /\ s.conn = c.pending.conn /\ s.pub = c.pending.pub
      /\ s.failed = c.pending.failed /\ s.rev = m.rev /\ s.tok = m.rev
  BY <1>1, MessageTypes DEF Slots
<1>3. [c EXCEPT !.pending.tok = m.rev, !.pending.rev = m.rev] = d
  BY <1>1, PageIs DEF Slots
<1> HIDE DEF s
<1>4. /\ d \in Page /\ d.route = c.route /\ d.pending = s /\ d.active = c.active
      /\ d.open = c.open /\ d.pendingPeer = c.pendingPeer /\ d.probe = c.probe
      /\ d.peer = c.peer /\ d.parent = c.parent
  BY <1>1, <1>2, PageIs
<1> HIDE DEF d
<1>5. c.pending # NoSlot => Fine(d) /\ Keeps(c, d)
  <2> SUFFICES ASSUME c.pending # NoSlot
               PROVE  Fine(d) /\ Keeps(c, d)
    OBVIOUS
  <2>1. /\ c.pending.pub \in Publications /\ ~c.pending.failed /\ c.pending.conn # 0
        /\ c.active.conn < c.pending.conn /\ c.pending.conn <= c.pending.rev
        /\ c.pending.rev <= c.route.rev
        /\ c.pendingPeer = NoCandidate /\ c.probe = NoProbe
    BY DEF Fine, Kept, PendingOK
  <2>2. m.rev \in Nat /\ c.pending.conn \in Nat /\ c.pending.rev \in Nat
    BY <1>1, MessageTypes, SlotTypes
  <2>3. PendingOK(d.pending, d.active, d.route, d.pendingPeer, d.probe)
    BY <1>2, <1>4, <2>1, <2>2 DEF PendingOK
  <2>4. s # NoSlot
    BY <1>2, <2>1, SlotFacts
  <2>5. d.open = OpenOf(d.pending, d.active)
    BY <1>2, <1>4, <2>4 DEF Fine, Kept, OpenOf
  <2>6. ActiveOK(d.active, d.route, d.peer, d.parent) /\ RouteOK(d.route)
        /\ PreparedOK(d.route, d.pendingPeer, d.probe)
    BY <1>4 DEF Fine, Kept
  <2> QED BY <1>4, <2>3, <2>5, <2>6 DEF Fine, Kept, Keeps, Holds, Settles
<1> DEFINE e == ClearPending(c)
<1>6. Fine(e) /\ Keeps(c, e) /\ e.route = c.route
  BY <1>1, ClearPendingFine, ClearPendingIs
<1> HIDE DEF e
<1>7. \/ ClaimSlot(c, m) = c
      \/ c.pending # NoSlot /\ ClaimSlot(c, m) = d
      \/ ClaimSlot(c, m) = e
  BY <1>3 DEF ClaimSlot, e
<1> QED BY <1>4, <1>5, <1>6, <1>7, KeepsItself

LEMMA UnpreparedFine ==
  ASSUME NEW c, Fine(c)
  PROVE  Fine(Unprepared(c)) /\ Keeps(c, Unprepared(c))
         /\ Unprepared(c).route = c.route
<1> DEFINE d == DropProbe(c)
<1>1. c \in Page
  BY DEF Fine
<1>2. /\ d \in Page /\ d.route = c.route /\ d.pending = c.pending /\ d.active = c.active
      /\ d.open = c.open /\ d.pendingPeer = c.pendingPeer /\ d.probe = NoProbe
      /\ d.peer = c.peer /\ d.parent = c.parent
  BY <1>1, PageIs, NothingTypes DEF DropProbe
<1>3. Unprepared(c) = c \/ (Unprepared(c) = d /\ c.pendingPeer = NoCandidate)
  BY DEF Unprepared
<1> HIDE DEF d
<1>4. c.pending # NoSlot => c.probe = NoProbe
  BY DEF Fine, Kept, PendingOK
<1>5. c.pendingPeer = NoCandidate => Fine(d) /\ Keeps(c, d)
  BY <1>2, <1>4, Aside
<1> QED BY <1>2, <1>3, <1>5, KeepsItself

LEMMA AcceptActiveFine ==
  ASSUME NEW c, Fine(c), NEW m \in Messages, NEW ack, NEW before,
         c.route.rev = m.rev, c.route.tok = m.rev, c.route.phase = "active"
  PROVE  Fine(AcceptActive(c, m, ack, before)) /\ Spares(c, AcceptActive(c, m, ack, before))
         /\ Settles(c, AcceptActive(c, m, ack, before))
<1> DEFINE u == ClaimPeer(c, m, before)  v == ClaimSlot(u, m)  w == Unprepared(v)
           d == ActiveRoute(RetireUnreferenced(w), ack)
<1>1. Fine(u) /\ Keeps(c, u) /\ u.route = c.route
  BY ClaimPeerFine
<1> HIDE DEF u
<1>2. Fine(v) /\ Keeps(u, v) /\ v.route = u.route
  BY <1>1, ClaimSlotFine
<1> HIDE DEF v
<1>3. Fine(w) /\ Keeps(v, w) /\ w.route = v.route
  BY <1>2, UnpreparedFine
<1> HIDE DEF w
<1>4. Fine(d) /\ Spares(w, d) /\ Settles(w, d)
  BY <1>3, ActivatedFine
<1>5. AcceptActive(c, m, ack, before) = d
  BY DEF AcceptActive, w, v, u
<1> HIDE DEF d
<1>6. Keeps(c, w) /\ Settles(c, w)
  BY <1>1, <1>2, <1>3, KeepsBoth, SettlesItself
<1>7. Spares(c, d) /\ Settles(c, d)
  BY <1>4, <1>6, KeepsThen, SettlesBoth
<1> QED BY <1>4, <1>5, <1>7

(* A prepared route of this viewer is the one it had or the update's.      *)
Stems(c, d, m) ==
  /\ d.route.rev \in {c.route.rev, m.rev, 0}
  /\ d.route.phase = "prepare" /\ d.route.own =>
        \/ c.route.phase = "prepare" /\ c.route.own /\ d.route.rev = c.route.rev
        \/ m.t = "prepare" /\ m.own /\ d.route.rev = m.rev

LEMMA SettlesStems ==
  ASSUME NEW c, NEW d, NEW e, NEW m, Stems(c, d, m), Settles(d, e)
  PROVE  Stems(c, e, m)
BY DEF Stems, Settles

LEMMA StemsItself == \A c, d, m : Settles(c, d) => Stems(c, d, m)
BY DEF Stems, Settles

LEMMA AcceptFine ==
  ASSUME NEW c, Fine(c), NEW m \in Messages, m.t \in {"prepare", "active"}, NEW ack
  PROVE  Fine(Accept(c, m, ack)) /\ Spares(c, Accept(c, m, ack))
         /\ Stems(c, Accept(c, m, ack), m)
<1> DEFINE d == Accept(c, m, ack)  u == Advance(c, m)
<1>1. c \in Page /\ c.route \in Routes
  BY PageTypes DEF Fine
<1>2. Fine(c) /\ Spares(c, c) /\ Stems(c, c, m)
  BY KeepsItself, KeepsSpares, StemsItself
<1>3. CASE ~Stale(c.route, m)
  <2>1. m.rev \in Nat /\ c.route.rev \in Nat
    BY <1>1, MessageTypes, RouteTypes
  <2>2. c.route.phase \in {"none", "prepare", "active"}
    BY <1>1, RouteTypes
  <2>3. m.rev >= c.route.rev /\ (m.t = "prepare" => c.route.phase = "prepare" \/ m.rev > c.route.rev)
    BY <1>3, <2>1, <2>2 DEF Stale
  <2>4. Nearly(u) /\ Holds(c, u) /\ (m.t = "active" => Fine(u))
    BY <2>3, AdvanceNearly
  <2>5. /\ [c EXCEPT !.route = Advanced(@, m)] = u /\ u.route = Advanced(c.route, m)
    BY <1>1, AdvanceIs
  <2>6. /\ u.route.plan = m.up /\ (u.route.own => m.t = "prepare" /\ m.own)
        /\ u.route.rev = m.rev /\ u.route.phase = m.t
        /\ m.t = "active" => u.route.tok = m.rev
    BY <1>1, <2>5, AdvancedIs
  <2> HIDE DEF u
  <2>7. \/ d = DiscardPending(u)
        \/ d = c
        \/ m.t = "active" /\ d = AcceptActive(u, m, ack, c.route.act)
        \/ d = AcceptOwn(u, m)
        \/ ~m.own /\ d = DropUncommitted(u)
    BY <1>3, <2>5 DEF Accept
  <2> HIDE DEF d
  <2>8. d = DiscardPending(u) => Fine(d) /\ Keeps(u, d)
    BY <2>4, DiscardPendingFine
  <2>9. d = AcceptOwn(u, m) => Fine(d) /\ Keeps(u, d)
    BY <2>4, <2>6, AcceptOwnFine
  <2>10. ~m.own /\ d = DropUncommitted(u) => Fine(d) /\ Keeps(u, d)
    BY <2>4, <2>6, DropUncommittedFine
  <2>11. m.t = "active" /\ d = AcceptActive(u, m, ack, c.route.act)
           => Fine(d) /\ Spares(u, d) /\ Settles(u, d)
    BY <2>4, <2>6, AcceptActiveFine
  <2>12. d = c \/ (Fine(d) /\ Spares(u, d) /\ Settles(u, d))
    BY <2>7, <2>8, <2>9, <2>10, <2>11, KeepsSpares
  <2>13. Stems(c, u, m)
    BY <2>6 DEF Stems
  <2>14. Fine(d) /\ Spares(c, d) /\ Stems(c, d, m)
    BY <1>2, <2>4, <2>12, <2>13, HoldsThen, SettlesStems
  <2> QED BY <2>14 DEF d
<1>4. CASE Stale(c.route, m)
  BY <1>2, <1>4 DEF Accept
<1> QED BY <1>3, <1>4

LEMMA NewSlotIs ==
  ASSUME NEW m \in Messages, NEW paused \in BOOLEAN
  PROVE  LET s == NewSlot(m, paused)
         IN  /\ s \in Slots /\ s.conn = m.conn /\ s.rev = m.rev /\ s.pub = m.up
             /\ s.tok = 0 /\ ~s.failed
BY MessageTypes, SlotFacts DEF NewSlot, NoSlot, Slots

(* A configuration that may open a subscriber describes the connection of  *)
(* its preparation.                                                        *)
LEMMA AcceptConfigFine ==
  ASSUME NEW c, Fine(c), NEW m \in Messages, m.up \in Publications,
         c.route.phase = "prepare" /\ c.route.own /\ c.route.rev = m.rev => m.conn = m.rev
  PROVE  Fine(AcceptConfig(c, m)) /\ Spares(c, AcceptConfig(c, m))
         /\ Settles(c, AcceptConfig(c, m))
<1> DEFINE d == AcceptConfig(c, m)
           s == NewSlot(m, c.paused)
           u == ClearPending(c)
           e == [u EXCEPT !.pending = s, !.open = (u.open \ {c.pending.conn}) \cup {m.conn}]
           v == Say(c, "lost", m.rev, m.conn)
           w == ActiveRoute(RetireUnreferenced(c), TRUE)
           Opens == /\ c.route.phase = "prepare" /\ c.route.own
                    /\ m.rev = c.route.rev /\ c.route.plan = m.up
<1>1. /\ c \in Page /\ c.route \in Routes /\ c.paused \in BOOLEAN
      /\ c.route.phase \in {"none", "prepare", "active"}
  BY PageTypes, RouteTypes DEF Fine
<1>2. Fine(c) /\ Spares(c, c) /\ Settles(c, c)
  BY KeepsItself, KeepsSpares
<1>3. Fine(v) /\ Spares(c, v) /\ Settles(c, v)
  <2>1. "lost" \in Kinds /\ m.rev \in Revisions /\ m.conn \in Revisions
    BY MessageTypes DEF Kinds
  <2>2. Fine(v) /\ Keeps(c, v)
    BY <2>1, SaidFine
  <2> QED BY <2>2, KeepsSpares
<1>4. Fine(w) /\ Spares(c, w) /\ Settles(c, w)
  BY ActivatedFine
<1>5. Opens => Fine(e) /\ Spares(c, e) /\ Settles(c, e)
  <2> SUFFICES ASSUME Opens
               PROVE  Fine(e) /\ Spares(c, e) /\ Settles(c, e)
    OBVIOUS
  <2>1. /\ s \in Slots /\ s.conn = m.conn /\ s.rev = m.rev /\ s.pub = m.up
        /\ s.tok = 0 /\ ~s.failed
    BY <1>1, NewSlotIs
  <2>2. /\ u \in Page /\ Fine(u) /\ Keeps(c, u)
        /\ u.pending = NoSlot /\ u.route = c.route /\ u.active = c.active
    BY <1>1, ClearPendingIs, ClearPendingFine
  <2>3. u.open = c.open \ {c.pending.conn}
    BY <1>1, ClearPendingIs
  <2> DEFINE o == (u.open \ {c.pending.conn}) \cup {m.conn}
  <2>4. o = u.open \cup {m.conn} /\ o \in SUBSET Revisions
    BY <2>2, <2>3, PageTypes, MessageTypes
  <2> HIDE DEF s, u, o
  <2>5. /\ e \in Page /\ e.pending = s /\ e.active = u.active /\ e.open = o
        /\ e.route = u.route /\ e.pendingPeer = u.pendingPeer /\ e.probe = u.probe
        /\ e.peer = u.peer /\ e.parent = u.parent
    BY <2>1, <2>2, <2>4, PageIs DEF o
  <2> HIDE DEF e
  <2>6. /\ c.route.tok \in Nat /\ c.route.rev \in Nat /\ c.active.conn \in Nat
        /\ m.rev \in Nat /\ m.conn \in Nat
    BY <1>1, PageTypes, RouteTypes, SlotTypes, MessageTypes
  <2>7. m.conn = m.rev /\ c.route.tok < m.rev /\ c.active.conn <= c.route.tok
    BY <2>6, SlotFacts DEF Fine, Kept, RouteOK, ActiveOK
  <2>8. u.pendingPeer = NoCandidate /\ u.probe = NoProbe
    BY <2>2 DEF Fine, Kept, PreparedOK
  <2>9. s # NoSlot
    BY <2>1, <2>6, <2>7, SlotFacts
  <2>10. PendingOK(e.pending, e.active, e.route, e.pendingPeer, e.probe)
    BY <2>1, <2>2, <2>5, <2>6, <2>7, <2>8 DEF PendingOK
  <2>11. e.open = OpenOf(e.pending, e.active)
    BY <2>1, <2>2, <2>4, <2>5, <2>9 DEF Fine, Kept, OpenOf
  <2>12. ActiveOK(e.active, e.route, e.peer, e.parent) /\ RouteOK(e.route)
         /\ PreparedOK(e.route, e.pendingPeer, e.probe)
    BY <2>2, <2>5 DEF Fine, Kept
  <2>13. Fine(e) /\ Keeps(c, e)
    BY <2>2, <2>5, <2>10, <2>11, <2>12 DEF Fine, Kept, Keeps, Holds, Settles
  <2> QED BY <2>13, KeepsSpares
<1>6. \/ d = c \/ d = v \/ d = w \/ (Opens /\ d = e)
  BY <1>1 DEF AcceptConfig, Lost
<1> HIDE DEF d, e, v, w, Opens
<1> QED BY <1>2, <1>3, <1>4, <1>5, <1>6 DEF d

LEMMA RearmIs ==
  ASSUME NEW s \in Slots
  PROVE  Rearm(s) \in Slots /\ SameSlot(s, Rearm(s)) /\ Rearm(s).rev = s.rev
         /\ Rearm(s).tok = s.tok /\ Rearm(s).link = s.link
<1>1. CASE s # NoSlot /\ ~s.failed
  <2> DEFINE t == [s EXCEPT !.armed = TRUE]
  <2>1. /\ t \in Slots /\ t.conn = s.conn /\ t.pub = s.pub /\ t.failed = s.failed
        /\ t.rev = s.rev /\ t.tok = s.tok /\ t.link = s.link
    BY DEF Slots
  <2>2. t.armed
    BY DEF Slots
  <2>3. t # NoSlot
    BY <2>2, SlotFacts
  <2> HIDE DEF t
  <2>4. SameSlot(s, t)
    BY <1>1, <2>1, <2>3 DEF SameSlot
  <2> QED BY <1>1, <2>1, <2>4 DEF Rearm, t
<1>2. CASE ~(s # NoSlot /\ ~s.failed)
  BY <1>2 DEF Rearm, SameSlot
<1> QED BY <1>1, <1>2

LEMMA SetPausedFine ==
  ASSUME NEW c, Fine(c), NEW paused \in BOOLEAN
  PROVE  Fine(SetPaused(c, paused)) /\ Keeps(c, SetPaused(c, paused))
<1>1. c \in Page /\ c.pending \in Slots /\ c.active \in Slots
  BY PageTypes DEF Fine
<1>2. CASE paused
  <2> DEFINE u == [c EXCEPT !.paused = TRUE]
  <2>1. /\ u \in Page /\ u.route = c.route /\ u.pending = c.pending /\ u.active = c.active
        /\ u.open = c.open /\ u.pendingPeer = c.pendingPeer /\ u.probe = c.probe
        /\ u.peer = c.peer /\ u.parent = c.parent
    BY <1>1, PageIs
  <2> HIDE DEF u
  <2>2. Fine(u) /\ Keeps(c, u)
    BY <2>1, Aside
  <2>3. Fine(DiscardPending(u)) /\ Keeps(u, DiscardPending(u))
    BY <2>2, FineIsNearly, DiscardPendingFine
  <2>4. SetPaused(c, paused) = DiscardPending(u)
    BY <1>2 DEF SetPaused, u
  <2> QED BY <2>2, <2>3, <2>4, KeepsBoth
<1>3. CASE ~paused
  <2> DEFINE p == Rearm(c.pending)  a == Rearm(c.active)
             u == [c EXCEPT !.paused = FALSE, !.pending = p, !.active = a]
  <2>1. /\ p \in Slots /\ a \in Slots /\ SameSlot(c.pending, p) /\ SameSlot(c.active, a)
        /\ p.rev = c.pending.rev /\ p.tok = c.pending.tok /\ a.link = c.active.link
    BY <1>1, RearmIs
  <2>2. SetPaused(c, paused) = u
    BY <1>1, <1>3, PageIs DEF SetPaused
  <2> HIDE DEF p, a
  <2>3. /\ u \in Page /\ u.route = c.route /\ u.pending = p /\ u.active = a
        /\ u.open = c.open /\ u.pendingPeer = c.pendingPeer /\ u.probe = c.probe
        /\ u.peer = c.peer /\ u.parent = c.parent
    BY <1>1, <2>1, PageIs
  <2> HIDE DEF u
  <2>4. Fine(u)
    BY <2>1, <2>3, Touched
  <2>5. Keeps(c, u)
    BY <2>1, <2>3 DEF Keeps, Holds, Settles, SameSlot
  <2> QED BY <2>2, <2>4, <2>5
<1> QED BY <1>2, <1>3

-----------------------------------------------------------------------------
(* Failures and authentication.                                            *)

LEMMA ReportedFine ==
  ASSUME NEW c, Fine(c), NEW n \in Revisions, NEW k \in Revisions, NEW e,
         \/ e = c \/ e = Say(c, "lost", n, k) \/ e = Say(c, "failed", n, k)
         \/ e = Say(c, "restart", n, k) \/ e = Say(c, "ready", n, k)
  PROVE  Fine(e) /\ Keeps(c, e) /\ e.route = c.route /\ e.open = c.open
<1>1. "lost" \in Kinds /\ "failed" \in Kinds /\ "restart" \in Kinds /\ "ready" \in Kinds
  BY DEF Kinds
<1>2. \A t \in Kinds : /\ Fine(Say(c, t, n, k)) /\ Keeps(c, Say(c, t, n, k))
                       /\ Say(c, t, n, k).route = c.route /\ Say(c, t, n, k).open = c.open
  BY SaidFine
<1> QED BY <1>1, <1>2, KeepsItself

LEMMA FailPendingFine ==
  ASSUME NEW c, Fine(c)
  PROVE  Fine(FailSlot(c, "pending", c.pending))
         /\ Keeps(c, FailSlot(c, "pending", c.pending))
<1> DEFINE d == ClearPending(c)  s == c.pending
           e == FailSlot(c, "pending", c.pending)
<1>1. c \in Page
  BY DEF Fine
<1>2. Fine(d) /\ Keeps(c, d)
  BY ClearPendingFine
<1>3. s.conn \in Revisions /\ s.rev \in Revisions /\ c.route.tok \in Revisions /\ 0 \in Revisions
  BY <1>1, PageTypes, SlotTypes, RouteTypes, SlotFacts
<1>4. [c EXCEPT !["pending"] = NoSlot, !.open = @ \ {s.conn}] = d
  BY DEF ClearPending
<1>5. \/ e = d \/ e = Say(d, "lost", c.route.tok, s.conn)
      \/ e = Say(d, "lost", s.rev, s.conn) \/ e = Say(d, "failed", s.rev, 0)
  BY <1>4 DEF FailSlot, Lost
<1> HIDE DEF d, e, s
<1>6. Fine(e) /\ Keeps(d, e)
  BY <1>2, <1>3, <1>5, ReportedFine
<1> QED BY <1>2, <1>6, KeepsBoth DEF e

LEMMA FailActiveFine ==
  ASSUME NEW c, Fine(c), c.active # NoSlot
  PROVE  Fine(FailSlot(c, "active", c.active))
         /\ FailSlot(c, "active", c.active).active.failed
         /\ Settles(c, FailSlot(c, "active", c.active))
<1> DEFINE a == [c.active EXCEPT !.failed = TRUE, !.armed = FALSE]  s == c.active
           d == [c EXCEPT !.active = a, !.open = c.open \ {s.conn}]
           e == FailSlot(c, "active", c.active)
<1>1. c \in Page /\ s \in Slots
  BY PageTypes DEF Fine
<1>2. a \in Slots /\ a.conn = s.conn /\ a.pub = s.pub /\ a.failed
  BY <1>1 DEF Slots
<1>3. a # NoSlot
  BY <1>2, SlotFacts
<1>4. s.conn \in Revisions /\ s.rev \in Revisions /\ c.route.tok \in Revisions /\ 0 \in Revisions
  BY <1>1, PageTypes, SlotTypes, RouteTypes, SlotFacts
<1>5. [c EXCEPT !["active"] = IF "active" = "pending" THEN NoSlot
                              ELSE [@ EXCEPT !.failed = TRUE, !.armed = FALSE],
                !.open = @ \ {s.conn}] = d
  BY <1>1, PageIs
<1>6. \/ e = d \/ e = Say(d, "lost", c.route.tok, s.conn)
      \/ e = Say(d, "lost", s.rev, s.conn) \/ e = Say(d, "failed", s.rev, 0)
  BY <1>5 DEF FailSlot, Lost
<1> HIDE DEF a
<1>7. /\ d \in Page /\ d.active = a /\ d.open = c.open \ {s.conn}
      /\ d.route = c.route /\ d.pending = c.pending /\ d.pendingPeer = c.pendingPeer
      /\ d.probe = c.probe /\ d.peer = c.peer /\ d.parent = c.parent
  BY <1>1, <1>2, PageIs
<1> HIDE DEF d, e
<1>8. s.conn \in Nat /\ c.pending.conn \in Nat
  BY <1>1, PageTypes, SlotTypes
<1>9. d.open = OpenOf(d.pending, d.active)
  BY <1>2, <1>3, <1>7, <1>8, SlotFacts DEF Fine, Kept, OpenOf, PendingOK, ActiveOK
<1>10. PendingOK(d.pending, d.active, d.route, d.pendingPeer, d.probe)
  BY <1>2, <1>7 DEF Fine, Kept, PendingOK
<1>11. ActiveOK(d.active, d.route, d.peer, d.parent)
  BY <1>2, <1>3, <1>7 DEF Fine, Kept, ActiveOK
<1>12. RouteOK(d.route) /\ PreparedOK(d.route, d.pendingPeer, d.probe)
  BY <1>7 DEF Fine, Kept
<1>13. Fine(d) /\ d.active.failed
  BY <1>2, <1>7, <1>9, <1>10, <1>11, <1>12 DEF Fine, Kept
<1> HIDE DEF s
<1>14. Fine(e) /\ Keeps(d, e)
  BY <1>4, <1>6, <1>13, ReportedFine
<1>15. e.active.failed /\ Settles(d, e)
  BY <1>13, <1>14 DEF Keeps, Holds
<1>16. Settles(c, e)
  BY <1>7, <1>15, SettlesItself, SettlesBoth
<1> QED BY <1>14, <1>15, <1>16 DEF e

LEMMA CheckActiveFine ==
  ASSUME NEW c, Fine(c), NEW m \in Messages
  PROVE  /\ Fine(CheckActive(c, m)) /\ Settles(c, CheckActive(c, m))
         /\ \/ CheckActive(c, m).active.failed
            \/ /\ Keeps(c, CheckActive(c, m)) /\ CheckActive(c, m).route = c.route
               /\ CheckActive(c, m).open = c.open
<1> DEFINE d == CheckActive(c, m)  v == Say(c, "lost", m.rev, c.active.conn)
           f == FailSlot(c, "active", c.active)
<1>1. c \in Page /\ m.rev \in Revisions /\ c.active.conn \in Revisions /\ "lost" \in Kinds
  BY PageTypes, SlotTypes, MessageTypes DEF Fine, Kinds
<1>2. d = c \/ d = v \/ (c.active # NoSlot /\ d = f)
  BY DEF CheckActive, Lost
<1>3. Fine(v) /\ Keeps(c, v) /\ v.route = c.route /\ v.open = c.open
  BY <1>1, SaidFine
<1>4. c.active # NoSlot => Fine(f) /\ f.active.failed /\ Settles(c, f)
  BY FailActiveFine
<1>5. Keeps(c, c)
  BY KeepsItself
<1> HIDE DEF d, v, f
<1>6. Fine(d) /\ (d.active.failed \/ (Keeps(c, d) /\ d.route = c.route /\ d.open = c.open))
  BY <1>2, <1>3, <1>4, <1>5
<1>7. Settles(c, d)
  BY <1>2, <1>3, <1>4, SettlesItself
<1> QED BY <1>6, <1>7 DEF d

LEMMA RestartFine ==
  ASSUME NEW c, Fine(c), NEW m \in Messages, m.t = "active"
  PROVE  Fine(Restart(c, m)) /\ Spares(c, Restart(c, m)) /\ Stems(c, Restart(c, m), m)
<1> DEFINE r == Advanced(NoRoute, m)
           u == [c EXCEPT !.route = r,
                          !.pendingPeer = NoCandidate, !.probe = NoProbe,
                          !.pending = NoSlot, !.active = NoSlot, !.open = {},
                          !.peer = NoPeer, !.parent = NoUp]
           d == ActiveRoute(u, FALSE)
<1>1. c \in Page
  BY DEF Fine
<1>2. /\ r \in Routes /\ r.rev = m.rev /\ r.phase = "active" /\ r.tok = m.rev
      /\ r.act = m.up /\ r.media = "unset"
  BY NothingTypes, AdvancedIs
<1>3. Restart(c, m) = d
  BY DEF Restart
<1> HIDE DEF r
<1>4. /\ u \in Page /\ u.route = r /\ u.pending = NoSlot /\ u.active = NoSlot
      /\ u.open = {} /\ u.pendingPeer = NoCandidate /\ u.probe = NoProbe
  BY <1>1, <1>2, PageIs, NothingTypes, SlotFacts
<1> HIDE DEF u
<1>5. RouteOK(r) /\ PreparedOK(r, NoCandidate, NoProbe)
  BY <1>2, MessageTypes DEF RouteOK, PreparedOK
<1>6. Fine(u)
  BY <1>4, <1>5 DEF Fine, Kept, PendingOK, ActiveOK, OpenOf
<1>7. Fine(d) /\ Settles(u, d)
  BY <1>6, ActiveRouteFine
<1>8. Spares(c, d)
  <2>1. CASE c.active = NoSlot \/ d.route.act # c.active.pub
    BY <2>1 DEF Spares
  <2>2. CASE c.active # NoSlot /\ d.route.act = c.active.pub
    <3>1. c.active.pub \in Publications /\ c.route.media \in Publications
      BY <2>2 DEF Fine, Kept, ActiveOK
    <3>2. u.route.act \in Publications
      BY <1>7, <2>2, <3>1 DEF Settles
    <3>3. d = ActivateSfu(u, FALSE) \/ u.active.pub = u.route.act
      BY <3>2 DEF ActiveRoute, SfuRoute
    <3>4. u.active.pub # u.route.act
      BY <1>4, <3>2, SlotFacts
    <3>5. d = u
      BY <1>4, <3>3, <3>4, SlotFacts DEF ActivateSfu
    <3>6. d.route.media = "unset"
      BY <1>2, <1>4, <3>5
    <3>7. d.route.media # c.route.media
      BY <3>1, <3>6, ViewerRouteAssumption
    <3> QED BY <3>7 DEF Spares
  <2> QED BY <2>1, <2>2
<1>9. Stems(c, u, m)
  BY <1>2, <1>4 DEF Stems
<1> QED BY <1>3, <1>7, <1>8, <1>9, SettlesStems

LEMMA ResyncAuthoritativeFine ==
  ASSUME NEW c, Fine(c), NEW m \in Messages, m.t = "active"
  PROVE  Fine(ResyncAuthoritative(c, m)) /\ Spares(c, ResyncAuthoritative(c, m))
         /\ Stems(c, ResyncAuthoritative(c, m), m)
<1> DEFINE a == Accept(c, m, FALSE)  d == CheckActive(a, m)
<1>1. Fine(Restart(c, m)) /\ Spares(c, Restart(c, m)) /\ Stems(c, Restart(c, m), m)
  BY RestartFine
<1>2. Fine(a) /\ Spares(c, a) /\ Stems(c, a, m)
  BY AcceptFine
<1> HIDE DEF a
<1>3. /\ Fine(d) /\ Settles(a, d)
      /\ d.active.failed \/ (Keeps(a, d) /\ d.route = a.route /\ d.open = a.open)
  BY <1>2, CheckActiveFine
<1> HIDE DEF d
<1>4. Spares(c, d)
  BY <1>2, <1>3 DEF Keeps, Holds, Spares
<1>5. Stems(c, d, m)
  BY <1>2, <1>3, SettlesStems
<1>6. \/ ResyncAuthoritative(c, m) = Restart(c, m)
      \/ ResyncAuthoritative(c, m) = a \/ ResyncAuthoritative(c, m) = d
  BY DEF ResyncAuthoritative, a, d
<1> QED BY <1>1, <1>2, <1>3, <1>4, <1>5, <1>6

LEMMA WatchedAgain ==
  ASSUME NEW c \in Page, NEW st \in {"none", "new", "on", "off", "dead"}
  PROVE  LET d == [c EXCEPT !.peer.st = st]
         IN  /\ d \in Page /\ d.route = c.route /\ d.pending = c.pending
             /\ d.active = c.active /\ d.open = c.open /\ d.pendingPeer = c.pendingPeer
             /\ d.probe = c.probe /\ d.parent = c.parent
<1> DEFINE p == [c.peer EXCEPT !.st = st]
<1>1. p \in Watched
  BY PageTypes DEF Watched
<1>2. [c EXCEPT !.peer.st = st] = [c EXCEPT !.peer = p]
  BY PageIs
<1> HIDE DEF p
<1> QED BY <1>1, <1>2, PageIs

(* Only a peer that is watched changes.                                    *)
LEMMA WatchedFine ==
  ASSUME NEW c, Fine(c), c.peer # NoPeer,
         NEW st \in {"none", "new", "on", "off", "dead"}
  PROVE  /\ Fine([c EXCEPT !.peer.st = st]) /\ Keeps(c, [c EXCEPT !.peer.st = st])
         /\ [c EXCEPT !.peer.st = st].route = c.route
         /\ [c EXCEPT !.peer.st = st].open = c.open
<1> DEFINE d == [c EXCEPT !.peer.st = st]
<1>1. c \in Page
  BY DEF Fine
<1>2. /\ d \in Page /\ d.route = c.route /\ d.pending = c.pending
      /\ d.active = c.active /\ d.open = c.open /\ d.pendingPeer = c.pendingPeer
      /\ d.probe = c.probe /\ d.parent = c.parent
  BY <1>1, WatchedAgain
<1> HIDE DEF d
<1>3. c.active = NoSlot
  BY DEF Fine, Kept, ActiveOK
<1>4. Fine(d) /\ Keeps(c, d)
  BY <1>2, <1>3, Aside
<1> QED BY <1>2, <1>4 DEF d

LEMMA RecoverPeerFine ==
  ASSUME NEW c, Fine(c), NEW m \in Messages
  PROVE  Fine(RecoverPeer(c, m)) /\ Keeps(c, RecoverPeer(c, m))
         /\ RecoverPeer(c, m).route = c.route /\ RecoverPeer(c, m).open = c.open
<1> DEFINE d == RecoverPeer(c, m)  e == [c EXCEPT !.peer.st = "off"]
           v == Say(c, "restart", 0, m.conn)
<1>1. d = c \/ d = v \/ (c.peer.st = "dead" /\ d = e)
  BY DEF RecoverPeer
<1>2. m.conn \in Revisions /\ 0 \in Revisions /\ Fine(c)
  BY MessageTypes, SlotFacts
<1>3. d = c \/ d = v => Fine(d) /\ Keeps(c, d) /\ d.route = c.route /\ d.open = c.open
  BY <1>2, ReportedFine
<1>4. c.peer.st = "dead" => Fine(e) /\ Keeps(c, e) /\ e.route = c.route /\ e.open = c.open
  <2>1. c.peer.st = "dead" => c.peer # NoPeer
    BY NothingTypes
  <2> QED BY <2>1, WatchedFine
<1> HIDE DEF d, e, v
<1>5. Fine(d) /\ Keeps(c, d) /\ d.route = c.route /\ d.open = c.open
  BY <1>1, <1>3, <1>4
<1> QED BY <1>5 DEF d

LEMMA PageAuthenticatedFine ==
  ASSUME NEW c, Fine(c), NEW m \in Messages
  PROVE  Fine(PageAuthenticated(c, m)) /\ Spares(c, PageAuthenticated(c, m))
         /\ Stems(c, PageAuthenticated(c, m), m)
<1> DEFINE n == [m EXCEPT !.t = "active"]
           u == SetPaused(c, m.own)
           v == PageResynced(u, m, n)
           w == RecoverPeer(v, m)
<1>1. n \in Messages /\ n.t = "active" /\ n.rev = m.rev /\ m.own \in BOOLEAN
  BY DEF Messages
<1>2. PageAuthenticated(c, m) = w
  BY DEF PageAuthenticated
<1> HIDE DEF n
<1>3. Fine(u) /\ Keeps(c, u)
  BY <1>1, SetPausedFine
<1> HIDE DEF u
<1>4. Fine(v) /\ Spares(u, v) /\ Stems(u, v, n)
  BY <1>1, <1>3, RestartFine, ResyncAuthoritativeFine DEF PageResynced
<1>5. Spares(c, v)
  BY <1>3, <1>4, KeepsThen
<1> HIDE DEF v
<1>6. Fine(w) /\ Keeps(v, w) /\ w.route = v.route /\ w.open = v.open
  BY <1>4, RecoverPeerFine
<1> HIDE DEF w
<1>7. Spares(c, w)
  BY <1>5, <1>6 DEF Spares, Keeps, Holds
<1>8. Stems(c, v, m)
  BY <1>1, <1>3, <1>4 DEF Stems, Keeps, Settles
<1>9. Stems(c, w, m)
  BY <1>6, <1>8, SettlesItself, SettlesStems
<1> QED BY <1>2, <1>6, <1>7, <1>9

LEMMA AcceptOfferFine ==
  ASSUME NEW c, Fine(c), NEW m \in Messages, m.up \in Peers
  PROVE  Fine(AcceptOffer(c, m)) /\ Keeps(c, AcceptOffer(c, m))
<1> DEFINE d == AcceptOffer(c, m)
           q == [c.probe EXCEPT !.st = "new"]
           p == [parent |-> m.up, conn |-> m.conn, st |-> "new"]
           e == [c EXCEPT !.probe = q]
           f == [c EXCEPT !.peer = p]
<1>1. c \in Page /\ q \in Probes /\ p \in Watched
  BY PageTypes, MessageTypes DEF Fine, Probes, Watched
<1>2. [c EXCEPT !.probe.st = "new"] = e
  BY <1>1, PageIs
<1>3. d = c \/ (c.probe # NoProbe /\ d = e) \/ (c.parent = m.up /\ d = f)
  BY <1>2 DEF AcceptOffer
<1> HIDE DEF p, q
<1>4. /\ e \in Page /\ e.route = c.route /\ e.pending = c.pending
      /\ e.active = c.active /\ e.open = c.open /\ e.pendingPeer = c.pendingPeer
      /\ e.peer = c.peer /\ e.parent = c.parent
  BY <1>1, PageIs
<1>5. /\ f \in Page /\ f.route = c.route /\ f.pending = c.pending
      /\ f.active = c.active /\ f.open = c.open /\ f.pendingPeer = c.pendingPeer
      /\ f.probe = c.probe /\ f.parent = c.parent
  BY <1>1, PageIs
<1> HIDE DEF d, e, f
<1>6. c.probe # NoProbe => Fine(e) /\ Keeps(c, e)
  <2>1. c.probe # NoProbe => c.pending = NoSlot
                             /\ ~(c.route.phase = "prepare" /\ c.route.own
                                  /\ c.route.plan \in Publications)
    BY DEF Fine, Kept, PendingOK, PreparedOK
  <2> QED BY <1>4, <2>1, Aside
<1>7. c.parent = m.up => Fine(f) /\ Keeps(c, f)
  <2>1. c.parent = m.up => c.active = NoSlot
    BY SlotFacts DEF Fine, Kept, ActiveOK
  <2> QED BY <1>5, <2>1, Aside
<1>8. Fine(d) /\ Keeps(c, d)
  BY <1>3, <1>6, <1>7, KeepsItself
<1> QED BY <1>8 DEF d

LEMMA FreshPageFine ==
  ASSUME NEW link \in BOOLEAN, NEW sent \in Seq(Reports)
  PROVE  LET d == [FreshPage EXCEPT !.link = link, !.sent = sent]
         IN  Fine(d) /\ d.route = NoRoute
<1> DEFINE d == [FreshPage EXCEPT !.link = link, !.sent = sent]
<1>1. /\ d \in Page /\ d.route = NoRoute /\ d.pending = NoSlot /\ d.active = NoSlot
      /\ d.open = {} /\ d.pendingPeer = NoCandidate /\ d.probe = NoProbe
  BY PageIs, NothingTypes, SlotFacts DEF FreshPage
<1> HIDE DEF d
<1>2. RouteOK(NoRoute) /\ PreparedOK(NoRoute, NoCandidate, NoProbe)
  BY NothingTypes DEF RouteOK, PreparedOK
<1>3. Fine(d) /\ d.route = NoRoute
  BY <1>1, <1>2, NothingTypes DEF Fine, Kept, PendingOK, ActiveOK, OpenOf
<1> QED BY <1>3 DEF d

LEMMA StoppedFine ==
  ASSUME NEW c, Fine(c), NEW m
  PROVE  Fine(Stopped(c)) /\ Spares(c, Stopped(c)) /\ Stems(c, Stopped(c), m)
<1>1. c \in Page /\ c.link \in BOOLEAN /\ c.sent \in Seq(Reports)
  BY PageTypes DEF Fine
<1>2. Fine(Stopped(c)) /\ Stopped(c).route = NoRoute
  BY <1>1, FreshPageFine DEF Stopped
<1>3. c.active # NoSlot => c.active.pub # NoUp
  BY SlotFacts DEF Fine, Kept, ActiveOK
<1> QED BY <1>2, <1>3, NothingTypes DEF Spares, Stems

(* Only the page's socket changes.                                         *)
LEMMA SocketFine ==
  ASSUME NEW c, Fine(c), NEW link \in BOOLEAN, NEW sent \in Seq(Reports)
  PROVE  LET d == [c EXCEPT !.link = link, !.sent = sent]
         IN  Fine(d) /\ Keeps(c, d) /\ d.route = c.route /\ d.open = c.open
<1> DEFINE d == [c EXCEPT !.link = link, !.sent = sent]
<1>1. c \in Page
  BY DEF Fine
<1>2. /\ d \in Page /\ d.route = c.route /\ d.pending = c.pending /\ d.active = c.active
      /\ d.open = c.open /\ d.pendingPeer = c.pendingPeer /\ d.probe = c.probe
      /\ d.peer = c.peer /\ d.parent = c.parent
  BY <1>1, PageIs
<1> HIDE DEF d
<1>3. Fine(d) /\ Keeps(c, d) /\ d.route = c.route /\ d.open = c.open
  BY <1>2, Aside
<1> QED BY <1>3 DEF d

(* The greeting of a new connection also opens the page's socket.          *)
LEMMA GreetedFine ==
  ASSUME NEW c, Fine(c), NEW m \in Messages
  PROVE  LET d == PageAuthenticated([c EXCEPT !.link = TRUE], m)
         IN  Fine(d) /\ Spares(c, d) /\ Stems(c, d, m)
<1> DEFINE u == [c EXCEPT !.link = TRUE]  e == [c EXCEPT !.link = TRUE, !.sent = c.sent]
           d == PageAuthenticated(u, m)
<1>1. c \in Page /\ c.sent \in Seq(Reports) /\ TRUE \in BOOLEAN
  BY PageTypes DEF Fine
<1>2. u = e
  BY <1>1, PageIs
<1> HIDE DEF u
<1>3. Fine(e) /\ Keeps(c, e) /\ e.route = c.route
  BY <1>1, SocketFine
<1> HIDE DEF e
<1>4. Fine(u) /\ Keeps(c, u) /\ u.route = c.route
  BY <1>2, <1>3
<1>5. Fine(d) /\ Spares(u, d) /\ Stems(u, d, m)
  BY <1>4, PageAuthenticatedFine
<1> HIDE DEF d
<1>6. Spares(c, d) /\ Stems(c, d, m)
  BY <1>4, <1>5, KeepsThen DEF Stems
<1> QED BY <1>5, <1>6 DEF d, u

(* Whatever message the page handles.                                      *)
LEMMA HandleFine ==
  ASSUME NEW c, Fine(c), NEW m \in Messages,
         m.t = "config" => m.up \in Publications,
         m.t = "signal" => m.up \in Peers,
         m.t = "config" /\ c.route.phase = "prepare" /\ c.route.own /\ c.route.rev = m.rev
            => m.conn = m.rev
  PROVE  Fine(Handle(c, m)) /\ Spares(c, Handle(c, m)) /\ Stems(c, Handle(c, m), m)
<1> DEFINE d == Handle(c, m)
<1>1. m.own \in BOOLEAN
  BY MessageTypes
<1>2. d = PageAuthenticated([c EXCEPT !.link = TRUE], m)
        => Fine(d) /\ Spares(c, d) /\ Stems(c, d, m)
  BY GreetedFine
<1>3. m.t \in {"prepare", "active"} /\ d = Accept(c, m, TRUE) => Fine(d) /\ Spares(c, d) /\ Stems(c, d, m)
  BY AcceptFine
<1>4. m.t = "config" /\ d = AcceptConfig(c, m) => Fine(d) /\ Spares(c, d) /\ Stems(c, d, m)
  BY AcceptConfigFine, StemsItself
<1>5. m.t = "signal" /\ d = AcceptOffer(c, m) => Fine(d) /\ Spares(c, d) /\ Stems(c, d, m)
  BY AcceptOfferFine, KeepsSpares, StemsItself
<1>6. d = SetPaused(c, m.own) => Fine(d) /\ Spares(c, d) /\ Stems(c, d, m)
  BY <1>1, SetPausedFine, KeepsSpares, StemsItself
<1>7. d = Stopped(c) => Fine(d) /\ Spares(c, d) /\ Stems(c, d, m)
  BY StoppedFine
<1>8. \/ d = PageAuthenticated([c EXCEPT !.link = TRUE], m)
      \/ m.t \in {"prepare", "active"} /\ d = Accept(c, m, TRUE)
      \/ m.t = "config" /\ d = AcceptConfig(c, m)
      \/ m.t = "signal" /\ d = AcceptOffer(c, m)
      \/ d = SetPaused(c, m.own) \/ d = Stopped(c)
  BY DEF Handle
<1> HIDE DEF d
<1>9. Fine(d) /\ Spares(c, d) /\ Stems(c, d, m)
  BY <1>2, <1>3, <1>4, <1>5, <1>6, <1>7, <1>8
<1> QED BY <1>9 DEF d

-----------------------------------------------------------------------------
(* Events of media connections.                                            *)

LEMMA ProbeFine ==
  ASSUME NEW c, Fine(c), c.probe # NoProbe, NEW q \in Probes
  PROVE  /\ Fine([c EXCEPT !.probe = q]) /\ Keeps(c, [c EXCEPT !.probe = q])
         /\ [c EXCEPT !.probe = q].probe = q
         /\ [c EXCEPT !.probe = q].pendingPeer = c.pendingPeer
<1> DEFINE d == [c EXCEPT !.probe = q]
<1>1. c \in Page
  BY DEF Fine
<1>2. /\ d \in Page /\ d.route = c.route /\ d.pending = c.pending /\ d.active = c.active
      /\ d.open = c.open /\ d.pendingPeer = c.pendingPeer /\ d.probe = q
      /\ d.peer = c.peer /\ d.parent = c.parent
  BY <1>1, PageIs
<1> HIDE DEF d
<1>3. c.pending = NoSlot /\ ~(c.route.phase = "prepare" /\ c.route.own
                              /\ c.route.plan \in Publications)
  BY DEF Fine, Kept, PendingOK, PreparedOK
<1>4. Fine(d) /\ Keeps(c, d)
  BY <1>2, <1>3, Aside
<1> QED BY <1>2, <1>4 DEF d

LEMMA ProbeFields ==
  ASSUME NEW c \in Page, NEW st \in {"none", "new", "on", "off"},
         NEW decoded \in BOOLEAN, NEW ready \in BOOLEAN
  PROVE  /\ [c.probe EXCEPT !.st = st] \in Probes /\ [c.probe EXCEPT !.decoded = decoded] \in Probes
         /\ [c.probe EXCEPT !.ready = ready] \in Probes
         /\ [c.probe EXCEPT !.st = st, !.decoded = decoded, !.ready = ready] \in Probes
         /\ [c EXCEPT !.probe.st = st] = [c EXCEPT !.probe = [c.probe EXCEPT !.st = st]]
         /\ [c EXCEPT !.probe.decoded = decoded]
            = [c EXCEPT !.probe = [c.probe EXCEPT !.decoded = decoded]]
         /\ [c EXCEPT !.probe.ready = ready]
            = [c EXCEPT !.probe = [c.probe EXCEPT !.ready = ready]]
<1>1. c.probe \in Probes
  BY PageTypes
<1>2. /\ [c.probe EXCEPT !.st = st] \in Probes /\ [c.probe EXCEPT !.decoded = decoded] \in Probes
      /\ [c.probe EXCEPT !.ready = ready] \in Probes
      /\ [c.probe EXCEPT !.st = st, !.decoded = decoded, !.ready = ready] \in Probes
  BY <1>1 DEF Probes
<1>3. [c EXCEPT !.probe.st = st] = [c EXCEPT !.probe = [c.probe EXCEPT !.st = st]]
  BY PageIs
<1>4. [c EXCEPT !.probe.decoded = decoded]
      = [c EXCEPT !.probe = [c.probe EXCEPT !.decoded = decoded]]
  BY PageIs
<1>5. [c EXCEPT !.probe.ready = ready] = [c EXCEPT !.probe = [c.probe EXCEPT !.ready = ready]]
  BY PageIs
<1> QED BY <1>2, <1>3, <1>4, <1>5

LEMMA ProbeStFine ==
  ASSUME NEW c, Fine(c), c.probe # NoProbe, NEW st \in {"none", "new", "on", "off"}
  PROVE  /\ Fine([c EXCEPT !.probe.st = st]) /\ Keeps(c, [c EXCEPT !.probe.st = st])
<1>1. c \in Page /\ TRUE \in BOOLEAN
  BY DEF Fine
<1>2. /\ [c.probe EXCEPT !.st = st] \in Probes
      /\ [c EXCEPT !.probe.st = st] = [c EXCEPT !.probe = [c.probe EXCEPT !.st = st]]
  BY <1>1, ProbeFields
<1> QED BY <1>2, ProbeFine

LEMMA ProvePeerFine ==
  ASSUME NEW c, Fine(c)
  PROVE  Fine(ProvePeer(c)) /\ Keeps(c, ProvePeer(c))
<1> DEFINE u == Say(c, "ready", c.probe.rev, 0)
           q == [u.probe EXCEPT !.ready = c.link]
           d == [u EXCEPT !.probe = q]
<1>1. c \in Page /\ c.link \in BOOLEAN
  BY PageTypes DEF Fine
<1>2. c.probe.rev \in Revisions /\ 0 \in Revisions /\ "ready" \in Kinds
  BY <1>1, PageTypes, SlotFacts DEF Probes, Kinds
<1>3. Fine(u) /\ Keeps(c, u) /\ u \in Page /\ u.probe = c.probe
  BY <1>1, <1>2, SaidFine, Said
<1>4. ProvePeer(c) = c
      \/ (c.probe.st = "on" /\ ProvePeer(c) = [u EXCEPT !.probe.ready = c.link])
  BY DEF ProvePeer
<1> HIDE DEF u
<1>5. q \in Probes /\ [u EXCEPT !.probe.ready = c.link] = d
  BY <1>1, <1>3, ProbeFields
<1> HIDE DEF q
<1>6. c.probe.st = "on" => u.probe # NoProbe
  BY <1>3, NothingTypes
<1>7. c.probe.st = "on" => Fine(d) /\ Keeps(u, d)
  BY <1>3, <1>5, <1>6, ProbeFine
<1> HIDE DEF d
<1>8. c.probe.st = "on" => Fine(d) /\ Keeps(c, d)
  BY <1>3, <1>7, KeepsBoth
<1> QED BY <1>4, <1>5, <1>8, KeepsItself

LEMMA RetriedFine ==
  ASSUME NEW c, Fine(c)
  PROVE  /\ Fine(RetryPeerActivation(c)) /\ Spares(c, RetryPeerActivation(c))
         /\ Settles(c, RetryPeerActivation(c))
         /\ Fine(Exhausted(c)) /\ Spares(c, Exhausted(c)) /\ Settles(c, Exhausted(c))
<1>1. Fine(c) /\ Spares(c, c) /\ Settles(c, c)
  BY KeepsItself, KeepsSpares
<1>2. c.probe.rev \in Revisions
  BY PageTypes DEF Fine, Probes
<1>3. LET v == Say(c, "failed", c.probe.rev, c.probe.rev) IN Fine(v) /\ Spares(c, v) /\ Settles(c, v)
  <2> DEFINE v == Say(c, "failed", c.probe.rev, c.probe.rev)
  <2>1. v = Say(c, "failed", c.probe.rev, c.probe.rev)
    OBVIOUS
  <2> HIDE DEF v
  <2>2. Fine(v) /\ Keeps(c, v)
    BY <1>2, <2>1, ReportedFine
  <2> QED BY <2>2, KeepsSpares DEF v
<1> QED BY <1>1, <1>3, ActiveRouteFine DEF RetryPeerActivation, Exhausted

(* A pending subscriber that is touched, and an active one.                *)
LEMMA PendingTouched ==
  ASSUME NEW c, Fine(c), c.pending # NoSlot, NEW s \in Slots,
         s.conn = c.pending.conn, s.pub = c.pending.pub, s.rev = c.pending.rev,
         s.tok = c.pending.tok, ~s.failed
  PROVE  LET d == [c EXCEPT !.pending = s]
         IN  /\ Fine(d) /\ Keeps(c, d) /\ d.pending = s /\ s # NoSlot
             /\ d.route = c.route /\ d.link = c.link
<1> DEFINE d == [c EXCEPT !.pending = s]
<1>1. c \in Page
  BY DEF Fine
<1>2. /\ d \in Page /\ d.route = c.route /\ d.pending = s /\ d.active = c.active
      /\ d.open = c.open /\ d.pendingPeer = c.pendingPeer /\ d.probe = c.probe
      /\ d.peer = c.peer /\ d.parent = c.parent /\ d.link = c.link
  BY <1>1, PageIs
<1> HIDE DEF d
<1>3. c.pending.conn # 0 /\ ~c.pending.failed
  BY DEF Fine, Kept, PendingOK
<1>4. s # NoSlot
  BY <1>3, SlotFacts
<1>5. c.pending.failed = s.failed
  BY <1>1, <1>3, PageTypes, SlotTypes
<1>6. SameSlot(c.pending, d.pending) /\ SameSlot(c.active, d.active)
  BY <1>2, <1>4, <1>5 DEF SameSlot
<1>7. Fine(d)
  BY <1>2, <1>6, Touched
<1>8. Keeps(c, d)
  BY <1>2 DEF Keeps, Holds, Settles
<1>9. Fine(d) /\ Keeps(c, d) /\ d.pending = s /\ s # NoSlot /\ d.route = c.route /\ d.link = c.link
  BY <1>2, <1>4, <1>7, <1>8
<1> QED BY <1>9 DEF d

(* The updates of a pending subscriber's flags.                            *)
Variants(p, link, x, y) ==
  {[p EXCEPT !.link = link], [p EXCEPT !.video = x], [p EXCEPT !.decoded = x, !.armed = y],
   [p EXCEPT !.decoded = x], [p EXCEPT !.armed = x], [p EXCEPT !.ready = x]}

LEMMA PendingFields ==
  ASSUME NEW p \in Slots, ~p.failed,
         NEW link \in {"new", "on", "off"}, NEW x \in BOOLEAN, NEW y \in BOOLEAN
  PROVE  \A s \in Variants(p, link, x, y) :
           /\ s \in Slots /\ s.conn = p.conn /\ s.pub = p.pub
           /\ s.rev = p.rev /\ s.tok = p.tok /\ ~s.failed
BY DEF Slots, Variants

LEMMA PendingUpdates ==
  ASSUME NEW c \in Page, NEW link, NEW x, NEW y
  PROVE  /\ [c EXCEPT !.pending.link = link]
            = [c EXCEPT !.pending = [c.pending EXCEPT !.link = link]]
         /\ [c EXCEPT !.pending.video = x]
            = [c EXCEPT !.pending = [c.pending EXCEPT !.video = x]]
         /\ [c EXCEPT !.pending.decoded = x]
            = [c EXCEPT !.pending = [c.pending EXCEPT !.decoded = x]]
         /\ [c EXCEPT !.pending.decoded = x, !.pending.armed = y]
            = [c EXCEPT !.pending = [c.pending EXCEPT !.decoded = x, !.armed = y]]
         /\ [c EXCEPT !.pending.armed = x]
            = [c EXCEPT !.pending = [c.pending EXCEPT !.armed = x]]
         /\ [c EXCEPT !.pending.ready = x]
            = [c EXCEPT !.pending = [c.pending EXCEPT !.ready = x]]
<1>1. c.pending \in Slots
  BY PageTypes
<1>2. [c EXCEPT !.pending.link = link]
      = [c EXCEPT !.pending = [c.pending EXCEPT !.link = link]]
  BY PageIs
<1>3. [c EXCEPT !.pending.video = x]
      = [c EXCEPT !.pending = [c.pending EXCEPT !.video = x]]
  BY PageIs
<1>4. [c EXCEPT !.pending.decoded = x]
      = [c EXCEPT !.pending = [c.pending EXCEPT !.decoded = x]]
  BY PageIs
<1>5. [c EXCEPT !.pending.decoded = x, !.pending.armed = y]
      = [c EXCEPT !.pending = [c.pending EXCEPT !.decoded = x, !.armed = y]]
  BY PageIs
<1>6. [c EXCEPT !.pending.armed = x]
      = [c EXCEPT !.pending = [c.pending EXCEPT !.armed = x]]
  BY PageIs
<1>7. [c EXCEPT !.pending.ready = x]
      = [c EXCEPT !.pending = [c.pending EXCEPT !.ready = x]]
  BY PageIs
<1> QED BY <1>2, <1>3, <1>4, <1>5, <1>6, <1>7

PendingSets(c, link, x, y) ==
  {[c EXCEPT !.pending.link = link], [c EXCEPT !.pending.video = x],
   [c EXCEPT !.pending.decoded = x, !.pending.armed = y],
   [c EXCEPT !.pending.decoded = x], [c EXCEPT !.pending.armed = x],
   [c EXCEPT !.pending.ready = x]}

LEMMA PendingSet ==
  ASSUME NEW c, Fine(c), c.pending # NoSlot,
         NEW link \in {"new", "on", "off"}, NEW x \in BOOLEAN, NEW y \in BOOLEAN,
         NEW d \in PendingSets(c, link, x, y)
  PROVE  Fine(d) /\ Keeps(c, d) /\ d.pending # NoSlot /\ d.link = c.link
<1>1. c \in Page /\ ~c.pending.failed /\ c.pending \in Slots
  BY PageTypes DEF Fine, Kept, PendingOK
<1>2. PICK s \in Variants(c.pending, link, x, y) : d = [c EXCEPT !.pending = s]
  BY <1>1, PendingUpdates DEF PendingSets, Variants
<1>3. /\ s \in Slots /\ s.conn = c.pending.conn /\ s.pub = c.pending.pub
      /\ s.rev = c.pending.rev /\ s.tok = c.pending.tok /\ ~s.failed
  BY <1>1, PendingFields
<1> DEFINE e == [c EXCEPT !.pending = s]
<1>4. /\ Fine(e) /\ Keeps(c, e) /\ e.pending = s /\ s # NoSlot
      /\ e.route = c.route /\ e.link = c.link
  BY <1>3, PendingTouched
<1>5. d = e
  BY <1>2
<1> HIDE DEF e
<1> QED BY <1>4, <1>5

LEMMA SendPendingReadyFine ==
  ASSUME NEW c, Fine(c)
  PROVE  /\ Fine(SendPendingReady(c)) /\ Keeps(c, SendPendingReady(c))
         /\ c.pending # NoSlot => SendPendingReady(c).pending # NoSlot
<1> DEFINE u == Say(c, "ready", c.pending.rev, 0)
           d == [u EXCEPT !.pending.ready = c.link]
           e == SendPendingReady(c)
<1>1. c \in Page /\ c.link \in BOOLEAN
  BY PageTypes DEF Fine
<1>2. c.pending.rev \in Revisions /\ 0 \in Revisions /\ "ready" \in Kinds
  BY <1>1, PageTypes, SlotTypes, SlotFacts DEF Kinds
<1>3. Fine(u) /\ Keeps(c, u) /\ u.pending = c.pending
  BY <1>1, <1>2, SaidFine, Said
<1>4. e = c \/ (c.pending # NoSlot /\ e = d)
  BY SlotFacts DEF SendPendingReady
<1> HIDE DEF u
<1>5. d \in PendingSets(u, "new", c.link, TRUE)
  BY DEF PendingSets
<1> HIDE DEF d, e
<1>6. c.pending # NoSlot => Fine(d) /\ Keeps(u, d) /\ d.pending # NoSlot
  BY <1>1, <1>3, <1>5, PendingSet
<1>7. Fine(e) /\ Keeps(c, e) /\ (c.pending # NoSlot => e.pending # NoSlot)
  BY <1>3, <1>4, <1>6, KeepsItself, KeepsBoth
<1> QED BY <1>7 DEF e

LEMMA SlotFramesFine ==
  ASSUME NEW c, Fine(c), c.pending # NoSlot
  PROVE  Fine(SlotFrames(c)) /\ Spares(c, SlotFrames(c)) /\ Settles(c, SlotFrames(c))
<1> DEFINE u == [c EXCEPT !.pending.decoded = TRUE, !.pending.armed = FALSE]
           v == [c EXCEPT !.pending.armed = FALSE]
           w == [c EXCEPT !.pending.decoded = TRUE]
           x == SendPendingReady(w)
           b == ~c.link /\ ~c.pending.ready
           y == [x EXCEPT !.pending.armed = b]
           d == SlotFrames(c)
<1>1. /\ u \in PendingSets(c, "new", TRUE, FALSE) /\ v \in PendingSets(c, "new", FALSE, FALSE)
      /\ w \in PendingSets(c, "new", TRUE, FALSE)
  BY DEF PendingSets
<1>2. d = Promote(u) \/ d = v \/ d = y
  BY DEF SlotFrames
<1> HIDE DEF u, v, w, b
<1>3. /\ Fine(u) /\ Keeps(c, u) /\ Fine(v) /\ Keeps(c, v)
      /\ Fine(w) /\ Keeps(c, w) /\ w.pending # NoSlot
  BY <1>1, PendingSet
<1>4. Fine(x) /\ Keeps(w, x) /\ x.pending # NoSlot
  BY <1>3, SendPendingReadyFine
<1> HIDE DEF x
<1>5. b \in BOOLEAN /\ y \in PendingSets(x, "new", b, TRUE)
  BY DEF PendingSets, b
<1> HIDE DEF y
<1>6. Fine(y) /\ Keeps(x, y)
  BY <1>4, <1>5, PendingSet
<1>7. Fine(Promote(u)) /\ Spares(u, Promote(u)) /\ Settles(u, Promote(u))
  BY <1>3, PromoteFine
<1> HIDE DEF d
<1>8. d = Promote(u) => Fine(d) /\ Spares(c, d) /\ Settles(c, d)
  BY <1>3, <1>7, KeepsThen
<1>9. d = v => Fine(d) /\ Spares(c, d) /\ Settles(c, d)
  BY <1>3, KeepsSpares
<1>10. Keeps(c, x)
  BY <1>3, <1>4, KeepsBoth
<1>11. d = y => Fine(d) /\ Spares(c, d) /\ Settles(c, d)
  BY <1>6, <1>10, KeepsBoth, KeepsSpares
<1>12. Fine(d) /\ Spares(c, d) /\ Settles(c, d)
  BY <1>2, <1>8, <1>9, <1>11
<1> QED BY <1>12 DEF d

LEMMA UntouchedSpares ==
  ASSUME NEW c, NEW d, Fine(c), d.open = c.open
  PROVE  Spares(c, d)
BY DEF Fine, Kept, OpenOf, Spares

(* An active subscriber's link.                                            *)
LEMMA ActiveLinkFine ==
  ASSUME NEW c, Fine(c), NEW link \in {"new", "on", "off"}, c.active # NoSlot
  PROVE  Fine([c EXCEPT !.active.link = link]) /\ Spares(c, [c EXCEPT !.active.link = link])
         /\ Settles(c, [c EXCEPT !.active.link = link])
<1> DEFINE s == [c.active EXCEPT !.link = link]  d == [c EXCEPT !.active = s]
<1>1. c \in Page /\ c.active \in Slots
  BY PageTypes DEF Fine
<1>2. s \in Slots /\ s.conn = c.active.conn /\ s.pub = c.active.pub
      /\ s.failed = c.active.failed
  BY <1>1 DEF Slots
<1>3. [c EXCEPT !.active.link = link] = d
  BY <1>1, PageIs
<1> HIDE DEF s
<1>4. /\ d \in Page /\ d.route = c.route /\ d.pending = c.pending /\ d.active = s
      /\ d.open = c.open /\ d.pendingPeer = c.pendingPeer /\ d.probe = c.probe
      /\ d.peer = c.peer /\ d.parent = c.parent
  BY <1>1, <1>2, PageIs
<1> HIDE DEF d
<1>5. c.active.conn # 0
  BY DEF Fine, Kept, ActiveOK
<1>6. s # NoSlot
  BY <1>2, <1>5, SlotFacts
<1>7. SameSlot(c.pending, d.pending) /\ SameSlot(c.active, d.active)
  BY <1>2, <1>4, <1>6 DEF SameSlot
<1>8. Fine(d)
  BY <1>4, <1>7, Touched
<1> QED BY <1>3, <1>4, <1>8, UntouchedSpares, SettlesItself

LEMMA ProbeEventFine ==
  ASSUME Fine(client), ProbeConnects \/ ProbeDecodes \/ ProbeBreaks \/ ProbeExhausted
  PROVE  Fine(client') /\ Spares(client, client') /\ Settles(client, client')
<1>1. client \in Page /\ TRUE \in BOOLEAN /\ FALSE \in BOOLEAN
  BY DEF Fine
<1>2. client.probe.st # "none" => client.probe # NoProbe
  BY NothingTypes
<1>3. CASE ProbeConnects
  <2> DEFINE u == [client EXCEPT !.probe.st = "on"]  v == ProvePeer(u)
  <2>1. client.probe # NoProbe /\ client' = RetryPeerActivation(v)
    BY <1>2, <1>3 DEF ProbeConnects, Event
  <2>2. Fine(u) /\ Keeps(client, u)
    BY <2>1, ProbeStFine
  <2> HIDE DEF u
  <2>3. Fine(v) /\ Keeps(u, v)
    BY <2>2, ProvePeerFine
  <2> HIDE DEF v
  <2>4. Keeps(client, v)
    BY <2>2, <2>3, KeepsBoth
  <2> QED BY <2>1, <2>3, <2>4, RetriedFine, KeepsThen
<1>4. CASE ProbeDecodes
  <2> DEFINE q == [client.probe EXCEPT !.decoded = TRUE]
             u == [client EXCEPT !.probe = q]
  <2>1. client.probe # NoProbe /\ client' = ProvePeer([client EXCEPT !.probe.decoded = TRUE])
    BY <1>2, <1>4 DEF ProbeDecodes, Event
  <2>2. q \in Probes /\ [client EXCEPT !.probe.decoded = TRUE] = u
    BY <1>1, ProbeFields
  <2> HIDE DEF q
  <2>3. Fine(u) /\ Keeps(client, u)
    BY <2>1, <2>2, ProbeFine
  <2> HIDE DEF u
  <2>4. Fine(ProvePeer(u)) /\ Keeps(client, ProvePeer(u))
    BY <2>3, ProvePeerFine, KeepsBoth
  <2> QED BY <2>1, <2>2, <2>4, KeepsSpares
<1>5. CASE ProbeBreaks
  <2> DEFINE u == [client EXCEPT !.probe.st = "off"]
  <2>1. client.probe # NoProbe /\ client' = u
    BY <1>2, <1>5 DEF ProbeBreaks, Disturb
  <2>2. Fine(u) /\ Keeps(client, u)
    BY <2>1, ProbeStFine
  <2> HIDE DEF u
  <2> QED BY <2>1, <2>2, KeepsSpares
<1>6. CASE ProbeExhausted
  <2> DEFINE q == [client.probe EXCEPT !.st = "none", !.decoded = FALSE, !.ready = FALSE]
             u == [client EXCEPT !.probe = q]
  <2>1. client.probe # NoProbe
        /\ client' = Exhausted([client EXCEPT !.probe.st = "none", !.probe.decoded = FALSE,
                                              !.probe.ready = FALSE])
    BY <1>2, <1>6 DEF ProbeExhausted, Disturb
  <2>2. q \in Probes
    BY <1>1, ProbeFields
  <2>3. [client EXCEPT !.probe.st = "none", !.probe.decoded = FALSE,
                       !.probe.ready = FALSE] = u
    BY <1>1, PageIs
  <2> HIDE DEF q
  <2>4. Fine(u) /\ Keeps(client, u)
    BY <2>1, <2>2, ProbeFine
  <2> HIDE DEF u
  <2>5. Fine(Exhausted(u)) /\ Spares(u, Exhausted(u)) /\ Settles(u, Exhausted(u))
    BY <2>4, RetriedFine
  <2> QED BY <2>1, <2>3, <2>4, <2>5, KeepsThen
<1> QED BY <1>3, <1>4, <1>5, <1>6

LEMMA PeerEventFine ==
  ASSUME Fine(client), PeerConnects \/ PeerBreaks \/ PeerExhausted
  PROVE  Fine(client') /\ Spares(client, client') /\ Settles(client, client')
<1>1. client \in Page
  BY DEF Fine
<1>2. client.peer.st # "none" => client.peer # NoPeer
  BY NothingTypes
<1>3. CASE PeerConnects
  <2> DEFINE u == [client EXCEPT !.peer.st = "on"]
  <2>1. client.peer # NoPeer /\ client' = u
    BY <1>2, <1>3 DEF PeerConnects, Event
  <2>2. Fine(u) /\ Keeps(client, u)
    BY <2>1, WatchedFine
  <2> HIDE DEF u
  <2> QED BY <2>1, <2>2, KeepsSpares
<1>4. CASE PeerBreaks
  <2> DEFINE u == [client EXCEPT !.peer.st = "off"]
  <2>1. client.peer # NoPeer /\ client' = u
    BY <1>2, <1>4 DEF PeerBreaks, Disturb
  <2>2. Fine(u) /\ Keeps(client, u)
    BY <2>1, WatchedFine
  <2> HIDE DEF u
  <2> QED BY <2>1, <2>2, KeepsSpares
<1>5. CASE PeerExhausted
  <2> DEFINE v == ReportPeer(client)  u == [v EXCEPT !.peer.st = "dead"]
  <2>1. client.peer # NoPeer /\ client' = u
    BY <1>2, <1>5 DEF PeerExhausted, Disturb
  <2>2. client.route.tok \in Revisions /\ client.peer.conn \in Revisions /\ "lost" \in Kinds
    BY <1>1, PageTypes, RouteTypes DEF Watched, Kinds
  <2>3. v = client \/ v = Say(client, "lost", client.route.tok, client.peer.conn)
    BY DEF ReportPeer, Lost
  <2> HIDE DEF v
  <2>4. Fine(v) /\ Keeps(client, v)
    BY <2>2, <2>3, ReportedFine
  <2>5. v.peer = client.peer
    BY <1>1, <2>2, <2>3, Said
  <2>6. Fine(u) /\ Keeps(v, u)
    BY <2>1, <2>4, <2>5, WatchedFine
  <2> HIDE DEF u
  <2>7. Keeps(client, u)
    BY <2>4, <2>6, KeepsBoth
  <2> QED BY <2>1, <2>6, <2>7, KeepsSpares
<1> QED BY <1>3, <1>4, <1>5

LEMMA SlotEventFine ==
  ASSUME Fine(client), SlotConnects \/ SlotVideo \/ SlotDecodes \/ SlotBreaks \/ SlotFails
  PROVE  Fine(client') /\ Spares(client, client') /\ Settles(client, client')
<1>1. client \in Page
  BY DEF Fine
<1>2. client.pending.link # "new" \/ client.pending.armed => client.pending # NoSlot
  BY SlotFacts
<1>3. client.active.link # "new" => client.active # NoSlot
  BY SlotFacts
<1>4. CASE SlotConnects
  <2> DEFINE u == [client EXCEPT !.pending.link = "on"]  v == SendPendingReady(u)
             w == [client EXCEPT !.active.link = "on"]
  <2>1. \/ client.pending # NoSlot /\ client' = Promote(v)
        \/ client.active # NoSlot /\ client' = w
    BY <1>4 DEF SlotConnects, Event
  <2>2. u \in PendingSets(client, "on", TRUE, TRUE)
    BY DEF PendingSets
  <2>3. client.active # NoSlot => Fine(w) /\ Spares(client, w) /\ Settles(client, w)
    BY ActiveLinkFine
  <2> HIDE DEF u, w
  <2>4. client.pending # NoSlot => Fine(u) /\ Keeps(client, u)
    BY <2>2, PendingSet
  <2>5. Fine(u) => Fine(v) /\ Keeps(u, v)
    BY SendPendingReadyFine
  <2> HIDE DEF v
  <2>6. client.pending # NoSlot => Fine(Promote(v)) /\ Spares(client, Promote(v)) /\ Settles(client, Promote(v))
    BY <2>4, <2>5, PromoteFine, KeepsBoth, KeepsThen
  <2> QED BY <2>1, <2>3, <2>6
<1>5. CASE SlotVideo
  <2> DEFINE u == [client EXCEPT !.pending.video = TRUE]
  <2>1. client.pending # NoSlot /\ client' = Promote(u)
    BY <1>5 DEF SlotVideo, Event
  <2>2. u \in PendingSets(client, "on", TRUE, TRUE)
    BY DEF PendingSets
  <2> HIDE DEF u
  <2>3. Fine(u) /\ Keeps(client, u)
    BY <2>1, <2>2, PendingSet
  <2> QED BY <2>1, <2>3, PromoteFine, KeepsThen
<1>6. CASE SlotDecodes
  <2>1. client.pending # NoSlot /\ client' = SlotFrames(client)
    BY <1>2, <1>6 DEF SlotDecodes, Event
  <2> QED BY <2>1, SlotFramesFine
<1>7. CASE SlotBreaks
  <2> DEFINE u == [client EXCEPT !.pending.link = "off"]
             w == [client EXCEPT !.active.link = "off"]
  <2>1. \/ client.pending # NoSlot /\ client' = u
        \/ client.active # NoSlot /\ client' = w
    BY <1>2, <1>3, <1>7 DEF SlotBreaks, Disturb
  <2>2. u \in PendingSets(client, "off", TRUE, TRUE)
    BY DEF PendingSets
  <2>3. client.active # NoSlot => Fine(w) /\ Spares(client, w) /\ Settles(client, w)
    BY ActiveLinkFine
  <2> HIDE DEF u, w
  <2>4. client.pending # NoSlot => Fine(u) /\ Keeps(client, u)
    BY <2>2, PendingSet
  <2> QED BY <2>1, <2>3, <2>4, KeepsSpares
<1>8. CASE SlotFails
  <2>1. \/ client' = FailSlot(client, "pending", client.pending)
        \/ client.active # NoSlot /\ client' = FailSlot(client, "active", client.active)
    BY <1>8 DEF SlotFails, Disturb
  <2>2. CASE client' = FailSlot(client, "pending", client.pending)
    BY <2>2, FailPendingFine, KeepsSpares
  <2>3. CASE client.active # NoSlot /\ client' = FailSlot(client, "active", client.active)
    BY <2>3, FailActiveFine DEF Spares
  <2> QED BY <2>1, <2>2, <2>3
<1> QED BY <1>4, <1>5, <1>6, <1>7, <1>8

-----------------------------------------------------------------------------
(* What is in flight, and what the server may add to it.                   *)

LEMMA ServerTypes ==
  ASSUME NEW s \in Servers
  PROVE  /\ s.rev \in Revisions /\ s.last \in Revisions /\ s.up \in Upstreams
         /\ s.conn \in Revisions /\ s.plan \in Plans /\ s.paused \in BOOLEAN
         /\ s.told \in BOOLEAN /\ s.offers \in SUBSET Revisions
         /\ s.plan.rev \in Revisions /\ s.plan.up \in Upstreams /\ s.plan.own \in BOOLEAN
         /\ s.rev \in Nat /\ s.last \in Nat /\ s.conn \in Nat /\ s.plan.rev \in Nat
BY SlotFacts DEF Servers, Plans

LEMMA NoPlanIs ==
  NoPlan \in Plans /\ ~NoPlan.own /\ NoPlan.rev = 0 /\ NoPlan.up = NoUp
BY SlotFacts DEF NoPlan, Plans

LEMMA InFlightPushed ==
  ASSUME NEW q \in Seq(Messages), NEW p \in Seq(Messages)
  PROVE  q \o p \in Seq(Messages) /\ InFlight(q \o p) = InFlight(q) \cup InFlight(p)
<1>1. /\ q \o p \in Seq(Messages) /\ Len(q \o p) = Len(q) + Len(p)
      /\ \A i \in 1..(Len(q) + Len(p)) :
            (q \o p)[i] = IF i <= Len(q) THEN q[i] ELSE p[i - Len(q)]
  BY ConcatProperties
<1>2. /\ DOMAIN q = 1..Len(q) /\ DOMAIN p = 1..Len(p) /\ DOMAIN (q \o p) = 1..(Len(q) + Len(p))
      /\ Len(q) \in Nat /\ Len(p) \in Nat
  BY <1>1
<1>3. InFlight(q \o p) \subseteq InFlight(q) \cup InFlight(p)
  <2> SUFFICES ASSUME NEW i \in 1..(Len(q) + Len(p))
               PROVE  (q \o p)[i] \in InFlight(q) \cup InFlight(p)
    BY <1>2 DEF InFlight
  <2>1. CASE i <= Len(q)
    BY <1>1, <1>2, <2>1 DEF InFlight
  <2>2. CASE ~(i <= Len(q))
    <3>1. i - Len(q) \in 1..Len(p)
      BY <1>2, <2>2
    <3> QED BY <1>1, <1>2, <2>2, <3>1 DEF InFlight
  <2> QED BY <2>1, <2>2
<1>4. InFlight(q) \subseteq InFlight(q \o p)
  <2> SUFFICES ASSUME NEW i \in 1..Len(q)
               PROVE  q[i] \in InFlight(q \o p)
    BY <1>2 DEF InFlight
  <2>1. i \in 1..(Len(q) + Len(p)) /\ (q \o p)[i] = q[i]
    BY <1>1, <1>2
  <2> QED BY <1>2, <2>1 DEF InFlight
<1>5. InFlight(p) \subseteq InFlight(q \o p)
  <2> SUFFICES ASSUME NEW i \in 1..Len(p)
               PROVE  p[i] \in InFlight(q \o p)
    BY <1>2 DEF InFlight
  <2>1. i + Len(q) \in 1..(Len(q) + Len(p)) /\ ~(i + Len(q) <= Len(q))
        /\ i + Len(q) - Len(q) = i
    BY <1>2
  <2>2. (q \o p)[i + Len(q)] = p[i]
    BY <1>1, <2>1
  <2> QED BY <1>2, <2>1, <2>2 DEF InFlight
<1> QED BY <1>1, <1>3, <1>4, <1>5

LEMMA InFlightSome ==
  /\ <<>> \in Seq(Messages) /\ InFlight(<<>>) = {}
  /\ \A a \in Messages : <<a>> \in Seq(Messages) /\ InFlight(<<a>>) = {a}
  /\ \A a, b \in Messages : <<a, b>> \in Seq(Messages) /\ InFlight(<<a, b>>) = {a, b}
  /\ \A a, b, c \in Messages :
        <<a, b, c>> \in Seq(Messages) /\ InFlight(<<a, b, c>>) = {a, b, c}
<1>1. <<>> \in Seq(Messages) /\ InFlight(<<>>) = {}
  BY DEF InFlight
<1>2. \A a \in Messages : <<a>> \in Seq(Messages) /\ InFlight(<<a>>) = {a}
  BY DEF InFlight
<1>3. \A a, b \in Messages : <<a, b>> \in Seq(Messages) /\ InFlight(<<a, b>>) = {a, b}
  <2> TAKE a, b \in Messages
  <2>1. DOMAIN <<a, b>> = {1, 2}
    OBVIOUS
  <2> QED BY <2>1 DEF InFlight
<1>4. \A a, b, c \in Messages :
         <<a, b, c>> \in Seq(Messages) /\ InFlight(<<a, b, c>>) = {a, b, c}
  <2> TAKE a, b, c \in Messages
  <2>1. DOMAIN <<a, b, c>> = {1, 2, 3}
    OBVIOUS
  <2> QED BY <2>1 DEF InFlight
<1> QED BY <1>1, <1>2, <1>3, <1>4

LEMMA InFlightHead ==
  ASSUME NEW q \in Seq(Messages), q # <<>>
  PROVE  /\ Head(q) \in Messages /\ Head(q) \in InFlight(q)
         /\ Tail(q) \in Seq(Messages) /\ InFlight(Tail(q)) \subseteq InFlight(q)
<1>1. Head(q) \in Messages /\ Tail(q) \in Seq(Messages) /\ Len(q) \in Nat \ {0}
  BY EmptySeq
<1>2. 1 \in DOMAIN q /\ Head(q) = q[1]
  BY <1>1
<1>3. \A i \in DOMAIN Tail(q) : Tail(q)[i] = q[i + 1] /\ i + 1 \in DOMAIN q
  BY <1>1
<1> QED BY <1>1, <1>2, <1>3 DEF InFlight

LEMMA InFlightTyped ==
  ASSUME NEW q \in Seq(Messages)
  PROVE  InFlight(q) \subseteq Messages
BY DEF InFlight

LEMMA OwnIsOld ==
  ASSUME NEW s \in Servers, NEW M, NEW c, Numbered(s), Described(s, M, c),
         NEW r, OwnPlan(s, M, c, r)
  PROVE  r <= s.last
BY NoPlanIs DEF OwnPlan, Described, Numbered

(* A server step: new messages are about what it holds afterwards, and an  *)
(* own preparation it adds has the fresh revision n.                       *)
LEMMA ServedDescribed ==
  ASSUME NEW s \in Servers, NEW t \in Servers, NEW M \in SUBSET Messages,
         NEW L \in SUBSET Messages, NEW c, c.route.rev \in Nat,
         Numbered(s), Described(s, M, c), NEW n \in Nat, s.last < n, s.last <= t.last,
         \A m \in L : /\ m.rev <= t.last
                      /\ m.t = "config" => m.up \in Publications
                      /\ m.t = "signal" => m.up \in Peers
                      /\ m.t = "prepare" /\ m.own => m.rev = n
                      /\ m.t = "config" => m.conn = m.rev \/ (m.rev = t.rev /\ m.conn = t.conn),
         t.plan.own => t.plan = s.plan \/ t.plan.rev = n,
         t.plan # NoPlan /\ ~t.plan.own => t.plan = s.plan \/ (t.plan.rev > s.last /\ t.plan.rev # n),
         \/ t.rev = s.rev /\ t.conn = s.conn
         \/ t.rev > s.last /\ t.rev # n
         \/ t.conn = t.rev
         \/ t.rev # n /\ ~OwnPlan(s, M, c, t.rev)
  PROVE  Described(t, M \cup L, c)
<1>1. /\ t.last \in Nat /\ s.last \in Nat /\ t.rev \in Nat /\ t.plan.rev \in Nat
      /\ s.rev \in Nat /\ s.plan.rev \in Nat
      /\ \A m \in M \cup L : m.rev \in Nat
  BY ServerTypes, MessageTypes
<1>2. \A r : OwnPlan(t, M \cup L, c, r) => OwnPlan(s, M, c, r) \/ r = n
  BY DEF OwnPlan
<1>3. \A r : OwnPlan(s, M, c, r) => r <= s.last
  BY OwnIsOld
<1>4. OwnPlan(t, M \cup L, c, t.rev) => t.conn = t.rev
  <2>1. s.rev <= s.last
    BY DEF Numbered
  <2>2. OwnPlan(s, M, c, s.rev) => s.conn = s.rev
    BY DEF Described
  <2> QED BY <1>1, <1>2, <1>3, <2>1, <2>2
<1>5. t.plan # NoPlan /\ ~t.plan.own => ~OwnPlan(t, M \cup L, c, t.plan.rev)
  <2>1. s.plan # NoPlan /\ ~s.plan.own => ~OwnPlan(s, M, c, s.plan.rev) /\ s.plan.rev <= s.last
    BY DEF Described, Numbered
  <2>2. CASE t.plan = s.plan
    <3>1. s.plan # NoPlan /\ ~s.plan.own => s.plan.rev # n
      BY <1>1, <2>1
    <3> QED BY <1>2, <2>1, <2>2, <3>1
  <2>3. CASE t.plan # s.plan
    <3>1. SUFFICES ASSUME t.plan # NoPlan, ~t.plan.own
                   PROVE  ~OwnPlan(t, M \cup L, c, t.plan.rev)
      OBVIOUS
    <3>2. t.plan.rev > s.last /\ t.plan.rev # n
      BY <2>3, <3>1
    <3>3. ~OwnPlan(s, M, c, t.plan.rev)
      BY <1>1, <1>3, <3>2
    <3> QED BY <1>2, <3>2, <3>3
  <2> QED BY <2>2, <2>3
<1>6. ASSUME NEW m \in M \cup L
      PROVE  /\ m.rev <= t.last
             /\ m.t = "config" => m.up \in Publications
             /\ m.t = "config" /\ OwnPlan(t, M \cup L, c, m.rev) => m.conn = m.rev
             /\ m.t = "signal" => m.up \in Peers
  <2>1. CASE m \in M
    <3>1. /\ m.rev <= s.last
          /\ m.t = "config" => m.up \in Publications
          /\ m.t = "config" /\ OwnPlan(s, M, c, m.rev) => m.conn = m.rev
          /\ m.t = "signal" => m.up \in Peers
      BY <2>1 DEF Described
    <3>2. m.rev <= t.last /\ m.rev # n
      <4>1. m.rev \in Nat
        BY <1>1
      <4> QED BY <1>1, <3>1, <4>1
    <3>3. m.t = "config" /\ OwnPlan(t, M \cup L, c, m.rev) => m.conn = m.rev
      BY <1>2, <3>1, <3>2
    <3> QED BY <3>1, <3>2, <3>3
  <2>2. CASE m \in L
    BY <1>4, <2>2
  <2> QED BY <2>1, <2>2
<1>7. c.route.rev <= t.last
  BY <1>1 DEF Described
<1> QED BY <1>4, <1>5, <1>6, <1>7 DEF Described

(* Dropping messages, and a step of the page.                              *)
LEMMA FewerDescribed ==
  ASSUME NEW s, NEW M, NEW L \in SUBSET M, NEW c, Described(s, M, c)
  PROVE  Described(s, L, c)
<1>1. \A r : OwnPlan(s, L, c, r) => OwnPlan(s, M, c, r)
  BY DEF OwnPlan
<1> QED BY <1>1 DEF Described

LEMMA PageDescribed ==
  ASSUME NEW s, NEW M, NEW c, NEW d, Described(s, M, c), Settles(c, d)
  PROVE  Described(s, M, d)
<1>1. \A r : OwnPlan(s, M, d, r) => OwnPlan(s, M, c, r)
  BY DEF OwnPlan, Settles
<1> QED BY <1>1 DEF Described, Settles

LEMMA HandledDescribed ==
  ASSUME NEW s \in Servers, NEW M, NEW L \in SUBSET M, NEW m \in M, NEW c, NEW d,
         Described(s, M, c), Stems(c, d, m)
  PROVE  Described(s, L, d)
<1>1. \A r : OwnPlan(s, L, d, r) => OwnPlan(s, M, c, r)
  BY DEF OwnPlan, Stems
<1>2. d.route.rev <= s.last
  BY ServerTypes DEF Described, Stems
<1> QED BY <1>1, <1>2 DEF Described

(* What ServedDescribed asks of a server step from s to t that sends L,    *)
(* where n is a fresh revision.                                            *)
Honest(s, t, M, L, c, n) ==
  /\ s.last < n /\ s.last <= t.last
  /\ \A m \in L : /\ m.rev <= t.last
                  /\ m.t = "config" => m.up \in Publications
                  /\ m.t = "signal" => m.up \in Peers
                  /\ m.t = "prepare" /\ m.own => m.rev = n
                  /\ m.t = "config" => m.conn = m.rev \/ (m.rev = t.rev /\ m.conn = t.conn)
  /\ t.plan.own => t.plan = s.plan \/ t.plan.rev = n
  /\ t.plan # NoPlan /\ ~t.plan.own => t.plan = s.plan \/ (t.plan.rev > s.last /\ t.plan.rev # n)
  /\ \/ t.rev = s.rev /\ t.conn = s.conn
     \/ t.rev > s.last /\ t.rev # n
     \/ t.conn = t.rev
     \/ t.rev # n /\ ~OwnPlan(s, M, c, t.rev)

LEMMA RouteInvIs ==
  RouteInv <=> /\ Fine(client) /\ server \in Servers /\ inbox \in Seq(Messages)
               /\ Numbered(server) /\ Described(server, InFlight(inbox), client)
BY DEF RouteInv, RouteTyped, Fine

LEMMA RouteInvHolds ==
  ASSUME Fine(client'), server' \in Servers, inbox' \in Seq(Messages),
         Numbered(server'), Described(server', InFlight(inbox'), client')
  PROVE  RouteInv'
BY DEF RouteInv, RouteTyped, Fine

LEMMA ServeFine ==
  ASSUME RouteInv, NEW t \in Servers, Numbered(t), NEW msgs \in Seq(Messages), NEW n \in Nat,
         Honest(server, t, InFlight(inbox), InFlight(msgs), client, n),
         server' = t, inbox' \in {inbox \o msgs, inbox, msgs},
         Fine(client'), client'.route = client.route
  PROVE  RouteInv'
<1>1. /\ Fine(client) /\ server \in Servers /\ inbox \in Seq(Messages)
      /\ Numbered(server) /\ Described(server, InFlight(inbox), client)
  BY RouteInvIs
<1>2. /\ InFlight(inbox) \in SUBSET Messages /\ InFlight(msgs) \in SUBSET Messages
  BY <1>1, InFlightTyped
<1>3. client.route.rev \in Nat
  BY <1>1, PageTypes, RouteTypes DEF Fine
<1>4. Described(t, InFlight(inbox) \cup InFlight(msgs), client)
  BY <1>1, <1>2, <1>3, ServedDescribed DEF Honest
<1>5. inbox' \in Seq(Messages) /\ InFlight(inbox') \in SUBSET (InFlight(inbox) \cup InFlight(msgs))
  BY <1>1, InFlightPushed
<1>6. Described(t, InFlight(inbox'), client)
  BY <1>4, <1>5, FewerDescribed
<1>7. Described(t, InFlight(inbox'), client')
  BY <1>6, SettlesItself, PageDescribed
<1> QED BY <1>5, <1>7, RouteInvHolds

LEMMA MsgIs ==
  ASSUME NEW t \in {"auth", "rejoin", "prepare", "active", "config", "signal", "status", "stop"},
         NEW rev \in Revisions, NEW up \in Upstreams, NEW conn \in Revisions,
         NEW own \in BOOLEAN
  PROVE  /\ Msg(t, rev, up, conn, own) \in Messages
         /\ Msg(t, rev, up, conn, own).t = t /\ Msg(t, rev, up, conn, own).rev = rev
         /\ Msg(t, rev, up, conn, own).up = up /\ Msg(t, rev, up, conn, own).conn = conn
         /\ Msg(t, rev, up, conn, own).own = own
BY DEF Msg, Messages

(* A message that says nothing new about a preparation.                    *)
Plain(t, m) ==
  /\ m \in Messages /\ m.rev <= t.last
  /\ m.t = "config" => m.up \in Publications /\ m.rev = t.rev /\ m.conn = t.conn
  /\ m.t = "signal" => m.up \in Peers
  /\ ~(m.t = "prepare" /\ m.own)

LEMMA ActiveIsPlain ==
  ASSUME NEW t \in Servers, Numbered(t)
  PROVE  Plain(t, Active(t))
<1>1. t.rev \in Revisions /\ t.up \in Upstreams /\ 0 \in Revisions /\ FALSE \in BOOLEAN
  BY ServerTypes, SlotFacts
<1> DEFINE m(own) == Msg("active", t.rev, t.up, 0, own)
<1>2. \A own \in BOOLEAN : m(own) \in Messages /\ m(own).t = "active" /\ m(own).rev = t.rev
  BY <1>1, MsgIs
<1>3. Active(t) = m(FALSE)
  BY DEF Active
<1> HIDE DEF m
<1>4. /\ Active(t) \in Messages /\ Active(t).t = "active" /\ Active(t).rev = t.rev
  BY <1>2, <1>3
<1> QED BY <1>4 DEF Plain, Numbered

LEMMA StatusIsPlain ==
  ASSUME NEW t \in Servers, NEW k \in {"status", "stop"}, NEW own \in BOOLEAN
  PROVE  Plain(t, Msg(k, 0, NoUp, 0, own))
<1>1. NoUp \in Upstreams /\ 0 \in Revisions /\ 0 <= t.last
  BY ServerTypes, SlotFacts
<1>2. /\ Msg(k, 0, NoUp, 0, own) \in Messages /\ Msg(k, 0, NoUp, 0, own).t = k
      /\ Msg(k, 0, NoUp, 0, own).rev = 0
  BY <1>1, MsgIs
<1> QED BY <1>1, <1>2 DEF Plain

(* A step to the next revision that ends the operation in flight.          *)
LEMMA CommittedNumbered ==
  ASSUME NEW s \in Servers, Numbered(s), NEW t \in Servers,
         t.rev = s.last + 1, t.last = s.last + 1, t.conn <= s.rev, t.plan = NoPlan,
         t.offers \subseteq s.offers
  PROVE  Numbered(t)
<1>1. /\ s.last \in Nat /\ s.rev \in Nat /\ t.conn \in Nat
      /\ \A n \in s.offers : n \in Nat /\ n <= s.last
  BY ServerTypes, SlotFacts DEF Numbered
<1>2. s.rev <= s.last /\ ~t.plan.own
  BY NoPlanIs DEF Numbered
<1>3. \A n \in t.offers : n <= t.last
  <2> TAKE n \in t.offers
  <2>1. n \in Nat /\ n <= s.last
    BY <1>1
  <2> QED BY <1>1, <2>1
<1>4. t.conn <= t.rev /\ t.rev <= t.last
  BY <1>1, <1>2
<1> QED BY <1>2, <1>3, <1>4 DEF Numbered

LEMMA CommittedStep ==
  ASSUME NEW s \in Servers, NEW t \in Servers,
         t.rev = s.last + 1, t.last = s.last + 1, t.plan = NoPlan,
         NEW M, NEW c, NEW L, \A m \in L : Plain(t, m)
  PROVE  s.last + 2 \in Nat /\ Honest(s, t, M, L, c, s.last + 2)
<1>1. s.last \in Nat /\ ~t.plan.own
  BY ServerTypes, NoPlanIs
<1>2. s.last < s.last + 2 /\ s.last <= t.last /\ t.rev > s.last /\ t.rev # s.last + 2
  BY <1>1
<1>3. \A m \in L : /\ m.rev <= t.last
                   /\ m.t = "config" => m.up \in Publications
                   /\ m.t = "signal" => m.up \in Peers
                   /\ ~(m.t = "prepare" /\ m.own)
                   /\ m.t = "config" => m.rev = t.rev /\ m.conn = t.conn
  BY DEF Plain
<1> QED BY <1>1, <1>2, <1>3 DEF Honest

LEMMA CommittedIs ==
  ASSUME NEW s \in Servers, s.last + 1 <= MaxRevision, NEW up \in Upstreams,
         NEW conn \in Revisions
  PROVE  /\ Committed(s, up, conn) \in Servers
         /\ Committed(s, up, conn).rev = s.last + 1 /\ Committed(s, up, conn).last = s.last + 1
         /\ Committed(s, up, conn).up = up /\ Committed(s, up, conn).conn = conn
         /\ Committed(s, up, conn).plan = NoPlan /\ Committed(s, up, conn).told = s.told
         /\ Committed(s, up, conn).paused = s.paused /\ Committed(s, up, conn).offers = s.offers
<1>1. s.last + 1 \in Revisions
  BY ServerTypes, ViewerRouteAssumption DEF Revisions
<1> DEFINE k == s.last + 1
<1> HIDE DEF k
<1>2. Committed(s, up, conn) = [s EXCEPT !.rev = k, !.last = k, !.up = up,
                                         !.conn = conn, !.plan = NoPlan]
  BY DEF Committed, k
<1>3. k \in Revisions
  BY <1>1 DEF k
<1> QED BY <1>2, <1>3, NoPlanIs DEF Servers, k

LEMMA CommitFine ==
  ASSUME RouteInv, NEW t \in Servers,
         t.rev = server.last + 1, t.last = server.last + 1, t.conn <= server.rev,
         t.plan = NoPlan, t.offers \subseteq server.offers,
         NEW msgs \in Seq(Messages), \A m \in InFlight(msgs) : Plain(t, m),
         server' = t, inbox' \in {inbox \o msgs, inbox, msgs},
         Fine(client'), client'.route = client.route
  PROVE  RouteInv'
<1>1. server \in Servers /\ Numbered(server)
  BY RouteInvIs
<1>2. server.last + 2 \in Nat
      /\ Honest(server, t, InFlight(inbox), InFlight(msgs), client, server.last + 2)
  BY <1>1, CommittedStep
<1>3. Numbered(t)
  BY <1>1, CommittedNumbered
<1> QED BY <1>2, <1>3, ServeFine

(* A step that leaves the route where it is.                               *)
LEMMA RemainFine ==
  ASSUME RouteInv, NEW t \in Servers, Numbered(t),
         t.rev = server.rev, t.last = server.last, t.conn = server.conn,
         t.plan = server.plan,
         NEW msgs \in Seq(Messages), \A m \in InFlight(msgs) : Plain(t, m),
         server' = t, inbox' \in {inbox \o msgs, inbox, msgs},
         Fine(client'), client'.route = client.route
  PROVE  RouteInv'
<1>1. server.last \in Nat /\ server.last + 1 \in Nat
  BY RouteInvIs, ServerTypes
<1>2. Honest(server, t, InFlight(inbox), InFlight(msgs), client, server.last + 1)
  BY <1>1 DEF Honest, Plain
<1> QED BY <1>1, <1>2, ServeFine

LEMMA ServeIs ==
  ASSUME RouteInv, NEW t, NEW msgs, Serve(t, msgs)
  PROVE  /\ server' = t /\ inbox' \in {inbox \o msgs, inbox, msgs}
         /\ client' = client /\ Fine(client') /\ client'.route = client.route
<1>1. client' = client /\ server' = t /\ (inbox' = inbox \o msgs \/ inbox' = inbox)
  BY DEF Serve, Push
<1> QED BY <1>1, RouteInvIs

LEMMA PrepareOwnFine ==
  ASSUME RouteInv, PrepareOwn
  PROVE  RouteInv'
<1> DEFINE k == server.last + 1
<1>1. PICK up \in Peers \cup Publications :
        /\ server.plan = NoPlan /\ Room(2)
        /\ Serve([server EXCEPT !.last = @ + 1,
                                !.plan = [rev |-> server.last + 1, up |-> up, own |-> TRUE],
                                !.offers = IF up \in Peers THEN @ \cup {server.last + 1} ELSE @],
                 <<Msg("prepare", server.last + 1, up, 0, TRUE)>> \o
                 IF up \in Publications
                 THEN <<Msg("config", server.last + 1, up, server.last + 1, FALSE)>>
                 ELSE <<>>)
  BY DEF PrepareOwn
<1>2. /\ server \in Servers /\ inbox \in Seq(Messages) /\ Numbered(server)
  BY RouteInvIs
<1>3. k \in Nat /\ k \in Revisions /\ k < MaxRevision /\ server.last < k /\ server.last \in Nat
      /\ MaxRevision \in Nat
  BY <1>1, <1>2, ServerTypes, ViewerRouteAssumption DEF Room, Revisions
<1>4. up \in Upstreams /\ TRUE \in BOOLEAN /\ FALSE \in BOOLEAN /\ 0 \in Revisions
  BY SlotFacts
<1> DEFINE plan == [rev |-> k, up |-> up, own |-> TRUE]
           offers == IF up \in Peers THEN server.offers \cup {k} ELSE server.offers
           t == [server EXCEPT !.last = k, !.plan = plan, !.offers = offers]
           p == Msg("prepare", k, up, 0, TRUE)  g == Msg("config", k, up, k, FALSE)
           msgs == <<p>> \o IF up \in Publications THEN <<g>> ELSE <<>>
<1>5. Serve(t, msgs)
  BY <1>1, <1>2 DEF Servers
<1>6. plan \in Plans /\ plan.rev = k /\ plan.up = up /\ plan.own
  BY <1>3, <1>4 DEF Plans
<1>7. offers \in SUBSET Revisions /\ (\A n \in offers : n \in Nat /\ n <= k)
      /\ (k \in offers => up \in Peers)
  <2>1. server.offers \in SUBSET Revisions /\ (\A n \in server.offers : n \in Nat /\ n <= server.last)
    BY <1>2, ServerTypes, SlotFacts DEF Numbered
  <2>2. \A n \in server.offers : n <= k /\ n # k
    BY <1>3, <2>1
  <2> QED BY <1>3, <2>1, <2>2
<1>8. /\ p \in Messages /\ p.t = "prepare" /\ p.rev = k /\ p.own
      /\ g \in Messages /\ g.t = "config" /\ g.rev = k /\ g.conn = k /\ g.up = up
  <2>1. p \in Messages /\ p.t = "prepare" /\ p.rev = k /\ p.own
    BY <1>3, <1>4 DEF Msg, Messages
  <2>2. g \in Messages /\ g.t = "config" /\ g.rev = k /\ g.conn = k /\ g.up = up
    BY <1>3, <1>4 DEF Msg, Messages
  <2> QED BY <2>1, <2>2
<1> HIDE DEF k, plan, offers, p, g
<1>9. /\ t \in Servers /\ t.last = k /\ t.plan = plan /\ t.offers = offers
      /\ t.rev = server.rev /\ t.conn = server.conn
  BY <1>2, <1>3, <1>6, <1>7 DEF Servers
<1>10. msgs \in Seq(Messages)
       /\ InFlight(msgs) = IF up \in Publications THEN {p, g} ELSE {p}
  <2> DEFINE a == <<p>>  b == IF up \in Publications THEN <<g>> ELSE <<>>
  <2>1. a \in Seq(Messages) /\ InFlight(a) = {p}
    BY <1>8, InFlightSome
  <2>2. b \in Seq(Messages) /\ InFlight(b) = IF up \in Publications THEN {g} ELSE {}
    BY <1>8, InFlightSome
  <2>3. msgs = a \o b
    OBVIOUS
  <2> HIDE DEF a, b, msgs
  <2>4. msgs \in Seq(Messages) /\ InFlight(msgs) = InFlight(a) \cup InFlight(b)
    BY <2>1, <2>2, <2>3, InFlightPushed
  <2> QED BY <2>1, <2>2, <2>4
<1> HIDE DEF t, msgs
<1>11. Numbered(t)
  <2>1. server.conn <= server.rev /\ server.rev <= server.last
        /\ server.rev \in Nat /\ server.conn \in Nat
    BY <1>2, ServerTypes DEF Numbered
  <2>2. t.rev < k /\ t.rev <= k
    BY <1>3, <1>9, <2>1
  <2>3. t.conn <= t.rev /\ t.rev <= t.last
    BY <1>9, <2>1, <2>2
  <2>4. t.rev < t.plan.rev /\ t.plan.rev <= t.last /\ t.last < MaxRevision
    BY <1>3, <1>6, <1>9, <2>2
  <2>5. \A n \in t.offers : n <= t.last
    BY <1>7, <1>9
  <2>6. t.plan.rev \in t.offers => t.plan.up \in Peers
    BY <1>6, <1>7, <1>9
  <2> QED BY <2>3, <2>4, <2>5, <2>6 DEF Numbered
<1>12. Honest(server, t, InFlight(inbox), InFlight(msgs), client, k)
  <2>1. k <= t.last
    BY <1>3, <1>9
  <2>2. \A m \in InFlight(msgs) :
          /\ m.rev <= t.last
          /\ m.t = "config" => m.up \in Publications
          /\ m.t # "signal"
          /\ m.t = "prepare" /\ m.own => m.rev = k
          /\ m.t = "config" => m.conn = m.rev
    BY <1>8, <1>10, <2>1
  <2> QED BY <1>3, <1>6, <1>9, <2>2 DEF Honest
<1>13. /\ server' = t /\ inbox' \in {inbox \o msgs, inbox, msgs}
       /\ Fine(client') /\ client'.route = client.route
  BY <1>5, ServeIs
<1> QED BY <1>3, <1>9, <1>10, <1>11, <1>12, <1>13, ServeFine

LEMMA PrepareOtherFine ==
  ASSUME RouteInv, PrepareOther
  PROVE  RouteInv'
<1> DEFINE k == server.last + 1
           plan == [rev |-> k, up |-> server.up, own |-> FALSE]
           t == [server EXCEPT !.last = k, !.plan = plan]
           p == Msg("prepare", k, server.up, 0, FALSE)
           msgs == <<p>>
<1>1. server.plan = NoPlan /\ Room(2) /\ server \in Servers /\ Numbered(server)
  BY RouteInvIs DEF PrepareOther
<1>2. k \in Nat /\ k \in Revisions /\ k < MaxRevision /\ server.last < k /\ server.last \in Nat
      /\ k + 1 \in Nat /\ MaxRevision \in Nat
  BY <1>1, ServerTypes, ViewerRouteAssumption DEF Room, Revisions
<1>3. server.up \in Upstreams /\ FALSE \in BOOLEAN /\ 0 \in Revisions
  BY <1>1, ServerTypes, SlotFacts
<1>4. Serve(t, msgs)
  BY <1>1 DEF PrepareOther, Servers
<1>5. plan \in Plans /\ plan.rev = k /\ ~plan.own
  BY <1>2, <1>3 DEF Plans
<1>6. p \in Messages /\ p.t = "prepare" /\ p.rev = k /\ ~p.own
  BY <1>2, <1>3 DEF Msg, Messages
<1> HIDE DEF k, plan, p
<1>7. /\ t \in Servers /\ t.last = k /\ t.plan = plan /\ t.offers = server.offers
      /\ t.rev = server.rev /\ t.conn = server.conn
  BY <1>1, <1>2, <1>5 DEF Servers
<1>8. msgs \in Seq(Messages) /\ InFlight(msgs) = {p}
  BY <1>6, InFlightSome
<1> HIDE DEF t, msgs
<1>9. /\ server.conn <= server.rev /\ server.rev <= server.last
      /\ server.rev \in Nat /\ server.conn \in Nat
      /\ \A n \in server.offers : n \in Nat /\ n <= server.last
  BY <1>1, ServerTypes, SlotFacts DEF Numbered
<1>10. Numbered(t)
  <2>1. t.conn <= t.rev /\ t.rev <= t.last
    BY <1>2, <1>7, <1>9
  <2>2. t.rev < t.plan.rev /\ t.plan.rev <= t.last /\ t.last < MaxRevision
    BY <1>2, <1>5, <1>7, <1>9
  <2>3. \A n \in t.offers : n <= t.last
    BY <1>2, <1>7, <1>9
  <2> QED BY <1>5, <1>7, <2>1, <2>2, <2>3 DEF Numbered
<1>11. Honest(server, t, InFlight(inbox), InFlight(msgs), client, k + 1)
  <2>1. server.last < k + 1 /\ server.last <= t.last /\ t.plan.rev > server.last
        /\ t.plan.rev # k + 1
    BY <1>2, <1>5, <1>7
  <2>2. k <= t.last
    BY <1>2, <1>7
  <2>3. \A m \in InFlight(msgs) : m.rev <= t.last /\ m.t # "config" /\ m.t # "signal" /\ ~m.own
    BY <1>6, <1>8, <2>2
  <2> QED BY <1>5, <1>7, <2>1, <2>3 DEF Honest
<1>12. /\ server' = t /\ inbox' \in {inbox \o msgs, inbox, msgs}
       /\ Fine(client') /\ client'.route = client.route
  BY <1>4, ServeIs
<1> QED BY <1>2, <1>7, <1>8, <1>10, <1>11, <1>12, ServeFine

LEMMA CommitOtherFine ==
  ASSUME RouteInv, CommitOther
  PROVE  RouteInv'
<1> DEFINE t == [server EXCEPT !.rev = server.plan.rev, !.plan = NoPlan]
           p == Msg("active", server.plan.rev, server.up, 0, FALSE)
           msgs == <<p>>
<1>1. /\ server.plan # NoPlan /\ ~server.plan.own /\ Serve(t, msgs)
      /\ server \in Servers /\ Numbered(server)
      /\ Described(server, InFlight(inbox), client)
  BY RouteInvIs DEF CommitOther
<1>2. /\ server.plan.rev \in Revisions /\ server.up \in Upstreams /\ FALSE \in BOOLEAN
      /\ 0 \in Revisions /\ server.last \in Nat /\ server.last + 1 \in Nat
      /\ server.plan.rev \in Nat /\ server.rev \in Nat /\ server.conn \in Nat
  BY <1>1, ServerTypes, SlotFacts
<1>3. p \in Messages /\ p.t = "active" /\ p.rev = server.plan.rev
  BY <1>2 DEF Msg, Messages
<1> HIDE DEF p
<1>4. /\ t \in Servers /\ t.rev = server.plan.rev /\ t.plan = NoPlan /\ t.last = server.last
      /\ t.conn = server.conn /\ t.offers = server.offers
  BY <1>1, <1>2, NoPlanIs DEF Servers
<1>5. msgs \in Seq(Messages) /\ InFlight(msgs) = {p}
  BY <1>3, InFlightSome
<1> HIDE DEF t, msgs
<1>6. /\ server.conn <= server.rev /\ server.rev < server.plan.rev
      /\ server.plan.rev <= server.last
      /\ ~OwnPlan(server, InFlight(inbox), client, server.plan.rev)
  BY <1>1 DEF Numbered, Described
<1>7. Numbered(t)
  <2>1. t.conn <= t.rev
    BY <1>2, <1>4, <1>6
  <2> QED BY <1>1, <1>4, <1>6, <2>1, NoPlanIs DEF Numbered
<1>8. Honest(server, t, InFlight(inbox), InFlight(msgs), client, server.last + 1)
  <2>1. server.last < server.last + 1 /\ server.last <= t.last /\ t.rev # server.last + 1
    BY <1>2, <1>4, <1>6
  <2>2. \A m \in InFlight(msgs) : m.rev <= t.last /\ m.t = "active"
    BY <1>3, <1>4, <1>5, <1>6
  <2> QED BY <1>4, <1>6, <2>1, <2>2, NoPlanIs DEF Honest
<1>9. /\ server' = t /\ inbox' \in {inbox \o msgs, inbox, msgs}
      /\ Fine(client') /\ client'.route = client.route
  BY <1>1, ServeIs
<1> QED BY <1>2, <1>4, <1>5, <1>7, <1>8, <1>9, ServeFine

LEMMA AbortFine ==
  ASSUME RouteInv, Abort
  PROVE  RouteInv'
<1> DEFINE t == Committed(server, server.up, server.conn)  msgs == <<Active(t)>>
<1>1. server.plan # NoPlan /\ Serve(t, msgs) /\ server \in Servers /\ Numbered(server)
  BY RouteInvIs DEF Abort
<1>2. /\ server.last + 1 <= MaxRevision /\ server.up \in Upstreams /\ server.conn \in Revisions
      /\ server.conn <= server.rev
  BY <1>1, ServerTypes, ViewerRouteAssumption DEF Numbered
<1>3. /\ t \in Servers /\ t.rev = server.last + 1 /\ t.last = server.last + 1
      /\ t.conn = server.conn /\ t.plan = NoPlan /\ t.offers = server.offers
  BY <1>1, <1>2, CommittedIs
<1> HIDE DEF t
<1>4. t.conn <= server.rev /\ t.offers \subseteq server.offers
  BY <1>2, <1>3
<1>5. Plain(t, Active(t))
  BY <1>1, <1>3, <1>4, CommittedNumbered, ActiveIsPlain
<1>6. msgs \in Seq(Messages) /\ InFlight(msgs) = {Active(t)}
  BY <1>5, InFlightSome DEF Plain
<1>7. \A m \in InFlight(msgs) : Plain(t, m)
  BY <1>5, <1>6
<1> HIDE DEF msgs
<1>8. /\ server' = t /\ inbox' \in {inbox \o msgs, inbox, msgs}
      /\ Fine(client') /\ client'.route = client.route
  BY <1>1, ServeIs
<1> QED BY <1>3, <1>4, <1>6, <1>7, <1>8, CommitFine

(* The committed upstream leaves: alone, with the Host, or with the        *)
(* session.                                                                *)
Vacated(s, paused, offers) ==
  [Committed(s, NoUp, 0) EXCEPT !.told = FALSE, !.paused = paused, !.offers = offers]

LEMMA VacatedIs ==
  ASSUME NEW s \in Servers, Numbered(s), s.last + 1 <= MaxRevision,
         NEW paused \in BOOLEAN, NEW offers \in SUBSET s.offers
  PROVE  LET t == Vacated(s, paused, offers)
         IN  /\ t \in Servers /\ t.rev = s.last + 1 /\ t.last = s.last + 1
             /\ t.conn <= s.rev /\ t.plan = NoPlan /\ t.offers \subseteq s.offers
             /\ t.up = NoUp /\ t.conn = 0 /\ t.paused = paused
             /\ Numbered(t) /\ Plain(t, Active(t))
<1> DEFINE u == Committed(s, NoUp, 0)  t == Vacated(s, paused, offers)
<1>1. NoUp \in Upstreams /\ 0 \in Revisions /\ s.rev \in Nat /\ s.offers \in SUBSET Revisions
  BY SlotFacts, ServerTypes
<1>2. /\ u \in Servers /\ u.rev = s.last + 1 /\ u.last = s.last + 1 /\ u.up = NoUp
      /\ u.conn = 0 /\ u.plan = NoPlan
  BY <1>1, CommittedIs
<1>3. t = [u EXCEPT !.told = FALSE, !.paused = paused, !.offers = offers]
  BY DEF Vacated
<1> HIDE DEF u, t
<1>4. /\ t \in Servers /\ t.rev = s.last + 1 /\ t.last = s.last + 1 /\ t.up = NoUp
      /\ t.conn = 0 /\ t.plan = NoPlan /\ t.offers = offers /\ t.paused = paused
  BY <1>1, <1>2, <1>3 DEF Servers
<1>5. t.conn <= s.rev /\ t.offers \subseteq s.offers
  BY <1>1, <1>4
<1>6. Numbered(t)
  BY <1>4, <1>5, CommittedNumbered
<1>7. Plain(t, Active(t))
  BY <1>4, <1>6, ActiveIsPlain
<1>8. /\ t \in Servers /\ t.rev = s.last + 1 /\ t.last = s.last + 1
      /\ t.conn <= s.rev /\ t.plan = NoPlan /\ t.offers \subseteq s.offers
      /\ t.up = NoUp /\ t.conn = 0 /\ t.paused = paused
      /\ Numbered(t) /\ Plain(t, Active(t))
  BY <1>4, <1>5, <1>6, <1>7
<1> QED BY <1>8 DEF t

LEMMA LoseFine ==
  ASSUME RouteInv, Lose
  PROVE  RouteInv'
<1> DEFINE u == Committed(server, NoUp, 0)
           t == [u EXCEPT !.told = FALSE]
           msgs == <<Active(u)>>
<1>1. Room(1) /\ Serve(t, msgs) /\ server \in Servers /\ Numbered(server)
  BY RouteInvIs DEF Lose
<1>2. /\ server.last + 1 <= MaxRevision /\ NoUp \in Upstreams /\ 0 \in Revisions
      /\ server.paused \in BOOLEAN
  BY <1>1, SlotFacts, ServerTypes DEF Room
<1>3. /\ u \in Servers /\ u.paused = server.paused /\ u.offers = server.offers
      /\ u.rev = server.last + 1 /\ u.up = NoUp
  BY <1>1, <1>2, CommittedIs
<1>4. t = Vacated(server, server.paused, server.offers)
  <2>1. Vacated(server, server.paused, server.offers)
        = [u EXCEPT !.told = FALSE, !.paused = server.paused, !.offers = server.offers]
    BY DEF Vacated
  <2> HIDE DEF u
  <2> QED BY <1>3, <2>1 DEF Servers
<1> HIDE DEF u, t
<1>5. /\ t \in Servers /\ t.rev = server.last + 1 /\ t.last = server.last + 1
      /\ t.conn <= server.rev /\ t.plan = NoPlan /\ t.offers \subseteq server.offers
      /\ t.up = NoUp /\ Plain(t, Active(t))
  BY <1>1, <1>2, <1>4, VacatedIs
<1>6. Active(u) = Active(t)
  BY <1>3, <1>5 DEF Active
<1>7. msgs \in Seq(Messages) /\ InFlight(msgs) = {Active(t)}
  BY <1>5, <1>6, InFlightSome DEF Plain
<1>8. \A m \in InFlight(msgs) : Plain(t, m)
  BY <1>5, <1>7
<1> HIDE DEF msgs
<1>9. /\ server' = t /\ inbox' \in {inbox \o msgs, inbox, msgs}
      /\ Fine(client') /\ client'.route = client.route
  BY <1>1, ServeIs
<1> QED BY <1>5, <1>7, <1>8, <1>9, CommitFine

LEMMA NothingPushed ==
  ASSUME RouteInv
  PROVE  /\ <<>> \in Seq(Messages) /\ \A t : \A m \in InFlight(<<>>) : Plain(t, m)
         /\ server \in Servers /\ Numbered(server) /\ inbox \in Seq(Messages)
BY RouteInvIs, InFlightSome

LEMMA OnePushed ==
  ASSUME NEW t, NEW m, Plain(t, m)
  PROVE  <<m>> \in Seq(Messages) /\ \A a \in InFlight(<<m>>) : Plain(t, a)
<1>1. m \in Messages
  BY DEF Plain
<1>2. <<m>> \in Seq(Messages) /\ InFlight(<<m>>) = {m}
  BY <1>1, InFlightSome
<1> QED BY <1>2

LEMMA MorePushed ==
  ASSUME NEW t, NEW q \in Seq(Messages), NEW p \in Seq(Messages),
         \A a \in InFlight(q) : Plain(t, a), \A a \in InFlight(p) : Plain(t, a)
  PROVE  q \o p \in Seq(Messages) /\ \A a \in InFlight(q \o p) : Plain(t, a)
BY InFlightPushed

LEMMA ParentOffersFine ==
  ASSUME RouteInv, ParentOffers
  PROVE  RouteInv'
<1>1. server \in Servers /\ Numbered(server)
  BY RouteInvIs
<1>2. PICK conn \in server.offers :
         Serve([server EXCEPT !.offers = @ \ {conn}],
               IF server.plan.own /\ conn = server.plan.rev
               THEN <<Msg("signal", 0, server.plan.up, conn, FALSE)>>
               ELSE IF conn = server.conn /\ server.up \in Peers
               THEN <<Msg("signal", 0, server.up, conn, FALSE)>>
               ELSE <<>>)
  BY DEF ParentOffers
<1> DEFINE t == [server EXCEPT !.offers = server.offers \ {conn}]
           p == Msg("signal", 0, server.plan.up, conn, FALSE)
           g == Msg("signal", 0, server.up, conn, FALSE)
           msgs == IF server.plan.own /\ conn = server.plan.rev THEN <<p>>
                   ELSE IF conn = server.conn /\ server.up \in Peers THEN <<g>> ELSE <<>>
<1>3. Serve(t, msgs)
  BY <1>1, <1>2 DEF Servers
<1>4. /\ conn \in Revisions /\ server.plan.up \in Upstreams /\ server.up \in Upstreams
      /\ 0 \in Revisions /\ FALSE \in BOOLEAN /\ server.last \in Nat
      /\ server.offers \in SUBSET Revisions
  BY <1>1, ServerTypes, SlotFacts
<1>5. /\ p \in Messages /\ p.t = "signal" /\ p.rev = 0 /\ p.up = server.plan.up
      /\ g \in Messages /\ g.t = "signal" /\ g.rev = 0 /\ g.up = server.up
  <2>1. p \in Messages /\ p.t = "signal" /\ p.rev = 0 /\ p.up = server.plan.up
    BY <1>4 DEF Msg, Messages
  <2>2. g \in Messages /\ g.t = "signal" /\ g.rev = 0 /\ g.up = server.up
    BY <1>4 DEF Msg, Messages
  <2> QED BY <2>1, <2>2
<1> HIDE DEF p, g
<1>6. /\ t \in Servers /\ t.rev = server.rev /\ t.last = server.last /\ t.conn = server.conn
      /\ t.plan = server.plan /\ t.offers = server.offers \ {conn}
  BY <1>1, <1>4 DEF Servers
<1> HIDE DEF t
<1>7. Numbered(t)
  BY <1>1, <1>6 DEF Numbered
<1>8. 0 <= t.last
  BY <1>4, <1>6
<1>9. server.plan.own /\ conn = server.plan.rev => Plain(t, p)
  BY <1>1, <1>5, <1>8 DEF Plain, Numbered
<1>10. server.up \in Peers => Plain(t, g)
  BY <1>5, <1>8 DEF Plain
<1>11. msgs \in Seq(Messages) /\ \A m \in InFlight(msgs) : Plain(t, m)
  BY <1>9, <1>10, OnePushed, NothingPushed
<1> HIDE DEF msgs
<1>12. /\ server' = t /\ inbox' \in {inbox \o msgs, inbox, msgs}
       /\ Fine(client') /\ client'.route = client.route
  BY <1>3, ServeIs
<1> QED BY <1>6, <1>7, <1>11, <1>12, RemainFine

LEMMA HostPausesFine ==
  ASSUME RouteInv, HostPauses
  PROVE  RouteInv'
<1>1. /\ server \in Servers /\ Numbered(server) /\ Fine(client) /\ client' = client
      /\ Room(1)
  BY RouteInvIs DEF HostPauses
<1>2. /\ server.last + 1 <= MaxRevision /\ server.up \in Upstreams /\ server.conn \in Revisions
      /\ server.conn <= server.rev /\ server.paused \in BOOLEAN /\ TRUE \in BOOLEAN
      /\ (~server.paused) \in BOOLEAN
  BY <1>1, ServerTypes DEF Numbered, Room
<1>3. CASE ~server.paused /\ server.plan # NoPlan
  <2> DEFINE u == Committed(server, server.up, server.conn)
             t == [u EXCEPT !.paused = TRUE]
             a == <<Active(u)>>  b == <<Msg("status", 0, NoUp, 0, TRUE)>>
             msgs == <<Active(u), Msg("status", 0, NoUp, 0, TRUE)>>
  <2>1. server' = t /\ (inbox' = inbox \o msgs \/ inbox' = inbox)
    BY <1>3 DEF HostPauses, Push
  <2>2. /\ u \in Servers /\ u.rev = server.last + 1 /\ u.last = server.last + 1
        /\ u.up = server.up
        /\ u.conn = server.conn /\ u.plan = NoPlan /\ u.offers = server.offers
    BY <1>1, <1>2, CommittedIs
  <2> HIDE DEF u
  <2>3. /\ t \in Servers /\ t.rev = server.last + 1 /\ t.last = server.last + 1
        /\ t.conn <= server.rev /\ t.plan = NoPlan /\ t.offers \subseteq server.offers
        /\ t.up = u.up
    BY <1>2, <2>2 DEF Servers
  <2> HIDE DEF t
  <2>4. Active(u) = Active(t)
    BY <2>2, <2>3 DEF Active
  <2>5. Plain(t, Active(u))
    BY <1>1, <2>3, <2>4, CommittedNumbered, ActiveIsPlain
  <2>6. \A own \in BOOLEAN : Plain(t, Msg("status", 0, NoUp, 0, own))
    BY <2>3, StatusIsPlain
  <2>7. Plain(t, Msg("status", 0, NoUp, 0, TRUE))
    BY <1>2, <2>6
  <2>8. msgs \in Seq(Messages)
        /\ InFlight(msgs) = {Active(u), Msg("status", 0, NoUp, 0, TRUE)}
    <3>1. Active(u) \in Messages /\ Msg("status", 0, NoUp, 0, TRUE) \in Messages
      BY <2>5, <2>7 DEF Plain
    <3> QED BY <3>1, InFlightSome
  <2>9. \A m \in InFlight(msgs) : Plain(t, m)
    BY <2>5, <2>7, <2>8
  <2>10. inbox' \in {inbox \o msgs, inbox, msgs}
    BY <2>1
  <2> HIDE DEF msgs
  <2> QED BY <1>1, <2>1, <2>3, <2>8, <2>9, <2>10, CommitFine
<1>4. CASE ~(~server.paused /\ server.plan # NoPlan)
  <2> DEFINE t == [server EXCEPT !.paused = ~server.paused]
             p(own) == Msg("status", 0, NoUp, 0, own)
             msgs == <<p(~server.paused)>>
  <2>1. server' = t /\ (inbox' = inbox \o msgs \/ inbox' = inbox)
    BY <1>1, <1>4 DEF HostPauses, Push, Servers
  <2>2. /\ t \in Servers /\ t.rev = server.rev /\ t.last = server.last /\ t.conn = server.conn
        /\ t.plan = server.plan /\ t.offers = server.offers
    BY <1>1, <1>2 DEF Servers
  <2> HIDE DEF t
  <2>3. Numbered(t)
    BY <1>1, <2>2 DEF Numbered
  <2>4. \A own \in BOOLEAN : Plain(t, p(own))
    BY <2>2, StatusIsPlain
  <2> HIDE DEF p
  <2>5. msgs \in Seq(Messages) /\ \A m \in InFlight(msgs) : Plain(t, m)
    BY <1>2, <2>4, OnePushed
  <2>6. inbox' \in {inbox \o msgs, inbox, msgs}
    BY <2>1
  <2> HIDE DEF msgs
  <2> QED BY <1>1, <2>1, <2>2, <2>3, <2>5, <2>6, RemainFine
<1> QED BY <1>3, <1>4

LEMMA HostRestartsFine ==
  ASSUME RouteInv, HostRestarts
  PROVE  RouteInv'
<1> DEFINE u == Committed(server, NoUp, 0)
           t == [u EXCEPT !.told = FALSE, !.paused = FALSE, !.offers = {}]
           msgs == <<Msg("stop", 0, NoUp, 0, FALSE), Active(u),
                     Msg("status", 0, NoUp, 0, FALSE)>>
<1>1. /\ server \in Servers /\ Numbered(server) /\ Fine(client) /\ client' = client
      /\ Room(1) /\ server' = t /\ (inbox' = inbox \o msgs \/ inbox' = inbox)
  BY RouteInvIs DEF HostRestarts, Push
<1>2. /\ server.last + 1 <= MaxRevision /\ FALSE \in BOOLEAN /\ {} \in SUBSET server.offers
      /\ NoUp \in Upstreams /\ 0 \in Revisions
  BY <1>1, SlotFacts DEF Room
<1>3. t = Vacated(server, FALSE, {})
  BY DEF Vacated
<1>4. u.rev = server.last + 1 /\ u.up = NoUp
  BY <1>1, <1>2, CommittedIs
<1> HIDE DEF u, t
<1>5. \A own \in BOOLEAN : LET v == Vacated(server, own, {})
         IN /\ v \in Servers /\ v.rev = server.last + 1 /\ v.last = server.last + 1
            /\ v.conn <= server.rev /\ v.plan = NoPlan /\ v.offers \subseteq server.offers
            /\ v.up = NoUp /\ Plain(v, Active(v))
  BY <1>1, <1>2, VacatedIs
<1>6. /\ t \in Servers /\ t.rev = server.last + 1 /\ t.last = server.last + 1
      /\ t.conn <= server.rev /\ t.plan = NoPlan /\ t.offers \subseteq server.offers
      /\ t.up = NoUp /\ Plain(t, Active(t))
  BY <1>2, <1>3, <1>5
<1>7. Active(u) = Active(t)
  BY <1>4, <1>6 DEF Active
<1>8. \A k \in {"status", "stop"}, own \in BOOLEAN : Plain(t, Msg(k, 0, NoUp, 0, own))
  BY <1>6, StatusIsPlain
<1>9. Plain(t, Msg("status", 0, NoUp, 0, FALSE)) /\ Plain(t, Msg("stop", 0, NoUp, 0, FALSE))
  BY <1>2, <1>8
<1>10. msgs \in Seq(Messages)
       /\ InFlight(msgs) = {Msg("stop", 0, NoUp, 0, FALSE), Active(u),
                            Msg("status", 0, NoUp, 0, FALSE)}
  <2>1. /\ Msg("stop", 0, NoUp, 0, FALSE) \in Messages /\ Active(u) \in Messages
        /\ Msg("status", 0, NoUp, 0, FALSE) \in Messages
    BY <1>6, <1>7, <1>9 DEF Plain
  <2> QED BY <2>1, InFlightSome
<1>11. \A m \in InFlight(msgs) : Plain(t, m)
  BY <1>6, <1>7, <1>9, <1>10
<1>12. inbox' \in {inbox \o msgs, inbox, msgs}
  BY <1>1
<1> HIDE DEF msgs
<1> QED BY <1>1, <1>6, <1>10, <1>11, <1>12, CommitFine

LEMMA AppendIs ==
  ASSUME NEW q \in Seq(Messages), NEW m \in Messages
  PROVE  Append(q, m) = q \o <<m>>
OBVIOUS

LEMMA HearFine ==
  ASSUME RouteInv, Hear
  PROVE  RouteInv' /\ client'.route = client.route /\ client'.open = client.open
<1> DEFINE m == Head(client.sent)
<1>1. /\ server \in Servers /\ Numbered(server) /\ Fine(client) /\ inbox \in Seq(Messages)
      /\ client \in Page
  BY RouteInvIs DEF Fine
<1>2. client.sent \in Seq(Reports) /\ client.sent # <<>> /\ client.link \in BOOLEAN
  BY <1>1, PageTypes DEF Hear
<1>3. m \in Reports /\ Tail(client.sent) \in Seq(Reports)
  BY <1>2
<1>4. m.rev \in Revisions /\ m.conn \in Revisions /\ m.rev \in Nat /\ m.conn \in Nat
  BY <1>3, SlotFacts DEF Reports
<1>5. Heard(m)
  BY DEF Hear
<1>6. Fine(client') /\ client'.route = client.route /\ client'.open = client.open
  <2>1. client' = [client EXCEPT !.link = client.link, !.sent = Tail(client.sent)]
    BY <1>1, PageIs DEF Hear
  <2> DEFINE q == Tail(client.sent)  b == client.link
  <2>2. q \in Seq(Reports) /\ b \in BOOLEAN
    BY <1>2, <1>3
  <2>3. client' = [client EXCEPT !.link = b, !.sent = q]
    BY <2>1
  <2> HIDE DEF q, b
  <2> QED BY <1>1, <2>2, <2>3, SocketFine
<1> HIDE DEF m
<1>7. /\ server.plan.up \in Upstreams /\ server.up \in Upstreams /\ server.conn \in Revisions
      /\ server.rev \in Revisions /\ server.last \in Nat /\ server.last + 1 \in Nat
      /\ FALSE \in BOOLEAN /\ TRUE \in BOOLEAN /\ 0 \in Revisions
      /\ server.conn <= server.rev /\ server.rev <= server.last
      /\ server.offers \in SUBSET Revisions
      /\ server.conn \in Nat /\ server.rev \in Nat /\ server.plan.rev \in Nat
  BY <1>1, ServerTypes, SlotFacts DEF Numbered
<1>8. server.plan.own => /\ server.plan # NoPlan /\ server.rev < server.plan.rev
                         /\ server.plan.rev <= server.last /\ server.last + 1 <= MaxRevision
  BY <1>1, <1>7, NoPlanIs, ViewerRouteAssumption DEF Numbered
<1>9. CASE server.plan.own /\ server.plan.rev = m.rev
           /\ server' = [server EXCEPT !.rev = m.rev, !.up = server.plan.up,
                                       !.conn = m.rev, !.plan = NoPlan, !.told = FALSE]
           /\ inbox' = Append(inbox, Msg("active", m.rev, server.plan.up, 0, FALSE))
  <2> DEFINE t == [server EXCEPT !.rev = m.rev, !.up = server.plan.up,
                                 !.conn = m.rev, !.plan = NoPlan, !.told = FALSE]
             p == Msg("active", m.rev, server.plan.up, 0, FALSE)
             msgs == <<p>>
  <2>1. p \in Messages /\ p.t = "active" /\ p.rev = m.rev
    BY <1>4, <1>7 DEF Msg, Messages
  <2>2. inbox' = inbox \o msgs
    BY <1>1, <1>9, <2>1, AppendIs
  <2> HIDE DEF p
  <2>3. /\ t \in Servers /\ t.rev = m.rev /\ t.conn = m.rev /\ t.plan = NoPlan
        /\ t.last = server.last /\ t.offers = server.offers
    BY <1>1, <1>4, <1>7, NoPlanIs DEF Servers
  <2> HIDE DEF t
  <2>4. Numbered(t)
    BY <1>1, <1>4, <1>8, <1>9, <2>3, NoPlanIs DEF Numbered
  <2>5. msgs \in Seq(Messages) /\ InFlight(msgs) = {p}
    BY <2>1, InFlightSome
  <2>6. inbox' \in {inbox \o msgs, inbox, msgs}
    BY <2>2
  <2> HIDE DEF msgs
  <2>7. Honest(server, t, InFlight(inbox), InFlight(msgs), client, server.last + 1)
    <3>1. server.last < server.last + 1 /\ server.last <= t.last
      BY <1>7, <2>3
    <3>2. \A a \in InFlight(msgs) : a.rev <= t.last /\ a.t = "active"
      BY <1>8, <1>9, <2>1, <2>3, <2>5
    <3> QED BY <2>3, <3>1, <3>2, NoPlanIs DEF Honest
  <2>8. server' = t
    BY <1>9 DEF t
  <2> QED BY <1>6, <1>7, <2>3, <2>4, <2>5, <2>6, <2>7, <2>8, ServeFine
<1>10. CASE server.plan.own
            /\ server' = Committed(server, server.up, server.conn)
            /\ inbox' = Append(inbox, Active(Committed(server, server.up, server.conn)))
  <2> DEFINE t == Committed(server, server.up, server.conn)  msgs == <<Active(t)>>
  <2>1. /\ t \in Servers /\ t.rev = server.last + 1 /\ t.last = server.last + 1
        /\ t.conn = server.conn /\ t.plan = NoPlan /\ t.offers = server.offers
    BY <1>1, <1>7, <1>8, <1>10, CommittedIs
  <2>2. server' = t /\ inbox' = Append(inbox, Active(t))
    BY <1>10
  <2> HIDE DEF t
  <2>3. t.conn <= server.rev /\ t.offers \subseteq server.offers
    BY <1>7, <2>1
  <2>4. Plain(t, Active(t))
    BY <1>1, <2>1, <2>3, CommittedNumbered, ActiveIsPlain
  <2>5. inbox' = inbox \o msgs
    BY <1>1, <2>2, <2>4, AppendIs DEF Plain
  <2>6. msgs \in Seq(Messages) /\ \A a \in InFlight(msgs) : Plain(t, a)
    BY <2>4, OnePushed
  <2>7. inbox' \in {inbox \o msgs, inbox, msgs}
    BY <2>5
  <2> HIDE DEF msgs
  <2> QED BY <1>6, <2>1, <2>2, <2>3, <2>6, <2>7, CommitFine
<1>11. CASE server' = [server EXCEPT !.told = TRUE] /\ inbox' = inbox
  <2> DEFINE t == [server EXCEPT !.told = TRUE]
  <2>1. /\ t \in Servers /\ t.rev = server.rev /\ t.last = server.last /\ t.conn = server.conn
        /\ t.plan = server.plan /\ t.offers = server.offers
    BY <1>1 DEF Servers
  <2>2. server' = t
    BY <1>11
  <2> HIDE DEF t
  <2>3. Numbered(t)
    BY <1>1, <2>1 DEF Numbered
  <2>4. inbox' \in {inbox \o <<>>, inbox, <<>>}
    BY <1>11
  <2> QED BY <1>6, <2>1, <2>2, <2>3, <2>4, NothingPushed, RemainFine
<1>12. CASE /\ server.up \in Publications /\ server' = server
            /\ inbox' = Append(inbox, Msg("config", server.rev, server.up, server.conn, FALSE))
  <2> DEFINE p == Msg("config", server.rev, server.up, server.conn, FALSE)
             msgs == <<p>>
  <2>1. /\ p \in Messages /\ p.t = "config" /\ p.rev = server.rev /\ p.up = server.up
        /\ p.conn = server.conn
    BY <1>7 DEF Msg, Messages
  <2>2. inbox' = inbox \o msgs
    BY <1>1, <1>12, <2>1, AppendIs
  <2> HIDE DEF p
  <2>3. Plain(server, p)
    BY <1>7, <1>12, <2>1 DEF Plain
  <2>4. msgs \in Seq(Messages) /\ \A a \in InFlight(msgs) : Plain(server, a)
    BY <2>3, OnePushed
  <2>5. inbox' \in {inbox \o msgs, inbox, msgs}
    BY <2>2
  <2> HIDE DEF msgs
  <2>6. server' = server
    BY <1>12
  <2> QED BY <1>1, <1>6, <2>4, <2>5, <2>6, RemainFine
<1>13. CASE /\ m.conn = server.conn /\ server.up \in Peers
            /\ server' = [server EXCEPT !.offers = @ \cup {m.conn}] /\ inbox' = inbox
  <2> DEFINE t == [server EXCEPT !.offers = server.offers \cup {m.conn}]
  <2>1. server' = t
    BY <1>1, <1>13 DEF Servers
  <2>2. /\ t \in Servers /\ t.rev = server.rev /\ t.last = server.last /\ t.conn = server.conn
        /\ t.plan = server.plan /\ t.offers = server.offers \cup {m.conn}
    BY <1>1, <1>4, <1>7 DEF Servers
  <2> HIDE DEF t
  <2>3. \A n \in t.offers : n <= t.last
    BY <1>1, <1>7, <1>13, <2>2 DEF Numbered
  <2>4. t.plan.own => t.plan.rev # m.conn
    BY <1>7, <1>8, <1>13, <2>2
  <2>5. Numbered(t)
    BY <1>1, <2>2, <2>3, <2>4 DEF Numbered
  <2>6. inbox' \in {inbox \o <<>>, inbox, <<>>}
    BY <1>13
  <2> QED BY <1>6, <2>1, <2>2, <2>5, <2>6, NothingPushed, RemainFine
<1>14. CASE server' = server /\ inbox' = inbox
  <2>1. inbox' \in {inbox \o <<>>, inbox, <<>>} /\ server' = server
    BY <1>14
  <2> QED BY <1>1, <1>6, <2>1, NothingPushed, RemainFine
<1>15. RouteInv'
  BY <1>5, <1>9, <1>10, <1>11, <1>12, <1>13, <1>14 DEF Heard
<1> QED BY <1>6, <1>15

(* What a new connection begins with.                                      *)
LEMMA GreetingPlain ==
  ASSUME NEW s \in Servers, Numbered(s), NEW k \in {"auth", "rejoin"}
  PROVE  LET msgs == <<Msg(k, s.rev, s.up, s.conn, s.paused), Active(s)>> \o
                     IF s.up \in Publications
                     THEN <<Msg("config", s.rev, s.up, s.conn, FALSE)>> ELSE <<>>
         IN  msgs \in Seq(Messages) /\ \A a \in InFlight(msgs) : Plain(s, a)
<1> DEFINE p == Msg(k, s.rev, s.up, s.conn, s.paused)
           g == Msg("config", s.rev, s.up, s.conn, FALSE)
           q == <<p, Active(s)>>
           r == IF s.up \in Publications THEN <<g>> ELSE <<>>
<1>1. /\ s.rev \in Revisions /\ s.up \in Upstreams /\ s.conn \in Revisions
      /\ s.paused \in BOOLEAN /\ FALSE \in BOOLEAN /\ s.rev <= s.last
  BY ServerTypes DEF Numbered
<1>2. /\ p \in Messages /\ p.t = k /\ p.rev = s.rev
      /\ g \in Messages /\ g.t = "config" /\ g.rev = s.rev /\ g.up = s.up /\ g.conn = s.conn
  <2>1. p \in Messages /\ p.t = k /\ p.rev = s.rev
    BY <1>1 DEF Msg, Messages
  <2>2. /\ g \in Messages /\ g.t = "config" /\ g.rev = s.rev /\ g.up = s.up
        /\ g.conn = s.conn
    BY <1>1 DEF Msg, Messages
  <2> QED BY <2>1, <2>2
<1> HIDE DEF p, g
<1>3. Plain(s, p)
  BY <1>1, <1>2 DEF Plain
<1>4. s.up \in Publications => Plain(s, g)
  BY <1>1, <1>2 DEF Plain
<1>5. Plain(s, Active(s)) /\ Active(s) \in Messages
  BY ActiveIsPlain DEF Plain
<1>6. q \in Seq(Messages) /\ \A a \in InFlight(q) : Plain(s, a)
  <2> DEFINE b == Active(s)
  <2>1. b \in Messages /\ Plain(s, b) /\ q = <<p, b>>
    BY <1>5
  <2> HIDE DEF b
  <2>2. q \in Seq(Messages) /\ InFlight(q) = {p, b}
    BY <1>2, <2>1, InFlightSome
  <2> QED BY <1>3, <2>1, <2>2
<1>7. r \in Seq(Messages) /\ \A a \in InFlight(r) : Plain(s, a)
  BY <1>4, OnePushed, InFlightSome
<1> HIDE DEF q, r
<1>8. q \o r \in Seq(Messages) /\ \A a \in InFlight(q \o r) : Plain(s, a)
  BY <1>6, <1>7, MorePushed
<1> QED BY <1>8 DEF q, r, p, g

LEMMA LoseLinkFine ==
  ASSUME RouteInv, LoseLink
  PROVE  RouteInv' /\ client'.open = client.open
<1> DEFINE d == [client EXCEPT !.link = FALSE, !.sent = <<>>]
<1>1. /\ server' = server /\ client' = d /\ inbox' \in {inbox \o <<>>, inbox, <<>>}
      /\ Fine(client) /\ FALSE \in BOOLEAN /\ <<>> \in Seq(Reports)
  BY RouteInvIs DEF LoseLink
<1>2. Fine(d) /\ d.route = client.route /\ d.open = client.open
  BY <1>1, SocketFine
<1> HIDE DEF d
<1>3. RouteInv'
  BY <1>1, <1>2, NothingPushed, RemainFine
<1> QED BY <1>1, <1>2, <1>3

LEMMA ReconnectFine ==
  ASSUME RouteInv, Reconnect
  PROVE  RouteInv' /\ client'.open = client.open
<1> DEFINE u == Committed(server, server.up, server.conn)
           v == Committed(server, NoUp, 0)
           w == [v EXCEPT !.told = FALSE]
           Greeting(k, s) ==
              <<Msg(k, s.rev, s.up, s.conn, s.paused), Active(s)>> \o
              IF s.up \in Publications
              THEN <<Msg("config", s.rev, s.up, s.conn, FALSE)>> ELSE <<>>
<1>1. server \in Servers /\ Numbered(server)
  BY RouteInvIs
<1>2. client' = client
  BY DEF Reconnect, Reauthenticate
<1>3. Fine(client') /\ client'.route = client.route /\ client'.open = client.open
  BY <1>2, RouteInvIs
<1>4. \/ server.plan.own /\ server' = u /\ inbox' = Greeting("auth", u)
      \/ server' = server /\ inbox' = Greeting("auth", server)
      \/ Room(1) /\ server' = w /\ inbox' = Greeting("rejoin", w)
  BY DEF Reconnect, Reauthenticate
<1>5. CASE server.plan.own /\ server' = u /\ inbox' = Greeting("auth", u)
  <2>1. server.last + 1 <= MaxRevision
    BY <1>1, <1>5, ServerTypes, NoPlanIs, ViewerRouteAssumption DEF Numbered
  <2>2. server.up \in Upstreams /\ server.conn \in Revisions /\ server.conn <= server.rev
    BY <1>1, ServerTypes DEF Numbered
  <2>3. /\ u \in Servers /\ u.rev = server.last + 1 /\ u.last = server.last + 1
        /\ u.conn = server.conn /\ u.plan = NoPlan /\ u.offers = server.offers
    BY <1>1, <2>1, <2>2, CommittedIs
  <2> HIDE DEF u
  <2>4. Numbered(u)
    BY <1>1, <2>2, <2>3, CommittedNumbered
  <2>5. Greeting("auth", u) \in Seq(Messages)
        /\ \A a \in InFlight(Greeting("auth", u)) : Plain(u, a)
    BY <2>3, <2>4, GreetingPlain
  <2> DEFINE msgs == Greeting("auth", u)
  <2>6. server' = u /\ inbox' \in {inbox \o msgs, inbox, msgs}
    BY <1>5
  <2>7. msgs \in Seq(Messages) /\ \A a \in InFlight(msgs) : Plain(u, a)
    BY <2>5
  <2> HIDE DEF msgs
  <2>8. u.conn <= server.rev /\ u.offers \subseteq server.offers
    BY <2>2, <2>3
  <2> QED BY <1>2, <1>3, <2>3, <2>6, <2>7, <2>8, CommitFine
<1>6. CASE server' = server /\ inbox' = Greeting("auth", server)
  <2> DEFINE msgs == Greeting("auth", server)
  <2>1. msgs \in Seq(Messages) /\ \A a \in InFlight(msgs) : Plain(server, a)
    BY <1>1, GreetingPlain
  <2>2. server' = server /\ inbox' \in {inbox \o msgs, inbox, msgs}
    BY <1>6
  <2> HIDE DEF msgs
  <2> QED BY <1>1, <1>2, <1>3, <2>1, <2>2, RemainFine
<1>7. CASE Room(1) /\ server' = w /\ inbox' = Greeting("rejoin", w)
  <2> DEFINE paused == server.paused  offers == server.offers
  <2>1. /\ server.last + 1 <= MaxRevision /\ NoUp \in Upstreams /\ 0 \in Revisions
        /\ paused \in BOOLEAN /\ offers \in SUBSET server.offers
    BY <1>1, <1>7, SlotFacts, ServerTypes DEF Room
  <2>2. /\ v \in Servers /\ v.paused = paused /\ v.offers = offers
    BY <1>1, <2>1, CommittedIs
  <2>3. w = Vacated(server, paused, offers)
    BY <2>2 DEF Vacated, Servers
  <2> HIDE DEF paused, offers, v, w
  <2>4. /\ w \in Servers /\ w.rev = server.last + 1 /\ w.last = server.last + 1
        /\ w.conn <= server.rev /\ w.plan = NoPlan /\ w.offers \subseteq server.offers
        /\ Numbered(w)
    BY <1>1, <2>1, <2>3, VacatedIs
  <2> DEFINE msgs == Greeting("rejoin", w)
  <2>5. msgs \in Seq(Messages) /\ \A a \in InFlight(msgs) : Plain(w, a)
    BY <2>4, GreetingPlain
  <2>6. server' = w /\ inbox' \in {inbox \o msgs, inbox, msgs}
    BY <1>7
  <2> HIDE DEF msgs
  <2> QED BY <1>2, <1>3, <2>4, <2>5, <2>6, CommitFine
<1> QED BY <1>2, <1>3, <1>4, <1>5, <1>6, <1>7

-----------------------------------------------------------------------------
(* Every action of the page and of the server.                             *)

LEMMA ReceiveFine ==
  ASSUME RouteInv, Receive
  PROVE  RouteInv' /\ Spares(client, client')
<1> DEFINE m == Head(inbox)
<1>1. /\ Fine(client) /\ server \in Servers /\ inbox \in Seq(Messages) /\ Numbered(server)
      /\ Described(server, InFlight(inbox), client)
  BY RouteInvIs
<1>2. /\ inbox # <<>> /\ client' = Handle(client, m) /\ inbox' = Tail(inbox)
      /\ server' = server
  BY DEF Receive
<1>3. /\ m \in Messages /\ m \in InFlight(inbox)
      /\ Tail(inbox) \in Seq(Messages) /\ InFlight(Tail(inbox)) \subseteq InFlight(inbox)
  BY <1>1, <1>2, InFlightHead
<1> HIDE DEF m
<1>4. /\ m.t = "config" => m.up \in Publications
      /\ m.t = "signal" => m.up \in Peers
  BY <1>1, <1>3 DEF Described
<1>5. m.t = "config" /\ client.route.phase = "prepare" /\ client.route.own
        /\ client.route.rev = m.rev => m.conn = m.rev
  BY <1>1, <1>3 DEF Described, OwnPlan
<1>6. Fine(Handle(client, m)) /\ Spares(client, Handle(client, m))
      /\ Stems(client, Handle(client, m), m)
  BY <1>1, <1>3, <1>4, <1>5, HandleFine
<1>7. Fine(client') /\ Spares(client, client') /\ Stems(client, client', m)
  BY <1>2, <1>6
<1>8. Described(server', InFlight(inbox'), client')
  BY <1>1, <1>2, <1>3, <1>7, HandledDescribed
<1>9. server' \in Servers /\ Numbered(server') /\ inbox' \in Seq(Messages)
  BY <1>1, <1>2, <1>3
<1> QED BY <1>7, <1>8, <1>9, RouteInvHolds

LEMMA MediaEventFine ==
  ASSUME RouteInv,
         \/ ProbeConnects \/ ProbeDecodes \/ ProbeBreaks \/ ProbeExhausted
         \/ PeerConnects \/ PeerBreaks \/ PeerExhausted
         \/ SlotConnects \/ SlotVideo \/ SlotDecodes \/ SlotBreaks \/ SlotFails
  PROVE  RouteInv' /\ Spares(client, client')
<1>1. /\ Fine(client) /\ server \in Servers /\ inbox \in Seq(Messages) /\ Numbered(server)
      /\ Described(server, InFlight(inbox), client)
  BY RouteInvIs
<1>2. Fine(client') /\ Spares(client, client') /\ Settles(client, client')
  BY <1>1, ProbeEventFine, PeerEventFine, SlotEventFine
<1>3. server' = server /\ inbox' = inbox
  BY DEF ProbeConnects, ProbeDecodes, ProbeBreaks, ProbeExhausted, PeerConnects, PeerBreaks,
         PeerExhausted, SlotConnects, SlotVideo, SlotDecodes, SlotBreaks, SlotFails,
         Event, Disturb
<1>4. Described(server, InFlight(inbox), client')
  BY <1>1, <1>2, PageDescribed
<1> QED BY <1>1, <1>2, <1>3, <1>4, RouteInvHolds

LEMMA ServerEventFine ==
  ASSUME RouteInv,
         \/ PrepareOwn \/ PrepareOther \/ CommitOther \/ Abort \/ Lose \/ ParentOffers
         \/ HostPauses \/ HostRestarts
  PROVE  RouteInv' /\ client' = client
<1>1. RouteInv'
  BY PrepareOwnFine, PrepareOtherFine, CommitOtherFine, AbortFine, LoseFine, ParentOffersFine,
     HostPausesFine, HostRestartsFine
<1>2. client' = client
  BY DEF PrepareOwn, PrepareOther, CommitOther, Abort, Lose, ParentOffers, Serve,
         HostPauses, HostRestarts
<1> QED BY <1>1, <1>2

LEMMA RouteStep ==
  ASSUME RouteInv, [RouteNext]_routeVars
  PROVE  RouteInv' /\ Spares(client, client')
<1>1. Fine(client)
  BY RouteInvIs
<1>2. client'.open = client.open => Spares(client, client')
  BY <1>1, UntouchedSpares
<1>3. CASE Receive
  BY <1>3, ReceiveFine
<1>4. CASE \/ ProbeConnects \/ ProbeDecodes \/ ProbeBreaks \/ ProbeExhausted
           \/ PeerConnects \/ PeerBreaks \/ PeerExhausted
           \/ SlotConnects \/ SlotVideo \/ SlotDecodes \/ SlotBreaks \/ SlotFails
  BY <1>4, MediaEventFine
<1>5. CASE \/ PrepareOwn \/ PrepareOther \/ CommitOther \/ Abort \/ Lose \/ ParentOffers
           \/ HostPauses \/ HostRestarts
  BY <1>2, <1>5, ServerEventFine
<1>6. CASE Hear
  BY <1>2, <1>6, HearFine
<1>7. CASE LoseLink
  BY <1>2, <1>7, LoseLinkFine
<1>8. CASE Reconnect
  BY <1>2, <1>8, ReconnectFine
<1>9. CASE UNCHANGED routeVars
  <2>1. client' = client /\ server' = server /\ inbox' = inbox
    BY <1>9 DEF routeVars
  <2>2. RouteInv'
    BY <2>1, RouteInvIs, RouteInvHolds
  <2> QED BY <1>2, <2>1, <2>2
<1> QED BY <1>3, <1>4, <1>5, <1>6, <1>7, <1>8, <1>9 DEF RouteNext

LEMMA RouteStarts ==
  ASSUME RouteInit
  PROVE  RouteInv
<1> DEFINE p == Msg("active", 1, NoUp, 0, FALSE)
           s == [rev |-> 1, last |-> 1, up |-> NoUp, conn |-> 0, plan |-> NoPlan,
                 told |-> FALSE, paused |-> FALSE, offers |-> {}]
<1>1. client = [FreshPage EXCEPT !.link = TRUE] /\ server = s /\ inbox = <<p>>
  BY DEF RouteInit
<1>2. /\ 1 \in Revisions /\ 0 \in Revisions /\ NoUp \in Upstreams /\ FALSE \in BOOLEAN
      /\ TRUE \in BOOLEAN /\ <<>> \in Seq(Reports)
  BY SlotFacts, ViewerRouteAssumption DEF Revisions
<1>3. Fine(client) /\ client.route = NoRoute
  <2> DEFINE d == [FreshPage EXCEPT !.link = TRUE, !.sent = <<>>]
  <2>1. Fine(d) /\ d.route = NoRoute
    BY <1>2, FreshPageFine
  <2>2. FreshPage \in Page /\ FreshPage.sent = <<>>
    BY PageIs, NothingTypes, SlotFacts DEF FreshPage
  <2>3. client = d
    BY <1>1, <2>2, PageIs
  <2> HIDE DEF d
  <2> QED BY <2>1, <2>3
<1>4. p \in Messages /\ p.t = "active" /\ p.rev = 1
  BY <1>2 DEF Msg, Messages
<1> HIDE DEF p
<1>5. inbox \in Seq(Messages) /\ InFlight(inbox) = {p}
  BY <1>1, <1>4, InFlightSome
<1>6. /\ s \in Servers /\ s.rev = 1 /\ s.last = 1 /\ s.conn = 0 /\ s.plan = NoPlan
      /\ s.offers = {}
  BY <1>2, NoPlanIs DEF Servers
<1> HIDE DEF s
<1>7. server \in Servers /\ server.rev = 1 /\ server.last = 1 /\ server.conn = 0
      /\ server.plan = NoPlan /\ server.offers = {}
  BY <1>1, <1>6
<1>8. Numbered(server)
  BY <1>7, NoPlanIs DEF Numbered
<1>9. \A r : ~OwnPlan(server, InFlight(inbox), client, r)
  BY <1>3, <1>4, <1>5, <1>7, NoPlanIs DEF OwnPlan, NoRoute
<1>10. client.route.rev <= 1
  BY <1>3 DEF NoRoute
<1>11. Described(server, InFlight(inbox), client)
  <2>1. \A m \in InFlight(inbox) : m.rev = 1 /\ m.t = "active"
    BY <1>4, <1>5
  <2>2. server.plan = NoPlan /\ client.route.rev <= server.last /\ 1 <= server.last
    BY <1>7, <1>10
  <2> QED BY <1>9, <2>1, <2>2 DEF Described
<1> QED BY <1>3, <1>5, <1>7, <1>8, <1>11, RouteInvIs

(* What the page holds open, in the words of the property.                 *)
LEMMA RouteIsSafe ==
  ASSUME RouteInv
  PROVE  RouteSafety
<1>1. Fine(client) /\ server \in Servers /\ client \in Page
  BY RouteInvIs DEF Fine
<1>2. RouteTypeOK
  BY <1>1, ServerTypes DEF RouteTypeOK
<1>3. OneUpstream
  BY <1>1, NothingTypes DEF OneUpstream, Fine, Kept, ActiveOK
<1>4. OpenIsHeld
  <2>1. client.open = OpenOf(client.pending, client.active)
        /\ (client.pending # NoSlot => ~client.pending.failed)
    BY <1>1 DEF Fine, Kept, PendingOK
  <2>2. client["pending"] = client.pending /\ client["active"] = client.active
    OBVIOUS
  <2>3. {client[which].conn : which \in
          {w \in {"pending", "active"} : client[w] # NoSlot /\ ~client[w].failed}}
        = OpenOf(client.pending, client.active)
    BY <2>1, <2>2 DEF OpenOf
  <2> QED BY <2>1, <2>3 DEF OpenIsHeld
<1> QED BY <1>2, <1>3, <1>4 DEF RouteSafety

(* The inductive invariant of the viewer's route: what its page, the       *)
(* server and the messages between them keep of each other.                *)
THEOREM RouteInvAlways == RouteSpec => []RouteInv
<1>1. RouteInit => RouteInv
  BY RouteStarts
<1>2. RouteInv /\ [RouteNext]_routeVars => RouteInv'
  BY RouteStep
<1> QED BY <1>1, <1>2, PTL DEF RouteSpec

(* RouteSafety: a subscriber that the page keeps open belongs to a slot of *)
(* its route that has not failed, and every such slot is open              *)
(* (clearPending, retireActive, failSubscriberSlot); a page with a         *)
(* subscription has no peer connection beside it (activatePeer,            *)
(* promotePendingSfu and the page's first picture from the SFU).           *)
THEOREM RouteIsHeld == RouteSpec => []RouteSafety
<1>1. RouteInv => RouteSafety
  BY RouteIsSafe
<1> QED BY <1>1, RouteInvAlways, PTL

(* MediaSurvivesCandidates: no candidate that is prepared, dropped, aborted *)
(* or failed takes down a committed subscription that works (accept,       *)
(* activateSfu and failSubscriberSlot of ViewerSfuRoute, in any order).    *)
THEOREM MediaSurvives == RouteSpec => MediaSurvivesCandidates
<1>1. RouteInv /\ [RouteNext]_routeVars =>
        [ \/ client.active = NoSlot \/ client.active.failed
          \/ client.active.conn \in client'.open
          \/ client'.active.failed \/ client.active.link = "off"
          \/ client'.route.media # client.route.media
          \/ client'.active.conn > client.active.conn
          \/ client'.route.act # client.active.pub ]_routeVars
  BY RouteStep DEF Spares
<1> QED BY <1>1, RouteInvAlways, PTL DEF RouteSpec, MediaSurvivesCandidates

===============================================================================
