-------------------------- MODULE RouteControllerProofs --------------------------
(***************************************************************************)
(* Proofs about the route controller: for every set of viewers, every      *)
(* endpoint capacity and every bound of the environment, its committed     *)
(* edges are a forest of participants, the reservations it holds in the    *)
(* SFU ledger are exactly those the tree and its live attempt use, an      *)
(* attempt is never older than the revision the room has broadcast, no     *)
(* endpoint sends more copies than a transition may overlap, and a viewer  *)
(* is moved only onto a route that delivers.                               *)
(*                                                                         *)
(* Every handler is a composition of operations on the controller record,  *)
(* so the proof goes by operation: most of them lead Onward (Base holds,   *)
(* the other conjuncts stay if they held, and nobody is fed who was not),  *)
(* which is transitive, and what only leads Onward keeps the invariant.    *)
(* The forest is carried by a numbering of the viewers that grows from a   *)
(* parent to its children; Descendants, the hops of SourceUsable and the   *)
(* scheduling rounds are recursive functions over finitely many hops, so   *)
(* what is said of them is proved at the first hop it would fail at.       *)
(***************************************************************************)
EXTENDS RouteController, FiniteSetTheorems, SequenceTheorems, WellFoundedInduction,
        TLAPS

(* The fields of the controller, of its operation, its attempt and an      *)
(* edge.                                                                   *)
Fields == {"order", "online", "departed", "cap", "edge", "pub", "retiring", "op",
           "exhausted", "reported", "sfuFirst", "spent", "cont", "intent", "carried",
           "paused", "subs", "pubs"}
OpFields == {"child", "demand", "reason", "plans", "cursor", "deferred", "stale",
             "based", "clock", "att"}
AttemptFields == {"live", "gen", "sub", "connected", "stalled", "newest"}
EdgeFields == {"parent", "gen", "sub", "usable", "active", "own"}

(* A list, of whatever is in it.                                           *)
IsSeq(s) == s \in Seq(Range(s))

(* A viewer, or nobody.                                                    *)
Whom == Viewers \cup {"none"}

(* An operation is aimed at a viewer and its cursor stays within its       *)
(* plans.                                                                  *)
OpShape(op) ==
  /\ DOMAIN op = OpFields /\ DOMAIN op.att = AttemptFields
  /\ op.child \in Whom /\ op.demand \in Whom /\ op.clock \in Clocks
  /\ IsSeq(op.plans) /\ Range(op.plans) \subseteq Plans /\ op.cursor \in 0..Len(op.plans)

(* What kind of record the controller is, as far as the proof needs it.    *)
Shape(x) ==
  /\ DOMAIN x = Fields /\ DOMAIN x.edge = Viewers
  /\ \A v \in Viewers : DOMAIN x.edge[v] = EdgeFields
  /\ DOMAIN x.pub = {"gen", "usable"}
  /\ x.online \subseteq Peers /\ x.cap \in [Peers -> 0..EndpointCapacity]
  /\ x.intent \in Whom /\ OpShape(x.op)

(* Viewers can be numbered so that a parent comes before its children.     *)
Ranks(x, rank) ==
  /\ rank \in [Viewers -> Nat]
  /\ \A v \in Viewers : x.edge[v].parent \in Viewers => rank[x.edge[v].parent] < rank[v]

(* An edge of a participant leads to the host, to the SFU or to another    *)
(* viewer that has an edge itself.                                         *)
Linked(x) ==
  \A v \in Viewers :
    /\ x.edge[v].parent \in (Peers \ {v}) \cup {"sfu", "none"}
    /\ x.edge[v].parent = "none" => x.edge[v] = NoEdge
    /\ x.edge[v].parent # "none" => v \in Participants(x)
    /\ x.edge[v].parent \in Viewers => x.edge[x.edge[v].parent].parent # "none"

(* The committed edges are a forest of participants.                       *)
Rooted(x) ==
  /\ IsSeq(x.order) /\ Participants(x) \subseteq Viewers
  /\ x.online \subseteq Participants(x) \cup {Host}
  /\ x.departed \subseteq Participants(x) \ x.online
  /\ Linked(x) /\ \E rank : Ranks(x, rank)

(* The subscriptions that the tree uses.                                   *)
Used(x) == {<<v, x.edge[v].sub>> : v \in Subscribers(x)}

(* An edge that subscribes, subscribes to the serving publication.         *)
EdgesCurrent(x) ==
  \A v \in Subscribers(x) : x.edge[v].gen = x.pub.gen /\ x.pub.gen # 0

(* A live attempt is aimed at a viewer with a plan under the cursor, and   *)
(* what it reserved for itself is not what the tree already uses: this is  *)
(* what makes releasing it, or handing it to the tree, exact.              *)
AttemptOwn(x) ==
  x.op.att.live =>
    /\ x.op.child \in Viewers /\ Planned(x)
    /\ IsSfu(Current(x)) =>
         /\ x.op.att.gen # 0
         /\ x.op.child \in Subscribers(x) => x.op.att.sub # x.edge[x.op.child].sub
    /\ Current(x).via \in {"create", "replace"} => x.op.att.gen # x.pub.gen

(* Exactly the reservations that the tree and the live attempt use are     *)
(* held.                                                                   *)
Balanced(x) ==
  /\ x.subs = Used(x) \cup ReservedSubscription(x)
  /\ x.pubs = ({x.pub.gen} \ {0}) \cup ReservedGeneration(x)

(* The attempt and the operation are as new as the last broadcast          *)
(* revision.                                                               *)
Prepared(x) == x.op.att.newest /\ x.op.based

(* What every operation keeps, also in the middle of a handler.            *)
Base(x) ==
  /\ Shape(x) /\ Rooted(x)
  /\ EdgesCurrent(x) /\ AttemptOwn(x) /\ Balanced(x) /\ Prepared(x)

(* What a handler may break between two of its operations.                 *)
Watched(x) == x.pub.gen # 0 => Subscribers(x) # {}

(* The retiring generations are those of the retired edges to the SFU.     *)
Anchored(x) ==
  /\ \A v \in OnSfu(x) : ~x.edge[v].active => x.edge[v].gen \in x.retiring
  /\ \A g \in x.retiring : \E v \in OnSfu(x) : ~x.edge[v].active /\ x.edge[v].gen = g

(* Every endpoint sends at most the copies a transition may overlap.       *)
Budgeted(x) == \A p \in Peers : Copies(x, p) + Extra(x, p) <= TransitionCopyLimit

(* The inductive invariant.                                                *)
Good(x) == Base(x) /\ Watched(x) /\ Anchored(x) /\ Budgeted(x)
RouteInv == Good(c) /\ churn \in 0..MaxChurn
-----------------------------------------------------------------------------
(* The lowest member of a set of numbers exists.                           *)
LEMMA LowestIs ==
  ASSUME NEW T \in SUBSET Nat, T # {}
  PROVE  Lowest(T) \in T /\ \A m \in T : Lowest(T) <= m
<1>1. IsWellFoundedOn(OpToRel(<, Nat), Nat)
  BY NatLessThanWellFounded
<1>2. PICK n \in T : \A m \in T : ~ (<<m, n>> \in OpToRel(<, Nat))
  BY <1>1, WFMin
<1>3. ASSUME NEW m \in T PROVE n <= m
  <2>1. m < n => <<m, n>> \in OpToRel(<, Nat)
    BY DEF OpToRel
  <2>2. ~(m < n) /\ m \in Nat /\ n \in Nat
    BY <1>2, <2>1
  <2> QED BY <2>2
<1> QED BY <1>3 DEF Lowest

(* Steps given by a function can be iterated from a start: every prefix of *)
(* the iteration exists.                                                   *)
LEMMA IterationExists ==
  ASSUME NEW S, NEW a \in S, NEW k \in Nat, NEW h \in [1..k -> [S -> S]]
  PROVE  \E f \in [0..k -> S] : f[0] = a /\ \A n \in 1..k : f[n] = h[n][f[n-1]]
<1> DEFINE Iterates(f, j) == /\ f \in [0..j -> S] /\ f[0] = a
                             /\ \A n \in 1..j : f[n] = h[n][f[n-1]]
           T == {j \in 0..k : ~ \E f : Iterates(f, j)}
<1>1. SUFFICES ASSUME T # {} PROVE FALSE
  OBVIOUS
<1>2. T \in SUBSET Nat
  OBVIOUS
<1> DEFINE m == Lowest(T)
<1>3. m \in T /\ \A j \in T : m <= j
  <2> HIDE DEF T
  <2> QED BY <1>1, <1>2, LowestIs
<1> HIDE DEF m
<1>4. m \in 0..k /\ ~ \E f : Iterates(f, m)
  BY <1>3
<1>5. m # 0
  <2> DEFINE f == [n \in 0..0 |-> a]
  <2>1. Iterates(f, 0)
    OBVIOUS
  <2> HIDE DEF Iterates
  <2> QED BY <1>4, <2>1
<1>6. m - 1 \in 0..k /\ m - 1 \notin T
  <2> HIDE DEF T
  <2> QED BY <1>3, <1>4, <1>5
<1>7. PICK f : Iterates(f, m - 1)
  BY <1>6
<1> HIDE DEF T
<1> DEFINE g == [n \in 0..m |-> IF n = m THEN h[m][f[m-1]] ELSE f[n]]
<1>8. h[m][f[m-1]] \in S
  BY <1>4, <1>5, <1>7
<1>9. \A n \in 0..m - 1 : g[n] = f[n] /\ f[n] \in S
  BY <1>4, <1>7
<1>10. g \in [0..m -> S] /\ g[0] = a /\ g[m] = h[m][g[m-1]]
  <2>1. \A n \in 0..m : n = m \/ n \in 0..m - 1
    BY <1>4
  <2>2. 0 \in 0..m - 1 /\ m - 1 \in 0..m - 1 /\ m \in 0..m
    BY <1>4, <1>5
  <2> QED BY <1>7, <1>8, <1>9, <2>1, <2>2
<1>11. ASSUME NEW n \in 1..m PROVE g[n] = h[n][g[n-1]]
  <2>1. CASE n = m
    BY <1>10, <2>1
  <2>2. CASE n # m
    <3>1. n \in 1..m - 1 /\ n - 1 \in 0..m - 1 /\ n \in 0..m - 1
      BY <1>4, <2>2
    <3> QED BY <1>7, <1>9, <3>1
  <2> QED BY <2>1, <2>2
<1>12. Iterates(g, m)
  <2> HIDE DEF g
  <2> QED BY <1>10, <1>11
<1> HIDE DEF Iterates
<1> QED BY <1>4, <1>12
-----------------------------------------------------------------------------
(* The hops of Descendants.                                                *)
IsWithin(x, p, f) ==
  f = [n \in 0..Cardinality(Viewers) |->
         IF n = 0 THEN Children(x, p)
         ELSE f[n-1] \cup UNION {Children(x, q) : q \in f[n-1]}]

(* Children are viewers.                                                   *)
LEMMA ChildrenViewers ==
  ASSUME NEW x, NEW p PROVE Children(x, p) \subseteq Viewers
BY DEF Children

(* A set that holds the children of p and, with a viewer, its children,    *)
(* holds every hop.                                                        *)
LEMMA WithinLeast ==
  ASSUME NEW x, NEW p, NEW f, IsWithin(x, p, f),
         NEW S, Children(x, p) \subseteq S, \A q \in S : Children(x, q) \subseteq S,
         NEW n \in 0..Cardinality(Viewers)
  PROVE  f[n] \subseteq S
<1> DEFINE N == Cardinality(Viewers)
           T == {k \in 0..N : ~ (f[k] \subseteq S)}
<1>1. SUFFICES ASSUME T # {} PROVE FALSE
  OBVIOUS
<1>2. T \in SUBSET Nat
  OBVIOUS
<1> DEFINE m == Lowest(T)
<1>3. m \in T /\ \A k \in T : m <= k
  <2> HIDE DEF T
  <2> QED BY <1>1, <1>2, LowestIs
<1> HIDE DEF m
<1>4. m \in 0..N /\ ~ (f[m] \subseteq S)
  BY <1>3
<1>40. N \in Nat
  BY RouteAssumption, FS_CardinalityType
<1> HIDE DEF N
<1>5. f[m] = IF m = 0 THEN Children(x, p)
             ELSE f[m-1] \cup UNION {Children(x, q) : q \in f[m-1]}
  BY <1>4 DEF IsWithin, N
<1>6. m # 0
  BY <1>4, <1>5
<1>7. m - 1 \in 0..N /\ m - 1 \notin T
  <2> HIDE DEF T
  <2> QED BY <1>3, <1>4, <1>40, <1>6
<1>8. f[m-1] \subseteq S
  BY <1>7
<1> QED BY <1>4, <1>5, <1>6, <1>8

(* The hops exist, so Descendants is the last of them.                     *)
LEMMA DescendantsHops ==
  ASSUME NEW x, NEW p
  PROVE  \E f : IsWithin(x, p, f) /\ Descendants(x, p) = f[Cardinality(Viewers)]
<1> DEFINE N == Cardinality(Viewers)
           S == SUBSET Viewers
           a == Children(x, p)
           step == [T \in S |-> T \cup UNION {Children(x, q) : q \in T}]
           h == [n \in 1..N |-> step]
<1>1. N \in Nat
  BY RouteAssumption, FS_CardinalityType
<1>2. /\ a \in S /\ step \in [S -> S]
      /\ \A T \in S : step[T] = T \cup UNION {Children(x, q) : q \in T}
  BY ChildrenViewers
<1> HIDE DEF a, step
<1>3. h \in [1..N -> [S -> S]] /\ \A n \in 1..N : h[n] = step
  BY <1>2
<1> HIDE DEF h, N, S
<1>4. PICK f \in [0..N -> S] : f[0] = a /\ \A n \in 1..N : f[n] = h[n][f[n-1]]
  BY <1>1, <1>2, <1>3, IterationExists
<1>5. \A n \in 0..N : f[n] = IF n = 0 THEN a
                             ELSE f[n-1] \cup UNION {Children(x, q) : q \in f[n-1]}
  <2>1. \A n \in 0..N : n # 0 => n \in 1..N /\ n - 1 \in 0..N
    BY <1>1
  <2> QED BY <1>2, <1>3, <1>4, <2>1
<1>6. IsWithin(x, p, f)
  BY <1>4, <1>5 DEF IsWithin, N, a
<1> DEFINE F == CHOOSE g : IsWithin(x, p, g)
<1>7. Descendants(x, p) = F[N]
  BY DEF Descendants, IsWithin, N
<1>8. IsWithin(x, p, F)
  BY <1>6
<1> HIDE DEF F
<1> QED BY <1>7, <1>8 DEF N

(* Descendants is within every set that is closed under children.          *)
LEMMA DescendantsLeast ==
  ASSUME NEW x, NEW p,
         NEW S, Children(x, p) \subseteq S, \A q \in S : Children(x, q) \subseteq S
  PROVE  Descendants(x, p) \subseteq S
<1>1. Cardinality(Viewers) \in 0..Cardinality(Viewers)
  BY RouteAssumption, FS_CardinalityType
<1> QED BY <1>1, DescendantsHops, WithinLeast

(* Descendants is such a set itself: as long as a hop adds somebody it     *)
(* holds more viewers than hops, and there are not so many viewers.        *)
LEMMA DescendantsClosed ==
  ASSUME NEW x, NEW p
  PROVE  /\ Descendants(x, p) \subseteq Viewers /\ Children(x, p) \subseteq Descendants(x, p)
         /\ \A q \in Descendants(x, p) : Children(x, q) \subseteq Descendants(x, p)
<1> DEFINE N == Cardinality(Viewers)
<1>1. N \in Nat /\ N \in 0..N
  BY RouteAssumption, FS_CardinalityType
<1>2. PICK f : IsWithin(x, p, f) /\ Descendants(x, p) = f[N]
  BY DescendantsHops
<1>3. ASSUME NEW n \in 0..N
      PROVE  /\ f[n] = IF n = 0 THEN Children(x, p)
                       ELSE f[n-1] \cup UNION {Children(x, q) : q \in f[n-1]}
             /\ f[n] \subseteq Viewers /\ IsFiniteSet(f[n]) /\ Cardinality(f[n]) \in Nat
             /\ Cardinality(f[n]) <= N
  <2>1. f[n] \subseteq Viewers
    BY <1>2, <1>3, WithinLeast, ChildrenViewers
  <2>2. /\ IsFiniteSet(f[n]) /\ Cardinality(f[n]) \in Nat /\ Cardinality(f[n]) <= N
    BY <2>1, RouteAssumption, FS_Subset, FS_CardinalityType
  <2> QED BY <1>2, <1>3, <2>1, <2>2 DEF IsWithin
<1> HIDE DEF N
<1> DEFINE Closed(n) == \A q \in f[n] : Children(x, q) \subseteq f[n]
           T == {n \in 0..N : ~ (/\ Children(x, p) \subseteq f[n]
                                 /\ Closed(n) \/ Cardinality(f[n]) > n)}
<1>4. T = {}
  <2> SUFFICES ASSUME T # {} PROVE FALSE
    OBVIOUS
  <2>1. T \in SUBSET Nat
    OBVIOUS
  <2> DEFINE m == Lowest(T)
  <2>2. m \in T /\ \A k \in T : m <= k
    <3> HIDE DEF T
    <3> QED BY <2>1, LowestIs
  <2> HIDE DEF m
  <2>3. m \in 0..N /\ ~ (Children(x, p) \subseteq f[m] /\ (Closed(m) \/ Cardinality(f[m]) > m))
    BY <2>2
  <2>4. m # 0
    <3>1. SUFFICES ASSUME m = 0 PROVE FALSE
      OBVIOUS
    <3>2. f[0] = Children(x, p) /\ Cardinality(f[0]) \in Nat /\ IsFiniteSet(f[0])
      BY <1>3, <2>3, <3>1
    <3>3. ~Closed(0) /\ ~(Cardinality(f[0]) > 0)
      <4> HIDE DEF Closed
      <4> QED BY <2>3, <3>1, <3>2
    <3>4. Cardinality(f[0]) = 0
      <4> HIDE DEF Closed
      <4> QED BY <3>2, <3>3
    <3>5. f[0] = {}
      BY <3>2, <3>4, FS_EmptySet
    <3> QED BY <3>3, <3>5
  <2>5. m - 1 \in 0..N /\ m - 1 \notin T /\ m \in Nat
    <3> HIDE DEF T, Closed
    <3> QED BY <1>1, <2>2, <2>3, <2>4
  <2>6. f[m] = f[m-1] \cup UNION {Children(x, q) : q \in f[m-1]}
    BY <1>3, <2>3, <2>4
  <2>7. Children(x, p) \subseteq f[m-1] /\ (Closed(m-1) \/ Cardinality(f[m-1]) > m - 1)
    BY <2>5
  <2>8. CASE Closed(m-1)
    <3>1. f[m] = f[m-1]
      BY <2>6, <2>8
    <3> QED BY <2>3, <2>7, <2>8, <3>1
  <2>9. CASE ~Closed(m-1)
    <3>1. PICK u : u \in f[m] /\ u \notin f[m-1]
      BY <2>6, <2>9
    <3>2. /\ IsFiniteSet(f[m]) /\ IsFiniteSet(f[m-1])
          /\ Cardinality(f[m]) \in Nat /\ Cardinality(f[m-1]) \in Nat
      BY <1>3, <2>3, <2>5
    <3>3. Cardinality(f[m-1]) < Cardinality(f[m])
      <4>1. f[m-1] \subseteq f[m] /\ f[m-1] # f[m]
        BY <2>6, <3>1
      <4> QED BY <3>2, <4>1, FS_Subset
    <3> HIDE DEF Closed
    <3>4. Cardinality(f[m]) > m
      BY <2>5, <2>7, <2>9, <3>2, <3>3
    <3> QED BY <2>3, <2>6, <2>7, <3>4
  <2> QED BY <2>8, <2>9
<1>5. Children(x, p) \subseteq f[N] /\ (Closed(N) \/ Cardinality(f[N]) > N)
  BY <1>1, <1>4
<1>6. f[N] \subseteq Viewers /\ Cardinality(f[N]) \in Nat /\ Cardinality(f[N]) <= N
  BY <1>1, <1>3
<1>7. Closed(N)
  <2> HIDE DEF Closed
  <2> QED BY <1>1, <1>5, <1>6
<1> QED BY <1>2, <1>5, <1>6, <1>7 DEF N
-----------------------------------------------------------------------------
(* Then nobody is below itself.                                            *)
LEMMA RankedAcyclic ==
  ASSUME NEW x, NEW rank, Ranks(x, rank), NEW v \in Viewers
  PROVE  v \notin Descendants(x, v)
<1> DEFINE S == {q \in Viewers : rank[v] < rank[q]}
<1>1. Children(x, v) \subseteq S
  BY DEF Children, Ranks
<1>2. \A q \in S : Children(x, q) \subseteq S
  <2>1. ASSUME NEW q \in S, NEW u \in Children(x, q) PROVE u \in S
    <3>1. u \in Viewers /\ q \in Viewers /\ rank[v] < rank[q] /\ rank[q] < rank[u]
      BY <2>1 DEF Children, Ranks
    <3>2. rank[u] \in Nat /\ rank[q] \in Nat /\ rank[v] \in Nat
      BY <3>1 DEF Ranks
    <3> QED BY <3>1, <3>2
  <2> QED BY <2>1
<1>3. v \notin S
  BY DEF Ranks
<1> HIDE DEF S
<1> QED BY <1>1, <1>2, <1>3, DescendantsLeast

(* Moving v below a peer that is not below v leaves a tree: v and all that *)
(* is below it are numbered behind the new parent.                         *)
LEMMA MovedRanked ==
  ASSUME NEW x, NEW rank, Ranks(x, rank), NEW v \in Viewers,
         NEW y, \A w \in Viewers \ {v} : y.edge[w].parent = x.edge[w].parent,
         y.edge[v].parent \in Viewers =>
           y.edge[v].parent # v /\ y.edge[v].parent \notin Descendants(x, v)
  PROVE  \E r : Ranks(y, r)
<1> DEFINE p == y.edge[v].parent
           D == Descendants(x, v) \cup {v}
           r == [w \in Viewers |-> IF w \in D /\ p \in Viewers THEN rank[w] + rank[p] + 1
                                   ELSE rank[w]]
<1>1. \A w \in Viewers : rank[w] \in Nat
  BY DEF Ranks
<1>2. r \in [Viewers -> Nat]
  BY <1>1
<1>3. ASSUME NEW w \in Viewers, y.edge[w].parent \in Viewers
      PROVE  r[y.edge[w].parent] < r[w]
  <2>1. CASE w = v
    <3>1. p \in Viewers /\ p \notin D /\ v \in D
      BY <1>3, <2>1
    <3>2. r[p] = rank[p] /\ r[v] = rank[v] + rank[p] + 1
      <4> HIDE DEF D, p
      <4> QED BY <3>1
    <3> QED BY <1>1, <2>1, <3>1, <3>2
  <2>2. CASE w # v
    <3> DEFINE q == x.edge[w].parent
    <3>1. q \in Viewers /\ y.edge[w].parent = q /\ rank[q] < rank[w]
      BY <1>3, <2>2 DEF Ranks
    <3>2. q \in D => w \in D
      <4>1. w \in Children(x, q)
        BY DEF Children
      <4> QED BY <4>1, DescendantsClosed
    <3> HIDE DEF D, p, q
    <3>3. r[w] = (IF w \in D /\ p \in Viewers THEN rank[w] + rank[p] + 1 ELSE rank[w])
      OBVIOUS
    <3>4. r[q] = (IF q \in D /\ p \in Viewers THEN rank[q] + rank[p] + 1 ELSE rank[q])
      BY <3>1
    <3>5. rank[w] \in Nat /\ rank[q] \in Nat /\ (p \in Viewers => rank[p] \in Nat)
      BY <1>1, <3>1
    <3> HIDE DEF r
    <3>6. r[q] < r[w]
      BY <3>1, <3>2, <3>3, <3>4, <3>5
    <3> QED BY <3>1, <3>6
  <2> QED BY <2>1, <2>2
<1> HIDE DEF r
<1>4. Ranks(y, r)
  BY <1>2, <1>3 DEF Ranks
<1> QED BY <1>4

-----------------------------------------------------------------------------
(* Who delivers to q, given who does.                                      *)
Delivers(x, q, fed) ==
  /\ x.edge[q].usable /\ x.edge[q].active
  /\ IF x.edge[q].parent = "sfu" THEN x.pub.usable /\ x.pub.gen = x.edge[q].gen
                                 ELSE x.edge[q].parent \in fed

(* The next hop: who is fed once T is.                                     *)
FedStep(x, T) == {Host} \cup {q \in Viewers : Delivers(x, q, T)}

(* The hops of SourceUsable.                                               *)
IsFed(x, f) ==
  f = [n \in 0..Cardinality(Viewers) |-> IF n = 0 THEN {Host} ELSE FedStep(x, f[n-1])]

(* More sources feed more viewers.                                         *)
LEMMA FedMonotone ==
  ASSUME NEW x, NEW S, NEW T, T \subseteq S
  PROVE  FedStep(x, T) \subseteq FedStep(x, S) /\ FedStep(x, T) \subseteq Peers
BY DEF FedStep, Delivers, Peers

(* The hops exist, so the last of them are the usable sources.             *)
LEMMA FedHops ==
  ASSUME NEW x
  PROVE  \E f : IsFed(x, f) /\ \A p : SourceUsable(x, p) <=> p \in f[Cardinality(Viewers)]
<1> DEFINE N == Cardinality(Viewers)
           S == SUBSET Peers
           a == {Host}
           step == [T \in S |-> FedStep(x, T)]
           h == [n \in 1..N |-> step]
<1>1. N \in Nat
  BY RouteAssumption, FS_CardinalityType
<1>2. a \in S /\ step \in [S -> S] /\ \A T \in S : step[T] = FedStep(x, T)
  BY FedMonotone DEF Peers
<1> HIDE DEF a, step
<1>3. h \in [1..N -> [S -> S]] /\ \A n \in 1..N : h[n] = step
  BY <1>2
<1> HIDE DEF h, N, S
<1>4. PICK f \in [0..N -> S] : f[0] = a /\ \A n \in 1..N : f[n] = h[n][f[n-1]]
  <2>1. a \in S
    BY <1>2
  <2>2. h \in [1..N -> [S -> S]]
    BY <1>3
  <2> QED BY <1>1, <2>1, <2>2, IterationExists
<1>5. \A n \in 0..N : f[n] = IF n = 0 THEN a ELSE FedStep(x, f[n-1])
  <2>1. \A n \in 0..N : n # 0 => n \in 1..N /\ n - 1 \in 0..N
    BY <1>1
  <2> QED BY <1>2, <1>3, <1>4, <2>1
<1>6. IsFed(x, f)
  BY <1>4, <1>5 DEF IsFed, N, a
<1> DEFINE F == CHOOSE g : IsFed(x, g)
<1>7. \A p : SourceUsable(x, p) <=> p \in F[N]
  BY DEF SourceUsable, IsFed, FedStep, Delivers, N
<1>8. IsFed(x, F)
  BY <1>6
<1> HIDE DEF F
<1> QED BY <1>7, <1>8 DEF N

(* A set that holds the host and everybody it feeds holds every hop.       *)
LEMMA FedWithin ==
  ASSUME NEW x, NEW f, IsFed(x, f), NEW S, Host \in S, FedStep(x, S) \subseteq S,
         NEW n \in 0..Cardinality(Viewers)
  PROVE  f[n] \subseteq S
<1> DEFINE N == Cardinality(Viewers)
           T == {k \in 0..N : ~ (f[k] \subseteq S)}
<1>1. SUFFICES ASSUME T # {} PROVE FALSE
  OBVIOUS
<1>2. T \in SUBSET Nat
  OBVIOUS
<1> DEFINE m == Lowest(T)
<1>3. m \in T /\ \A k \in T : m <= k
  <2> HIDE DEF T
  <2> QED BY <1>1, <1>2, LowestIs
<1> HIDE DEF m
<1>4. m \in 0..N /\ ~ (f[m] \subseteq S)
  BY <1>3
<1>40. N \in Nat
  BY RouteAssumption, FS_CardinalityType
<1> HIDE DEF N
<1>5. f[m] = IF m = 0 THEN {Host} ELSE FedStep(x, f[m-1])
  BY <1>4 DEF IsFed, N
<1>6. m # 0
  BY <1>4, <1>5
<1>7. m - 1 \in 0..N /\ m - 1 \notin T
  <2> HIDE DEF T
  <2> QED BY <1>3, <1>4, <1>40, <1>6
<1>8. f[m-1] \subseteq S
  BY <1>7
<1> QED BY <1>4, <1>5, <1>6, <1>8, FedMonotone

(* The usable sources are within every such set.                           *)
LEMMA FedLeast ==
  ASSUME NEW x, NEW S, Host \in S, \A q \in Viewers : Delivers(x, q, S) => q \in S,
         NEW p, SourceUsable(x, p)
  PROVE  p \in S
<1>1. Cardinality(Viewers) \in 0..Cardinality(Viewers)
  BY RouteAssumption, FS_CardinalityType
<1>2. FedStep(x, S) \subseteq S
  BY DEF FedStep
<1> QED BY <1>1, <1>2, FedHops, FedWithin

(* And they are such a set: as long as a hop feeds somebody new it holds   *)
(* more peers than hops, and there is only one peer more than there are    *)
(* hops.                                                                   *)
LEMMA FedClosed ==
  ASSUME NEW x
  PROVE  /\ SourceUsable(x, Host)
         /\ \A q \in Viewers : Delivers(x, q, {p \in Peers : SourceUsable(x, p)})
                                 => SourceUsable(x, q)
<1> DEFINE N == Cardinality(Viewers)
<1>1. N \in Nat /\ N \in 0..N
  BY RouteAssumption, FS_CardinalityType
<1>2. PICK f : IsFed(x, f) /\ \A p : SourceUsable(x, p) <=> p \in f[N]
  BY FedHops
<1>10. IsFiniteSet(Peers) /\ Cardinality(Peers) = N + 1
  BY RouteAssumption, FS_AddElement DEF Peers
<1>3. ASSUME NEW n \in 0..N
      PROVE  /\ f[n] = IF n = 0 THEN {Host} ELSE FedStep(x, f[n-1])
             /\ f[n] \subseteq Peers /\ IsFiniteSet(f[n]) /\ Cardinality(f[n]) \in Nat
  <2>1. f[n] \subseteq Peers
    BY <1>2, <1>3, FedWithin, FedMonotone DEF Peers
  <2>2. IsFiniteSet(f[n]) /\ Cardinality(f[n]) \in Nat
    BY <1>10, <2>1, FS_Subset, FS_CardinalityType
  <2> QED BY <1>2, <1>3, <2>1, <2>2 DEF IsFed
<1> HIDE DEF N
<1> DEFINE Closed(n) == FedStep(x, f[n]) \subseteq f[n]
           T == {n \in 0..N : ~ (/\ f[n] \subseteq FedStep(x, f[n])
                                 /\ Closed(n) \/ Cardinality(f[n]) > n)}
<1>4. T = {}
  <2> SUFFICES ASSUME T # {} PROVE FALSE
    OBVIOUS
  <2>1. T \in SUBSET Nat
    OBVIOUS
  <2> DEFINE m == Lowest(T)
  <2>2. m \in T /\ \A k \in T : m <= k
    <3> HIDE DEF T
    <3> QED BY <2>1, LowestIs
  <2> HIDE DEF m
  <2>3. /\ m \in 0..N
        /\ ~ (f[m] \subseteq FedStep(x, f[m]) /\ (Closed(m) \/ Cardinality(f[m]) > m))
    BY <2>2
  <2>4. m # 0
    <3>1. SUFFICES ASSUME m = 0 PROVE FALSE
      OBVIOUS
    <3>2. f[0] = {Host}
      BY <1>3, <2>3, <3>1
    <3>3. Cardinality(f[0]) = 1
      BY <3>2, FS_Singleton
    <3>4. f[0] \subseteq FedStep(x, f[0])
      BY <3>2 DEF FedStep
    <3> HIDE DEF Closed
    <3> QED BY <2>3, <3>1, <3>3, <3>4
  <2>5. m - 1 \in 0..N /\ m - 1 \notin T /\ m \in Nat
    <3> HIDE DEF T, Closed
    <3> QED BY <1>1, <2>2, <2>3, <2>4
  <2>6. f[m] = FedStep(x, f[m-1])
    BY <1>3, <2>3, <2>4
  <2>7. f[m-1] \subseteq f[m] /\ (Closed(m-1) \/ Cardinality(f[m-1]) > m - 1)
    BY <2>5, <2>6
  <2>10. f[m] \subseteq FedStep(x, f[m])
    BY <2>6, <2>7, FedMonotone
  <2>8. CASE Closed(m-1)
    <3>1. f[m] = f[m-1]
      BY <2>6, <2>7, <2>8
    <3> QED BY <2>3, <2>8, <2>10, <3>1
  <2>9. CASE ~Closed(m-1)
    <3>1. f[m-1] # f[m]
      BY <2>6, <2>9
    <3>2. /\ IsFiniteSet(f[m]) /\ IsFiniteSet(f[m-1])
          /\ Cardinality(f[m]) \in Nat /\ Cardinality(f[m-1]) \in Nat
      BY <1>3, <2>3, <2>5
    <3>3. Cardinality(f[m-1]) < Cardinality(f[m])
      BY <2>7, <3>1, <3>2, FS_Subset
    <3> HIDE DEF Closed
    <3>4. Cardinality(f[m]) > m
      BY <2>5, <2>7, <2>9, <3>2, <3>3
    <3> QED BY <2>3, <2>10, <3>4
  <2> QED BY <2>8, <2>9
<1>5. f[N] \subseteq FedStep(x, f[N]) /\ (Closed(N) \/ Cardinality(f[N]) > N)
  BY <1>1, <1>4
<1>6. f[N] \subseteq Peers /\ IsFiniteSet(f[N]) /\ Cardinality(f[N]) \in Nat
  BY <1>1, <1>3
<1>7. Closed(N)
  <2>1. CASE Cardinality(f[N]) > N
    <3>1. Cardinality(f[N]) <= N + 1
      BY <1>6, <1>10, FS_Subset
    <3>2. Cardinality(f[N]) = Cardinality(Peers)
      BY <1>1, <1>6, <1>10, <2>1, <3>1
    <3>3. f[N] = Peers
      BY <1>6, <1>10, <3>2, FS_Subset
    <3> QED BY <3>3, FedMonotone
  <2> HIDE DEF Closed
  <2> QED BY <1>5, <2>1
<1>8. {p \in Peers : SourceUsable(x, p)} = f[N]
  BY <1>2, <1>6
<1>9. Host \in f[N]
  BY <1>7 DEF FedStep
<1> QED BY <1>2, <1>7, <1>8, <1>9 DEF FedStep

(* A usable source other than the host is fed itself.                      *)
LEMMA SourceFed ==
  ASSUME NEW x, NEW p, SourceUsable(x, p)
  PROVE  p = Host \/ (p \in Viewers /\ x.edge[p].usable /\ x.edge[p].active)
<1> DEFINE S == {Host} \cup {q \in Viewers : x.edge[q].usable /\ x.edge[q].active}
<1>1. Host \in S /\ \A q \in Viewers : Delivers(x, q, S) => q \in S
  BY DEF Delivers
<1>2. p \in S
  <2> HIDE DEF S
  <2> QED BY <1>1, FedLeast
<1> QED BY <1>2

-----------------------------------------------------------------------------
(* Only what the proof does not look at has changed.                       *)
Same(x, y) ==
  /\ DOMAIN y = Fields
  /\ y.order = x.order /\ y.online = x.online /\ y.departed = x.departed
  /\ y.edge = x.edge /\ y.pub = x.pub /\ y.retiring = x.retiring
  /\ y.op = x.op /\ y.subs = x.subs /\ y.pubs = x.pubs
  /\ y.cap = x.cap /\ y.intent \in Whom

(* The operation is reworked: a live attempt keeps its child, its plan and *)
(* what it reserved.                                                       *)
Reworks(x, y) ==
  /\ DOMAIN y = Fields
  /\ y.order = x.order /\ y.online = x.online /\ y.departed = x.departed
  /\ y.edge = x.edge /\ y.pub = x.pub /\ y.retiring = x.retiring
  /\ y.subs = x.subs /\ y.pubs = x.pubs
  /\ y.cap = x.cap /\ y.intent \in Whom
  /\ OpShape(y.op) /\ y.op.based = x.op.based
  /\ y.op.att.live = x.op.att.live /\ y.op.att.newest = x.op.att.newest
  /\ x.op.att.live =>
       /\ y.op.att.gen = x.op.att.gen /\ y.op.att.sub = x.op.att.sub
       /\ y.op.child = x.op.child
       /\ Planned(y) /\ y.op.plans[y.op.cursor + 1] = x.op.plans[x.op.cursor + 1]

(* Nobody has another parent or another subscription than before.          *)
Unmoved(x, y) ==
  \A v \in Viewers : y.edge[v].parent # "none" =>
    y.edge[v].parent = x.edge[v].parent /\ y.edge[v].sub = x.edge[v].sub

(* Nobody is fed who was not fed by the same parent, and no publication or *)
(* attempt appeared: nobody sends more copies.                             *)
Shrinks(x, y) ==
  /\ Unmoved(x, y)
  /\ y.departed = x.departed /\ y.online = x.online /\ y.cap = x.cap
  /\ \A v \in Viewers : y.edge[v].active =>
       x.edge[v].active /\ y.edge[v].parent = x.edge[v].parent
  /\ y.pub.gen # 0 => x.pub.gen # 0
  /\ y.op.att.live => x.op.att.live /\ Current(y) = Current(x)

(* An operation that keeps what has to be kept between operations.         *)
Onward(x, y) ==
  /\ Base(y) /\ Shrinks(x, y)
  /\ Watched(x) => Watched(y)
  /\ Anchored(x) => Anchored(y)

(* Operations that lead onward compose.                                    *)
LEMMA OnwardTransitive ==
  ASSUME NEW x, NEW y, NEW z, Onward(x, y), Onward(y, z) PROVE Onward(x, z)
BY DEF Onward, Shrinks, Unmoved

(* Doing nothing leads onward.                                             *)
LEMMA OnwardReflexive ==
  ASSUME NEW x, Base(x) PROVE Onward(x, x)
BY DEF Onward, Shrinks, Unmoved

(* The subscribers are a matter of the edges alone.                        *)
LEMMA FramePartsOf ==
  ASSUME NEW x, NEW y, y.edge = x.edge
  PROVE  /\ Subscribers(y) = Subscribers(x) /\ Used(y) = Used(x)
BY DEF Subscribers, OnSfu, Used

(* The tree is a matter of the edges and of who takes part.                *)
LEMMA FrameTree ==
  ASSUME NEW x, NEW y, y.edge = x.edge
  PROVE  /\ y.order = x.order /\ y.online = x.online /\ y.departed = x.departed
              => (Rooted(x) => Rooted(y))
         /\ y.retiring = x.retiring => (Anchored(x) => Anchored(y))
<1>1. Anchored(x) /\ y.retiring = x.retiring => Anchored(y)
  BY DEF Anchored, OnSfu
<1>2. ASSUME y.order = x.order, y.online = x.online, y.departed = x.departed, Rooted(x)
      PROVE  Rooted(y)
  <2>1. Participants(y) = Participants(x)
    BY <1>2 DEF Participants
  <2>2. PICK rank : Ranks(x, rank)
    BY <1>2 DEF Rooted
  <2>3. Ranks(y, rank)
    BY <2>2 DEF Ranks
  <2>4. Linked(y)
    BY <1>2, <2>1 DEF Rooted, Linked
  <2> QED BY <1>2, <2>1, <2>3, <2>4 DEF Rooted
<1> QED BY <1>1, <1>2

(* The reservations of the attempt are a matter of the operation alone.    *)
LEMMA FrameOperation ==
  ASSUME NEW x, NEW y, y.op = x.op
  PROVE  /\ Planned(y) = Planned(x) /\ Current(y) = Current(x) /\ HasOp(y) = HasOp(x)
         /\ ReservedSubscription(y) = ReservedSubscription(x)
         /\ ReservedGeneration(y) = ReservedGeneration(x)
<1>1. Planned(y) = Planned(x) /\ HasOp(y) = HasOp(x)
  BY DEF Planned, HasOp
<1>2. Current(y) = Current(x)
  BY <1>1 DEF Current
<1> QED BY <1>1, <1>2 DEF ReservedSubscription, ReservedGeneration

(* Without a live attempt nothing is reserved.                             *)
LEMMA IdleReserves ==
  ASSUME NEW x, ~x.op.att.live
  PROVE  ReservedSubscription(x) = {} /\ ReservedGeneration(x) = {}
BY DEF ReservedSubscription, ReservedGeneration

(* Reworking the operation around its attempt leads onward.                *)
LEMMA ReworksKeeps ==
  ASSUME NEW x, NEW y, Base(x), Reworks(x, y)
  PROVE  Onward(x, y)
<1>1. Subscribers(y) = Subscribers(x) /\ Used(y) = Used(x)
  BY FramePartsOf DEF Reworks
<1>2. Shape(y) /\ Prepared(y) /\ EdgesCurrent(y)
  BY <1>1 DEF Reworks, Base, Shape, Prepared, EdgesCurrent
<1>3. AttemptOwn(y) /\ Balanced(y)
  <2>1. CASE x.op.att.live
    <3>1. Planned(x) /\ Planned(y)
      BY <2>1 DEF Base, AttemptOwn, Reworks
    <3>2. Current(y) = Current(x)
      BY <2>1, <3>1 DEF Reworks, Current
    <3>3. /\ ReservedSubscription(y) = ReservedSubscription(x)
          /\ ReservedGeneration(y) = ReservedGeneration(x)
      BY <2>1, <3>2 DEF ReservedSubscription, ReservedGeneration, Reworks
    <3>4. AttemptOwn(y)
      BY <1>1, <2>1, <3>1, <3>2 DEF Reworks, Base, AttemptOwn
    <3> QED BY <1>1, <3>3, <3>4 DEF Reworks, Base, Balanced
  <2>2. CASE ~x.op.att.live
    <3>1. ~y.op.att.live
      BY <2>2 DEF Reworks
    <3> QED BY <1>1, <2>2, <3>1, IdleReserves DEF Reworks, Base, Balanced, AttemptOwn
  <2> QED BY <2>1, <2>2
<1>4. x.op.att.live => Current(y) = Current(x)
  BY DEF Reworks, Current, Base, AttemptOwn
<1>5. Shrinks(x, y)
  BY <1>4 DEF Reworks, Shrinks, Unmoved
<1>6. Rooted(y) /\ (Anchored(x) => Anchored(y))
  BY FrameTree DEF Reworks, Base
<1> QED BY <1>1, <1>2, <1>3, <1>5, <1>6 DEF Reworks, Base, Watched, Onward

(* Changing only what the proof does not look at leads onward.             *)
LEMMA SameKeeps ==
  ASSUME NEW x, NEW y, Base(x), Same(x, y)
  PROVE  Onward(x, y) /\ y.op = x.op
<1>1. x.op.att.live => Planned(y)
  BY DEF Base, AttemptOwn, Same, Planned
<1>2. Reworks(x, y)
  BY <1>1 DEF Base, Shape, Same, Reworks
<1> QED BY <1>2, ReworksKeeps DEF Same

(* The empty operation and the empty attempt.                              *)
LEMMA NoOperationShape ==
  /\ OpShape(NoOperation) /\ ~NoOperation.att.live /\ NoOperation.att.newest
  /\ NoOperation.based /\ NoOperation.child = "none" /\ NoOperation.cursor = 0
  /\ NoOperation.att = NoAttempt /\ DOMAIN NoAttempt = AttemptFields
  /\ ~NoAttempt.live /\ NoAttempt.newest
<1>1. IsSeq(<<>>) /\ Len(<<>>) = 0 /\ Range(<<>>) = {}
  BY DEF IsSeq, Range
<1>2. /\ NoOperation.plans = <<>> /\ NoOperation.child \in Whom
      /\ NoOperation.demand \in Whom /\ NoOperation.clock \in Clocks
  BY DEF NoOperation, Whom, Clocks
<1>3. DOMAIN NoOperation = OpFields /\ DOMAIN NoAttempt = AttemptFields
  BY DEF NoOperation, OpFields, NoAttempt, AttemptFields
<1>4. /\ ~NoAttempt.live /\ NoAttempt.newest /\ NoOperation.att = NoAttempt
      /\ NoOperation.based /\ NoOperation.child = "none" /\ NoOperation.cursor = 0
  BY DEF NoOperation, NoAttempt
<1> QED BY <1>1, <1>2, <1>3, <1>4 DEF OpShape

(* Spending a budget touches nothing else.                                 *)
LEMMA SpendSame ==
  ASSUME NEW x, NEW v, NEW plan, Shape(x) PROVE Same(x, Spend(x, v, plan))
BY DEF Same, Shape, Spend, Fields

(* Spending the budget of the current plan.                                *)
LEMMA ConsumeCurrentSame ==
  ASSUME NEW x, Shape(x) PROVE Same(x, ConsumeCurrent(x))
BY SpendSame DEF ConsumeCurrent, Same, Shape

(* Charging what an availability operation has visited.                    *)
LEMMA ConsumeAvailabilitySame ==
  ASSUME NEW x, Shape(x) PROVE Same(x, ConsumeAvailability(x))
BY DEF Same, Shape, ConsumeAvailability, Fields

(* Dropping the current plan from the continuation.                        *)
LEMMA ConsumeContinuationSame ==
  ASSUME NEW x, Shape(x) PROVE Same(x, ConsumeContinuation(x))
BY DEF Same, Shape, ConsumeContinuation, Fields

(* ReleaseAttempt gives back exactly what the attempt reserved.            *)
LEMMA ReleasedIs ==
  ASSUME NEW x, Base(x)
  PROVE  LET y == ReleaseAttempt(x)
         IN  /\ Onward(x, y) /\ ~y.op.att.live
             /\ y.online = x.online /\ y.cap = x.cap /\ y.edge = x.edge /\ y.pub = x.pub
             /\ y.op.child = x.op.child /\ y.op.plans = x.op.plans
             /\ y.op.cursor = x.op.cursor
<1> DEFINE y == ReleaseAttempt(x)
<1>1. CASE ~x.op.att.live
  <2>1. y = x
    BY <1>1 DEF ReleaseAttempt
  <2> QED BY <2>1, <1>1, OnwardReflexive
<1>2. CASE x.op.att.live
  <2>1. /\ DOMAIN y = Fields /\ y.online = x.online /\ y.cap = x.cap
        /\ y.order = x.order /\ y.retiring = x.retiring /\ y.intent = x.intent
        /\ y.departed = x.departed /\ y.edge = x.edge /\ y.pub = x.pub
        /\ y.pubs = x.pubs \ ReservedGeneration(x)
        /\ y.subs = x.subs \ ReservedSubscription(x)
    BY <1>2 DEF ReleaseAttempt, AdvanceActiveRevision, Base, Shape, Fields
  <2>2. /\ DOMAIN y.op = OpFields /\ y.op.att = NoAttempt /\ y.op.based
        /\ y.op.child = x.op.child /\ y.op.plans = x.op.plans /\ y.op.cursor = x.op.cursor
        /\ y.op.demand = x.op.demand /\ y.op.clock = x.op.clock
    BY <1>2
       DEF ReleaseAttempt, AdvanceActiveRevision, Base, Shape, OpShape, Fields, OpFields
  <2>3. Shape(y) /\ ~y.op.att.live /\ Prepared(y) /\ AttemptOwn(y)
    BY <2>1, <2>2, NoOperationShape DEF Base, Shape, OpShape, Prepared, AttemptOwn
  <2>4. Subscribers(y) = Subscribers(x) /\ Used(y) = Used(x)
    BY <2>1, FramePartsOf
  <2>5. ReservedSubscription(y) = {} /\ ReservedGeneration(y) = {}
    BY <2>3, IdleReserves
  <2>6. x.subs \ ReservedSubscription(x) = Used(x)
    <3>1. SUFFICES ASSUME NEW t \in ReservedSubscription(x), t \in Used(x) PROVE FALSE
      BY DEF Base, Balanced
    <3>2. IsSfu(Current(x)) /\ t = <<x.op.child, x.op.att.sub>>
      BY <3>1 DEF ReservedSubscription
    <3>3. PICK v \in Subscribers(x) : t = <<v, x.edge[v].sub>>
      BY <3>1 DEF Used
    <3> QED BY <1>2, <3>2, <3>3 DEF Base, AttemptOwn
  <2>7. x.pubs \ ReservedGeneration(x) = {x.pub.gen} \ {0}
    BY <1>2 DEF Base, Balanced, AttemptOwn, ReservedGeneration
  <2>8. Balanced(y)
    BY <2>1, <2>4, <2>5, <2>6, <2>7 DEF Balanced
  <2>9. EdgesCurrent(y) /\ (Watched(x) => Watched(y))
    BY <2>1, <2>4 DEF Base, EdgesCurrent, Watched
  <2>10. Rooted(y) /\ (Anchored(x) => Anchored(y))
    BY <2>1, FrameTree DEF Base
  <2> QED BY <2>1, <2>2, <2>3, <2>8, <2>9, <2>10 DEF Base, Onward, Shrinks, Unmoved
<1> QED BY <1>1, <1>2

(* AbortOperation leaves the empty operation and the tree as it was.       *)
LEMMA AbortedIs ==
  ASSUME NEW x, Base(x)
  PROVE  LET y == AbortOperation(x)
         IN  Onward(x, y) /\ ~y.op.att.live /\ y.op = NoOperation
             /\ y.edge = x.edge /\ y.pub = x.pub
<1> DEFINE r == ReleaseAttempt(x)
           y == AbortOperation(x)
<1>1. Onward(x, r) /\ ~r.op.att.live /\ r.edge = x.edge /\ r.pub = x.pub
  BY ReleasedIs
<1>2. /\ DOMAIN y = Fields /\ y.online = r.online /\ y.cap = r.cap
      /\ y.order = r.order /\ y.retiring = r.retiring /\ y.intent = r.intent
      /\ y.departed = r.departed
      /\ y.edge = r.edge /\ y.pub = r.pub /\ y.subs = r.subs /\ y.pubs = r.pubs
      /\ y.op = NoOperation
  BY <1>1 DEF AbortOperation, Onward, Base, Shape, Fields
<1>3. Shape(y) /\ Prepared(y) /\ ~y.op.att.live /\ AttemptOwn(y)
  BY <1>1, <1>2, NoOperationShape DEF Onward, Base, Shape, Prepared, AttemptOwn
<1>4. Subscribers(y) = Subscribers(r) /\ Used(y) = Used(r)
  BY <1>2, FramePartsOf
<1>5. Balanced(y) /\ EdgesCurrent(y) /\ (Watched(r) => Watched(y))
  BY <1>1, <1>2, <1>3, <1>4, IdleReserves DEF Onward, Base, Balanced, EdgesCurrent, Watched
<1>6. Rooted(y) /\ (Anchored(r) => Anchored(y))
  BY <1>1, <1>2, FrameTree DEF Onward, Base
<1> QED BY <1>1, <1>2, <1>3, <1>5, <1>6 DEF Base, Onward, Shrinks, Unmoved

-----------------------------------------------------------------------------
(* Cutting viewers off together with everybody below them leaves a forest. *)
LEMMA TrimmedRooted ==
  ASSUME NEW x, NEW y, NEW G \in SUBSET Viewers, Rooted(x),
         y.order = x.order, y.online = x.online, y.departed = x.departed,
         \A v \in Viewers \ G : y.edge[v].parent = x.edge[v].parent,
         \A v \in Viewers \ G : x.edge[v] = NoEdge => y.edge[v] = NoEdge,
         \A v \in G : y.edge[v] = NoEdge,
         \A v \in G : Children(x, v) \subseteq G
  PROVE  Rooted(y)
<1>1. Participants(y) = Participants(x)
  BY DEF Participants
<1>2. NoEdge.parent = "none" /\ "none" \notin Viewers
  BY RouteAssumption DEF NoEdge
<1>3. ASSUME NEW v \in Viewers
      PROVE /\ y.edge[v].parent \in {x.edge[v].parent, "none"}
            /\ y.edge[v].parent = "none" => y.edge[v] = NoEdge
  <2>1. CASE v \in G
    BY <1>2, <2>1
  <2>2. CASE v \notin G
    BY <1>2, <2>2 DEF Rooted, Linked
  <2> QED BY <2>1, <2>2
<1>4. ASSUME NEW v \in Viewers, y.edge[v].parent \in Viewers
      PROVE  y.edge[y.edge[v].parent].parent # "none"
  <2>1. v \notin G
    BY <1>2, <1>4
  <2>3. y.edge[v].parent = x.edge[v].parent
    BY <2>1
  <2>2. x.edge[v].parent \notin G
    BY <2>1 DEF Children
  <2> QED BY <1>4, <2>1, <2>2, <2>3 DEF Rooted, Linked
<1>5. PICK rank : Ranks(x, rank)
  BY DEF Rooted
<1>6. Ranks(y, rank)
  BY <1>2, <1>3, <1>5 DEF Ranks
<1>7. \A v \in Viewers : /\ y.edge[v].parent \in (Peers \ {v}) \cup {"sfu", "none"}
                        /\ y.edge[v].parent # "none" => v \in Participants(y)
  BY <1>1, <1>3 DEF Rooted, Linked
<1> QED BY <1>1, <1>3, <1>4, <1>6, <1>7 DEF Rooted, Linked

(* Deactivating no edge leaves no edge.                                    *)
LEMMA NoEdgeOff == [NoEdge EXCEPT !.usable = FALSE, !.active = FALSE] = NoEdge
<1> DEFINE e == [NoEdge EXCEPT !.usable = FALSE]
<1>1. NoEdge = [f \in DOMAIN NoEdge |-> NoEdge[f]] /\ NoEdge["usable"] = FALSE /\ NoEdge["active"] = FALSE
  BY Zenon DEF NoEdge
<1>2. e = NoEdge
  BY <1>1, Zenon
<1>3. [NoEdge EXCEPT !.active = FALSE] = NoEdge
  BY <1>1, Zenon
<1> QED BY <1>2, <1>3

(* The retiring generations are a matter of the retired edges alone.       *)
LEMMA AnchorsSame ==
  ASSUME NEW x, NEW y, y.retiring = x.retiring, OnSfu(y) = OnSfu(x),
         \A v \in OnSfu(x) : y.edge[v] = x.edge[v], Anchored(x)
  PROVE  Anchored(y)
BY DEF Anchored

(* The viewers L give up their subscriptions.                              *)
Leaves(x, y, L) ==
  /\ DOMAIN y = Fields /\ DOMAIN y.edge = Viewers
  /\ \A v \in Viewers : DOMAIN y.edge[v] = EdgeFields
  /\ y.order = x.order /\ y.online = x.online /\ y.departed = x.departed
  /\ y.pub = x.pub /\ y.op = x.op /\ y.pubs = x.pubs /\ y.cap = x.cap
  /\ y.intent = x.intent /\ Rooted(y)
  /\ Subscribers(y) = Subscribers(x) \ L
  /\ \A v \in Subscribers(y) : /\ y.edge[v].sub = x.edge[v].sub
                               /\ y.edge[v].gen = x.edge[v].gen
  /\ \A v \in Viewers : y.edge[v].active =>
       x.edge[v].active /\ y.edge[v].parent = x.edge[v].parent
  /\ Unmoved(x, y)
  /\ y.subs = x.subs \ {<<v, x.edge[v].sub>> : v \in L}

(* Giving up subscriptions in the tree and in the ledger together is       *)
(* exact.                                                                  *)
LEMMA LeavesKeeps ==
  ASSUME NEW x, NEW y, NEW L, L \subseteq Subscribers(x), Base(x), Leaves(x, y, L)
  PROVE  Base(y) /\ Shrinks(x, y)
<1>1. /\ Planned(y) = Planned(x) /\ Current(y) = Current(x)
      /\ ReservedSubscription(y) = ReservedSubscription(x)
      /\ ReservedGeneration(y) = ReservedGeneration(x)
  BY FrameOperation DEF Leaves, Unmoved
<1>2. Shape(y) /\ Prepared(y) /\ Shrinks(x, y)
  BY <1>1 DEF Leaves, Base, Shape, Prepared, Shrinks, Unmoved
<1>3. EdgesCurrent(y)
  BY DEF Leaves, Base, EdgesCurrent, Unmoved
<1>4. AttemptOwn(y)
  BY <1>1 DEF Leaves, Base, AttemptOwn, Unmoved
<1>5. y.subs = Used(y) \cup ReservedSubscription(y)
  <2>1. Used(y) = {<<v, x.edge[v].sub>> : v \in Subscribers(x) \ L}
    BY DEF Leaves, Used, Unmoved
  <2>2. ReservedSubscription(x) \cap {<<v, x.edge[v].sub>> : v \in L} = {}
    BY DEF Base, AttemptOwn, ReservedSubscription
  <2>3. Used(x) \ {<<v, x.edge[v].sub>> : v \in L}
          = {<<v, x.edge[v].sub>> : v \in Subscribers(x) \ L}
    BY DEF Used
  <2> QED BY <1>1, <2>1, <2>2, <2>3 DEF Leaves, Base, Balanced, Unmoved
<1>6. Balanced(y)
  BY <1>1, <1>5 DEF Leaves, Base, Balanced, Unmoved
<1>7. Rooted(y)
  BY DEF Leaves, Unmoved
<1> QED BY <1>2, <1>3, <1>4, <1>6, <1>7 DEF Base

(* The empty edge.                                                         *)
LEMMA NoEdgeShape ==
  DOMAIN NoEdge = EdgeFields /\ NoEdge.parent = "none" /\ ~NoEdge.active
BY DEF NoEdge, EdgeFields

(* Who subscribes.                                                         *)
LEMMA SubscribersOf ==
  ASSUME NEW x, NEW v
  PROVE  v \in Subscribers(x) <=> v \in Viewers /\ x.edge[v].parent = "sfu" /\ x.edge[v].active
BY DEF Subscribers, OnSfu

(* Pruning the anchors of retired generations takes nobody's subscription. *)
LEMMA PruneAnchorsKeeps ==
  ASSUME NEW x, Base(x)
  PROVE  LET y == PruneAnchors(x)
         IN  /\ Onward(x, y) /\ Anchored(y)
             /\ Subscribers(y) = Subscribers(x) /\ y.op = x.op /\ y.pub = x.pub
<1> DEFINE y == PruneAnchors(x)
           gone == {v \in OnSfu(x) : /\ ~x.edge[v].active /\ Children(x, v) = {}
                                     /\ x.edge[v].gen \in x.retiring}
<1>1. /\ DOMAIN y = Fields
      /\ y.edge = [v \in Viewers |-> IF v \in gone THEN NoEdge ELSE x.edge[v]]
      /\ y.online = x.online /\ y.cap = x.cap /\ y.departed = x.departed
      /\ y.order = x.order /\ y.intent = x.intent
      /\ y.retiring = {x.edge[v].gen : v \in {w \in OnSfu(x) : ~x.edge[w].active} \ gone}
      /\ y.pub = x.pub /\ y.op = x.op /\ y.pubs = x.pubs /\ y.subs = x.subs
  BY DEF PruneAnchors, Base, Shape, Fields
<1> HIDE DEF y
<1>2. /\ \A v \in gone : ~x.edge[v].active /\ Children(x, v) = {}
      /\ gone \subseteq Viewers
  BY DEF OnSfu
<1> HIDE DEF gone
<1>20. Rooted(y)
  BY <1>1, <1>2, TrimmedRooted DEF Base
<1>21. Anchored(y)
  <2>1. \A v \in Viewers : v \in OnSfu(y) <=> v \in OnSfu(x) \ gone
    BY <1>1, NoEdgeShape DEF OnSfu
  <2>2. \A v \in OnSfu(y) : v \in OnSfu(x) \ gone /\ y.edge[v] = x.edge[v]
    BY <1>1, <2>1 DEF OnSfu
  <2> QED BY <1>1, <2>1, <2>2 DEF Anchored, OnSfu
<1>3. Subscribers(y) = Subscribers(x)
  <2>1. ASSUME NEW v \in Viewers PROVE v \in Subscribers(y) <=> v \in Subscribers(x)
    <3>1. CASE v \in gone
      BY <1>1, <1>2, <3>1, SubscribersOf, NoEdgeShape
    <3>2. CASE v \notin gone
      <4>1. y.edge[v] = x.edge[v]
        BY <1>1, <3>2
      <4> QED BY <4>1, SubscribersOf
    <3> QED BY <3>1, <3>2
  <2> QED BY <2>1 DEF Subscribers, OnSfu
<1>4. Leaves(x, y, {})
  BY <1>1, <1>2, <1>20, <1>3, NoEdgeShape, SubscribersOf DEF Leaves, Base, Shape, Unmoved
<1>5. Base(y) /\ Shrinks(x, y)
  BY <1>4, LeavesKeeps
<1> QED BY <1>1, <1>21, <1>3, <1>5 DEF Onward, Watched, y

(* Retiring SFU edges releases the subscriptions of exactly those viewers. *)
LEMMA RetireSfuEdgesKeeps ==
  ASSUME NEW x, NEW S, S \subseteq OnSfu(x), Base(x)
  PROVE  LET y == RetireSfuEdges(x, S)
         IN  /\ Base(y) /\ Shrinks(x, y) /\ y.op = x.op /\ y.pub = x.pub
             /\ Subscribers(y) = Subscribers(x) \ S
             /\ \A v \in Viewers \ S : y.edge[v] = x.edge[v]
             /\ \A v \in S : ~y.edge[v].active
<1> DEFINE y == RetireSfuEdges(x, S)
           L == {w \in S : x.edge[w].active}
           retired(v) == IF v \in {w \in S : Children(x, w) # {}}
                         THEN [x.edge[v] EXCEPT !.usable = FALSE, !.active = FALSE]
                         ELSE NoEdge
<1>1. /\ DOMAIN y = Fields
      /\ y.edge = [v \in Viewers |-> IF v \in S THEN retired(v) ELSE x.edge[v]]
      /\ y.online = x.online /\ y.cap = x.cap /\ y.departed = x.departed
      /\ y.order = x.order /\ y.intent = x.intent
      /\ y.pub = x.pub /\ y.op = x.op /\ y.pubs = x.pubs
      /\ y.subs = x.subs \ {<<v, x.edge[v].sub>> : v \in L}
  BY DEF RetireSfuEdges, Base, Shape, Fields
<1>2. \A v \in Viewers : DOMAIN retired(v) = EdgeFields /\ ~retired(v).active
  BY NoEdgeShape DEF Base, Shape, EdgeFields
<1>21. \A v \in Viewers : retired(v).parent # "none" =>
         retired(v).parent = x.edge[v].parent /\ retired(v).sub = x.edge[v].sub
  BY NoEdgeShape DEF Base, Shape, EdgeFields
<1>20. Rooted(y)
  <2> DEFINE G == {v \in S : Children(x, v) = {}}
  <2>1. \A v \in Viewers : v \in S /\ v \notin G => retired(v).parent = x.edge[v].parent
    BY DEF Base, Shape, EdgeFields
  <2>2. \A v \in S : x.edge[v] # NoEdge /\ v \in Viewers
    BY NoEdgeShape DEF OnSfu
  <2>3. \A v \in G : v \in S /\ retired(v) = NoEdge /\ Children(x, v) = {}
    OBVIOUS
  <2> HIDE DEF retired, y, G
  <2>4. /\ G \in SUBSET Viewers /\ \A v \in G : Children(x, v) \subseteq G
        /\ \A v \in G : y.edge[v] = NoEdge
    BY <1>1, <2>2, <2>3
  <2>5. \A v \in Viewers \ G : y.edge[v].parent = x.edge[v].parent
    BY <1>1, <2>1
  <2>6. \A v \in Viewers \ G : x.edge[v] = NoEdge => y.edge[v] = NoEdge
    BY <1>1, <2>2
  <2> QED BY <1>1, <2>4, <2>5, <2>6, TrimmedRooted DEF Base
<1>3. L \subseteq Subscribers(x) /\ Subscribers(x) \ L = Subscribers(x) \ S
  BY DEF Subscribers, OnSfu
<1> HIDE DEF y, retired, L
<1>4. S \subseteq Viewers
  BY DEF OnSfu
<1>5. Subscribers(y) = Subscribers(x) \ S
  BY <1>1, <1>2, <1>4, SubscribersOf
<1>50. Unmoved(x, y)
  BY <1>1, <1>21 DEF Unmoved
<1>6. Leaves(x, y, L)
  BY <1>1, <1>2, <1>20, <1>3, <1>4, <1>5, <1>50, SubscribersOf DEF Leaves, Base, Shape
<1>7. Base(y) /\ Shrinks(x, y)
  BY <1>3, <1>6, LeavesKeeps
<1> QED BY <1>1, <1>2, <1>4, <1>5, <1>7 DEF y

(* The publication is dropped once nobody subscribes to it.                *)
LEMMA DropPublicationKeeps ==
  ASSUME NEW x, Base(x), Subscribers(x) = {}
  PROVE  LET y == DropPublication(x)
         IN  /\ Base(y) /\ Watched(y) /\ Shrinks(x, y) /\ y.op = x.op /\ y.edge = x.edge
             /\ y.pub = NoPublication /\ y.pub.gen = 0 /\ y.subs = x.subs
             /\ Anchored(x) => Anchored(y)
<1> DEFINE y == DropPublication(x)
<1>1. /\ DOMAIN y = Fields /\ y.edge = x.edge /\ y.online = x.online /\ y.cap = x.cap
      /\ y.departed = x.departed /\ y.op = x.op /\ y.subs = x.subs
      /\ y.order = x.order /\ y.retiring = x.retiring /\ y.intent = x.intent
      /\ y.pub = NoPublication /\ y.pubs = x.pubs \ {x.pub.gen}
  BY DEF DropPublication, Base, Shape, Fields
<1>2. DOMAIN y.pub = {"gen", "usable"} /\ y.pub.gen = 0
  BY <1>1 DEF NoPublication
<1> HIDE DEF y
<1>3. Subscribers(y) = {} /\ Used(y) = Used(x)
  BY <1>1, FramePartsOf
<1>4. /\ Planned(y) = Planned(x) /\ Current(y) = Current(x)
      /\ ReservedSubscription(y) = ReservedSubscription(x)
      /\ ReservedGeneration(y) = ReservedGeneration(x)
  BY <1>1, FrameOperation
<1>5. Shape(y) /\ Prepared(y) /\ EdgesCurrent(y) /\ Watched(y) /\ Shrinks(x, y)
  BY <1>1, <1>2, <1>3, <1>4 DEF Base, Shape, Prepared, EdgesCurrent, Watched, Shrinks, Unmoved
<1>6. AttemptOwn(y)
  BY <1>1, <1>2, <1>3, <1>4 DEF Base, AttemptOwn, IsSfu, Publications
<1>7. ReservedGeneration(x) \cap {0, x.pub.gen} = {}
  BY DEF Base, AttemptOwn, ReservedGeneration, IsSfu, Publications
<1>8. Balanced(y)
  BY <1>1, <1>2, <1>3, <1>4, <1>7 DEF Base, Balanced
<1>9. Rooted(y) /\ (Anchored(x) => Anchored(y))
  BY <1>1, FrameTree DEF Base
<1> QED BY <1>1, <1>2, <1>5, <1>6, <1>8, <1>9 DEF Base, y

(* DropUnusedPublication restores Watched.                                 *)
LEMMA DropUnusedKeeps ==
  ASSUME NEW x, Base(x)
  PROVE  LET y == DropUnusedPublication(x)
         IN  /\ Base(y) /\ Watched(y) /\ Shrinks(x, y) /\ y.op = x.op /\ y.edge = x.edge
             /\ Anchored(x) => Anchored(y)
<1>1. CASE Subscribers(x) = {} /\ x.pub.gen # 0
  BY <1>1, DropPublicationKeeps DEF DropUnusedPublication
<1>2. CASE ~(Subscribers(x) = {} /\ x.pub.gen # 0)
  BY <1>2 DEF DropUnusedPublication, Watched, Shrinks, Unmoved
<1> QED BY <1>1, <1>2

(* Removing the serving generation ends all its subscriptions.             *)
LEMMA RemovePublicationKeeps ==
  ASSUME NEW x, Base(x)
  PROVE  LET y == RemovePublicationGeneration(x, x.pub.gen)
         IN  /\ Onward(x, y) /\ Watched(y) /\ Anchored(y) /\ y.op = x.op /\ y.pub.gen = 0
             /\ Subscribers(y) = {}
<1> DEFINE S == {v \in OnSfu(x) : x.edge[v].gen = x.pub.gen}
           y == RetireSfuEdges(x, S)
           z == IF y.pub.gen = x.pub.gen THEN DropPublication(y) ELSE y
<1>1. S \subseteq OnSfu(x) /\ Subscribers(x) \subseteq S
  BY DEF Base, EdgesCurrent, Subscribers
<1> HIDE DEF S
<1>2. /\ Base(y) /\ Shrinks(x, y) /\ y.op = x.op /\ y.pub = x.pub
      /\ Subscribers(y) = Subscribers(x) \ S
  BY <1>1, RetireSfuEdgesKeeps
<1> HIDE DEF y
<1>3. z = DropPublication(y) /\ Subscribers(y) = {}
  BY <1>1, <1>2
<1>4. /\ Base(z) /\ Watched(z) /\ Shrinks(y, z) /\ z.op = y.op /\ z.edge = y.edge
      /\ z.pub.gen = 0
  BY <1>2, <1>3, DropPublicationKeeps
<1> HIDE DEF z
<1>5. Subscribers(z) = {}
  BY <1>3, <1>4, FramePartsOf
<1>6. LET w == PruneAnchors(z)
      IN  Onward(z, w) /\ Anchored(w) /\ Subscribers(w) = {} /\ w.op = z.op /\ w.pub = z.pub
  BY <1>4, <1>5, PruneAnchorsKeeps
<1>7. RemovePublicationGeneration(x, x.pub.gen) = PruneAnchors(z)
  BY DEF RemovePublicationGeneration, z, y, S
<1> QED BY <1>2, <1>4, <1>6, <1>7 DEF Onward, Shrinks, Unmoved

(* Deactivating a peer edge touches no subscription.                       *)
LEMMA PeerEdgeDeactivates ==
  ASSUME NEW x, NEW v \in Viewers, x.edge[v].parent # "sfu", Base(x)
  PROVE  LET y == Deactivate(x, v)
         IN  Onward(x, y) /\ Subscribers(y) = Subscribers(x) /\ y.op = x.op /\ y.pub = x.pub
<1> DEFINE y == Deactivate(x, v)
           off == [x.edge[v] EXCEPT !.usable = FALSE, !.active = FALSE]
<1>1. /\ DOMAIN y = Fields /\ y.edge = [x.edge EXCEPT ![v] = off]
      /\ y.online = x.online /\ y.cap = x.cap /\ y.departed = x.departed
      /\ y.order = x.order /\ y.retiring = x.retiring /\ y.intent = x.intent
      /\ y.pub = x.pub /\ y.op = x.op /\ y.pubs = x.pubs /\ y.subs = x.subs
  BY DEF Deactivate, Base, Shape, Fields, EdgeFields
<1>20. x.edge[v] = NoEdge => off = NoEdge
  BY NoEdgeOff
<1>2. /\ DOMAIN off = EdgeFields /\ ~off.active
      /\ off.parent = x.edge[v].parent /\ off.sub = x.edge[v].sub
  BY DEF Base, Shape, EdgeFields
<1> HIDE DEF y, off
<1>3. \A w \in Viewers : y.edge[w] = IF w = v THEN off ELSE x.edge[w]
  BY <1>1 DEF Base, Shape
<1>4. ASSUME NEW w \in Viewers PROVE w \in Subscribers(y) <=> w \in Subscribers(x)
  <2>1. CASE w = v
    BY <1>2, <1>3, <2>1, SubscribersOf
  <2>2. CASE w # v
    <3>1. y.edge[w] = x.edge[w]
      BY <1>3, <2>2
    <3> QED BY <3>1, SubscribersOf
  <2> QED BY <2>1, <2>2
<1>5. Subscribers(y) = Subscribers(x)
  BY <1>4 DEF Subscribers, OnSfu
<1>50. Rooted(y)
  <2>1. \A w \in Viewers \ {} : y.edge[w].parent = x.edge[w].parent
    BY <1>2, <1>3
  <2>2. \A w \in Viewers \ {} : x.edge[w] = NoEdge => y.edge[w] = NoEdge
    BY <1>20, <1>3
  <2> QED BY <1>1, <2>1, <2>2, TrimmedRooted, {} \in SUBSET Viewers DEF Base
<1>51. Anchored(x) => Anchored(y)
  <2>1. OnSfu(y) = OnSfu(x)
    BY <1>2, <1>3 DEF OnSfu
  <2>2. \A w \in OnSfu(x) : y.edge[w] = x.edge[w]
    BY <1>3 DEF OnSfu
  <2> QED BY <1>1, <2>1, <2>2, AnchorsSame
<1>6. Leaves(x, y, {})
  BY <1>1, <1>2, <1>3, <1>5, <1>50, SubscribersOf DEF Leaves, Base, Shape, Unmoved
<1>7. Base(y) /\ Shrinks(x, y)
  BY <1>6, LeavesKeeps
<1> QED BY <1>1, <1>5, <1>51, <1>7 DEF Onward, Watched, y

(* Retiring the edge that the operation found invalid.                     *)
LEMMA RetireInvalidKeeps ==
  ASSUME NEW x, NEW v \in Viewers, Base(x)
  PROVE  LET y == RetireInvalidOperationEdge(x, v) IN Onward(x, y) /\ y.op = x.op
<1>1. CASE ~EdgeRequiresMove(x, v)
  BY <1>1, OnwardReflexive DEF RetireInvalidOperationEdge
<1>2. CASE EdgeRequiresMove(x, v) /\ x.edge[v].parent # "sfu"
  BY <1>2, PeerEdgeDeactivates DEF RetireInvalidOperationEdge
<1>3. CASE EdgeRequiresMove(x, v) /\ x.edge[v].parent = "sfu"
  <2> DEFINE y == RetireSfuEdges(x, {v})
             z == PruneAnchors(y)
             w == DropUnusedPublication(z)
  <2>1. {v} \subseteq OnSfu(x)
    BY <1>3 DEF OnSfu
  <2>2. Base(y) /\ Shrinks(x, y) /\ y.op = x.op
    BY <2>1, RetireSfuEdgesKeeps
  <2> HIDE DEF y
  <2>3. Onward(y, z) /\ Anchored(z) /\ z.op = y.op
    BY <2>2, PruneAnchorsKeeps
  <2> HIDE DEF z
  <2>4. Base(w) /\ Watched(w) /\ Anchored(w) /\ Shrinks(z, w) /\ w.op = z.op
    BY <2>3, DropUnusedKeeps DEF Onward
  <2>5. RetireInvalidOperationEdge(x, v) = w
    BY <1>3 DEF RetireInvalidOperationEdge, w, z, y
  <2> HIDE DEF w
  <2> QED BY <2>2, <2>3, <2>4, <2>5 DEF Onward, Shrinks, Unmoved
<1> QED BY <1>1, <1>2, <1>3

-----------------------------------------------------------------------------
(* No departed viewer is fed.                                              *)
Gone(x) == \A v \in Viewers : v \in x.departed => ~x.edge[v].active

(* Nothing that shrinks feeds a departed viewer again.                     *)
LEMMA ShrinksGone ==
  ASSUME NEW x, NEW y, Gone(x), Shrinks(x, y) PROVE Gone(y)
BY DEF Gone, Shrinks, Unmoved

(* No attempt is live.                                                     *)
Idle(x) == ~x.op.att.live

(* Marking the operation stale keeps its attempt.                          *)
LEMMA TouchFactsKeeps ==
  ASSUME NEW x, Base(x)
  PROVE  /\ Onward(x, TouchFacts(x))
         /\ TouchFacts(x).op.att = x.op.att /\ TouchFacts(x).op.child = x.op.child
         /\ TouchFacts(x).op.plans = x.op.plans /\ TouchFacts(x).op.cursor = x.op.cursor
         /\ TouchFacts(x).edge = x.edge /\ TouchFacts(x).pub = x.pub
<1> DEFINE y == TouchFacts(x)
<1>1. CASE ~HasOp(x)
  BY <1>1, OnwardReflexive DEF TouchFacts
<1>2. CASE HasOp(x)
  <2>1. /\ DOMAIN y = Fields /\ y.edge = x.edge /\ y.online = x.online /\ y.cap = x.cap
        /\ y.departed = x.departed /\ y.pub = x.pub /\ y.pubs = x.pubs /\ y.subs = x.subs
        /\ y.order = x.order /\ y.retiring = x.retiring /\ y.intent = x.intent
        /\ y.op = [x.op EXCEPT !.stale = TRUE]
    BY <1>2 DEF TouchFacts, Base, Shape, Fields
  <2>2. /\ y.op.att = x.op.att /\ y.op.child = x.op.child /\ y.op.plans = x.op.plans
        /\ y.op.cursor = x.op.cursor /\ y.op.based = x.op.based /\ DOMAIN y.op = OpFields
        /\ y.op.demand = x.op.demand /\ y.op.clock = x.op.clock
    BY <2>1 DEF Base, Shape, OpShape, OpFields
  <2> HIDE DEF y
  <2>3. x.op.att.live => Planned(y)
    BY <2>2 DEF Base, AttemptOwn, Planned
  <2>4. Reworks(x, y)
    BY <2>1, <2>2, <2>3 DEF Base, Shape, OpShape, Reworks
  <2>9. Onward(x, y)
    BY <2>4, ReworksKeeps
  <2> QED BY <2>1, <2>2, <2>9 DEF y
<1> QED BY <1>1, <1>2

(* After RetireDepartedEdges no departed viewer is fed.                    *)
LEMMA RetireDepartedKeeps ==
  ASSUME NEW x, Good(x)
  PROVE  LET y == RetireDepartedEdges(x) IN Onward(x, y) /\ Gone(y)
<1> DEFINE leaving == {v \in x.departed : x.edge[v].active}
           a == AbortOperation(x)
           S == leaving \cap OnSfu(x)
           z == RetireSfuEdges(a, S)
           P == leaving \ OnSfu(x)
           w == [z EXCEPT !.edge = [v \in Viewers |->
                   IF v \in P THEN [z.edge[v] EXCEPT !.usable = FALSE, !.active = FALSE]
                   ELSE z.edge[v]]]
           d == DropUnusedPublication(w)
           p == PruneAnchors(d)
<1>1. CASE leaving = {}
  <2>1. RetireDepartedEdges(x) = x
    BY <1>1 DEF RetireDepartedEdges
  <2> QED BY <1>1, <2>1, OnwardReflexive DEF Gone, Good
<1>2. CASE leaving # {}
  <2>1. Onward(x, a) /\ a.op = NoOperation /\ a.edge = x.edge /\ a.pub = x.pub
    BY AbortedIs DEF Good
  <2> HIDE DEF a
  <2>2. S \subseteq OnSfu(a) /\ OnSfu(a) = OnSfu(x)
    BY <2>1 DEF OnSfu
  <2>3. /\ Base(z) /\ Shrinks(a, z) /\ z.op = a.op /\ z.pub = a.pub
        /\ Subscribers(z) = Subscribers(a) \ S
        /\ \A v \in Viewers \ S : z.edge[v] = a.edge[v]
        /\ \A v \in S : ~z.edge[v].active
    BY <2>1, <2>2, RetireSfuEdgesKeeps DEF Onward
  <2>4. /\ \A v \in P \cap Viewers : z.edge[v].parent # "sfu"
        /\ \A v \in Viewers : v \in x.departed /\ z.edge[v].active => v \in P
    BY <2>1, <2>3 DEF OnSfu
  <2> HIDE DEF z, P
  <2>5. /\ DOMAIN w = Fields /\ DOMAIN w.edge = Viewers
        /\ w.online = z.online /\ w.cap = z.cap /\ w.departed = z.departed
        /\ w.order = z.order /\ w.intent = z.intent
        /\ w.pub = z.pub /\ w.op = z.op /\ w.pubs = z.pubs /\ w.subs = z.subs
        /\ \A v \in Viewers : w.edge[v] =
             IF v \in P THEN [z.edge[v] EXCEPT !.usable = FALSE, !.active = FALSE]
             ELSE z.edge[v]
    BY <2>3 DEF Base, Shape, Fields
  <2> HIDE DEF w
  <2>6. \A v \in Viewers \cap P : /\ DOMAIN w.edge[v] = EdgeFields /\ ~w.edge[v].active
                                  /\ w.edge[v].parent = z.edge[v].parent
                                  /\ w.edge[v].sub = z.edge[v].sub
    BY <2>3, <2>5 DEF Base, Shape, EdgeFields
  <2>60. \A v \in Viewers \ {} : z.edge[v] = NoEdge => w.edge[v] = NoEdge
    BY <2>5, NoEdgeOff
  <2>61. \A v \in Viewers \ {} : w.edge[v].parent = z.edge[v].parent
    BY <2>5, <2>6
  <2>7. Subscribers(w) = Subscribers(z)
    <3>1. ASSUME NEW v \in Viewers PROVE v \in Subscribers(w) <=> v \in Subscribers(z)
      <4>1. CASE v \in P
        BY <2>4, <2>6, <4>1, SubscribersOf
      <4>2. CASE v \notin P
        <5>1. w.edge[v] = z.edge[v]
          BY <2>5, <4>2
        <5> QED BY <5>1, SubscribersOf
      <4> QED BY <4>1, <4>2
    <3> QED BY <3>1 DEF Subscribers, OnSfu
  <2>8. Leaves(z, w, {})
    <3>1. \A v \in Subscribers(w) : w.edge[v] = z.edge[v]
      BY <2>5, <2>6, SubscribersOf
    <3>2. \A v \in Viewers : DOMAIN w.edge[v] = EdgeFields
      BY <2>3, <2>5, <2>6 DEF Base, Shape
    <3>3. \A v \in Viewers : w.edge[v].active =>
            z.edge[v].active /\ w.edge[v].parent = z.edge[v].parent
      BY <2>5, <2>6
    <3>4. Rooted(w)
      BY <2>3, <2>5, <2>60, <2>61, TrimmedRooted, {} \in SUBSET Viewers DEF Base
    <3>5. Unmoved(z, w)
      BY <2>5, <2>6 DEF Unmoved
    <3> QED BY <2>5, <2>7, <3>1, <3>2, <3>3, <3>4, <3>5 DEF Leaves
  <2>9. Base(w) /\ Shrinks(z, w)
    BY <2>3, <2>8, LeavesKeeps
  <2>10. Gone(w)
    <3>1. w.departed = x.departed
      BY <2>1, <2>3, <2>5 DEF Shrinks, Onward, Unmoved
    <3>2. ASSUME NEW v \in Viewers, v \in x.departed PROVE ~w.edge[v].active
      <4>1. v \in P => ~w.edge[v].active
        BY <2>6
      <4>2. v \notin P => ~z.edge[v].active
        BY <2>4, <3>2
      <4>3. w.edge[v].active => z.edge[v].active
        BY <2>9 DEF Shrinks, Unmoved
      <4> QED BY <4>1, <4>2, <4>3
    <3> QED BY <3>1, <3>2 DEF Gone
  <2>11. Base(d) /\ Watched(d) /\ Shrinks(w, d) /\ d.op = w.op
    BY <2>9, DropUnusedKeeps
  <2> HIDE DEF d
  <2>12. Onward(d, p) /\ Anchored(p) /\ p.op = d.op
    BY <2>11, PruneAnchorsKeeps
  <2> HIDE DEF p
  <2>13. ~HasOp(p)
    BY <2>1, <2>3, <2>5, <2>11, <2>12, NoOperationShape DEF HasOp
  <2>14. RetireDepartedEdges(x) = p
    <3>1. RetireDepartedEdges(x) = AllocateRevision(TouchFacts(p))
      BY <1>2 DEF RetireDepartedEdges, p, d, w, z, a, P
    <3>2. TouchFacts(p) = p
      BY <2>13 DEF TouchFacts
    <3> QED BY <2>13, <3>1, <3>2 DEF AllocateRevision
  <2>15. Onward(x, p)
    BY <2>1, <2>3, <2>9, <2>11, <2>12 DEF Onward, Shrinks, Unmoved
  <2> QED BY <2>10, <2>11, <2>12, <2>14, <2>15, ShrinksGone DEF Onward
<1> QED BY <1>1, <1>2

-----------------------------------------------------------------------------
(* A sequence over any set is a list.                                      *)
LEMMA SeqListed ==
  ASSUME NEW S, NEW s \in Seq(S) PROVE IsSeq(s)
BY SeqOfRange DEF IsSeq

(* The members of a sequence over a set are in the set.                    *)
LEMMA SeqWithin ==
  ASSUME NEW S, NEW s \in Seq(S) PROVE Range(s) \subseteq S
BY DEF Range

(* The shape of a list.                                                    *)
LEMMA SeqShape ==
  ASSUME NEW s, IsSeq(s)
  PROVE  Len(s) \in Nat /\ DOMAIN s = 1..Len(s) /\ \A i \in 1..Len(s) : s[i] \in Range(s)
<1>1. Len(s) \in Nat /\ DOMAIN s = 1..Len(s)
  BY DEF IsSeq
<1> QED BY <1>1 DEF Range

(* A part of a list is a list.                                             *)
LEMMA SubSeqIs ==
  ASSUME NEW s, IsSeq(s), NEW m \in Nat \ {0}, NEW n \in 0..Len(s)
  PROVE  /\ IsSeq(SubSeq(s, m, n))
         /\ Len(SubSeq(s, m, n)) = IF m <= n THEN n - m + 1 ELSE 0
         /\ \A i \in 1..n - m + 1 : SubSeq(s, m, n)[i] = s[m + i - 1]
         /\ Range(SubSeq(s, m, n)) \subseteq Range(s)
<1>1. \A i \in m..n : s[i] \in Range(s)
  BY SeqShape
<1>2. m \in Int /\ n \in Int
  BY SeqShape
<1> DEFINE S == Range(s)
           t == SubSeq(s, m, n)
<1> HIDE DEF S
<1>3. \A i \in m..n : s[i] \in S
  BY <1>1 DEF S
<1>4. /\ t \in Seq(S) /\ Len(t) = IF m <= n THEN n - m + 1 ELSE 0
      /\ \A i \in 1..n - m + 1 : t[i] = s[m + i - 1]
  BY <1>2, <1>3, SubSeqProperties
<1> HIDE DEF t
<1>5. IsSeq(t) /\ Range(t) \subseteq S
  BY <1>4, SeqListed, SeqWithin
<1> QED BY <1>4, <1>5 DEF t, S

(* A concatenation of lists is a list.                                     *)
LEMMA ConcatIs ==
  ASSUME NEW s, NEW t, IsSeq(s), IsSeq(t)
  PROVE  /\ IsSeq(s \o t) /\ Len(s \o t) = Len(s) + Len(t)
         /\ \A i \in 1..Len(s) + Len(t) :
              (s \o t)[i] = IF i <= Len(s) THEN s[i] ELSE t[i - Len(s)]
         /\ Range(s \o t) \subseteq Range(s) \cup Range(t)
<1> DEFINE S == Range(s) \cup Range(t)
<1>1. s \in Seq(S) /\ t \in Seq(S)
  BY SeqMonotonic DEF IsSeq
<1> HIDE DEF S
<1>2. s \o t \in Seq(S)
  BY <1>1, ConcatProperties
<1>3. Range(s \o t) \subseteq S
  BY <1>2, SeqWithin
<1> QED BY <1>1, <1>2, <1>3, ConcatProperties, SeqListed DEF S

(* A function over an initial segment is a list.                           *)
LEMMA FunctionSeq ==
  ASSUME NEW n \in Nat, NEW f, f = [k \in 1..n |-> f[k]]
  PROVE  IsSeq(f) /\ Len(f) = n
<1>1. f \in [1..n -> Range(f)]
  BY DEF Range
<1>2. f \in Seq(Range(f))
  BY <1>1
<1> QED BY <1>1, <1>2 DEF IsSeq

(* What a list holds after one more member.                                *)
LEMMA AppendRange ==
  ASSUME NEW S, NEW s \in Seq(S), NEW e \in S
  PROVE  Append(s, e) \in Seq(S) /\ Range(Append(s, e)) = Range(s) \cup {e}
<1> DEFINE t == Append(s, e)
<1>1. /\ t \in Seq(S) /\ Len(t) = Len(s) + 1 /\ Len(s) \in Nat
      /\ DOMAIN t = 1..Len(s) + 1 /\ DOMAIN s = 1..Len(s)
      /\ \A i \in 1..Len(s) : t[i] = s[i]
      /\ t[Len(s) + 1] = e
  BY AppendProperties
<1> HIDE DEF t
<1>2. ASSUME NEW i \in DOMAIN t PROVE t[i] \in Range(s) \cup {e}
  <2>1. i \in DOMAIN s \/ i = Len(s) + 1
    BY <1>1
  <2> QED BY <1>1, <2>1 DEF Range
<1>3. ASSUME NEW i \in DOMAIN s PROVE i \in DOMAIN t /\ s[i] = t[i]
  BY <1>1
<1>4. Len(s) + 1 \in DOMAIN t
  BY <1>1
<1> QED BY <1>1, <1>2, <1>3, <1>4 DEF Range, t

(* Kept goes through the list.                                             *)
IsKept(s, I, f) ==
  f = [n \in 0..Len(s) |-> IF n = 0 THEN <<>>
                           ELSE IF n \in I THEN Append(f[n-1], s[n]) ELSE f[n-1]]

(* Kept returns a list of the members it is told to keep.                  *)
LEMMA KeptIs ==
  ASSUME NEW s, IsSeq(s), NEW I, I \subseteq DOMAIN s
  PROVE  IsSeq(Kept(s, I)) /\ Range(Kept(s, I)) = {s[i] : i \in I}
<1> DEFINE R == Range(s)
           S == Seq(R)
           N == Len(s)
           h == [n \in 1..N |-> [t \in S |-> IF n \in I THEN Append(t, s[n]) ELSE t]]
<1>1. N \in Nat /\ DOMAIN s = 1..N /\ I \subseteq 1..N /\ \A n \in 1..N : s[n] \in R
  BY SeqShape
<1> HIDE DEF R
<1>2. h \in [1..N -> [S -> S]] /\ <<>> \in S
  BY <1>1, AppendProperties
<1>3. \A n \in 1..N : \A t \in S : h[n][t] = IF n \in I THEN Append(t, s[n]) ELSE t
  OBVIOUS
<1> HIDE DEF h, N
<1>4. PICK f \in [0..N -> S] : f[0] = <<>> /\ \A n \in 1..N : f[n] = h[n][f[n-1]]
  <2> DEFINE a == <<>>
  <2>1. a \in S /\ h \in [1..N -> [S -> S]] /\ N \in Nat
    BY <1>1, <1>2
  <2> HIDE DEF S, a
  <2>2. \E f \in [0..N -> S] : f[0] = a /\ \A n \in 1..N : f[n] = h[n][f[n-1]]
    BY <2>1, IterationExists
  <2> QED BY <2>2 DEF a
<1>5. \A n \in 0..N : f[n] = IF n = 0 THEN <<>>
                             ELSE IF n \in I THEN Append(f[n-1], s[n]) ELSE f[n-1]
  <2>1. \A n \in 0..N : n # 0 => n \in 1..N /\ n - 1 \in 0..N
    BY <1>1
  <2> HIDE DEF S
  <2> QED BY <1>3, <1>4, <2>1
<1>6. IsKept(s, I, f)
  <2> HIDE DEF S
  <2> QED BY <1>4, <1>5 DEF IsKept, N
<1> DEFINE F == CHOOSE g : IsKept(s, I, g)
<1>7. Kept(s, I) = F[N]
  BY DEF Kept, IsKept, N
<1>8. IsKept(s, I, F)
  BY <1>6
<1> HIDE DEF F
<1> DEFINE Is(n) == F[n] \in S /\ Range(F[n]) = {s[i] : i \in I \cap 1..n}
           T == {n \in 0..N : ~Is(n)}
<1>9. T = {}
  <2> SUFFICES ASSUME T # {} PROVE FALSE
    OBVIOUS
  <2>1. T \in SUBSET Nat
    OBVIOUS
  <2> DEFINE m == Lowest(T)
  <2>2. m \in T /\ \A k \in T : m <= k
    <3> HIDE DEF T
    <3> QED BY <2>1, LowestIs
  <2> HIDE DEF m
  <2>3. m \in 0..N /\ ~Is(m)
    BY <2>2
  <2>4. F[m] = IF m = 0 THEN <<>> ELSE IF m \in I THEN Append(F[m-1], s[m]) ELSE F[m-1]
    <3>1. F = [n \in 0..N |-> IF n = 0 THEN <<>>
                              ELSE IF n \in I THEN Append(F[n-1], s[n]) ELSE F[n-1]]
      BY <1>8 DEF IsKept, N
    <3> HIDE DEF S
    <3> QED BY <2>3, <3>1
  <2>5. m # 0
    <3>1. SUFFICES ASSUME m = 0 PROVE FALSE
      OBVIOUS
    <3>2. F[0] = <<>>
      BY <2>4, <3>1
    <3>3. Range(<<>>) = {} /\ I \cap 1..0 = {}
      BY DEF Range
    <3> QED BY <1>2, <2>3, <3>1, <3>2, <3>3
  <2>6. m - 1 \in 0..N /\ m - 1 \notin T /\ m \in Nat
    <3> HIDE DEF T, Is
    <3> QED BY <1>1, <2>2, <2>3, <2>5
  <2>7. Is(m - 1)
    BY <2>6
  <2>8. CASE m \in I
    <3>1. F[m] \in S /\ Range(F[m]) = Range(F[m-1]) \cup {s[m]}
      BY <1>1, <2>4, <2>5, <2>7, <2>8, AppendRange
    <3>2. I \cap 1..m = (I \cap 1..m - 1) \cup {m}
      BY <2>5, <2>6, <2>8
    <3> QED BY <2>3, <2>7, <3>1, <3>2
  <2>9. CASE m \notin I
    <3>1. I \cap 1..m = I \cap 1..m - 1
      BY <2>5, <2>6, <2>9
    <3> QED BY <2>3, <2>4, <2>5, <2>7, <2>9, <3>1
  <2> QED BY <2>8, <2>9
<1>10. N \in 0..N /\ I \cap 1..N = I
  BY <1>1
<1>11. Is(N)
  BY <1>9, <1>10
<1> QED BY <1>7, <1>10, <1>11, SeqOfRange DEF IsSeq

(* Removing a member leaves a list that is one shorter.                    *)
LEMMA RemoveAtIs ==
  ASSUME NEW s, IsSeq(s), NEW i \in 1..Len(s)
  PROVE  /\ IsSeq(RemoveAt(s, i)) /\ Len(RemoveAt(s, i)) = Len(s) - 1
         /\ \A j \in 1..i - 1 : RemoveAt(s, i)[j] = s[j]
         /\ Range(RemoveAt(s, i)) \subseteq Range(s)
<1> DEFINE a == SubSeq(s, 1, i - 1)
           b == SubSeq(s, i + 1, Len(s))
<1>0. Len(s) \in Nat /\ i \in Nat
  BY SeqShape
<1>1. /\ IsSeq(a) /\ Len(a) = i - 1 /\ \A j \in 1..i - 1 : a[j] = s[j]
      /\ Range(a) \subseteq Range(s)
  BY <1>0, SubSeqIs
<1>2. IsSeq(b) /\ Len(b) = Len(s) - i /\ Range(b) \subseteq Range(s)
  BY <1>0, SubSeqIs
<1> HIDE DEF a, b
<1>3. /\ IsSeq(a \o b) /\ Len(a \o b) = Len(s) - 1 /\ \A j \in 1..i - 1 : (a \o b)[j] = s[j]
      /\ Range(a \o b) \subseteq Range(s)
  BY <1>0, <1>1, <1>2, ConcatIs
<1> QED BY <1>3 DEF RemoveAt, a, b

(* Inserting a member gives a list that is one longer.                     *)
LEMMA InsertAtIs ==
  ASSUME NEW s, IsSeq(s), NEW i \in 1..Len(s), NEW e
  PROVE  /\ IsSeq(InsertAt(s, i, e)) /\ Len(InsertAt(s, i, e)) = Len(s) + 1
         /\ \A j \in 1..i - 1 : InsertAt(s, i, e)[j] = s[j]
         /\ Range(InsertAt(s, i, e)) \subseteq Range(s) \cup {e}
<1> DEFINE a == SubSeq(s, 1, i - 1)
           b == SubSeq(s, i, Len(s))
<1>0. Len(s) \in Nat /\ i \in Nat
  BY SeqShape
<1>1. /\ IsSeq(a) /\ Len(a) = i - 1 /\ \A j \in 1..i - 1 : a[j] = s[j]
      /\ Range(a) \subseteq Range(s)
  BY <1>0, SubSeqIs
<1>2. IsSeq(b) /\ Len(b) = Len(s) - i + 1 /\ Range(b) \subseteq Range(s)
  BY <1>0, SubSeqIs
<1>3. IsSeq(<<e>>) /\ Len(<<e>>) = 1 /\ Range(<<e>>) \subseteq {e}
  <2>1. <<e>> \in Seq({e})
    OBVIOUS
  <2> QED BY <2>1, SeqListed, SeqWithin
<1> HIDE DEF a, b
<1>4. /\ IsSeq(a \o <<e>>) /\ Len(a \o <<e>>) = i
      /\ \A j \in 1..i - 1 : (a \o <<e>>)[j] = s[j]
      /\ Range(a \o <<e>>) \subseteq Range(s) \cup {e}
  BY <1>0, <1>1, <1>3, ConcatIs
<1>5. /\ IsSeq((a \o <<e>>) \o b) /\ Len((a \o <<e>>) \o b) = Len(s) + 1
      /\ \A j \in 1..i - 1 : ((a \o <<e>>) \o b)[j] = s[j]
      /\ Range((a \o <<e>>) \o b) \subseteq Range(s) \cup {e}
  BY <1>0, <1>2, <1>4, ConcatIs
<1> QED BY <1>5 DEF InsertAt, a, b

-----------------------------------------------------------------------------
(* The plans of an operation.                                              *)
LEMMA PlansShape ==
  ASSUME NEW x, Base(x)
  PROVE  /\ IsSeq(x.op.plans) /\ Len(x.op.plans) \in Nat
         /\ x.op.cursor \in Nat /\ x.op.cursor <= Len(x.op.plans)
         /\ DOMAIN x.op.plans = 1..Len(x.op.plans)
         /\ Range(x.op.plans) \subseteq Plans
         /\ \A i \in 1..Len(x.op.plans) : x.op.plans[i] \in Plans
<1>1. /\ IsSeq(x.op.plans) /\ x.op.cursor \in 0..Len(x.op.plans)
      /\ Range(x.op.plans) \subseteq Plans
  BY DEF Base, Shape, OpShape
<1> HIDE DEF Plans
<1> QED BY <1>1, SeqShape

(* The candidates that hold are plans.                                     *)
LEMMA ValidPlan ==
  ASSUME NEW x, Shape(x), NEW v, NEW plan, CandidateValid(x, v, plan)
  PROVE  plan \in Plans
<1>1. plan.via \in Publications \cup Peers
  BY DEF CandidateValid, ParentEligible, Shape
<1>2. plan.via # "none"
  BY <1>1, RouteAssumption DEF Publications, Peers
<1>3. \/ plan = NoPlan
      \/ plan \in {[via |-> plan.via, rank |-> r] : r \in {Steady, Overlap, Gap}}
  BY DEF CandidateValid, PlanCandidate, PlanAt
<1>4. NoPlan.via = "none"
  BY DEF NoPlan
<1> QED BY <1>1, <1>2, <1>3, <1>4 DEF Plans

(* The place of the SFU among the plans, or -1 when it cannot serve.       *)
LEMMA SfuIndexIs ==
  ASSUME NEW x, Base(x)
  PROVE  ForegroundSfuIndex(x) \in -1..Len(x.op.plans)
<1> DEFINE ahead == {i \in x.op.cursor .. Len(x.op.plans) - 1 : IsSfu(x.op.plans[i + 1])}
<1>1. Len(x.op.plans) \in Nat /\ x.op.cursor \in Nat
  BY PlansShape
<1>2. ahead \in SUBSET Nat
  BY <1>1
<1> HIDE DEF ahead
<1>3. ahead # {} => Lowest(ahead) \in ahead
  BY <1>2, LowestIs
<1> USE DEF ahead
<1> QED BY <1>1, <1>3 DEF ForegroundSfuIndex

(* Promoting a plan over waiting ones leaves the current plan alone.       *)
LEMMA PromoteKeeps ==
  ASSUME NEW x, NEW at, Base(x)
  PROVE  Onward(x, PromoteBefore(x, at)) /\ PromoteBefore(x, at).op.att = x.op.att
<1> DEFINE P == x.op.plans
           direct == {i \in at + 2 .. Len(P) : IsPeer(P[i])}
           i == Lowest(direct)
           Q == InsertAt(RemoveAt(P, i), at + 1, P[i])
           y == [x EXCEPT !.op.plans = Q]
           cond == /\ HasOp(x) /\ at = x.op.cursor + 1
                   /\ x.op.clock = "early" /\ direct # {}
<1>1. CASE ~cond
  <2>1. PromoteBefore(x, at) = x
    BY <1>1 DEF PromoteBefore
  <2> QED BY <2>1, OnwardReflexive
<1>2. CASE cond
  <2>1. /\ IsSeq(P) /\ Len(P) \in Nat /\ x.op.cursor \in Nat /\ x.op.cursor <= Len(P)
        /\ Range(P) \subseteq Plans /\ \A n \in 1..Len(P) : P[n] \in Plans
    BY PlansShape
  <2> HIDE DEF Plans
  <2>2. i \in at + 2 .. Len(P) /\ at \in Nat \ {0}
    <3>1. direct \in SUBSET Nat /\ direct # {} /\ at \in Nat \ {0}
      BY <1>2, <2>1
    <3> HIDE DEF direct
    <3>2. i \in direct
      BY <3>1, LowestIs
    <3> QED BY <3>1, <3>2 DEF direct
  <2> HIDE DEF i
  <2>3. /\ IsSeq(RemoveAt(P, i)) /\ Len(RemoveAt(P, i)) = Len(P) - 1
        /\ RemoveAt(P, i)[at] = P[at] /\ Range(RemoveAt(P, i)) \subseteq Plans
    BY <2>1, <2>2, RemoveAtIs
  <2>4. IsSeq(Q) /\ Len(Q) = Len(P) /\ Q[at] = P[at] /\ Range(Q) \subseteq Plans
    BY <2>1, <2>2, <2>3, InsertAtIs
  <2> HIDE DEF Q
  <2>5. /\ DOMAIN y = Fields /\ y.edge = x.edge /\ y.online = x.online /\ y.cap = x.cap
        /\ y.departed = x.departed /\ y.pub = x.pub /\ y.pubs = x.pubs /\ y.subs = x.subs
        /\ y.order = x.order /\ y.retiring = x.retiring /\ y.intent = x.intent
        /\ y.op = [x.op EXCEPT !.plans = Q]
    BY DEF Base, Shape, Fields
  <2>6. /\ DOMAIN y.op = OpFields /\ y.op.plans = Q /\ y.op.cursor = x.op.cursor
        /\ y.op.att = x.op.att /\ y.op.child = x.op.child /\ y.op.based = x.op.based
        /\ y.op.demand = x.op.demand /\ y.op.clock = x.op.clock
    BY <2>5 DEF Base, Shape, OpShape, OpFields
  <2> HIDE DEF y
  <2>7. OpShape(y.op)
    BY <2>1, <2>4, <2>6 DEF Base, Shape, OpShape
  <2>8. x.op.att.live => Planned(y)
    BY <2>4, <2>6 DEF Base, AttemptOwn, Planned
  <2>9. y.op.plans[y.op.cursor + 1] = P[x.op.cursor + 1]
    BY <1>2, <2>4, <2>6
  <2>10. Reworks(x, y)
    BY <2>5, <2>6, <2>7, <2>8, <2>9 DEF Reworks, Base, Shape
  <2>11. PromoteBefore(x, at) = y
    BY <1>2 DEF PromoteBefore, y, Q, i
  <2> QED BY <2>6, <2>10, <2>11, ReworksKeeps
<1> QED BY <1>1, <1>2

(* While no attempt is live, any operation may take the place of the one   *)
(* there is.                                                               *)
LEMMA IdleReplaced ==
  ASSUME NEW x, NEW y, Base(x), Idle(x),
         DOMAIN y = Fields, y.online = x.online, y.cap = x.cap, y.departed = x.departed,
         y.order = x.order, y.retiring = x.retiring, y.intent \in Whom,
         y.edge = x.edge, y.pub = x.pub, y.subs = x.subs, y.pubs = x.pubs,
         OpShape(y.op), y.op.based, ~y.op.att.live, y.op.att.newest
  PROVE  Onward(x, y) /\ Idle(y)
<1>1. Subscribers(y) = Subscribers(x) /\ Used(y) = Used(x)
  BY FramePartsOf
<1>2. Idle(y) /\ Shape(y) /\ Prepared(y) /\ EdgesCurrent(y) /\ AttemptOwn(y)
  BY <1>1 DEF Base, Shape, Prepared, EdgesCurrent, AttemptOwn, Idle
<1>3. Balanced(y)
  BY <1>1, <1>2, IdleReserves DEF Base, Balanced, Idle
<1>4. Rooted(y) /\ (Anchored(x) => Anchored(y))
  BY FrameTree DEF Base
<1> QED BY <1>1, <1>2, <1>3, <1>4 DEF Base, Onward, Shrinks, Watched, Unmoved

(* So it may be given one.                                                 *)
LEMMA IdleReworks ==
  ASSUME NEW x, Base(x), Idle(x), NEW op, OpShape(op), op.based, ~op.att.live, op.att.newest,
         NEW y, y = [x EXCEPT !.op = op]
  PROVE  Onward(x, y) /\ Idle(y) /\ y.op = op
<1>1. /\ DOMAIN y = Fields /\ y.edge = x.edge /\ y.online = x.online /\ y.cap = x.cap
      /\ y.departed = x.departed /\ y.pub = x.pub /\ y.pubs = x.pubs /\ y.subs = x.subs
      /\ y.order = x.order /\ y.retiring = x.retiring /\ y.intent \in Whom
      /\ y.op = op
  BY DEF Base, Shape, Fields
<1> QED BY <1>1, IdleReplaced

(* Finishing an operation.                                                 *)
LEMMA NoOperationKeeps ==
  ASSUME NEW x, Base(x), Idle(x)
  PROVE  LET y == [x EXCEPT !.op = NoOperation]
         IN  Onward(x, y) /\ Idle(y) /\ ~HasOp(y) /\ y.op = NoOperation
<1> DEFINE y == [x EXCEPT !.op = NoOperation]
<1>1. Onward(x, y) /\ Idle(y) /\ y.op = NoOperation
  BY IdleReworks, NoOperationShape
<1> QED BY <1>1, NoOperationShape DEF HasOp

(* Deferring the direct plans ahead of the SFU releases the attempt first. *)
LEMMA DeferKeeps ==
  ASSUME NEW x, NEW at \in -1..Len(x.op.plans), Base(x)
  PROVE  LET y == DeferDirect(x, at)
         IN  /\ Onward(x, y) /\ y.op.child = x.op.child
             /\ y = x \/ Idle(y)
<1> DEFINE y == IF x.op.att.live THEN ReleaseAttempt(ConsumeCurrent(x)) ELSE x
           passed == {i \in x.op.cursor + 1 .. Least(at, Len(x.op.plans)) :
                        IsPeer(x.op.plans[i])}
           z == [y EXCEPT !.op.deferred = @ \cup {x.op.plans[i].via : i \in passed},
                          !.op.cursor = at]
           cond == /\ IsPeer(Current(x)) /\ ~x.op.att.connected
                   /\ at > x.op.cursor /\ x.op.clock # "early"
<1>1. CASE ~cond
  <2>1. DeferDirect(x, at) = x
    BY <1>1 DEF DeferDirect
  <2> QED BY <2>1, OnwardReflexive
<1>2. CASE cond
  <2>1. /\ Onward(x, y) /\ Idle(y) /\ y.op.child = x.op.child /\ y.op.plans = x.op.plans
        /\ y.op.cursor = x.op.cursor
    <3>1. CASE x.op.att.live
      <4>1. Same(x, ConsumeCurrent(x))
        BY ConsumeCurrentSame DEF Base
      <4>2. Onward(x, ConsumeCurrent(x)) /\ ConsumeCurrent(x).op = x.op
        BY <4>1, SameKeeps
      <4>3. Base(ConsumeCurrent(x))
        BY <4>2 DEF Onward
      <4>4. LET r == ReleaseAttempt(ConsumeCurrent(x))
            IN  /\ Onward(ConsumeCurrent(x), r) /\ ~r.op.att.live
                /\ r.op.child = x.op.child /\ r.op.plans = x.op.plans
                /\ r.op.cursor = x.op.cursor
        BY <4>2, <4>3, ReleasedIs
      <4>5. y = ReleaseAttempt(ConsumeCurrent(x))
        BY <3>1
      <4> HIDE DEF y
      <4> QED BY <4>2, <4>4, <4>5, OnwardTransitive DEF Idle
    <3>2. CASE ~x.op.att.live
      BY <3>2, OnwardReflexive DEF Idle
    <3> QED BY <3>1, <3>2
  <2>2. at \in 0..Len(x.op.plans)
    BY <1>2, PlansShape
  <2> DEFINE op == [[y.op EXCEPT !.deferred = y.op.deferred \cup {x.op.plans[i].via : i \in passed}]
                      EXCEPT !.cursor = at]
  <2>3. DeferDirect(x, at) = z
    BY <1>2 DEF DeferDirect
  <2> HIDE DEF y, passed
  <2>4. z = [y EXCEPT !.op = op]
    BY <2>1 DEF Onward, Base, Shape, Fields
  <2>5. /\ DOMAIN op = OpFields /\ op.child = x.op.child /\ op.plans = x.op.plans
        /\ op.cursor = at /\ op.att = y.op.att /\ op.based = y.op.based
        /\ op.demand = y.op.demand /\ op.clock = y.op.clock
    BY <2>1 DEF Onward, Base, Shape, OpShape, OpFields
  <2> HIDE DEF op, z
  <2>6. OpShape(op) /\ op.based /\ ~op.att.live /\ op.att.newest
    <3> HIDE DEF Plans
    <3> QED BY <2>1, <2>2, <2>5 DEF Onward, Base, Shape, OpShape, Prepared, Idle
  <2>7. Onward(y, z) /\ Idle(z) /\ z.op = op
    BY <2>1, <2>4, <2>6, IdleReworks DEF Onward
  <2> QED BY <2>1, <2>3, <2>5, <2>7, OnwardTransitive
<1> QED BY <1>1, <1>2

(* Replanning what lies after the cursor keeps the cursor in range.        *)
LEMMA ReplanKeeps ==
  ASSUME NEW x, NEW first, NEW restore, Base(x), Idle(x)
  PROVE  LET y == ReplanRemaining(x, first, restore)
         IN  /\ Onward(x, y) /\ Idle(y) /\ y.op.child = x.op.child
             /\ y.edge = x.edge /\ y.pub = x.pub
<1> DEFINE P == x.op.plans
           done == Least(x.op.cursor, Len(P))
           tail == [i \in 1 .. Len(P) - done |-> P[done + i].via]
           forced == IF first = "none" THEN tail
                     ELSE IF tail = <<>> THEN <<first>> ELSE [tail EXCEPT ![1] = first]
           vias == IF restore = "none" \/ restore \in Range(forced) THEN forced
                   ELSE Append(forced, restore)
           plans == [i \in DOMAIN vias |-> PlanCandidate(x, x.op.child, vias[i])]
           I == {i \in DOMAIN plans : Operable(x, plans[i])}
           Q == SubSeq(P, 1, done) \o Kept(plans, I)
           op == [[x.op EXCEPT !.plans = Q] EXCEPT !.stale = FALSE]
           y == ReplanRemaining(x, first, restore)
<1>1. /\ IsSeq(P) /\ Len(P) \in Nat /\ x.op.cursor \in Nat /\ x.op.cursor <= Len(P)
      /\ Range(P) \subseteq Plans
  BY PlansShape
<1> HIDE DEF Plans
<1>2. done = x.op.cursor
  BY <1>1 DEF Least
<1>3. y = [x EXCEPT !.op = op]
  <2>1. y = [x EXCEPT !.op.plans = Q, !.op.stale = FALSE]
    BY DEF ReplanRemaining
  <2> HIDE DEF Q, y
  <2> QED BY <2>1 DEF Base, Shape, Fields
<1> HIDE DEF y, done
<1>4. IsSeq(tail)
  <2>1. Len(P) - done \in Nat /\ tail = [k \in 1..Len(P) - done |-> tail[k]]
    BY <1>1, <1>2
  <2> HIDE DEF tail
  <2> QED BY <2>1, FunctionSeq
<1> HIDE DEF tail
<1>5. IsSeq(forced)
  <2>1. IsSeq(<<first>>)
    <3>1. <<first>> \in Seq({first})
      OBVIOUS
    <3> QED BY <3>1, SeqListed
  <2>2. IsSeq([tail EXCEPT ![1] = first])
    <3> DEFINE t == [tail EXCEPT ![1] = first]
    <3>1. Len(tail) \in Nat /\ t = [k \in 1..Len(tail) |-> t[k]]
      BY <1>4, SeqShape
    <3> HIDE DEF t
    <3>2. IsSeq(t)
      BY <3>1, FunctionSeq
    <3> QED BY <3>2 DEF t
  <2> QED BY <1>4, <2>1, <2>2
<1> HIDE DEF forced
<1>6. IsSeq(vias)
  <2>1. IsSeq(Append(forced, restore))
    <3> DEFINE S == Range(forced) \cup {restore}
    <3>1. forced \in Seq(S) /\ restore \in S
      BY <1>5, SeqMonotonic DEF IsSeq
    <3> HIDE DEF S
    <3>2. Append(forced, restore) \in Seq(S)
      BY <3>1, AppendProperties
    <3> QED BY <3>2, SeqListed
  <2> QED BY <1>5, <2>1
<1> HIDE DEF vias
<1>7. IsSeq(plans) /\ I \subseteq DOMAIN plans /\ \A i \in I : plans[i] \in Plans
  <2>1. Len(vias) \in Nat /\ plans = [k \in 1..Len(vias) |-> plans[k]]
    BY <1>6, SeqShape
  <2>2. I \subseteq DOMAIN plans /\ \A i \in I : Operable(x, plans[i])
    OBVIOUS
  <2> HIDE DEF plans, I
  <2>3. \A i \in I : plans[i] \in Plans
    BY <2>2, ValidPlan DEF Operable, Base
  <2> QED BY <2>1, <2>2, <2>3, FunctionSeq
<1> HIDE DEF plans, I
<1>8. /\ IsSeq(Kept(plans, I)) /\ Len(Kept(plans, I)) \in Nat
      /\ Range(Kept(plans, I)) \subseteq Plans
  BY <1>7, KeptIs, SeqShape
<1>9. /\ IsSeq(SubSeq(P, 1, done)) /\ Len(SubSeq(P, 1, done)) = x.op.cursor
      /\ Range(SubSeq(P, 1, done)) \subseteq Plans
  BY <1>1, <1>2, SubSeqIs
<1>10. IsSeq(Q) /\ Len(Q) >= x.op.cursor /\ Len(Q) \in Nat /\ Range(Q) \subseteq Plans
  <2> DEFINE a == SubSeq(P, 1, done)
             b == Kept(plans, I)
  <2>1. /\ IsSeq(a) /\ IsSeq(b) /\ Len(a) = x.op.cursor /\ Len(b) \in Nat
        /\ Range(a) \subseteq Plans /\ Range(b) \subseteq Plans
    BY <1>8, <1>9
  <2> HIDE DEF a, b
  <2>2. /\ IsSeq(a \o b) /\ Len(a \o b) = x.op.cursor + Len(b)
        /\ Range(a \o b) \subseteq Plans
    BY <2>1, ConcatIs
  <2>3. Q = a \o b
    BY DEF a, b
  <2> HIDE DEF Q
  <2> QED BY <1>1, <2>1, <2>2, <2>3
<1> HIDE DEF Q
<1>11. /\ DOMAIN op = OpFields /\ op.child = x.op.child /\ op.plans = Q
       /\ op.cursor = x.op.cursor /\ op.att = x.op.att /\ op.based = x.op.based
       /\ op.demand = x.op.demand /\ op.clock = x.op.clock
  BY DEF Base, Shape, OpShape, OpFields
<1> HIDE DEF op
<1>12. OpShape(op) /\ op.based /\ ~op.att.live /\ op.att.newest
  BY <1>1, <1>10, <1>11 DEF Base, Shape, OpShape, Prepared, Idle
<1>13. Onward(x, y) /\ Idle(y) /\ y.op = op
  BY <1>3, <1>12, IdleReworks
<1>14. y.edge = x.edge /\ y.pub = x.pub
  BY <1>3 DEF Base, Shape, Fields
<1> QED BY <1>11, <1>13, <1>14 DEF y

(* Advancing to the next plan.                                             *)
LEMMA NextKeeps ==
  ASSUME NEW x, NEW tried \in BOOLEAN, Base(x), x.op.att.live
  PROVE  LET y == NextCandidate(x, tried)
         IN  Onward(x, y) /\ Idle(y) /\ y.op.child = x.op.child
<1> DEFINE u == IF tried THEN ConsumeCurrent(x) ELSE x
           w == ConsumeContinuation(u)
           y == ReleaseAttempt(w)
<1>1. Onward(x, u) /\ u.op = x.op
  BY ConsumeCurrentSame, SameKeeps, OnwardReflexive DEF Base
<1> HIDE DEF u
<1>2. Onward(u, w) /\ w.op = u.op
  BY <1>1, ConsumeContinuationSame, SameKeeps DEF Onward, Base
<1> HIDE DEF w
<1>3. /\ Onward(w, y) /\ Idle(y) /\ y.op.child = w.op.child
      /\ y.op.plans = w.op.plans /\ y.op.cursor = w.op.cursor
  BY <1>2, ReleasedIs DEF Onward, Idle
<1> HIDE DEF y
<1>4. /\ Onward(x, y) /\ Idle(y) /\ y.op.child = x.op.child
      /\ y.op.plans = x.op.plans /\ y.op.cursor = x.op.cursor
  BY <1>1, <1>2, <1>3, OnwardTransitive
<1>5. /\ IsSeq(x.op.plans) /\ Len(x.op.plans) \in Nat
      /\ x.op.cursor \in Nat /\ x.op.cursor < Len(x.op.plans)
  BY PlansShape DEF Base, AttemptOwn, Planned
<1> DEFINE R == RemoveAt(y.op.plans, y.op.cursor + 1)
           op == IF tried THEN [y.op EXCEPT !.cursor = y.op.cursor + 1]
                 ELSE [y.op EXCEPT !.plans = R]
           z == [y EXCEPT !.op = op]
<1>6. IsSeq(R) /\ Len(R) = Len(x.op.plans) - 1 /\ Range(R) \subseteq Range(x.op.plans)
  <2>1. x.op.cursor + 1 \in 1..Len(x.op.plans)
    BY <1>5
  <2> QED BY <1>4, <1>5, <2>1, RemoveAtIs
<1> HIDE DEF R
<1>7. NextCandidate(x, tried) = z
  BY <1>4 DEF NextCandidate, Onward, Base, Shape, Fields, y, w, u, R
<1>8. /\ DOMAIN op = OpFields /\ op.child = x.op.child /\ op.att = y.op.att
      /\ op.based = y.op.based /\ op.demand = y.op.demand /\ op.clock = y.op.clock
      /\ op.plans = (IF tried THEN x.op.plans ELSE R)
      /\ op.cursor = (IF tried THEN x.op.cursor + 1 ELSE x.op.cursor)
  BY <1>4 DEF Onward, Base, Shape, OpShape, OpFields
<1> HIDE DEF op
<1>9. OpShape(op) /\ op.based /\ ~op.att.live /\ op.att.newest
  <2> HIDE DEF Plans
  <2> QED BY <1>4, <1>5, <1>6, <1>8 DEF Onward, Base, Shape, OpShape, Prepared, Idle
<1>10. Onward(y, z) /\ Idle(z) /\ z.op = op
  BY <1>4, <1>9, IdleReworks DEF Onward
<1> QED BY <1>4, <1>7, <1>8, <1>10, OnwardTransitive

(* A waiting operation is renewed on the current revision.                 *)
LEMMA RenewedKeeps ==
  ASSUME NEW x, NEW failed \in BOOLEAN, Base(x)
  PROVE  LET y == Renewed(x, failed)
         IN  Onward(x, y) /\ Idle(y) /\ y.op.child = x.op.child
<1>1. CASE x.op.att.live
  <2> DEFINE y == NextCandidate(x, failed \/ NoProgress(x))
  <2>1. Onward(x, y) /\ Idle(y) /\ y.op.child = x.op.child
    BY <1>1, NextKeeps
  <2> HIDE DEF y
  <2>2. LET z == ReplanRemaining(y, "none", "none")
        IN  Onward(y, z) /\ Idle(z) /\ z.op.child = y.op.child
    BY <2>1, ReplanKeeps DEF Onward
  <2>3. Renewed(x, failed) = ReplanRemaining(y, "none", "none")
    BY <1>1 DEF Renewed, y
  <2> QED BY <2>1, <2>2, <2>3, OnwardTransitive
<1>2. CASE ~x.op.att.live
  BY <1>2, ReplanKeeps, OnwardReflexive DEF Renewed, Idle
<1> QED BY <1>1, <1>2

-----------------------------------------------------------------------------
(* What happens to a controller without a live attempt, and leaves it      *)
(* without one.                                                            *)
Calmly(x, y) == Onward(x, y) /\ Idle(y)

(* The small change of composing such operations.                          *)
LEMMA CalmlyTransitive ==
  ASSUME NEW x, NEW y, NEW z, Onward(x, y), Calmly(y, z) PROVE Calmly(x, z)
BY OnwardTransitive DEF Calmly

(* Changing only what the proof does not look at is calm.                  *)
LEMMA SameCalmly ==
  ASSUME NEW x, NEW y, Base(x), Idle(x), Same(x, y)
  PROVE  Calmly(x, y) /\ y.op = x.op
BY SameKeeps DEF Calmly, Idle

(* Such changes compose.                                                   *)
LEMMA SameTransitive ==
  ASSUME NEW x, NEW y, NEW z, Same(x, y), Same(y, z) PROVE Same(x, z)
BY DEF Same

(* They keep the shape.                                                    *)
LEMMA SameShape ==
  ASSUME NEW x, NEW y, Shape(x), Same(x, y) PROVE Shape(y)
BY DEF Same, Shape

(* Doing nothing is one.                                                   *)
LEMMA SameReflexive ==
  ASSUME NEW x, Shape(x) PROVE Same(x, x)
BY DEF Same, Shape

(* Remembering that a viewer could not be served touches nothing else.     *)
LEMMA RememberUnavailableSame ==
  ASSUME NEW x, NEW v, Shape(x) PROVE Same(x, RememberUnavailable(x, v))
BY SameReflexive DEF RememberUnavailable, Same, Shape, Fields, Whom

(* Neither does completing the carrier.                                    *)
LEMMA CompleteCarrierSame ==
  ASSUME NEW x, NEW v, NEW plan, Shape(x) PROVE Same(x, CompleteCarrier(x, v, plan))
<1>1. ASSUME NEW p PROVE Same(x, SpendCarrier(x, v, p))
  <2> DEFINE y == Spend(x, v, p)
             z == [y EXCEPT !.carried[v] = Least(@, p.rank)]
  <2>1. Same(x, y)
    BY SpendSame
  <2> HIDE DEF y
  <2>2. Same(y, z)
    BY <2>1 DEF Same, Fields
  <2>3. SpendCarrier(x, v, p) = IF p = NoPlan THEN x ELSE z
    BY DEF SpendCarrier, y
  <2> HIDE DEF z
  <2> QED BY <2>1, <2>2, <2>3, SameTransitive, SameReflexive
<1>2. ASSUME NEW y, Same(x, y) PROVE Same(x, CarrierSpent(y))
  BY <1>2 DEF CarrierSpent, Same, Fields, Whom
<1> DEFINE p == IF plan # NoPlan THEN plan ELSE PlanCandidate(x, v, "create")
<1>3. CompleteCarrier(x, v, plan)
        = IF x.intent = "none" THEN x ELSE CarrierSpent(SpendCarrier(x, v, p))
  BY DEF CompleteCarrier
<1> HIDE DEF p
<1> QED BY <1>1, <1>2, <1>3, SameReflexive

(* Giving up on a viewer ends its operation.                               *)
LEMMA GiveUpKeeps ==
  ASSUME NEW x, NEW v \in Viewers, Base(x), Idle(x)
  PROVE  LET y == GiveUp(x, v) IN Calmly(x, y) /\ y.op = NoOperation
<1> DEFINE a == [x EXCEPT !.op = NoOperation]
           b == RetireInvalidOperationEdge(a, v)
           y == [b EXCEPT !.exhausted = @ \cup {v}]
<1>1. Onward(x, a) /\ Idle(a) /\ a.op = NoOperation
  BY NoOperationKeeps
<1> HIDE DEF a
<1>2. Onward(a, b) /\ b.op = a.op
  BY <1>1, RetireInvalidKeeps DEF Onward
<1> HIDE DEF b
<1>3. Same(b, y)
  BY <1>2 DEF Same, Onward, Base, Shape, Fields
<1> HIDE DEF y
<1>4. Onward(b, y) /\ y.op = b.op
  BY <1>2, <1>3, SameKeeps DEF Onward
<1>5. GiveUp(x, v) = y
  BY DEF GiveUp, y, b, a
<1> QED BY <1>1, <1>2, <1>4, <1>5, OnwardTransitive, NoOperationShape DEF Calmly, Idle

(* Concluding an operation whose plans are exhausted ends it.              *)
LEMMA ConcludeKeeps ==
  ASSUME NEW x, Base(x), Idle(x), HasOp(x)
  PROVE  LET y == Conclude(x) IN Calmly(x, y) /\ y.op = NoOperation
<1> DEFINE v == x.op.child
<1>1. v \in Viewers
  BY DEF Base, Shape, OpShape, HasOp, Whom
<1> HIDE DEF v
<1>2. ASSUME NEW y, Same(x, y)
      PROVE  LET g == GiveUp(y, v) IN Calmly(x, g) /\ g.op = NoOperation
  <2>1. Calmly(x, y)
    BY <1>2, SameCalmly
  <2>2. LET g == GiveUp(y, v) IN Calmly(y, g) /\ g.op = NoOperation
    BY <1>1, <2>1, GiveUpKeeps DEF Calmly, Onward
  <2> QED BY <2>1, <2>2, CalmlyTransitive DEF Calmly
<1>3. CASE x.op.reason = "bootstrap"
  <2> DEFINE y == CompleteCarrier(x, v, LastPlan(x))
  <2>1. Same(x, y)
    BY CompleteCarrierSame DEF Base
  <2>2. Calmly(x, y)
    BY <2>1, SameCalmly
  <2>3. Conclude(x) = [y EXCEPT !.op = NoOperation]
    BY <1>3 DEF Conclude, v
  <2> HIDE DEF y
  <2>4. Calmly(y, Conclude(x)) /\ Conclude(x).op = NoOperation
    BY <2>2, <2>3, NoOperationKeeps DEF Calmly, Onward
  <2> QED BY <2>2, <2>4, CalmlyTransitive DEF Calmly
<1>4. CASE x.op.reason = "direct"
  <2>1. Conclude(x) = [x EXCEPT !.op = NoOperation]
    BY <1>4 DEF Conclude
  <2> QED BY <2>1, NoOperationKeeps DEF Calmly
<1>5. CASE x.op.reason \notin {"bootstrap", "direct"} /\ SafeCarriers(x, v) # {}
  <2> DEFINE y == [x EXCEPT !.intent = v]
  <2>1. Same(x, y)
    BY <1>1 DEF Same, Base, Shape, Fields, Whom
  <2>2. Conclude(x) = GiveUp(y, v)
    BY <1>5 DEF Conclude, v
  <2> HIDE DEF y
  <2> QED BY <1>2, <2>1, <2>2
<1>6. CASE x.op.reason \notin {"bootstrap", "direct"} /\ SafeCarriers(x, v) = {}
  <2> DEFINE y == ConsumeAvailability(x)
             g == GiveUp(y, v)
  <2>1. Same(x, y)
    BY ConsumeAvailabilitySame DEF Base
  <2> HIDE DEF y
  <2>2. Calmly(x, g) /\ g.op = NoOperation
    BY <1>2, <2>1
  <2> HIDE DEF g
  <2>3. Same(g, RememberUnavailable(g, v))
    BY <2>2, RememberUnavailableSame DEF Calmly, Onward, Base
  <2>4. LET r == RememberUnavailable(g, v) IN Calmly(g, r) /\ r.op = g.op
    BY <2>2, <2>3, SameCalmly DEF Calmly, Onward
  <2>5. Conclude(x) = IF AvailableVias(y, v) = {} THEN RememberUnavailable(g, v) ELSE g
    BY <1>6 DEF Conclude, ConcludeFailed, v, y, g
  <2> QED BY <2>2, <2>4, <2>5, CalmlyTransitive DEF Calmly
<1> QED BY <1>3, <1>4, <1>5, <1>6

(* Dropping the plans before the next operable one.                        *)
LEMMA DropToKeeps ==
  ASSUME NEW x, Base(x), Idle(x), NEW next \in x.op.cursor + 1 .. Len(x.op.plans) + 1
  PROVE  LET y == DropTo(x, next)
         IN  /\ Calmly(x, y) /\ y.op.child = x.op.child /\ y.pub = x.pub /\ y.edge = x.edge
             /\ Planned(y) => /\ next <= Len(x.op.plans)
                              /\ Current(y) = x.op.plans[next]
<1> DEFINE P == x.op.plans
           u == IF next > x.op.cursor + 1 THEN ConsumeContinuation(x) ELSE x
           a == SubSeq(P, 1, x.op.cursor)
           b == SubSeq(P, next, Len(P))
           Q == a \o b
           op == [x.op EXCEPT !.plans = Q]
           y == [u EXCEPT !.op = op]
<1>1. /\ IsSeq(P) /\ Len(P) \in Nat /\ x.op.cursor \in Nat /\ x.op.cursor <= Len(P)
      /\ next \in Nat \ {0} /\ next <= Len(P) + 1 /\ x.op.cursor < next
  BY PlansShape
<1>2. Same(x, u)
  BY ConsumeContinuationSame, SameReflexive DEF Base
<1> HIDE DEF u
<1>3. Calmly(x, u) /\ u.op = x.op /\ u.pub = x.pub /\ u.edge = x.edge
  BY <1>2, SameCalmly DEF Same
<1>4. DropTo(x, next) = y
  BY <1>3 DEF DropTo, u
<1>5. IsSeq(a) /\ Len(a) = x.op.cursor /\ Range(a) \subseteq Range(P)
  BY <1>1, SubSeqIs
<1>6. /\ IsSeq(b) /\ Len(b) = Len(P) + 1 - next /\ Range(b) \subseteq Range(P)
      /\ next <= Len(P) => b[1] = P[next]
  <2>1. Len(P) \in 0..Len(P) /\ next <= Len(P) + 1
    BY <1>1
  <2>2. /\ IsSeq(b)
        /\ Len(b) = IF next <= Len(P) THEN Len(P) - next + 1 ELSE 0
        /\ Range(b) \subseteq Range(P)
        /\ \A i \in 1..Len(P) - next + 1 : b[i] = P[next + i - 1]
    BY <1>1, <2>1, SubSeqIs
  <2> HIDE DEF b, P
  <2> QED BY <1>1, <2>1, <2>2
<1>7. Q = a \o b
  OBVIOUS
<1> HIDE DEF a, b, Q
<1>70. /\ IsSeq(Q) /\ Len(Q) = x.op.cursor + Len(P) + 1 - next /\ Range(Q) \subseteq Range(P)
       /\ next <= Len(P) => Q[x.op.cursor + 1] = P[next]
  <2>1. /\ IsSeq(Q) /\ Len(Q) = Len(a) + Len(b) /\ Range(Q) \subseteq Range(a) \cup Range(b)
        /\ \A i \in 1..Len(a) + Len(b) :
             Q[i] = IF i <= Len(a) THEN a[i] ELSE b[i - Len(a)]
    BY <1>5, <1>6, <1>7, ConcatIs
  <2>2. ASSUME next <= Len(P) PROVE Q[x.op.cursor + 1] = b[1]
    <3>1. x.op.cursor + 1 \in 1..Len(a) + Len(b) /\ ~(x.op.cursor + 1 <= Len(a))
      BY <1>1, <1>5, <1>6, <2>2
    <3>2. x.op.cursor + 1 - Len(a) = 1
      BY <1>1, <1>5
    <3>3. PICK k \in Nat : k = x.op.cursor + 1
      BY <1>1
    <3>40. Len(a) = k - 1 /\ Len(b) \in Nat \ {0}
      <4>1. Len(b) \in Nat \ {0}
        BY <1>1, <1>6, <2>2
      <4> QED BY <1>1, <1>5, <3>3, <4>1
    <3>4. k \in 1..Len(a) + Len(b) /\ ~(k <= Len(a)) /\ k - Len(a) = 1
      BY <3>40, <3>3
    <3>5. Q[k] = b[k - Len(a)]
      BY <2>1, <3>4, <3>40
    <3> QED BY <3>3, <3>4, <3>5
  <2>3. Len(Q) = x.op.cursor + Len(P) + 1 - next
    <3> HIDE DEF P
    <3> QED BY <1>1, <1>5, <1>6, <2>1
  <2> QED BY <1>5, <1>6, <2>1, <2>2, <2>3
<1>8. /\ DOMAIN op = OpFields /\ op.child = x.op.child /\ op.plans = Q
      /\ op.cursor = x.op.cursor /\ op.att = x.op.att /\ op.based = x.op.based
      /\ op.demand = x.op.demand /\ op.clock = x.op.clock
  BY DEF Base, Shape, OpShape, OpFields
<1> HIDE DEF op
<1>9. OpShape(op) /\ op.based /\ ~op.att.live /\ op.att.newest
  <2>1. x.op.cursor \in 0..Len(Q) /\ IsSeq(Q)
    <3> HIDE DEF P
    <3> QED BY <1>1, <1>70
  <2>2. Range(Q) \subseteq Plans
    <3> HIDE DEF Plans
    <3> QED BY <1>70 DEF Base, Shape, OpShape
  <2> HIDE DEF Plans
  <2> QED BY <1>8, <2>1, <2>2 DEF Base, Shape, OpShape, Prepared, Idle
<1>10. Onward(u, y) /\ Idle(y) /\ y.op = op
  BY <1>3, <1>9, IdleReworks DEF Calmly, Onward
<1>11. y.pub = x.pub /\ y.edge = x.edge
  BY <1>3 DEF Calmly, Onward, Base, Shape, Fields
<1> HIDE DEF y
<1>12. Planned(y) => next <= Len(P) /\ Current(y) = P[next]
  <2>1. /\ Len(Q) = x.op.cursor + Len(P) + 1 - next
        /\ next <= Len(P) => Q[x.op.cursor + 1] = P[next]
    BY <1>70
  <2>2. /\ Len(P) \in Nat /\ x.op.cursor \in Nat /\ next \in Nat
        /\ next <= Len(P) + 1
    BY <1>1
  <2>3. x.op.cursor < Len(Q) => next <= Len(P)
    <3> HIDE DEF P, Q
    <3> QED BY <2>1, <2>2
  <2>4. y.op.plans = Q /\ y.op.cursor = x.op.cursor
    BY <1>8, <1>10
  <2>5. Planned(y) => next <= Len(P)
    BY <2>3, <2>4 DEF Planned
  <2> HIDE DEF P
  <2> QED BY <2>1, <2>4, <2>5 DEF Current
<1> QED BY <1>3, <1>4, <1>8, <1>10, <1>11, <1>12, OnwardTransitive DEF Calmly

(* The plans that can no longer be begun are dropped; what is then current *)
(* is operable.                                                            *)
LEMMA DropInvalidKeeps ==
  ASSUME NEW x, Base(x), Idle(x)
  PROVE  LET y == DropInvalid(x)
         IN  /\ Calmly(x, y) /\ y.op.child = x.op.child /\ y.pub = x.pub /\ y.edge = x.edge
             /\ Planned(y) => Operable(x, Current(y))
<1> DEFINE end == Len(x.op.plans) + 1
           T == {n \in x.op.cursor + 1 .. end : n = end \/ Operable(x, x.op.plans[n])}
           next == Lowest(T)
<1>1. Len(x.op.plans) \in Nat /\ x.op.cursor \in Nat /\ x.op.cursor <= Len(x.op.plans)
  BY PlansShape
<1>2. T \in SUBSET Nat /\ end \in T
  BY <1>1
<1>3. next \in T
  <2> HIDE DEF T
  <2> QED BY <1>2, LowestIs
<1> HIDE DEF next
<1>4. DropInvalid(x) = DropTo(x, next)
  BY DEF DropInvalid, next
<1>5. next \in x.op.cursor + 1 .. Len(x.op.plans) + 1
  BY <1>3
<1>6. next <= Len(x.op.plans) => Operable(x, x.op.plans[next])
  BY <1>1, <1>3
<1> HIDE DEF T
<1> QED BY <1>4, <1>5, <1>6, DropToKeeps

(* An operation that still has plans after settling, has an operable one.  *)
LEMMA SettleKeeps ==
  ASSUME NEW x, Base(x), Idle(x), HasOp(x)
  PROVE  LET y == Settle(x)
         IN  /\ Calmly(x, y)
             /\ HasOp(y) => /\ Planned(y) /\ Operable(x, Current(y)) /\ y.pub = x.pub /\ y.edge = x.edge
<1> DEFINE d == DropInvalid(x)
<1>1. /\ Calmly(x, d) /\ d.op.child = x.op.child /\ d.pub = x.pub /\ d.edge = x.edge
      /\ Planned(d) => Operable(x, Current(d))
  BY DropInvalidKeeps
<1>2. Settle(x) = IF Planned(d) THEN d ELSE Conclude(d)
  BY DEF Settle, ConcludeIfDone
<1> HIDE DEF d
<1>3. Calmly(d, Conclude(d)) /\ ~HasOp(Conclude(d))
  <2>1. Calmly(d, Conclude(d)) /\ Conclude(d).op = NoOperation
    BY <1>1, ConcludeKeeps DEF HasOp, Calmly, Onward
  <2> QED BY <2>1, NoOperationShape DEF HasOp
<1> QED BY <1>1, <1>2, <1>3, CalmlyTransitive DEF Calmly

(* Revalidate leaves a live attempt alone only when it stands.             *)
LEMMA RevalidateKeeps ==
  ASSUME NEW x, NEW failed \in BOOLEAN, Base(x), HasOp(x)
  PROVE  LET y == Revalidate(x, failed)
         IN  /\ Onward(x, y)
             /\ y.op.att.live => y = x /\ ~failed /\ AttemptStands(x)
             /\ Idle(x) /\ HasOp(y) =>
                  \E z : /\ Base(z) /\ Shrinks(x, z) /\ y.pub = z.pub /\ y.edge = z.edge /\ Planned(y)
                         /\ Operable(z, Current(y))
<1>1. CASE ~({x.op.child, x.op.demand} \subseteq x.online)
  <2>1. Revalidate(x, failed) = AbortOperation(x)
    BY <1>1 DEF Revalidate
  <2>2. LET y == AbortOperation(x) IN Onward(x, y) /\ Idle(y) /\ ~HasOp(y)
    BY AbortedIs, NoOperationShape DEF Idle, HasOp
  <2> QED BY <2>1, <2>2 DEF Idle
<1>2. CASE /\ {x.op.child, x.op.demand} \subseteq x.online
           /\ x.op.att.live /\ ~failed /\ AttemptStands(x)
  <2>1. Revalidate(x, failed) = x
    BY <1>2 DEF Revalidate
  <2> QED BY <1>2, <2>1, OnwardReflexive DEF Idle
<1>3. CASE /\ {x.op.child, x.op.demand} \subseteq x.online
           /\ ~(x.op.att.live /\ ~failed /\ AttemptStands(x))
  <2> DEFINE z == Renewed(x, failed)
             y == Settle(z)
  <2>1. Onward(x, z) /\ Idle(z) /\ z.op.child = x.op.child
    BY RenewedKeeps
  <2>2. Revalidate(x, failed) = y
    BY <1>3 DEF Revalidate
  <2> HIDE DEF z
  <2>3. /\ Calmly(z, y)
        /\ HasOp(y) => Planned(y) /\ Operable(z, Current(y)) /\ y.pub = z.pub /\ y.edge = z.edge
    BY <2>1, SettleKeeps DEF Onward, HasOp
  <2> HIDE DEF y
  <2> QED BY <2>1, <2>2, <2>3, OnwardTransitive DEF Calmly, Idle, Onward
<1> QED BY <1>1, <1>2, <1>3

(* Validate leads onward; it leaves a live attempt alone only when it      *)
(* stands, and when the operation then waits, its plan was found operable. *)
LEMMA ValidateKeeps ==
  ASSUME NEW x, NEW failed \in BOOLEAN, Base(x)
  PROVE  LET y == Validate(x, failed)
         IN  /\ Onward(x, y)
             /\ y.op.att.live => y = x /\ ~failed /\ AttemptStands(x)
             /\ Idle(x) /\ HasOp(y) =>
                  \E z : /\ Base(z) /\ Shrinks(x, z) /\ y.pub = z.pub /\ y.edge = z.edge /\ Planned(y)
                         /\ Operable(z, Current(y))
<1>1. CASE ~HasOp(x)
  <2>1. "none" \notin Viewers
    BY RouteAssumption
  <2>2. Validate(x, failed) = x /\ Idle(x)
    BY <1>1, <2>1 DEF Validate, Base, AttemptOwn, Idle, HasOp
  <2> QED BY <1>1, <2>2, OnwardReflexive DEF Idle
<1>2. CASE HasOp(x) /\ ~BootstrapOwned(x)
  <2>1. Validate(x, failed) = AbortOperation(x)
    BY <1>2 DEF Validate
  <2>2. LET y == AbortOperation(x) IN Onward(x, y) /\ Idle(y) /\ ~HasOp(y)
    BY AbortedIs, NoOperationShape DEF Idle, HasOp
  <2> QED BY <2>1, <2>2 DEF Idle
<1>3. CASE HasOp(x) /\ BootstrapOwned(x) /\ x.op.clock = "overdue"
  <2> DEFINE u == ConsumeCurrent(x)
             w == ConsumeContinuation(u)
             r == ReleaseAttempt(w)
             y == Conclude(r)
  <2>1. Onward(x, u) /\ u.op = x.op
    BY ConsumeCurrentSame, SameKeeps DEF Base
  <2> HIDE DEF u
  <2>2. Onward(u, w) /\ w.op = u.op
    BY <2>1, ConsumeContinuationSame, SameKeeps DEF Onward, Base
  <2> HIDE DEF w
  <2>3. Onward(w, r) /\ Idle(r) /\ r.op.child = w.op.child
    BY <2>2, ReleasedIs DEF Onward, Idle
  <2> HIDE DEF r
  <2>4. HasOp(r)
    BY <1>3, <2>1, <2>2, <2>3 DEF HasOp
  <2>5. Calmly(r, y) /\ y.op = NoOperation
    BY <2>3, <2>4, ConcludeKeeps DEF Onward
  <2>6. Validate(x, failed) = y
    BY <1>3 DEF Validate, y, r, w, u
  <2> HIDE DEF y
  <2>7. ~HasOp(y) /\ Onward(x, y)
    BY <2>1, <2>2, <2>3, <2>5, OnwardTransitive, NoOperationShape DEF HasOp, Calmly
  <2> QED BY <2>5, <2>6, <2>7 DEF Calmly, Idle
<1>4. CASE HasOp(x) /\ BootstrapOwned(x) /\ x.op.clock # "overdue"
  <2> DEFINE w == AdvanceExpiredHeadStart(x)
             y == Revalidate(w, failed)
  <2>1. /\ Onward(x, w) /\ w.op.child = x.op.child
        /\ w = x \/ Idle(w)
    BY SfuIndexIs, DeferKeeps DEF AdvanceExpiredHeadStart
  <2>2. Idle(x) => Idle(w)
    BY <2>1
  <2>3. Validate(x, failed) = y
    BY <1>4 DEF Validate
  <2> HIDE DEF w
  <2>4. /\ Onward(w, y)
        /\ y.op.att.live => y = w /\ ~failed /\ AttemptStands(w)
        /\ Idle(w) /\ HasOp(y) =>
             \E z : /\ Base(z) /\ Shrinks(w, z) /\ y.pub = z.pub /\ y.edge = z.edge /\ Planned(y)
                    /\ Operable(z, Current(y))
    BY <1>4, <2>1, RevalidateKeeps DEF Onward, HasOp
  <2> HIDE DEF y
  <2>5. Onward(x, y)
    BY <2>1, <2>4, OnwardTransitive
  <2>6. y.op.att.live => y = x /\ ~failed /\ AttemptStands(x)
    BY <2>1, <2>4 DEF Idle
  <2>7. Idle(x) /\ HasOp(y) =>
             \E z : /\ Base(z) /\ Shrinks(x, z) /\ y.pub = z.pub /\ y.edge = z.edge /\ Planned(y)
                    /\ Operable(z, Current(y))
    BY <2>1, <2>2, <2>4 DEF Onward, Shrinks, Unmoved
  <2> QED BY <2>3, <2>5, <2>6, <2>7
<1> QED BY <1>1, <1>2, <1>3, <1>4

-----------------------------------------------------------------------------
(* Whom p feeds.                                                           *)
Fed(x, p) == {v \in Children(x, p) : x.edge[v].active}

(* The overlap limit is the endpoint capacity at least.                    *)
LEMMA LimitIs ==
  TransitionCopyLimit \in Nat /\ EndpointCapacity <= TransitionCopyLimit
    /\ EndpointCapacity \in Nat
BY RouteAssumption DEF TransitionCopyLimit, Least

(* Copies are counted over finite sets.                                    *)
LEMMA CopiesAre ==
  ASSUME NEW x, NEW p
  PROVE  /\ IsFiniteSet(Fed(x, p)) /\ Cardinality(Fed(x, p)) \in Nat
         /\ Copies(x, p) = Cardinality(Fed(x, p))
                             + (IF p = Host /\ x.pub.gen # 0 THEN 1 ELSE 0)
         /\ Copies(x, p) \in Nat
<1>1. Fed(x, p) \subseteq Viewers
  BY DEF Fed, Children
<1>2. IsFiniteSet(Fed(x, p)) /\ Cardinality(Fed(x, p)) \in Nat
  BY <1>1, RouteAssumption, FS_Subset, FS_CardinalityType
<1>3. Copies(x, p) = Cardinality(Fed(x, p))
                       + (IF p = Host /\ x.pub.gen # 0 THEN 1 ELSE 0)
  BY DEF Copies, Fed
<1> QED BY <1>2, <1>3

(* An attempt costs one copy at most.                                      *)
LEMMA ExtraIs ==
  ASSUME NEW x, NEW p PROVE Extra(x, p) \in {0, 1} /\ (~x.op.att.live => Extra(x, p) = 0)
BY DEF Extra

(* Nobody sends more copies when no edge is added, no publication and no   *)
(* attempt.                                                                *)
LEMMA SparedBudget ==
  ASSUME NEW x, NEW y, Budgeted(x),
         \A v \in Viewers : y.edge[v].active =>
           x.edge[v].active /\ y.edge[v].parent = x.edge[v].parent,
         y.pub.gen # 0 => x.pub.gen # 0,
         y.op.att.live => x.op.att.live /\ Current(y) = Current(x)
  PROVE  Budgeted(y)
<1>1. ASSUME NEW p \in Peers PROVE Copies(y, p) + Extra(y, p) <= TransitionCopyLimit
  <2>1. Fed(y, p) \subseteq Fed(x, p)
    BY DEF Fed, Children
  <2>2. Cardinality(Fed(y, p)) <= Cardinality(Fed(x, p))
    BY <2>1, CopiesAre, FS_Subset
  <2>3. Copies(y, p) <= Copies(x, p) /\ Copies(y, p) \in Nat /\ Copies(x, p) \in Nat
    BY <2>2, CopiesAre
  <2>4. Extra(y, p) <= Extra(x, p)
    BY DEF Extra
  <2>5. Copies(x, p) + Extra(x, p) <= TransitionCopyLimit
    BY DEF Budgeted
  <2> QED BY <2>3, <2>4, <2>5, ExtraIs, LimitIs
<1> QED BY <1>1 DEF Budgeted

(* The invariant is kept and nobody is moved.                              *)
Follows(x, y) == Good(y) /\ Unmoved(x, y)

(* Steps that follow one another do so together.                           *)
LEMMA FollowsTransitive ==
  ASSUME NEW x, NEW y, NEW z, Follows(x, y), Follows(y, z) PROVE Follows(x, z)
BY DEF Follows, Unmoved

(* An operation that leads onward keeps the whole invariant.               *)
LEMMA OnwardGood ==
  ASSUME NEW x, NEW y, Good(x), Onward(x, y) PROVE Good(y) /\ Follows(x, y)
BY SparedBudget DEF Good, Onward, Shrinks, Follows

(* Without an operation there is no attempt.                               *)
LEMMA IdleWithoutOperation ==
  ASSUME NEW x, Base(x), ~HasOp(x) PROVE Idle(x)
<1>1. "none" \notin Viewers
  BY RouteAssumption
<1> QED BY <1>1 DEF Base, AttemptOwn, Idle, HasOp

(* Publications, peers and the absent viewer are different names.          *)
LEMMA NamesApart ==
  /\ Publications \cap Peers = {} /\ "none" \notin Peers /\ "sfu" \notin Peers
  /\ Viewers \subseteq Peers /\ Host \in Peers
BY RouteAssumption DEF Publications, Peers

(* What an operable plan names, and what it finds.                         *)
Named(x, plan) ==
  /\ plan.via \in Peers \cup Publications
  /\ IsSfu(plan) <=> ~IsPeer(plan)
  /\ plan.via \in {"reuse", "replace"} => x.pub.gen # 0
  /\ plan.via = "create" => x.pub.gen = 0

(* An operable plan names a peer or a publication that exists.             *)
LEMMA OperableNamed ==
  ASSUME NEW x, NEW plan, x.online \subseteq Peers, Operable(x, plan)
  PROVE  Named(x, plan)
<1>1. CandidateValid(x, x.op.child, plan)
  BY DEF Operable
<1>2. CASE plan.via \in Publications
  <2>1. PublicationEligible(x, x.op.child, plan.via)
    BY <1>1, <1>2 DEF CandidateValid
  <2>2. /\ plan.via = "reuse" => x.pub.gen # 0
        /\ plan.via = "replace" => x.pub.gen # 0
        /\ plan.via = "create" => x.pub.gen = 0
    BY <2>1 DEF PublicationEligible
  <2> QED BY <1>2, <2>2, NamesApart DEF Named, IsSfu, IsPeer
<1>3. CASE plan.via \notin Publications
  <2>1. plan.via \in x.online
    BY <1>1, <1>3 DEF CandidateValid, ParentEligible
  <2> QED BY <1>3, <2>1, NamesApart DEF Named, IsSfu, IsPeer, Publications
<1> QED BY <1>2, <1>3

(* So does the plan that an operation may begin.                           *)
LEMMA CanBeginNamed ==
  ASSUME NEW x, Base(x), CanBegin(x)
  PROVE  /\ Idle(x) /\ HasOp(x) /\ Planned(x) /\ x.op.child \in Viewers
         /\ Named(x, Current(x))
<1>1. Idle(x) /\ HasOp(x) /\ Planned(x) /\ Validate(x, FALSE) = x
  BY DEF CanBegin, Waiting, Idle
<1>2. PICK z : /\ Base(z) /\ Shrinks(x, z) /\ x.pub = z.pub
               /\ Operable(z, Current(x))
  BY <1>1, ValidateKeeps
<1>3. Named(z, Current(x))
  BY <1>2, OperableNamed DEF Base, Shape
<1> QED BY <1>1, <1>2, <1>3 DEF Named, Base, Shape, OpShape, HasOp, Whom

(* A plan that needs no gap leaves its producer room for the copy it       *)
(* starts.                                                                 *)
LEMMA PlanAffords ==
  ASSUME NEW x, NEW plan, x.online \subseteq Peers,
         x.cap \in [Peers -> 0..EndpointCapacity],
         Operable(x, plan), plan.rank # Gap, plan.via # "reuse",
         NEW p, p = (IF plan.via \in Publications THEN Host ELSE plan.via)
  PROVE  p \in Peers /\ Copies(x, p) + 1 <= TransitionCopyLimit
<1> DEFINE v == x.op.child
           n == Copies(x, p)
<1>1. plan.via \in Peers \cup Publications
  BY OperableNamed DEF Named
<1>2. p \in Peers /\ plan.via # "none"
  BY <1>1, NamesApart DEF Publications
<1>3. PlanAt(x, v, plan.via, p, n) = plan
  BY DEF Operable, CandidateValid, PlanCandidate
<1>4. plan # NoPlan
  BY <1>2 DEF NoPlan
<1> HIDE DEF n
<1>5. n + 1 <= x.cap[p] \/ n + 1 <= TransitionCopyLimit
  BY <1>3, <1>4 DEF PlanAt
<1>6. n \in Nat /\ x.cap[p] \in 0..EndpointCapacity
  BY <1>2, CopiesAre DEF n
<1> QED BY <1>2, <1>5, <1>6, LimitIs DEF n

(* Beginning a plan that needs no gap stays within the overlap limit.      *)
LEMMA CanBeginAffords ==
  ASSUME NEW x, Good(x), CanBegin(x), Current(x).rank # Gap,
         NEW y, y.edge = x.edge, y.pub = x.pub, Current(y) = Current(x)
  PROVE  Budgeted(y)
<1>1. Base(x) /\ Idle(x) /\ HasOp(x) /\ Validate(x, FALSE) = x
  BY DEF CanBegin, Waiting, Idle, Good
<1>2. PICK z : /\ Base(z) /\ Shrinks(x, z) /\ x.pub = z.pub /\ x.edge = z.edge
               /\ Operable(z, Current(x))
  BY <1>1, ValidateKeeps
<1>3. \A p : Copies(z, p) = Copies(x, p) /\ Copies(y, p) = Copies(x, p)
  BY <1>2 DEF Copies, Children
<1>4. ASSUME NEW p \in Peers PROVE Copies(y, p) + Extra(y, p) <= TransitionCopyLimit
  <2>1. Copies(x, p) <= TransitionCopyLimit
    <3>1. Copies(x, p) + Extra(x, p) <= TransitionCopyLimit
      BY DEF Good, Budgeted
    <3> QED BY <3>1, CopiesAre, ExtraIs, LimitIs
  <2>2. CASE Extra(y, p) = 0
    BY <1>3, <2>1, <2>2, CopiesAre
  <2>3. CASE Extra(y, p) # 0
    <3> DEFINE plan == Current(x)
    <3>1. plan.via = p \/ (p = Host /\ plan.via \in {"create", "replace"})
      BY <2>3 DEF Extra
    <3>2. plan.via # "reuse" /\ p = IF plan.via \in Publications THEN Host ELSE plan.via
      BY <3>1, NamesApart DEF Publications
    <3>3. z.online \subseteq Peers /\ z.cap \in [Peers -> 0..EndpointCapacity]
      BY <1>2 DEF Base, Shape
    <3> HIDE DEF plan
    <3>4. Copies(z, p) + 1 <= TransitionCopyLimit
      BY <1>2, <3>2, <3>3, PlanAffords DEF plan
    <3>5. Extra(y, p) = 1
      BY <2>3, ExtraIs
    <3> QED BY <1>3, <3>4, <3>5
  <2> QED BY <2>2, <2>3
<1> QED BY <1>4 DEF Budgeted

(* Beginning a candidate reserves a fresh subscription and generation.     *)
LEMMA BegunKeeps ==
  ASSUME NEW x, Good(x), CanBegin(x), Current(x).rank # Gap
  PROVE  Good(Begun(x)) /\ Follows(x, Begun(x))
<1> DEFINE v == x.op.child
           y == Begun(x)
<1>1. /\ Base(x) /\ Watched(x) /\ Idle(x) /\ Planned(x) /\ v \in Viewers
      /\ Named(x, Current(x))
  BY CanBeginNamed DEF Good
<1>2. x.subs = Used(x) /\ x.pubs = {x.pub.gen} \ {0}
  BY <1>1, IdleReserves DEF Base, Balanced, Idle
<1> DEFINE T == {1, 2} \ {s \in {1, 2} : <<v, s>> \in x.subs}
           sub == Lowest(T)
           gen == IF Current(x).via = "reuse" THEN x.pub.gen ELSE Lowest(UnusedGenerations(x))
           peer == IsPeer(Current(x))
<1>3. \E a : \A s : <<v, s>> \in x.subs => s = a
  <2>1. \A s : <<v, s>> \in x.subs => s = x.edge[v].sub
    BY <1>2 DEF Used
  <2> QED BY <2>1
<1>4. sub \in T /\ <<v, sub>> \notin x.subs
  <2>1. T \in SUBSET Nat /\ T # {}
    BY <1>3
  <2>2. \A s \in T : <<v, s>> \notin x.subs
    OBVIOUS
  <2> HIDE DEF T
  <2> QED BY <2>1, <2>2, LowestIs
<1> HIDE DEF sub, T
<1>5. ~peer => /\ gen # 0 /\ (Current(x).via = "reuse" => gen = x.pub.gen)
               /\ (Current(x).via # "reuse" => gen # x.pub.gen)
  <2>1. ASSUME Current(x).via # "reuse", ~peer
        PROVE  gen # 0 /\ gen # x.pub.gen
    <3>1. UnusedGenerations(x) # {}
      BY <1>1, <2>1 DEF CanBegin, Named
    <3>2. UnusedGenerations(x) \in SUBSET Nat
      BY RouteAssumption DEF UnusedGenerations
    <3>3. gen \in UnusedGenerations(x)
      BY <2>1, <3>1, <3>2, LowestIs
    <3>4. gen # 0 /\ gen \notin x.pubs
      BY <3>3, RouteAssumption DEF UnusedGenerations
    <3> QED BY <1>2, <3>4
  <2>2. ASSUME Current(x).via = "reuse" PROVE gen # 0 /\ gen = x.pub.gen
    BY <1>1, <2>2 DEF Named
  <2> QED BY <2>1, <2>2
<1> HIDE DEF gen
<1>6. /\ DOMAIN y = Fields /\ y.edge = x.edge /\ y.online = x.online /\ y.cap = x.cap
      /\ y.order = x.order /\ y.retiring = x.retiring /\ y.intent = x.intent
      /\ y.departed = x.departed
      /\ y.pub = x.pub
      /\ y.subs = (IF peer THEN x.subs ELSE x.subs \cup {<<v, sub>>})
      /\ y.pubs = (IF peer THEN x.pubs ELSE x.pubs \cup {gen})
      /\ DOMAIN y.op = OpFields /\ y.op.child = v /\ y.op.plans = x.op.plans
      /\ y.op.cursor = x.op.cursor /\ y.op.based = x.op.based
      /\ y.op.demand = x.op.demand /\ y.op.clock = x.op.clock
      /\ DOMAIN y.op.att = AttemptFields /\ y.op.att.live
      /\ y.op.att.newest = x.op.att.newest
      /\ ~peer => y.op.att.gen = gen /\ y.op.att.sub = sub
  <2>1. CASE peer
    <3>1. y = [x EXCEPT !.op.att.live = TRUE]
      BY <2>1 DEF Begun
    <3> QED BY <1>1, <2>1, <3>1 DEF Base, Shape, OpShape, Fields, OpFields, AttemptFields
  <2>2. CASE ~peer
    <3>1. y = [x EXCEPT !.op.att.live = TRUE, !.op.att.gen = gen, !.op.att.sub = sub,
                        !.subs = @ \cup {<<v, sub>>}, !.pubs = @ \cup {gen}]
      BY <2>2 DEF Begun, sub, gen, T
    <3> HIDE DEF y
    <3> QED BY <1>1, <2>2, <3>1 DEF Base, Shape, OpShape, Fields, OpFields, AttemptFields
  <2> QED BY <2>1, <2>2
<1> HIDE DEF y
<1>7. Planned(y) /\ Current(y) = Current(x)
  BY <1>1, <1>6 DEF Planned, Current
<1>8. Subscribers(y) = Subscribers(x) /\ Used(y) = Used(x)
  BY <1>6, FramePartsOf
<1>9. Shape(y) /\ EdgesCurrent(y) /\ Prepared(y) /\ Watched(y)
  BY <1>1, <1>6, <1>8 DEF Base, Shape, OpShape, EdgesCurrent, Prepared, Watched
<1>90. Rooted(y) /\ Anchored(y)
  BY <1>6, FrameTree DEF Good, Base
<1>10. v \in Subscribers(x) => <<v, x.edge[v].sub>> \in x.subs
  BY <1>2 DEF Used
<1>11. AttemptOwn(y)
  <2>1. CASE peer
    <3>1. ~IsSfu(Current(y)) /\ Current(y).via \notin {"create", "replace"}
      BY <1>1, <1>7, <2>1 DEF Named, IsSfu, Publications
    <3> QED BY <1>1, <1>6, <1>7, <3>1 DEF AttemptOwn
  <2>2. CASE ~peer
    <3>1. v \in Subscribers(y) => y.op.att.sub # y.edge[v].sub
      BY <1>4, <1>6, <1>8, <1>10, <2>2
    <3>2. y.op.att.gen # 0
      BY <1>5, <1>6, <2>2
    <3>3. Current(y).via \in {"create", "replace"} => y.op.att.gen # y.pub.gen
      BY <1>5, <1>6, <1>7, <2>2
    <3> QED BY <1>1, <1>6, <1>7, <3>1, <3>2, <3>3 DEF AttemptOwn
  <2> QED BY <2>1, <2>2
<1>12. Balanced(y)
  <2>1. CASE peer
    <3>1. ReservedSubscription(y) = {} /\ ReservedGeneration(y) = {}
      BY <1>1, <1>7, <2>1
         DEF ReservedSubscription, ReservedGeneration, Named, IsSfu, Publications
    <3> QED BY <1>2, <1>6, <1>8, <2>1, <3>1 DEF Balanced
  <2>2. CASE ~peer
    <3>1. ReservedSubscription(y) = {<<v, sub>>}
      BY <1>1, <1>6, <1>7, <2>2 DEF ReservedSubscription, Named
    <3>2. ReservedGeneration(y) = IF Current(x).via = "reuse" THEN {} ELSE {gen}
      BY <1>1, <1>6, <1>7, <2>2 DEF ReservedGeneration, Named, IsSfu, Publications
    <3>3. y.pubs = ({x.pub.gen} \ {0}) \cup ReservedGeneration(y)
      BY <1>2, <1>5, <1>6, <2>2, <3>2
    <3> QED BY <1>2, <1>6, <1>8, <2>2, <3>1, <3>3 DEF Balanced
  <2> QED BY <2>1, <2>2
<1>13. Budgeted(y)
  BY <1>6, <1>7, CanBeginAffords
<1>14. Unmoved(x, y)
  BY <1>6 DEF Unmoved
<1> QED BY <1>9, <1>90, <1>11, <1>12, <1>13, <1>14 DEF Good, Base, Follows, y

(* Retiring the producer of a gap plan makes room for its copy.            *)
LEMMA RetiredKeeps ==
  ASSUME NEW x, Good(x), CanBegin(x)
  PROVE  Good(Retired(x)) /\ Follows(x, Retired(x)) /\ Idle(Retired(x))
<1> DEFINE v == x.op.child
           via == Current(x).via
           kind == Retirement(x, v, via)
           old == x.edge[v]
           y == IF kind = "edge" THEN Deactivate(x, v)
                ELSE RemovePublicationGeneration(x, x.pub.gen)
           first == IF kind = "publication" /\ via = "replace" THEN "create" ELSE via
           restore == IF kind = "edge" /\ old.usable THEN old.parent ELSE "none"
           z == AdvanceActiveRevision(y)
<1>1. /\ Base(x) /\ Idle(x) /\ v \in Viewers /\ Named(x, Current(x))
  BY CanBeginNamed DEF Good
<1>2. Retired(x) = ReplanRemaining(z, first, restore)
  BY DEF Retired
<1>3. Onward(x, y) /\ y.op = x.op
  <2>1. CASE kind = "edge"
    <3>1. FedBy(x, v, IF via \in Publications THEN Host ELSE via)
      BY <2>1 DEF Retirement
    <3>2. x.edge[v].parent \in Peers
      BY <1>1, <3>1, NamesApart DEF FedBy, Named
    <3>3. x.edge[v].parent # "sfu"
      BY <3>2, NamesApart
    <3> QED BY <1>1, <2>1, <3>3, PeerEdgeDeactivates
  <2>2. CASE kind # "edge"
    <3> HIDE DEF kind
    <3> QED BY <1>1, <2>2, RemovePublicationKeeps
  <2> QED BY <2>1, <2>2
<1> HIDE DEF y, first, restore
<1>4. Onward(y, z) /\ Idle(z)
  <2> DEFINE op == [y.op EXCEPT !.based = TRUE]
  <2>1. z = [y EXCEPT !.op = op]
    BY <1>3 DEF AdvanceActiveRevision, Onward, Base, Shape, Fields
  <2>2. OpShape(op) /\ op.based /\ ~op.att.live /\ op.att.newest
    BY <1>1, <1>3 DEF Onward, Base, Shape, OpShape, OpFields, Prepared, Idle
  <2>3. Base(y) /\ Idle(y)
    BY <1>1, <1>3 DEF Onward, Idle
  <2> HIDE DEF op, z
  <2> QED BY <2>1, <2>2, <2>3, IdleReworks
<1> HIDE DEF z
<1>5. LET r == ReplanRemaining(z, first, restore) IN Onward(z, r) /\ Idle(r)
  BY <1>4, ReplanKeeps DEF Onward
<1>6. Onward(x, Retired(x)) /\ Idle(Retired(x))
  BY <1>2, <1>3, <1>4, <1>5, OnwardTransitive
<1> QED BY <1>6, OnwardGood

(* After a gap the next candidate begins at once.                          *)
LEMMA BeginRetiredKeeps ==
  ASSUME NEW x, Good(x), Idle(x) PROVE Follows(x, BeginRetired(x))
<1>1. Onward(x, Validate(x, FALSE))
  BY ValidateKeeps DEF Good
<1> QED BY <1>1, BegunKeeps, OnwardGood DEF BeginRetired

(* A live attempt fails.                                                   *)
LEMMA FailLiveKeeps ==
  ASSUME NEW x, Good(x) PROVE Follows(x, FailLive(x))
<1>1. Onward(x, PromoteNextDirect(x))
  BY PromoteKeeps DEF PromoteNextDirect, Good
<1>2. /\ Base(PromoteNextDirect(x)) /\ Good(PromoteNextDirect(x))
      /\ Follows(x, PromoteNextDirect(x)) /\ Follows(x, x)
  BY <1>1, OnwardReflexive, OnwardGood DEF Good
<1>3. Onward(PromoteNextDirect(x), Validate(PromoteNextDirect(x), TRUE))
  BY <1>2, ValidateKeeps
<1>4. Follows(x, Validate(PromoteNextDirect(x), TRUE))
  BY <1>2, <1>3, OnwardGood, FollowsTransitive
<1> QED BY <1>2, <1>4 DEF FailLive

(* A live attempt connects.                                                *)
LEMMA ConnectLiveKeeps ==
  ASSUME NEW x, Good(x) PROVE Follows(x, ConnectLive(x))
<1> DEFINE y == [x EXCEPT !.op.att.connected = TRUE]
<1>1. CASE x.op.att.live
  <2>1. /\ DOMAIN y = Fields /\ y.online = x.online /\ y.cap = x.cap
        /\ y.departed = x.departed
        /\ y.order = x.order /\ y.retiring = x.retiring /\ y.intent = x.intent
        /\ y.edge = x.edge /\ y.pub = x.pub /\ y.subs = x.subs /\ y.pubs = x.pubs
        /\ y.op.demand = x.op.demand /\ y.op.clock = x.op.clock
        /\ DOMAIN y.op = OpFields /\ DOMAIN y.op.att = AttemptFields
        /\ y.op.plans = x.op.plans /\ y.op.cursor = x.op.cursor /\ y.op.child = x.op.child
        /\ y.op.based = x.op.based /\ y.op.att.live = x.op.att.live
        /\ y.op.att.newest = x.op.att.newest /\ y.op.att.gen = x.op.att.gen
        /\ y.op.att.sub = x.op.att.sub
    BY DEF Good, Base, Shape, OpShape, Fields, OpFields, AttemptFields
  <2> HIDE DEF y
  <2>2. Planned(x)
    BY <1>1 DEF Good, Base, AttemptOwn
  <2>3. Reworks(x, y)
    BY <2>1, <2>2 DEF Reworks, Good, Base, Shape, OpShape, Planned
  <2> QED BY <1>1, <2>3, ReworksKeeps, OnwardGood DEF ConnectLive, Good, y
<1> QED BY <1>1, OnwardReflexive, OnwardGood DEF ConnectLive, Good

(* A candidate that cannot be begun is skipped.                            *)
LEMMA SkipKeeps ==
  ASSUME NEW x, Good(x), Idle(x), Planned(x)
  PROVE  Follows(x, [x EXCEPT !.op.cursor = @ + 1])
<1> DEFINE y == [x EXCEPT !.op.cursor = @ + 1]
           op == [x.op EXCEPT !.cursor = x.op.cursor + 1]
<1>1. y = [x EXCEPT !.op = op]
  BY DEF Good, Base, Shape, Fields
<1>2. /\ DOMAIN op = OpFields /\ op.plans = x.op.plans /\ op.cursor = x.op.cursor + 1
      /\ op.child = x.op.child /\ op.att = x.op.att /\ op.based = x.op.based
      /\ op.demand = x.op.demand /\ op.clock = x.op.clock
  BY DEF Good, Base, Shape, OpShape, OpFields
<1> HIDE DEF op
<1>3. op.cursor \in 0..Len(op.plans)
  BY <1>2, PlansShape DEF Good, Planned
<1>4. OpShape(op) /\ op.based /\ ~op.att.live /\ op.att.newest
  BY <1>2, <1>3 DEF Good, Base, Shape, OpShape, Prepared, Idle
<1>5. Onward(x, y)
  BY <1>1, <1>4, IdleReworks DEF Good
<1> QED BY <1>5, OnwardGood

(* The rest of the record may change around the tree, the operation and    *)
(* what they hold.                                                         *)
Around(x, y) ==
  /\ DOMAIN y = Fields /\ DOMAIN y.edge = Viewers /\ y.online \subseteq Peers
  /\ y.cap \in [Peers -> 0..EndpointCapacity]
  /\ \A v \in Viewers :
       /\ DOMAIN y.edge[v] = EdgeFields
       /\ y.edge[v].parent = x.edge[v].parent /\ y.edge[v].active = x.edge[v].active
       /\ y.edge[v].gen = x.edge[v].gen /\ y.edge[v].sub = x.edge[v].sub
  /\ DOMAIN y.pub = {"gen", "usable"} /\ y.pub.gen = x.pub.gen
  /\ y.op = x.op /\ y.subs = x.subs /\ y.pubs = x.pubs
  /\ y.retiring = x.retiring /\ y.intent \in Whom

(* The tree is a forest still when nobody that has an edge leaves.         *)
LEMMA AroundRooted ==
  ASSUME NEW x, NEW y, Rooted(x), IsSeq(y.order),
         Participants(x) \subseteq Participants(y), Participants(y) \subseteq Viewers,
         y.online \subseteq Participants(y) \cup {Host},
         y.departed \subseteq Participants(y) \ y.online,
         \A v \in Viewers : y.edge[v].parent = x.edge[v].parent,
         \A v \in Viewers : x.edge[v] = NoEdge => y.edge[v] = NoEdge
  PROVE  Rooted(y)
<1>1. PICK rank : Ranks(x, rank)
  BY DEF Rooted
<1>2. Ranks(y, rank)
  BY <1>1 DEF Ranks
<1>3. Linked(y)
  BY DEF Rooted, Linked
<1> QED BY <1>2, <1>3 DEF Rooted

(* Those marks are not what the invariant is about.                        *)
LEMMA AroundBase ==
  ASSUME NEW x, NEW y, Base(x), Watched(x), Budgeted(x), Around(x, y), Rooted(y)
  PROVE  Base(y) /\ Watched(y) /\ Budgeted(y)
<1>1. /\ Planned(y) = Planned(x) /\ Current(y) = Current(x)
      /\ ReservedSubscription(y) = ReservedSubscription(x)
      /\ ReservedGeneration(y) = ReservedGeneration(x)
  BY FrameOperation DEF Around
<1>2. Subscribers(y) = Subscribers(x)
  BY DEF Around, Subscribers, OnSfu
<1>3. \A v \in Subscribers(x) : v \in Viewers
  BY DEF Subscribers, OnSfu
<1>4. Used(y) = Used(x)
  BY <1>2, <1>3 DEF Used, Around
<1>5. Shape(y) /\ Prepared(y) /\ EdgesCurrent(y) /\ Watched(y)
  BY <1>2, <1>3 DEF Around, Base, Shape, Prepared, EdgesCurrent, Watched
<1>6. AttemptOwn(y)
  BY <1>1, <1>2, <1>3 DEF Around, Base, AttemptOwn
<1>7. Balanced(y)
  BY <1>1, <1>4 DEF Around, Base, Balanced
<1>8. Budgeted(y)
  BY <1>1, SparedBudget DEF Around
<1> QED BY <1>5, <1>6, <1>7, <1>8 DEF Base

(* Nor do they move an anchor.                                             *)
LEMMA AroundGood ==
  ASSUME NEW x, NEW y, Good(x), Around(x, y), Rooted(y) PROVE Good(y) /\ Follows(x, y)
<1>1. Base(y) /\ Watched(y) /\ Budgeted(y)
  BY AroundBase DEF Good
<1>2. OnSfu(y) = OnSfu(x) /\ OnSfu(x) \subseteq Viewers
  BY DEF Around, OnSfu
<1>3. \A v \in OnSfu(x) : y.edge[v].active = x.edge[v].active /\ y.edge[v].gen = x.edge[v].gen
  BY <1>2 DEF Around
<1>4. y.retiring = x.retiring /\ Anchored(x)
  BY DEF Around, Good
<1>5. Anchored(y)
  BY <1>2, <1>3, <1>4 DEF Anchored
<1>6. Unmoved(x, y)
  BY DEF Around, Unmoved
<1> QED BY <1>1, <1>5, <1>6 DEF Good, Follows

(* Changing only what the proof does not look at keeps the invariant.      *)
LEMMA SameGood ==
  ASSUME NEW x, NEW y, Good(x), Same(x, y) PROVE Good(y) /\ Follows(x, y)
BY SameKeeps, OnwardGood DEF Good

(* Marking the operation stale keeps the invariant.                        *)
LEMMA TouchedGood ==
  ASSUME NEW x, Good(x) PROVE Good(TouchFacts(x)) /\ Follows(x, TouchFacts(x))
BY TouchFactsKeeps, OnwardGood DEF Good

(* Aborting the operation keeps the invariant.                             *)
LEMMA AbortedGood ==
  ASSUME NEW x, Good(x) PROVE Good(AbortOperation(x)) /\ Follows(x, AbortOperation(x))
BY AbortedIs, OnwardGood DEF Good

-----------------------------------------------------------------------------
(* Bookkeeping for a viewer that was served.                               *)
LEMMA ServedSame ==
  ASSUME NEW x, NEW op, Shape(x) PROVE Same(x, Served(x, op))
BY SameReflexive DEF Served, ClearBootstrapFor, Same, Shape, Fields, Whom

(* A parent that v may hang below: it has a route itself, and not over v.  *)
Carries(x, v, p) ==
  p \in Viewers => p # v /\ p \notin Descendants(x, v) /\ x.edge[p].parent # "none"

(* An operable plan names such a parent.                                   *)
LEMMA OperableCarries ==
  ASSUME NEW x, NEW plan, Base(x), x.op.child \in Viewers, Operable(x, plan)
  PROVE  /\ x.op.child \in x.online /\ x.op.child \in Participants(x)
         /\ IsPeer(plan) => Carries(x, x.op.child, plan.via)
<1> DEFINE v == x.op.child
<1>1. CandidateValid(x, v, plan)
  BY DEF Operable
<1>2. v \in x.online /\ v # Host
  BY <1>1, RouteAssumption DEF CandidateValid
<1>3. ASSUME IsPeer(plan), plan.via \in Viewers PROVE Carries(x, v, plan.via)
  <2>1. ParentEligible(x, v, plan.via)
    BY <1>1, <1>3, NamesApart DEF CandidateValid, IsPeer
  <2>2. plan.via # Host /\ SourceUsable(x, plan.via)
    BY <1>3, <2>1, RouteAssumption DEF ParentEligible
  <2>3. x.edge[plan.via].active
    BY <2>2, SourceFed
  <2>4. x.edge[plan.via].parent # "none"
    BY <1>3, <2>3, NoEdgeShape DEF Base, Rooted, Linked
  <2> QED BY <2>1, <2>4 DEF ParentEligible, Carries
<1> QED BY <1>2, <1>3 DEF Base, Rooted, Carries

(* Moving a viewer below such a parent, or onto the SFU, leaves a forest.  *)
LEMMA MovedRooted ==
  ASSUME NEW x, NEW y, Rooted(x), NEW v \in Viewers, v \in Participants(x),
         y.order = x.order, y.online = x.online, y.departed = x.departed,
         \A w \in Viewers \ {v} : y.edge[w] = x.edge[w],
         y.edge[v].parent \in Peers \cup {"sfu"}, Carries(x, v, y.edge[v].parent)
  PROVE  Rooted(y)
<1> DEFINE p == y.edge[v].parent
<1>1. p # "none" /\ p # v /\ Host \notin Viewers
  BY NamesApart, RouteAssumption DEF Carries, Peers
<1>2. Participants(y) = Participants(x)
  BY DEF Participants
<1>3. PICK rank : Ranks(x, rank)
  BY DEF Rooted
<1>4. \E r : Ranks(y, r)
  <2>1. \A w \in Viewers \ {v} : y.edge[w].parent = x.edge[w].parent
    OBVIOUS
  <2>2. p \in Viewers => p # v /\ p \notin Descendants(x, v)
    BY DEF Carries
  <2> QED BY <1>3, <2>1, <2>2, MovedRanked
<1>5. ASSUME NEW w \in Viewers
      PROVE  /\ y.edge[w].parent \in (Peers \ {w}) \cup {"sfu", "none"}
             /\ y.edge[w].parent = "none" => y.edge[w] = NoEdge
             /\ y.edge[w].parent # "none" => w \in Participants(y)
             /\ y.edge[w].parent \in Viewers => y.edge[y.edge[w].parent].parent # "none"
  <2>1. CASE w = v
    <3>1. p \in Viewers => y.edge[p].parent # "none"
      BY <1>1 DEF Carries
    <3> QED BY <1>1, <1>2, <2>1, <3>1
  <2>2. CASE w # v
    <3>1. y.edge[w] = x.edge[w]
      BY <2>2
    <3>2. ASSUME x.edge[w].parent \in Viewers
          PROVE  y.edge[x.edge[w].parent].parent # "none"
      <4>1. x.edge[x.edge[w].parent].parent # "none"
        BY <3>2 DEF Rooted, Linked
      <4> QED BY <1>1, <3>2, <4>1
    <3> QED BY <1>2, <3>1, <3>2 DEF Rooted, Linked
  <2> QED BY <2>1, <2>2
<1>6. Linked(y)
  BY <1>5 DEF Linked
<1> QED BY <1>2, <1>4, <1>6 DEF Rooted

(* x is the controller at the proof, y the one that gave up what the       *)
(* candidate replaces.                                                     *)
LEMMA InstalledKeeps ==
  ASSUME NEW x, NEW y, Good(y), y.op = x.op, x.op.att.live,
         IsSfu(Current(x)) <=> ~IsPeer(Current(x)),
         Current(x).via \in Peers \cup Publications,
         Current(x).via = "reuse" => x.op.att.gen = y.pub.gen,
         Current(x).via \in {"create", "replace"} => y.pub.gen = 0,
         x.op.child \in Participants(y),
         IsPeer(Current(x)) => Carries(y, x.op.child, Current(x).via)
  PROVE  LET v == x.op.child
             z == Installed(x, y, v)
         IN  /\ Base(z) /\ z.op = NoOperation /\ Budgeted(z)
             /\ v \notin Subscribers(y) => Watched(z)
<1> DEFINE v == x.op.child
           z == Installed(x, y, v)
           new == EdgeOf(Current(x), x.op.att)
           given == {<<w, y.edge[w].sub>> : w \in {v} \cap Subscribers(y)}
           fresh == Current(x).via \in {"create", "replace"}
<1>1. v \in Viewers /\ Planned(x) /\ Current(y) = Current(x)
  BY FrameOperation DEF Good, Base, AttemptOwn
<1>2. /\ DOMAIN z = Fields /\ z.online = y.online /\ z.cap = y.cap
      /\ z.order = y.order /\ z.departed = y.departed /\ z.intent = y.intent
      /\ z.subs = y.subs \ given /\ z.pubs = y.pubs
      /\ z.edge = [y.edge EXCEPT ![v] = new]
      /\ z.pub = (IF fresh THEN [gen |-> x.op.att.gen, usable |-> TRUE] ELSE y.pub)
      /\ z.op = NoOperation
  BY DEF Installed, Good, Base, Shape, Fields
<1>3. /\ DOMAIN new = EdgeFields /\ new.active /\ new.gen = x.op.att.gen
      /\ new.sub = x.op.att.sub
      /\ new.parent = "sfu" <=> IsSfu(Current(x))
      /\ new.parent = IF IsSfu(Current(x)) THEN "sfu" ELSE Current(x).via
  BY NamesApart DEF EdgeOf, EdgeFields, SourceOf, IsSfu, IsPeer
<1>4. /\ DOMAIN z.edge = Viewers /\ z.edge[v] = new
      /\ \A w \in Viewers \ {v} : z.edge[w] = y.edge[w]
  BY <1>1, <1>2 DEF Good, Base, Shape
<1>5. DOMAIN z.pub = {"gen", "usable"} /\ z.pub.gen = (IF fresh THEN x.op.att.gen ELSE y.pub.gen)
  BY <1>2 DEF Good, Base, Shape
<1> HIDE DEF z, new
<1>6. Shape(z) /\ Prepared(z) /\ AttemptOwn(z) /\ Idle(z)
  BY <1>2, <1>3, <1>4, <1>5, NoOperationShape
     DEF Good, Base, Shape, Prepared, AttemptOwn, Idle
<1>7. Subscribers(z) = (Subscribers(y) \ {v}) \cup (IF IsSfu(Current(x)) THEN {v} ELSE {})
  <2>1. ASSUME NEW w \in Viewers
        PROVE  w \in Subscribers(z) <=>
                 w \in (Subscribers(y) \ {v}) \cup (IF IsSfu(Current(x)) THEN {v} ELSE {})
    <3>1. CASE w = v
      BY <1>3, <1>4, <3>1, SubscribersOf
    <3>2. CASE w # v
      <4>1. z.edge[w] = y.edge[w]
        BY <1>4, <3>2
      <4> QED BY <3>2, <4>1, SubscribersOf
    <3> QED BY <3>1, <3>2
  <2> QED BY <1>1, <2>1 DEF Subscribers, OnSfu
<1>8. IsSfu(Current(x)) => /\ x.op.att.gen # 0
                           /\ v \in Subscribers(y) => x.op.att.sub # y.edge[v].sub
  BY <1>1 DEF Good, Base, AttemptOwn
<1>9. fresh => Subscribers(y) = {} /\ IsSfu(Current(x))
  BY DEF Good, Base, EdgesCurrent, IsSfu, Publications
<1>10. IsSfu(Current(x)) => z.pub.gen = x.op.att.gen
  BY <1>5 DEF IsSfu, Publications
<1>11. EdgesCurrent(z)
  <2>1. ASSUME NEW w \in Subscribers(z)
        PROVE  z.edge[w].gen = z.pub.gen /\ z.pub.gen # 0
    <3>1. CASE w = v
      <4>1. IsSfu(Current(x))
        BY <1>7, <3>1
      <4> QED BY <1>3, <1>4, <1>8, <1>10, <3>1, <4>1
    <3>2. CASE w # v
      <4>1. w \in Subscribers(y) /\ w \in Viewers /\ ~fresh
        BY <1>7, <1>9, <3>2 DEF Subscribers, OnSfu
      <4>2. z.edge[w] = y.edge[w] /\ z.pub.gen = y.pub.gen
        BY <1>4, <1>5, <3>2, <4>1
      <4> QED BY <4>1, <4>2 DEF Good, Base, EdgesCurrent
    <3> QED BY <3>1, <3>2
  <2> QED BY <2>1 DEF EdgesCurrent
<1>12. ReservedSubscription(y) = (IF IsSfu(Current(x)) THEN {<<v, x.op.att.sub>>} ELSE {})
  BY <1>1 DEF ReservedSubscription
<1>13. ReservedGeneration(y) = (IF fresh THEN {x.op.att.gen} ELSE {})
  BY <1>1 DEF ReservedGeneration
<1>14. z.subs = Used(z) \cup ReservedSubscription(z)
  <2>1. Used(z) = {<<w, y.edge[w].sub>> : w \in Subscribers(y) \ {v}}
                    \cup ReservedSubscription(y)
    <3> DEFINE others == {<<w, z.edge[w].sub>> : w \in Subscribers(y) \ {v}}
    <3>1. Used(z) = others \cup (IF IsSfu(Current(x)) THEN {<<v, z.edge[v].sub>>} ELSE {})
      BY <1>7 DEF Used
    <3>2. \A w \in Subscribers(y) \ {v} : z.edge[w] = y.edge[w]
      BY <1>4 DEF Subscribers, OnSfu
    <3>3. others = {<<w, y.edge[w].sub>> : w \in Subscribers(y) \ {v}}
      BY <3>2
    <3>4. z.edge[v].sub = x.op.att.sub
      BY <1>3, <1>4
    <3> HIDE DEF others
    <3> QED BY <1>12, <3>1, <3>3, <3>4
  <2>2. Used(y) \ given = {<<w, y.edge[w].sub>> : w \in Subscribers(y) \ {v}}
    BY DEF Used
  <2>3. ReservedSubscription(y) \cap given = {}
    BY <1>8, <1>12
  <2>4. y.subs = Used(y) \cup ReservedSubscription(y)
    BY DEF Good, Base, Balanced
  <2>5. ReservedSubscription(z) = {}
    BY <1>6, IdleReserves DEF Idle
  <2> HIDE DEF given
  <2> QED BY <1>2, <2>1, <2>2, <2>3, <2>4, <2>5
<1>15. z.pubs = ({z.pub.gen} \ {0}) \cup ReservedGeneration(z)
  <2>1. ReservedGeneration(z) = {}
    BY <1>6, IdleReserves DEF Idle
  <2>2. y.pubs = ({y.pub.gen} \ {0}) \cup ReservedGeneration(y)
    BY DEF Good, Base, Balanced
  <2>3. fresh => x.op.att.gen # 0
    BY <1>8, <1>9
  <2> QED BY <1>2, <1>5, <1>13, <2>1, <2>2, <2>3
<1>16. v \notin Subscribers(y) => Watched(z)
  <2>1. CASE IsSfu(Current(x))
    BY <1>7, <2>1 DEF Watched
  <2>2. CASE ~IsSfu(Current(x)) /\ v \notin Subscribers(y)
    BY <1>5, <1>7, <1>9, <2>2 DEF Watched, Good
  <2> QED BY <2>1, <2>2
<1>17. Budgeted(z)
  <2>1. ASSUME NEW p \in Peers PROVE Copies(z, p) + Extra(z, p) <= TransitionCopyLimit
    <3> DEFINE starts == Current(x).via = p \/ (p = Host /\ fresh)
    <3>1. Copies(y, p) + Extra(y, p) <= TransitionCopyLimit
      BY DEF Good, Budgeted
    <3>2. Extra(y, p) = (IF starts THEN 1 ELSE 0) /\ Extra(z, p) = 0
      BY <1>1, <1>6, ExtraIs DEF Extra, Idle
    <3>3. Fed(z, p) \subseteq Fed(y, p) \cup (IF new.parent = p THEN {v} ELSE {})
      <4>1. ASSUME NEW w \in Fed(z, p), w # v PROVE w \in Fed(y, p)
        <5>1. w \in Viewers /\ z.edge[w].parent = p /\ z.edge[w].active
          BY <4>1 DEF Fed, Children
        <5>2. z.edge[w] = y.edge[w]
          BY <1>4, <4>1, <5>1
        <5> QED BY <5>1, <5>2 DEF Fed, Children
      <4>2. ASSUME v \in Fed(z, p) PROVE new.parent = p
        BY <1>4, <4>2 DEF Fed, Children
      <4> QED BY <4>1, <4>2
    <3>4. new.parent = p => Current(x).via = p
      BY NamesApart DEF EdgeOf, SourceOf, new
    <3>5. IsFiniteSet(Fed(y, p)) /\ Cardinality(Fed(y, p)) \in Nat
      BY CopiesAre
    <3>6. CASE new.parent = p
      <4>1. /\ IsFiniteSet(Fed(y, p) \cup {v})
            /\ Cardinality(Fed(y, p) \cup {v}) <= Cardinality(Fed(y, p)) + 1
        BY <3>5, FS_AddElement
      <4>2. Cardinality(Fed(z, p)) <= Cardinality(Fed(y, p)) + 1
        <5>1. Cardinality(Fed(z, p)) <= Cardinality(Fed(y, p) \cup {v})
          BY <3>3, <3>6, <4>1, FS_Subset
        <5>2. Cardinality(Fed(y, p) \cup {v}) \in Nat /\ Cardinality(Fed(z, p)) \in Nat
          BY <4>1, FS_CardinalityType, CopiesAre
        <5> QED BY <3>5, <4>1, <5>1, <5>2
      <4>3. ~fresh /\ starts
        BY <3>4, <3>6, NamesApart DEF Publications
      <4>4. z.pub.gen = y.pub.gen
        BY <1>5, <4>3
      <4>5. Copies(z, p) <= Copies(y, p) + 1
        BY <3>5, <4>2, <4>4, CopiesAre
      <4> QED BY <3>1, <3>2, <4>3, <4>5, CopiesAre, LimitIs
    <3>7. CASE new.parent # p
      <4>1. Cardinality(Fed(z, p)) <= Cardinality(Fed(y, p))
        BY <3>3, <3>5, <3>7, FS_Subset
      <4>2. Copies(z, p) <= Copies(y, p) + (IF starts THEN 1 ELSE 0)
        <5>1. CASE p = Host /\ fresh
          BY <3>5, <4>1, <5>1, CopiesAre
        <5>2. CASE p # Host
          BY <3>5, <4>1, <5>2, CopiesAre
        <5>3. CASE ~fresh
          <6>1. z.pub.gen = y.pub.gen
            BY <1>5, <5>3
          <6>2. Copies(z, p) <= Copies(y, p)
            BY <3>5, <4>1, <6>1, CopiesAre
          <6> QED BY <6>2, CopiesAre
        <5> QED BY <5>1, <5>2, <5>3
      <4> QED BY <3>1, <3>2, <4>2, CopiesAre, LimitIs
    <3> QED BY <3>6, <3>7
  <2> QED BY <2>1 DEF Budgeted
<1>18. Rooted(z)
  <2>1. new.parent \in Peers \cup {"sfu"} /\ Carries(y, v, new.parent)
    BY <1>3, NamesApart DEF IsPeer, Carries
  <2> QED BY <1>1, <1>2, <1>4, <2>1, MovedRooted DEF Good, Base
<1> QED BY <1>2, <1>6, <1>11, <1>14, <1>15, <1>16, <1>17, <1>18 DEF Base, Balanced, z

(* Pruning anchors leaves every active edge alone.                         *)
LEMMA PrunedActive ==
  ASSUME NEW x, Base(x), NEW q \in Viewers, x.edge[q].active
  PROVE  PruneAnchors(x).edge[q] = x.edge[q]
BY DEF PruneAnchors, Base, Shape, Fields

(* What a commit does to the tree: only the child is moved, onto a usable  *)
(* publication or below its parent; then nobody else that is fed is        *)
(* touched, and the publication stays as long as anybody else subscribes.  *)
Commits(x, w) ==
  LET v == x.op.child
  IN  /\ v \in Viewers /\ w.edge[v] = EdgeOf(Current(x), x.op.att)
      /\ \A q \in Viewers \ {v} : w.edge[q].parent # "none" =>
           w.edge[q].parent = x.edge[q].parent /\ w.edge[q].sub = x.edge[q].sub
      /\ IsSfu(Current(x)) => w.pub.usable /\ w.pub.gen = x.op.att.gen
      /\ IsPeer(Current(x)) => \A q \in Viewers \ {v} : x.edge[q].active =>
           w.edge[q] = x.edge[q] /\ (x.edge[q].parent = "sfu" => w.pub = x.pub)

(* Committing a candidate: what it reserved becomes what the tree uses,    *)
(* and what it replaces is released first.                                 *)
LEMMA CommittedKeeps ==
  ASSUME NEW x, Good(x), x.op.att.live, AttemptStands(x)
  PROVE  Good(Committed(x)) /\ Commits(x, Committed(x))
<1> DEFINE v == x.op.child
           y == IF Current(x).via = "replace"
                THEN RemovePublicationGeneration(x, x.pub.gen) ELSE x
           i == Installed(x, y, v)
           z == PruneAnchors(i)
           d == IF x.edge[v].parent = "sfu" THEN DropUnusedPublication(z) ELSE z
<1>1. Named(x, Current(x)) /\ v \in Viewers
  BY OperableNamed DEF AttemptStands, Good, Base, Shape, AttemptOwn
<1>10. /\ v \in x.online /\ v \in Participants(x)
       /\ IsPeer(Current(x)) => Carries(x, v, Current(x).via)
  BY <1>1, OperableCarries DEF AttemptStands, Good
<1>2. Current(x).via = "reuse" => x.op.att.gen = x.pub.gen
  BY DEF AttemptStands, IsSfu, Publications
<1>3. /\ Good(y) /\ y.op = x.op /\ Unmoved(x, y)
      /\ Current(x).via = "replace" => y.pub.gen = 0
      /\ Current(x).via # "replace" => y = x
      /\ Subscribers(y) \subseteq Subscribers(x)
      /\ v \in Participants(y)
  <2>1. CASE Current(x).via = "replace"
    <3>1. LET r == RemovePublicationGeneration(x, x.pub.gen)
          IN  /\ Onward(x, r) /\ r.op = x.op /\ r.pub.gen = 0 /\ Subscribers(r) = {}
      BY RemovePublicationKeeps DEF Good
    <3>2. y = RemovePublicationGeneration(x, x.pub.gen)
      BY <2>1
    <3> HIDE DEF y
    <3>3. Good(y) /\ v \in y.online /\ v # Host
      BY <1>1, <1>10, <3>1, <3>2, OnwardGood, RouteAssumption DEF Onward, Shrinks, Unmoved
    <3>4. v \in Participants(y)
      BY <3>3 DEF Good, Base, Rooted
    <3> QED BY <2>1, <3>1, <3>2, <3>3, <3>4 DEF Onward, Shrinks
  <2>2. CASE Current(x).via # "replace"
    BY <1>10, <2>2 DEF Unmoved
  <2> QED BY <2>1, <2>2
<1> HIDE DEF y
<1>4. Base(i) /\ Budgeted(i) /\ i.op = NoOperation /\ (v \notin Subscribers(y) => Watched(i))
  <2>1. Current(x).via = "reuse" => x.op.att.gen = y.pub.gen
    BY <1>2, <1>3
  <2>2. Current(x).via \in {"create", "replace"} => y.pub.gen = 0
    BY <1>1, <1>3 DEF Named
  <2>3. /\ IsSfu(Current(x)) <=> ~IsPeer(Current(x))
        /\ Current(x).via \in Peers \cup Publications
    BY <1>1 DEF Named
  <2>4. IsPeer(Current(x)) => Carries(y, v, Current(x).via)
    BY <1>3, <1>10, NamesApart DEF IsPeer, Publications
  <2> QED BY <1>3, <2>1, <2>2, <2>3, <2>4, InstalledKeeps
<1>11. /\ i.edge[v] = EdgeOf(Current(x), x.op.att)
       /\ \A q \in Viewers \ {v} : i.edge[q] = y.edge[q]
       /\ i.pub = IF Current(x).via \in {"create", "replace"}
                  THEN [gen |-> x.op.att.gen, usable |-> TRUE] ELSE y.pub
  BY <1>1, <1>3 DEF Installed, Good, Base, Shape, Fields
<1> HIDE DEF i
<1>12. /\ Unmoved(i, z) /\ z.pub = i.pub /\ Subscribers(z) = Subscribers(i)
       /\ \A q \in Viewers : i.edge[q].active => z.edge[q] = i.edge[q]
  BY <1>4, PruneAnchorsKeeps, PrunedActive DEF Onward, Shrinks
<1>5. Base(z) /\ Anchored(z) /\ Budgeted(z) /\ (Watched(i) => Watched(z))
  BY <1>4, PruneAnchorsKeeps, SparedBudget DEF Onward, Shrinks
<1> HIDE DEF z
<1>13. d.edge = z.edge /\ (Subscribers(z) # {} => d.pub = z.pub)
  BY <1>5, DropUnusedKeeps DEF DropUnusedPublication
<1>6. Good(d)
  <2>1. CASE x.edge[v].parent = "sfu"
    BY <1>5, <2>1, DropUnusedKeeps, SparedBudget DEF Good, Shrinks, Unmoved
  <2>2. CASE x.edge[v].parent # "sfu"
    BY <1>3, <1>4, <1>5, <2>2, SubscribersOf DEF Good
  <2> QED BY <2>1, <2>2
<1> HIDE DEF d
<1>7. Committed(x) = Served(d, x.op)
  BY DEF Committed, d, z, i, y
<1>8. Good(Committed(x)) /\ Committed(x).edge = d.edge /\ Committed(x).pub = d.pub
  BY <1>6, <1>7, ServedSame, SameGood DEF Good, Base, Same
<1> DEFINE w == Committed(x)
<1> HIDE DEF w
<1>9. w.edge = z.edge /\ (Subscribers(i) # {} => w.pub = i.pub)
  BY <1>8, <1>12, <1>13 DEF w
<1>14. /\ EdgeOf(Current(x), x.op.att).active
       /\ IsSfu(Current(x)) => EdgeOf(Current(x), x.op.att).parent = "sfu"
  BY DEF EdgeOf, SourceOf, IsSfu
<1>15. w.edge[v] = EdgeOf(Current(x), x.op.att)
  BY <1>1, <1>9, <1>11, <1>12, <1>14
<1>16. \A q \in Viewers \ {v} : w.edge[q].parent # "none" =>
         w.edge[q].parent = x.edge[q].parent /\ w.edge[q].sub = x.edge[q].sub
  BY <1>3, <1>9, <1>11, <1>12 DEF Unmoved
<1>17. ASSUME IsSfu(Current(x)) PROVE w.pub.usable /\ w.pub.gen = x.op.att.gen
  <2>1. w.pub = i.pub
    BY <1>1, <1>9, <1>11, <1>14, <1>17, SubscribersOf
  <2>2. CASE Current(x).via = "reuse"
    <3>1. PublicationEligible(x, v, "reuse")
      BY <2>2 DEF AttemptStands, Operable, CandidateValid, Publications
    <3> QED BY <1>2, <1>3, <1>11, <2>1, <2>2, <3>1 DEF PublicationEligible
  <2>3. CASE Current(x).via \in {"create", "replace"}
    BY <1>11, <2>1, <2>3
  <2> QED BY <1>17, <2>2, <2>3 DEF IsSfu, Publications
<1>18. ASSUME IsPeer(Current(x)), NEW q \in Viewers \ {v}, x.edge[q].active
       PROVE  w.edge[q] = x.edge[q] /\ (x.edge[q].parent = "sfu" => w.pub = x.pub)
  <2>1. y = x /\ i.pub = x.pub
    BY <1>3, <1>11, <1>18, NamesApart DEF IsPeer, Publications
  <2>2. i.edge[q] = x.edge[q]
    BY <1>11, <2>1
  <2>3. x.edge[q].parent = "sfu" => q \in Subscribers(i)
    BY <1>18, <2>2, SubscribersOf
  <2> QED BY <1>9, <1>12, <1>18, <2>1, <2>2, <2>3
<1>19. Commits(x, w)
  BY <1>1, <1>15, <1>16, <1>17, <1>18 DEF Commits
<1> QED BY <1>8, <1>19 DEF w

(* Who fed the new parent feeds it still: the chain does not lead over the *)
(* child or below it, so the commit left every hop of it alone.            *)
LEMMA ParentStaysFed ==
  ASSUME NEW x, NEW w, Commits(x, w), NEW p \in Peers, SourceUsable(x, p),
         p # x.op.child, p \notin Descendants(x, x.op.child), IsPeer(Current(x))
  PROVE  SourceUsable(w, p)
<1> DEFINE v == x.op.child
           below == Descendants(x, v) \cup {v}
           fed == {q \in Peers : SourceUsable(w, q)}
           S == fed \cup below
<1>1. Host \in S
  BY FedClosed, NamesApart
<1>2. ASSUME NEW q \in Viewers, Delivers(x, q, S) PROVE q \in S
  <2>1. CASE q \in below
    BY <2>1
  <2>2. CASE q \notin below
    <3>1. w.edge[q] = x.edge[q] /\ (x.edge[q].parent = "sfu" => w.pub = x.pub)
      BY <1>2, <2>2 DEF Delivers, Commits
    <3>2. x.edge[q].parent \notin below
      BY <2>2, DescendantsClosed DEF Children
    <3>3. Delivers(w, q, fed)
      BY <1>2, <3>1, <3>2 DEF Delivers
    <3> QED BY <3>3, FedClosed, NamesApart
  <2> QED BY <2>1, <2>2
<1>3. p \in S
  <2> HIDE DEF S
  <2> QED BY <1>1, <1>2, FedLeast
<1> QED BY <1>3

(* A candidate that stands delivers once it is committed.                  *)
LEMMA CommittedDelivers ==
  ASSUME NEW x, Good(x), x.op.att.live, AttemptStands(x)
  PROVE  UsableRoute(Committed(x), x.op.child)
<1> DEFINE v == x.op.child
           plan == Current(x)
           w == Committed(x)
           fed == {q \in Peers : SourceUsable(w, q)}
<1>1. Commits(x, w) /\ v \in Viewers /\ w.edge[v] = EdgeOf(plan, x.op.att)
  BY CommittedKeeps DEF Commits
<1>2. Operable(x, plan) /\ Named(x, plan)
  BY OperableNamed DEF AttemptStands, Good, Base, Shape
<1> HIDE DEF w, plan
<1>3. /\ w.edge[v].usable /\ w.edge[v].active /\ w.edge[v].gen = x.op.att.gen
      /\ w.edge[v].parent = IF plan.via \in Publications THEN "sfu" ELSE plan.via
  BY <1>1 DEF EdgeOf, SourceOf
<1>4. Delivers(w, v, fed)
  <2>1. CASE IsSfu(plan)
    BY <1>1, <1>3, <2>1 DEF Delivers, Commits, IsSfu, plan
  <2>2. CASE IsPeer(plan)
    <3>1. ParentEligible(x, v, plan.via) /\ plan.via \in Peers
      BY <1>2, <2>2, NamesApart DEF Operable, CandidateValid, IsPeer
    <3>2. SourceUsable(w, plan.via)
      BY <1>1, <2>2, <3>1, ParentStaysFed DEF ParentEligible, plan
    <3> QED BY <1>3, <3>1, <3>2, NamesApart DEF Delivers
  <2> QED BY <1>2, <2>1, <2>2 DEF Named
<1> QED BY <1>1, <1>4, FedClosed DEF UsableRoute, w

(* A ready candidate is committed only under its own attempt.              *)
LEMMA CandidateReadyKeeps ==
  ASSUME NEW x, Good(x)
  PROVE  LET w == CommitLive(Validate(x, FALSE))
         IN  /\ Good(w)
             /\ \/ Follows(x, w)
                \/ Commits(x, w) /\ UsableRoute(w, x.op.child)
<1> DEFINE y == Validate(x, FALSE)
<1>1. Onward(x, y) /\ (y.op.att.live => y = x /\ AttemptStands(x))
  BY ValidateKeeps DEF Good
<1>2. Good(y) /\ Follows(x, y)
  BY <1>1, OnwardGood
<1> HIDE DEF y
<1>3. LET w == CommitLive(y)
      IN  Good(w) /\ (Follows(x, w) \/ (Commits(x, w) /\ UsableRoute(w, x.op.child)))
  <2>1. CASE y.op.att.live
    <3>1. CommitLive(y) = Committed(x) /\ x.op.att.live /\ AttemptStands(x)
      BY <1>1, <2>1 DEF CommitLive
    <3> QED BY <3>1, CommittedKeeps, CommittedDelivers
  <2>2. CASE ~y.op.att.live
    BY <1>2, <2>2 DEF CommitLive
  <2> QED BY <2>1, <2>2
<1> QED BY <1>3 DEF y

-----------------------------------------------------------------------------
(* What happens around the controller.                                     *)
LEMMA EndSessionSame ==
  ASSUME NEW x, NEW p, Shape(x) PROVE Same(x, EndSession(x, p))
<1> DEFINE y == ClearOpportunities(x, p)
           z == [y EXCEPT !.cont[p] = {}]
<1>1. Same(x, y)
  BY DEF ClearOpportunities, Same, Shape, Fields
<1> HIDE DEF y
<1>2. Same(x, z)
  BY <1>1 DEF Same, Fields
<1> HIDE DEF z
<1>3. Same(x, ClearBootstrapFor(z, p))
  BY <1>2 DEF ClearBootstrapFor, Same, Fields, Whom
<1>4. EndSession(x, p) = IF p = Host THEN y ELSE ClearBootstrapFor(z, p)
  BY DEF EndSession, y, z
<1> QED BY <1>1, <1>3, <1>4

(* A socket disconnects.                                                   *)
LEMMA DisconnectKeeps ==
  ASSUME NEW x, NEW p, Good(x)
  PROVE  Follows(x, TouchFacts([EndSession(x, p) EXCEPT !.online = @ \ {p}]))
<1> DEFINE e == EndSession(x, p)
           y == [e EXCEPT !.online = @ \ {p}]
<1>1. Good(e) /\ Follows(x, e)
  BY EndSessionSame, SameGood DEF Good, Base
<1> HIDE DEF e
<1>2. Around(e, y)
  BY <1>1 DEF Around, Good, Base, Shape, Fields
<1>3. /\ y.order = e.order /\ y.online = e.online \ {p} /\ y.departed = e.departed
      /\ y.edge = e.edge
  BY <1>1 DEF Good, Base, Shape, Fields
<1> HIDE DEF y
<1>4. Rooted(y)
  <2>1. Rooted(e) /\ Participants(y) = Participants(e)
    BY <1>1, <1>3 DEF Good, Base, Participants
  <2>2. /\ IsSeq(y.order) /\ Participants(y) \subseteq Viewers
        /\ y.online \subseteq Participants(y) \cup {Host}
        /\ y.departed \subseteq Participants(y) \ y.online
    BY <1>3, <2>1 DEF Rooted
  <2> QED BY <1>3, <2>1, <2>2, AroundRooted
<1>5. Follows(x, TouchFacts(y))
  BY <1>1, <1>2, <1>4, AroundGood, TouchedGood, FollowsTransitive
<1> QED BY <1>5 DEF y, e

(* A known peer comes back in a new session.                               *)
LEMMA ReconnectKeeps ==
  ASSUME NEW p \in Peers, Good(c), Reconnect(p) PROVE Follows(c, c')
<1> DEFINE x == EndSession(c, p)
           y == IF UsesSession(x, p) THEN AbortOperation(x) ELSE x
           keyed(v) == \/ v = p \/ c.edge[v].parent = p
                       \/ p = Host /\ c.edge[v].parent = "sfu"
           edges == [v \in Viewers |->
                       [y.edge[v] EXCEPT !.own = y.edge[v].own /\ ~keyed(v)]]
           z == [y EXCEPT
               !.online = @ \cup {p}, !.departed = @ \ {p},
               !.cap[p] = IF p = Host THEN EndpointCapacity ELSE @,
               !.edge = edges]
<1>1. Good(x) /\ Follows(c, x)
  BY EndSessionSame, SameGood DEF Good, Base
<1> HIDE DEF x
<1>2. Good(y) /\ Follows(c, y)
  BY <1>1, AbortedGood, FollowsTransitive
<1> HIDE DEF y
<1>3. Around(y, z)
  <2> HIDE DEF edges
  <2>1. /\ DOMAIN z = Fields /\ z.online = y.online \cup {p} /\ z.pub = y.pub /\ z.op = y.op
        /\ z.subs = y.subs /\ z.pubs = y.pubs /\ z.edge = edges
        /\ z.retiring = y.retiring /\ z.intent = y.intent
        /\ z.cap = [y.cap EXCEPT ![p] = IF p = Host THEN EndpointCapacity ELSE y.cap[p]]
    BY <1>2 DEF Good, Base, Shape, Fields
  <2> HIDE DEF z, keyed
  <2>2. ASSUME NEW v \in Viewers
        PROVE  /\ DOMAIN z.edge[v] = EdgeFields
               /\ z.edge[v].parent = y.edge[v].parent /\ z.edge[v].active = y.edge[v].active
               /\ z.edge[v].gen = y.edge[v].gen /\ z.edge[v].sub = y.edge[v].sub
    BY <1>2, <2>1 DEF Good, Base, Shape, EdgeFields, edges
  <2>3. DOMAIN z.edge = Viewers
    BY <2>1 DEF edges
  <2>4. z.cap \in [Peers -> 0..EndpointCapacity]
    BY <1>2, <2>1, LimitIs DEF Good, Base, Shape
  <2> QED BY <1>2, <2>1, <2>2, <2>3, <2>4 DEF Around, Good, Base, Shape
<1>4. c' = TouchFacts(z)
  BY DEF Reconnect, Churn, x, y
<1>5. /\ z.order = y.order /\ z.online = y.online \cup {p} /\ z.departed = y.departed \ {p}
      /\ z.edge = edges
  <2> HIDE DEF edges
  <2> QED BY <1>2 DEF Good, Base, Shape, Fields
<1>7. p \in Participants(y) \cup {Host}
  <2>1. x.order = c.order
    BY EndSessionSame DEF Good, Base, Same, x
  <2>2. y.order = x.order
    <3> DEFINE r == ReleaseAttempt(x)
    <3>1. DOMAIN r = Fields /\ r.order = x.order
      BY <1>1 DEF ReleaseAttempt, AdvanceActiveRevision, Good, Base, Shape, Fields
    <3> HIDE DEF r
    <3>2. [r EXCEPT !.op = NoOperation].order = r.order
      BY <3>1 DEF Fields
    <3>3. AbortOperation(x) = [r EXCEPT !.op = NoOperation]
      BY DEF AbortOperation, r
    <3> QED BY <3>1, <3>2, <3>3 DEF y
  <2> QED BY <2>1, <2>2 DEF Reconnect, Participants
<1> HIDE DEF z
<1>6. Rooted(z)
  <2>1. Rooted(y) /\ Participants(z) = Participants(y)
    BY <1>2, <1>5 DEF Good, Base, Participants
  <2>2. /\ IsSeq(z.order) /\ Participants(z) \subseteq Viewers
        /\ z.online \subseteq Participants(z) \cup {Host}
        /\ z.departed \subseteq Participants(z) \ z.online
    BY <1>5, <1>7, <2>1 DEF Rooted
  <2>3. \A w \in Viewers : z.edge[w].parent = y.edge[w].parent
    BY <1>3 DEF Around
  <2>4. ASSUME NEW w \in Viewers, y.edge[w] = NoEdge PROVE z.edge[w] = NoEdge
    <3>1. NoEdge = [f \in DOMAIN NoEdge |-> NoEdge[f]] /\ NoEdge["own"] = FALSE
      BY Zenon DEF NoEdge
    <3>2. z.edge[w] = [NoEdge EXCEPT !.own = NoEdge.own /\ ~keyed(w)]
      BY <1>5, <2>4
    <3>3. (NoEdge.own /\ ~keyed(w)) = FALSE
      BY <3>1
    <3> QED BY <3>1, <3>2, <3>3, Zenon
  <2> QED BY <1>5, <2>1, <2>2, <2>3, <2>4, AroundRooted
<1> QED BY <1>2, <1>3, <1>4, <1>6, AroundGood, TouchedGood, FollowsTransitive

(* A viewer joins.                                                         *)
LEMMA JoinKeeps ==
  ASSUME NEW v \in Viewers, Good(c), Join(v) PROVE Follows(c, c')
<1> DEFINE x == ClearOpportunities(c, v)
           y == [x EXCEPT !.order = Append(@, v), !.online = @ \cup {v}, !.cap[v] = 0]
<1>1. Good(x) /\ Follows(c, x)
  <2>1. Same(c, x)
    BY DEF ClearOpportunities, Same, Good, Base, Shape, Fields
  <2> HIDE DEF x
  <2> QED BY <2>1, SameGood
<1> HIDE DEF x
<1>2. Around(x, y)
  <2>1. /\ DOMAIN y = Fields /\ y.edge = x.edge /\ y.online = x.online \cup {v}
        /\ y.pub = x.pub /\ y.op = x.op /\ y.subs = x.subs /\ y.pubs = x.pubs
        /\ y.cap = [x.cap EXCEPT ![v] = 0]
        /\ y.retiring = x.retiring /\ y.intent = x.intent
    BY <1>1 DEF Good, Base, Shape, Fields
  <2> HIDE DEF y
  <2>2. y.cap \in [Peers -> 0..EndpointCapacity]
    <3>1. v \in Peers /\ 0 \in 0..EndpointCapacity
      BY LimitIs, NamesApart
    <3> QED BY <1>1, <2>1, <3>1 DEF Good, Base, Shape
  <2> QED BY <1>1, <2>1, <2>2, NamesApart DEF Around, Good, Base, Shape
<1>3. c' = TouchFacts(y)
  BY DEF Join, Churn, x
<1>4. /\ y.order = Append(x.order, v) /\ y.online = x.online \cup {v}
      /\ y.departed = x.departed /\ y.edge = x.edge
  BY <1>1 DEF Good, Base, Shape, Fields
<1>5. v \notin Participants(x)
  <2>1. x.order = c.order
    BY DEF ClearOpportunities, Good, Base, Shape, Fields, x
  <2> QED BY <2>1 DEF Join, Participants
<1> HIDE DEF y
<1>6. Rooted(y)
  <2>1. Rooted(x)
    BY <1>1 DEF Good, Base
  <2>2. IsSeq(y.order) /\ Participants(y) = Participants(x) \cup {v}
    <3> DEFINE S == Participants(x) \cup {v}
    <3>1. x.order \in Seq(S)
      BY <2>1, SeqMonotonic DEF Rooted, Participants, IsSeq
    <3>2. y.order \in Seq(S) /\ Range(y.order) = S
      BY <1>4, <3>1, AppendRange DEF Participants
    <3> QED BY <3>2, SeqListed DEF Participants
  <2>3. /\ Participants(y) \subseteq Viewers
        /\ y.online \subseteq Participants(y) \cup {Host}
        /\ y.departed \subseteq Participants(y) \ y.online
    BY <1>4, <1>5, <2>1, <2>2 DEF Rooted
  <2> QED BY <1>4, <2>1, <2>2, <2>3, AroundRooted
<1> QED BY <1>1, <1>2, <1>3, <1>6, AroundGood, TouchedGood, FollowsTransitive

(* A viewer leaves for good.                                               *)
LEMMA DepartureKeeps ==
  ASSUME NEW v \in Viewers, Good(c), ConfirmDeparture(v) PROVE Follows(c, c')
<1> DEFINE x == EndSession(c, v)
           y == [x EXCEPT !.online = @ \ {v}, !.cap[v] = 0, !.departed = @ \cup {v}]
<1>1. Good(x) /\ Follows(c, x)
  BY EndSessionSame, SameGood DEF Good, Base
<1> HIDE DEF x
<1>2. Around(x, y)
  <2>1. /\ DOMAIN y = Fields /\ y.edge = x.edge /\ y.online = x.online \ {v}
        /\ y.pub = x.pub /\ y.op = x.op /\ y.subs = x.subs /\ y.pubs = x.pubs
        /\ y.cap = [x.cap EXCEPT ![v] = 0]
        /\ y.retiring = x.retiring /\ y.intent = x.intent
    BY <1>1 DEF Good, Base, Shape, Fields
  <2> HIDE DEF y
  <2>2. y.cap \in [Peers -> 0..EndpointCapacity]
    <3>1. v \in Peers /\ 0 \in 0..EndpointCapacity
      BY LimitIs, NamesApart
    <3> QED BY <1>1, <2>1, <3>1 DEF Good, Base, Shape
  <2> QED BY <1>1, <2>1, <2>2 DEF Around, Good, Base, Shape
<1>3. c' = TouchFacts(y)
  BY DEF ConfirmDeparture, Churn, x
<1>4. /\ y.order = x.order /\ y.online = x.online \ {v}
      /\ y.departed = x.departed \cup {v} /\ y.edge = x.edge
  BY <1>1 DEF Good, Base, Shape, Fields
<1>5. v \in Participants(x)
  <2>1. x.order = c.order
    BY EndSessionSame DEF Good, Base, Same, x
  <2> QED BY <2>1 DEF ConfirmDeparture, Participants
<1> HIDE DEF y
<1>6. Rooted(y)
  <2>1. Rooted(x) /\ Participants(y) = Participants(x)
    BY <1>1, <1>4 DEF Good, Base, Participants
  <2>2. /\ IsSeq(y.order) /\ Participants(y) \subseteq Viewers
        /\ y.online \subseteq Participants(y) \cup {Host}
        /\ y.departed \subseteq Participants(y) \ y.online
    BY <1>4, <1>5, <2>1 DEF Rooted
  <2> QED BY <1>4, <2>1, <2>2, AroundRooted
<1> QED BY <1>1, <1>2, <1>3, <1>6, AroundGood, TouchedGood, FollowsTransitive

(* A capacity report never reaches beyond the endpoint capacity.           *)
LEMMA CapacityKeeps ==
  ASSUME NEW p \in Peers, NEW n \in 0..EndpointCapacity, Good(c), SetEffectiveCapacity(p, n)
  PROVE  Follows(c, c')
<1> DEFINE y == [c EXCEPT !.cap[p] = n]
<1>1. Around(c, y)
  BY DEF Around, Good, Base, Shape, Fields
<1>2. c' = TouchFacts(y)
  BY DEF SetEffectiveCapacity, Churn
<1>3. y.order = c.order /\ y.online = c.online /\ y.departed = c.departed /\ y.edge = c.edge
  BY DEF Good, Base, Shape, Fields
<1> HIDE DEF y
<1>4. Rooted(y)
  BY <1>3, FrameTree DEF Good, Base
<1> QED BY <1>1, <1>2, <1>4, AroundGood, TouchedGood, FollowsTransitive

(* A transport reports an edge broken.                                     *)
LEMMA InvalidateEdgeKeeps ==
  ASSUME NEW v \in Viewers, Good(c), InvalidateEdge(v) PROVE Follows(c, c')
<1> DEFINE source == c.edge[v].parent
           x == IF c.edge[v].own THEN [c EXCEPT !.spent[v][source] = Steady] ELSE c
           y == [x EXCEPT !.edge[v].usable = FALSE, !.cont[v] = {},
                          !.exhausted = @ \ {v}, !.reported = @ \ {v}]
<1>1. Good(x) /\ Follows(c, x)
  <2>1. Same(c, x)
    BY DEF Same, Good, Base, Shape, Fields
  <2> HIDE DEF x
  <2> QED BY <2>1, SameGood
<1> HIDE DEF x
<1>2. Around(x, y)
  <2>1. /\ DOMAIN y = Fields /\ y.online = x.online /\ y.cap = x.cap /\ y.pub = x.pub
        /\ y.op = x.op
        /\ y.subs = x.subs /\ y.pubs = x.pubs
        /\ y.edge = [x.edge EXCEPT ![v] = [x.edge[v] EXCEPT !.usable = FALSE]]
        /\ y.retiring = x.retiring /\ y.intent = x.intent
    BY <1>1 DEF Good, Base, Shape, Fields
  <2> HIDE DEF y
  <2> QED BY <1>1, <2>1 DEF Around, Good, Base, Shape, EdgeFields
<1>3. c' = TouchFacts(y)
  BY DEF InvalidateEdge, Churn, x
<1>4. /\ y.order = x.order /\ y.online = x.online /\ y.departed = x.departed
      /\ y.edge = [x.edge EXCEPT ![v] = [x.edge[v] EXCEPT !.usable = FALSE]]
  BY <1>1 DEF Good, Base, Shape, Fields
<1>5. x.edge[v] # NoEdge
  BY DEF InvalidateEdge, NoEdge, x
<1> HIDE DEF y
<1>6. Rooted(y)
  <2>1. Rooted(x) /\ Participants(y) = Participants(x)
    BY <1>1, <1>4 DEF Good, Base, Participants
  <2>2. \A w \in Viewers : y.edge[w].parent = x.edge[w].parent
    BY <1>2 DEF Around
  <2>3. \A w \in Viewers : x.edge[w] = NoEdge => y.edge[w] = NoEdge
    BY <1>1, <1>4, <1>5 DEF Good, Base, Shape
  <2> QED BY <1>4, <2>1, <2>2, <2>3, AroundRooted DEF Rooted
<1> QED BY <1>1, <1>2, <1>3, <1>6, AroundGood, TouchedGood, FollowsTransitive

(* A transport reports the publication broken.                             *)
LEMMA InvalidatePublicationKeeps ==
  ASSUME Good(c), InvalidatePublication PROVE Follows(c, c')
<1> DEFINE y == [c EXCEPT !.pub.usable = FALSE, !.intent = "none",
                          !.cont = [v \in Viewers |-> {}]]
           x == TouchFacts(y)
           r == RemovePublicationGeneration(x, x.pub.gen)
           z == RetireHostPublication(x)
<1>1. Around(c, y)
  <2>1. /\ DOMAIN y = Fields /\ y.online = c.online /\ y.cap = c.cap /\ y.edge = c.edge
        /\ y.op = c.op
        /\ y.subs = c.subs /\ y.pubs = c.pubs /\ y.pub = [c.pub EXCEPT !.usable = FALSE]
        /\ y.retiring = c.retiring /\ y.intent = "none"
    BY DEF Good, Base, Shape, Fields
  <2> HIDE DEF y
  <2> QED BY <2>1 DEF Around, Good, Base, Shape, Whom
<1>2. c' = IF x.op.att.live THEN x ELSE z
  BY DEF InvalidatePublication, Churn
<1>6. y.order = c.order /\ y.online = c.online /\ y.departed = c.departed /\ y.edge = c.edge
  BY DEF Good, Base, Shape, Fields
<1> HIDE DEF y
<1>7. Rooted(y)
  BY <1>6, FrameTree DEF Good, Base
<1>3. Good(x) /\ Follows(c, x)
  BY <1>1, <1>7, AroundGood, TouchedGood, FollowsTransitive
<1> HIDE DEF x
<1>4. CASE x.op.att.live
  BY <1>2, <1>3, <1>4
<1>5. CASE ~x.op.att.live
  <2>1. Onward(x, r) /\ r.op = x.op
    BY <1>3, RemovePublicationKeeps DEF Good
  <2>2. z = AdvanceActiveRevision(AllocateRevision(r))
    BY DEF RetireHostPublication
  <2> HIDE DEF r
  <2>3. Good(r) /\ Follows(c, r)
    BY <1>3, <2>1, OnwardGood, FollowsTransitive
  <2>4. /\ DOMAIN z = Fields /\ z.online = r.online /\ z.cap = r.cap
        /\ z.departed = r.departed
        /\ z.edge = r.edge /\ z.pub = r.pub /\ z.subs = r.subs /\ z.pubs = r.pubs
        /\ z.order = r.order /\ z.retiring = r.retiring /\ z.intent = r.intent
        /\ DOMAIN z.op = OpFields /\ z.op.child = r.op.child /\ z.op.plans = r.op.plans
        /\ z.op.demand = r.op.demand /\ z.op.clock = r.op.clock
        /\ z.op.cursor = r.op.cursor /\ z.op.based
        /\ DOMAIN z.op.att = AttemptFields /\ ~z.op.att.live /\ z.op.att.newest
    <3>1. CASE HasOp(r)
      <4> DEFINE a == AllocateRevision(r)
      <4>1. a = [r EXCEPT !.op.based = FALSE, !.op.att.newest = ~r.op.att.live]
        BY <3>1 DEF AllocateRevision
      <4>2. /\ DOMAIN a = Fields /\ a.online = r.online /\ a.cap = r.cap
            /\ a.departed = r.departed
            /\ a.edge = r.edge /\ a.pub = r.pub /\ a.subs = r.subs /\ a.pubs = r.pubs
            /\ a.order = r.order /\ a.retiring = r.retiring /\ a.intent = r.intent
            /\ DOMAIN a.op = OpFields /\ a.op.child = r.op.child /\ a.op.plans = r.op.plans
            /\ a.op.demand = r.op.demand /\ a.op.clock = r.op.clock
            /\ a.op.cursor = r.op.cursor
            /\ DOMAIN a.op.att = AttemptFields /\ a.op.att.live = r.op.att.live
            /\ a.op.att.newest = ~r.op.att.live
        <5> HIDE DEF a
        <5> QED BY <2>3, <4>1
                   DEF Good, Base, Shape, OpShape, Fields, OpFields, AttemptFields
      <4>3. z = [a EXCEPT !.op.based = TRUE]
        BY <2>2 DEF AdvanceActiveRevision
      <4> HIDE DEF a, z
      <4> QED BY <1>5, <2>1, <4>2, <4>3 DEF Fields, OpFields
    <3>2. CASE ~HasOp(r)
      <4>1. z = [r EXCEPT !.op.based = TRUE]
        BY <2>2, <3>2 DEF AdvanceActiveRevision, AllocateRevision
      <4> HIDE DEF z
      <4> QED BY <1>5, <2>1, <2>3, <4>1
              DEF Good, Base, Shape, OpShape, Fields, OpFields, Prepared
    <3> QED BY <3>1, <3>2
  <2> HIDE DEF z
  <2>5. OpShape(z.op)
    BY <2>3, <2>4 DEF Good, Base, Shape, OpShape
  <2>8. Onward(r, z)
    BY <1>5, <2>1, <2>3, <2>4, <2>5, IdleReplaced DEF Good, Idle, Base, Shape
  <2> QED BY <1>2, <1>5, <2>3, <2>8, OnwardGood, FollowsTransitive
<1> QED BY <1>4, <1>5

(* A controller that feeds nobody is within every budget.                  *)
LEMMA BareBudget ==
  ASSUME NEW x, x.edge = [v \in Viewers |-> NoEdge], x.pub.gen = 0, Idle(x)
  PROVE  Budgeted(x)
<1>1. ASSUME NEW p \in Peers PROVE Copies(x, p) + Extra(x, p) <= TransitionCopyLimit
  <2>1. Fed(x, p) = {}
    BY NoEdgeShape DEF Fed, Children
  <2>2. Copies(x, p) = 0
    BY <2>1, CopiesAre, FS_EmptySet
  <2> QED BY <2>2, ExtraIs, LimitIs DEF Idle
<1> QED BY <1>1 DEF Budgeted

(* A new host identity starts over from nothing.                           *)
LEMMA RebindKeeps ==
  ASSUME Good(c), RebindHostIdentity PROVE Follows(c, c')
<1>1. /\ DOMAIN c' = Fields /\ c'.online = c.online \cup {Host}
      /\ c'.edge = [v \in Viewers |-> NoEdge] /\ c'.pub = NoPublication
      /\ c'.op = NoOperation /\ c'.subs = {} /\ c'.pubs = {}
      /\ c'.cap = [c.cap EXCEPT ![Host] = EndpointCapacity]
      /\ c'.order = c.order /\ c'.departed = c.departed
      /\ c'.retiring = {} /\ c'.intent = "none"
  BY DEF RebindHostIdentity, Churn, Good, Base, Shape, Fields
<1>2. Subscribers(c') = {} /\ Used(c') = {}
  BY <1>1, NoEdgeShape DEF Subscribers, OnSfu, Used
<1>3. DOMAIN NoPublication = {"gen", "usable"} /\ NoPublication.gen = 0
  BY DEF NoPublication
<1>4. c'.cap \in [Peers -> 0..EndpointCapacity]
  <2>1. Host \in Peers /\ EndpointCapacity \in 0..EndpointCapacity
    BY LimitIs, NamesApart
  <2> QED BY <1>1, <2>1 DEF Good, Base, Shape
<1>5. Idle(c') /\ Shape(c') /\ Prepared(c')
  BY <1>1, <1>3, <1>4, NoEdgeShape, NoOperationShape, NamesApart
     DEF Shape, Prepared, Idle, Good, Base, Whom
<1>8. Rooted(c')
  <2>1. /\ IsSeq(c'.order) /\ Participants(c') = Participants(c)
        /\ Participants(c') \subseteq Viewers
        /\ c'.online \subseteq Participants(c') \cup {Host}
        /\ c'.departed \subseteq Participants(c') \ c'.online
    BY <1>1, RouteAssumption DEF Good, Base, Rooted, Participants
  <2>2. "none" \notin Viewers
    BY RouteAssumption
  <2>3. Ranks(c', [v \in Viewers |-> 0])
    BY <1>1, <2>2, NoEdgeShape DEF Ranks
  <2>4. Linked(c')
    BY <1>1, <2>2, NoEdgeShape DEF Linked
  <2> QED BY <2>1, <2>3, <2>4 DEF Rooted
<1>9. Anchored(c')
  BY <1>1, NoEdgeShape DEF Anchored, OnSfu
<1>6. ReservedSubscription(c') = {} /\ ReservedGeneration(c') = {}
  BY <1>5, IdleReserves DEF Idle
<1>7. Budgeted(c')
  BY <1>1, <1>3, <1>5, BareBudget
<1>10. Unmoved(c, c')
  BY <1>1, NoEdgeShape DEF Unmoved
<1> QED BY <1>1, <1>2, <1>3, <1>5, <1>6, <1>7, <1>8, <1>9, <1>10
        DEF Good, Base, Idle, EdgesCurrent, AttemptOwn, Balanced, Watched, Follows

(* Pausing the room aborts the operation.                                  *)
LEMMA PausedKeeps ==
  ASSUME Good(c), SetPaused PROVE Follows(c, c')
<1>1. CASE c.paused
  <2> DEFINE y == [c EXCEPT !.paused = FALSE]
  <2>1. Same(c, y)
    BY DEF Same, Good, Base, Shape, Fields
  <2>2. c' = TouchFacts(y)
    BY <1>1 DEF SetPaused, Churn
  <2> HIDE DEF y
  <2> QED BY <2>1, <2>2, SameGood, TouchedGood, FollowsTransitive
<1>2. CASE ~c.paused
  <2> DEFINE a == AbortOperation(c)
             y == [a EXCEPT !.paused = TRUE]
  <2>1. Good(a) /\ Follows(c, a)
    BY AbortedGood
  <2>2. c' = y
    BY <1>2 DEF SetPaused, Churn
  <2> HIDE DEF a
  <2>3. Same(a, y)
    BY <2>1 DEF Same, Good, Base, Shape, Fields
  <2> HIDE DEF y
  <2> QED BY <2>1, <2>2, <2>3, SameGood, FollowsTransitive
<1> QED BY <1>1, <1>2

(* SFU capacity is freed while the room waits for it.                      *)
LEMMA ExternalKeeps ==
  ASSUME Good(c), TouchExternalFacts PROVE Follows(c, c')
<1> DEFINE y == [c EXCEPT
          !.spent = [v \in Viewers |-> [@[v] EXCEPT !["sfu"] = Fresh]],
          !.carried = [v \in Viewers |-> Fresh],
          !.reported = {}, !.intent = "none"]
<1>1. Same(c, y)
  BY DEF Same, Good, Base, Shape, Fields, Whom
<1>2. c' = TouchFacts(y)
  BY DEF TouchExternalFacts, Churn
<1> HIDE DEF y
<1> QED BY <1>1, <1>2, SameGood, TouchedGood, FollowsTransitive

(* Every step of the environment keeps the invariant and moves nobody.     *)
LEMMA EnvironmentKeeps ==
  ASSUME Good(c), Environment PROVE Follows(c, c')
<1>1. ASSUME NEW p \in Peers, DisconnectSession(p) PROVE Follows(c, c')
  BY <1>1, DisconnectKeeps DEF DisconnectSession, Churn
<1> QED BY <1>1, ReconnectKeeps, CapacityKeeps, JoinKeeps, DepartureKeeps,
           InvalidateEdgeKeeps, InvalidatePublicationKeeps, PausedKeeps, ExternalKeeps
        DEF Environment

-----------------------------------------------------------------------------
(* A round of the scheduling loop that began with s: no attempt is live    *)
(* and nobody was moved.                                                   *)
Calm(s, x) == Good(x) /\ Idle(x) /\ Unmoved(s, x)

(* Changing only what the proof does not look at keeps the loop calm.      *)
LEMMA SameCalm ==
  ASSUME NEW s, NEW x, NEW y, Calm(s, x), Same(x, y) PROVE Calm(s, y)
BY SameGood DEF Calm, Same, Idle, Follows, Unmoved

(* So does whatever leads calmly onward.                                   *)
LEMMA CalmlyCalm ==
  ASSUME NEW s, NEW x, NEW y, Calm(s, x), Calmly(x, y) PROVE Calm(s, y)
BY OnwardGood DEF Calm, Calmly, Follows, Unmoved

(* Among participants somebody joined first.                               *)
LEMMA OldestExists ==
  ASSUME NEW x, Base(x), NEW S, S \subseteq Participants(x), S # {}
  PROVE  \E v : v \in Oldest(x, S)
<1>1. ASSUME NEW v \in S PROVE Joined(x, v) \in DOMAIN x.order
  <2>1. \E i \in DOMAIN x.order : x.order[i] = v
    BY <1>1 DEF Participants, Range
  <2> QED BY <2>1 DEF Joined
<1>2. DOMAIN x.order \subseteq Nat
  BY SeqShape DEF Base, Rooted
<1> DEFINE T == {Joined(x, v) : v \in S}
<1>3. T \in SUBSET Nat /\ T # {}
  BY <1>1, <1>2
<1>4. Lowest(T) \in T /\ \A m \in T : Lowest(T) <= m
  <2> HIDE DEF T
  <2> QED BY <1>3, LowestIs
<1>5. PICK v \in S : Joined(x, v) = Lowest(T)
  BY <1>4
<1>6. \A w \in S : Joined(x, w) \in T
  OBVIOUS
<1> HIDE DEF T
<1> QED BY <1>4, <1>5, <1>6 DEF Oldest

(* Choosing the viewer that a carrier is meant for.                        *)
LEMMA SettleIntentSame ==
  ASSUME NEW x, Base(x) PROVE Same(x, SettleIntent(x))
<1> DEFINE owed == {v \in Online(x) \cap x.exhausted : SafeCarriers(x, v) # {}}
           to == IF owed = {} THEN "none" ELSE CHOOSE v \in Oldest(x, owed) : TRUE
<1>1. SettleIntent(x) = x \/ SettleIntent(x) = [x EXCEPT !.intent = to]
  BY DEF SettleIntent
<1>2. owed \subseteq Participants(x)
  BY RouteAssumption DEF Online, Base, Rooted
<1>3. owed \subseteq Viewers
  BY DEF Online
<1> HIDE DEF owed
<1>4. to \in Whom
  <2>1. CASE owed = {}
    BY <2>1 DEF Whom
  <2>2. CASE owed # {}
    <3>1. PICK v : v \in Oldest(x, owed)
      BY <1>2, <2>2, OldestExists
    <3>2. to \in Oldest(x, owed)
      BY <2>2, <3>1
    <3> QED BY <1>3, <3>2 DEF Oldest, Whom
  <2> QED BY <2>1, <2>2
<1> HIDE DEF to
<1> QED BY <1>1, <1>4, SameReflexive DEF Base, Same, Shape, Fields

(* The round claims a carrier, or reports those that have none.            *)
LEMMA TakeCarrierSame ==
  ASSUME NEW x, Base(x) PROVE Same(x, TakeCarrier(x))
<1> DEFINE y == SettleIntent(x)
<1>1. Same(x, y)
  BY SettleIntentSame
<1> HIDE DEF y
<1>2. Same(x, ReportUncarried(y))
  BY <1>1 DEF ReportUncarried, Same, Fields
<1>3. TakeCarrier(x) = IF GloballyNeeded(x) THEN ReportUncarried(y) ELSE x
  BY DEF TakeCarrier, y
<1> QED BY <1>2, <1>3, SameReflexive DEF Base

(* There are finitely many peers.                                          *)
LEMMA PeersFinite == IsFiniteSet(Peers)
BY RouteAssumption, FS_AddElement DEF Peers

(* The orders of parents are lists.                                        *)
LEMMA ParentOrdersListed ==
  ASSUME NEW x, NEW v, NEW s \in ParentOrders(x, v) PROVE IsSeq(s)
<1> DEFINE E == EligibleParents(x, v)
<1>1. s \in SetToSeqs(E)
  BY DEF ParentOrders
<1>2. Cardinality(E) \in Nat
  <2>1. E \subseteq Peers
    BY DEF EligibleParents
  <2> HIDE DEF E
  <2> QED BY <2>1, PeersFinite, FS_Subset, FS_CardinalityType
<1> HIDE DEF E
<1>3. s = [k \in 1..Cardinality(E) |-> s[k]]
  BY <1>1 DEF SetToSeqs
<1> QED BY <1>2, <1>3, FunctionSeq

(* A single plan is a list.                                                *)
LEMMA SingletonListed == ASSUME NEW e PROVE IsSeq(<<e>>)
<1>1. <<e>> \in Seq({e})
  OBVIOUS
<1> QED BY <1>1, SeqListed

(* A single plan that holds is a list of plans.                            *)
LEMMA SinglePlan ==
  ASSUME NEW x, Shape(x), NEW v, NEW plan, CandidateValid(x, v, plan)
  PROVE  IsSeq(<<plan>>) /\ Range(<<plan>>) \subseteq Plans
<1>1. plan \in Plans
  BY ValidPlan
<1>2. Range(<<plan>>) = {plan}
  BY DEF Range
<1> QED BY <1>1, <1>2, SingletonListed

(* Adding the SFU to a list.                                               *)
LEMMA WithSfuListed ==
  ASSUME NEW s, NEW via, IsSeq(s) PROVE IsSeq(WithSfu(s, via))
<1>1. CASE s = <<>>
  BY <1>1, SingletonListed DEF WithSfu
<1>2. CASE s # <<>>
  <2> DEFINE t == <<s[1], via>>
             u == Tail(s)
             S == Range(s)
  <2>1. u \in Seq(S)
    <3>1. s \in Seq(S)
      BY DEF IsSeq
    <3> HIDE DEF S, u
    <3> QED BY <1>2, <3>1, HeadTailProperties DEF u
  <2>2. IsSeq(u)
    BY <2>1, SeqListed
  <2>3. IsSeq(t)
    <3>1. t \in Seq({s[1], via})
      OBVIOUS
    <3> QED BY <3>1, SeqListed
  <2> HIDE DEF t, u
  <2>4. IsSeq(t \o u)
    BY <2>2, <2>3, ConcatIs
  <2>5. WithSfu(s, via) = s \/ WithSfu(s, via) = t \o u
    BY <1>2 DEF WithSfu, t, u
  <2> QED BY <2>4, <2>5
<1> QED BY <1>1, <1>2

(* The candidates that the scheduler considers are lists of plans.         *)
LEMMA CandidateListsListed ==
  ASSUME NEW x, Shape(x), NEW v, NEW plans \in CandidateLists(x, v)
  PROVE  IsSeq(plans) /\ Range(plans) \subseteq Plans
<1> DEFINE usable(vias) == Kept(vias, {i \in DOMAIN vias : PlanAvailable(x, v, vias[i])})
           planned(vias) == [i \in DOMAIN vias |-> PlanCandidate(x, v, vias[i])]
<1>1. PICK s \in ParentOrders(x, v) : plans = planned(usable(WithSfu(s, SfuVia(x, v))))
  BY DEF CandidateLists
<1> DEFINE t == WithSfu(s, SfuVia(x, v))
           I == {i \in DOMAIN t : PlanAvailable(x, v, t[i])}
           u == Kept(t, I)
<1>2. IsSeq(t)
  BY ParentOrdersListed, WithSfuListed
<1> HIDE DEF t
<1>3. IsSeq(u) /\ \A via \in Range(u) : PlanAvailable(x, v, via)
  <2>1. I \subseteq DOMAIN t /\ \A i \in I : PlanAvailable(x, v, t[i])
    OBVIOUS
  <2> HIDE DEF I
  <2> QED BY <1>2, <2>1, KeptIs
<1>4. plans = planned(u)
  BY <1>1 DEF t
<1> HIDE DEF u
<1>5. Len(u) \in Nat /\ plans = [k \in 1..Len(u) |-> plans[k]]
  BY <1>3, <1>4, SeqShape
<1>6. ASSUME NEW i \in DOMAIN u PROVE PlanCandidate(x, v, u[i]) \in Plans
  <2>1. CandidateValid(x, v, PlanCandidate(x, v, u[i]))
    BY <1>3, <1>6 DEF Range, PlanAvailable, PlanUsable
  <2> QED BY <2>1, ValidPlan
<1>7. Range(plans) \subseteq Plans
  <2> HIDE DEF Plans
  <2> QED BY <1>4, <1>6 DEF Range
<1> QED BY <1>5, <1>7, FunctionSeq

(* Moving the SFU to the front of a list.                                  *)
LEMMA SfuFirstListed ==
  ASSUME NEW plans, IsSeq(plans)
  PROVE  IsSeq(SfuFirst(plans)) /\ Range(SfuFirst(plans)) \subseteq Range(plans)
<1> DEFINE I == {i \in DOMAIN plans : IsSfu(plans[i])}
           J == {i \in DOMAIN plans : IsPeer(plans[i])}
<1>1. I \subseteq DOMAIN plans /\ J \subseteq DOMAIN plans
  OBVIOUS
<1>2. SfuFirst(plans) = Kept(plans, I) \o Kept(plans, J)
  BY DEF SfuFirst
<1> HIDE DEF I, J
<1>3. /\ IsSeq(Kept(plans, I)) /\ IsSeq(Kept(plans, J))
      /\ Range(Kept(plans, I)) = {plans[i] : i \in I}
      /\ Range(Kept(plans, J)) = {plans[i] : i \in J}
  BY <1>1, KeptIs
<1>4. Range(Kept(plans, I)) \cup Range(Kept(plans, J)) \subseteq Range(plans)
  BY <1>1, <1>3 DEF Range
<1> QED BY <1>2, <1>3, <1>4, ConcatIs

(* Starting an operation.                                                  *)
LEMMA StartedCalm ==
  ASSUME NEW s, NEW x, Calm(s, x), NEW v \in Viewers, NEW demand \in Whom, NEW reason, NEW plans,
         IsSeq(plans), Range(plans) \subseteq Plans
  PROVE  Calm(s, StartOperation(x, v, demand, reason, plans))
<1> DEFINE op == [NoOperation EXCEPT !.child = v, !.demand = demand,
                                     !.reason = reason, !.plans = plans]
           y == StartOperation(x, v, demand, reason, plans)
<1>1. y = [x EXCEPT !.op = op]
  BY DEF StartOperation
<1>2. /\ DOMAIN op = OpFields /\ op.child = v /\ op.plans = plans /\ op.cursor = 0
      /\ op.att = NoAttempt /\ op.based /\ op.demand = demand /\ op.clock = "early"
  BY DEF NoOperation, OpFields
<1> HIDE DEF op
<1>3. OpShape(op) /\ op.based /\ ~op.att.live /\ op.att.newest
  <2> HIDE DEF Plans
  <2> QED BY <1>2, SeqShape, NoOperationShape DEF OpShape, Whom, Clocks
<1> HIDE DEF y
<1>4. Onward(x, y) /\ Idle(y)
  BY <1>1, <1>3, IdleReworks DEF Calm, Good
<1>5. Good(y) /\ Unmoved(x, y)
  BY <1>4, OnwardGood DEF Calm, Follows
<1>6. Unmoved(s, y)
  BY <1>5 DEF Calm, Unmoved
<1> QED BY <1>4, <1>5, <1>6 DEF Calm, y

(* Oldest and Newest choose among what they are given.                     *)
LEMMA FirstChosen ==
  ASSUME NEW x, NEW S PROVE Oldest(x, S) \subseteq S /\ Newest(x, S) \subseteq S
BY DEF Oldest, Newest

(* Whom a round serves next is a viewer.                                   *)
LEMMA NextChildrenViewers ==
  ASSUME NEW x PROVE NextChildren(x) \subseteq Viewers
<1> DEFINE F == {v \in Online(x) : ~Blocked(x, v)}
<1>1. F \subseteq Viewers
  BY DEF Online
<1>2. NextChildren(x) = Claims(x, F)
  BY DEF NextChildren
<1> HIDE DEF F
<1>3. \A S : Oldest(x, S) \subseteq S /\ Newest(x, S) \subseteq S
  BY FirstChosen
<1>4. ASSUME NEW v \in Claims(x, F) PROVE v \in F
  BY <1>3 DEF Claims
<1> QED BY <1>1, <1>2, <1>4

(* A viewer that cannot be served is given up.                             *)
LEMMA UnavailableCalm ==
  ASSUME NEW s, NEW x, Calm(s, x), NEW v \in Viewers PROVE Calm(s, Unavailable(x, v))
<1> DEFINE y == GiveUp(x, v)
<1>1. Calm(s, y)
  BY GiveUpKeeps, CalmlyCalm DEF Calm, Good
<1> HIDE DEF y
<1>2. Unavailable(x, v) = RememberUncarried(y, v)
  BY DEF Unavailable, y
<1>3. Same(y, RememberUnavailable(y, v))
  BY <1>1, RememberUnavailableSame DEF Calm, Good, Base
<1> QED BY <1>1, <1>2, <1>3, SameCalm DEF RememberUncarried

(* A round hands its controller on.                                        *)
LEMMA GoingDone ==
  ASSUME NEW x PROVE Going(x).c = x /\ Done(x).c = x
BY DEF Going, Done

(* Starting, or failing to start, a route.                                 *)
LEMMA StartRouteCalm ==
  ASSUME NEW s, NEW x, Calm(s, x), NEW v \in Viewers, NEW r \in StartRoute(x, v) PROVE Calm(s, r.c)
<1>1. PICK plans \in CandidateLists(x, v) :
        r = IF plans = <<>> THEN Going(Unavailable(x, v))
            ELSE Done(StartOperation(x, v, v, "availability",
                        IF v \in x.sfuFirst THEN SfuFirst(plans) ELSE plans))
  BY DEF StartRoute
<1> DEFINE l == IF v \in x.sfuFirst THEN SfuFirst(plans) ELSE plans
<1>2. IsSeq(l) /\ Range(l) \subseteq Plans
  <2> HIDE DEF Plans
  <2> QED BY CandidateListsListed, SfuFirstListed DEF Calm, Good, Base
<1> HIDE DEF l
<1>3. Calm(s, StartOperation(x, v, v, "availability", l)) /\ Calm(s, Unavailable(x, v))
  <2>1. v \in Whom
    BY DEF Whom
  <2> QED BY <1>2, <2>1, StartedCalm, UnavailableCalm
<1> QED BY <1>1, <1>3, GoingDone DEF l

(* Starting, or failing to start, a bootstrap.                             *)
LEMMA StartBootstrapCalm ==
  ASSUME NEW s, NEW x, Calm(s, x), NEW v \in Viewers, NEW r \in StartBootstrap(x, v) PROVE Calm(s, r.c)
<1> DEFINE plan == PlanCandidate(x, v, "create")
<1>1. \/ /\ r = Done(StartOperation(x, v, x.intent, "bootstrap", <<plan>>))
         /\ CandidateValid(x, v, plan)
      \/ r = Going(CompleteCarrier(x, v, NoPlan))
  BY DEF StartBootstrap, StartCarrier, PlanUsable
<1> HIDE DEF plan
<1>2. CandidateValid(x, v, plan) => Calm(s, StartOperation(x, v, x.intent, "bootstrap", <<plan>>))
  BY SinglePlan, StartedCalm DEF Calm, Good, Base, Shape
<1>3. Calm(s, CompleteCarrier(x, v, NoPlan))
  BY CompleteCarrierSame, SameCalm DEF Calm, Good, Base
<1> QED BY <1>1, <1>2, <1>3, GoingDone

(* Every way a round may end is calm.                                      *)
LEMMA ScheduleCalm ==
  ASSUME NEW s, NEW x, Calm(s, x), NEW r \in Schedule(x) PROVE Calm(s, r.c)
<1> DEFINE y == TakeCarrier(x)
<1>1. Calm(s, y)
  BY TakeCarrierSame, SameCalm DEF Calm, Good, Base
<1>2. r \in ScheduleNext(y)
  BY DEF Schedule
<1> HIDE DEF y
<1>3. ASSUME NEW v \in Newest(y, Carriers(y)) PROVE v \in Viewers
  BY <1>3, FirstChosen DEF Carriers, Children
<1>4. ASSUME NEW pick \in Continuations(y) PROVE pick[1] \in Viewers
  BY <1>4 DEF Continuations
<1>5. CASE \E v \in Newest(y, Carriers(y)) : r \in StartBootstrap(y, v)
  BY <1>1, <1>3, <1>5, StartBootstrapCalm
<1>6. CASE \E v \in NextChildren(y) : r \in StartRoute(y, v)
  BY <1>1, <1>6, NextChildrenViewers, StartRouteCalm
<1>7. CASE \E pick \in Continuations(y) :
             r = Done(StartOperation(y, pick[1], pick[1], "direct",
                        <<PlanCandidate(y, pick[1], pick[2])>>))
  <2>1. PICK pick \in Continuations(y) :
             r = Done(StartOperation(y, pick[1], pick[1], "direct",
                        <<PlanCandidate(y, pick[1], pick[2])>>))
    BY <1>7
  <2> DEFINE l == <<PlanCandidate(y, pick[1], pick[2])>>
  <2>2. IsSeq(l) /\ Range(l) \subseteq Plans
    <3>1. CandidateValid(y, pick[1], PlanCandidate(y, pick[1], pick[2]))
      BY <2>1 DEF Continuations
    <3> QED BY <1>1, <3>1, SinglePlan DEF Calm, Good, Base
  <2> HIDE DEF l
  <2>4. pick[1] \in Viewers /\ pick[1] \in Whom
    BY <1>4, <2>1 DEF Whom
  <2>3. Calm(s, StartOperation(y, pick[1], pick[1], "direct", l))
    BY <1>1, <2>2, <2>4, StartedCalm
  <2> QED BY <2>1, <2>3, GoingDone DEF l
<1>8. CASE r = Done(y)
  BY <1>1, <1>8, GoingDone
<1>9. \/ \E v \in Newest(y, Carriers(y)) : r \in StartBootstrap(y, v)
      \/ \E v \in NextChildren(y) : r \in StartRoute(y, v)
      \/ \E pick \in Continuations(y) :
             r = Done(StartOperation(y, pick[1], pick[1], "direct",
                        <<PlanCandidate(y, pick[1], pick[2])>>))
      \/ r = Done(y)
  BY <1>2 DEF ScheduleNext
<1> QED BY <1>5, <1>6, <1>7, <1>8, <1>9

(* The loop is a recursive function: it exists up to every round, and      *)
(* every controller it reaches is calm, or there would be a first round to *)
(* fail.                                                                   *)
After(T) == UNION {IF r.done THEN {r} ELSE Schedule(r.c) : r \in T}

(* f lists the outcomes of the rounds 0 to k.                              *)
IsRounds(x, f, k) ==
  f = [n \in 0..k |-> IF n = 0 THEN {Going(x)} ELSE After(f[n-1])]

(* Rounds of every length exist.                                           *)
LEMMA RoundsExist ==
  ASSUME NEW x PROVE \A k \in Nat : \E f : IsRounds(x, f, k)
<1> DEFINE T == {k \in Nat : ~ \E f : IsRounds(x, f, k)}
<1>1. SUFFICES ASSUME T # {} PROVE FALSE
  OBVIOUS
<1>2. T \in SUBSET Nat
  OBVIOUS
<1> DEFINE m == Lowest(T)
<1>3. m \in T /\ \A k \in T : m <= k
  <2> HIDE DEF T
  <2> QED BY <1>1, <1>2, LowestIs
<1> HIDE DEF m
<1>4. m \in Nat /\ ~ \E f : IsRounds(x, f, m)
  BY <1>3
<1>5. m # 0
  <2> DEFINE f == [n \in 0..0 |-> {Going(x)}]
  <2>1. f = [n \in 0..0 |-> IF n = 0 THEN {Going(x)} ELSE After(f[n-1])]
    <3>1. \A n \in 0..0 : n = 0
      OBVIOUS
    <3> QED BY <3>1
  <2>2. IsRounds(x, f, 0)
    BY <2>1 DEF IsRounds
  <2> QED BY <1>4, <2>2
<1>6. m - 1 \in Nat /\ m - 1 \notin T
  BY <1>3, <1>4, <1>5
<1>7. PICK f : IsRounds(x, f, m - 1)
  BY <1>6
<1> HIDE DEF T
<1> DEFINE g == [n \in 0..m |-> IF n = 0 THEN {Going(x)} ELSE After(f[n-1])]
<1>8. f = [n \in 0..m - 1 |-> IF n = 0 THEN {Going(x)} ELSE After(f[n-1])]
  BY <1>7 DEF IsRounds
<1>9. \A n \in 0..m - 1 : g[n] = f[n]
  <2>1. ASSUME NEW n \in 0..m - 1 PROVE g[n] = f[n]
    <3>1. n \in 0..m
      BY <1>4, <2>1
    <3>2. g[n] = IF n = 0 THEN {Going(x)} ELSE After(f[n-1])
      BY <3>1
    <3>3. f[n] = IF n = 0 THEN {Going(x)} ELSE After(f[n-1])
      BY <1>8, <2>1
    <3> HIDE DEF g
    <3> QED BY <3>2, <3>3
  <2> QED BY <2>1
<1>10. ASSUME NEW n \in 0..m PROVE g[n] = IF n = 0 THEN {Going(x)} ELSE After(g[n-1])
  <2>1. n # 0 => n - 1 \in 0..m - 1
    BY <1>4, <1>10
  <2>2. g[n] = IF n = 0 THEN {Going(x)} ELSE After(f[n-1])
    BY <1>10
  <2> HIDE DEF g
  <2> QED BY <1>9, <2>1, <2>2
<1>11. IsRounds(x, g, m)
  <2>1. g = [n \in 0..m |-> g[n]]
    OBVIOUS
  <2> HIDE DEF g
  <2> QED BY <1>10, <2>1 DEF IsRounds
<1> QED BY <1>4, <1>11

(* Every controller that a round reaches is calm.                          *)
LEMMA RoundsCalm ==
  ASSUME NEW s, NEW x, Calm(s, x), NEW k \in Nat, NEW f, IsRounds(x, f, k)
  PROVE  \A n \in 0..k : \A r \in f[n] : Calm(s, r.c)
<1> DEFINE T == {n \in 0..k : ~ \A r \in f[n] : Calm(s, r.c)}
<1>1. SUFFICES ASSUME T # {} PROVE FALSE
  OBVIOUS
<1>2. T \in SUBSET Nat
  OBVIOUS
<1> DEFINE m == Lowest(T)
<1>3. m \in T /\ \A n \in T : m <= n
  <2> HIDE DEF T
  <2> QED BY <1>1, <1>2, LowestIs
<1> HIDE DEF m
<1>4. PICK r \in f[m] : ~Calm(s, r.c)
  BY <1>3
<1>5. m \in 0..k
  BY <1>3
<1>6. f[m] = IF m = 0 THEN {Going(x)} ELSE After(f[m-1])
  BY <1>5 DEF IsRounds
<1>7. m # 0
  BY <1>4, <1>6, GoingDone
<1>8. m - 1 \in 0..k /\ m - 1 \notin T
  BY <1>3, <1>5, <1>7
<1>9. \A q \in f[m-1] : Calm(s, q.c)
  BY <1>8
<1>10. PICK q \in f[m-1] : r \in IF q.done THEN {q} ELSE Schedule(q.c)
  BY <1>4, <1>6, <1>7 DEF After
<1> QED BY <1>4, <1>9, <1>10, ScheduleCalm

(* So are those that scheduling ends with.                                 *)
LEMMA ScheduledCalm ==
  ASSUME NEW s, NEW x, Calm(s, x), NEW y \in Scheduled(x) PROVE Calm(s, y)
<1> DEFINE K == Cardinality(Viewers) + 1
           F == CHOOSE f : IsRounds(x, f, K)
<1>1. K \in Nat
  BY RouteAssumption, FS_CardinalityType
<1>2. Scheduled(x) = {r.c : r \in F[K]}
  BY DEF Scheduled, IsRounds, After
<1> HIDE DEF K
<1>3. IsRounds(x, F, K)
  BY <1>1, RoundsExist
<1> HIDE DEF F
<1>4. \A r \in F[K] : Calm(s, r.c)
  BY <1>1, <1>3, RoundsCalm
<1> QED BY <1>2, <1>4

(* Departed viewers with nobody that stays below them are cut off together *)
(* with everybody below them.                                              *)
LEMMA DepartedClosed ==
  ASSUME NEW x, Rooted(x), NEW G, G = {v \in x.departed : Descendants(x, v) \subseteq x.departed}
  PROVE  /\ G \subseteq Viewers /\ G \cap x.online = {}
         /\ \A v \in G : Children(x, v) \subseteq G
<1>1. G \subseteq Viewers /\ G \cap x.online = {}
  BY DEF Rooted
<1>2. ASSUME NEW v \in G, NEW u \in Children(x, v) PROVE u \in G
  <2>1. /\ u \in Descendants(x, v) /\ Children(x, u) \subseteq Descendants(x, v)
        /\ \A q \in Descendants(x, v) : Children(x, q) \subseteq Descendants(x, v)
    BY <1>2, DescendantsClosed
  <2>2. Descendants(x, u) \subseteq Descendants(x, v)
    BY <2>1, DescendantsLeast
  <2> QED BY <2>1, <2>2
<1> QED BY <1>1, <1>2

(* Viewers without an edge may leave the room.                             *)
LEMMA LeftRooted ==
  ASSUME NEW x, NEW y, NEW G, Rooted(x), y.edge = x.edge, y.online = x.online,
         \A v \in G : x.edge[v] = NoEdge, G \subseteq Viewers, G \cap x.online = {},
         y.departed = x.departed \ G,
         y.order = Kept(x.order, {i \in DOMAIN x.order : x.order[i] \notin G})
  PROVE  Rooted(y)
<1> DEFINE I == {i \in DOMAIN x.order : x.order[i] \notin G}
<1>1. I \subseteq DOMAIN x.order /\ {x.order[i] : i \in I} = Range(x.order) \ G
  BY DEF Range
<1>2. y.order = Kept(x.order, I)
  OBVIOUS
<1> HIDE DEF I
<1>3. IsSeq(y.order) /\ Participants(y) = Participants(x) \ G
  BY <1>1, <1>2, KeptIs DEF Rooted, Participants
<1>4. PICK rank : Ranks(x, rank)
  BY DEF Rooted
<1>5. Ranks(y, rank)
  BY <1>4 DEF Ranks
<1>6. Linked(y)
  BY <1>3, NoEdgeShape DEF Rooted, Linked
<1>7. Host \notin G
  BY RouteAssumption
<1> QED BY <1>3, <1>5, <1>6, <1>7 DEF Rooted

(* Pruning departed leaves releases nothing, for nobody feeds them.        *)
LEMMA TidiedGood ==
  ASSUME NEW x, Good(x), Gone(x) PROVE Follows(x, Tidied(x))
<1> DEFINE gone == {v \in x.departed : Descendants(x, v) \subseteq x.departed}
           left == Kept(x.order, {i \in DOMAIN x.order : x.order[i] \notin gone})
           edges == [v \in Viewers |-> IF v \in gone THEN NoEdge ELSE x.edge[v]]
           w == [x EXCEPT !.edge = edges]
           y == [x EXCEPT
                !.order = left,
                !.departed = @ \ gone,
                !.edge = edges,
                !.cont = [v \in Viewers |-> IF v \in gone THEN {} ELSE @[v]],
                !.exhausted = @ \ gone, !.reported = @ \ gone,
                !.sfuFirst = @ \ gone,
                !.intent = IF @ \in gone THEN "none" ELSE @]
           d == DropUnusedPublication(y)
<1>0. Follows(x, x)
  BY OnwardReflexive, OnwardGood DEF Good
<1>1. CASE HasOp(x)
  BY <1>0, <1>1 DEF Tidied
<1>2. CASE ~HasOp(x)
  <2>1. PruneDepartedLeaves(x) = x \/ PruneDepartedLeaves(x) = PruneAnchors(d)
    BY DEF PruneDepartedLeaves
  <2>2. \A v \in gone : v \in x.departed
    OBVIOUS
  <2>13. /\ gone \subseteq Viewers /\ gone \cap x.online = {}
         /\ \A v \in gone : Children(x, v) \subseteq gone
    <3> DEFINE G == gone
    <3>1. G = {v \in x.departed : Descendants(x, v) \subseteq x.departed}
      OBVIOUS
    <3> HIDE DEF G
    <3>3. Rooted(x)
      BY DEF Good, Base
    <3>2. G \subseteq Viewers /\ G \cap x.online = {} /\ \A v \in G : Children(x, v) \subseteq G
      BY <3>1, <3>3, DepartedClosed
    <3> QED BY <3>1, <3>2
  <2> HIDE DEF gone
  <2>14. left = Kept(x.order, {i \in DOMAIN x.order : x.order[i] \notin gone})
    OBVIOUS
  <2> HIDE DEF left
  <2>3. \A v \in Viewers : edges[v] = IF v \in gone THEN NoEdge ELSE x.edge[v]
    OBVIOUS
  <2>4. DOMAIN edges = Viewers
    OBVIOUS
  <2> HIDE DEF edges
  <2>5. /\ DOMAIN w = Fields /\ w.edge = edges /\ w.online = x.online /\ w.cap = x.cap
        /\ w.departed = x.departed /\ w.pub = x.pub /\ w.op = x.op
        /\ w.order = x.order /\ w.retiring = x.retiring /\ w.intent = x.intent
        /\ w.subs = x.subs /\ w.pubs = x.pubs
    BY DEF Good, Base, Shape, Fields
  <2>6. /\ DOMAIN y = Fields /\ y.edge = edges /\ y.online = x.online /\ y.cap = x.cap
        /\ y.pub = x.pub /\ y.op = x.op /\ y.subs = x.subs /\ y.pubs = x.pubs
        /\ y.order = left /\ y.departed = x.departed \ gone /\ y.retiring = x.retiring
        /\ y.intent = IF x.intent \in gone THEN "none" ELSE x.intent
    BY DEF Good, Base, Shape, Fields
  <2> HIDE DEF w, y
  <2>7. Subscribers(w) = Subscribers(x)
    <3>1. ASSUME NEW v \in Viewers PROVE v \in Subscribers(w) <=> v \in Subscribers(x)
      <4>1. CASE v \in gone
        BY <2>2, <2>3, <2>5, <4>1, SubscribersOf, NoEdgeShape DEF Gone
      <4>2. CASE v \notin gone
        <5>1. w.edge[v] = x.edge[v]
          BY <2>3, <2>5, <4>2
        <5> QED BY <5>1, SubscribersOf
      <4> QED BY <4>1, <4>2
    <3> QED BY <3>1 DEF Subscribers, OnSfu
  <2>15. Rooted(w)
    <3>1. \A v \in Viewers \ gone : w.edge[v] = x.edge[v]
      BY <2>3, <2>5
    <3>2. \A v \in gone : w.edge[v] = NoEdge
      BY <2>3, <2>5, <2>13
    <3> QED BY <2>5, <2>13, <3>1, <3>2, TrimmedRooted DEF Good, Base
  <2>8. Leaves(x, w, {})
    BY <2>3, <2>4, <2>5, <2>7, <2>15, NoEdgeShape, SubscribersOf DEF Leaves, Good, Base, Shape, Unmoved
  <2>9. Base(w) /\ Watched(w) /\ Budgeted(w)
    BY <2>5, <2>7, <2>8, LeavesKeeps, SparedBudget DEF Good, Watched, Shrinks, Unmoved
  <2>10. Base(y) /\ Watched(y) /\ Budgeted(y)
    <3>1. Around(w, y)
      BY <2>5, <2>6, <2>9 DEF Around, Base, Shape, Whom
    <3>2. \A v \in gone : w.edge[v] = NoEdge
      BY <2>3, <2>5, <2>13
    <3>3. Rooted(y)
      BY <2>5, <2>6, <2>13, <2>14, <2>15, <3>2, LeftRooted
    <3> QED BY <2>9, <3>1, <3>3, AroundBase
  <2>11. Base(d) /\ Watched(d) /\ Budgeted(d) /\ d.edge = y.edge
    BY <2>10, DropUnusedKeeps, SparedBudget DEF Shrinks
  <2>16. Unmoved(x, d)
    BY <2>3, <2>6, <2>11, NoEdgeShape DEF Unmoved
  <2> HIDE DEF d
  <2>12. Good(PruneAnchors(d)) /\ Unmoved(d, PruneAnchors(d))
    BY <2>11, PruneAnchorsKeeps, SparedBudget DEF Good, Onward, Shrinks
  <2>17. Unmoved(x, PruneAnchors(d))
    BY <2>12, <2>16 DEF Unmoved
  <2> QED BY <1>0, <1>2, <2>1, <2>12, <2>17 DEF Tidied, Follows
<1> QED BY <1>1, <1>2

(* A reconciliation keeps the invariant and moves nobody.                  *)
LEMMA ReconciledGood ==
  ASSUME NEW x, Good(x), NEW z \in Reconciled(x) PROVE Follows(x, z)
<1> DEFINE a == RetireDepartedEdges(x)
           b == Validate(a, FALSE)
           s == SettleIntent(b)
           f == Foreground(b)
           t == Tidied(f)
           r == RestoreContinuations(t)
<1>1. Onward(x, a) /\ Gone(a) /\ Good(a) /\ Follows(x, a)
  BY RetireDepartedKeeps, OnwardGood
<1> HIDE DEF a
<1>2. Onward(a, b) /\ Good(b) /\ Gone(b) /\ Follows(a, b)
  BY <1>1, ValidateKeeps, OnwardGood, ShrinksGone DEF Good, Onward
<1> HIDE DEF b
<1>3. Onward(b, s)
  BY <1>2, SettleIntentSame, SameKeeps DEF Good, Base
<1>4. f = b \/ f = s \/ f = AbortOperation(s)
  BY DEF Foreground, Yield
<1> HIDE DEF s, f
<1>5. Onward(s, AbortOperation(s))
  BY <1>3, AbortedIs DEF Onward
<1>6. Good(f) /\ Gone(f) /\ Follows(b, f)
  <2>1. Onward(b, f)
    BY <1>2, <1>3, <1>4, <1>5, OnwardTransitive, OnwardReflexive DEF Good
  <2> QED BY <1>2, <2>1, OnwardGood, ShrinksGone DEF Onward
<1>7. Good(t) /\ Follows(x, t)
  <2>1. Follows(f, t)
    BY <1>6, TidiedGood
  <2> QED BY <1>1, <1>2, <1>6, <2>1, FollowsTransitive DEF Follows
<1>8. z \in Resumed(t)
  BY DEF Reconciled, t, f, s, b, a
<1> HIDE DEF t
<1>9. Same(t, r)
  <2> DEFINE conts == [v \in Viewers |->
               IF OpenContinuation(t, v)
               THEN t.cont[v] \cup {p \in AvailableVias(t, v) \cap Peers :
                                      PlanCandidate(t, v, p).rank # Gap}
               ELSE {}]
  <2>1. r = [t EXCEPT !.cont = conts]
    BY DEF RestoreContinuations
  <2> HIDE DEF conts, r
  <2> QED BY <1>7, <2>1 DEF Same, Good, Base, Shape, Fields
<1> HIDE DEF r
<1>10. CASE t.paused \/ HasOp(t)
  BY <1>7, <1>8, <1>10 DEF Resumed
<1>11. CASE ~(t.paused \/ HasOp(t))
  <2>1. Calm(x, t)
    BY <1>7, <1>11, IdleWithoutOperation DEF Calm, Good, Follows
  <2>2. Calm(x, r)
    BY <1>9, <2>1, SameCalm
  <2>3. z \in Scheduled(r)
    BY <1>8, <1>11 DEF Resumed, r
  <2> QED BY <2>2, <2>3, ScheduledCalm DEF Calm, Follows
<1> QED BY <1>10, <1>11

(* Time passing.                                                           *)
LEMMA TimeKeeps ==
  ASSUME Good(c), TimePasses PROVE Follows(c, c')
<1> DEFINE clock == IF c.op.clock = "early" THEN "late" ELSE "overdue"
           y == [c EXCEPT !.op.clock = clock]
           z == [c EXCEPT !.op.att.stalled = TRUE]
<1>1. c' = y \/ c' = z
  BY DEF TimePasses
<1>5. clock \in Clocks
  BY DEF Clocks
<1> HIDE DEF clock
<1>2. c.op.att.live => Planned(c)
  BY DEF Good, Base, AttemptOwn
<1>3. ASSUME NEW w, w = y \/ w = z
      PROVE  Reworks(c, w)
  <2>1. /\ DOMAIN w = Fields /\ w.online = c.online /\ w.cap = c.cap
        /\ w.departed = c.departed
        /\ w.order = c.order /\ w.retiring = c.retiring /\ w.intent = c.intent
        /\ w.edge = c.edge /\ w.pub = c.pub /\ w.subs = c.subs /\ w.pubs = c.pubs
        /\ w.op.demand = c.op.demand /\ w.op.clock \in {c.op.clock, clock}
        /\ DOMAIN w.op = OpFields /\ DOMAIN w.op.att = AttemptFields
        /\ w.op.plans = c.op.plans /\ w.op.cursor = c.op.cursor /\ w.op.child = c.op.child
        /\ w.op.based = c.op.based /\ w.op.att.live = c.op.att.live
        /\ w.op.att.newest = c.op.att.newest /\ w.op.att.gen = c.op.att.gen
        /\ w.op.att.sub = c.op.att.sub
    <3>1. CASE w = y
      BY <3>1 DEF Good, Base, Shape, OpShape, Fields, OpFields, AttemptFields
    <3>2. CASE w = z
      BY <3>2 DEF Good, Base, Shape, OpShape, Fields, OpFields, AttemptFields
    <3> QED BY <1>3, <3>1, <3>2
  <2> HIDE DEF y, z
  <2>2. OpShape(w.op)
    BY <1>5, <2>1 DEF Good, Base, Shape, OpShape
  <2> QED BY <1>2, <2>1, <2>2 DEF Reworks, Good, Base, Shape, Planned
<1> HIDE DEF y, z
<1>4. Reworks(c, c')
  BY <1>1, <1>3
<1> QED BY <1>4, ReworksKeeps, OnwardGood DEF Good

(* Every step of the controller keeps the invariant, and only an answer to *)
(* a live attempt moves anybody.                                           *)
LEMMA OperateKeeps ==
  ASSUME Good(c), Operate PROVE Good(c') /\ (~CandidateReady => Follows(c, c'))
<1>0. \A y : Follows(c, y) => Good(y)
  BY DEF Follows
<1>1. CASE Reconcile
  BY <1>0, <1>1, ReconciledGood DEF Reconcile
<1>2. CASE BeginCurrentCandidate
  BY <1>2, BegunKeeps DEF BeginCurrentCandidate
<1>3. CASE RetireCurrentCandidateProducer
  <2>1. Good(Retired(c)) /\ Follows(c, Retired(c)) /\ Idle(Retired(c))
    BY <1>3, RetiredKeeps DEF RetireCurrentCandidateProducer
  <2>2. Follows(Retired(c), c')
    BY <1>3, <2>1, BeginRetiredKeeps DEF RetireCurrentCandidateProducer
  <2> QED BY <1>0, <2>1, <2>2, FollowsTransitive
<1>4. CASE SkipCurrentCandidate
  <2> DEFINE y == [c EXCEPT !.op.cursor = @ + 1]
  <2>1. Idle(c) /\ Planned(c)
    BY <1>4 DEF SkipCurrentCandidate, Waiting, Idle
  <2>2. Follows(c, y)
    BY <2>1, SkipKeeps
  <2>3. c' = Validate(y, FALSE)
    BY <1>4 DEF SkipCurrentCandidate
  <2> HIDE DEF y
  <2>4. Follows(y, c')
    BY <1>0, <2>2, <2>3, ValidateKeeps, OnwardGood DEF Good
  <2> QED BY <1>0, <2>2, <2>4, FollowsTransitive
<1>5. CASE CandidateReady
  BY <1>5, CandidateReadyKeeps DEF CandidateReady
<1> DEFINE w == Validate(c, FALSE)
<1>11. Good(w) /\ Follows(c, w)
  BY ValidateKeeps, OnwardGood DEF Good
<1>6. CASE CommitRefused
  <2>1. Follows(w, c')
    BY <1>6, <1>11, FailLiveKeeps DEF CommitRefused
  <2> QED BY <1>0, <1>11, <2>1, FollowsTransitive
<1>7. CASE CandidateFailed
  BY <1>0, <1>7, FailLiveKeeps DEF CandidateFailed
<1>8. CASE CandidateTransportConnected
  <2>1. Follows(w, c')
    BY <1>8, <1>11, ConnectLiveKeeps DEF CandidateTransportConnected
  <2> QED BY <1>0, <1>11, <2>1, FollowsTransitive
<1>9. CASE OperationExpired
  BY <1>9, <1>11 DEF OperationExpired
<1>10. CASE TimePasses
  BY <1>0, <1>10, TimeKeeps
<1> QED BY <1>1, <1>2, <1>3, <1>4, <1>5, <1>6, <1>7, <1>8, <1>9, <1>10 DEF Operate

(* An order of a finite set lists it.                                      *)
LEMMA SetToSeqsIs ==
  ASSUME NEW S, IsFiniteSet(S), NEW s \in SetToSeqs(S)
  PROVE  IsSeq(s) /\ Range(s) \subseteq S /\ S \subseteq Range(s)
<1> DEFINE n == Cardinality(S)
<1>1. n \in Nat
  BY FS_CardinalityType
<1>2. s \in [1..n -> S] /\ \A i, j \in 1..n : i # j => s[i] # s[j]
  BY DEF SetToSeqs
<1>3. s = [k \in 1..n |-> s[k]] /\ Range(s) \subseteq S
  BY <1>2 DEF Range
<1>4. IsSeq(s)
  BY <1>1, <1>3, FunctionSeq
<1>5. S \subseteq Range(s)
  <2>1. s \in Injection(1..n, S)
    <3>1. \A i, j \in 1..n : s[i] = s[j] => i = j
      BY <1>2
    <3> QED BY <1>2, <3>1 DEF Injection, IsInjective
  <2>2. Cardinality(1..n) = Cardinality(S)
    BY <1>1, FS_Interval
  <2>3. s \in Surjection(1..n, S)
    <3> HIDE DEF n
    <3> QED BY <2>1, <2>2, FS_Injection
  <2> QED BY <2>3 DEF Surjection, Range
<1> QED BY <1>3, <1>4, <1>5

(* The controller starts without edges, publication or operation.          *)
LEMMA InitGood == Init => Good(c)
<1>1. SUFFICES ASSUME Init PROVE Good(c)
  OBVIOUS
<1> DEFINE
      Start(present, order, cap) ==
        [order |-> order, online |-> present \cup {Host}, departed |-> {},
         cap |-> cap, edge |-> [v \in Viewers |-> NoEdge], pub |-> NoPublication,
         retiring |-> {}, op |-> NoOperation,
         exhausted |-> {}, reported |-> {}, sfuFirst |-> {},
         spent |-> [v \in Viewers |-> [source \in Peers \cup {"sfu"} |-> Fresh]],
         cont |-> [v \in Viewers |-> {}], intent |-> "none",
         carried |-> [v \in Viewers |-> Fresh],
         paused |-> FALSE, subs |-> {}, pubs |-> {}]
<1>2. PICK present \in SUBSET Viewers :
        \E order \in SetToSeqs(present), cap \in [Peers -> {0, EndpointCapacity}] :
          c = Start(present, order, cap)
  BY <1>1 DEF Init
<1>20. PICK order \in SetToSeqs(present), cap \in [Peers -> {0, EndpointCapacity}] :
         c = Start(present, order, cap)
  BY <1>2
<1>3. /\ DOMAIN c = Fields /\ c.online = present \cup {Host}
      /\ c.edge = [v \in Viewers |-> NoEdge] /\ c.pub = NoPublication
      /\ c.op = NoOperation /\ c.subs = {} /\ c.pubs = {} /\ c.cap = cap
      /\ c.order = order /\ c.departed = {} /\ c.retiring = {} /\ c.intent = "none"
  BY <1>20 DEF Fields
<1>30. c.cap \in [Peers -> 0..EndpointCapacity]
  BY <1>3, LimitIs
<1>4. Subscribers(c) = {} /\ Used(c) = {}
  BY <1>3, NoEdgeShape DEF Subscribers, OnSfu, Used
<1>5. DOMAIN NoPublication = {"gen", "usable"} /\ NoPublication.gen = 0
  BY DEF NoPublication
<1>6. Idle(c) /\ Shape(c) /\ Prepared(c)
  BY <1>3, <1>30, <1>5, NoEdgeShape, NoOperationShape, NamesApart
     DEF Shape, Prepared, Idle, Whom
<1>9. IsSeq(order) /\ Range(order) \subseteq Viewers /\ present \subseteq Range(order)
  BY SetToSeqsIs, RouteAssumption, FS_Subset
<1>10. Rooted(c)
  <2>1. "none" \notin Viewers
    BY RouteAssumption
  <2>2. Ranks(c, [v \in Viewers |-> 0])
    BY <1>3, <2>1, NoEdgeShape DEF Ranks
  <2>3. Linked(c)
    BY <1>3, <2>1, NoEdgeShape DEF Linked
  <2> QED BY <1>3, <1>9, <2>2, <2>3 DEF Rooted, Participants
<1>11. Anchored(c)
  BY <1>3, NoEdgeShape DEF Anchored, OnSfu
<1>7. ReservedSubscription(c) = {} /\ ReservedGeneration(c) = {}
  BY <1>6, IdleReserves DEF Idle
<1>8. Budgeted(c)
  BY <1>3, <1>5, <1>6, BareBudget
<1> QED BY <1>3, <1>4, <1>5, <1>6, <1>7, <1>8, <1>10, <1>11
        DEF Good, Base, Idle, EdgesCurrent, AttemptOwn, Balanced, Watched

-----------------------------------------------------------------------------
(* The invariant holds in every state: whatever handler runs, the tree,    *)
(* the operation and its attempt fit together, what is reserved is what is *)
(* used, and nobody sends more copies than allowed.                        *)
THEOREM ControllerInvariant == Spec => []RouteInv
<1>1. Init => RouteInv
  <2>1. Init => churn = 0
    BY DEF Init
  <2> QED BY <2>1, InitGood, ChurnAssumption DEF RouteInv
<1>2. RouteInv /\ [Next]_vars => RouteInv'
  <2> SUFFICES ASSUME RouteInv, [Next]_vars PROVE RouteInv'
    OBVIOUS
  <2>5. churn \in 0..MaxChurn => churn + 1 \in 0..MaxChurn \/ ~(churn < MaxChurn)
    BY ChurnAssumption
  <2>1. CASE Operate
    <3>1. churn' = churn
      BY <2>1 DEF Operate, Reconcile, BeginCurrentCandidate, RetireCurrentCandidateProducer,
                  SkipCurrentCandidate, CandidateReady, CommitRefused, CandidateFailed,
                  CandidateTransportConnected, OperationExpired, TimePasses
    <3> QED BY <2>1, <3>1, OperateKeeps DEF RouteInv
  <2>2. CASE Environment
    <3>1. churn < MaxChurn /\ churn' = churn + 1
      BY <2>2 DEF Environment, DisconnectSession, Reconnect, SetEffectiveCapacity, Join,
                  ConfirmDeparture, InvalidateEdge, InvalidatePublication, SetPaused,
                  TouchExternalFacts, Churn
    <3> QED BY <2>2, <2>5, <3>1, EnvironmentKeeps DEF RouteInv, Follows
  <2>3. CASE RebindHostIdentity
    <3>1. churn < MaxChurn /\ churn' = churn + 1
      BY <2>3 DEF RebindHostIdentity, Churn
    <3> QED BY <2>3, <2>5, <3>1, RebindKeeps DEF RouteInv, Follows
  <2>4. CASE UNCHANGED vars
    BY <2>4 DEF RouteInv, vars
  <2> QED BY <2>1, <2>2, <2>3, <2>4 DEF Next
<1> QED BY <1>1, <1>2, PTL DEF Spec

(* GraphOK: assertGraph never panics the process.  The edges are a forest  *)
(* of participants, whatever moves, leaves and departures happened while   *)
(* candidates were being prepared; an active SFU edge belongs to the       *)
(* serving publication, and the generations kept for relays are exactly    *)
(* those of the edges that were retired.                                   *)
THEOREM ControllerGraph == Spec => []GraphOK
<1>1. RouteInv => GraphOK
  <2> SUFFICES ASSUME RouteInv PROVE GraphOK
    OBVIOUS
  <2>1. /\ Shape(c) /\ Rooted(c) /\ EdgesCurrent(c) /\ AttemptOwn(c) /\ Anchored(c)
        /\ churn \in 0..MaxChurn
    BY DEF RouteInv, Good, Base
  <2>2. TypeOK
    <3>1. \A v \in Viewers : c.edge[v].parent \in (Peers \ {v}) \cup {"sfu", "none"}
      BY <2>1 DEF Rooted, Linked
    <3>2. /\ Participants(c) \subseteq Viewers /\ c.online \subseteq Participants(c) \cup {Host}
          /\ c.departed \subseteq Participants(c) \ c.online
      BY <2>1 DEF Rooted
    <3> HIDE DEF Plans
    <3>3. /\ c.cap \in [Peers -> 0..EndpointCapacity]
          /\ c.op.child \in Viewers \cup {"none"} /\ c.op.demand \in Viewers \cup {"none"}
          /\ Range(c.op.plans) \subseteq Plans /\ c.op.cursor \in 0..Len(c.op.plans)
          /\ c.op.clock \in Clocks
      BY <2>1 DEF Shape, OpShape, Whom
    <3> QED BY <2>1, <3>1, <3>2, <3>3 DEF TypeOK, AttemptOwn
  <2>3. PICK rank : Ranks(c, rank)
    BY <2>1 DEF Rooted
  <2>4. ASSUME NEW v \in Viewers, c.edge[v] # NoEdge
        PROVE  /\ v \in Participants(c) /\ v \notin Descendants(c, v)
               /\ c.edge[v].parent \in Viewers =>
                    /\ c.edge[v].parent \in Participants(c)
                    /\ c.edge[c.edge[v].parent] # NoEdge
    <3>1. v \notin Descendants(c, v)
      BY <2>3, RankedAcyclic
    <3> QED BY <2>1, <2>4, <3>1, NoEdgeShape DEF Rooted, Linked
  <2>5. ASSUME NEW v \in OnSfu(c)
        PROVE  IF c.edge[v].active THEN c.pub.gen = c.edge[v].gen
               ELSE c.edge[v].gen \in c.retiring
    BY <2>1 DEF EdgesCurrent, Anchored, Subscribers
  <2>6. \A g \in c.retiring : \E v \in OnSfu(c) : ~c.edge[v].active /\ c.edge[v].gen = g
    BY <2>1 DEF Anchored
  <2> QED BY <2>2, <2>4, <2>5, <2>6 DEF GraphOK
<1> QED BY <1>1, ControllerInvariant, PTL

(* ResourcesBalance: every reservation the controller made in the SFU      *)
(* ledger and has not released is used by its tree or by its live attempt, *)
(* the tree uses nothing it has not reserved, and a publication that       *)
(* nobody subscribes to is not kept.  A missed release would exhaust the   *)
(* ledger, a second one would panic.                                       *)
THEOREM ControllerBalances == Spec => []ResourcesBalance
<1>1. RouteInv => ResourcesBalance
  BY DEF RouteInv, Good, Base, Balanced, Watched, Used, ResourcesBalance
<1> QED BY <1>1, ControllerInvariant, PTL

(* PreparedIsNewest: no revision is broadcast over a live attempt without  *)
(* the attempt being renewed or released, so a child never discards the    *)
(* transition it is asked for as outdated, and a waiting operation is      *)
(* based on the current revision.                                          *)
THEOREM ControllerPrepares == Spec => []PreparedIsNewest
<1>1. RouteInv => PreparedIsNewest
  BY DEF RouteInv, Good, Base, Prepared, PreparedIsNewest
<1> QED BY <1>1, ControllerInvariant, PTL

(* CopyBudget: no endpoint, the host with its publication included, sends  *)
(* more copies at a time than a transition may overlap, counting the copy  *)
(* that a live attempt has it start before the old one ends.               *)
THEOREM ControllerAffords == Spec => []CopyBudget
<1>1. RouteInv => CopyBudget
  BY DEF RouteInv, Good, Budgeted, CopyBudget, TransitionCopyLimit
<1> QED BY <1>1, ControllerInvariant, PTL

(* CommitDelivers: a viewer gets another parent or another subscription    *)
(* only when a live attempt for it is committed, and then every hop of its *)
(* new route up to the host delivers, however late the child's answer came *)
(* and whatever was lost, invalidated or retired meanwhile: the attempt is *)
(* validated against the facts in the same hold of the mutex, and nothing  *)
(* the commit itself gives up is on the new route.                         *)
THEOREM ControllerDelivers == Spec => CommitDelivers
<1> DEFINE Moved(v) ==
      <<c'.edge[v].parent, c'.edge[v].sub>> # <<c.edge[v].parent, c.edge[v].sub>>
      /\ c'.edge[v] # NoEdge
<1>1. RouteInv /\ RouteInv' /\ [Next]_vars =>
        [\A v \in Viewers : Moved(v) => UsableRoute(c', v)]_vars
  <2> SUFFICES ASSUME RouteInv, RouteInv', Next, NEW v \in Viewers, Moved(v)
               PROVE  UsableRoute(c', v)
    BY DEF vars
  <2>1. Good(c) /\ c'.edge[v].parent # "none"
    BY DEF RouteInv, Good, Base, Rooted, Linked
  <2>2. ~Follows(c, c')
    BY <2>1 DEF Follows, Unmoved
  <2>3. ~Environment /\ ~RebindHostIdentity
    BY <2>1, <2>2, EnvironmentKeeps, RebindKeeps
  <2>4. CandidateReady
    BY <2>1, <2>2, <2>3, OperateKeeps DEF Next
  <2>5. Commits(c, c') /\ UsableRoute(c', c.op.child)
    BY <2>1, <2>2, <2>4, CandidateReadyKeeps DEF CandidateReady
  <2>6. v = c.op.child
    BY <2>1, <2>5 DEF Commits
  <2> QED BY <2>5, <2>6
<1> QED BY <1>1, ControllerInvariant, PTL DEF Spec, CommitDelivers

=============================================================================
