------------------------- MODULE HostPublicationProofs -------------------------
(***************************************************************************)
(* Proofs about HostSfuRoute: for every number of revisions, publications, *)
(* publishers and faults, no publisher of a Host is open without something *)
(* that owns or closes it, and no step of the page lets go of the          *)
(* publication that the committed route names.                             *)
(*                                                                         *)
(* A handler is a composition of operations on the page's record, so the   *)
(* proof goes by operation: each keeps the invariant and lets the          *)
(* committed publication survive.  Within a handler a slot may be without  *)
(* an owner for a moment, which is why Held sets slots aside.              *)
(***************************************************************************)
EXTENDS HostPublication, SequenceTheorems, TLAPS

(* The fields of the page's record, of a slot, of a waiting transition and *)
(* of the route.                                                           *)
HostFields == {"route", "pending", "active", "slots", "open", "next", "queue", "run",
               "recovery", "paused", "resyncing", "rgen", "closed", "link", "sent"}
SlotFields == {"rev", "tok", "pub", "at", "connected", "active", "failed"}
ItemFields == {"k", "slot", "tok", "rev", "retire"}
RouteFields == {"rev", "phase", "pub", "cand", "apub", "atok", "arev", "gen"}

(* A queue, of whatever its entries are.                                   *)
Listed(q) == q \in Seq({q[k] : k \in DOMAIN q})

(* What kind of record the page is, as far as the proof needs it.          *)
Shape(h) ==
  /\ DOMAIN h = HostFields /\ DOMAIN h.slots = Slots /\ DOMAIN h.route = RouteFields
  /\ \A i \in Slots : DOMAIN h.slots[i] = SlotFields
  /\ h.pending \in 0..MaxSlots /\ h.active \in 0..MaxSlots
  /\ h.open \subseteq Slots /\ h.next \in 1..(MaxSlots + 1)

(* Slots are used in order; a used slot has a publication, and one that    *)
(* sends was prepared.                                                     *)
Slotted(h) ==
  \A i \in Slots :
    /\ i >= h.next => h.slots[i].at = "none"
    /\ h.slots[i].at # "none" => h.slots[i].pub # 0
    /\ h.slots[i].active => h.slots[i].at = "done"

(* The pending and the active slot are different slots that have not       *)
(* failed; the active one is open, and so is a pending one that sends      *)
(* already.  A page that is closed has neither.                            *)
Placed(h) ==
  /\ h.pending # 0 => /\ h.slots[h.pending].at # "none" /\ ~h.slots[h.pending].failed
                      /\ h.slots[h.pending].active => h.pending \in h.open
                      /\ h.pending # h.active
  /\ h.active # 0 => /\ h.slots[h.active].at = "done" /\ ~h.slots[h.active].failed
                     /\ h.active \in h.open
  /\ h.closed => h.pending = 0 /\ h.active = 0

(* A preparation in line is that of a slot which waits for it, and what is *)
(* to be closed is neither pending nor active.                             *)
ItemOK(h, t) ==
  /\ DOMAIN t = ItemFields
  /\ t.k = "prepare" => t.slot \in Slots /\ h.slots[t.slot].at = "queue"
  /\ t.k = "close" => /\ t.slot \in Slots /\ h.slots[t.slot].at # "none"
                      /\ t.slot \notin {h.pending, h.active}

(* What waits and what runs fits the slots, and no slot waits for two      *)
(* preparations.                                                           *)
Lined(h) ==
  /\ Listed(h.queue)
  /\ \A k \in DOMAIN h.queue : ItemOK(h, h.queue[k])
  /\ \A j, k \in DOMAIN h.queue :
       j # k /\ h.queue[j].k = "prepare" /\ h.queue[k].k = "prepare"
         => h.queue[j].slot # h.queue[k].slot
  /\ DOMAIN h.run = ItemFields
  /\ h.run.k = "prepare" => h.run.slot \in Slots /\ h.slots[h.run.slot].at = "prepare"

(* Everything the invariant says but who is open.                          *)
Rest(h) == Shape(h) /\ Slotted(h) /\ Placed(h) /\ Lined(h)

(* The slots that a waiting transition closes.                             *)
ToClose(h) == {h.queue[k].slot : k \in {j \in DOMAIN h.queue : h.queue[j].k = "close"}}
(* The slots that lost their place while they connect or wait: the         *)
(* operation that waits closes them when it ends.                          *)
Waits(h) == {i \in Slots : h.slots[i].at \in {"connect", "queue", "prepare"}
                             /\ h.pending # i}

(* Every open publisher but those set aside is active, pending, or closed  *)
(* by an operation that waits.  A handler sets aside the slot it is        *)
(* working on.                                                             *)
Held(h, but) == h.open \ but \subseteq {h.active, h.pending} \cup Waits(h) \cup ToClose(h)

(* The route stays as it is and so does the publication in use.            *)
Kept(h, g) ==
  /\ g.route = h.route /\ g.resyncing = h.resyncing
  /\ h.active # 0 => /\ g.active = h.active
                     /\ g.slots[h.active].pub = h.slots[h.active].pub

(* Nothing changes that the invariant looks at.                            *)
Same(h, g) ==
  /\ DOMAIN g = HostFields /\ DOMAIN g.route = RouteFields
  /\ g.pending = h.pending /\ g.active = h.active /\ g.slots = h.slots
  /\ g.open = h.open /\ g.next = h.next /\ g.queue = h.queue /\ g.run = h.run
  /\ g.closed = h.closed

(* The bounds are natural numbers.                                         *)
LEMMA Bounds ==
  MaxRevision \in Nat /\ MaxPubs \in Nat /\ MaxSlots \in Nat
BY HostPublicationAssumption

(* Where nothing changes that it looks at, the invariant holds on.         *)
LEMMA SameKeeps ==
  ASSUME NEW h, NEW g, Same(h, g), Rest(h) PROVE Rest(g)
<1>1. Shape(g) /\ Slotted(g) /\ Placed(g)
  BY DEF Same, Rest, Shape, Slotted, Placed
<1>2. Lined(g)
  BY DEF Same, Rest, Lined, ItemOK
<1> QED BY <1>1, <1>2 DEF Rest

(* The same of who is open.                                                *)
LEMMA SameHeld ==
  ASSUME NEW h, NEW g, Same(h, g), NEW but, Held(h, but) PROVE Held(g, but)
BY DEF Same, Held, Waits, ToClose

(* Reports to the server change nothing of the publishers.                 *)
LEMMA ReportSame ==
  ASSUME NEW h, NEW t, NEW rev, NEW conn, Shape(h)
  PROVE  Same(h, Report(h, t, rev, conn)) /\ Kept(h, Report(h, t, rev, conn))
BY DEF Same, Shape, Report, HostFields, Kept

(* Neither does asking for the connection again.                           *)
LEMMA RequestRecoverySame ==
  ASSUME NEW h, NEW rev, NEW conn, Shape(h)
  PROVE  Same(h, RequestRecovery(h, rev, conn)) /\ Kept(h, RequestRecovery(h, rev, conn))
<1> DEFINE g == [h EXCEPT !.recovery = [rev |-> rev, refreshed |-> TRUE]]
<1>1. Same(h, g) /\ Kept(h, g) /\ Shape(g)
  BY DEF Same, Shape, HostFields, Kept
<1> HIDE DEF g
<1>2. Same(g, Report(g, "refresh", rev, 0)) /\ Kept(g, Report(g, "refresh", rev, 0))
  BY <1>1, ReportSame
<1>3. \/ RequestRecovery(h, rev, conn) = Report(h, "failed", rev, conn)
      \/ RequestRecovery(h, rev, conn) = Report(g, "refresh", rev, 0)
  BY DEF RequestRecovery, g
<1> QED BY <1>1, <1>2, <1>3, ReportSame DEF Same, Kept

-----------------------------------------------------------------------------
(* A queue with an entry put at its end.                                   *)
LEMMA AppendedIs ==
  ASSUME NEW q, NEW e, Listed(q)
  PROVE  /\ Listed(Append(q, e)) /\ Len(q) \in Nat /\ DOMAIN q = 1..Len(q)
         /\ DOMAIN Append(q, e) = DOMAIN q \cup {Len(q) + 1}
         /\ \A k \in DOMAIN q : Append(q, e)[k] = q[k]
         /\ Append(q, e)[Len(q) + 1] = e
<1> DEFINE S == {q[k] : k \in DOMAIN q}
           r == Append(q, e)
<1>1. q \in Seq(S)
  BY DEF Listed
<1> HIDE DEF S
<1>2. Len(q) \in Nat /\ DOMAIN q = 1..Len(q)
  BY <1>1, LenProperties
<1>3. /\ r \in Seq(S \cup {e}) /\ Len(r) = Len(q) + 1
      /\ \A i \in 1..Len(q) : r[i] = q[i]
      /\ r[Len(q) + 1] = e
  BY <1>1, AppendProperties
<1>4. DOMAIN r = 1..Len(r)
  BY <1>3, LenProperties
<1> HIDE DEF r
<1>5. r \in Seq({r[k] : k \in DOMAIN r})
  BY <1>2, <1>3, <1>4
<1>6. Listed(r)
  BY <1>5 DEF Listed
<1> QED BY <1>2, <1>3, <1>4, <1>6 DEF r

(* A queue without its first entry.                                        *)
LEMMA TailIs ==
  ASSUME NEW q, Listed(q), q # <<>>
  PROVE  /\ Listed(Tail(q)) /\ Len(q) \in Nat \ {0} /\ DOMAIN q = 1..Len(q)
         /\ DOMAIN Tail(q) = 1..Len(q) - 1
         /\ \A k \in DOMAIN Tail(q) : k + 1 \in DOMAIN q /\ Tail(q)[k] = q[k + 1]
         /\ Head(q) = q[1] /\ 1 \in DOMAIN q
<1> DEFINE S == {q[k] : k \in DOMAIN q}
           r == Tail(q)
<1>1. q \in Seq(S)
  BY DEF Listed
<1> HIDE DEF S
<1>2. Len(q) \in Nat /\ DOMAIN q = 1..Len(q) /\ Len(q) # 0 /\ Head(q) = q[1]
  BY <1>1, LenProperties, EmptySeq, HeadTailProperties
<1>3. r \in Seq(S) /\ Len(r) = Len(q) - 1
  BY <1>1, <1>2, HeadTailProperties
<1>4. DOMAIN r = 1..Len(r) /\ \A k \in 1..Len(r) : r[k] = q[k + 1]
  BY <1>1, <1>2, <1>3, LenProperties, HeadTailProperties
<1> HIDE DEF r
<1>5. r \in Seq({r[k] : k \in DOMAIN r})
  BY <1>2, <1>3, <1>4
<1>6. Listed(r)
  BY <1>5 DEF Listed
<1> QED BY <1>2, <1>3, <1>4, <1>6 DEF r

(* What is put in line fits its slot, and a slot is prepared once; putting *)
(* the closing of a slot in line accounts for it.                          *)
LEMMA QueueKeeps ==
  ASSUME NEW h, NEW but, Rest(h), Held(h, but), NEW t, ItemOK(h, t),
         t.k = "prepare" => \A k \in DOMAIN h.queue :
                               h.queue[k].k = "prepare" => h.queue[k].slot # t.slot
  PROVE  LET g == Queue(h, t)
         IN  /\ Rest(g) /\ Held(g, but) /\ Kept(h, g)
             /\ t.k = "close" => Held(g, but \ {t.slot})
             /\ g.slots = h.slots /\ g.active = h.active /\ g.pending = h.pending
             /\ g.open = h.open /\ g.closed = h.closed /\ g.next = h.next
             /\ g.run = h.run /\ g.resyncing = h.resyncing
<1> DEFINE q == h.queue
           r == Append(q, t)
           g == Queue(h, t)
<1>1. /\ DOMAIN g = HostFields /\ g.route = h.route /\ g.pending = h.pending
      /\ g.active = h.active /\ g.slots = h.slots /\ g.open = h.open /\ g.next = h.next
      /\ g.queue = r /\ g.run = h.run /\ g.closed = h.closed /\ g.resyncing = h.resyncing
  BY DEF Queue, Rest, Shape, HostFields
<1>2. /\ Listed(r) /\ Len(q) \in Nat /\ DOMAIN q = 1..Len(q)
      /\ DOMAIN r = DOMAIN q \cup {Len(q) + 1}
      /\ \A k \in DOMAIN q : r[k] = q[k]
      /\ r[Len(q) + 1] = t
  BY AppendedIs DEF Rest, Lined
<1>3. t.k = "prepare" => \A k \in DOMAIN q : q[k].k = "prepare" => q[k].slot # t.slot
  OBVIOUS
<1> HIDE DEF g, q, r
<1>4. Shape(g) /\ Slotted(g) /\ Placed(g)
  BY <1>1 DEF Rest, Shape, Slotted, Placed
<1>5. \A k \in DOMAIN r : ItemOK(g, r[k])
  <2>1. ASSUME NEW k \in DOMAIN q PROVE ItemOK(g, r[k])
    <3>1. ItemOK(h, q[k])
      BY <2>1 DEF Rest, Lined, q
    <3> QED BY <1>1, <1>2, <3>1 DEF ItemOK
  <2>2. ItemOK(g, t)
    BY <1>1 DEF ItemOK
  <2> QED BY <1>2, <2>1, <2>2
<1>6. \A j, k \in DOMAIN r : j # k /\ r[j].k = "prepare" /\ r[k].k = "prepare"
                              => r[j].slot # r[k].slot
  <2>1. \A j, k \in DOMAIN q : j # k /\ q[j].k = "prepare" /\ q[k].k = "prepare"
                                => q[j].slot # q[k].slot
    BY DEF Rest, Lined, q
  <2> QED BY <1>2, <1>3, <2>1
<1>7. Lined(g)
  BY <1>1, <1>2, <1>5, <1>6 DEF Lined, Rest
<1>8. ToClose(h) \subseteq ToClose(g) /\ Waits(g) = Waits(h)
  BY <1>1, <1>2 DEF ToClose, Waits, q
<1>9. t.k = "close" => t.slot \in ToClose(g)
  BY <1>1, <1>2 DEF ToClose
<1>10. Held(g, but) /\ (t.k = "close" => Held(g, but \ {t.slot}))
  BY <1>1, <1>8, <1>9 DEF Held
<1>11. Kept(h, g)
  BY <1>1 DEF Kept
<1> QED BY <1>1, <1>4, <1>7, <1>10, <1>11 DEF Rest, g

(* The slots that wait are left alone.                                     *)
LEMMA LinedKeeps ==
  ASSUME NEW h, NEW g, Rest(h), g.queue = h.queue, g.run = h.run,
         \A i \in Slots : g.slots[i].at = h.slots[i].at,
         g.pending \in {0, h.pending}, g.active \in {0, h.active, h.pending}
  PROVE  Lined(g) /\ ToClose(g) = ToClose(h)
<1>1. ASSUME NEW k \in DOMAIN h.queue PROVE ItemOK(g, h.queue[k])
  <2>1. ItemOK(h, h.queue[k])
    BY <1>1 DEF Rest, Lined
  <2>2. 0 \notin Slots
    BY DEF Slots
  <2> QED BY <2>1, <2>2 DEF ItemOK
<1> QED BY <1>1 DEF Rest, Lined, ToClose

(* Clearing the pending slot closes its publisher and leaves the one in    *)
(* use.                                                                    *)
LEMMA ClearPendingKeeps ==
  ASSUME NEW h, NEW but, Rest(h), Held(h, but)
  PROVE  LET g == ClearPending(h)
         IN  /\ Rest(g) /\ Held(g, but) /\ Kept(h, g) /\ g.pending = 0
             /\ g.active = h.active /\ g.next = h.next /\ g.closed = h.closed
             /\ g.run = h.run
<1>1. CASE h.pending = 0
  BY <1>1 DEF ClearPending, Kept
<1>2. CASE h.pending # 0
  <2> DEFINE i == h.pending
             g == ClearPending(h)
  <2>1. /\ DOMAIN g = HostFields /\ g.route = h.route /\ g.pending = 0
        /\ g.active = h.active /\ g.open = h.open \ {i} /\ g.next = h.next
        /\ g.queue = h.queue /\ g.run = h.run /\ g.closed = h.closed
        /\ g.resyncing = h.resyncing
        /\ g.slots = [h.slots EXCEPT ![i].failed = TRUE]
    BY <1>2 DEF ClearPending, Drop, Rest, Shape, HostFields
  <2>2. i \in Slots
    BY <1>2 DEF Rest, Shape, Slots
  <2>3. \A j \in Slots : /\ DOMAIN g.slots[j] = SlotFields
                         /\ g.slots[j].at = h.slots[j].at /\ g.slots[j].pub = h.slots[j].pub
                         /\ g.slots[j].active = h.slots[j].active
                         /\ j # i => g.slots[j] = h.slots[j]
    BY <2>1, <2>2 DEF Rest, Shape, SlotFields
  <2>4. DOMAIN g.slots = Slots
    BY <2>1 DEF Rest, Shape
  <2> HIDE DEF g, i
  <2>5. Shape(g) /\ Slotted(g)
    <3>1. Shape(g)
      BY <2>1, <2>3, <2>4, Bounds DEF Rest, Shape
    <3>2. Slotted(g)
      BY <2>1, <2>3 DEF Rest, Slotted
    <3> QED BY <3>1, <3>2
  <2>6. h.active # 0 => h.active \in Slots /\ h.active # i
    BY <1>2 DEF Rest, Shape, Placed, Slots, i
  <2>7. Placed(g)
    BY <2>1, <2>3, <2>6 DEF Rest, Placed
  <2>8. Lined(g) /\ ToClose(g) = ToClose(h)
    BY <2>1, <2>3, LinedKeeps
  <2>9. Held(g, but)
    <3>1. ASSUME NEW j \in Waits(h) PROVE j \in Waits(g)
      BY <1>2, <2>1, <2>3, <3>1 DEF Waits, Slots
    <3> QED BY <2>1, <2>8, <3>1 DEF Held, i
  <2>10. Kept(h, g)
    BY <2>1, <2>3, <2>6 DEF Kept
  <2> QED BY <2>1, <2>5, <2>7, <2>8, <2>9, <2>10 DEF Rest, g
<1> QED BY <1>1, <1>2

(* Retiring the active slot closes its publisher and leaves the pending    *)
(* one.                                                                    *)
LEMMA RetireActiveKeeps ==
  ASSUME NEW h, NEW but, Rest(h), Held(h, but)
  PROVE  LET g == RetireActive(h)
         IN  /\ Rest(g) /\ Held(g, but) /\ g.active = 0
             /\ g.route = h.route /\ g.resyncing = h.resyncing
             /\ g.pending = h.pending /\ g.next = h.next /\ g.closed = h.closed
             /\ g.run = h.run
<1>1. CASE h.active = 0
  BY <1>1 DEF RetireActive
<1>2. CASE h.active # 0
  <2> DEFINE i == h.active
             g == RetireActive(h)
  <2>1. /\ DOMAIN g = HostFields /\ g.route = h.route /\ g.pending = h.pending
        /\ g.active = 0 /\ g.open = h.open \ {i} /\ g.next = h.next
        /\ g.queue = h.queue /\ g.run = h.run /\ g.closed = h.closed
        /\ g.resyncing = h.resyncing
        /\ g.slots = [h.slots EXCEPT ![i].failed = TRUE]
    BY <1>2 DEF RetireActive, Drop, Rest, Shape, HostFields
  <2>2. i \in Slots
    BY <1>2 DEF Rest, Shape, Slots
  <2>3. \A j \in Slots : /\ DOMAIN g.slots[j] = SlotFields
                         /\ g.slots[j].at = h.slots[j].at /\ g.slots[j].pub = h.slots[j].pub
                         /\ g.slots[j].active = h.slots[j].active
                         /\ j # i => g.slots[j] = h.slots[j]
    BY <2>1, <2>2 DEF Rest, Shape, SlotFields
  <2>4. DOMAIN g.slots = Slots
    BY <2>1 DEF Rest, Shape
  <2> HIDE DEF g, i
  <2>5. Shape(g) /\ Slotted(g)
    <3>1. Shape(g)
      BY <2>1, <2>3, <2>4, Bounds DEF Rest, Shape
    <3>2. Slotted(g)
      BY <2>1, <2>3 DEF Rest, Slotted
    <3> QED BY <3>1, <3>2
  <2>6. h.pending # 0 => h.pending \in Slots /\ h.pending # i
    BY <1>2 DEF Rest, Shape, Placed, Slots, i
  <2>7. Placed(g)
    BY <2>1, <2>3, <2>6 DEF Rest, Placed
  <2>8. Lined(g) /\ ToClose(g) = ToClose(h)
    BY <2>1, <2>3, LinedKeeps
  <2>9. Held(g, but)
    <3>1. Waits(g) = Waits(h)
      BY <2>1, <2>3 DEF Waits
    <3> QED BY <2>1, <2>8, <3>1 DEF Held, i
  <2> QED BY <2>1, <2>5, <2>7, <2>8, <2>9 DEF Rest, g
<1> QED BY <1>1, <1>2

-----------------------------------------------------------------------------
(* The loss of slot i, however it is reported: it is forgotten and closed. *)
Lost(h, i, g) ==
  /\ DOMAIN g = HostFields /\ g.route = h.route /\ g.resyncing = h.resyncing
  /\ g.open = h.open \ {i} /\ g.next = h.next /\ g.queue = h.queue /\ g.run = h.run
  /\ g.closed = h.closed /\ DOMAIN g.slots = Slots
  /\ g.pending = (IF h.pending = i THEN 0 ELSE h.pending)
  /\ g.active = (IF h.active = i THEN 0 ELSE h.active)
  /\ \A j \in Slots : /\ DOMAIN g.slots[j] = SlotFields
                      /\ g.slots[j].at = h.slots[j].at /\ g.slots[j].pub = h.slots[j].pub
                      /\ g.slots[j].active = h.slots[j].active
                      /\ j # i => g.slots[j] = h.slots[j]

(* A lost slot may have been anything: nothing of it is left open.         *)
LEMMA LostKeeps ==
  ASSUME NEW h, NEW g, NEW i \in Slots, Rest(h), Held(h, {i}), Lost(h, i, g)
  PROVE  Rest(g) /\ Held(g, {}) /\ (i # h.active => Kept(h, g))
<1>1. Shape(g)
  BY Bounds DEF Lost, Rest, Shape
<1>2. Slotted(g)
  BY DEF Lost, Rest, Slotted
<1>3. /\ h.pending # 0 => h.pending \in Slots
      /\ h.active # 0 => h.active \in Slots
  BY DEF Rest, Shape, Slots
<1>4. Placed(g)
  BY <1>3 DEF Lost, Rest, Placed
<1>5. Lined(g) /\ ToClose(g) = ToClose(h)
  BY LinedKeeps DEF Lost
<1>6. Held(g, {})
  <2>1. \A j \in Waits(h) : j \in Waits(g)
    BY DEF Waits, Lost, Slots
  <2> QED BY <1>5, <2>1 DEF Held, Lost
<1>7. i # h.active => Kept(h, g)
  BY <1>3 DEF Lost, Kept
<1> QED BY <1>1, <1>2, <1>4, <1>5, <1>6, <1>7 DEF Rest

(* handleFailure loses the slot on each of its early returns, its caller   *)
(* closing the publisher.                                                  *)
LEMMA FailureIs ==
  ASSUME NEW h, NEW i \in Slots, NEW refresh, Rest(h)
  PROVE  LET f == HandleFailure(h, i, refresh)
         IN  /\ Lost(h, i, [f EXCEPT !.open = @ \ {i}])
             /\ Lost(h, i, Drop(f, i))
<1> DEFINE f == HandleFailure(h, i, refresh)
           e == Forget(h, i)
           g == [f EXCEPT !.open = @ \ {i}]
           d == Drop(f, i)
<1>1. /\ DOMAIN f = HostFields /\ f.route = h.route /\ f.resyncing = h.resyncing
      /\ f.open = h.open /\ f.next = h.next /\ f.queue = h.queue /\ f.run = h.run
      /\ f.closed = h.closed
      /\ f.pending = (IF h.pending = i THEN 0 ELSE h.pending)
      /\ f.active = (IF h.active = i THEN 0 ELSE h.active)
      /\ f.slots = h.slots \/ f.slots = [h.slots EXCEPT ![i].failed = TRUE]
  <2>1. CASE h.closed \/ h.slots[i].failed
    <3>1. f = h
      BY <2>1 DEF HandleFailure
    <3>2. i \notin {h.pending, h.active}
      BY <2>1 DEF Rest, Placed, Slots
    <3> HIDE DEF f
    <3> QED BY <3>1, <3>2 DEF Rest, Shape
  <2>2. CASE ~(h.closed \/ h.slots[i].failed)
    <3>1. /\ DOMAIN e = HostFields /\ e.route = h.route /\ e.resyncing = h.resyncing
          /\ e.open = h.open /\ e.next = h.next /\ e.queue = h.queue /\ e.run = h.run
          /\ e.closed = h.closed
          /\ e.pending = (IF h.pending = i THEN 0 ELSE h.pending)
          /\ e.active = (IF h.active = i THEN 0 ELSE h.active)
          /\ e.slots = [h.slots EXCEPT ![i].failed = TRUE]
      BY DEF Forget, Rest, Shape, HostFields
    <3>2. \/ f = e
          \/ \E t, rev, conn : f = Report(e, t, rev, conn)
          \/ \E rev, conn : f = RequestRecovery(e, rev, conn)
      BY <2>2, Zenon DEF HandleFailure
    <3> HIDE DEF e, f
    <3>3. Shape(e)
      <4>1. DOMAIN e.slots = Slots /\ \A j \in Slots : DOMAIN e.slots[j] = SlotFields
        BY <3>1 DEF Rest, Shape, SlotFields
      <4> QED BY <3>1, <4>1, Bounds DEF Rest, Shape
    <3>4. f = e \/ (Same(e, f) /\ Kept(e, f))
      BY <3>2, <3>3, ReportSame, RequestRecoverySame
    <3> QED BY <3>1, <3>4 DEF Same, Kept
  <2> QED BY <2>1, <2>2
<1> HIDE DEF f
<1>2. \A j \in Slots : /\ DOMAIN f.slots[j] = SlotFields
                       /\ f.slots[j].at = h.slots[j].at /\ f.slots[j].pub = h.slots[j].pub
                       /\ f.slots[j].active = h.slots[j].active
                       /\ j # i => f.slots[j] = h.slots[j]
  BY <1>1 DEF Rest, Shape, SlotFields
<1>3. DOMAIN f.slots = Slots
  BY <1>1 DEF Rest, Shape
<1>4. Lost(h, i, g)
  BY <1>1, <1>2, <1>3 DEF Lost, HostFields
<1>5. d.slots = [f.slots EXCEPT ![i].failed = TRUE]
  BY <1>1 DEF Drop, HostFields
<1>6. \A j \in Slots : /\ DOMAIN d.slots[j] = SlotFields
                       /\ d.slots[j].at = h.slots[j].at /\ d.slots[j].pub = h.slots[j].pub
                       /\ d.slots[j].active = h.slots[j].active
                       /\ j # i => d.slots[j] = h.slots[j]
  BY <1>2, <1>3, <1>5 DEF SlotFields
<1>7. Lost(h, i, d)
  BY <1>1, <1>3, <1>5, <1>6 DEF Lost, Drop, HostFields
<1> QED BY <1>4, <1>7 DEF f

-----------------------------------------------------------------------------
(* What is sent for the committed publication goes on being sent.          *)
Survives(h, g) ==
  h.active # 0 /\ ~g.resyncing /\ g.route.apub = h.slots[h.active].pub
    => g.active # 0 /\ g.slots[g.active].pub = h.slots[h.active].pub

(* Where the publication in use stays, it is still sent; and a step after  *)
(* that may be judged from where it began.                                 *)
LEMMA KeptSurvives ==
  ASSUME NEW h, NEW g, NEW k, Kept(h, g)
  PROVE  Survives(h, g) /\ (Survives(g, k) => Survives(h, k))
BY DEF Kept, Survives

(* Steps that keep the publication in use compose.                         *)
LEMMA KeptTransitive ==
  ASSUME NEW h, NEW g, NEW k, Kept(h, g), Kept(g, k) PROVE Kept(h, k)
BY DEF Kept

(* Only the revision and the token of slots change, and whether they count *)
(* as connected.                                                           *)
Marked(h, g) ==
  /\ DOMAIN g = HostFields /\ DOMAIN g.route = RouteFields /\ DOMAIN g.slots = Slots
  /\ g.pending = h.pending /\ g.active = h.active /\ g.open = h.open
  /\ g.next = h.next /\ g.queue = h.queue /\ g.run = h.run /\ g.closed = h.closed
  /\ \A j \in Slots : /\ DOMAIN g.slots[j] = SlotFields
                      /\ g.slots[j].at = h.slots[j].at /\ g.slots[j].pub = h.slots[j].pub
                      /\ g.slots[j].active = h.slots[j].active
                      /\ g.slots[j].failed = h.slots[j].failed

(* Marking slots opens and closes nothing.                                 *)
LEMMA MarkedKeeps ==
  ASSUME NEW h, NEW g, NEW but, Rest(h), Held(h, but), Marked(h, g)
  PROVE  /\ Rest(g) /\ Held(g, but)
         /\ g.route = h.route /\ g.resyncing = h.resyncing => Kept(h, g)
<1>1. /\ h.pending # 0 => h.pending \in Slots
      /\ h.active # 0 => h.active \in Slots
  BY DEF Rest, Shape, Slots
<1>2. Shape(g)
  BY DEF Marked, Rest, Shape
<1>3. Slotted(g)
  BY DEF Marked, Rest, Slotted
<1>4. Placed(g)
  BY <1>1 DEF Marked, Rest, Placed
<1>5. Lined(g) /\ ToClose(g) = ToClose(h)
  BY LinedKeeps DEF Marked
<1>6. Waits(g) = Waits(h)
  BY DEF Waits, Marked
<1> QED BY <1>1, <1>2, <1>3, <1>4, <1>5, <1>6 DEF Rest, Held, Marked, Kept

(* Changing nothing is marking no slot.                                    *)
LEMMA SameMarked ==
  ASSUME NEW h, NEW g, Rest(h), Same(h, g) PROVE Marked(h, g)
BY DEF Same, Marked, Rest, Shape

(* The page starts something that is not the preparation of a slot.        *)
LEMMA RunKeeps ==
  ASSUME NEW h, NEW but, Rest(h), Held(h, but),
         NEW t, DOMAIN t = ItemFields, t.k # "prepare"
  PROVE  LET g == [h EXCEPT !.run = t]
         IN  /\ Rest(g) /\ Held(g, but) /\ Kept(h, g) /\ DOMAIN g = HostFields
             /\ g.slots = h.slots /\ g.active = h.active /\ g.pending = h.pending
             /\ g.route = h.route /\ g.resyncing = h.resyncing
             /\ g.open = h.open /\ g.closed = h.closed
<1> DEFINE g == [h EXCEPT !.run = t]
<1>1. /\ DOMAIN g = HostFields /\ g.route = h.route /\ g.pending = h.pending
      /\ g.active = h.active /\ g.slots = h.slots /\ g.open = h.open /\ g.next = h.next
      /\ g.queue = h.queue /\ g.run = t /\ g.closed = h.closed /\ g.resyncing = h.resyncing
  BY DEF Rest, Shape, HostFields
<1> HIDE DEF g
<1>2. Shape(g) /\ Slotted(g) /\ Placed(g)
  BY <1>1 DEF Rest, Shape, Slotted, Placed
<1>3. Lined(g)
  BY <1>1 DEF Rest, Lined, ItemOK
<1>4. Held(g, but) /\ Kept(h, g)
  BY <1>1 DEF Held, Waits, ToClose, Kept
<1> QED BY <1>1, <1>2, <1>3, <1>4 DEF Rest, g

(* The commit of the media only ends a recovery.                           *)
LEMMA CommitMediaSame ==
  ASSUME NEW h, NEW tok, Shape(h)
  PROVE  Same(h, CommitMedia(h, tok)) /\ Kept(h, CommitMedia(h, tok))
BY DEF CommitMedia, Same, Shape, HostFields, Kept

(* The prepared slot takes over with the committed publication, and the    *)
(* one it replaces is closed.                                              *)
LEMMA PromoteKeeps ==
  ASSUME NEW h, Rest(h), Held(h, {}), NEW item, Prepared(h, item, h.route.apub)
  PROVE  LET g == PromoteSlot(h) IN Rest(g) /\ Held(g, {}) /\ Survives(h, g)
<1> DEFINE p == h.pending
           i == h.active
           g == PromoteSlot(h)
<1>1. /\ p \in Slots /\ i \in 0..MaxSlots /\ p # i
      /\ h.slots[p].at = "done" /\ ~h.slots[p].failed /\ p \in h.open
      /\ h.slots[p].pub = h.route.apub
  BY DEF Rest, Shape, Placed, Slotted, Prepared, Slots
<1>2. /\ DOMAIN g = HostFields /\ g.route = h.route /\ g.pending = 0 /\ g.active = p
      /\ g.next = h.next /\ g.queue = h.queue /\ g.run = h.run /\ g.closed = h.closed
      /\ g.resyncing = h.resyncing /\ g.open = h.open \ ({i} \ {0})
      /\ g.slots = h.slots \/ g.slots = [h.slots EXCEPT ![i].failed = TRUE]
  <2>1. CASE i = 0
    <3>1. 0 \notin h.open
      BY DEF Rest, Shape, Slots
    <3> QED BY <2>1, <3>1 DEF PromoteSlot, Rest, Shape, HostFields
  <2>2. CASE i # 0
    BY <2>2 DEF PromoteSlot, Drop, Rest, Shape, HostFields
  <2> QED BY <2>1, <2>2
<1> HIDE DEF g
<1>3. \A j \in Slots : /\ DOMAIN g.slots[j] = SlotFields
                       /\ g.slots[j].at = h.slots[j].at /\ g.slots[j].pub = h.slots[j].pub
                       /\ g.slots[j].active = h.slots[j].active
                       /\ j # i => g.slots[j] = h.slots[j]
  BY <1>2 DEF Rest, Shape, SlotFields
<1>4. Shape(g)
  BY <1>1, <1>2, <1>3, Bounds DEF Rest, Shape, Slots
<1>5. Slotted(g)
  BY <1>2, <1>3 DEF Rest, Slotted
<1>6. Placed(g)
  BY <1>1, <1>2, <1>3 DEF Rest, Placed
<1>7. Lined(g) /\ ToClose(g) = ToClose(h)
  BY <1>2, <1>3, LinedKeeps
<1>8. Waits(h) \subseteq Waits(g)
  BY <1>1, <1>2, <1>3 DEF Waits, Slots
<1>9. Held(g, {})
  BY <1>1, <1>2, <1>7, <1>8 DEF Held
<1>10. Survives(h, g)
  BY <1>1, <1>2, <1>3 DEF Survives, Slots
<1> QED BY <1>4, <1>5, <1>6, <1>7, <1>9, <1>10 DEF Rest, g

(* An activation that names the pending slot clears it.                    *)
LEMMA UnpendKeeps ==
  ASSUME NEW h, Rest(h), Held(h, {}), NEW item
  PROVE  LET g == Unpend(h, item)
         IN  /\ Rest(g) /\ Held(g, {}) /\ Kept(h, g) /\ g.active = h.active
BY ClearPendingKeeps DEF Unpend, Kept

(* activate: whichever of its branches is taken, the committed publication *)
(* is still sent if it was.                                                *)
LEMMA ActivateKeeps ==
  ASSUME NEW h, Rest(h), Held(h, {}), NEW item, DOMAIN item = ItemFields
  PROVE  LET g == Activate(h, item) IN Rest(g) /\ Held(g, {}) /\ Survives(h, g)
<1> DEFINE g == Activate(h, item)
<1>1. CASE h.route.apub = 0
  <2> DEFINE u == Unpend(h, item)
             r == RetireActive(u)
             t == [item EXCEPT !.k = "commit"]
  <2>1. Rest(u) /\ Held(u, {}) /\ Kept(h, u)
    BY UnpendKeeps
  <2> HIDE DEF u
  <2>2. Rest(r) /\ Held(r, {}) /\ r.route = u.route
    BY <2>1, RetireActiveKeeps
  <2> HIDE DEF r
  <2>3. DOMAIN t = ItemFields /\ t.k = "commit"
    BY DEF ItemFields
  <2>4. g = [r EXCEPT !.run = t]
    BY <1>1 DEF Activate, r, u
  <2> HIDE DEF t, g
  <2>5. Rest(g) /\ Held(g, {}) /\ g.route = r.route
    BY <2>2, <2>3, <2>4, RunKeeps
  <2>6. h.active # 0 => h.slots[h.active].pub # 0
    BY DEF Rest, Placed, Slotted, Shape, Slots
  <2>7. Survives(h, g)
    BY <1>1, <2>1, <2>2, <2>5, <2>6 DEF Survives, Kept
  <2> QED BY <2>5, <2>7 DEF g
<1>2. CASE h.route.apub # 0 /\ KeepsActive(h, h.route.apub)
  <2> DEFINE i == h.active
             m == [h EXCEPT !.slots[h.active].rev = item.rev,
                            !.slots[h.active].tok = item.tok]
             u == Unpend(m, item)
             x == CommitMedia(u, item.tok)
  <2>1. i \in Slots
    BY <1>2 DEF KeepsActive, Rest, Shape, Slots
  <2>2. /\ DOMAIN m = HostFields /\ m.route = h.route /\ m.resyncing = h.resyncing
        /\ m.pending = h.pending /\ m.active = h.active /\ m.open = h.open
        /\ m.next = h.next /\ m.queue = h.queue /\ m.run = h.run /\ m.closed = h.closed
        /\ m.slots = [[h.slots EXCEPT ![i].rev = item.rev] EXCEPT ![i].tok = item.tok]
    BY DEF Rest, Shape, HostFields
  <2> HIDE DEF m
  <2>3. Marked(h, m)
    BY <2>1, <2>2 DEF Marked, Rest, Shape, SlotFields
  <2>4. Rest(m) /\ Held(m, {}) /\ Kept(h, m)
    BY <2>2, <2>3, MarkedKeeps
  <2>5. Rest(u) /\ Held(u, {}) /\ Kept(m, u)
    BY <2>4, UnpendKeeps
  <2> HIDE DEF u
  <2>6. Rest(x) /\ Held(x, {}) /\ Kept(u, x)
    BY <2>5, CommitMediaSame, SameKeeps, SameHeld DEF Rest
  <2>7. g = x
    BY <1>2 DEF Activate, x, u, m
  <2> HIDE DEF x, g
  <2>8. Survives(h, x)
    BY <2>4, <2>5, <2>6, KeptTransitive, KeptSurvives
  <2> QED BY <2>6, <2>7, <2>8 DEF g
<1>3. CASE /\ h.route.apub # 0 /\ ~KeepsActive(h, h.route.apub)
           /\ Prepared(h, item, h.route.apub)
  BY <1>3, PromoteKeeps DEF Activate
<1>4. CASE /\ h.route.apub # 0 /\ ~KeepsActive(h, h.route.apub)
           /\ ~Prepared(h, item, h.route.apub)
  <2>1. g = RequestRecovery(h, item.rev, 0)
    BY <1>4 DEF Activate
  <2> HIDE DEF g
  <2>2. Rest(g) /\ Held(g, {}) /\ Kept(h, g)
    BY <2>1, RequestRecoverySame, SameKeeps, SameHeld DEF Rest
  <2>3. Survives(h, g)
    BY <2>2, KeptSurvives
  <2> QED BY <2>2, <2>3 DEF g
<1> QED BY <1>1, <1>2, <1>3, <1>4

-----------------------------------------------------------------------------
(* The item at the head of the queue leaves it.  The slot it closes is set *)
(* aside, and no second preparation of the slot it prepares is left.       *)
LEMMA TailKeeps ==
  ASSUME NEW h, Rest(h), Held(h, {}), h.queue # <<>>
  PROVE  LET g == [h EXCEPT !.queue = Tail(@)]
             t == Head(h.queue)
         IN  /\ Rest(g) /\ Kept(h, g) /\ ItemOK(g, t)
             /\ Held(g, IF t.k = "close" THEN {t.slot} ELSE {})
             /\ t.k = "prepare" => \A k \in DOMAIN g.queue :
                                      g.queue[k].k = "prepare" => g.queue[k].slot # t.slot
<1> DEFINE q == h.queue
           r == Tail(q)
           t == Head(q)
           g == [h EXCEPT !.queue = Tail(@)]
<1>1. /\ DOMAIN g = HostFields /\ g.route = h.route /\ g.pending = h.pending
      /\ g.active = h.active /\ g.slots = h.slots /\ g.open = h.open /\ g.next = h.next
      /\ g.queue = r /\ g.run = h.run /\ g.closed = h.closed /\ g.resyncing = h.resyncing
  BY DEF Rest, Shape, HostFields
<1>2. /\ Listed(r) /\ Len(q) \in Nat \ {0} /\ DOMAIN q = 1..Len(q)
      /\ DOMAIN r = 1..Len(q) - 1
      /\ \A k \in DOMAIN r : k + 1 \in DOMAIN q /\ r[k] = q[k + 1]
      /\ t = q[1] /\ 1 \in DOMAIN q
  BY TailIs DEF Rest, Lined
<1>3. /\ \A k \in DOMAIN q : ItemOK(h, q[k])
      /\ \A j, k \in DOMAIN q : j # k /\ q[j].k = "prepare" /\ q[k].k = "prepare"
                                 => q[j].slot # q[k].slot
  BY DEF Rest, Lined
<1>4. ToClose(h) = {q[k].slot : k \in {j \in DOMAIN q : q[j].k = "close"}}
  BY DEF ToClose
<1> HIDE DEF g, q, r, t
<1>5. Shape(g) /\ Slotted(g) /\ Placed(g)
  BY <1>1 DEF Rest, Shape, Slotted, Placed
<1>6. \A e : ItemOK(h, e) => ItemOK(g, e)
  BY <1>1 DEF ItemOK
<1>7. Lined(g)
  <2>1. \A k \in DOMAIN r : ItemOK(g, r[k])
    BY <1>2, <1>3, <1>6
  <2>2. \A j, k \in DOMAIN r : j # k /\ r[j].k = "prepare" /\ r[k].k = "prepare"
                                => r[j].slot # r[k].slot
    BY <1>2, <1>3
  <2> QED BY <1>1, <1>2, <2>1, <2>2 DEF Lined, Rest
<1>8. t.k = "prepare" => \A k \in DOMAIN g.queue :
                            g.queue[k].k = "prepare" => g.queue[k].slot # t.slot
  <2>1. SUFFICES ASSUME t.k = "prepare", NEW k \in DOMAIN r, r[k].k = "prepare"
                 PROVE  r[k].slot # t.slot
    BY <1>1
  <2>2. k + 1 # 1
    BY <1>2
  <2> QED BY <1>2, <1>3, <2>1, <2>2
<1>9. ToClose(h) \subseteq ToClose(g) \cup (IF t.k = "close" THEN {t.slot} ELSE {})
  <2>1. SUFFICES ASSUME NEW k \in DOMAIN q, q[k].k = "close"
                 PROVE  q[k].slot \in ToClose(g) \cup (IF t.k = "close" THEN {t.slot} ELSE {})
    BY <1>4
  <2>2. CASE k = 1
    BY <1>2, <2>1, <2>2
  <2>3. CASE k # 1
    <3>1. k - 1 \in DOMAIN r /\ r[k - 1] = q[k]
      BY <1>2, <2>1, <2>3
    <3> QED BY <1>1, <2>1, <3>1 DEF ToClose
  <2> QED BY <2>2, <2>3
<1>10. Held(g, IF t.k = "close" THEN {t.slot} ELSE {})
  <2>1. Waits(g) = Waits(h)
    BY <1>1 DEF Waits
  <2> QED BY <1>1, <1>9, <2>1 DEF Held
<1>11. Kept(h, g)
  BY <1>1 DEF Kept
<1>12. ItemOK(g, t)
  BY <1>2, <1>3, <1>6
<1> QED BY <1>5, <1>7, <1>8, <1>10, <1>11, <1>12 DEF Rest, g, t, q

(* Slot i moves on, or is given up.                                        *)
Turned(h, i, g) ==
  /\ DOMAIN g = HostFields /\ g.route = h.route /\ g.resyncing = h.resyncing
  /\ g.next = h.next /\ g.closed = h.closed /\ g.queue = h.queue /\ g.active = h.active
  /\ g.pending \in {0, h.pending} /\ (h.pending # i => g.pending = h.pending)
  /\ h.open \ {i} \subseteq g.open /\ g.open \subseteq h.open
  /\ DOMAIN g.slots = Slots /\ \A j \in Slots \ {i} : g.slots[j] = h.slots[j]
  /\ DOMAIN g.slots[i] = SlotFields /\ g.slots[i].pub = h.slots[i].pub
  /\ g.slots[i].at # "none" /\ (g.slots[i].active => g.slots[i].at = "done")
  /\ g.pending = i => ~g.slots[i].failed /\ (g.slots[i].active => i \in g.open)
  /\ DOMAIN g.run = ItemFields
  /\ g.run.k = "prepare" => g.run.slot \in Slots /\ g.slots[g.run.slot].at = "prepare"

(* A slot that moves on was waiting and is not the active one, so what is  *)
(* in use stays; it is accounted for if it is pending, waits on, or is     *)
(* closed.                                                                 *)
LEMMA TurnedKeeps ==
  ASSUME NEW h, NEW i \in Slots, NEW g, Rest(h), Held(h, {i}), Turned(h, i, g),
         h.slots[i].at \in {"connect", "queue", "prepare"},
         \A k \in DOMAIN h.queue : h.queue[k].k = "prepare" => h.queue[k].slot # i
  PROVE  /\ Rest(g) /\ Held(g, {i}) /\ Kept(h, g)
         /\ (i \in g.open => i = g.pending \/ i \in Waits(g)) => Held(g, {})
<1>1. /\ i # h.active /\ i < h.next /\ h.slots[i].pub # 0
      /\ h.pending # 0 => h.pending \in Slots
      /\ h.active # 0 => h.active \in Slots
  BY DEF Rest, Placed, Slotted, Shape, Slots
<1>2. Shape(g)
  BY Bounds DEF Turned, Rest, Shape
<1>3. Slotted(g)
  BY <1>1 DEF Turned, Rest, Slotted, Shape, Slots
<1>4. Placed(g)
  BY <1>1 DEF Turned, Rest, Placed
<1>5. ASSUME NEW k \in DOMAIN h.queue PROVE ItemOK(g, h.queue[k])
  <2>1. ItemOK(h, h.queue[k])
    BY <1>5 DEF Rest, Lined
  <2>2. 0 \notin Slots
    BY DEF Slots
  <2> QED BY <2>1, <2>2 DEF ItemOK, Turned
<1>6. Lined(g)
  BY <1>5 DEF Rest, Lined, Turned
<1>7. ToClose(g) = ToClose(h)
  BY DEF ToClose, Turned
<1>8. ASSUME NEW j \in Waits(h), j # i PROVE j \in Waits(g)
  BY <1>8 DEF Waits, Turned, Slots
<1>9. /\ Held(g, {i})
      /\ (i \in g.open => i = g.pending \/ i \in Waits(g)) => Held(g, {})
  BY <1>7, <1>8 DEF Held, Turned
<1>10. Kept(h, g)
  BY <1>1 DEF Kept, Turned
<1> QED BY <1>2, <1>3, <1>4, <1>6, <1>9, <1>10 DEF Rest

(* A slot that lost its place is closed.                                   *)
LEMMA DisplacedKeeps ==
  ASSUME NEW h, NEW i \in Slots, Rest(h), Held(h, {}),
         h.slots[i].at \in {"connect", "queue"},
         \A k \in DOMAIN h.queue : h.queue[k].k = "prepare" => h.queue[k].slot # i
  PROVE  LET g == Displaced(h, i) IN Rest(g) /\ Held(g, {}) /\ Kept(h, g)
<1> DEFINE d == Drop(h, i)
           g == Displaced(h, i)
<1>1. /\ DOMAIN d = HostFields /\ d.route = h.route /\ d.resyncing = h.resyncing
      /\ d.next = h.next /\ d.closed = h.closed /\ d.queue = h.queue
      /\ d.active = h.active /\ d.pending = h.pending /\ d.run = h.run
      /\ d.open = h.open \ {i} /\ d.slots = [h.slots EXCEPT ![i].failed = TRUE]
  BY DEF Drop, Rest, Shape, HostFields
<1> HIDE DEF d
<1>2. /\ DOMAIN g = HostFields /\ g.route = h.route /\ g.resyncing = h.resyncing
      /\ g.next = h.next /\ g.closed = h.closed /\ g.queue = h.queue
      /\ g.active = h.active /\ g.run = h.run /\ g.open = h.open \ {i}
      /\ g.pending = (IF h.pending = i THEN 0 ELSE h.pending)
      /\ g.slots = [d.slots EXCEPT ![i].at = "done"]
  BY <1>1 DEF Displaced, d, HostFields
<1> HIDE DEF g
<1>3. /\ DOMAIN g.slots = Slots /\ \A j \in Slots \ {i} : g.slots[j] = h.slots[j]
      /\ DOMAIN g.slots[i] = SlotFields /\ g.slots[i].pub = h.slots[i].pub
      /\ g.slots[i].at = "done"
  BY <1>1, <1>2 DEF Rest, Shape, SlotFields
<1>4. Turned(h, i, g)
  BY <1>2, <1>3 DEF Turned, Rest, Lined, Slots
<1>5. Held(h, {i})
  BY DEF Held
<1>6. Rest(g) /\ Held(g, {}) /\ Kept(h, g)
  BY <1>2, <1>4, <1>5, TurnedKeeps
<1> QED BY <1>6 DEF g

(* The preparation of a slot starts, if the slot kept its place.           *)
LEMMA StartPreparationKeeps ==
  ASSUME NEW h, NEW i \in Slots, Rest(h), Held(h, {}), h.slots[i].at = "queue",
         \A k \in DOMAIN h.queue : h.queue[k].k = "prepare" => h.queue[k].slot # i
  PROVE  LET g == StartPreparation(h, i) IN Rest(g) /\ Held(g, {}) /\ Kept(h, g)
<1>1. CASE h.pending # i \/ ~OwnsSlot(h, i)
  BY <1>1, DisplacedKeeps DEF StartPreparation
<1>2. CASE ~(h.pending # i \/ ~OwnsSlot(h, i))
  <2> DEFINE g == StartPreparation(h, i)
             t == Item("prepare", i, 0, 0, FALSE)
  <2>1. /\ DOMAIN g = HostFields /\ g.route = h.route /\ g.resyncing = h.resyncing
        /\ g.next = h.next /\ g.closed = h.closed /\ g.queue = h.queue
        /\ g.active = h.active /\ g.run = t /\ g.open = h.open /\ g.pending = i
        /\ g.slots = [h.slots EXCEPT ![i].at = "prepare"]
    BY <1>2 DEF StartPreparation, Rest, Shape, HostFields
  <2>2. DOMAIN t = ItemFields /\ t.k = "prepare" /\ t.slot = i
    BY DEF Item, ItemFields
  <2> HIDE DEF g, t
  <2>3. /\ DOMAIN g.slots = Slots /\ \A j \in Slots \ {i} : g.slots[j] = h.slots[j]
        /\ DOMAIN g.slots[i] = SlotFields /\ g.slots[i].pub = h.slots[i].pub
        /\ g.slots[i].at = "prepare" /\ g.slots[i].active = h.slots[i].active
        /\ g.slots[i].failed = h.slots[i].failed
    BY <2>1 DEF Rest, Shape, SlotFields
  <2>4. ~h.slots[i].active /\ ~h.slots[i].failed
    BY <1>2 DEF Rest, Slotted, Placed, Slots
  <2>5. Turned(h, i, g)
    BY <1>2, <2>1, <2>2, <2>3, <2>4 DEF Turned
  <2>6. Held(h, {i})
    BY DEF Held
  <2>7. Rest(g) /\ Held(g, {}) /\ Kept(h, g)
    BY <2>1, <2>5, <2>6, TurnedKeeps
  <2> QED BY <2>7 DEF g
<1> QED BY <1>1, <1>2

(* An activation may be put in line at any time.                           *)
LEMMA QueueActivationKeeps ==
  ASSUME NEW h, Rest(h), Held(h, {}), NEW tok, NEW rev, NEW retire
  PROVE  LET g == QueueActivation(h, tok, rev, retire)
         IN  Rest(g) /\ Held(g, {}) /\ Kept(h, g) /\ g.resyncing = h.resyncing
<1> DEFINE t == Item("activate", h.pending, tok, rev, retire)
<1>1. DOMAIN t = ItemFields /\ t.k = "activate"
  BY DEF Item, ItemFields
<1> HIDE DEF t
<1>2. ItemOK(h, t)
  BY <1>1 DEF ItemOK
<1>3. QueueActivation(h, tok, rev, retire) = Queue(h, t)
  BY DEF QueueActivation, t
<1> QED BY <1>1, <1>2, <1>3, QueueKeeps

(* The preparation of the running slot ended.  The slot sends, or is       *)
(* closed: because it failed, or because it lost its place meanwhile.      *)
LEMMA SlotPreparedKeeps ==
  ASSUME NEW h, Rest(h), Held(h, {}), h.run.k = "prepare", NEW ok \in BOOLEAN,
         ok => h.run.slot \in h.open
  PROVE  LET g == SlotPrepared(h, h.run.slot, ok)
         IN  Rest(g) /\ Held(g, {}) /\ Survives(h, g)
<1> DEFINE i == h.run.slot
           g == [h EXCEPT !.run = Idle, !.slots[i].at = "done"]
           r == SlotPrepared(h, i, ok)
<1>1. /\ i \in Slots /\ h.slots[i].at = "prepare" /\ ~h.slots[i].active
      /\ \A k \in DOMAIN h.queue : h.queue[k].k = "prepare" => h.queue[k].slot # i
  BY DEF Rest, Lined, Slotted, ItemOK
<1>2. Held(h, {i})
  BY DEF Held
<1>3. DOMAIN Idle = ItemFields /\ Idle.k = "idle"
  BY DEF Idle, Item, ItemFields
<1>4. /\ DOMAIN g = HostFields /\ g.route = h.route /\ g.resyncing = h.resyncing
      /\ g.next = h.next /\ g.closed = h.closed /\ g.queue = h.queue
      /\ g.active = h.active /\ g.run = Idle /\ g.open = h.open /\ g.pending = h.pending
      /\ g.slots = [h.slots EXCEPT ![i].at = "done"]
  BY DEF Rest, Shape, HostFields
<1> HIDE DEF g, i
<1>5. /\ DOMAIN g.slots = Slots /\ \A j \in Slots \ {i} : g.slots[j] = h.slots[j]
      /\ DOMAIN g.slots[i] = SlotFields /\ g.slots[i].pub = h.slots[i].pub
      /\ g.slots[i].at = "done" /\ g.slots[i].active = h.slots[i].active
      /\ g.slots[i].failed = h.slots[i].failed
  BY <1>1, <1>4 DEF Rest, Shape, SlotFields
<1>6. h.pending = i => ~h.slots[i].failed
  BY <1>1 DEF Rest, Placed, Slots
<1>7. Turned(h, i, g)
  BY <1>1, <1>3, <1>4, <1>5, <1>6 DEF Turned
<1>8. Rest(g) /\ Held(g, {i}) /\ Kept(h, g) /\ i # g.active
  <2>1. i # g.active
    BY <1>1, <1>4 DEF Rest, Placed, Slots
  <2> QED BY <1>1, <1>2, <1>7, <2>1, TurnedKeeps
<1>9. CASE ~ok
  <2>1. r = [HandleFailure(g, i, TRUE) EXCEPT !.open = @ \ {i}]
    BY <1>9 DEF SlotPrepared, g
  <2> HIDE DEF r
  <2>2. Lost(g, i, r)
    BY <1>1, <1>8, <2>1, FailureIs
  <2>3. Rest(r) /\ Held(r, {}) /\ Kept(g, r)
    BY <1>1, <1>8, <2>2, LostKeeps
  <2> QED BY <1>8, <2>3, KeptTransitive, KeptSurvives DEF r, i
<1>10. CASE ok /\ (h.pending # i \/ ~OwnsSlot(h, i))
  <2>1. r = [g EXCEPT !.open = @ \ {i}]
    BY <1>10 DEF SlotPrepared, g
  <2> HIDE DEF r
  <2>2. /\ DOMAIN r = HostFields /\ r.route = h.route /\ r.resyncing = h.resyncing
        /\ r.next = h.next /\ r.closed = h.closed /\ r.queue = h.queue
        /\ r.active = h.active /\ r.run = Idle /\ r.open = h.open \ {i}
        /\ r.pending = h.pending /\ r.slots = g.slots
    BY <1>4, <2>1 DEF HostFields
  <2>3. Turned(h, i, r)
    BY <1>1, <1>3, <1>5, <1>6, <2>2 DEF Turned
  <2>4. Rest(r) /\ Held(r, {}) /\ Kept(h, r)
    BY <1>1, <1>2, <2>2, <2>3, TurnedKeeps
  <2> QED BY <2>4, KeptSurvives DEF r, i
<1>11. CASE ok /\ h.pending = i /\ OwnsSlot(h, i)
  <2> DEFINE a == [g EXCEPT !.slots[i].active = TRUE]
  <2>1. /\ DOMAIN a = HostFields /\ a.route = h.route /\ a.resyncing = h.resyncing
        /\ a.next = h.next /\ a.closed = h.closed /\ a.queue = h.queue
        /\ a.active = h.active /\ a.run = Idle /\ a.open = h.open /\ a.pending = h.pending
        /\ a.slots = [g.slots EXCEPT ![i].active = TRUE]
    BY <1>4 DEF HostFields
  <2>2. \/ r = a
        \/ r = QueueActivation(a, g.slots[i].tok, g.slots[i].rev, FALSE)
    BY <1>11 DEF SlotPrepared, g
  <2> HIDE DEF a, r
  <2>3. /\ DOMAIN a.slots = Slots /\ \A j \in Slots \ {i} : a.slots[j] = h.slots[j]
        /\ DOMAIN a.slots[i] = SlotFields /\ a.slots[i].pub = h.slots[i].pub
        /\ a.slots[i].at = "done" /\ a.slots[i].failed = h.slots[i].failed
    BY <1>1, <1>5, <2>1 DEF SlotFields
  <2>4. i \in h.open
    BY <1>11 DEF i
  <2>5. Turned(h, i, a)
    BY <1>1, <1>3, <1>6, <2>1, <2>3, <2>4 DEF Turned
  <2>6. Rest(a) /\ Held(a, {}) /\ Kept(h, a)
    BY <1>1, <1>2, <1>11, <2>1, <2>5, TurnedKeeps
  <2>7. Rest(r) /\ Held(r, {}) /\ Kept(h, r)
    <3>1. CASE r = a
      BY <2>6, <3>1
    <3>2. CASE r = QueueActivation(a, g.slots[i].tok, g.slots[i].rev, FALSE)
      <4>1. Rest(r) /\ Held(r, {}) /\ Kept(a, r)
        BY <2>6, <3>2, QueueActivationKeeps
      <4> QED BY <2>6, <4>1, KeptTransitive
    <3> QED BY <2>2, <3>1, <3>2
  <2> QED BY <2>7, KeptSurvives DEF r, i
<1> QED BY <1>9, <1>10, <1>11

(* A slot connected, or failed to.                                         *)
LEMMA SlotConnectedKeeps ==
  ASSUME NEW h, NEW i \in Slots, Rest(h), Held(h, {}), h.slots[i].at = "connect", NEW ok
  PROVE  LET g == SlotConnected(h, i, ok) IN Rest(g) /\ Held(g, {}) /\ Survives(h, g)
<1> DEFINE r == SlotConnected(h, i, ok)
<1>1. /\ ~h.slots[i].active /\ i # h.active /\ Held(h, {i})
      /\ \A k \in DOMAIN h.queue : h.queue[k].k = "prepare" => h.queue[k].slot # i
      /\ h.run.k = "prepare" => h.run.slot \in Slots /\ h.run.slot # i
      /\ DOMAIN h.run = ItemFields
      /\ h.pending = i => ~h.slots[i].failed
  BY DEF Rest, Lined, Slotted, Placed, ItemOK, Held, Slots
<1>2. CASE h.pending # i \/ ~OwnsSlot(h, i)
  <2>1. r = Displaced(h, i)
    BY <1>2 DEF SlotConnected
  <2> QED BY <1>1, <2>1, DisplacedKeeps, KeptSurvives
<1>3. CASE h.pending = i /\ OwnsSlot(h, i) /\ ~ok
  <2> DEFINE e == HandleFailure(h, i, TRUE)
             f == [e EXCEPT !.open = @ \ {i}]
  <2>1. Lost(h, i, f)
    BY FailureIs DEF Rest
  <2>2. r = [e EXCEPT !.open = @ \ {i}, !.slots[i].at = "done"]
    BY <1>3 DEF SlotConnected
  <2>3. /\ DOMAIN e = HostFields /\ e.slots = f.slots /\ e.route = f.route
        /\ e.resyncing = f.resyncing /\ e.next = f.next /\ e.closed = f.closed
        /\ e.queue = f.queue /\ e.active = f.active /\ e.run = f.run
        /\ e.pending = f.pending /\ f.open = e.open \ {i}
    <3>1. DOMAIN e = DOMAIN f
      OBVIOUS
    <3>2. DOMAIN e = HostFields
      BY <2>1, <3>1 DEF Lost
    <3> HIDE DEF e
    <3> QED BY <3>2 DEF HostFields
  <2> HIDE DEF f, e
  <2>4. /\ DOMAIN r = HostFields /\ r.route = h.route /\ r.resyncing = h.resyncing
        /\ r.next = h.next /\ r.closed = h.closed /\ r.queue = h.queue
        /\ r.active = h.active /\ r.run = h.run /\ r.open = h.open \ {i} /\ r.pending = 0
        /\ r.slots = [f.slots EXCEPT ![i].at = "done"]
    BY <1>1, <1>3, <2>1, <2>2, <2>3 DEF Lost, HostFields
  <2> HIDE DEF r
  <2>5. /\ DOMAIN r.slots = Slots /\ \A j \in Slots \ {i} : r.slots[j] = h.slots[j]
        /\ DOMAIN r.slots[i] = SlotFields /\ r.slots[i].pub = h.slots[i].pub
        /\ r.slots[i].at = "done"
    BY <2>1, <2>4 DEF Lost, SlotFields
  <2>6. Turned(h, i, r)
    BY <1>1, <1>3, <2>4, <2>5 DEF Turned, Rest, Lined, Slots
  <2>7. Rest(r) /\ Held(r, {}) /\ Kept(h, r)
    BY <1>1, <2>4, <2>6, TurnedKeeps
  <2> QED BY <2>7, KeptSurvives DEF r
<1>4. CASE h.pending = i /\ OwnsSlot(h, i) /\ ok
  <2> DEFINE a == [h EXCEPT !.slots[i].connected = TRUE, !.slots[i].at = "queue"]
             t == Item("prepare", i, 0, 0, FALSE)
  <2>1. /\ DOMAIN a = HostFields /\ a.route = h.route /\ a.resyncing = h.resyncing
        /\ a.next = h.next /\ a.closed = h.closed /\ a.queue = h.queue
        /\ a.active = h.active /\ a.run = h.run /\ a.open = h.open /\ a.pending = h.pending
        /\ a.slots = [[h.slots EXCEPT ![i].connected = TRUE] EXCEPT ![i].at = "queue"]
    BY DEF Rest, Shape, HostFields
  <2>2. r = Queue(a, t)
    BY <1>4 DEF SlotConnected
  <2>3. DOMAIN t = ItemFields /\ t.k = "prepare" /\ t.slot = i
    BY DEF Item, ItemFields
  <2> HIDE DEF a, r, t
  <2>4. /\ DOMAIN a.slots = Slots /\ \A j \in Slots \ {i} : a.slots[j] = h.slots[j]
        /\ DOMAIN a.slots[i] = SlotFields /\ a.slots[i].pub = h.slots[i].pub
        /\ a.slots[i].at = "queue" /\ a.slots[i].failed = h.slots[i].failed
        /\ a.slots[i].active = h.slots[i].active
    BY <2>1 DEF Rest, Shape, SlotFields
  <2>5. Turned(h, i, a)
    <3>1. h.run.k = "prepare" => h.slots[h.run.slot].at = "prepare"
      BY DEF Rest, Lined
    <3> QED BY <1>1, <2>1, <2>4, <3>1 DEF Turned
  <2>6. Rest(a) /\ Held(a, {}) /\ Kept(h, a)
    BY <1>1, <1>4, <2>1, <2>5, TurnedKeeps
  <2>7. ItemOK(a, t)
    BY <2>3, <2>4 DEF ItemOK
  <2>8. Rest(r) /\ Held(r, {}) /\ Kept(a, r)
    BY <1>1, <2>1, <2>2, <2>3, <2>6, <2>7, QueueKeeps
  <2> QED BY <2>6, <2>8, KeptTransitive, KeptSurvives DEF r
<1> QED BY <1>2, <1>3, <1>4

-----------------------------------------------------------------------------
(* What is in use stays in use.                                            *)
Stays(h, g) ==
  h.active # 0 => g.active = h.active /\ g.slots[h.active].pub = h.slots[h.active].pub

(* How the relations follow from each other and compose.                   *)
LEMMA StaysSurvives ==
  /\ \A h, g : Kept(h, g) => Stays(h, g)
  /\ \A h, g : Same(h, g) => Stays(h, g)
  /\ \A h, g : Stays(h, g) => Survives(h, g)
  /\ \A h, g, k : Stays(h, g) /\ Stays(g, k) => Stays(h, k)
  /\ \A h, g, k : Stays(h, g) /\ Survives(g, k) => Survives(h, k)
BY DEF Kept, Same, Stays, Survives

(* An activation starts; a paused page retires the active slot first, but  *)
(* only one that the committed route does not name.                        *)
LEMMA StartActivationKeeps ==
  ASSUME NEW h, Rest(h), Held(h, {}), NEW t, DOMAIN t = ItemFields, t.k = "activate"
  PROVE  LET g == StartActivation(h, t) IN Rest(g) /\ Held(g, {}) /\ Survives(h, g)
<1> DEFINE g == StartActivation(h, t)
<1>1. CASE ~MayActivate(h, t)
  BY <1>1 DEF StartActivation, Survives
<1>2. CASE /\ MayActivate(h, t)
           /\ t.retire /\ (h.active = 0 \/ h.slots[h.active].pub # h.route.apub)
  <2> DEFINE r == RetireActive(h)
             u == [t EXCEPT !.retire = FALSE]
  <2>1. Rest(r) /\ Held(r, {}) /\ r.route = h.route
    BY RetireActiveKeeps
  <2>2. DOMAIN u = ItemFields /\ u.k = "activate"
    BY DEF ItemFields
  <2>3. g = [r EXCEPT !.run = u]
    BY <1>2 DEF StartActivation
  <2> HIDE DEF r, u, g
  <2>4. Rest(g) /\ Held(g, {}) /\ g.route = h.route
    BY <2>1, <2>2, <2>3, RunKeeps
  <2>5. Survives(h, g)
    BY <1>2, <2>4 DEF Survives
  <2> QED BY <2>4, <2>5 DEF g
<1>3. CASE /\ MayActivate(h, t)
           /\ ~(t.retire /\ (h.active = 0 \/ h.slots[h.active].pub # h.route.apub))
  BY <1>3, ActivateKeeps DEF StartActivation
<1> QED BY <1>1, <1>2, <1>3

(* The end of a resynchronisation activates what the server committed.     *)
LEMMA ResyncedKeeps ==
  ASSUME NEW h, Rest(h), Held(h, {}), NEW t
  PROVE  LET g == Resynced(h, t) IN Rest(g) /\ Held(g, {}) /\ Survives(h, g)
<1> DEFINE g == Resynced(h, t)
           y == [h EXCEPT !.resyncing = FALSE]
           q == QueueActivation(y, y.route.atok, y.route.arev, FALSE)
<1>1. Same(h, y) /\ y.route = h.route
  BY DEF Same, Rest, Shape, HostFields
<1>2. g = h \/ g = y \/ g = QueueActivation(y, h.route.atok, h.route.arev, FALSE)
  BY DEF Resynced
<1> HIDE DEF y, g
<1>3. Rest(y) /\ Held(y, {}) /\ Stays(h, y)
  BY <1>1, SameKeeps, SameHeld, StaysSurvives
<1>4. CASE g = h
  BY <1>4 DEF Survives, g
<1>5. CASE g = y
  BY <1>3, <1>5, StaysSurvives DEF g
<1>6. CASE g = QueueActivation(y, h.route.atok, h.route.arev, FALSE)
  <2>1. Rest(g) /\ Held(g, {}) /\ Kept(y, g)
    BY <1>3, <1>6, QueueActivationKeeps
  <2> QED BY <1>3, <2>1, StaysSurvives DEF g
<1> QED BY <1>2, <1>4, <1>5, <1>6

(* The closing that was put in line is done.                               *)
LEMMA CloseKeeps ==
  ASSUME NEW h, NEW i \in Slots, Rest(h), Held(h, {i}), i \notin {h.pending, h.active}
  PROVE  LET g == Drop(h, i) IN Rest(g) /\ Held(g, {}) /\ Kept(h, g)
<1> DEFINE g == Drop(h, i)
<1>1. /\ DOMAIN g = HostFields /\ g.route = h.route /\ g.resyncing = h.resyncing
      /\ g.next = h.next /\ g.closed = h.closed /\ g.queue = h.queue
      /\ g.active = h.active /\ g.pending = h.pending /\ g.run = h.run
      /\ g.open = h.open \ {i} /\ g.slots = [h.slots EXCEPT ![i].failed = TRUE]
  BY DEF Drop, Rest, Shape, HostFields
<1> HIDE DEF g
<1>2. /\ DOMAIN g.slots = Slots
      /\ \A j \in Slots : /\ DOMAIN g.slots[j] = SlotFields
                          /\ g.slots[j].at = h.slots[j].at /\ g.slots[j].pub = h.slots[j].pub
                          /\ g.slots[j].active = h.slots[j].active
                          /\ j # i => g.slots[j] = h.slots[j]
  BY <1>1 DEF Rest, Shape, SlotFields
<1>3. Lost(h, i, g)
  BY <1>1, <1>2 DEF Lost
<1>4. Rest(g) /\ Held(g, {}) /\ Kept(h, g)
  BY <1>3, LostKeeps
<1> QED BY <1>4 DEF g

(* Each kind of transition may start when it is at the head of the queue.  *)
LEMMA StartItemKeeps ==
  ASSUME NEW h, NEW t, Rest(h), ItemOK(h, t),
         Held(h, IF t.k = "close" THEN {t.slot} ELSE {}),
         t.k = "prepare" => \A k \in DOMAIN h.queue :
                               h.queue[k].k = "prepare" => h.queue[k].slot # t.slot
  PROVE  LET g == StartItem(h, t) IN Rest(g) /\ Held(g, {}) /\ Survives(h, g)
<1>1. CASE t.k = "activate"
  BY <1>1, StartActivationKeeps DEF StartItem, ItemOK
<1>2. CASE t.k = "prepare"
  <2>1. StartItem(h, t) = StartPreparation(h, t.slot)
    BY <1>2 DEF StartItem
  <2> QED BY <1>2, <2>1, StartPreparationKeeps, KeptSurvives DEF ItemOK
<1>3. CASE t.k = "close"
  <2>1. StartItem(h, t) = Drop(h, t.slot)
    BY <1>3 DEF StartItem
  <2> QED BY <1>3, <2>1, CloseKeeps, KeptSurvives DEF ItemOK
<1>4. CASE t.k \notin {"activate", "prepare", "close"}
  BY <1>4, ResyncedKeeps DEF StartItem
<1> QED BY <1>1, <1>2, <1>3, <1>4

(* The awaited part of an activation is over.                              *)
LEMMA ContinueKeeps ==
  ASSUME NEW h, Rest(h), Held(h, {})
  PROVE  LET g == ContinueItem(h) IN Rest(g) /\ Held(g, {}) /\ Survives(h, g)
<1> DEFINE g == [h EXCEPT !.run = Idle]
           r == ContinueItem(h)
           x == CommitMedia(g, h.run.tok)
           a == Activate(g, h.run)
<1>1. DOMAIN Idle = ItemFields /\ Idle.k = "idle"
  BY DEF Idle, Item, ItemFields
<1>2. r = g \/ r = x \/ r = a
  BY DEF ContinueItem
<1>3. Rest(g) /\ Held(g, {}) /\ Kept(h, g)
  BY <1>1, RunKeeps
<1> HIDE DEF g
<1>4. Rest(x) /\ Held(x, {}) /\ Kept(g, x)
  BY <1>3, CommitMediaSame, SameKeeps, SameHeld DEF Rest
<1>5. Rest(a) /\ Held(a, {}) /\ Survives(g, a)
  BY <1>3, ActivateKeeps DEF Rest, Lined
<1> HIDE DEF x, a, r
<1>6. Rest(r) /\ Held(r, {}) /\ Survives(h, r)
  <2>1. CASE r = g
    BY <1>3, <2>1, KeptSurvives
  <2>2. CASE r = x
    BY <1>3, <1>4, <2>2, KeptTransitive, KeptSurvives
  <2>3. CASE r = a
    BY <1>3, <1>5, <2>3, KeptSurvives
  <2> QED BY <1>2, <2>1, <2>2, <2>3
<1> QED BY <1>6 DEF r

-----------------------------------------------------------------------------
(* A commit marks the pending slot as its own.                             *)
LEMMA ClaimKeeps ==
  ASSUME NEW h, Rest(h), Held(h, {}), NEW m
  PROVE  LET g == Claim(h, m)
         IN  Rest(g) /\ Held(g, {}) /\ Kept(h, g) /\ g.resyncing = h.resyncing
<1> DEFINE g == Claim(h, m)
           i == h.pending
           y == [h EXCEPT !.slots[h.pending].tok = h.route.atok,
                          !.slots[h.pending].rev = m.rev]
<1>1. CASE g = h
  BY <1>1 DEF Kept
<1>2. CASE g # h
  <2>1. g = y /\ i # 0
    BY <1>2 DEF Claim
  <2>2. i \in Slots
    BY <2>1 DEF Rest, Shape, Slots
  <2>3. /\ DOMAIN y = HostFields /\ y.route = h.route /\ y.resyncing = h.resyncing
        /\ y.pending = h.pending /\ y.active = h.active /\ y.open = h.open
        /\ y.next = h.next /\ y.queue = h.queue /\ y.run = h.run /\ y.closed = h.closed
        /\ y.slots = [[h.slots EXCEPT ![i].tok = h.route.atok] EXCEPT ![i].rev = m.rev]
    BY DEF Rest, Shape, HostFields
  <2> HIDE DEF y, g
  <2>4. Marked(h, y)
    BY <2>2, <2>3 DEF Marked, Rest, Shape, SlotFields
  <2>5. Rest(y) /\ Held(y, {}) /\ Kept(h, y)
    BY <2>3, <2>4, MarkedKeeps
  <2> QED BY <2>1, <2>3, <2>5 DEF g
<1> QED BY <1>1, <1>2

(* A paused page lets go only of a publication that the new route does not *)
(* name, and puts its closing in line.                                     *)
LEMMA DetachedKeeps ==
  ASSUME NEW h, Rest(h), Held(h, {}), NEW m, NEW dup
  PROVE  LET g == Detached(h, m, dup)
         IN  /\ Rest(g) /\ Held(g, {}) /\ g.route = h.route /\ g.resyncing = h.resyncing
             /\ g = h \/ (~dup /\ h.slots[h.active].pub # m.pub)
<1> DEFINE i == h.active
           a == [h EXCEPT !.active = 0, !.slots[h.active].failed = TRUE]
           t == Item("close", h.active, 0, 0, FALSE)
           g == Detached(h, m, dup)
<1>1. CASE ~(h.paused /\ ~dup /\ h.active # 0 /\ h.slots[h.active].pub # m.pub)
  BY <1>1 DEF Detached
<1>2. CASE h.paused /\ ~dup /\ h.active # 0 /\ h.slots[h.active].pub # m.pub
  <2>1. /\ DOMAIN a = HostFields /\ a.route = h.route /\ a.resyncing = h.resyncing
        /\ a.next = h.next /\ a.closed = h.closed /\ a.queue = h.queue
        /\ a.active = 0 /\ a.pending = h.pending /\ a.run = h.run
        /\ a.open = h.open /\ a.slots = [h.slots EXCEPT ![i].failed = TRUE]
    BY DEF Rest, Shape, HostFields
  <2>2. g = Queue(a, t)
    BY <1>2 DEF Detached
  <2>3. DOMAIN t = ItemFields /\ t.k = "close" /\ t.slot = i
    BY DEF Item, ItemFields
  <2>4. /\ i \in Slots /\ h.slots[i].at = "done" /\ i # h.pending
        /\ h.pending # 0 => h.pending \in Slots
    BY <1>2 DEF Rest, Shape, Placed, Slots
  <2> HIDE DEF a, t, g, i
  <2>5. /\ DOMAIN a.slots = Slots
        /\ \A j \in Slots : /\ DOMAIN a.slots[j] = SlotFields
                            /\ a.slots[j].at = h.slots[j].at
                            /\ a.slots[j].pub = h.slots[j].pub
                            /\ a.slots[j].active = h.slots[j].active
                            /\ j # i => a.slots[j] = h.slots[j]
    BY <2>1, <2>4 DEF Rest, Shape, SlotFields
  <2>6. Shape(a)
    BY <2>1, <2>5, Bounds DEF Rest, Shape
  <2>7. Slotted(a)
    BY <2>1, <2>5 DEF Rest, Slotted
  <2>8. Placed(a)
    BY <2>1, <2>4, <2>5 DEF Rest, Placed
  <2>9. Lined(a) /\ ToClose(a) = ToClose(h)
    BY <2>1, <2>5, LinedKeeps
  <2>10. Held(a, {i})
    <3>1. Waits(a) = Waits(h)
      BY <2>1, <2>5 DEF Waits
    <3> QED BY <2>1, <2>9, <3>1 DEF Held, i
  <2>11. ItemOK(a, t)
    BY <2>1, <2>3, <2>4, <2>5 DEF ItemOK, Slots
  <2>12. Rest(a) /\ {i} \ {t.slot} = {}
    BY <2>3, <2>6, <2>7, <2>8, <2>9 DEF Rest
  <2>13. /\ Rest(g) /\ Held(g, {i} \ {t.slot}) /\ g.resyncing = a.resyncing
         /\ Kept(a, g)
    BY <2>2, <2>3, <2>10, <2>11, <2>12, QueueKeeps
  <2> QED BY <1>2, <2>1, <2>12, <2>13 DEF Kept, g
<1> QED BY <1>1, <1>2

(* The commit of a route, new or repeated.                                 *)
LEMMA AcceptActiveKeeps ==
  ASSUME NEW h, Rest(h), Held(h, {}), NEW m, NEW dup, ~dup => h.route.apub = m.pub
  PROVE  LET g == AcceptActive(h, m, dup)
         IN  Rest(g) /\ Held(g, {}) /\ Survives(h, g) /\ g.resyncing = h.resyncing
<1> DEFINE d == Detached(h, m, dup)
           e == Claim(d, m)
           g == AcceptActive(h, m, dup)
<1>1. /\ Rest(d) /\ Held(d, {}) /\ d.route = h.route /\ d.resyncing = h.resyncing
      /\ d = h \/ (~dup /\ h.slots[h.active].pub # m.pub)
  BY DetachedKeeps
<1> HIDE DEF d
<1>2. Rest(e) /\ Held(e, {}) /\ Kept(d, e) /\ e.resyncing = d.resyncing
  BY <1>1, ClaimKeeps
<1>3. g = e \/ g = QueueActivation(e, e.route.atok, e.route.arev, e.paused)
  BY DEF AcceptActive, e, d
<1> HIDE DEF e, g
<1>4. Rest(g) /\ Held(g, {}) /\ Kept(d, g) /\ g.resyncing = d.resyncing
  <2>1. CASE g = e
    BY <1>2, <2>1
  <2>2. CASE g = QueueActivation(e, e.route.atok, e.route.arev, e.paused)
    <3>1. Rest(g) /\ Held(g, {}) /\ Kept(e, g) /\ g.resyncing = e.resyncing
      BY <1>2, <2>2, QueueActivationKeeps
    <3> QED BY <1>2, <3>1, KeptTransitive
  <2> QED BY <1>3, <2>1, <2>2
<1>5. Survives(h, g)
  <2>1. CASE d = h
    BY <1>4, <2>1, KeptSurvives
  <2>2. CASE ~dup /\ h.slots[h.active].pub # m.pub
    <3>1. g.route.apub = m.pub
      BY <1>1, <1>4, <2>2 DEF Kept
    <3> QED BY <2>2, <3>1 DEF Survives
  <2> QED BY <1>1, <2>1, <2>2
<1> QED BY <1>1, <1>4, <1>5 DEF g

(* Only a commit changes which publication the committed route names.      *)
LEMMA AdvanceIs ==
  ASSUME NEW r, DOMAIN r = RouteFields, NEW m
  PROVE  /\ DOMAIN Advance(r, m) = RouteFields
         /\ m.t = "active" => Advance(r, m).apub = m.pub
         /\ m.t # "active" => Advance(r, m).apub = r.apub
BY DEF Advance, RouteFields

(* Any route update of the server: outdated, repeated, a preparation or a  *)
(* commit.                                                                 *)
LEMMA AcceptUpdateKeeps ==
  ASSUME NEW h, Rest(h), Held(h, {}), NEW m
  PROVE  LET g == AcceptUpdate(h, m)
         IN  Rest(g) /\ Held(g, {}) /\ Survives(h, g) /\ g.resyncing = h.resyncing
<1> DEFINE dup == Repeated(h.route, m)
           a == [h EXCEPT !.route = IF dup THEN @ ELSE Advance(@, m)]
           f == [a EXCEPT !.recovery = IF h.route.rev = m.rev THEN @ ELSE NoRecovery]
           g == AcceptUpdate(h, m)
<1>1. CASE h.closed \/ StaleUpdate(h.route, m)
  BY <1>1 DEF AcceptUpdate, Survives
<1>2. CASE ~(h.closed \/ StaleUpdate(h.route, m))
  <2>1. /\ Same(h, a) /\ a.resyncing = h.resyncing
        /\ a.route = IF dup THEN h.route ELSE Advance(h.route, m)
    <3>1. DOMAIN (IF dup THEN h.route ELSE Advance(h.route, m)) = RouteFields
      BY AdvanceIs DEF Rest, Shape
    <3> QED BY <3>1 DEF Same, Rest, Shape, HostFields
  <2>2. \/ g = AcceptActive(f, m, dup) /\ m.t = "active"
        \/ g = ClearPending(a)
        \/ g = AcceptPrepare(f, m)
    BY <1>2 DEF AcceptUpdate
  <2>3. (m.t = "active" /\ ~dup) => a.route.apub = m.pub
    BY <2>1, AdvanceIs DEF Rest, Shape
  <2> HIDE DEF a, g, dup
  <2>4. Rest(a) /\ Held(a, {}) /\ Stays(h, a)
    BY <2>1, SameKeeps, SameHeld, StaysSurvives
  <2>5. Same(a, f) /\ f.route = a.route /\ f.resyncing = a.resyncing
    BY <2>4 DEF Same, Rest, Shape, HostFields
  <2> HIDE DEF f
  <2>6. Rest(f) /\ Held(f, {}) /\ Stays(h, f)
    BY <2>4, <2>5, SameKeeps, SameHeld, StaysSurvives
  <2>7. CASE g = AcceptActive(f, m, dup) /\ m.t = "active"
    <3>1. Rest(g) /\ Held(g, {}) /\ Survives(f, g) /\ g.resyncing = f.resyncing
      BY <2>3, <2>5, <2>6, <2>7, AcceptActiveKeeps
    <3> QED BY <2>1, <2>5, <2>6, <3>1, StaysSurvives DEF g
  <2>8. CASE g = ClearPending(a)
    <3>1. Rest(g) /\ Held(g, {}) /\ Kept(a, g)
      BY <2>4, <2>8, ClearPendingKeeps
    <3> QED BY <2>1, <2>4, <3>1, StaysSurvives DEF g, Kept
  <2>9. CASE g = AcceptPrepare(f, m)
    <3>1. g = f \/ g = ClearPending(f)
      BY <2>9 DEF AcceptPrepare
    <3>2. CASE g = f
      BY <2>1, <2>5, <2>6, <3>2, StaysSurvives DEF g
    <3>3. CASE g = ClearPending(f)
      <4>1. Rest(g) /\ Held(g, {}) /\ Kept(f, g)
        BY <2>6, <3>3, ClearPendingKeeps
      <4> QED BY <2>1, <2>5, <2>6, <4>1, StaysSurvives DEF g, Kept
    <3> QED BY <3>1, <3>2, <3>3
  <2> QED BY <2>2, <2>7, <2>8, <2>9
<1> QED BY <1>1, <1>2

(* The route before the first update is a route.                           *)
LEMMA NoRouteIs ==
  ASSUME NEW n PROVE DOMAIN NoRoute(n) = RouteFields
BY DEF NoRoute, RouteFields

(* A reauthentication whose revisions start over retires both publishers;  *)
(* any other is an update.                                                 *)
LEMMA ResyncKeeps ==
  ASSUME NEW h, Rest(h), Held(h, {}), NEW m
  PROVE  LET g == Resync(h, m) IN Rest(g) /\ Held(g, {}) /\ Survives(h, g)
<1>1. CASE h.closed \/ ~StaleUpdate(h.route, m)
  BY <1>1, AcceptUpdateKeeps DEF Resync
<1>2. CASE ~(h.closed \/ ~StaleUpdate(h.route, m))
  <2> DEFINE a == [h EXCEPT !.rgen = @ + 1, !.resyncing = TRUE,
                            !.route = NoRoute(h.route.gen + 1), !.recovery = NoRecovery]
             b == ClearPending(a)
             r == RetireActive(b)
             u == AcceptUpdate(r, m)
             t == Item("resync", 0, h.rgen + 1, 0, FALSE)
             g == Resync(h, m)
  <2>1. Same(h, a) /\ a.resyncing = TRUE
    BY NoRouteIs DEF Same, Rest, Shape, HostFields
  <2>2. g = Queue(u, t)
    BY <1>2 DEF Resync, RetirePublishers
  <2>3. DOMAIN t = ItemFields /\ t.k = "resync"
    BY DEF Item, ItemFields
  <2> HIDE DEF a, g, t
  <2>4. Rest(a) /\ Held(a, {})
    BY <2>1, SameKeeps, SameHeld
  <2>5. Rest(b) /\ Held(b, {}) /\ b.resyncing = TRUE
    BY <2>1, <2>4, ClearPendingKeeps DEF Kept
  <2> HIDE DEF b
  <2>6. Rest(r) /\ Held(r, {}) /\ r.resyncing = TRUE
    BY <2>5, RetireActiveKeeps
  <2> HIDE DEF r
  <2>7. Rest(u) /\ Held(u, {}) /\ u.resyncing = TRUE
    BY <2>6, AcceptUpdateKeeps
  <2> HIDE DEF u
  <2>8. ItemOK(u, t)
    BY <2>3 DEF ItemOK
  <2>9. Rest(g) /\ Held(g, {}) /\ g.resyncing = TRUE
    BY <2>2, <2>3, <2>7, <2>8, QueueKeeps
  <2> QED BY <2>9 DEF Survives, g
<1> QED BY <1>1, <1>2

(* A publisher opens in a slot that was never used; the pending one it     *)
(* replaces is closed.                                                     *)
LEMMA OpenedKeeps ==
  ASSUME NEW h, Rest(h), Held(h, {}), h.next <= MaxSlots, ~h.closed,
         NEW s, DOMAIN s = SlotFields, s.at = "connect", s.pub # 0, ~s.active, ~s.failed,
         NEW g, g = [ClearPending(h) EXCEPT !.slots[h.next] = s, !.pending = h.next,
                                  !.open = (@ \ {h.pending}) \cup {h.next}, !.next = @ + 1]
  PROVE  Rest(g) /\ Held(g, {}) /\ Kept(h, g)
<1> DEFINE d == ClearPending(h)
           n == h.next
<1>1. /\ Rest(d) /\ Held(d, {}) /\ Kept(h, d) /\ d.pending = 0 /\ d.next = n
      /\ d.active = h.active /\ d.closed = h.closed
  BY ClearPendingKeeps
<1>3. h.pending \notin d.open
  <2>1. CASE h.pending = 0
    BY <1>1, <2>1 DEF Rest, Shape, Slots
  <2>2. CASE h.pending # 0
    <3>1. d.open = h.open \ {h.pending}
      BY <2>2 DEF ClearPending, Drop, Rest, Shape, HostFields
    <3> QED BY <3>1
  <2> QED BY <2>1, <2>2
<1> HIDE DEF d
<1>4. /\ DOMAIN g = HostFields /\ g.route = d.route /\ g.resyncing = d.resyncing
      /\ g.next = n + 1 /\ g.closed = d.closed /\ g.queue = d.queue
      /\ g.active = d.active /\ g.pending = n /\ g.run = d.run
      /\ g.open = d.open \cup {n} /\ g.slots = [d.slots EXCEPT ![n] = s]
  BY <1>1, <1>3 DEF Rest, Shape, HostFields, d
<1>5. /\ n \in Slots /\ n \in Nat \ {0} /\ d.slots[n].at = "none"
      /\ d.active # 0 => d.active \in Slots /\ d.slots[d.active].at = "done"
  BY <1>1, Bounds DEF Rest, Shape, Slotted, Placed, Slots
<1> HIDE DEF n
<1>6. /\ DOMAIN g.slots = Slots /\ g.slots[n] = s
      /\ \A j \in Slots \ {n} : g.slots[j] = d.slots[j]
  BY <1>1, <1>4, <1>5 DEF Rest, Shape
<1>7. Shape(g)
  BY <1>1, <1>4, <1>5, <1>6, Bounds DEF Rest, Shape, Slots
<1>8. Slotted(g)
  BY <1>1, <1>4, <1>5, <1>6 DEF Rest, Slotted, Slots
<1>9. Placed(g)
  BY <1>1, <1>4, <1>5, <1>6 DEF Rest, Placed
<1>10. ASSUME NEW k \in DOMAIN d.queue PROVE ItemOK(g, d.queue[k])
  <2>1. ItemOK(d, d.queue[k])
    BY <1>1, <1>10 DEF Rest, Lined
  <2> QED BY <1>1, <1>4, <1>5, <1>6, <2>1 DEF ItemOK
<1>11. Lined(g)
  <2>1. /\ Listed(d.queue) /\ DOMAIN d.run = ItemFields
        /\ \A j, k \in DOMAIN d.queue :
             j # k /\ d.queue[j].k = "prepare" /\ d.queue[k].k = "prepare"
               => d.queue[j].slot # d.queue[k].slot
    BY <1>1 DEF Rest, Lined
  <2>2. d.run.k = "prepare" => d.run.slot \in Slots /\ d.slots[d.run.slot].at = "prepare"
    BY <1>1 DEF Rest, Lined
  <2>3. g.run.k = "prepare" => g.run.slot \in Slots /\ g.slots[g.run.slot].at = "prepare"
    BY <1>4, <1>5, <1>6, <2>2
  <2> QED BY <1>4, <1>10, <2>1, <2>3 DEF Lined
<1>12. ToClose(g) = ToClose(d)
  BY <1>4 DEF ToClose
<1>13. ASSUME NEW j \in Waits(d) PROVE j \in Waits(g)
  <2>1. j \in Slots /\ j # n
    BY <1>5, <1>13 DEF Waits
  <2> QED BY <1>4, <1>6, <1>13, <2>1 DEF Waits
<1>14. Held(g, {})
  <2>1. 0 \notin d.open
    BY <1>1 DEF Rest, Shape, Slots
  <2> QED BY <1>1, <1>4, <1>12, <1>13, <2>1 DEF Held
<1>15. Kept(d, g)
  BY <1>4, <1>5, <1>6 DEF Kept
<1> QED BY <1>1, <1>7, <1>8, <1>9, <1>11, <1>14, <1>15, KeptTransitive DEF Rest, d

(* A publication is described: the one in use again, the pending one       *)
(* again, or a new one.                                                    *)
LEMMA AcceptPublicationKeeps ==
  ASSUME NEW h, Rest(h), Held(h, {}), h.next <= MaxSlots, NEW m
  PROVE  LET g == AcceptPublication(h, m) IN Rest(g) /\ Held(g, {}) /\ Survives(h, g)
<1> DEFINE g == AcceptPublication(h, m)
           mine == h.active # 0 /\ h.slots[h.active].pub = m.pub
           dup == /\ h.pending # 0 /\ h.slots[h.pending].pub = m.pub
                  /\ ~h.slots[h.pending].failed
                  /\ (h.slots[h.pending].rev = m.rev \/ h.slots[h.pending].tok # 0)
<1>1. CASE ~Planned(h, m)
  BY <1>1 DEF AcceptPublication, Survives
<1>2. CASE Planned(h, m) /\ mine
  <2> DEFINE y == [h EXCEPT !.slots[h.active].rev = m.rev]
             i == h.active
  <2>1. i \in Slots
    BY <1>2 DEF Rest, Shape, Slots
  <2>2. /\ DOMAIN y = HostFields /\ y.route = h.route /\ y.resyncing = h.resyncing
        /\ y.pending = h.pending /\ y.active = h.active /\ y.open = h.open
        /\ y.next = h.next /\ y.queue = h.queue /\ y.run = h.run /\ y.closed = h.closed
        /\ y.slots = [h.slots EXCEPT ![i].rev = m.rev]
    BY DEF Rest, Shape, HostFields
  <2>3. g = y \/ g = QueueActivation(y, h.route.gen, m.rev, FALSE)
    BY <1>2 DEF AcceptPublication
  <2> HIDE DEF y, g
  <2>4. Marked(h, y)
    BY <2>1, <2>2 DEF Marked, Rest, Shape, SlotFields
  <2>5. Rest(y) /\ Held(y, {}) /\ Kept(h, y)
    BY <2>2, <2>4, MarkedKeeps
  <2>6. CASE g = y
    BY <2>5, <2>6, KeptSurvives DEF g
  <2>7. CASE g = QueueActivation(y, h.route.gen, m.rev, FALSE)
    <3>1. Rest(g) /\ Held(g, {}) /\ Kept(y, g)
      BY <2>5, <2>7, QueueActivationKeeps
    <3> QED BY <2>5, <3>1, KeptTransitive, KeptSurvives DEF g
  <2> QED BY <2>3, <2>6, <2>7
<1>3. CASE Planned(h, m) /\ ~mine /\ dup
  BY <1>3 DEF AcceptPublication, Survives
<1>4. CASE Planned(h, m) /\ ~mine /\ ~dup
  <2> DEFINE s == [NoSlot EXCEPT !.rev = m.rev, !.pub = m.pub, !.at = "connect",
                                 !.tok = IF h.route.phase = "active"
                                         THEN h.route.atok ELSE 0]
  <2>1. /\ DOMAIN s = SlotFields /\ s.at = "connect" /\ s.pub = m.pub
        /\ ~s.active /\ ~s.failed
    BY DEF NoSlot, SlotFields
  <2>2. g = [ClearPending(h) EXCEPT !.slots[h.next] = s, !.pending = h.next,
                            !.open = (@ \ {h.pending}) \cup {h.next}, !.next = @ + 1]
    BY <1>4 DEF AcceptPublication
  <2>3. m.pub # 0 /\ ~h.closed
    BY <1>4 DEF Planned
  <2> HIDE DEF s, g
  <2>4. Rest(g) /\ Held(g, {}) /\ Kept(h, g)
    BY <2>1, <2>2, <2>3, OpenedKeeps
  <2> QED BY <2>4, KeptSurvives DEF g
<1> QED BY <1>1, <1>2, <1>3, <1>4

-----------------------------------------------------------------------------
(* The share ended or not, closing publishers is the same.                 *)
Like(h, g) ==
  /\ DOMAIN g = HostFields /\ DOMAIN g.route = RouteFields
  /\ g.pending = h.pending /\ g.active = h.active /\ g.slots = h.slots
  /\ g.open = h.open /\ g.next = h.next /\ g.queue = h.queue /\ g.run = h.run

(* Clearing and retiring do not look at what the two records differ in.    *)
LEMMA RetireLike ==
  ASSUME NEW h, NEW g, Shape(h), Like(h, g)
  PROVE  /\ Like(ClearPending(h), ClearPending(g))
         /\ Like(RetireActive(h), RetireActive(g))
         /\ ClearPending(g).closed = g.closed /\ RetireActive(g).closed = g.closed
<1>1. Like(ClearPending(h), ClearPending(g)) /\ ClearPending(g).closed = g.closed
  <2>1. CASE h.pending = 0
    BY <2>1 DEF Like, ClearPending
  <2>2. CASE h.pending # 0
    BY <2>2 DEF Like, ClearPending, Drop, Shape, HostFields
  <2> QED BY <2>1, <2>2
<1>2. Like(RetireActive(h), RetireActive(g)) /\ RetireActive(g).closed = g.closed
  <2>1. CASE h.active = 0
    BY <2>1 DEF Like, RetireActive
  <2>2. CASE h.active # 0
    BY <2>2 DEF Like, RetireActive, Drop, Shape, HostFields
  <2> QED BY <2>1, <2>2
<1> QED BY <1>1, <1>2

(* The end of the share closes both publishers; what still waits closes    *)
(* the others.                                                             *)
LEMMA DisconnectedKeeps ==
  ASSUME NEW h, Rest(h), Held(h, {})
  PROVE  LET g == Disconnected(h) IN Rest(g) /\ Held(g, {})
<1> DEFINE a == [h EXCEPT !.closed = TRUE, !.rgen = @ + 1, !.resyncing = FALSE,
                          !.route = NoRoute(h.route.gen + 1), !.recovery = NoRecovery]
           b == ClearPending(h)
           r == RetireActive(b)
           y == ClearPending(a)
           g == RetireActive(y)
<1>1. Like(h, a) /\ a.closed = TRUE
  BY NoRouteIs DEF Like, Rest, Shape, HostFields
<1>2. g = Disconnected(h)
  BY DEF Disconnected, RetirePublishers
<1> HIDE DEF a
<1>3. Rest(b) /\ Held(b, {}) /\ b.pending = 0
  BY ClearPendingKeeps
<1>4. Like(b, y)
  BY <1>1, RetireLike DEF Rest
<1> HIDE DEF b, y
<1>5. Rest(r) /\ Held(r, {}) /\ r.pending = 0 /\ r.active = 0
  BY <1>3, RetireActiveKeeps
<1>6. Like(r, g)
  BY <1>3, <1>4, RetireLike DEF Rest
<1> HIDE DEF r, g
<1>7. Shape(g) /\ Slotted(g) /\ Placed(g)
  BY <1>5, <1>6 DEF Like, Rest, Shape, Slotted, Placed
<1>8. Lined(g)
  BY <1>5, <1>6 DEF Like, Rest, Lined, ItemOK
<1>9. Held(g, {})
  BY <1>5, <1>6 DEF Like, Held, Waits, ToClose
<1> QED BY <1>2, <1>7, <1>8, <1>9 DEF Rest

-----------------------------------------------------------------------------
(* The page is consistent, and no publisher is left open unaccounted for.  *)
PageInv == Rest(host) /\ Held(host, {})

(* Whatever message arrives, in whatever state the page is.                *)
LEMMA ReceiveKeeps ==
  ASSUME PageInv, Receive PROVE PageInv' /\ Survives(host, host')
<1> DEFINE m == Head(inbox)
           l == [host EXCEPT !.link = TRUE]
<1>1. Same(host, l)
  BY DEF PageInv, Same, Rest, Shape, HostFields
<1>2. \/ host' = AcceptPublication(host, m)
      \/ host' = Resync(l, [m EXCEPT !.t = "active"])
      \/ host' = AcceptUpdate(host, m)
  BY DEF Receive
<1> HIDE DEF l, m
<1>3. CASE host' = AcceptPublication(host, m)
  <2>1. host.next <= MaxSlots
    BY DEF Receive
  <2> QED BY <1>3, <2>1, AcceptPublicationKeeps DEF PageInv
<1>4. CASE host' = Resync(l, [m EXCEPT !.t = "active"])
  <2> DEFINE k == [m EXCEPT !.t = "active"]
  <2>1. Rest(l) /\ Held(l, {}) /\ Stays(host, l)
    BY <1>1, SameKeeps, SameHeld, StaysSurvives DEF PageInv
  <2> HIDE DEF k
  <2>2. LET g == Resync(l, k) IN Rest(g) /\ Held(g, {}) /\ Survives(l, g)
    BY <2>1, ResyncKeeps
  <2>3. host' = Resync(l, k)
    BY <1>4 DEF k
  <2> QED BY <2>1, <2>2, <2>3, StaysSurvives DEF PageInv
<1>5. CASE host' = AcceptUpdate(host, m)
  BY <1>5, AcceptUpdateKeeps DEF PageInv
<1> QED BY <1>2, <1>3, <1>4, <1>5

(* A slot's connection is made or fails.                                   *)
LEMMA ConnectKeeps ==
  ASSUME PageInv, Connect PROVE PageInv' /\ Survives(host, host')
<1>1. PICK i \in Slots, ok \in Outcomes :
        host.slots[i].at = "connect" /\ host' = SlotConnected(host, i, ok)
  BY DEF Connect
<1> QED BY <1>1, SlotConnectedKeeps DEF PageInv

(* The next transition starts.                                             *)
LEMMA TransitionKeeps ==
  ASSUME PageInv, Transition PROVE PageInv' /\ Survives(host, host')
<1> DEFINE g == [host EXCEPT !.queue = Tail(@)]
           t == Head(host.queue)
<1>1. host.queue # <<>> /\ host' = StartItem(g, t)
  BY DEF Transition
<1>2. /\ Rest(g) /\ Kept(host, g) /\ ItemOK(g, t)
      /\ Held(g, IF t.k = "close" THEN {t.slot} ELSE {})
      /\ t.k = "prepare" => \A k \in DOMAIN g.queue :
                               g.queue[k].k = "prepare" => g.queue[k].slot # t.slot
  BY <1>1, TailKeeps DEF PageInv
<1> HIDE DEF g, t
<1>3. Rest(host') /\ Held(host', {}) /\ Survives(g, host')
  BY <1>1, <1>2, StartItemKeeps
<1> QED BY <1>2, <1>3, KeptSurvives DEF PageInv

(* The running transition ends.                                            *)
LEMMA EndTransitionKeeps ==
  ASSUME PageInv, EndTransition PROVE PageInv' /\ Survives(host, host')
<1>1. CASE host.run.k = "prepare"
  <2>1. PICK ok \in Outcomes :
          IF host.run.slot \in host.open
          THEN host' = SlotPrepared(host, host.run.slot, ok) /\ Spent(ok)
          ELSE host' = SlotPrepared(host, host.run.slot, FALSE) /\ UNCHANGED budget
    BY <1>1 DEF EndTransition
  <2>2. ok \in BOOLEAN
    BY DEF Outcomes
  <2>3. PICK b \in BOOLEAN : /\ b => host.run.slot \in host.open
                             /\ host' = SlotPrepared(host, host.run.slot, b)
    BY <2>1, <2>2
  <2> QED BY <1>1, <2>3, SlotPreparedKeeps DEF PageInv
<1>2. CASE host.run.k # "prepare"
  <2>1. host' = ContinueItem(host)
    BY <1>2 DEF EndTransition
  <2> QED BY <2>1, ContinueKeeps DEF PageInv
<1> QED BY <1>1, <1>2

(* No step of the page lets go of what the committed route names.          *)
LEMMA PageKeeps ==
  ASSUME PageInv, Page PROVE PageInv' /\ Survives(host, host')
BY ReceiveKeeps, ConnectKeeps, TransitionKeeps, EndTransitionKeeps DEF Page

(* A publisher fails at any time.                                          *)
LEMMA FailsKeeps ==
  ASSUME PageInv, PublisherFails PROVE PageInv'
<1>1. PICK i \in host.open : host' = [HandleFailure(host, i, TRUE) EXCEPT !.open = @ \ {i}]
  BY DEF PublisherFails
<1>2. i \in Slots
  BY <1>1 DEF PageInv, Rest, Shape
<1>3. Lost(host, i, host')
  BY <1>1, <1>2, FailureIs DEF PageInv
<1>4. Held(host, {i})
  BY DEF PageInv, Held
<1> QED BY <1>2, <1>3, <1>4, LostKeeps DEF PageInv

(* The source is replaced by one of another kind: both publishers are      *)
(* lost.                                                                   *)
LEMMA ReplaceKeeps ==
  ASSUME PageInv, ReplaceSource PROVE PageInv'
<1> DEFINE i == host.active
           p == host.pending
           g == IF i = 0 THEN host ELSE Drop(HandleFailure(host, i, FALSE), i)
           r == IF p = 0 THEN g ELSE Drop(HandleFailure(g, p, FALSE), p)
<1>1. host' = r
  BY DEF ReplaceSource
<1>2. i # 0 => i \in Slots
  BY DEF PageInv, Rest, Shape, Slots
<1>3. p # 0 => p \in Slots
  BY DEF PageInv, Rest, Shape, Slots
<1> HIDE DEF p
<1>4. Rest(g) /\ Held(g, {})
  <2>1. CASE i = 0
    BY <2>1 DEF PageInv
  <2>2. CASE i # 0
    <3>1. Lost(host, i, g)
      BY <1>2, <2>2, FailureIs DEF PageInv
    <3>2. Held(host, {i})
      BY DEF PageInv, Held
    <3> HIDE DEF g, i
    <3> QED BY <1>2, <2>2, <3>1, <3>2, LostKeeps DEF PageInv
  <2> QED BY <2>1, <2>2
<1> HIDE DEF g
<1>5. Rest(r) /\ Held(r, {})
  <2>1. CASE p = 0
    BY <1>4, <2>1
  <2>2. CASE p # 0
    <3>1. Lost(g, p, r)
      BY <1>3, <1>4, <2>2, FailureIs
    <3>2. Held(g, {p})
      BY <1>4 DEF Held
    <3> HIDE DEF r
    <3> QED BY <1>3, <1>4, <2>2, <3>1, <3>2, LostKeeps
  <2> QED BY <2>1, <2>2
<1> QED BY <1>1, <1>5 DEF PageInv

(* The share is paused, which clears the pending publisher, or resumed.    *)
LEMMA PausedKeeps ==
  ASSUME PageInv, SetPaused PROVE PageInv'
<1> DEFINE a == [host EXCEPT !.paused = FALSE]
           b == [host EXCEPT !.paused = TRUE]
<1>1. host' = a \/ host' = ClearPending(b)
  BY DEF SetPaused
<1>2. Same(host, a) /\ Same(host, b)
  BY DEF PageInv, Same, Rest, Shape, HostFields
<1> HIDE DEF a, b
<1>3. Rest(a) /\ Held(a, {}) /\ Rest(b) /\ Held(b, {})
  BY <1>2, SameKeeps, SameHeld DEF PageInv
<1> QED BY <1>1, <1>3, ClearPendingKeeps DEF PageInv

(* Steps that change nothing the invariant looks at.                       *)
LEMMA QuietKeeps ==
  ASSUME PageInv, Same(host, host') \/ UNCHANGED host PROVE PageInv'
BY SameKeeps, SameHeld DEF PageInv

(* The server, the link and the user may do anything at any time.          *)
LEMMA EnvironmentKeeps ==
  ASSUME PageInv, Environment PROVE PageInv'
<1> USE DEF PageInv
<1>1. CASE EndShare
  BY <1>1, DisconnectedKeeps DEF EndShare
<1>2. CASE Hear
  <2>1. Same(host, host')
    BY <1>2 DEF Hear, Same, Rest, Shape, HostFields
  <2> QED BY <2>1, QuietKeeps
<1>3. CASE LoseLink \/ Restart
  <2>1. Same(host, host')
    BY <1>3 DEF LoseLink, Restart, LinkLost, Same, Rest, Shape, HostFields
  <2> QED BY <2>1, QuietKeeps
<1>4. CASE \/ PreparePublication \/ PrepareChild \/ MediaFlows \/ CommitPlan \/ AbortPlan
           \/ RetirePublication \/ Reauthenticate
  <2>1. UNCHANGED host
    BY <1>4 DEF PreparePublication, PrepareChild, MediaFlows, CommitPlan, AbortPlan,
                RetirePublication, Reauthenticate
  <2> QED BY <2>1, QuietKeeps
<1> QED BY <1>1, <1>2, <1>3, <1>4, FailsKeeps, ReplaceKeeps, PausedKeeps DEF Environment

-----------------------------------------------------------------------------
(* The server's numbers: every plan leaves room for its commit or its      *)
(* abort, and a publication in use for its retirement.                     *)
ServerInv ==
  /\ DOMAIN server = {"rev", "last", "pub", "pubs", "plan", "link"}
  /\ DOMAIN server.plan = {"rev", "pub", "sfu", "flows"}
  /\ server.last \in 1..(MaxRevision + 1) /\ server.rev \in 1..server.last
  /\ server.pubs \in 0..MaxPubs /\ server.pub \in 0..MaxPubs
  /\ server.plan # NoPlan => /\ server.plan.rev \in 1..server.last
                             /\ server.last < MaxRevision
                             /\ server.plan.pub \in 0..MaxPubs
  /\ server.pub # 0 => server.last <= MaxRevision

(* A commit or an abort uses the room its plan left.                       *)
LEMMA CommittedKeeps ==
  ASSUME ServerInv, server.plan # NoPlan \/ server.pub # 0, NEW pub \in {0, server.pub},
         server.plan = NoPlan => pub = 0, NEW s, s = Committed(server, pub), server' = s
  PROVE  ServerInv'
<1>1. /\ DOMAIN s = {"rev", "last", "pub", "pubs", "plan", "link"}
      /\ s.rev = server.last + 1 /\ s.last = server.last + 1 /\ s.pub = pub
      /\ s.plan = NoPlan /\ s.pubs = server.pubs
  BY DEF Committed, ServerInv
<1>2. DOMAIN NoPlan = {"rev", "pub", "sfu", "flows"}
  BY DEF NoPlan
<1> QED BY <1>1, <1>2, Bounds DEF ServerInv

(* The server's numbers stay in their bounds.                              *)
LEMMA ServerKeeps ==
  ASSUME ServerInv, [Next]_vars PROVE ServerInv'
<1>1. DOMAIN NoPlan = {"rev", "pub", "sfu", "flows"} /\ NoPlan.sfu = FALSE
  BY DEF NoPlan
<1>2. ASSUME UNCHANGED server PROVE ServerInv'
  BY <1>2 DEF ServerInv
<1>3. CASE PreparePublication
  <2> DEFINE q == [rev |-> server.last + 1, pub |-> server.pubs + 1,
                   sfu |-> TRUE, flows |-> FALSE]
  <2>1. server' = [server EXCEPT !.last = @ + 1, !.pubs = @ + 1, !.plan = q]
    BY <1>3 DEF PreparePublication, Tell
  <2>2. server.pub = 0 /\ server.pubs < MaxPubs /\ server.last + 1 < MaxRevision
    BY <1>3 DEF PreparePublication
  <2>3. DOMAIN q = {"rev", "pub", "sfu", "flows"} /\ q.rev = server.last + 1
        /\ q.pub = server.pubs + 1
    OBVIOUS
  <2> HIDE DEF q
  <2>4. /\ DOMAIN server' = {"rev", "last", "pub", "pubs", "plan", "link"}
        /\ server'.rev = server.rev /\ server'.last = server.last + 1
        /\ server'.pub = server.pub /\ server'.plan = q /\ server'.pubs = server.pubs + 1
    BY <2>1 DEF ServerInv
  <2> QED BY <2>2, <2>3, <2>4, Bounds DEF ServerInv
<1>4. CASE PrepareChild
  <2> DEFINE q == [NoPlan EXCEPT !.rev = server.last + 1, !.pub = server.pub]
  <2>1. server' = [server EXCEPT !.last = @ + 1, !.plan = q]
    BY <1>4 DEF PrepareChild, Tell
  <2>2. server.last + 1 < MaxRevision
    BY <1>4 DEF PrepareChild
  <2>3. DOMAIN q = {"rev", "pub", "sfu", "flows"} /\ q.rev = server.last + 1
        /\ q.pub = server.pub
    BY <1>1
  <2> HIDE DEF q
  <2>4. /\ DOMAIN server' = {"rev", "last", "pub", "pubs", "plan", "link"}
        /\ server'.rev = server.rev /\ server'.last = server.last + 1
        /\ server'.pub = server.pub /\ server'.plan = q /\ server'.pubs = server.pubs
    BY <2>1 DEF ServerInv
  <2> QED BY <2>2, <2>3, <2>4, Bounds DEF ServerInv
<1>5. CASE MediaFlows
  <2>1. server.plan.sfu /\ server' = [server EXCEPT !.plan.flows = TRUE]
    BY <1>5 DEF MediaFlows
  <2>2. server.plan # NoPlan
    BY <1>1, <2>1
  <2>3. /\ DOMAIN server' = {"rev", "last", "pub", "pubs", "plan", "link"}
        /\ server'.rev = server.rev /\ server'.last = server.last
        /\ server'.pub = server.pub /\ server'.pubs = server.pubs
        /\ server'.plan = [server.plan EXCEPT !.flows = TRUE]
    BY <2>1 DEF ServerInv
  <2>4. /\ DOMAIN server'.plan = {"rev", "pub", "sfu", "flows"}
        /\ server'.plan.rev = server.plan.rev /\ server'.plan.pub = server.plan.pub
    BY <2>3 DEF ServerInv
  <2> QED BY <2>2, <2>3, <2>4 DEF ServerInv
<1>6. CASE CommitPlan
  <2>1. /\ server.plan # NoPlan
        /\ server' = [server EXCEPT !.rev = server.plan.rev, !.pub = server.plan.pub,
                                    !.plan = NoPlan]
    BY <1>6 DEF CommitPlan, Tell
  <2>2. /\ DOMAIN server' = {"rev", "last", "pub", "pubs", "plan", "link"}
        /\ server'.rev = server.plan.rev /\ server'.last = server.last
        /\ server'.pub = server.plan.pub /\ server'.plan = NoPlan
        /\ server'.pubs = server.pubs
    BY <2>1 DEF ServerInv
  <2> QED BY <1>1, <2>1, <2>2, Bounds DEF ServerInv
<1>7. CASE AbortPlan
  <2>1. server.plan # NoPlan /\ server' = Committed(server, server.pub)
    BY <1>7 DEF AbortPlan, Tell
  <2> QED BY <2>1, CommittedKeeps
<1>8. CASE RetirePublication
  <2>1. server.pub # 0 /\ server' = Committed(server, 0)
    BY <1>8 DEF RetirePublication, Tell
  <2> QED BY <2>1, CommittedKeeps
<1>9. CASE Hear
  <2> DEFINE m == Head(host.sent)
  <2>1. \/ server.plan.sfu /\ server' = Committed(server, server.pub)
        \/ server.pub # 0 /\ server' = Committed(server, 0)
        \/ server' = server
    BY <1>9 DEF Hear, Heard, Tell
  <2>2. CASE server.plan.sfu /\ server' = Committed(server, server.pub)
    <3>1. server.plan # NoPlan
      BY <1>1, <2>2
    <3> QED BY <2>2, <3>1, CommittedKeeps
  <2>3. CASE server.pub # 0 /\ server' = Committed(server, 0)
    BY <2>3, CommittedKeeps
  <2> QED BY <1>2, <2>1, <2>2, <2>3
<1>10. CASE LoseLink
  <2>1. server' = [server EXCEPT !.link = FALSE]
    BY <1>10 DEF LoseLink, LinkLost
  <2>2. /\ DOMAIN server' = {"rev", "last", "pub", "pubs", "plan", "link"}
        /\ server'.rev = server.rev /\ server'.last = server.last
        /\ server'.pub = server.pub /\ server'.pubs = server.pubs
        /\ server'.plan = server.plan
    BY <2>1 DEF ServerInv
  <2> QED BY <2>2 DEF ServerInv
<1>11. CASE Restart
  <2> DEFINE s == [server EXCEPT !.rev = 1, !.last = 1, !.pub = 0, !.plan = NoPlan]
  <2>1. server' = [s EXCEPT !.link = FALSE]
    BY <1>11 DEF Restart, LinkLost
  <2>2. /\ DOMAIN s = {"rev", "last", "pub", "pubs", "plan", "link"}
        /\ s.rev = 1 /\ s.last = 1 /\ s.pub = 0 /\ s.pubs = server.pubs /\ s.plan = NoPlan
    BY DEF ServerInv
  <2> HIDE DEF s
  <2>3. /\ DOMAIN server' = {"rev", "last", "pub", "pubs", "plan", "link"}
        /\ server'.rev = 1 /\ server'.last = 1
        /\ server'.pub = 0 /\ server'.pubs = server.pubs
        /\ server'.plan = NoPlan
    BY <2>1, <2>2
  <2> QED BY <1>1, <2>3, Bounds DEF ServerInv
<1>12. CASE Reauthenticate
  <2>1. server' = [server EXCEPT !.link = TRUE]
    BY <1>12 DEF Reauthenticate
  <2>2. /\ DOMAIN server' = {"rev", "last", "pub", "pubs", "plan", "link"}
        /\ server'.rev = server.rev /\ server'.last = server.last
        /\ server'.pub = server.pub /\ server'.pubs = server.pubs
        /\ server'.plan = server.plan
    BY <2>1 DEF ServerInv
  <2> QED BY <2>2 DEF ServerInv
<1>13. CASE Page
  <2>1. UNCHANGED server
    BY <1>13 DEF Page, Receive, Connect, Transition, EndTransition
  <2> QED BY <1>2, <2>1
<1>14. CASE PublisherFails \/ ReplaceSource \/ SetPaused \/ EndShare
  <2>1. UNCHANGED server
    BY <1>14 DEF PublisherFails, ReplaceSource, SetPaused, EndShare
  <2> QED BY <1>2, <2>1
<1>15. CASE UNCHANGED vars
  BY <1>2, <1>15 DEF vars
<1> QED BY <1>3, <1>4, <1>5, <1>6, <1>7, <1>8, <1>9, <1>10, <1>11, <1>12, <1>13, <1>14, <1>15
        DEF Next, Environment

(* The page begins with nothing open and the server with nothing planned.  *)
LEMMA InitKeeps == Init => PageInv /\ ServerInv
<1> SUFFICES ASSUME Init PROVE PageInv /\ ServerInv
  OBVIOUS
<1>1. /\ DOMAIN host = HostFields /\ host.route = NoRoute(0) /\ host.pending = 0
      /\ host.active = 0 /\ host.slots = [i \in Slots |-> NoSlot] /\ host.open = {}
      /\ host.next = 1 /\ host.queue = <<>> /\ host.run = Idle /\ host.closed = FALSE
  BY DEF Init, HostFields
<1>2. DOMAIN NoSlot = SlotFields /\ NoSlot.at = "none" /\ ~NoSlot.active
  BY DEF NoSlot, SlotFields
<1>3. DOMAIN Idle = ItemFields /\ Idle.k = "idle"
  BY DEF Idle, Item, ItemFields
<1>4. Shape(host)
  BY <1>1, <1>2, NoRouteIs, Bounds DEF Shape
<1>5. Slotted(host) /\ Placed(host)
  BY <1>1, <1>2 DEF Slotted, Placed
<1>6. Lined(host)
  BY <1>1, <1>3 DEF Lined, Listed
<1>7. Held(host, {})
  BY <1>1 DEF Held
<1>8. ServerInv
  <2>1. DOMAIN NoPlan = {"rev", "pub", "sfu", "flows"}
    BY DEF NoPlan
  <2> QED BY <2>1, Bounds DEF Init, ServerInv
<1> QED BY <1>4, <1>5, <1>6, <1>7, <1>8 DEF PageInv, Rest

(* The invariant holds in every state: in any order of messages,           *)
(* callbacks, failures, pauses and losses of the link, the page's slots,   *)
(* its queue and its open publishers fit together.                         *)
THEOREM PublicationInvariant == Spec => [](PageInv /\ ServerInv)
<1>1. Init => PageInv /\ ServerInv
  BY InitKeeps
<1>2. (PageInv /\ ServerInv) /\ [Next]_vars => (PageInv /\ ServerInv)'
  <2> SUFFICES ASSUME PageInv, ServerInv, [Next]_vars PROVE PageInv' /\ ServerInv'
    OBVIOUS
  <2>1. ServerInv'
    BY ServerKeeps
  <2>2. CASE Page
    BY <2>1, <2>2, PageKeeps
  <2>3. CASE Environment
    BY <2>1, <2>3, EnvironmentKeeps
  <2>4. CASE UNCHANGED vars
    BY <2>1, <2>4, QuietKeeps DEF vars
  <2> QED BY <2>2, <2>3, <2>4 DEF Next
<1> QED BY <1>1, <1>2, PTL DEF Spec

(* PublicationSafety: a publisher that is open is the active one, the      *)
(* pending one, or one that an operation under way will close.  Clearing,  *)
(* retiring and displacing a slot at any point of its connecting or        *)
(* preparing leaves no publisher behind that goes on encoding for a route  *)
(* that is over.                                                           *)
THEOREM PublicationSafe == Spec => []PublicationSafety
<1>1. PageInv /\ ServerInv => PublicationSafety
  <2> SUFFICES ASSUME PageInv, ServerInv PROVE PublicationSafety
    OBVIOUS
  <2>1. TypeOK
    BY Bounds DEF PageInv, Rest, Shape, ServerInv, TypeOK
  <2>2. PublishersHeld
    BY DEF PageInv, Held, Waits, ToClose, PublishersHeld, Closing
  <2> QED BY <2>1, <2>2 DEF PublicationSafety
<1> QED BY <1>1, PublicationInvariant, PTL

(* SendingSurvivesPreparation: no step of the page, be it a route update,  *)
(* a description, a connection made or a transition of the queue, lets go  *)
(* of the publication that the committed route names, unless another       *)
(* publisher of the same publication takes over or the server's revisions  *)
(* start over.  Preparing a route is make before break.                    *)
THEOREM PublicationSurvives == Spec => SendingSurvivesPreparation
<1> DEFINE Step ==
      /\ Page /\ host.active \in host.open /\ ~host'.resyncing
      /\ host'.route.apub = host.slots[host.active].pub
      => /\ host'.active \in host'.open
         /\ host'.slots[host'.active].pub = host.slots[host.active].pub
<1>1. PageInv /\ [Next]_vars => [Step]_vars
  <2> SUFFICES ASSUME PageInv, Page, host.active \in host.open, ~host'.resyncing,
                      host'.route.apub = host.slots[host.active].pub
               PROVE  /\ host'.active \in host'.open
                      /\ host'.slots[host'.active].pub = host.slots[host.active].pub
    OBVIOUS
  <2>1. PageInv' /\ Survives(host, host')
    BY PageKeeps
  <2>2. host.active # 0
    BY DEF PageInv, Rest, Shape, Slots
  <2>3. /\ host'.active # 0
        /\ host'.slots[host'.active].pub = host.slots[host.active].pub
    BY <2>1, <2>2 DEF Survives
  <2>4. host'.active \in host'.open
    BY <2>1, <2>3 DEF PageInv, Rest, Placed
  <2> QED BY <2>3, <2>4
<1> QED BY <1>1, PublicationInvariant, PTL DEF Spec, SendingSurvivesPreparation

================================================================================
