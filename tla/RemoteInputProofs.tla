-------------------------- MODULE RemoteInputProofs --------------------------
(* That the manager is safe for any sessions, endpoints and inputs, and any  *)
(* number of faults: InputSafety is inductive.  Safe is what it says of the  *)
(* desktop, a property of a record that the operators of RemoteInput keep;   *)
(* Carried takes it over a change of the endpoints' and the shares' state.   *)
EXTENDS RemoteInput, TLAPS

Safe(d) ==
  d \in Desk /\ Accounted(d) /\ Authorized(d) /\ OwnerControls(d) /\ Together(d)

Typed == peer \in [Endpoints -> Peer] /\ share \in [Sessions -> Share]

(* The same owner, grants and gamepads.                                      *)
SameSeats(d, x) ==
  /\ x.owner = d.owner /\ x.grant = d.grant /\ x.suspended = d.suspended
  /\ x.pad = d.pad /\ x.padFailed = d.padFailed

(* Nobody controls.                                                          *)
Idle(d) == /\ d.owner = NoSession
           /\ \A c \in Endpoints : ~d.grant[c] /\ d.held[c] = {} /\ d.pad[c] = "none"

-----------------------------------------------------------------------------
(* Held inputs                                                               *)

LEMMA HeldBy ==
  ASSUME NEW d, NEW i
  PROVE  i \in Held(d) <=> \E c \in Endpoints : i \in d.held[c]
BY DEF Held

LEMMA DeskWith ==
  ASSUME NEW d \in Desk, NEW D \in SUBSET Inputs, NEW O \in SUBSET Inputs, NEW n \in Nat
  PROVE  [d EXCEPT !.down = D, !.debt = O, !.faults = n] \in Desk
BY DEF Desk

(* Releases that succeed leave nothing down, those that fail are owed.       *)
LEMMA ReleasedAccounted ==
  ASSUME NEW d \in Desk, NEW K \in SUBSET Inputs, NEW x \in Released(d, K),
         d.down \subseteq d.debt \cup Held(d) \cup K,
         Held(d) \subseteq d.down, Held(d) \cap (d.debt \cup K) = {}
  PROVE  x \in Desk /\ Accounted(x) /\ SameSeats(d, x) /\ x.held = d.held
<1>1. PICK F \in SUBSET K :
        x = [d EXCEPT !.down = @ \ (K \ F), !.debt = (@ \ K) \cup F,
                      !.faults = IF F = {} THEN @ ELSE @ + 1]
  BY DEF Released
<1>2. /\ x.down = d.down \ (K \ F) /\ x.debt = (d.debt \ K) \cup F
      /\ x.held = d.held /\ SameSeats(d, x)
  BY <1>1 DEF Desk, SameSeats
<1>3. x \in Desk
  <2>1. d.down \ (K \ F) \in SUBSET Inputs /\ (d.debt \ K) \cup F \in SUBSET Inputs
    BY DEF Desk
  <2>2. (IF F = {} THEN d.faults ELSE d.faults + 1) \in Nat
    BY DEF Desk
  <2> QED BY <1>1, <2>1, <2>2, DeskWith
<1>4. Held(x) = Held(d)
  BY <1>2 DEF Held
<1>5. Accounted(x)
  BY <1>2, <1>4 DEF Accounted
<1> QED BY <1>2, <1>3, <1>5

(* A desktop with the seats of a safe one is safe if only controllers hold.  *)
LEMMA SeatsSafe ==
  ASSUME NEW d, Safe(d), NEW x \in Desk, Accounted(x), SameSeats(d, x),
         \A c \in Endpoints :
           x.held[c] # {} => d.held[c] # {} \/ (d.grant[c] /\ ~d.suspended[c])
  PROVE  Safe(x)
<1>1. Authorized(x)
  BY DEF Safe, SameSeats, Authorized
<1>2. OwnerControls(x)
  BY DEF Safe, SameSeats, OwnerControls, Granted
<1>3. Together(x)
  BY DEF Safe, SameSeats, Together
<1> QED BY <1>1, <1>2, <1>3 DEF Safe

(* Grants, and with them inputs and gamepads, are the owner's.               *)
LEMMA OwnersOnly ==
  ASSUME NEW d, Safe(d), NEW c \in Endpoints,
         d.grant[c] \/ d.held[c] # {} \/ d.pad[c] # "none"
  PROVE  d.grant[c] /\ d.owner # NoSession /\ d.owner = peer[c].home /\ c \in Of(d.owner)
BY DEF Safe, Authorized, Together, Of

LEMMA RetrySafe ==
  ASSUME NEW d, Safe(d), NEW x \in RetryReleases(d)
  PROVE  Safe(x) /\ SameSeats(d, x) /\ x.held = d.held
<1>1. d \in Desk /\ d.debt \in SUBSET Inputs
  BY DEF Safe, Desk
<1>2. d.down \subseteq d.debt \cup Held(d) /\ Held(d) \subseteq d.down \ d.debt
  BY DEF Safe, Accounted
<1>3. x \in Desk /\ Accounted(x) /\ SameSeats(d, x) /\ x.held = d.held
  BY <1>1, <1>2, ReleasedAccounted DEF RetryReleases
<1> QED BY <1>3, SeatsSafe

LEMMA HeldTyped == ASSUME NEW d \in Desk PROVE Held(d) \in SUBSET Inputs
BY DEF Held, Desk

(* clearHeld: what the others hold stays down.                               *)
LEMMA ClearHeldSafe ==
  ASSUME NEW d, Safe(d), NEW X, NEW x \in ClearHeld(d, X)
  PROVE  /\ Safe(x) /\ SameSeats(d, x)
         /\ \A c \in Endpoints : x.held[c] = IF c \in X THEN {} ELSE d.held[c]
<1> DEFINE y == [d EXCEPT !.held = [c \in Endpoints |-> IF c \in X THEN {} ELSE @[c]]]
           K == Held(d) \ Held(y)
<1>0. x \in Released(y, K)
  BY DEF ClearHeld
<1>1. d \in Desk
  BY DEF Safe
<1>2. /\ y \in Desk /\ SameSeats(d, y) /\ y.down = d.down /\ y.debt = d.debt
      /\ \A c \in Endpoints : y.held[c] = IF c \in X THEN {} ELSE d.held[c]
  BY <1>1 DEF Desk, SameSeats
<1>3. Held(y) \subseteq Held(d)
  <2> HIDE DEF y
  <2> QED BY <1>2, HeldBy
<1>4. K \in SUBSET Inputs
  BY <1>1, HeldTyped
<1>5. d.down \subseteq d.debt \cup Held(d) /\ Held(d) \subseteq d.down \ d.debt
  BY DEF Safe, Accounted
<1>6. /\ y.down \subseteq y.debt \cup Held(y) \cup K
      /\ Held(y) \subseteq y.down /\ Held(y) \cap (y.debt \cup K) = {}
  BY <1>2, <1>3, <1>5
<1> HIDE DEF y, K
<1>7. x \in Desk /\ Accounted(x) /\ SameSeats(y, x) /\ x.held = y.held
  BY <1>0, <1>2, <1>4, <1>6, ReleasedAccounted
<1>8. SameSeats(d, x)
  BY <1>2, <1>7 DEF SameSeats
<1> QED BY <1>2, <1>7, <1>8, SeatsSafe

(* resetHeld of the owner: nobody holds anything, what may be down is owed.  *)
LEMMA ResetHeldSafe ==
  ASSUME NEW d, Safe(d), d.owner # NoSession, NEW x \in ResetHeld(d, d.owner)
  PROVE  Safe(x) /\ SameSeats(d, x) /\ \A c \in Endpoints : x.held[c] = {}
<1> DEFINE s == d.owner
           h == [c \in Endpoints |-> IF c \in Of(s) THEN {} ELSE d.held[c]]
<1>1. d \in Desk
  BY DEF Safe
<1>2. \A c \in Endpoints : c \notin Of(s) => d.held[c] = {}
  BY OwnersOnly
<1>3. UNION {d.held[c] : c \in Of(s)} = Held(d)
  BY <1>2 DEF Held, Of
<1>4. d.down \subseteq d.debt \cup Held(d) /\ Held(d) \in SUBSET Inputs
  BY <1>1, HeldTyped DEF Safe, Accounted
<1>5. /\ x \in Desk /\ SameSeats(d, x) /\ x.held = h
      /\ x.down \subseteq x.debt
  <2>1. CASE x = ResetDone(d, s)
    BY <1>1, <2>1 DEF ResetDone, Desk, SameSeats
  <2>2. CASE x \in ResetFailed(d, s)
    <3>1. PICK D \in SUBSET d.down :
            x = [d EXCEPT !.held = h, !.down = D, !.debt = @ \cup Held(d), !.faults = @ + 1]
      BY <1>3, <2>2 DEF ResetFailed
    <3>2. [d EXCEPT !.held = h] \in Desk
      BY <1>1 DEF Desk
    <3>3. D \in SUBSET Inputs /\ d.debt \cup Held(d) \in SUBSET Inputs /\ d.faults + 1 \in Nat
      BY <1>1, <1>4 DEF Desk
    <3>4. x \in Desk
      BY <3>1, <3>2, <3>3, DeskWith DEF Desk
    <3> HIDE DEF h
    <3>5. SameSeats(d, x) /\ x.held = h /\ x.down = D /\ x.debt = d.debt \cup Held(d)
      BY <1>1, <3>1 DEF Desk, SameSeats
    <3> QED BY <1>4, <3>4, <3>5
  <2> QED BY <2>1, <2>2 DEF ResetHeld
<1>6. \A c \in Endpoints : x.held[c] = {}
  BY <1>2, <1>5
<1>7. Held(x) = {}
  BY <1>6 DEF Held
<1>8. Accounted(x)
  BY <1>5, <1>7 DEF Accounted
<1> QED BY <1>5, <1>6, <1>8, SeatsSafe

(* applyHeld, of a press.                                                    *)
LEMMA PressedSafe ==
  ASSUME NEW d, Safe(d), NEW c \in Endpoints, NEW i \in Inputs,
         d.grant[c], ~d.suspended[c], NEW x \in Pressed(d, c, i)
  PROVE  Safe(x) /\ SameSeats(d, x)
<1>1. PICK r \in RetryReleases(d) :
        x \in IF r.debt # {} THEN {r}
              ELSE LET y == [r EXCEPT !.held[c] = @ \cup {i}, !.down = @ \cup {i}]
                   IN  IF i \in Held(r) \/ r.faults = MaxFaults THEN {y}
                       ELSE {y, [r EXCEPT !.faults = @ + 1]}
  BY DEF Pressed
<1>2. Safe(r) /\ SameSeats(d, r) /\ r \in Desk /\ Accounted(r)
  BY RetrySafe DEF Safe
<1>3. r.grant[c] /\ ~r.suspended[c]
  BY <1>2 DEF SameSeats
<1>4. CASE x = r
  BY <1>2, <1>4
<1>5. CASE x = [r EXCEPT !.faults = @ + 1]
  <2>1. /\ x \in Desk /\ SameSeats(r, x)
        /\ x.held = r.held /\ x.down = r.down /\ x.debt = r.debt
    BY <1>2, <1>5 DEF Desk, SameSeats
  <2>2. Accounted(x)
    BY <1>2, <2>1 DEF Accounted, Held
  <2> QED BY <1>2, <2>1, <2>2, SeatsSafe DEF SameSeats
<1>6. CASE r.debt = {} /\ x = [r EXCEPT !.held[c] = @ \cup {i}, !.down = @ \cup {i}]
  <2>1. /\ x \in Desk /\ SameSeats(r, x) /\ x.down = r.down \cup {i} /\ x.debt = {}
        /\ x.held[c] = r.held[c] \cup {i}
        /\ \A e \in Endpoints : e # c => x.held[e] = r.held[e]
    BY <1>2, <1>6 DEF Desk, SameSeats
  <2>2. Held(x) = Held(r) \cup {i}
    BY <2>1, HeldBy
  <2>3. Accounted(x)
    BY <1>2, <1>6, <2>1, <2>2 DEF Accounted
  <2> QED BY <1>2, <1>3, <2>1, <2>3, SeatsSafe DEF SameSeats
<1> QED BY <1>1, <1>4, <1>5, <1>6

(* applyHeld, of a release.                                                  *)
LEMMA LiftedSafe ==
  ASSUME NEW d, Safe(d), NEW c \in Endpoints, NEW i \in Inputs, NEW x \in Lifted(d, c, i)
  PROVE  Safe(x) /\ SameSeats(d, x)
<1>1. PICK r \in RetryReleases(d) :
        x \in LET y == [r EXCEPT !.held[c] = @ \ {i}] IN Released(y, Held(r) \ Held(y))
  BY DEF Lifted
<1> DEFINE y == [r EXCEPT !.held[c] = @ \ {i}]
           K == Held(r) \ Held(y)
<1>2. Safe(r) /\ SameSeats(d, r) /\ r \in Desk /\ Accounted(r)
  BY RetrySafe DEF Safe
<1>3. /\ y \in Desk /\ SameSeats(r, y) /\ y.down = r.down /\ y.debt = r.debt
      /\ y.held[c] = r.held[c] \ {i}
      /\ \A e \in Endpoints : e # c => y.held[e] = r.held[e]
  BY <1>2 DEF Desk, SameSeats
<1>4. Held(y) \subseteq Held(r)
  BY <1>3, HeldBy
<1>5. K \in SUBSET Inputs
  BY <1>2, HeldTyped
<1>6. /\ y.down \subseteq y.debt \cup Held(y) \cup K
      /\ Held(y) \subseteq y.down /\ Held(y) \cap (y.debt \cup K) = {}
  BY <1>2, <1>3, <1>4 DEF Accounted
<1>7. x \in Released(y, K)
  BY <1>1
<1> HIDE DEF y, K
<1>8. x \in Desk /\ Accounted(x) /\ SameSeats(y, x) /\ x.held = y.held
  BY <1>3, <1>5, <1>6, <1>7, ReleasedAccounted
<1>9. SameSeats(r, x) /\ SameSeats(d, x)
  BY <1>2, <1>3, <1>8 DEF SameSeats
<1>10. \A e \in Endpoints : x.held[e] # {} => r.held[e] # {}
  BY <1>3, <1>8
<1> QED BY <1>2, <1>8, <1>9, <1>10, SeatsSafe

-----------------------------------------------------------------------------
(* Grants                                                                    *)

(* With nobody in control only the accounts of the sink matter.              *)
LEMMA IdleSafe ==
  ASSUME NEW d \in Desk, Accounted(d), Idle(d)
  PROVE  Safe(d)
BY DEF Safe, Idle, Authorized, OwnerControls, Together

(* release: nobody controls any more.                                        *)
LEMMA ReleaseSafe ==
  ASSUME NEW d, Safe(d), NEW x \in Release(d)
  PROVE  Safe(x) /\ Idle(x)
<1>1. CASE d.owner = NoSession
  <2>1. x = d
    BY <1>1 DEF Release
  <2>2. Idle(d)
    BY <1>1, OwnersOnly DEF Idle
  <2> QED BY <2>1, <2>2
<1>2. CASE d.owner # NoSession
  <2>1. PICK r \in ResetHeld(d, d.owner) :
          x = [Ungranted(r, Of(d.owner)) EXCEPT !.owner = NoSession]
    BY <1>2 DEF Release
  <2>2. Safe(r) /\ r \in Desk /\ Accounted(r) /\ r.owner = d.owner
        /\ \A c \in Endpoints : r.held[c] = {}
    BY <1>2, ResetHeldSafe DEF Safe, SameSeats
  <2>3. \A c \in Endpoints : c \notin Of(d.owner) => ~r.grant[c] /\ r.pad[c] = "none"
    BY <2>2, OwnersOnly
  <2>4. /\ x \in Desk /\ x.owner = NoSession /\ x.held = r.held
        /\ x.down = r.down /\ x.debt = r.debt
        /\ \A c \in Endpoints : /\ x.grant[c] = IF c \in Of(d.owner) THEN FALSE ELSE r.grant[c]
                                /\ x.pad[c] = IF c \in Of(d.owner) THEN "none" ELSE r.pad[c]
    BY <2>1, <2>2 DEF Ungranted, Desk
  <2>5. Idle(x)
    BY <2>2, <2>3, <2>4 DEF Idle
  <2>6. Accounted(x)
    BY <2>2, <2>4 DEF Accounted, Held
  <2> QED BY <2>4, <2>5, <2>6, IdleSafe
<1> QED BY <1>1, <1>2

(* ... of a session: none of its endpoints controls.                         *)
LEMMA ReleaseOfSafe ==
  ASSUME NEW d, Safe(d), NEW s \in Sessions, NEW x \in ReleaseOf(d, s)
  PROVE  /\ Safe(x) /\ x.owner # s /\ (x = d \/ Idle(x))
         /\ \A c \in Endpoints : x.grant[c] => peer[c].home # s
<1>1. NoSession # s
  BY RemoteInputAssumption
<1>2. Safe(x) /\ x.owner # s /\ (x = d \/ Idle(x))
  BY <1>1, ReleaseSafe DEF ReleaseOf, Idle
<1> QED BY <1>2, OwnersOnly

(* releaseConnection of each of X: the session keeps the desktop while       *)
(* another of its endpoints controls.                                        *)
LEMMA ReleaseConnectionsSafe ==
  ASSUME NEW d, Safe(d), NEW s, NEW X, X \subseteq Of(s),
         NEW x \in ReleaseConnections(d, s, X)
  PROVE  /\ Safe(x) /\ \A c \in X : ~x.grant[c]
         /\ \A c \in Endpoints : x.grant[c] => d.grant[c]
<1>1. X \subseteq Endpoints
  BY DEF Of
<1>2. CASE Granted(d, s) \cap X = {}
  <2>1. x = d
    BY <1>2 DEF ReleaseConnections
  <2> QED BY <1>2, <2>1 DEF Granted
<1>3. CASE Granted(d, s) \cap X # {} /\ ~share[s].coPlay
  <2>1. x \in Release(d)
    BY <1>3 DEF ReleaseConnections
  <2> QED BY <1>1, <2>1, ReleaseSafe DEF Idle
<1>4. CASE Granted(d, s) \cap X # {} /\ share[s].coPlay
  <2>1. PICK r \in ClearHeld(d, X) :
          x = [Ungranted(r, X) EXCEPT !.owner = IF Granted(d, s) \subseteq X THEN NoSession ELSE @]
    BY <1>4 DEF ReleaseConnections
  <2>2. /\ Safe(r) /\ r \in Desk /\ Accounted(r) /\ SameSeats(d, r)
        /\ \A c \in Endpoints : r.held[c] = IF c \in X THEN {} ELSE d.held[c]
    BY ClearHeldSafe DEF Safe
  <2>3. /\ x \in Desk /\ x.held = r.held /\ x.down = r.down /\ x.debt = r.debt
        /\ x.owner = IF Granted(d, s) \subseteq X THEN NoSession ELSE r.owner
        /\ \A c \in Endpoints :
             /\ x.grant[c] = IF c \in X THEN FALSE ELSE r.grant[c]
             /\ x.suspended[c] = IF c \in X THEN FALSE ELSE r.suspended[c]
             /\ x.pad[c] = IF c \in X THEN "none" ELSE r.pad[c]
    BY <2>1, <2>2 DEF Ungranted, Desk
  <2>4. Accounted(x)
    BY <2>2, <2>3 DEF Accounted, Held
  <2>5. d.owner = s
    <3>1. PICK c \in Endpoints : c \in Of(s) /\ d.grant[c]
      BY <1>4 DEF Granted, Of
    <3> QED BY <3>1, OwnersOnly DEF Of
  <2>6. \A c \in Endpoints : d.grant[c] \/ d.held[c] # {} \/ d.pad[c] # "none" =>
                               c \in Granted(d, s)
    BY <2>5, OwnersOnly DEF Granted
  <2>7. \A c \in Endpoints :
          /\ x.grant[c] <=> (d.grant[c] /\ c \notin X)
          /\ x.held[c] # {} => d.held[c] # {} /\ c \notin X
          /\ c \notin X => x.suspended[c] = d.suspended[c]
          /\ x.pad[c] # "none" => d.pad[c] # "none" /\ c \notin X
    BY <2>2, <2>3 DEF SameSeats
  <2>8. Safe(x)
    <3>1. CASE Granted(d, s) \subseteq X
      <4>1. Idle(x)
        BY <2>3, <2>6, <2>7, <3>1 DEF Idle
      <4> QED BY <2>3, <2>4, <4>1, IdleSafe
    <3>2. CASE ~(Granted(d, s) \subseteq X)
      <4>1. x.owner = d.owner
        BY <2>2, <2>3, <3>2 DEF SameSeats
      <4>2. Authorized(x)
        BY <2>7, <4>1 DEF Safe, Authorized
      <4>3. OwnerControls(x)
        BY <2>5, <2>7, <3>2, <4>1 DEF OwnerControls, Granted, Of
      <4>4. Together(x)
        BY <2>7, <4>1 DEF Safe, Together
      <4> QED BY <2>3, <2>4, <4>2, <4>3, <4>4 DEF Safe
    <3> QED BY <3>1, <3>2
  <2> QED BY <1>1, <2>7, <2>8
<1> QED BY <1>2, <1>3, <1>4

(* refreshActive                                                             *)
LEMMA FocusedSafe ==
  ASSUME NEW d, Safe(d)
  PROVE  /\ Safe(Focused(d)) /\ Focused(d).grant = d.grant /\ Focused(d).owner = d.owner
         /\ Focused(d).pad = d.pad
         /\ \A c \in Endpoints : d.grant[c] => ~Focused(d).suspended[c]
<1> DEFINE x == Focused(d)
<1>1. d \in Desk
  BY DEF Safe
<1>2. /\ x \in Desk /\ x.owner = d.owner /\ x.grant = d.grant /\ x.pad = d.pad
      /\ x.held = d.held /\ x.down = d.down /\ x.debt = d.debt
      /\ \A c \in Endpoints : x.suspended[c] =
           IF d.owner # NoSession /\ c \in Granted(d, d.owner) THEN FALSE ELSE d.suspended[c]
  BY <1>1 DEF Focused, Desk
<1> HIDE DEF x
<1>3. Accounted(x)
  BY <1>2 DEF Safe, Accounted, Held
<1>4. Authorized(x)
  BY <1>2 DEF Safe, Authorized
<1>5. OwnerControls(x)
  BY <1>2 DEF Safe, OwnerControls, Granted
<1>6. Together(x)
  BY <1>2 DEF Safe, Together
<1>7. \A c \in Endpoints : d.grant[c] => ~x.suspended[c]
  BY <1>2, OwnersOnly DEF Granted
<1> QED BY <1>2, <1>3, <1>4, <1>5, <1>6, <1>7 DEF Safe, x

(* Gamepads come to those who may have one, and go.                          *)
LEMMA PadsSafe ==
  ASSUME NEW d, Safe(d), NEW x \in Desk,
         x.owner = d.owner, x.grant = d.grant, x.held = d.held,
         x.down = d.down, x.debt = d.debt,
         \A c \in Endpoints : d.held[c] # {} => ~x.suspended[c],
         \A c \in Endpoints : x.pad[c] # "none" =>
           d.pad[c] # "none" \/ (d.grant[c] /\ peer[c].extended /\ share[d.owner].coPlay)
  PROVE  Safe(x)
<1>1. Accounted(x)
  BY DEF Safe, Accounted, Held
<1>2. Authorized(x)
  BY DEF Safe, Authorized
<1>3. OwnerControls(x)
  BY DEF Safe, OwnerControls, Granted
<1>4. Together(x)
  BY DEF Safe, Together
<1> QED BY <1>1, <1>2, <1>3, <1>4 DEF Safe

LEMMA AwaySafe ==
  ASSUME NEW d, Safe(d), NEW x \in Away(d)
  PROVE  Safe(x) /\ x.grant = d.grant /\ x.owner = d.owner
<1>1. CASE x = d
  BY <1>1
<1>2. CASE d.owner # NoSession /\ x # d
  <2>0. PICK r \in ResetHeld(d, d.owner) : \E broken \in SUBSET OpenPads(r) : x = Suspended(r, broken)
    BY <1>2 DEF Away
  <2>1. PICK broken \in SUBSET OpenPads(r) : x = Suspended(r, broken)
    BY <2>0
  <2>2. Safe(r) /\ r \in Desk /\ SameSeats(d, r) /\ \A c \in Endpoints : r.held[c] = {}
    BY <1>2, ResetHeldSafe DEF Safe
  <2>3. /\ x \in Desk /\ x.owner = r.owner /\ x.grant = r.grant /\ x.held = r.held
        /\ x.down = r.down /\ x.debt = r.debt
        /\ \A c \in Endpoints : x.pad[c] = IF c \in broken THEN "none" ELSE r.pad[c]
    BY <2>1, <2>2 DEF Suspended, Desk
  <2>4. Safe(x)
    BY <2>2, <2>3, PadsSafe
  <2> QED BY <2>2, <2>3, <2>4 DEF SameSeats
<1> QED BY <1>1, <1>2 DEF Away

LEMMA UnfocusedSafe ==
  ASSUME NEW d, Safe(d), NEW x \in Unfocused(d)
  PROVE  Safe(x)
BY AwaySafe, ReleaseSafe DEF Unfocused

LEMMA RefreshedSafe ==
  ASSUME NEW d, Safe(d), NEW x \in Refreshed(d)
  PROVE  Safe(x)
BY FocusedSafe, UnfocusedSafe DEF Refreshed

(* What canJoin asks of a desktop.                                           *)
Joins(d, c) ==
  \/ d.owner = NoSession
  \/ /\ d.owner = peer[c].home
     /\ share[peer[c].home].coPlay /\ share[peer[c].home].simultaneous
     /\ peer[c].extended
     /\ \A e \in Endpoints : d.grant[e] => peer[e].extended

(* grant, of an endpoint that may be admitted.                               *)
LEMMA GivenSafe ==
  ASSUME NEW d, Safe(d), NEW c \in Endpoints, peer[c].home \in Sessions,
         Available(peer[c].home), share[peer[c].home].mode # "off", peer[c].link # "down",
         ~d.grant[c], share[peer[c].home].coPlay => Joins(d, c), NEW x \in Given(d, c)
  PROVE  Safe(x)
<1> DEFINE s == peer[c].home
<1>1. PICK r \in (IF share[s].coPlay THEN {d} ELSE Release(d)) :
        x \in Refreshed([r EXCEPT !.grant[c] = TRUE, !.padFailed[c] = FALSE, !.owner = s])
  BY DEF Given
<1> DEFINE y == [r EXCEPT !.grant[c] = TRUE, !.padFailed[c] = FALSE, !.owner = s]
<1>2. Safe(r) /\ r \in Desk /\ ~r.grant[c] /\ Joins(r, c)
  BY <1>1, ReleaseSafe DEF Safe, Idle, Joins
<1>3. s # NoSession
  BY RemoteInputAssumption
<1>4. /\ y \in Desk /\ y.owner = s /\ y.held = r.held /\ y.suspended = r.suspended
      /\ y.pad = r.pad /\ y.down = r.down /\ y.debt = r.debt
      /\ \A e \in Endpoints : y.grant[e] = (e = c \/ r.grant[e])
  BY <1>2 DEF Desk
<1>5. x \in Refreshed(y)
  BY <1>1
<1> HIDE DEF y
<1>6. \A e \in Endpoints : r.grant[e] \/ r.held[e] # {} \/ r.pad[e] # "none" =>
        /\ r.grant[e] /\ r.owner = s /\ peer[e].home = s /\ peer[e].extended
        /\ share[s].coPlay /\ share[s].simultaneous /\ peer[c].extended
  BY <1>2, OwnersOnly DEF Joins
<1>7. Accounted(y)
  BY <1>2, <1>4 DEF Safe, Accounted, Held
<1>8. Authorized(y)
  BY <1>2, <1>3, <1>4, <1>6 DEF Safe, Authorized
<1>9. OwnerControls(y)
  BY <1>4 DEF OwnerControls, Granted, Of
<1>10. Together(y)
  BY <1>2, <1>4, <1>6 DEF Safe, Together
<1> QED BY <1>4, <1>5, <1>7, <1>8, <1>9, <1>10, RefreshedSafe DEF Safe

-----------------------------------------------------------------------------
(* Steps                                                                     *)

(* A desktop stays safe while those who control it keep their session, their *)
(* branch and their policy.                                                  *)
LEMMA Carried ==
  ASSUME Safe(desk'), peer' \in [Endpoints -> Peer],
         \A c \in Endpoints : desk'.grant[c] =>
           /\ peer'[c].home = peer[c].home /\ peer'[c].link # "down"
           /\ peer[c].extended => peer'[c].extended
           /\ LET s == desk'.owner IN
              /\ share'[s].open /\ share'[s].picture /\ ~share'[s].paused
              /\ share'[s].mode # "off" /\ share'[s].coPlay = share[s].coPlay
              /\ share'[s].simultaneous = share[s].simultaneous
  PROVE  Safe(desk)'
<1>1. desk' \in Desk /\ Accounted(desk)'
  BY DEF Safe, Accounted, Held
<1>2. Authorized(desk)'
  BY DEF Safe, Authorized, Available
<1>3. OwnerControls(desk)'
  BY DEF Safe, OwnerControls, Granted, Of
<1>4. Together(desk)'
  BY DEF Safe, Together
<1> QED BY <1>1, <1>2, <1>3, <1>4 DEF Safe

LEMMA SafetyIs ==
  InputSafety <=> /\ Safe(desk) /\ Consented /\ Answerable
                  /\ peer \in [Endpoints -> Peer] /\ share \in [Sessions -> Share]
                  /\ opening \in {"none", "running", "done"} /\ closed \in BOOLEAN
                  /\ allowed \in [Sessions -> SUBSET {"ask", "room"}] /\ changes \in Nat
BY DEF InputSafety, TypeOK, Safe

LEMMA OwnerShares ==
  ASSUME NEW d, Safe(d), NEW c \in Endpoints, d.grant[c]
  PROVE  d.owner \in Sessions /\ Available(d.owner) /\ share[d.owner].mode # "off"
         /\ peer[c].home = d.owner /\ peer[c].link # "down"
BY DEF Safe, Desk, Authorized

(* A step that leaves endpoints and policies alone.                          *)
LEMMA DeskStep ==
  ASSUME InputSafety, Safe(desk'), UNCHANGED <<peer, share, allowed>>,
         opening' \in {"none", "running", "done"}, closed' \in BOOLEAN, changes' \in Nat
  PROVE  InputSafety'
<1>1. Safe(desk)'
  <2>1. peer' \in [Endpoints -> Peer]
    BY SafetyIs
  <2>2. \A c \in Endpoints : desk'.grant[c] =>
          desk'.owner \in Sessions /\ Available(desk'.owner)
            /\ share[desk'.owner].mode # "off" /\ peer[c].link # "down"
    BY OwnerShares
  <2> QED BY <2>1, <2>2, Carried DEF Available
<1>2. Consented' /\ Answerable'
  BY SafetyIs DEF Consented, Answerable, Available
<1> QED BY <1>1, <1>2, SafetyIs DEF InputSafety, TypeOK, Safe

(* A step that leaves the policies alone: requests are new ones or stay.     *)
LEMMA PeerStep ==
  ASSUME InputSafety, Safe(desk'), UNCHANGED hostVars, changes' \in Nat,
         peer' \in [Endpoints -> Peer],
         \A c \in Endpoints : desk'.grant[c] =>
           /\ peer'[c].home = peer[c].home /\ peer'[c].link # "down"
           /\ peer[c].extended => peer'[c].extended,
         \A c \in Endpoints : peer'[c].requested =>
           /\ peer'[c].home = peer[c].home /\ peer'[c].link # "down"
           /\ \/ peer[c].requested
              \/ /\ peer[c].home # NoSession /\ Available(peer[c].home)
                 /\ share[peer[c].home].mode = "ask"
  PROVE  InputSafety'
<1>1. Safe(desk)'
  <2>1. \A c \in Endpoints : desk'.grant[c] =>
          desk'.owner \in Sessions /\ Available(desk'.owner) /\ share[desk'.owner].mode # "off"
    BY OwnerShares
  <2> QED BY <2>1, Carried DEF Available, hostVars
<1>2. Consented'
  BY SafetyIs DEF Consented, hostVars
<1>3. Answerable'
  BY SafetyIs DEF Answerable, Available, hostVars
<1> QED BY <1>1, <1>2, <1>3, SafetyIs DEF InputSafety, TypeOK, Safe, hostVars

LEMMA UnrequestedIs ==
  ASSUME NEW X, peer \in [Endpoints -> Peer]
  PROVE  /\ Unrequested(X) \in [Endpoints -> Peer]
         /\ \A c \in Endpoints :
              /\ Unrequested(X)[c].home = peer[c].home /\ Unrequested(X)[c].link = peer[c].link
              /\ Unrequested(X)[c].extended = peer[c].extended
              /\ Unrequested(X)[c].requested => peer[c].requested /\ c \notin X
BY DEF Unrequested, Peer

(* applyPolicy, with modes that the Host has asked for.                      *)
LEMMA PolicyStep ==
  ASSUME InputSafety, NEW s \in Sessions, NEW new \in Share,
         NEW modes \in SUBSET {"ask", "room"},
         new.mode # "off" => new.mode \in modes,
         new.change # NoChange => new.change.mode \in modes \cup {"off"},
         ApplyPolicy(s, new, modes), changes' \in Nat
  PROVE  InputSafety'
<1>1. /\ share' = [share EXCEPT ![s] = new] /\ allowed' = [allowed EXCEPT ![s] = modes]
      /\ peer' = Unrequested(Of(s)) /\ desk' \in ReleaseOf(desk, s)
      /\ opening' = opening /\ closed' = closed
  BY DEF ApplyPolicy, otherVars
<1>2. /\ Safe(desk) /\ Consented /\ Answerable /\ peer \in [Endpoints -> Peer]
      /\ share \in [Sessions -> Share] /\ allowed \in [Sessions -> SUBSET {"ask", "room"}]
  BY SafetyIs
<1>3. /\ share' \in [Sessions -> Share] /\ allowed' \in [Sessions -> SUBSET {"ask", "room"}]
      /\ share'[s] = new /\ \A t \in Sessions : t # s => share'[t] = share[t]
      /\ allowed'[s] = modes /\ \A t \in Sessions : t # s => allowed'[t] = allowed[t]
  BY <1>1, <1>2
<1>4. /\ peer' \in [Endpoints -> Peer]
      /\ \A c \in Endpoints :
           /\ peer'[c].home = peer[c].home /\ peer'[c].link = peer[c].link
           /\ peer'[c].extended = peer[c].extended
           /\ peer'[c].requested => peer[c].requested /\ c \notin Of(s)
  BY <1>1, <1>2, UnrequestedIs
<1>5. Safe(desk') /\ desk'.owner # s
  BY <1>1, <1>2, ReleaseOfSafe
<1>6. Safe(desk)'
  <2>1. \A c \in Endpoints : desk'.grant[c] =>
          /\ desk'.owner \in Sessions /\ Available(desk'.owner)
          /\ share[desk'.owner].mode # "off" /\ peer[c].link # "down"
    BY <1>5, OwnerShares
  <2> QED BY <1>3, <1>4, <1>5, <2>1, Carried DEF Available
<1>7. Consented'
  BY <1>2, <1>3 DEF Consented
<1>8. Answerable'
  <2> SUFFICES ASSUME NEW c \in Endpoints, peer'[c].requested
               PROVE  /\ peer'[c].home # NoSession /\ peer'[c].link # "down"
                      /\ Available(peer[c].home)' /\ share'[peer'[c].home].mode = "ask"
    BY DEF Answerable
  <2>1. /\ peer[c].home # NoSession /\ peer[c].link # "down"
        /\ Available(peer[c].home) /\ share[peer[c].home].mode = "ask"
    BY <1>2, <1>4 DEF Answerable
  <2>2. peer[c].home \in Sessions /\ peer[c].home # s
    BY <1>2, <1>4, <2>1 DEF Of, Peer
  <2> QED BY <1>3, <1>4, <2>1, <2>2 DEF Available
<1> QED BY <1>1, <1>3, <1>4, <1>6, <1>7, <1>8, SafetyIs DEF InputSafety, TypeOK, Safe

(* A change under way comes and goes, and a pause ends: nobody notices.      *)
LEMMA ShareStep ==
  ASSUME InputSafety, NEW s \in Sessions, NEW new \in Share,
         NEW modes \in SUBSET {"ask", "room"},
         share' = [share EXCEPT ![s] = new], allowed' = [allowed EXCEPT ![s] = modes],
         new.open = share[s].open, new.picture = share[s].picture, new.mode = share[s].mode,
         new.paused => share[s].paused, new.coPlay = share[s].coPlay,
         new.simultaneous = share[s].simultaneous,
         new.mode # "off" => new.mode \in modes,
         new.change # NoChange => new.change.mode \in modes \cup {"off"},
         UNCHANGED <<desk, peer, opening, closed>>, changes' \in Nat
  PROVE  InputSafety'
<1>2. /\ Safe(desk) /\ Consented /\ Answerable /\ peer \in [Endpoints -> Peer]
      /\ share \in [Sessions -> Share] /\ allowed \in [Sessions -> SUBSET {"ask", "room"}]
  BY SafetyIs
<1>3. /\ share' \in [Sessions -> Share] /\ allowed' \in [Sessions -> SUBSET {"ask", "room"}]
      /\ share'[s] = new /\ \A t \in Sessions : t # s => share'[t] = share[t]
      /\ allowed'[s] = modes /\ \A t \in Sessions : t # s => allowed'[t] = allowed[t]
  BY <1>2
<1>4. Safe(desk)'
  <2>1. \A c \in Endpoints : desk'.grant[c] =>
          /\ desk'.owner \in Sessions /\ Available(desk'.owner)
          /\ share[desk'.owner].mode # "off" /\ peer[c].link # "down"
    BY <1>2, OwnerShares
  <2> QED BY <1>2, <1>3, <2>1, Carried DEF Available
<1>5. Consented'
  BY <1>2, <1>3 DEF Consented
<1>6. Answerable'
  <2> SUFFICES ASSUME NEW c \in Endpoints, peer'[c].requested
               PROVE  /\ peer'[c].home # NoSession /\ peer'[c].link # "down"
                      /\ Available(peer[c].home)' /\ share'[peer'[c].home].mode = "ask"
    BY DEF Answerable
  <2>1. /\ peer[c].home # NoSession /\ peer[c].link # "down"
        /\ Available(peer[c].home) /\ share[peer[c].home].mode = "ask"
    BY <1>2 DEF Answerable
  <2>2. peer[c].home \in Sessions
    BY <1>2, <2>1 DEF Peer
  <2> QED BY <1>3, <2>1, <2>2 DEF Available
<1> QED BY <1>2, <1>3, <1>4, <1>5, <1>6, SafetyIs DEF InputSafety, TypeOK, Safe

-----------------------------------------------------------------------------
(* The viewers' packets                                                      *)

LEMMA PadFailedSafe ==
  ASSUME NEW d, Safe(d), NEW c \in Endpoints
  PROVE  Safe(PadFailed(d, c))
<1> DEFINE x == PadFailed(d, c)
<1>1. d \in Desk /\ \A e \in Endpoints : d.held[e] # {} => ~d.suspended[e]
  BY DEF Safe, Authorized
<1>2. /\ x \in Desk /\ x.owner = d.owner /\ x.grant = d.grant /\ x.held = d.held
      /\ x.suspended = d.suspended /\ x.down = d.down /\ x.debt = d.debt
      /\ \A e \in Endpoints : x.pad[e] # "none" => d.pad[e] # "none"
  BY <1>1 DEF PadFailed, Desk
<1> HIDE DEF x
<1>3. Safe(x)
  BY <1>1, <1>2, PadsSafe
<1> QED BY <1>3 DEF x

LEMMA NewEpochStep ==
  ASSUME InputSafety, NEW c \in Endpoints, NewEpoch(c)
  PROVE  InputSafety'
<1>1. Safe(desk) /\ peer \in [Endpoints -> Peer] /\ changes \in Nat
  BY SafetyIs
<1>2. PICK same \in BOOLEAN :
        peer' = [peer EXCEPT ![c] = [@ EXCEPT !.link = "up", !.requested = FALSE,
                                              !.extended = same /\ @]]
  BY DEF NewEpoch
<1>3. /\ peer' \in [Endpoints -> Peer] /\ peer'[c].home = peer[c].home
      /\ peer'[c].link = "up" /\ peer'[c].requested = FALSE
      /\ \A e \in Endpoints : e # c => peer'[e] = peer[e]
  BY <1>1, <1>2 DEF Peer
<1>4. /\ Safe(desk') /\ ~desk'.grant[c]
      /\ \A e \in Endpoints : desk'.grant[e] => desk.grant[e]
  <2>1. CASE peer[c].link = "down"
    BY <1>1, <2>1, OwnerShares DEF NewEpoch
  <2>2. CASE peer[c].link # "down"
    <3>1. desk' \in ReleaseConnections(desk, peer[c].home, {c}) /\ {c} \subseteq Of(peer[c].home)
      BY <2>2 DEF NewEpoch, Of
    <3> QED BY <1>1, <3>1, ReleaseConnectionsSafe
  <2> QED BY <2>1, <2>2
<1>5. \A e \in Endpoints : desk.grant[e] => peer[e].link # "down"
  BY <1>1, OwnerShares
<1>6. \A e \in Endpoints : peer[e].requested => peer[e].link # "down"
  BY SafetyIs DEF Answerable
<1> QED BY <1>1, <1>3, <1>4, <1>5, <1>6, PeerStep DEF NewEpoch

(* Endpoints that lose what they asked and what they were granted.           *)
LEMMA ReleaseStep ==
  ASSUME InputSafety, NEW s, NEW X, X \subseteq Of(s), desk' \in ReleaseConnections(desk, s, X),
         peer' \in [Endpoints -> Peer], UNCHANGED hostVars, changes' \in Nat,
         \A c \in Endpoints : c \notin X => peer'[c] = peer[c],
         \A c \in X : ~peer'[c].requested
  PROVE  InputSafety'
<1>1. Safe(desk)
  BY SafetyIs
<1>2. /\ Safe(desk') /\ \A c \in X : ~desk'.grant[c]
      /\ \A c \in Endpoints : desk'.grant[c] => desk.grant[c]
  BY <1>1, ReleaseConnectionsSafe
<1>3. \A c \in Endpoints : desk.grant[c] => peer[c].link # "down"
  BY <1>1, OwnerShares
<1>4. \A c \in Endpoints : peer[c].requested => peer[c].link # "down"
  BY SafetyIs DEF Answerable
<1> QED BY <1>2, <1>3, <1>4, PeerStep

LEMMA UnrequestedOthers ==
  ASSUME NEW X
  PROVE  \A c \in Endpoints : c \notin X => Unrequested(X)[c] = peer[c]
BY DEF Unrequested

LEMMA EpochClosedStep ==
  ASSUME InputSafety, NEW c \in Endpoints, EpochClosed(c)
  PROVE  InputSafety'
<1>1. /\ peer' \in [Endpoints -> Peer] /\ ~peer'[c].requested
      /\ \A e \in Endpoints : e # c => peer'[e] = peer[e]
  BY SafetyIs DEF EpochClosed, Peer
<1>2. {c} \subseteq Of(peer[c].home)
  BY DEF Of
<1> QED BY <1>1, <1>2, SafetyIs, ReleaseStep DEF EpochClosed

LEMMA ReleaseControlStep ==
  ASSUME InputSafety, NEW c \in Endpoints, ReleaseControl(c)
  PROVE  InputSafety'
<1>1. /\ peer' \in [Endpoints -> Peer] /\ ~peer'[c].requested
      /\ \A e \in Endpoints : e # c => peer'[e] = peer[e]
  BY SafetyIs, UnrequestedIs, UnrequestedOthers DEF ReleaseControl
<1>2. {c} \subseteq Of(peer[c].home)
  BY DEF Of
<1>3. /\ desk' \in ReleaseConnections(desk, peer[c].home, {c})
      /\ UNCHANGED hostVars /\ changes' \in Nat
  BY SafetyIs DEF ReleaseControl
<1> QED BY <1>1, <1>2, <1>3, ReleaseStep

LEMMA TransportLostStep ==
  ASSUME InputSafety, NEW s \in Sessions, NEW X \in SUBSET Endpoints, TransportLost(s, X)
  PROVE  InputSafety'
<1>1. /\ peer' \in [Endpoints -> Peer] /\ \A c \in X : ~peer'[c].requested
      /\ \A e \in Endpoints : e \notin X => peer'[e] = peer[e]
  BY SafetyIs, UnrequestedIs, UnrequestedOthers DEF TransportLost
<1>2. changes' \in Nat
  BY SafetyIs DEF TransportLost, Change
<1> QED BY <1>1, <1>2, ReleaseStep DEF TransportLost

LEMMA BranchLostStep ==
  ASSUME InputSafety, NEW X \in SUBSET Endpoints, BranchLost(X)
  PROVE  InputSafety'
<1>1. Safe(desk) /\ peer \in [Endpoints -> Peer] /\ desk' = desk
  BY SafetyIs DEF BranchLost
<1>2. /\ peer' \in [Endpoints -> Peer]
      /\ \A c \in Endpoints :
           /\ peer'[c].home = peer[c].home /\ peer'[c].extended = peer[c].extended
           /\ peer'[c].requested = peer[c].requested
           /\ peer[c].link # "down" => peer'[c].link # "down"
  BY <1>1 DEF BranchLost, Peer
<1>3. \A c \in Endpoints : desk.grant[c] => peer[c].link # "down"
  BY <1>1, OwnerShares
<1>4. \A c \in Endpoints : peer[c].requested => peer[c].link # "down"
  BY SafetyIs DEF Answerable
<1>5. changes' \in Nat
  BY SafetyIs DEF BranchLost, Change
<1> QED BY <1>1, <1>2, <1>3, <1>4, <1>5, PeerStep DEF BranchLost

LEMMA CapabilitiesStep ==
  ASSUME InputSafety, NEW c \in Endpoints, Capabilities(c)
  PROVE  InputSafety'
<1>1. Safe(desk) /\ peer \in [Endpoints -> Peer] /\ desk' = desk /\ changes' \in Nat
  BY SafetyIs DEF Capabilities
<1>2. /\ peer' \in [Endpoints -> Peer]
      /\ \A e \in Endpoints :
           /\ peer'[e].home = peer[e].home
           /\ peer[e].extended => peer'[e].extended
           /\ peer'[e].requested = peer[e].requested /\ peer'[e].link = peer[e].link
  BY <1>1 DEF Capabilities, Peer
<1>3. \A e \in Endpoints : desk.grant[e] => peer[e].link # "down"
  BY <1>1, OwnerShares
<1>4. \A e \in Endpoints : peer[e].requested => peer[e].link # "down"
  BY SafetyIs DEF Answerable
<1> QED BY <1>1, <1>2, <1>3, <1>4, PeerStep DEF Capabilities

LEMMA RequestStep ==
  ASSUME InputSafety, NEW c \in Endpoints, Request(c)
  PROVE  InputSafety'
<1> DEFINE s == peer[c].home
<1>1. /\ Safe(desk) /\ peer \in [Endpoints -> Peer] /\ changes' \in Nat
      /\ UNCHANGED hostVars /\ peer[c].link = "up" /\ s # NoSession
      /\ Available(s) /\ share[s].mode # "off" /\ ~desk.grant[c]
  BY SafetyIs DEF Request, Heard
<1>2. s \in Sessions
  BY <1>1 DEF Peer
<1>3. \A e \in Endpoints : peer[e].requested => peer[e].link # "down"
  BY SafetyIs DEF Answerable
<1>4. CASE share[s].mode = "ask" /\ peer' = [peer EXCEPT ![c].requested = TRUE] /\ desk' = desk
  <2>1. /\ peer' \in [Endpoints -> Peer]
        /\ \A e \in Endpoints :
             /\ peer'[e].home = peer[e].home /\ peer'[e].extended = peer[e].extended
             /\ peer'[e].link = peer[e].link
             /\ e # c => peer'[e].requested = peer[e].requested
    BY <1>1, <1>4 DEF Peer
  <2>2. \A e \in Endpoints : desk.grant[e] => peer[e].link # "down"
    BY <1>1, OwnerShares
  <2> QED BY <1>1, <1>3, <1>4, <2>1, <2>2, PeerStep
<1>5. CASE CanJoin(c) /\ desk' \in Given(desk, c) /\ peer' = peer
  <2>1. Joins(desk, c)
    BY <1>5 DEF CanJoin, Joins
  <2>2. Safe(desk')
    BY <1>1, <1>2, <1>5, <2>1, GivenSafe
  <2>3. \A e \in Endpoints : desk'.grant[e] => peer[e].link # "down"
    BY <2>2, OwnerShares
  <2> QED BY <1>1, <1>3, <1>5, <2>2, <2>3, PeerStep
<1> QED BY <1>4, <1>5 DEF Request

(* A player's grant, seen from the desktop that has the focus.               *)
LEMMA FocusedPlayer ==
  ASSUME InputSafety, NEW c \in Endpoints, Controls(c)
  PROVE  /\ Safe(Focused(desk)) /\ Focused(desk).grant[c] /\ ~Focused(desk).suspended[c]
         /\ Focused(desk).owner = peer[c].home /\ peer[c].home # NoSession
         /\ Focused(desk).pad = desk.pad
BY SafetyIs, FocusedSafe, OwnersOnly DEF Controls

LEMMA EventStep ==
  ASSUME InputSafety, Safe(desk'), deskOnly
  PROVE  InputSafety'
BY SafetyIs, DeskStep DEF deskOnly, hostVars

LEMMA KeysStep ==
  ASSUME InputSafety, NEW c \in Endpoints, NEW i \in Inputs, Press(c, i) \/ Lift(c, i)
  PROVE  InputSafety'
<1>1. Controls(c) /\ deskOnly
        /\ desk' \in Pressed(Focused(desk), c, i) \cup Lifted(Focused(desk), c, i)
  BY DEF Press, Lift
<1>2. Safe(desk')
  BY <1>1, FocusedPlayer, PressedSafe, LiftedSafe
<1> QED BY <1>1, <1>2, EventStep

LEMMA TextStep ==
  ASSUME InputSafety, NEW c \in Endpoints, NEW i \in Inputs, Text(c, i)
  PROVE  InputSafety'
<1> DEFINE d == Focused(desk)  s == peer[c].home
<1>1. /\ Controls(c) /\ deskOnly
      /\ \/ desk' \in ResetHeld(d, s)
         \/ \E x \in Pressed(ResetDone(d, s), c, i) : desk' \in Lifted(x, c, i)
  BY DEF Text
<1>2. Safe(d) /\ d.grant[c] /\ ~d.suspended[c] /\ d.owner = s /\ s # NoSession
  BY <1>1, FocusedPlayer
<1> HIDE DEF d
<1>3. ResetDone(d, s) \in ResetHeld(d, s)
  BY DEF ResetHeld
<1>4. \A x \in ResetHeld(d, s) : Safe(x) /\ SameSeats(d, x)
  BY <1>2, ResetHeldSafe
<1>5. \A x \in Pressed(ResetDone(d, s), c, i) : Safe(x)
  BY <1>2, <1>3, <1>4, PressedSafe DEF SameSeats
<1>6. Safe(desk')
  BY <1>1, <1>4, <1>5, LiftedSafe
<1> QED BY <1>1, <1>6, EventStep

LEMMA MoveStep ==
  ASSUME InputSafety, NEW c \in Endpoints, Unwatched(c) \/ Move(c)
  PROVE  InputSafety'
<1>1. CASE Unwatched(c)
  BY <1>1, SafetyIs, UnfocusedSafe, EventStep DEF Unwatched
<1>2. CASE Move(c)
  BY <1>2, SafetyIs, FocusedSafe, RetrySafe, EventStep DEF Move
<1> QED BY <1>1, <1>2

LEMMA ResetInputStep ==
  ASSUME InputSafety, NEW c \in Endpoints, ResetInput(c)
  PROVE  InputSafety'
<1>1. \E d \in {desk, PadFailed(desk, c)} : desk' \in ClearHeld(d, {c})
  BY DEF ResetInput
<1>2. Safe(desk')
  BY <1>1, SafetyIs, PadFailedSafe, ClearHeldSafe
<1> QED BY <1>2, EventStep DEF ResetInput

LEMMA GamepadStep ==
  ASSUME InputSafety, NEW c \in Endpoints, Gamepad(c)
  PROVE  InputSafety'
<1> DEFINE d == Focused(desk)
           x == [d EXCEPT !.pad[c] = "opening"]
<1>1. Controls(c) /\ Plays(c) /\ UNCHANGED <<peer, share, closed, allowed, changes>>
  BY DEF Gamepad
<1>2. Safe(d) /\ d.grant[c] /\ d.owner = peer[c].home /\ d \in Desk
  BY <1>1, FocusedPlayer DEF Safe
<1>3. desk' \in {d, x, PadFailed(d, c)} /\ opening' \in {opening, "running"}
  BY DEF Gamepad
<1> HIDE DEF d
<1>4. Safe(x)
  <2>1. /\ x \in Desk /\ x.owner = d.owner /\ x.grant = d.grant /\ x.held = d.held
        /\ x.suspended = d.suspended /\ x.down = d.down /\ x.debt = d.debt
        /\ \A e \in Endpoints : e # c => x.pad[e] = d.pad[e]
    BY <1>2 DEF Desk
  <2>2. \A e \in Endpoints : d.held[e] # {} => ~d.suspended[e]
    BY <1>2 DEF Safe, Authorized
  <2> HIDE DEF x
  <2> QED BY <1>1, <1>2, <2>1, <2>2, PadsSafe DEF Plays
<1>5. Safe(desk')
  BY <1>2, <1>3, <1>4, PadFailedSafe
<1> QED BY <1>1, <1>3, <1>5, SafetyIs, DeskStep

LEMMA GamepadStopStep ==
  ASSUME InputSafety, NEW c \in Endpoints, GamepadStop(c)
  PROVE  InputSafety'
<1>1. /\ Safe(desk) /\ desk \in Desk
      /\ \A e \in Endpoints : desk.held[e] # {} => ~desk.suspended[e]
  BY SafetyIs DEF Safe, Authorized
<1>2. /\ desk' \in Desk /\ desk'.owner = desk.owner /\ desk'.grant = desk.grant
      /\ desk'.held = desk.held /\ desk'.suspended = desk.suspended
      /\ desk'.down = desk.down /\ desk'.debt = desk.debt
      /\ \A e \in Endpoints : desk'.pad[e] # "none" => desk.pad[e] # "none"
  BY <1>1 DEF GamepadStop, Desk
<1>3. Safe(desk')
  BY <1>1, <1>2, PadsSafe
<1> QED BY <1>3, EventStep DEF GamepadStop

LEMMA GamepadOpenedStep ==
  ASSUME InputSafety, GamepadOpened \/ OpeningOver
  PROVE  InputSafety'
<1>1. /\ Safe(desk) /\ desk \in Desk
      /\ \A e \in Endpoints : desk.held[e] # {} => ~desk.suspended[e]
  BY SafetyIs DEF Safe, Authorized
<1>2. CASE OpeningOver
  BY <1>1, <1>2, SafetyIs, DeskStep DEF OpeningOver
<1>3. CASE GamepadOpened
  <2>1. PICK fails \in BOOLEAN :
          LET valid == {c \in Endpoints : desk.pad[c] = "opening" /\ ~closed
                                            /\ Available(peer[c].home) /\ share[peer[c].home].coPlay}
          IN  desk' = [desk EXCEPT
                !.pad = [c \in Endpoints |-> IF @[c] # "opening" THEN @[c]
                                             ELSE IF c \in valid /\ ~fails THEN "open" ELSE "none"],
                !.padFailed = [c \in Endpoints |-> @[c] \/ (c \in valid /\ fails)]]
    BY <1>3 DEF GamepadOpened
  <2>2. /\ desk' \in Desk /\ desk'.owner = desk.owner /\ desk'.grant = desk.grant
        /\ desk'.held = desk.held /\ desk'.suspended = desk.suspended
        /\ desk'.down = desk.down /\ desk'.debt = desk.debt
        /\ \A e \in Endpoints : desk'.pad[e] # "none" => desk.pad[e] # "none"
    BY <1>1, <2>1 DEF Desk
  <2>3. Safe(desk')
    BY <1>1, <2>2, PadsSafe
  <2> QED BY <1>3, <2>3, SafetyIs, DeskStep DEF GamepadOpened
<1> QED BY <1>2, <1>3

LEMMA PacketStep ==
  ASSUME InputSafety, NEW c \in Endpoints, Packet(c)
  PROVE  InputSafety'
BY NewEpochStep, EpochClosedStep, CapabilitiesStep, RequestStep, ReleaseControlStep, MoveStep,
   ResetInputStep, GamepadStep, GamepadStopStep, KeysStep, TextStep DEF Packet

-----------------------------------------------------------------------------
(* The Host's commands                                                       *)

LEMMA SharesAre ==
  ASSUME InputSafety, NEW s \in Sessions
  PROVE  /\ share[s] \in Share /\ allowed[s] \in SUBSET {"ask", "room"}
         /\ share[s].mode # "off" => share[s].mode \in allowed[s]
         /\ share[s].change # NoChange => share[s].change.mode \in allowed[s] \cup {"off"}
BY SafetyIs DEF Consented

LEMMA SetTargetStep ==
  ASSUME InputSafety, NEW s \in Sessions, NEW has \in BOOLEAN, NEW own \in BOOLEAN,
         SetTarget(s, has, own)
  PROVE  InputSafety'
<1> DEFINE new == [share[s] EXCEPT !.picture = has, !.mode = "off", !.coPlay = FALSE,
                                   !.simultaneous = FALSE,
                                   !.change = IF own THEN @ ELSE NoChange]
           modes == IF own THEN allowed[s] \cap {share[s].change.mode} ELSE {}
<1>1. share[s] \in Share /\ allowed[s] \in SUBSET {"ask", "room"}
  BY SharesAre
<1>2. new \in Share /\ new.mode = "off" /\ new.change = IF own THEN share[s].change ELSE NoChange
  BY <1>1 DEF Share, Modes, NoChange
<1>3. modes \in SUBSET {"ask", "room"}
  BY <1>1
<1>4. new.change # NoChange => new.change.mode \in modes \cup {"off"}
  BY <1>2, SharesAre
<1>5. ApplyPolicy(s, new, modes) /\ changes' \in Nat
  BY SafetyIs DEF SetTarget, Change
<1> HIDE DEF new, modes
<1> QED BY <1>2, <1>3, <1>4, <1>5, PolicyStep

LEMMA CommitPolicyStep ==
  ASSUME InputSafety, NEW s \in Sessions, CommitPolicy(s)
  PROVE  InputSafety'
<1> DEFINE new == [share[s] EXCEPT !.mode = share[s].change.mode,
                                   !.coPlay = share[s].change.coPlay, !.change = NoChange]
           modes == allowed[s] \cap {share[s].change.mode}
<1>1. /\ share[s] \in Share /\ allowed[s] \in SUBSET {"ask", "room"}
      /\ share[s].change.mode \in allowed[s] \cup {"off"}
  BY SharesAre DEF CommitPolicy
<1>2. new \in Share /\ new.mode = share[s].change.mode /\ new.change = NoChange
  BY <1>1 DEF Share, Modes, NoChange
<1>3. modes \in SUBSET {"ask", "room"} /\ (new.mode # "off" => new.mode \in modes)
  BY <1>1, <1>2
<1>4. ApplyPolicy(s, new, modes) /\ changes' \in Nat
  BY SafetyIs DEF CommitPolicy
<1> HIDE DEF new, modes
<1> QED BY <1>2, <1>3, <1>4, PolicyStep

(* The policy stays, what was asked and granted under it ends.               *)
LEMMA SamePolicyStep ==
  ASSUME InputSafety, NEW s \in Sessions, NEW new \in Share,
         new.mode = share[s].mode, new.change = NoChange,
         ApplyPolicy(s, new, allowed[s] \cap {share[s].mode}), changes' \in Nat
  PROVE  InputSafety'
<1> DEFINE modes == allowed[s] \cap {share[s].mode}
<1>1. modes \in SUBSET {"ask", "room"} /\ (new.mode # "off" => new.mode \in modes)
  BY SharesAre
<1> QED BY <1>1, PolicyStep

LEMMA SetSimultaneousStep ==
  ASSUME InputSafety, NEW s \in Sessions, SetSimultaneous(s) \/ Pause(s)
  PROVE  InputSafety'
<1>1. share[s] \in Share /\ changes' \in Nat
  BY SharesAre, SafetyIs DEF SetSimultaneous, Pause, Change
<1>2. CASE SetSimultaneous(s)
  <2> DEFINE new == [share[s] EXCEPT !.simultaneous = ~@, !.change = NoChange]
  <2>1. new \in Share /\ new.mode = share[s].mode /\ new.change = NoChange
    BY <1>1 DEF Share, NoChange
  <2>2. ApplyPolicy(s, new, allowed[s] \cap {share[s].mode})
    BY <1>2 DEF SetSimultaneous
  <2> HIDE DEF new
  <2> QED BY <1>1, <2>1, <2>2, SamePolicyStep
<1>3. CASE Pause(s)
  <2> DEFINE new == [share[s] EXCEPT !.paused = TRUE, !.change = NoChange]
  <2>1. new \in Share /\ new.mode = share[s].mode /\ new.change = NoChange
    BY <1>1 DEF Share, NoChange
  <2>2. ApplyPolicy(s, new, allowed[s] \cap {share[s].mode})
    BY <1>3 DEF Pause
  <2> HIDE DEF new
  <2> QED BY <1>1, <2>1, <2>2, SamePolicyStep
<1> QED BY <1>2, <1>3

LEMMA BeginPolicyStep ==
  ASSUME InputSafety, NEW s \in Sessions, NEW mode \in Modes, NEW coPlay \in BOOLEAN,
         BeginPolicy(s, mode, coPlay)
  PROVE  InputSafety'
<1> DEFINE change == [mode |-> mode, coPlay |-> coPlay /\ mode # "off"]
           new == [share[s] EXCEPT !.change = change]
           modes == (allowed[s] \cap {share[s].mode}) \cup ({mode} \ {"off"})
<1>1. share[s] \in Share /\ allowed[s] \in SUBSET {"ask", "room"}
  BY SharesAre
<1>2. /\ new \in Share /\ new.change = change /\ change.mode = mode
      /\ new.open = share[s].open /\ new.picture = share[s].picture /\ new.mode = share[s].mode
      /\ new.paused = share[s].paused /\ new.coPlay = share[s].coPlay
      /\ new.simultaneous = share[s].simultaneous
  BY <1>1 DEF Share
<1>3. /\ modes \in SUBSET {"ask", "room"} /\ mode \in modes \cup {"off"}
      /\ new.mode # "off" => new.mode \in modes
  BY <1>1, <1>2, SharesAre DEF Modes
<1>4. share' = [share EXCEPT ![s] = new]
  BY DEF BeginPolicy
<1>5. allowed' = [allowed EXCEPT ![s] = modes]
  BY DEF BeginPolicy
<1>6. UNCHANGED <<desk, peer, opening, closed>> /\ changes' \in Nat
  BY SafetyIs DEF BeginPolicy, otherVars, Change
<1> HIDE DEF new, modes, change
<1> QED BY <1>2, <1>3, <1>4, <1>5, <1>6, ShareStep

LEMMA CancelPolicyStep ==
  ASSUME InputSafety, NEW s \in Sessions, CancelPolicy(s)
  PROVE  InputSafety'
<1> DEFINE new == [share[s] EXCEPT !.change = NoChange]
           modes == allowed[s] \cap {share[s].mode}
<1>1. share[s] \in Share /\ allowed[s] \in SUBSET {"ask", "room"}
  BY SharesAre
<1>2. /\ new \in Share /\ new.change = NoChange
      /\ new.open = share[s].open /\ new.picture = share[s].picture /\ new.mode = share[s].mode
      /\ new.paused = share[s].paused /\ new.coPlay = share[s].coPlay
      /\ new.simultaneous = share[s].simultaneous
  BY <1>1 DEF Share, NoChange
<1>3. modes \in SUBSET {"ask", "room"} /\ (new.mode # "off" => new.mode \in modes)
  BY <1>1, <1>2, SharesAre
<1>4. /\ share' = [share EXCEPT ![s] = new] /\ allowed' = [allowed EXCEPT ![s] = modes]
      /\ UNCHANGED <<desk, peer, opening, closed>> /\ changes' \in Nat
  BY SafetyIs DEF CancelPolicy, otherVars
<1> HIDE DEF new, modes
<1> QED BY <1>2, <1>3, <1>4, ShareStep

LEMMA ResumeStep ==
  ASSUME InputSafety, NEW s \in Sessions, Resume(s)
  PROVE  InputSafety'
<1> DEFINE new == [share[s] EXCEPT !.paused = FALSE]
<1>1. share[s] \in Share /\ allowed[s] \in SUBSET {"ask", "room"}
  BY SharesAre
<1>2. /\ new \in Share /\ new.change = share[s].change /\ ~new.paused
      /\ new.open = share[s].open /\ new.picture = share[s].picture /\ new.mode = share[s].mode
      /\ new.coPlay = share[s].coPlay /\ new.simultaneous = share[s].simultaneous
  BY <1>1 DEF Share
<1>3. allowed' = [allowed EXCEPT ![s] = allowed[s]]
  BY SafetyIs DEF Resume
<1>4. /\ share' = [share EXCEPT ![s] = new]
      /\ UNCHANGED <<desk, peer, opening, closed>> /\ changes' \in Nat
  BY SafetyIs DEF Resume, otherVars
<1> HIDE DEF new
<1> QED BY <1>1, <1>2, <1>3, <1>4, SharesAre, ShareStep

LEMMA AllowStep ==
  ASSUME InputSafety, NEW c \in Endpoints, Allow(c)
  PROVE  InputSafety'
<1> DEFINE s == peer[c].home
           handOver == share[s].coPlay /\ ~share[s].simultaneous /\ desk.owner = s
<1>1. /\ Safe(desk) /\ peer \in [Endpoints -> Peer] /\ UNCHANGED hostVars /\ changes' \in Nat
      /\ ~desk.grant[c] /\ peer[c].requested /\ s # NoSession /\ Available(s)
      /\ peer[c].link # "down" /\ peer' = Unrequested({c})
  BY SafetyIs DEF Allow, Decidable
<1>2. share[s].mode # "off" /\ s \in Sessions
  BY <1>1, SafetyIs DEF Answerable, Peer
<1>3. PICK d \in (IF handOver THEN Release(desk) ELSE {desk}) : desk' \in Given(d, c)
  BY DEF Allow
<1>4. Safe(d) /\ ~d.grant[c] /\ (share[s].coPlay => Joins(d, c))
  <2>1. CASE handOver
    BY <1>1, <1>3, <2>1, ReleaseSafe DEF Idle, Joins
  <2>2. CASE ~handOver
    BY <1>1, <1>3, <2>2 DEF Allow, CanJoin, Joins
  <2> QED BY <2>1, <2>2
<1>5. Safe(desk')
  BY <1>1, <1>2, <1>3, <1>4, GivenSafe
<1>6. \A e \in Endpoints : desk'.grant[e] => peer[e].link # "down"
  BY <1>5, OwnerShares
<1>7. \A e \in Endpoints : peer[e].requested => peer[e].link # "down"
  BY SafetyIs DEF Answerable
<1>8. peer' \in [Endpoints -> Peer] /\ \A e \in Endpoints :
        /\ peer'[e].home = peer[e].home /\ peer'[e].link = peer[e].link
        /\ peer'[e].extended = peer[e].extended
        /\ peer'[e].requested => peer[e].requested
  BY <1>1, UnrequestedIs
<1> QED BY <1>1, <1>5, <1>6, <1>7, <1>8, PeerStep

LEMMA DenyStep ==
  ASSUME InputSafety, NEW c \in Endpoints, Deny(c)
  PROVE  InputSafety'
<1> DEFINE s == peer[c].home
<1>1. peer \in [Endpoints -> Peer] /\ changes' \in Nat /\ s \in Sessions
  BY SafetyIs DEF Deny, Decidable, Peer
<1>2. CASE share[s].mode # "ask" /\ ~share[s].coPlay
  <2> DEFINE new == [share[s] EXCEPT !.mode = "ask", !.change = NoChange]
  <2>0. share[s] \in Share
    BY <1>1, SharesAre
  <2>1. new \in Share /\ new.mode = "ask" /\ new.change = NoChange
    BY <2>0 DEF Share, Modes, NoChange
  <2>2. ApplyPolicy(s, new, {"ask"})
    BY <1>2 DEF Deny
  <2> HIDE DEF new
  <2> QED BY <1>1, <2>1, <2>2, PolicyStep
<1>3. CASE ~(share[s].mode # "ask" /\ ~share[s].coPlay)
  <2>1. /\ peer' = Unrequested({c}) /\ desk' \in ReleaseConnections(desk, s, {c})
        /\ UNCHANGED hostVars
    BY <1>3 DEF Deny
  <2>2. /\ peer' \in [Endpoints -> Peer] /\ ~peer'[c].requested
        /\ \A e \in Endpoints : e # c => peer'[e] = peer[e]
    BY <1>1, <2>1, UnrequestedIs, UnrequestedOthers
  <2>3. {c} \subseteq Of(s)
    BY DEF Of
  <2> QED BY <1>1, <2>1, <2>2, <2>3, ReleaseStep
<1> QED BY <1>2, <1>3

(* A gamepad that failed may be tried again: nothing that Safe looks at.     *)
LEMMA ForgivenSafe ==
  ASSUME NEW d, Safe(d), NEW X,
         NEW x, x = [d EXCEPT !.padFailed = [c \in Endpoints |-> @[c] /\ c \notin X]]
  PROVE  Safe(x) /\ x.grant = d.grant /\ x.owner = d.owner
<1>1. d \in Desk /\ \A e \in Endpoints : d.held[e] # {} => ~d.suspended[e]
  BY DEF Safe, Authorized
<1>2. /\ x \in Desk /\ x.owner = d.owner /\ x.grant = d.grant /\ x.held = d.held
      /\ x.suspended = d.suspended /\ x.down = d.down /\ x.debt = d.debt /\ x.pad = d.pad
  BY <1>1 DEF Desk
<1> QED BY <1>1, <1>2, PadsSafe

LEMMA SetPeersStep ==
  ASSUME InputSafety, NEW s \in Sessions, NEW keep \in SUBSET Endpoints,
         NEW fresh \in SUBSET Endpoints, SetPeers(s, keep, fresh)
  PROVE  InputSafety'
<1> DEFINE gone == Of(s) \ keep
<1>1. /\ Safe(desk) /\ peer \in [Endpoints -> Peer] /\ UNCHANGED hostVars /\ changes' \in Nat
      /\ fresh \cap keep = {} /\ \A c \in fresh : peer[c].home \in {s, NoSession}
      /\ peer' = [c \in Endpoints |-> IF c \in fresh THEN [Unbound EXCEPT !.home = s]
                                      ELSE IF c \in gone THEN Unbound ELSE peer[c]]
  BY SafetyIs DEF SetPeers, Change
<1>2. PICK d \in ReleaseConnections(desk, s, gone) :
        desk' = [d EXCEPT !.padFailed = [c \in Endpoints |-> @[c] /\ c \notin gone]]
  BY DEF SetPeers
<1>3. /\ Safe(d) /\ \A c \in gone : ~d.grant[c]
  BY <1>1, <1>2, ReleaseConnectionsSafe
<1>4. Safe(desk') /\ desk'.grant = d.grant
  BY <1>2, <1>3, ForgivenSafe
<1>5. \A c \in Endpoints : desk'.grant[c] => c \notin gone /\ c \notin fresh
  <2>1. \A c \in fresh : peer[c].home = s => c \in gone
    BY <1>1 DEF Of
  <2>2. \A c \in Endpoints : desk'.grant[c] => peer[c].home # NoSession
    BY <1>4, OwnersOnly
  <2> QED BY <1>1, <1>3, <1>4, <2>1, <2>2
<1>6. /\ peer' \in [Endpoints -> Peer]
      /\ \A c \in Endpoints : peer'[c] = peer[c] \/ (~peer'[c].requested /\ c \in gone \cup fresh)
  <2>1. Unbound \in Peer /\ [Unbound EXCEPT !.home = s] \in Peer
        /\ ~Unbound.requested /\ ~[Unbound EXCEPT !.home = s].requested
    BY DEF Unbound, Peer
  <2> QED BY <1>1, <2>1
<1>7. \A c \in Endpoints : desk'.grant[c] => peer[c].link # "down"
  BY <1>4, OwnerShares
<1>8. \A c \in Endpoints : peer[c].requested => peer[c].link # "down"
  BY SafetyIs DEF Answerable
<1> HIDE DEF gone
<1> QED BY <1>1, <1>4, <1>5, <1>6, <1>7, <1>8, PeerStep

LEMMA RevokeStep ==
  ASSUME InputSafety, Revoke
  PROVE  InputSafety'
<1>1. /\ Safe(desk) /\ Consented /\ Answerable /\ peer \in [Endpoints -> Peer]
      /\ share \in [Sessions -> Share] /\ opening \in {"none", "running", "done"}
      /\ closed \in BOOLEAN /\ changes \in Nat
  BY SafetyIs
<1>0. opening' = opening /\ closed' = closed /\ changes' = changes + 1
  BY DEF Revoke, otherVars, Change
<1>2. Safe(desk') /\ Idle(desk')
  <2>1. CASE desk.owner # NoSession /\ share[desk.owner].mode # "off"
    BY <1>1, <2>1, ReleaseSafe DEF Revoke
  <2>2. CASE ~(desk.owner # NoSession /\ share[desk.owner].mode # "off")
    <3>1. desk' = desk
      BY <2>2 DEF Revoke
    <3>2. \A c \in Endpoints : ~desk.grant[c]
      BY <1>1, <2>2, OwnersOnly, OwnerShares
    <3>3. desk.owner = NoSession
      BY <1>1, <3>2 DEF Safe, OwnerControls, Granted, Of
    <3> QED BY <1>1, <3>1, <3>2, <3>3, OwnersOnly DEF Idle
  <2> QED BY <2>1, <2>2
<1>3. /\ peer' \in [Endpoints -> Peer]
      /\ \A c \in Endpoints : peer'[c].requested =>
           peer[c].requested /\ (peer[c].home = NoSession \/ share[peer[c].home].mode = "off")
  <2> DEFINE X == {c \in Endpoints : peer[c].home # NoSession
                                       /\ share[peer[c].home].mode # "off"}
  <2>1. peer' = Unrequested(X)
    BY DEF Revoke
  <2>2. \A c \in Endpoints :
          c \notin X => peer[c].home = NoSession \/ share[peer[c].home].mode = "off"
    OBVIOUS
  <2> HIDE DEF X
  <2> QED BY <1>1, <2>1, <2>2, UnrequestedIs
<1>4. \A c \in Endpoints : ~peer'[c].requested
  BY <1>1, <1>3 DEF Answerable
<1>5. /\ share' \in [Sessions -> Share]
      /\ \A s \in Sessions : /\ share'[s].change = NoChange
                             /\ share'[s].mode = IF share[s].mode = "off" THEN "off" ELSE "ask"
  <2> DEFINE new(s) == [share[s] EXCEPT !.change = NoChange,
                                        !.mode = IF @ = "off" THEN @ ELSE "ask"]
  <2>1. \A s \in Sessions : /\ new(s) \in Share /\ new(s).change = NoChange
                             /\ new(s).mode = IF share[s].mode = "off" THEN "off" ELSE "ask"
    BY <1>1 DEF Share, Modes, NoChange
  <2>2. share' = [s \in Sessions |-> new(s)]
    BY DEF Revoke
  <2> HIDE DEF new
  <2> QED BY <2>1, <2>2
<1>6. /\ allowed' \in [Sessions -> SUBSET {"ask", "room"}]
      /\ \A s \in Sessions : allowed'[s] = IF share[s].mode = "off" THEN {} ELSE {"ask"}
  BY DEF Revoke
<1>7. Safe(desk)'
  BY <1>2, <1>3, Carried DEF Idle
<1>8. Consented'
  BY <1>5, <1>6 DEF Consented
<1>9. Answerable'
  BY <1>4 DEF Answerable
<1> QED BY <1>0, <1>1, <1>3, <1>5, <1>6, <1>7, <1>8, <1>9 DEF InputSafety, TypeOK, Safe

LEMMA CloseSessionStep ==
  ASSUME InputSafety, NEW s \in Sessions, CloseSession(s)
  PROVE  InputSafety'
<1>1. /\ Safe(desk) /\ Consented /\ Answerable /\ peer \in [Endpoints -> Peer]
      /\ share \in [Sessions -> Share] /\ allowed \in [Sessions -> SUBSET {"ask", "room"}]
      /\ opening' \in {"none", "running", "done"} /\ closed' \in BOOLEAN /\ changes' \in Nat
  BY SafetyIs DEF CloseSession, otherVars, Change
<1>2. PICK d \in ReleaseOf(desk, s) :
        desk' = [d EXCEPT !.padFailed = [c \in Endpoints |-> @[c] /\ c \notin Of(s)]]
  BY DEF CloseSession
<1>3. Safe(d) /\ d.owner # s /\ \A c \in Endpoints : d.grant[c] => peer[c].home # s
  BY <1>1, <1>2, ReleaseOfSafe
<1>4. Safe(desk') /\ desk'.grant = d.grant /\ desk'.owner = d.owner
  BY <1>2, <1>3, ForgivenSafe
<1>5. /\ peer' \in [Endpoints -> Peer]
      /\ \A c \in Endpoints : IF peer[c].home = s THEN ~peer'[c].requested
                              ELSE peer'[c] = peer[c]
  <2>1. Unbound \in Peer /\ ~Unbound.requested
    BY DEF Unbound, Peer
  <2> QED BY <1>1, <2>1 DEF CloseSession, Of
<1>6. /\ share' \in [Sessions -> Share] /\ share'[s].mode = "off" /\ share'[s].change = NoChange
      /\ \A t \in Sessions : t # s => share'[t] = share[t]
  <2>1. [NewShare EXCEPT !.open = FALSE] \in Share /\ NewShare.mode = "off"
        /\ NewShare.change = NoChange
    BY DEF NewShare, Share, NoChange, Modes
  <2> QED BY <1>1, <2>1 DEF CloseSession, NewShare
<1>7. /\ allowed' \in [Sessions -> SUBSET {"ask", "room"}]
      /\ \A t \in Sessions : t # s => allowed'[t] = allowed[t]
  BY <1>1 DEF CloseSession
<1>8. Safe(desk)'
  <2>1. \A c \in Endpoints : desk'.grant[c] =>
          /\ desk'.owner \in Sessions /\ Available(desk'.owner) /\ peer[c].home # s
          /\ share[desk'.owner].mode # "off" /\ peer[c].link # "down" /\ desk'.owner # s
    BY <1>3, <1>4, OwnerShares
  <2> QED BY <1>4, <1>5, <1>6, <2>1, Carried DEF Available
<1>9. Consented'
  BY <1>1, <1>6, <1>7 DEF Consented
<1>10. Answerable'
  <2> SUFFICES ASSUME NEW c \in Endpoints, peer'[c].requested
               PROVE  /\ peer'[c].home # NoSession /\ peer'[c].link # "down"
                      /\ Available(peer[c].home)' /\ share'[peer'[c].home].mode = "ask"
    BY DEF Answerable
  <2>1. /\ peer'[c] = peer[c] /\ peer[c].home # s /\ peer[c].home # NoSession
        /\ peer[c].link # "down" /\ Available(peer[c].home) /\ share[peer[c].home].mode = "ask"
    BY <1>1, <1>5 DEF Answerable
  <2>2. peer[c].home \in Sessions
    BY <1>1, <2>1 DEF Peer
  <2> QED BY <1>6, <2>1, <2>2 DEF Available
<1> QED BY <1>1, <1>5, <1>6, <1>7, <1>8, <1>9, <1>10, SafetyIs DEF InputSafety, TypeOK, Safe

LEMMA CommandStep ==
  ASSUME InputSafety, NEW s \in Sessions, Command(s)
  PROVE  InputSafety'
BY CommitPolicyStep, CancelPolicyStep, SetSimultaneousStep, ResumeStep, CloseSessionStep,
   SetTargetStep, BeginPolicyStep, SetPeersStep, TransportLostStep DEF Command

(* Close and the ticker.                                                     *)
LEMMA TickStep ==
  ASSUME InputSafety, Tick \/ Close
  PROVE  InputSafety'
<1>1. Safe(desk')
  BY SafetyIs, RetrySafe, RefreshedSafe, ReleaseSafe DEF Tick, Close
<1>0. closed \in BOOLEAN /\ changes \in Nat
  BY SafetyIs
<1>2. /\ UNCHANGED <<peer, share, allowed, opening>>
      /\ closed' \in BOOLEAN /\ changes' \in Nat
  <2>1. CASE Tick
    BY <1>0, <2>1 DEF Tick, deskOnly, hostVars
  <2>2. CASE Close
    BY <1>0, <2>2 DEF Close, Change
  <2> QED BY <2>1, <2>2
<1> QED BY <1>1, <1>2, SafetyIs, DeskStep

-----------------------------------------------------------------------------
LEMMA InitSafe == Init => InputSafety
<1> SUFFICES ASSUME Init PROVE InputSafety
  OBVIOUS
<1>1. /\ desk \in Desk /\ Idle(desk) /\ desk.down = {} /\ desk.debt = {}
  BY DEF Init, Desk, Idle
<1>2. Accounted(desk)
  BY <1>1 DEF Accounted, Held, Idle
<1>3. Safe(desk)
  BY <1>1, <1>2, IdleSafe
<1>4. /\ peer \in [Endpoints -> Peer] /\ \A c \in Endpoints : ~peer[c].requested
  BY DEF Init, Peer, Unbound
<1>5. /\ share \in [Sessions -> Share]
      /\ \A s \in Sessions : share[s].mode = "off" /\ share[s].change = NoChange
  BY DEF Init, Share, NewShare, NoChange, Modes
<1>6. Consented /\ Answerable
  BY <1>4, <1>5 DEF Consented, Answerable
<1> QED BY <1>3, <1>4, <1>5, <1>6, SafetyIs DEF Init

LEMMA NextSafe == InputSafety /\ [Next]_vars => InputSafety'
<1> SUFFICES ASSUME InputSafety, [Next]_vars PROVE InputSafety'
  OBVIOUS
<1>1. CASE UNCHANGED vars
  BY <1>1, SafetyIs, DeskStep DEF vars
<1>2. CASE Next
  BY <1>2, PacketStep, AllowStep, DenyStep, BranchLostStep, CommandStep, GamepadOpenedStep,
     RevokeStep, TickStep DEF Next
<1> QED BY <1>1, <1>2

(* Whatever the order of packets, lost branches, commands of several Hosts,  *)
(* late permissions, late gamepads and faults of the sink: what is down on   *)
(* the desktop is held by somebody whom its owner's policy admits now, or is *)
(* owed to be lifted (internal/app/remoteinput).                             *)
THEOREM InputsSafe == Spec => []InputSafety
<1> QED BY InitSafe, NextSafe, PTL DEF Spec
=============================================================================
