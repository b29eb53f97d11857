---------------------------- MODULE TouchProofs ----------------------------
(* The phone follows the panel for any number of slots, contacts and       *)
(* sessions, any changes in one frame and any events that do not arrive.   *)
EXTENDS Touch, TLAPS, FiniteSetTheorems, SequenceTheorems

-----------------------------------------------------------------------------
(* A set of slots in slot order: the rank of a slot is the number of       *)
(* slots of the set before it.                                             *)
Rank(S, s) == Cardinality({t \in S : t < s})

LEMMA SlotsFinite ==
    ASSUME NEW S \in SUBSET Slots
    PROVE  /\ IsFiniteSet(S) /\ Cardinality(S) \in Nat /\ Cardinality(S) <= MaxFingers
           /\ S \subseteq Int
<1>1. IsFiniteSet(Slots) /\ Cardinality(Slots) = MaxFingers
  BY FingerAssumption, FS_Interval DEF Slots
<1>2. IsFiniteSet(S) /\ Cardinality(S) <= MaxFingers
  BY <1>1, FS_Subset
<1> QED BY <1>2, FS_CardinalityType DEF Slots

(* The rank is strictly monotone and less than the cardinality.            *)
LEMMA RankMonotone ==
    ASSUME NEW S \in SUBSET Slots, NEW s \in S, NEW u \in S
    PROVE  /\ Rank(S, s) \in 0..(Cardinality(S) - 1)
           /\ s < u <=> Rank(S, s) < Rank(S, u)
           /\ Rank(S, s) = Rank(S, u) => s = u
<1>0. ASSUME NEW v \in S PROVE /\ {t \in S : t < v} \in SUBSET Slots
                               /\ Rank(S, v) \in Nat /\ Rank(S, v) < Cardinality(S)
  <2> DEFINE B == {t \in S : t < v}
  <2>1. B \in SUBSET S /\ B # S
    BY SlotsFinite
  <2>2. IsFiniteSet(S) /\ Cardinality(S) \in Nat
    BY SlotsFinite
  <2> HIDE DEF B
  <2>3. Cardinality(B) \in Nat /\ Cardinality(B) <= Cardinality(S) /\ Cardinality(S) # Cardinality(B)
    BY <2>1, <2>2, FS_Subset, FS_CardinalityType
  <2> QED BY <2>1, <2>2, <2>3 DEF B, Rank
<1>1. ASSUME NEW a \in S, NEW b \in S, a < b PROVE Rank(S, a) < Rank(S, b)
  <2> DEFINE A == {t \in S : t < a}
             B == {t \in S : t < b}
  <2>1. A \in SUBSET B /\ A # B
    <3>1. S \subseteq Int
      BY SlotsFinite
    <3>2. a \in B /\ a \notin A
      BY <1>1, <3>1
    <3>3. \A t \in A : t \in B
      BY <1>1, <3>1
    <3> QED BY <3>2, <3>3
  <2>2. IsFiniteSet(B) /\ Cardinality(B) \in Nat /\ Cardinality(A) \in Nat
    BY SlotsFinite
  <2> HIDE DEF A, B
  <2>3. Cardinality(A) < Cardinality(B)
    BY <2>1, <2>2, FS_Subset
  <2> QED BY <2>3 DEF A, B, Rank
<1>2. s \in Int /\ u \in Int
  BY SlotsFinite
<1>3. Rank(S, s) \in 0..(Cardinality(S) - 1) /\ Rank(S, u) \in Nat /\ Rank(S, s) \in Nat
  <2>1. Cardinality(S) \in Nat
    BY SlotsFinite
  <2> QED BY <1>0, <2>1
<1> HIDE DEF Rank
<1>4. s < u \/ s = u \/ u < s
  BY <1>2
<1>5. (s < u => Rank(S, s) < Rank(S, u)) /\ (u < s => Rank(S, u) < Rank(S, s))
  BY <1>1
<1> QED BY <1>2, <1>3, <1>4, <1>5

LEMMA NthOfRank ==
    ASSUME NEW S \in SUBSET Slots, NEW s \in S
    PROVE  Nth(S, Rank(S, s) + 1) = s
<1> DEFINE r == Rank(S, s)
<1>1. r \in Nat
  <2>1. Cardinality(S) \in Nat
    BY SlotsFinite
  <2> QED BY <2>1, RankMonotone
<1>2. (r + 1) - 1 = r
  BY <1>1
<1>3. \A u \in S : Rank(S, u) = r => u = s
  BY RankMonotone
<1>4. Nth(S, r + 1) = CHOOSE u \in S : Rank(S, u) = r
  BY <1>2 DEF Nth, Rank
<1> HIDE DEF r
<1>5. \E u \in S : Rank(S, u) = r
  BY DEF r
<1> QED BY <1>3, <1>4, <1>5 DEF r

(* Every place is taken: the ranks are distinct, and as many as the places. *)
LEMMA NthMember ==
    ASSUME NEW S \in SUBSET Slots, NEW i \in 1..Cardinality(S)
    PROVE  Nth(S, i) \in S /\ Rank(S, Nth(S, i)) = i - 1
<1> DEFINE n == Cardinality(S)
           f == [s \in S |-> Rank(S, s)]
<1>1. IsFiniteSet(S) /\ n \in Nat /\ n > 0
  BY SlotsFinite
<1>2. IsFiniteSet(0..(n - 1)) /\ Cardinality(0..(n - 1)) = n
  <2> HIDE DEF n
  <2> QED BY <1>1, FS_Interval
<1>3. f \in Injection(S, 0..(n - 1))
  <2>1. \A s \in S : f[s] \in 0..(n - 1)
    BY RankMonotone
  <2>2. \A s, u \in S : f[s] = f[u] => s = u
    BY RankMonotone
  <2>3. f \in [S -> 0..(n - 1)]
    BY <2>1
  <2> HIDE DEF f, n
  <2> QED BY <2>2, <2>3 DEF Injection, IsInjective
<1>4. f \in Surjection(S, 0..(n - 1))
  <2> HIDE DEF f
  <2> QED BY <1>2, <1>3, FS_Injection
<1>5. PICK s \in S : f[s] = i - 1
  <2> HIDE DEF f
  <2>1. i - 1 \in 0..(n - 1)
    BY <1>1
  <2> QED BY <1>4, <2>1 DEF Surjection
<1>6. Rank(S, s) + 1 = i
  BY <1>5, <1>1
<1>7. Nth(S, i) = s
  BY <1>6, NthOfRank
<1> QED BY <1>5, <1>7

(* Before and after a place.                                               *)
LEMMA NthSplit ==
    ASSUME NEW S \in SUBSET Slots
    PROVE  /\ \A i \in 1..Cardinality(S) : \A t \in S :
                 (t <= Nth(S, i) <=> Rank(S, t) <= i - 1) /\ (t > Nth(S, i) <=> Rank(S, t) >= i)
           /\ \A i \in 1..Cardinality(S) : \A t \in S : Rank(S, t) = i - 1 => t = Nth(S, i)
<1>0. Cardinality(S) \in Nat /\ S \subseteq Int
  BY SlotsFinite
<1>1. ASSUME NEW i \in 1..Cardinality(S), NEW t \in S
      PROVE  /\ t <= Nth(S, i) <=> Rank(S, t) <= i - 1
             /\ t > Nth(S, i) <=> Rank(S, t) >= i
             /\ Rank(S, t) = i - 1 => t = Nth(S, i)
  <2> DEFINE x == Nth(S, i)
  <2>1. x \in S /\ Rank(S, x) = i - 1
    BY NthMember
  <2> HIDE DEF x
  <2>2. /\ Rank(S, t) \in Nat
        /\ x < t <=> Rank(S, x) < Rank(S, t)
        /\ Rank(S, t) = Rank(S, x) => t = x
    BY <1>0, <2>1, RankMonotone
  <2>3. x \in Int /\ t \in Int
    BY <1>0, <2>1
  <2> QED BY <2>1, <2>2, <2>3, <1>0 DEF x
<1> QED BY <1>1

-----------------------------------------------------------------------------
(* The events of a frame, from the slots p to the slots c.                 *)

(* No contact is in two slots.                                             *)
Distinct(m) == \A s, t \in Down(m) : m[s].id = m[t].id => s = t

Touched == [id : Ids, at : Raw]
Actions == {"DOWN", "UP", "POINTER_DOWN", "POINTER_UP", "MOVE"}

(* An event fits: its pointers are contacts, no two the same, and the      *)
(* index is a place among them.                                            *)
Fits(e) ==
    /\ e.action \in Actions
    /\ DOMAIN e.ptrs \in SUBSET Slots /\ e.ptrs \in [DOMAIN e.ptrs -> Touched]
    /\ DOMAIN e.ptrs # {}
    /\ \A s, t \in DOMAIN e.ptrs : e.ptrs[s].id = e.ptrs[t].id => s = t
    /\ e.index \in Nat /\ e.index < Cardinality(DOMAIN e.ptrs)

UpFingers(p, c, s) ==
    [t \in Survivors(p, c) \cup {s} |-> IF t = s THEN p[t] ELSE c[t]]
DownFingers(p, c, s) ==
    [t \in Survivors(p, c) \cup {u \in Rising(p, c) : u <= s} |-> c[t]]
MoveFingers(c) == [t \in Down(c) |-> c[t]]

UpEvent(p, c, s)   == Event("UP", "POINTER_UP", UpFingers(p, c, s), s)
DownEvent(p, c, s) == Event("DOWN", "POINTER_DOWN", DownFingers(p, c, s), s)
MoveEvent(c)       == Event("MOVE", "MOVE", MoveFingers(c), 0)

Moved(p, c) == /\ Falling(p, c) = {} /\ Rising(p, c) = {}
               /\ \E s \in Survivors(p, c) : p[s].at # c[s].at

LEMMA DownTouched ==
    ASSUME NEW m \in MtState
    PROVE  Down(m) \in SUBSET Slots /\ \A s \in Down(m) : m[s] \in Touched
BY DEF MtState, Finger, Touched, Down

(* A contact of the previous frame falls or survives; one of this frame    *)
(* rises or survived.                                                      *)
LEMMA Partition ==
    ASSUME NEW p \in MtState, NEW c \in MtState
    PROVE  /\ Falling(p, c) \in SUBSET Slots /\ Rising(p, c) \in SUBSET Slots
           /\ Survivors(p, c) \in SUBSET Slots
           /\ Down(p) = Falling(p, c) \cup Survivors(p, c)
           /\ Down(c) = Rising(p, c) \cup Survivors(p, c)
           /\ Falling(p, c) \cap Survivors(p, c) = {}
           /\ Rising(p, c) \cap Survivors(p, c) = {}
           /\ \A s \in Survivors(p, c) : p[s].id = c[s].id
BY DEF Falling, Rising, Survivors, Down

LEMMA SingleDomain ==
    ASSUME NEW D \in SUBSET Slots, NEW s \in D
    PROVE  /\ Cardinality(D) \in Nat \ {0}
           /\ Cardinality(D) = 1 <=> D = {s}
<1>1. IsFiniteSet(D) /\ Cardinality(D) \in Nat
  BY SlotsFinite
<1>2. Cardinality(D) # 0
  BY <1>1, FS_EmptySet
<1>3. Cardinality(D) = 1 => D = {s}
  <2> SUFFICES ASSUME Cardinality(D) = 1 PROVE D = {s}
    OBVIOUS
  <2>1. PICK x : D = {x}
    BY <1>1, FS_Singleton
  <2> QED BY <2>1
<1>4. D = {s} => Cardinality(D) = 1
  BY FS_Singleton
<1> QED BY <1>1, <1>2, <1>3, <1>4

(* The pointer an event is about is found by its index.                    *)
LEMMA LeadOfEvent ==
    ASSUME NEW alone, NEW others, others # "MOVE",
           NEW D \in SUBSET Slots, NEW f \in [D -> Touched], NEW s \in D
    PROVE  /\ Lead(Event(alone, others, f, s)) = f[s]
           /\ Event(alone, others, f, s).index \in Nat
           /\ Event(alone, others, f, s).index < Cardinality(D)
           /\ Event(alone, others, f, s).ptrs = f
           /\ Event(alone, others, f, s).action = IF D = {s} THEN alone ELSE others
<1> DEFINE e == Event(alone, others, f, s)
<1>1. Cardinality(D) \in Nat \ {0} /\ (Cardinality(D) = 1 <=> D = {s})
  BY SingleDomain
<1>2. /\ e.ptrs = f /\ DOMAIN f = D
      /\ e.action = IF D = {s} THEN alone ELSE others
      /\ e.index = IF D = {s} THEN 0 ELSE Rank(D, s)
  BY <1>1 DEF Event, Rank
<1>3. D = {s} => Rank(D, s) = 0
  <2>1. Rank(D, s) \in 0..(Cardinality(D) - 1)
    BY RankMonotone
  <2> QED BY <1>1, <2>1
<1>4. e.index = Rank(D, s)
  BY <1>2, <1>3
<1>5. Rank(D, s) \in 0..(Cardinality(D) - 1)
  BY RankMonotone
<1>6. Nth(D, Rank(D, s) + 1) = s
  BY NthOfRank
<1>7. Lead(e) = f[s]
  <2> HIDE DEF e
  <2> QED BY <1>2, <1>4, <1>6 DEF Lead
<1>8. e.index \in Nat /\ e.index < Cardinality(D)
  <2> HIDE DEF e
  <2> QED BY <1>1, <1>4, <1>5
<1> QED BY <1>2, <1>7, <1>8

LEMMA UpFits ==
    ASSUME NEW p \in MtState, NEW c \in MtState, Distinct(p), NEW s \in Falling(p, c)
    PROVE  LET D == Survivors(p, c) \cup {s}
               e == UpEvent(p, c, s)
           IN  /\ Fits(e) /\ D \in SUBSET Slots /\ DOMAIN UpFingers(p, c, s) = D
               /\ e.ptrs = UpFingers(p, c, s) /\ Lead(e) = p[s]
               /\ e.action = IF D = {s} THEN "UP" ELSE "POINTER_UP"
<1> DEFINE D == Survivors(p, c) \cup {s}
           f == UpFingers(p, c, s)
           e == UpEvent(p, c, s)
<1>1. /\ D \in SUBSET Slots /\ s \in D /\ s \in Down(p) /\ s \notin Survivors(p, c)
      /\ \A t \in Survivors(p, c) : t \in Down(p) /\ t \in Down(c) /\ p[t].id = c[t].id
  BY Partition
<1>2. DOMAIN f = D /\ f[s] = p[s] /\ \A t \in D : f[t].id = p[t].id
  BY <1>1 DEF UpFingers
<1>3. f \in [D -> Touched]
  <2>1. \A t \in D : (IF t = s THEN p[t] ELSE c[t]) \in Touched
    BY <1>1, DownTouched
  <2> QED BY <2>1 DEF UpFingers
<1>4. \A t, u \in D : f[t].id = f[u].id => t = u
  BY <1>1, <1>2 DEF Distinct
<1> HIDE DEF f, D
<1>5. /\ Lead(e) = f[s] /\ e.index \in Nat /\ e.index < Cardinality(D) /\ e.ptrs = f
      /\ e.action = IF D = {s} THEN "UP" ELSE "POINTER_UP"
  <2>1. e = Event("UP", "POINTER_UP", f, s) /\ "POINTER_UP" # "MOVE"
    BY DEF UpEvent, f
  <2> HIDE DEF e
  <2> QED BY <1>1, <1>3, <2>1, LeadOfEvent
<1> HIDE DEF e
<1>6. Fits(e)
  BY <1>1, <1>2, <1>3, <1>4, <1>5 DEF Fits, Actions
<1> QED BY <1>1, <1>2, <1>5, <1>6 DEF f, D, e

LEMMA DownFits ==
    ASSUME NEW p \in MtState, NEW c \in MtState, Distinct(c), NEW s \in Rising(p, c)
    PROVE  LET D == Survivors(p, c) \cup {u \in Rising(p, c) : u <= s}
               e == DownEvent(p, c, s)
           IN  /\ Fits(e) /\ D \in SUBSET Slots /\ DOMAIN DownFingers(p, c, s) = D /\ s \in D
               /\ e.ptrs = DownFingers(p, c, s) /\ Lead(e) = c[s]
               /\ e.action = IF D = {s} THEN "DOWN" ELSE "POINTER_DOWN"
<1> DEFINE D == Survivors(p, c) \cup {u \in Rising(p, c) : u <= s}
           f == DownFingers(p, c, s)
           e == DownEvent(p, c, s)
<1>1. D \in SUBSET Slots /\ s \in D /\ \A t \in D : t \in Down(c)
  <2>1. s <= s
    BY Partition DEF Slots
  <2> QED BY <2>1, Partition
<1>2. DOMAIN f = D /\ \A t \in D : f[t] = c[t]
  BY DEF DownFingers
<1>3. f \in [D -> Touched]
  <2>1. \A t \in D : c[t] \in Touched
    BY <1>1, DownTouched
  <2> QED BY <2>1 DEF DownFingers
<1>4. \A t, u \in D : f[t].id = f[u].id => t = u
  BY <1>1, <1>2 DEF Distinct
<1> HIDE DEF f, D
<1>5. /\ Lead(e) = f[s] /\ e.index \in Nat /\ e.index < Cardinality(D) /\ e.ptrs = f
      /\ e.action = IF D = {s} THEN "DOWN" ELSE "POINTER_DOWN"
  BY <1>1, <1>3, LeadOfEvent DEF DownEvent, f
<1> HIDE DEF e
<1>6. Fits(e)
  BY <1>1, <1>2, <1>3, <1>4, <1>5 DEF Fits, Actions
<1> QED BY <1>1, <1>2, <1>5, <1>6 DEF f, D, e

LEMMA MoveFits ==
    ASSUME NEW c \in MtState, Distinct(c), Down(c) # {}
    PROVE  /\ Fits(MoveEvent(c)) /\ MoveEvent(c).ptrs = MoveFingers(c)
           /\ MoveEvent(c).action = "MOVE"
<1> DEFINE e == MoveEvent(c)
<1>1. PICK s \in Down(c) : TRUE
  OBVIOUS
<1>2. Down(c) \in SUBSET Slots
  BY DownTouched
<1>3. Cardinality(Down(c)) \in Nat \ {0}
  BY <1>1, <1>2, SingleDomain
<1>4. /\ DOMAIN MoveFingers(c) = Down(c) /\ MoveFingers(c) \in [Down(c) -> Touched]
      /\ \A t \in Down(c) : MoveFingers(c)[t] = c[t]
  BY DownTouched DEF MoveFingers
<1>5. e.ptrs = MoveFingers(c) /\ e.action = "MOVE" /\ e.index = 0
  BY DEF MoveEvent, Event
<1> HIDE DEF e
<1> QED BY <1>2, <1>3, <1>4, <1>5 DEF Fits, Actions, Distinct, e

-----------------------------------------------------------------------------
(* The events of a frame in their order.                                   *)

FrameEvents(p, c) ==
    {UpEvent(p, c, s) : s \in Falling(p, c)} \cup {DownEvent(p, c, s) : s \in Rising(p, c)}
        \cup (IF Moved(p, c) THEN {MoveEvent(c)} ELSE {})

Ups(p, c)   == Cardinality(Falling(p, c))
Downs(p, c) == Cardinality(Rising(p, c))

LEMMA ConcatPlaces ==
    ASSUME NEW S, NEW a \in Seq(S), NEW b \in Seq(S),
           NEW m, NEW n, Len(a) = m, Len(b) = n
    PROVE  /\ a \o b \in Seq(S) /\ Len(a \o b) = m + n /\ m \in Nat /\ n \in Nat
           /\ \A i \in 1..m : (a \o b)[i] = a[i]
           /\ \A i \in 1..n : (a \o b)[m + i] = b[i]
<1> DEFINE x == a \o b
<1>1. /\ x \in Seq(S) /\ Len(x) = m + n
      /\ \A i \in 1..(m + n) : x[i] = IF i <= m THEN a[i] ELSE b[i - m]
  BY ConcatProperties
<1>2. m \in Nat /\ n \in Nat
  BY LenProperties
<1> HIDE DEF x
<1>3. \A i \in 1..m : x[i] = a[i]
  BY <1>1, <1>2
<1>4. \A i \in 1..n : x[m + i] = b[i]
  <2> TAKE i \in 1..n
  <2>1. m + i \in 1..(m + n) /\ ~(m + i <= m) /\ (m + i) - m = i
    BY <1>2
  <2> QED BY <1>1, <2>1
<1> QED BY <1>1, <1>2, <1>3, <1>4 DEF x

LEMMA EventsAre ==
    ASSUME NEW p \in MtState, NEW c \in MtState
    PROVE  /\ Events(p, c) \in Seq(FrameEvents(p, c))
           /\ Ups(p, c) \in Nat /\ Downs(p, c) \in Nat
           /\ Len(Events(p, c)) = Ups(p, c) + Downs(p, c) + (IF Moved(p, c) THEN 1 ELSE 0)
           /\ \A i \in 1..Ups(p, c) : Events(p, c)[i] = UpEvent(p, c, Nth(Falling(p, c), i))
           /\ \A i \in 1..Downs(p, c) :
                 Events(p, c)[Ups(p, c) + i] = DownEvent(p, c, Nth(Rising(p, c), i))
           /\ Moved(p, c) => Ups(p, c) = 0 /\ Downs(p, c) = 0 /\ Events(p, c)[1] = MoveEvent(c)
<1> DEFINE up == Falling(p, c)
           dn == Rising(p, c)
           S == FrameEvents(p, c)
           U == [i \in 1..Cardinality(up) |-> UpEvent(p, c, Nth(up, i))]
           V == [i \in 1..Cardinality(dn) |-> DownEvent(p, c, Nth(dn, i))]
           W == IF Moved(p, c) THEN <<MoveEvent(c)>> ELSE <<>>
<1>1. Events(p, c) = (U \o V) \o W
  BY DEF Events, UpEvent, UpFingers, DownEvent, DownFingers, MoveEvent, MoveFingers, Moved
<1>2. up \in SUBSET Slots /\ dn \in SUBSET Slots
  BY Partition
<1>3. Cardinality(up) \in Nat /\ Cardinality(dn) \in Nat
  BY <1>2, SlotsFinite
<1>4. \A i \in 1..Cardinality(up) : UpEvent(p, c, Nth(up, i)) \in S
  BY <1>2, NthMember DEF FrameEvents
<1>5. \A i \in 1..Cardinality(dn) : DownEvent(p, c, Nth(dn, i)) \in S
  BY <1>2, NthMember DEF FrameEvents
<1>6. Moved(p, c) => MoveEvent(c) \in S
  BY DEF FrameEvents
<1>7. Moved(p, c) => Cardinality(up) = 0 /\ Cardinality(dn) = 0
  BY FS_EmptySet DEF Moved
<1> HIDE DEF up, dn, S
<1>8. U \in Seq(S) /\ Len(U) = Cardinality(up)
      /\ \A i \in 1..Cardinality(up) : U[i] = UpEvent(p, c, Nth(up, i))
  BY <1>3, <1>4
<1>9. V \in Seq(S) /\ Len(V) = Cardinality(dn)
      /\ \A i \in 1..Cardinality(dn) : V[i] = DownEvent(p, c, Nth(dn, i))
  BY <1>3, <1>5
<1>10. /\ W \in Seq(S) /\ Len(W) = (IF Moved(p, c) THEN 1 ELSE 0)
       /\ Moved(p, c) => W[1] = MoveEvent(c)
  BY <1>6
<1> HIDE DEF U, V, W
<1> DEFINE X == U \o V
           n == Cardinality(up) + Cardinality(dn)
<1>11. /\ X \in Seq(S) /\ Len(X) = n
       /\ \A i \in 1..Cardinality(up) : X[i] = U[i]
       /\ \A i \in 1..Cardinality(dn) : X[Cardinality(up) + i] = V[i]
  BY <1>8, <1>9, ConcatPlaces
<1> HIDE DEF X
<1>12. /\ X \o W \in Seq(S) /\ Len(X \o W) = n + Len(W)
       /\ \A i \in 1..n : (X \o W)[i] = X[i]
       /\ \A i \in 1..Len(W) : (X \o W)[n + i] = W[i]
  <2> DEFINE w == Len(W)
  <2>1. X \in Seq(S) /\ W \in Seq(S) /\ Len(X) = n /\ Len(W) = w
    BY <1>10, <1>11
  <2> HIDE DEF n, w
  <2>2. /\ X \o W \in Seq(S) /\ Len(X \o W) = n + w
        /\ \A i \in 1..n : (X \o W)[i] = X[i]
        /\ \A i \in 1..w : (X \o W)[n + i] = W[i]
    BY <2>1, ConcatPlaces
  <2> QED BY <2>2 DEF w
<1>13. Events(p, c) = X \o W
  BY <1>1 DEF X
<1>14. \A i \in 1..Cardinality(up) : (X \o W)[i] = U[i]
  BY <1>3, <1>11, <1>12
<1>15. \A i \in 1..Cardinality(dn) : (X \o W)[Cardinality(up) + i] = V[i]
  BY <1>3, <1>11, <1>12
<1>16. Moved(p, c) => (X \o W)[1] = MoveEvent(c)
  <2>1. Moved(p, c) => n + 1 = 1 /\ 1 \in 1..Len(W)
    BY <1>7, <1>10
  <2> QED BY <1>10, <1>12, <2>1
<1> DEFINE Z == X \o W
<1> HIDE DEF Z
<1>17. /\ Events(p, c) = Z /\ Z \in Seq(S) /\ Len(Z) = n + Len(W)
       /\ \A i \in 1..Cardinality(up) : Z[i] = UpEvent(p, c, Nth(up, i))
       /\ \A i \in 1..Cardinality(dn) : Z[Cardinality(up) + i] = DownEvent(p, c, Nth(dn, i))
       /\ Moved(p, c) => Z[1] = MoveEvent(c)
  BY <1>8, <1>9, <1>12, <1>13, <1>14, <1>15, <1>16 DEF Z
<1> QED BY <1>3, <1>7, <1>10, <1>17 DEF Ups, Downs, up, dn, S

LEMMA EventsAllFit ==
    ASSUME NEW p \in MtState, NEW c \in MtState, Distinct(p), Distinct(c),
           NEW e \in FrameEvents(p, c)
    PROVE  Fits(e)
<1>1. CASE e \in {UpEvent(p, c, s) : s \in Falling(p, c)}
  <2>1. PICK s \in Falling(p, c) : e = UpEvent(p, c, s)
    BY <1>1
  <2>2. Fits(UpEvent(p, c, s))
    BY UpFits
  <2> QED BY <2>1, <2>2
<1>2. CASE e \in {DownEvent(p, c, s) : s \in Rising(p, c)}
  <2>1. PICK s \in Rising(p, c) : e = DownEvent(p, c, s)
    BY <1>2
  <2>2. Fits(DownEvent(p, c, s))
    BY DownFits
  <2> QED BY <2>1, <2>2
<1>3. CASE Moved(p, c) /\ e = MoveEvent(c)
  <2>1. Down(c) # {}
    BY <1>3, Partition DEF Moved
  <2> QED BY <1>3, <2>1, MoveFits
<1> QED BY <1>1, <1>2, <1>3 DEF FrameEvents

-----------------------------------------------------------------------------
(* What the phone makes of an event.                                       *)

LEMMA PointerId ==
    ASSUME NEW f
    PROVE  Pointer(f).id = f.id
BY DEF Pointer

Ptrs(m, S) == {Pointer(m[s]) : s \in S}

LEMMA ReceivedDown ==
    ASSUME NEW D, NEW f, DOMAIN f = D, NEW s \in D,
           \A t, u \in D : f[t].id = f[u].id => t = u,
           NEW e, e.ptrs = f, Lead(e) = f[s], e.action = "POINTER_DOWN",
           NEW known,
           \A k \in known : \E t \in D \ {s} : k.id = f[t].id,
           \A t \in D \ {s} : \E k \in known : k.id = f[t].id
    PROVE  Received(known, e) = Ptrs(f, D)
<1> DEFINE lead == Pointer(f[s])
           rest == {k \in known : k.id # lead.id}
           moved == {q \in Ptrs(f, D) : \E k \in rest : k.id = q.id}
                    \cup {k \in rest : \A q \in Ptrs(f, D) : q.id # k.id}
<1>1. Received(known, e) = moved \cup {lead}
  BY DEF Received, Pointers, Ptrs
<1>2. lead.id = f[s].id /\ \A t \in D : Pointer(f[t]).id = f[t].id
  BY PointerId
<1>3. rest = known
  BY <1>2
<1>4. \A k \in rest : \E q \in Ptrs(f, D) : q.id = k.id
  BY <1>2, <1>3 DEF Ptrs
<1>5. ASSUME NEW q \in Ptrs(f, D), q # lead PROVE \E k \in rest : k.id = q.id
  <2>1. PICK t \in D : q = Pointer(f[t])
    BY DEF Ptrs
  <2>2. t # s
    BY <1>5, <2>1
  <2> QED BY <1>2, <1>3, <2>1, <2>2
<1>6. lead \in Ptrs(f, D)
  BY DEF Ptrs
<1> HIDE DEF lead, rest
<1> QED BY <1>1, <1>4, <1>5, <1>6

LEMMA ReceivedUp ==
    ASSUME NEW D, NEW f, DOMAIN f = D, NEW s \in D,
           \A t, u \in D : f[t].id = f[u].id => t = u,
           NEW e, e.ptrs = f, Lead(e) = f[s], e.action = "POINTER_UP",
           NEW K, NEW R,
           \A k \in K : \E t \in D : k.id = f[t].id,
           \A t \in D \ {s} : \E k \in K : k.id = f[t].id,
           \A k \in R : \A t \in D : k.id # f[t].id
    PROVE  Received(K \cup R, e) = Ptrs(f, D \ {s}) \cup R
<1> DEFINE lead == Pointer(f[s])
           rest == {k \in K \cup R : k.id # lead.id}
           listed == {q \in Ptrs(f, D) : \E k \in rest : k.id = q.id}
           unlisted == {k \in rest : \A q \in Ptrs(f, D) : q.id # k.id}
<1>1. Received(K \cup R, e) = listed \cup unlisted
  BY DEF Received, Pointers, Ptrs
<1>2. lead.id = f[s].id /\ \A t \in D : Pointer(f[t]).id = f[t].id
  BY PointerId
<1>3. unlisted = R
  <2>1. ASSUME NEW k \in R PROVE k \in unlisted
    BY <1>2 DEF Ptrs
  <2>2. ASSUME NEW k \in K PROVE k \notin unlisted
    <3>1. PICK t \in D : k.id = f[t].id
      OBVIOUS
    <3>2. Pointer(f[t]) \in Ptrs(f, D)
      BY DEF Ptrs
    <3> QED BY <1>2, <3>1, <3>2
  <2> QED BY <2>1, <2>2
<1>4. ASSUME NEW q \in listed PROVE q \in Ptrs(f, D \ {s})
  <2>1. PICK t \in D : q = Pointer(f[t])
    BY DEF Ptrs
  <2>2. t # s
    BY <1>2, <2>1
  <2> QED BY <2>1, <2>2 DEF Ptrs
<1>5. ASSUME NEW q \in Ptrs(f, D \ {s}) PROVE q \in listed
  <2>1. PICK t \in D \ {s} : q = Pointer(f[t])
    BY DEF Ptrs
  <2>2. PICK k \in K : k.id = f[t].id
    BY <2>1
  <2>3. k \in rest /\ k.id = q.id
    BY <1>2, <2>1, <2>2
  <2>4. q \in Ptrs(f, D)
    BY <2>1 DEF Ptrs
  <2> QED BY <2>3, <2>4
<1> HIDE DEF listed, unlisted
<1> QED BY <1>1, <1>3, <1>4, <1>5

LEMMA ReceivedMove ==
    ASSUME NEW D, NEW f, DOMAIN f = D, NEW e, e.ptrs = f, e.action = "MOVE", NEW known,
           \A t \in D : \E k \in known : k.id = f[t].id
    PROVE  Received(known, e) = Ptrs(f, D)
<1>1. Received(known, e) = {q \in Ptrs(f, D) : \E k \in known : k.id = q.id}
  BY DEF Received, Pointers, Ptrs
<1>2. \A q \in Ptrs(f, D) : \E k \in known : k.id = q.id
  BY PointerId DEF Ptrs
<1> QED BY <1>1, <1>2

LEMMA ReceivedSingle ==
    ASSUME NEW e, NEW known
    PROVE  /\ e.action = "DOWN" => Received(known, e) = {Pointer(Lead(e))}
           /\ e.action = "UP" => Received(known, e) = {}
BY DEF Received

-----------------------------------------------------------------------------
(* What the phone knows after the first k events of a frame.               *)

Lifted(p, c, k) ==
    IF Survivors(p, c) = {} THEN {}
    ELSE Ptrs(c, Survivors(p, c))
           \cup Ptrs(p, {t \in Falling(p, c) : t > Nth(Falling(p, c), k)})
Landed(p, c, k) ==
    Ptrs(c, Survivors(p, c) \cup {u \in Rising(p, c) : u <= Nth(Rising(p, c), k)})

After(p, c, k) ==
    IF k = 0 THEN Ptrs(p, Down(p))
    ELSE IF k <= Ups(p, c) THEN Lifted(p, c, k)
    ELSE IF k <= Ups(p, c) + Downs(p, c) THEN Landed(p, c, k - Ups(p, c))
    ELSE Ptrs(c, Down(c))

(* The fingers not lifted yet when the next one lifts.                     *)
LEMMA Remaining ==
    ASSUME NEW S \in SUBSET Slots, NEW k \in 0..(Cardinality(S) - 1)
    PROVE  LET s == Nth(S, k + 1)
           IN  /\ s \in S
               /\ k = 0 => S = {s} \cup {t \in S : t > s}
               /\ k > 0 => {t \in S : t > Nth(S, k)} = {s} \cup {t \in S : t > s}
               /\ k = 0 => {t \in S : t <= s} = {s}
               /\ k > 0 => {t \in S : t <= s} = {s} \cup {t \in S : t <= Nth(S, k)}
               /\ k > 0 => ~(s <= Nth(S, k))
<1> DEFINE n == Cardinality(S)
           s == Nth(S, k + 1)
<1>1. n \in Nat /\ k \in Nat /\ k + 1 \in 1..n /\ (k > 0 => k \in 1..n) /\ (k + 1) - 1 = k
  BY SlotsFinite
<1>2. s \in S /\ Rank(S, s) = k
  BY <1>1, NthMember
<1>3. \A t \in S : /\ Rank(S, t) \in Nat
                   /\ t <= s <=> Rank(S, t) <= k
                   /\ t > s <=> Rank(S, t) >= k + 1
                   /\ Rank(S, t) = k => t = s
  <2>1. \A t \in S : Rank(S, t) \in Nat
    BY <1>1, RankMonotone
  <2> QED BY <1>1, <2>1, NthSplit
<1>4. k > 0 => \A t \in S : /\ t <= Nth(S, k) <=> Rank(S, t) <= k - 1
                            /\ t > Nth(S, k) <=> Rank(S, t) >= k
  BY <1>1, NthSplit
<1> HIDE DEF n, s
<1>5. k = 0 => S = {s} \cup {t \in S : t > s}
  BY <1>1, <1>2, <1>3
<1>6. k > 0 => {t \in S : t > Nth(S, k)} = {s} \cup {t \in S : t > s}
  BY <1>1, <1>2, <1>3, <1>4
<1>7. k = 0 => {t \in S : t <= s} = {s}
  BY <1>1, <1>2, <1>3
<1>8. k > 0 => {t \in S : t <= s} = {s} \cup {t \in S : t <= Nth(S, k)}
  BY <1>1, <1>2, <1>3, <1>4
<1>9. k > 0 => ~(s <= Nth(S, k))
  BY <1>1, <1>2, <1>4
<1> QED BY <1>2, <1>5, <1>6, <1>7, <1>8, <1>9 DEF s

LEMMA LastPlace ==
    ASSUME NEW S \in SUBSET Slots, S # {}
    PROVE  /\ {t \in S : t > Nth(S, Cardinality(S))} = {}
           /\ {t \in S : t <= Nth(S, Cardinality(S))} = S
<1> DEFINE n == Cardinality(S)
<1>1. n \in Nat /\ n # 0
  BY SlotsFinite, FS_EmptySet
<1>2. n \in 1..n
  BY <1>1
<1>3. \A t \in S : /\ Rank(S, t) \in 0..(n - 1)
                   /\ t <= Nth(S, n) <=> Rank(S, t) <= n - 1
                   /\ t > Nth(S, n) <=> Rank(S, t) >= n
  BY <1>2, RankMonotone, NthSplit
<1> HIDE DEF n
<1>4. \A t \in S : ~(t > Nth(S, n)) /\ t <= Nth(S, n)
  BY <1>1, <1>3
<1> QED BY <1>4 DEF n

(* A finger lifts: the phone drops it, the survivors move.                 *)
LEMMA UpDelivered ==
    ASSUME NEW p \in MtState, NEW c \in MtState, Distinct(p),
           NEW k \in 0..(Ups(p, c) - 1), NEW known,
           LET e == UpEvent(p, c, Nth(Falling(p, c), k + 1))
           IN  known = After(p, c, k) \/ e.action = "UP"
    PROVE  LET e == UpEvent(p, c, Nth(Falling(p, c), k + 1))
           IN  Received(known, e) = After(p, c, k + 1) /\ e.action \in {"UP", "POINTER_UP"}
<1> DEFINE up == Falling(p, c)
           sv == Survivors(p, c)
           s == Nth(up, k + 1)
           e == UpEvent(p, c, s)
           f == UpFingers(p, c, s)
           D == sv \cup {s}
           later == {t \in up : t > s}
<1>1. Ups(p, c) \in Nat /\ up \in SUBSET Slots
  BY EventsAre, Partition
<1>2. k \in 0..(Cardinality(up) - 1)
  BY DEF Ups
<1>3. /\ s \in up
      /\ k = 0 => up = {s} \cup later
      /\ k > 0 => {t \in up : t > Nth(up, k)} = {s} \cup later
  BY <1>1, <1>2, Remaining
<1>4. After(p, c, k + 1) = Lifted(p, c, k + 1)
  BY <1>1 DEF After
<1>5. /\ Fits(e) /\ D \in SUBSET Slots /\ DOMAIN f = D /\ e.ptrs = f /\ Lead(e) = p[s]
      /\ e.action = IF D = {s} THEN "UP" ELSE "POINTER_UP"
  BY <1>3, UpFits
<1>6. /\ s \notin sv /\ s \in D /\ f[s] = p[s] /\ \A t \in sv : f[t] = c[t] /\ p[t].id = c[t].id
      /\ Down(p) = up \cup sv /\ up \cap sv = {}
  BY <1>3, Partition DEF UpFingers
<1>7. \A t, u \in D : f[t].id = f[u].id => t = u
  BY <1>5 DEF Fits
<1> HIDE DEF e
<1>8. CASE sv = {}
  <2>1. e.action = "UP"
    BY <1>5, <1>8
  <2> QED BY <1>4, <1>8, <2>1, ReceivedSingle DEF Lifted, e
<1>9. CASE sv # {}
  <2>1. D # {s} /\ e.action = "POINTER_UP" /\ known = After(p, c, k)
    BY <1>5, <1>6, <1>9 DEF e
  <2> DEFINE x == IF k = 0 THEN p ELSE c
             K == Ptrs(x, sv) \cup Ptrs(p, {s})
             R == Ptrs(p, later)
  <2>2. known = K \cup R
    <3>1. CASE k = 0
      BY <1>3, <1>6, <2>1, <3>1 DEF After, Ptrs
    <3>2. CASE k > 0
      <4>1. After(p, c, k) = Lifted(p, c, k)
        BY <1>1, <3>2 DEF After
      <4>2. Lifted(p, c, k) = Ptrs(c, sv) \cup Ptrs(p, {s} \cup later)
        BY <1>3, <1>9, <3>2 DEF Lifted
      <4>3. x = c
        BY <3>2
      <4> QED BY <2>1, <4>1, <4>2, <4>3 DEF Ptrs
    <3>3. k = 0 \/ k > 0
      BY <1>1
    <3> QED BY <3>1, <3>2, <3>3
  <2>3. \A t \in sv : x[t].id = f[t].id
    BY <1>6
  <2> HIDE DEF x
  <2>4. \A q \in K : \E t \in D : q.id = f[t].id
    BY <1>6, <2>3, PointerId DEF Ptrs
  <2>5. \A t \in D \ {s} : \E q \in K : q.id = f[t].id
    BY <1>6, <2>3, PointerId DEF Ptrs
  <2>6. \A q \in R : \A t \in D : q.id # f[t].id
    <3> TAKE q \in R
    <3> TAKE t \in D
    <3>1. PICK u \in later : q = Pointer(p[u])
      BY DEF Ptrs
    <3>2. u \in up /\ u # s
      BY <1>1, <1>3, <3>1 DEF Slots
    <3>3. u \in Down(p) /\ t \in Down(p) /\ u # t
      BY <1>3, <1>6, <3>2
    <3>4. f[t].id = p[t].id
      BY <1>6
    <3> QED BY <3>1, <3>3, <3>4, PointerId DEF Distinct
  <2> HIDE DEF K, R
  <2>7. Received(K \cup R, e) = Ptrs(f, D \ {s}) \cup R
    <3>1. Lead(e) = f[s] /\ s \in D /\ DOMAIN f = D /\ e.ptrs = f
      BY <1>5, <1>6
    <3> HIDE DEF D, f, s
    <3> QED BY <1>7, <2>1, <2>4, <2>5, <2>6, <3>1, ReceivedUp, SMTT(30)
  <2>8. Ptrs(f, D \ {s}) = Ptrs(c, sv)
    BY <1>6 DEF Ptrs
  <2>9. Lifted(p, c, k + 1) = Ptrs(c, sv) \cup R
    BY <1>9 DEF Lifted, R
  <2> QED BY <1>4, <2>1, <2>2, <2>7, <2>8, <2>9 DEF e
<1> QED BY <1>8, <1>9

(* A finger lands: the phone adds it, the others move.                     *)
LEMMA DownDelivered ==
    ASSUME NEW p \in MtState, NEW c \in MtState, Distinct(p), Distinct(c),
           NEW k \in 0..(Downs(p, c) - 1), NEW known,
           LET e == DownEvent(p, c, Nth(Rising(p, c), k + 1))
           IN  known = After(p, c, Ups(p, c) + k) \/ e.action = "DOWN"
    PROVE  LET e == DownEvent(p, c, Nth(Rising(p, c), k + 1))
           IN  /\ Received(known, e) = After(p, c, Ups(p, c) + k + 1)
               /\ e.action \in {"DOWN", "POINTER_DOWN"}
<1> DEFINE dn == Rising(p, c)
           sv == Survivors(p, c)
           s == Nth(dn, k + 1)
           e == DownEvent(p, c, s)
           f == DownFingers(p, c, s)
           D == sv \cup {u \in dn : u <= s}
<1>1. Ups(p, c) \in Nat /\ Downs(p, c) \in Nat /\ dn \in SUBSET Slots /\ (k = 0 \/ k > 0)
  <2>1. Ups(p, c) \in Nat /\ Downs(p, c) \in Nat
    BY EventsAre
  <2>2. dn \in SUBSET Slots
    BY Partition
  <2>3. k = 0 \/ k > 0
    BY <2>1
  <2> QED BY <2>1, <2>2, <2>3
<1>2. k \in 0..(Cardinality(dn) - 1)
  BY DEF Downs
<1>3. /\ s \in dn
      /\ k = 0 => {u \in dn : u <= s} = {s}
      /\ k > 0 => {u \in dn : u <= s} = {s} \cup {u \in dn : u <= Nth(dn, k)}
      /\ k > 0 => s \notin {u \in dn : u <= Nth(dn, k)}
  BY <1>1, <1>2, Remaining
<1>4. After(p, c, Ups(p, c) + k + 1) = Landed(p, c, k + 1)
  <2>1. Ups(p, c) + k + 1 # 0 /\ ~(Ups(p, c) + k + 1 <= Ups(p, c))
        /\ Ups(p, c) + k + 1 <= Ups(p, c) + Downs(p, c)
        /\ (Ups(p, c) + k + 1) - Ups(p, c) = k + 1
    BY <1>1
  <2> QED BY <2>1 DEF After
<1>5. /\ Fits(e) /\ D \in SUBSET Slots /\ DOMAIN f = D /\ s \in D /\ e.ptrs = f /\ Lead(e) = c[s]
      /\ e.action = IF D = {s} THEN "DOWN" ELSE "POINTER_DOWN"
  <2>1. s \in Rising(p, c)
    BY <1>3
  <2> HIDE DEF s
  <2> QED BY <2>1, DownFits
<1>6. \A t \in D : f[t] = c[t]
  BY DEF DownFingers
<1>7. \A t, u \in D : f[t].id = f[u].id => t = u
  BY <1>5 DEF Fits
<1>8. Landed(p, c, k + 1) = Ptrs(c, D) /\ Ptrs(f, D) = Ptrs(c, D)
  BY <1>6 DEF Landed, Ptrs
<1>9. s \notin sv /\ \A t \in sv : p[t].id = c[t].id
  BY <1>3, Partition
<1> HIDE DEF e
<1>10. CASE D = {s}
  <2>1. e.action = "DOWN" /\ Ptrs(c, D) = {Pointer(c[s])}
    BY <1>5, <1>10 DEF Ptrs
  <2> QED BY <1>4, <1>5, <1>8, <2>1, ReceivedSingle DEF e
<1>11. CASE D # {s}
  <2>1. e.action = "POINTER_DOWN" /\ known = After(p, c, Ups(p, c) + k)
    BY <1>5, <1>11 DEF e
  <2>2. \E x : /\ known = Ptrs(x, D \ {s})
               /\ \A t \in D \ {s} : x[t].id = c[t].id
    <3>1. CASE k > 0
      <4>1. /\ Ups(p, c) + k # 0 /\ ~(Ups(p, c) + k <= Ups(p, c))
            /\ Ups(p, c) + k <= Ups(p, c) + Downs(p, c) /\ (Ups(p, c) + k) - Ups(p, c) = k
        BY <1>1, <3>1
      <4>2. After(p, c, Ups(p, c) + k) = Landed(p, c, k)
        BY <4>1 DEF After
      <4>3. D \ {s} = sv \cup {u \in dn : u <= Nth(dn, k)}
        BY <1>3, <1>9, <3>1
      <4> QED BY <2>1, <4>2, <4>3 DEF Landed
    <3>2. CASE k = 0
      <4>1. D \ {s} = sv /\ sv # {} /\ Ups(p, c) + k = Ups(p, c)
        BY <1>1, <1>3, <1>9, <1>11, <3>2
      <4>2. CASE Ups(p, c) = 0
        <5>1. Falling(p, c) = {}
          BY <4>2, Partition, SlotsFinite, FS_EmptySet DEF Ups
        <5>2. Down(p) = sv
          <6>1. Down(p) = Falling(p, c) \cup sv
            BY Partition
          <6> QED BY <5>1, <6>1
        <5> QED BY <1>9, <2>1, <4>1, <4>2, <5>2 DEF After
      <4>3. CASE Ups(p, c) # 0
        <5>1. Falling(p, c) # {}
          BY <4>3, FS_EmptySet DEF Ups
        <5>2. {t \in Falling(p, c) : t > Nth(Falling(p, c), Ups(p, c))} = {}
          BY <5>1, Partition, LastPlace DEF Ups
        <5>3. After(p, c, Ups(p, c)) = Lifted(p, c, Ups(p, c))
          BY <1>1, <4>3 DEF After
        <5>4. Lifted(p, c, Ups(p, c)) = Ptrs(c, sv) \cup Ptrs(p, {})
          BY <4>1, <5>2 DEF Lifted
        <5>5. Ptrs(p, {}) = {}
          BY DEF Ptrs
        <5> QED BY <2>1, <4>1, <5>3, <5>4, <5>5
      <4> QED BY <4>2, <4>3
    <3> QED BY <1>1, <3>1, <3>2
  <2>3. PICK x : known = Ptrs(x, D \ {s}) /\ \A t \in D \ {s} : x[t].id = c[t].id
    BY <2>2
  <2>4. \A q \in known : \E t \in D \ {s} : q.id = f[t].id
    BY <1>6, <2>3, PointerId DEF Ptrs
  <2>5. \A t \in D \ {s} : \E q \in known : q.id = f[t].id
    BY <1>6, <2>3, PointerId DEF Ptrs
  <2>6. Received(known, e) = Ptrs(f, D)
    <3>1. Lead(e) = f[s] /\ s \in D /\ DOMAIN f = D /\ e.ptrs = f
      BY <1>5, <1>6
    <3> HIDE DEF D, f, s
    <3> QED BY <1>7, <2>1, <2>4, <2>5, <3>1, ReceivedDown
  <2> QED BY <1>4, <1>8, <2>1, <2>6 DEF e
<1> QED BY <1>10, <1>11

(* Fingers only move.                                                      *)
LEMMA MoveDelivered ==
    ASSUME NEW p \in MtState, NEW c \in MtState, Distinct(c), Moved(p, c)
    PROVE  /\ Received(After(p, c, 0), MoveEvent(c)) = After(p, c, 1)
           /\ MoveEvent(c).action = "MOVE"
<1> DEFINE known == After(p, c, 0)
<1>1. Down(p) = Survivors(p, c) /\ Down(c) = Survivors(p, c) /\ Down(c) # {}
  <2>1. Falling(p, c) = {} /\ Rising(p, c) = {} /\ Survivors(p, c) # {}
    BY DEF Moved
  <2>2. /\ Down(p) = Falling(p, c) \cup Survivors(p, c)
        /\ Down(c) = Rising(p, c) \cup Survivors(p, c)
    BY Partition
  <2> QED BY <2>1, <2>2
<1>2. known = Ptrs(p, Down(c))
  BY <1>1 DEF After
<1>3. Ups(p, c) = 0 /\ Downs(p, c) = 0
  BY EventsAre
<1>4. After(p, c, 1) = Ptrs(c, Down(c))
  BY <1>3 DEF After
<1>5. MoveEvent(c).ptrs = MoveFingers(c) /\ MoveEvent(c).action = "MOVE"
  BY <1>1, MoveFits
<1>6. DOMAIN MoveFingers(c) = Down(c) /\ \A t \in Down(c) : MoveFingers(c)[t] = c[t]
  BY DEF MoveFingers
<1>7. \A t \in Down(c) : \E q \in known : q.id = MoveFingers(c)[t].id
  BY <1>1, <1>2, <1>6, Partition, PointerId DEF Ptrs
<1> HIDE DEF known
<1>8. Received(known, MoveEvent(c)) = Ptrs(MoveFingers(c), Down(c))
  BY <1>5, <1>6, <1>7, ReceivedMove
<1>9. Ptrs(MoveFingers(c), Down(c)) = Ptrs(c, Down(c))
  BY <1>6 DEF Ptrs
<1> QED BY <1>4, <1>5, <1>8, <1>9 DEF known

(* After the last event the phone knows the fingers of this frame.         *)
LEMMA AllDelivered ==
    ASSUME NEW p \in MtState, NEW c \in MtState
    PROVE  After(p, c, Len(Events(p, c))) = Ptrs(c, Down(c))
<1> DEFINE n == Len(Events(p, c))
           u == Ups(p, c)
           d == Downs(p, c)
           sv == Survivors(p, c)
<1>1. /\ u \in Nat /\ d \in Nat /\ n = u + d + (IF Moved(p, c) THEN 1 ELSE 0)
      /\ Moved(p, c) => u = 0 /\ d = 0
  BY EventsAre
<1>2. /\ Falling(p, c) \in SUBSET Slots /\ Rising(p, c) \in SUBSET Slots
      /\ Down(p) = Falling(p, c) \cup sv /\ Down(c) = Rising(p, c) \cup sv
  BY Partition
<1>3. (u = 0 <=> Falling(p, c) = {}) /\ (d = 0 <=> Rising(p, c) = {})
  BY <1>2, SlotsFinite, FS_EmptySet DEF Ups, Downs
<1> HIDE DEF n, u, d
<1>4. CASE Moved(p, c)
  BY <1>1, <1>4 DEF After, n, u, d
<1>5. CASE d # 0
  <2>1. n = u + d /\ n # 0 /\ ~(n <= u) /\ n - u = d
    BY <1>1, <1>5
  <2>2. After(p, c, n) = Landed(p, c, d)
    BY <2>1, <1>1 DEF After, u, d
  <2>3. {t \in Rising(p, c) : t <= Nth(Rising(p, c), d)} = Rising(p, c)
    BY <1>2, <1>3, <1>5, LastPlace DEF d, Downs
  <2>4. Landed(p, c, d) = Ptrs(c, sv \cup Rising(p, c))
    BY <2>3 DEF Landed
  <2>5. sv \cup Rising(p, c) = Down(c)
    BY <1>2
  <2> QED BY <2>2, <2>4, <2>5 DEF n
<1>6. CASE ~Moved(p, c) /\ d = 0 /\ u # 0
  <2>1. n = u /\ Down(c) = sv
    BY <1>1, <1>2, <1>3, <1>6
  <2>2. After(p, c, n) = Lifted(p, c, u)
    BY <1>1, <1>6, <2>1 DEF After, u
  <2>3. {t \in Falling(p, c) : t > Nth(Falling(p, c), u)} = {}
    BY <1>2, <1>3, <1>6, LastPlace DEF u, Ups
  <2>4. Lifted(p, c, u) = IF sv = {} THEN {} ELSE Ptrs(c, sv) \cup Ptrs(p, {})
    BY <2>3 DEF Lifted
  <2>5. Lifted(p, c, u) = Ptrs(c, sv)
    BY <2>4 DEF Ptrs
  <2> QED BY <2>1, <2>2, <2>5 DEF n
<1>7. CASE ~Moved(p, c) /\ d = 0 /\ u = 0
  <2>1. n = 0 /\ Down(p) = sv /\ Down(c) = sv
    BY <1>1, <1>2, <1>3, <1>7
  <2>2. \A s \in sv : p[s].at = c[s].at /\ p[s].id = c[s].id
    BY <1>3, <1>7, Partition DEF Moved
  <2>3. \A s \in sv : Pointer(p[s]) = Pointer(c[s])
    BY <2>2 DEF Pointer
  <2> QED BY <2>1, <2>3 DEF After, Ptrs, n
<1> QED BY <1>4, <1>5, <1>6, <1>7

-----------------------------------------------------------------------------
(* The inductive invariant.                                                *)

(* The reader exists between create and join; outside its loop its slots   *)
(* are blank and nothing is to be sent, and its sender starts from blank.  *)
Threads ==
    /\ alive <=> rpc # "none"
    /\ rpc # "read" => cur = init_state /\ active_slot = 0 /\ todo = <<>>
    /\ rpc = "read" => g_prev = cur
    /\ rpc = "open" => g_prev = init_state
    /\ rpc \in {"none", "open"} => phone = {} /\ synced

(* Ids are handed out once, so no contact is in two slots of the reader,   *)
(* wherever it believes them to be.                                        *)
Numbered ==
    /\ \A s \in Slots : panel[s].id <= contacts /\ cur[s].id <= contacts
    /\ Distinct(cur)

(* A reader that started with the panel's slot in mind keeps it.           *)
InStep ==
    rpc = "read" =>
        /\ missed = "nothing" => aligned /\ cur = panel
        /\ aligned => active_slot = announced /\ \A s \in Down(cur) : cur[s].id = panel[s].id

(* A contact that rises was not there before, in any slot.                 *)
Unseen(p, c) == \A s \in Rising(p, c) : \A t \in Down(p) : c[s].id # p[t].id

(* What is to be sent is the rest of the events of the last frame, and a   *)
(* phone in step knows what the events before it say.                      *)
Rest(p, k) ==
    /\ Unseen(p, g_prev)
    /\ k \in 0..Len(Events(p, g_prev))
    /\ todo \in Seq(FrameEvents(p, g_prev)) /\ Len(todo) = Len(Events(p, g_prev)) - k
    /\ \A i \in 1..Len(todo) : todo[i] = Events(p, g_prev)[k + i]
    /\ synced => phone = After(p, g_prev, k)

Delivering ==
    rpc = "read" => \E p \in MtState : Distinct(p) /\ \E k \in Nat : Rest(p, k)

TouchInv == TypeOK /\ Threads /\ Numbered /\ InStep /\ Delivering

-----------------------------------------------------------------------------
(* The panel's frames.                                                     *)

LEMMA GreatestMember ==
    ASSUME NEW S \in SUBSET Slots, S # {}
    PROVE  Greatest(S) \in S
<1> DEFINE n == Cardinality(S)
           x == Nth(S, n)
<1>1. n \in Nat /\ n # 0
  BY SlotsFinite, FS_EmptySet
<1>2. x \in S
  BY <1>1, NthMember
<1>3. \A t \in S : t <= x
  BY LastPlace
<1>4. S \subseteq Int
  BY SlotsFinite
<1> HIDE DEF x
<1>5. \A t \in S : x >= t
  BY <1>2, <1>3, <1>4
<1> QED BY <1>2, <1>5 DEF Greatest

LEMMA GreatestSingle ==
    ASSUME NEW s \in Slots
    PROVE  Greatest({s}) = s
<1>1. Greatest({s}) \in {s}
  BY GreatestMember
<1> QED BY <1>1

(* A slot of a frame holds what it held, nothing or a contact with a new   *)
(* id of its own.                                                          *)
Fresh(q) ==
    /\ \A s \in Slots : q[s].id = panel[s].id \/ q[s].id = None \/ q[s].id > contacts
    /\ \A s, t \in Slots : q[s].id > contacts /\ q[s].id = q[t].id => s = t

LEMMA FrameShape ==
    ASSUME TypeOK, Numbered, NEW q \in Frames
    PROVE  /\ q \in MtState /\ Fresh(q) /\ Changed(q) # {} /\ Changed(q) \in SUBSET Slots
           /\ contacts + Cardinality({s \in Slots : q[s].id > contacts}) \in contacts..MaxContacts
           /\ \A s \in Slots :
                 q[s].id <= contacts + Cardinality({t \in Slots : q[t].id > contacts})
<1>0. PICK m \in Moves : \E at \in [(Down(panel) \ m.lift) \cup m.land -> Raw] :
                            q = NewFrame(m.land, m.lift, at)
  BY DEF Frames
<1>1. PICK at \in [(Down(panel) \ m.lift) \cup m.land -> Raw] : q = NewFrame(m.land, m.lift, at)
  BY <1>0
<1> DEFINE L == m.land
           U == m.lift
           order(s) == Cardinality({t \in L : t <= s})
<1>2. /\ L \in SUBSET Slots /\ contacts + Cardinality(L) <= MaxContacts
      /\ contacts \in Nat /\ MaxContacts \in Nat
  BY BoundAssumption DEF Moves, TypeOK
<1>3. Cardinality(L) \in Nat
  BY <1>2, SlotsFinite
<1>4. ASSUME NEW s \in L
      PROVE  order(s) = Rank(L, s) + 1 /\ order(s) \in 1..Cardinality(L)
  <2> DEFINE B == {t \in L : t < s}
  <2>1. B \in SUBSET Slots /\ {t \in L : t <= s} = B \cup {s} /\ s \notin B
    BY <1>2 DEF Slots
  <2>2. IsFiniteSet(B)
    BY <2>1, SlotsFinite
  <2> HIDE DEF B
  <2>3. Cardinality(B \cup {s}) = Cardinality(B) + 1
    BY <2>1, <2>2, FS_AddElement
  <2>4. order(s) = Rank(L, s) + 1
    BY <2>1, <2>3 DEF B, Rank
  <2>5. Rank(L, s) \in 0..(Cardinality(L) - 1)
    BY <1>2, RankMonotone
  <2> HIDE DEF order
  <2> QED BY <1>3, <2>4, <2>5
<1>5. \A s, t \in L : order(s) = order(t) => s = t
  <2> TAKE s \in L
  <2> TAKE t \in L
  <2> HIDE DEF order
  <2>1. order(s) = order(t) => Rank(L, s) = Rank(L, t)
    <3>1. Rank(L, s) \in Int /\ Rank(L, t) \in Int
      BY <1>2, RankMonotone
    <3> QED BY <1>4, <3>1
  <2> QED BY <1>2, <2>1, RankMonotone
<1>6. \A s \in Slots : panel[s].id \in Int /\ panel[s].id <= contacts /\ panel[s] \in Finger
  BY DEF TypeOK, MtState, Finger, Numbered, Ids, None
<1>7. \A s \in Slots :
        /\ q[s].id = IF s \in L THEN contacts + order(s)
                     ELSE IF s \in U THEN None ELSE panel[s].id
        /\ q[s].at = IF s \in DOMAIN at THEN at[s] ELSE panel[s].at
  BY <1>1 DEF NewFrame
<1> HIDE DEF L, U, order
<1>8. \A s \in Slots : /\ s \in L => q[s].id > contacts /\ q[s].id \in Ids
                                    /\ q[s].id <= contacts + Cardinality(L)
                       /\ s \notin L => q[s].id \in {None, panel[s].id}
  BY <1>2, <1>3, <1>4, <1>7 DEF Ids
<1>9. \A s \in Slots : s \notin L => q[s].id <= contacts /\ ~(q[s].id > contacts)
  BY <1>2, <1>6, <1>8 DEF None
<1>10. q \in MtState
  <2>1. q = [s \in Slots |-> [id |-> q[s].id, at |-> q[s].at]]
    BY <1>1, <1>7 DEF NewFrame
  <2>2. \A s \in Slots : q[s].id \in Ids \cup {None} /\ q[s].at \in Raw
    BY <1>1, <1>6, <1>7, <1>8 DEF Finger
  <2>3. \A s \in Slots : [id |-> q[s].id, at |-> q[s].at] \in Finger
    BY <2>2 DEF Finger
  <2> QED BY <2>1, <2>3 DEF MtState
<1>11. {s \in Slots : q[s].id > contacts} = L
  BY <1>2, <1>8, <1>9
<1>12. Fresh(q)
  <2>0. \A n \in Nat : \A a, b \in Int : n + a = n + b => a = b
    OBVIOUS
  <2>1. \A s, t \in Slots : q[s].id > contacts /\ q[s].id = q[t].id => s = t
    <3> TAKE s \in Slots
    <3> TAKE t \in Slots
    <3> HAVE q[s].id > contacts /\ q[s].id = q[t].id
    <3>1. s \in L /\ t \in L
      BY <1>9
    <3>2. order(s) \in Int /\ order(t) \in Int /\ contacts + order(s) = contacts + order(t)
      BY <1>3, <1>4, <1>7, <3>1
    <3>3. order(s) = order(t)
      BY <1>2, <2>0, <3>2, Zenon
    <3> QED BY <1>5, <3>1, <3>3
  <2> QED BY <1>8, <2>1 DEF Fresh
<1>13. Changed(q) # {} /\ Changed(q) \in SUBSET Slots
  <2>1. q # panel /\ q \in [Slots -> Finger] /\ panel \in [Slots -> Finger]
    <3>1. q # panel
      BY DEF Frames
    <3> QED BY <1>10, <3>1 DEF TypeOK, MtState
  <2>2. \E s \in Slots : q[s] # panel[s]
    BY <2>1
  <2> QED BY <2>2 DEF Changed
<1>14. \A s \in Slots : q[s].id <= contacts + Cardinality(L)
  <2>1. \A s \in Slots : q[s].id \in Int
    BY <1>6, <1>8 DEF Ids, None
  <2> QED BY <1>2, <1>3, <1>8, <1>9, <2>1
<1>15. contacts + Cardinality(L) \in contacts..MaxContacts
  BY <1>2, <1>3
<1> QED BY <1>10, <1>11, <1>12, <1>13, <1>14, <1>15

-----------------------------------------------------------------------------
(* The slots the reader tracks.                                            *)

IdOf(q, t) == {s \in Changed(q) : Target(q, s) = t /\ q[s].id # panel[s].id}
AtOf(q, t) == {s \in Changed(q) : Target(q, s) = t /\ q[s].at # panel[s].at}

NewId(q, t) == IF IdOf(q, t) = {} THEN cur[t].id ELSE q[Greatest(IdOf(q, t))].id
NewAt(q, t) == IF AtOf(q, t) = {} THEN cur[t].at ELSE q[Greatest(AtOf(q, t))].at

LEMMA TrackedIs ==
    ASSUME NEW q, NEW t \in Slots
    PROVE  /\ Tracked(q)[t] = [id |-> NewId(q, t), at |-> NewAt(q, t)]
           /\ Tracked(q)[t].id = NewId(q, t) /\ Tracked(q)[t].at = NewAt(q, t)
<1>1. Tracked(q)[t] = [id |-> NewId(q, t), at |-> NewAt(q, t)]
  BY DEF Tracked, NewId, NewAt, IdOf, AtOf
<1> QED BY <1>1

(* However wrong the slot in mind is, no contact comes to be in two slots. *)
LEMMA TrackedShape ==
    ASSUME TypeOK, Numbered, NEW q \in Frames
    PROVE  /\ Tracked(q) \in MtState /\ Distinct(Tracked(q))
           /\ \A t \in Slots : Tracked(q)[t].id
                <= contacts + Cardinality({s \in Slots : q[s].id > contacts})
           /\ Unseen(cur, Tracked(q))
           /\ Target(q, Greatest(Changed(q))) \in Slots
<1> DEFINE n == contacts + Cardinality({s \in Slots : q[s].id > contacts})
<1>1. /\ q \in MtState /\ Fresh(q) /\ Changed(q) # {} /\ Changed(q) \in SUBSET Slots
      /\ n \in contacts..MaxContacts /\ \A s \in Slots : q[s].id <= n
  BY FrameShape
<1>2. \A t \in Slots : IdOf(q, t) \in SUBSET Slots /\ AtOf(q, t) \in SUBSET Slots
  BY <1>1 DEF IdOf, AtOf
<1>3. ASSUME NEW t \in Slots, IdOf(q, t) # {}
      PROVE  Greatest(IdOf(q, t)) \in IdOf(q, t) /\ Greatest(IdOf(q, t)) \in Slots
  BY <1>2, <1>3, GreatestMember
<1>4. ASSUME NEW t \in Slots, AtOf(q, t) # {}
      PROVE  Greatest(AtOf(q, t)) \in Slots
  BY <1>2, <1>4, GreatestMember
<1>5. /\ \A s \in Slots : cur[s] \in Finger /\ q[s] \in Finger /\ cur[s].id <= contacts
      /\ contacts \in Nat
  BY <1>1 DEF TypeOK, MtState, Numbered
<1> HIDE DEF n
<1>6. Tracked(q) \in MtState
  <2>1. \A t \in Slots : Tracked(q)[t] \in Finger
    <3> TAKE t \in Slots
    <3>1. NewId(q, t) \in Ids \cup {None} /\ NewAt(q, t) \in Raw
      BY <1>3, <1>4, <1>5 DEF Finger, NewId, NewAt
    <3>2. Tracked(q)[t] = [id |-> NewId(q, t), at |-> NewAt(q, t)]
      BY TrackedIs
    <3>3. [id |-> NewId(q, t), at |-> NewAt(q, t)] \in Finger
      BY <3>1 DEF Finger
    <3> QED BY <3>2, <3>3
  <2>2. Tracked(q) = [t \in Slots |-> Tracked(q)[t]]
    BY DEF Tracked
  <2> QED BY <2>1, <2>2 DEF MtState
<1>7. \A t \in Slots : Tracked(q)[t].id
        = IF IdOf(q, t) = {} THEN cur[t].id ELSE q[Greatest(IdOf(q, t))].id
  BY TrackedIs DEF NewId
<1>8. \A t \in Slots : cur[t].id \in Int /\ q[t].id \in Int
  BY <1>5 DEF Finger, Ids, None
<1>9. \A t \in Slots : Tracked(q)[t].id <= n
  BY <1>1, <1>3, <1>5, <1>7, <1>8
<1>10. ASSUME NEW x \in Slots, IdOf(q, x) # {}, Tracked(q)[x].id # None
      PROVE  /\ Tracked(q)[x].id > contacts
             /\ Greatest(IdOf(q, x)) \in Slots /\ Target(q, Greatest(IdOf(q, x))) = x
             /\ Tracked(q)[x].id = q[Greatest(IdOf(q, x))].id
  <2> DEFINE g == Greatest(IdOf(q, x))
  <2>1. g \in Slots /\ Target(q, g) = x /\ q[g].id # panel[g].id /\ Tracked(q)[x].id = q[g].id
    BY <1>3, <1>7, <1>10 DEF IdOf
  <2> HIDE DEF g
  <2>2. q[g].id > contacts
    BY <1>1, <1>10, <2>1 DEF Fresh
  <2> QED BY <2>1, <2>2 DEF g
<1>11. ASSUME NEW x \in Slots, IdOf(q, x) = {}
       PROVE  Tracked(q)[x].id = cur[x].id /\ ~(Tracked(q)[x].id > contacts)
  BY <1>5, <1>7, <1>8, <1>11
<1>12. Distinct(Tracked(q))
  <2> SUFFICES ASSUME NEW s \in Down(Tracked(q)), NEW t \in Down(Tracked(q)),
                      Tracked(q)[s].id = Tracked(q)[t].id
               PROVE  s = t
    BY DEF Distinct
  <2>1. s \in Slots /\ t \in Slots /\ Tracked(q)[s].id # None /\ Tracked(q)[t].id # None
    BY DEF Down
  <2>4. CASE IdOf(q, s) # {} /\ IdOf(q, t) # {}
    <3> DEFINE g == Greatest(IdOf(q, s))
               h == Greatest(IdOf(q, t))
    <3>1. /\ g \in Slots /\ h \in Slots /\ Target(q, g) = s /\ Target(q, h) = t
          /\ q[g].id > contacts /\ q[g].id = q[h].id
      BY <1>10, <2>1, <2>4
    <3> HIDE DEF g, h
    <3>2. g = h
      BY <1>1, <3>1 DEF Fresh
    <3> QED BY <3>1, <3>2
  <2>5. CASE IdOf(q, s) = {} /\ IdOf(q, t) = {}
    BY <1>11, <2>1, <2>5 DEF Numbered, Distinct, Down
  <2>6. CASE (IdOf(q, s) = {}) # (IdOf(q, t) = {})
    BY <1>10, <1>11, <2>1, <2>6
  <2> QED BY <2>4, <2>5, <2>6
<1>14. Unseen(cur, Tracked(q))
  <2> SUFFICES ASSUME NEW s \in Rising(cur, Tracked(q)), NEW t \in Down(cur)
               PROVE  Tracked(q)[s].id # cur[t].id
    BY DEF Unseen
  <2>1. s \in Slots /\ t \in Slots /\ Tracked(q)[s].id # None /\ Tracked(q)[s].id # cur[s].id
    BY DEF Rising, Down
  <2>2. IdOf(q, s) # {}
    BY <1>11, <2>1
  <2>3. Tracked(q)[s].id > contacts
    BY <1>10, <2>1, <2>2
  <2>4. cur[t].id <= contacts /\ cur[t].id \in Int
    BY <1>5, <1>8, <2>1
  <2> QED BY <1>5, <2>3, <2>4
<1>13. Target(q, Greatest(Changed(q))) \in Slots
  <2>1. Greatest(Changed(q)) \in Slots
    BY <1>1, GreatestMember
  <2>2. active_slot \in Slots /\ 0 \in Slots
    BY FingerAssumption DEF TypeOK, Slots
  <2> QED BY <2>1, <2>2 DEF Target
<1> QED BY <1>6, <1>9, <1>12, <1>13, <1>14 DEF n

(* With the announced slot in mind every change goes to its own slot.      *)
LEMMA AlignedTarget ==
    ASSUME NEW q, Changed(q) \in SUBSET Slots, active_slot = announced, NEW s \in Changed(q)
    PROVE  Target(q, s) = s
BY FingerAssumption DEF Target, Slots

LEMMA AlignedTracked ==
    ASSUME NEW q, Changed(q) \in SUBSET Slots, active_slot = announced, NEW t \in Slots
    PROVE  /\ Tracked(q)[t].id = IF q[t].id # panel[t].id THEN q[t].id ELSE cur[t].id
           /\ Tracked(q)[t].at = IF q[t].at # panel[t].at THEN q[t].at ELSE cur[t].at
<1>1. IdOf(q, t) = IF q[t].id # panel[t].id THEN {t} ELSE {}
  BY AlignedTarget DEF IdOf, Changed
<1>2. AtOf(q, t) = IF q[t].at # panel[t].at THEN {t} ELSE {}
  BY AlignedTarget DEF AtOf, Changed
<1>3. Greatest({t}) = t
  BY GreatestSingle
<1>4. NewId(q, t) = IF q[t].id # panel[t].id THEN q[t].id ELSE cur[t].id
  BY <1>1, <1>3 DEF NewId
<1>5. NewAt(q, t) = IF q[t].at # panel[t].at THEN q[t].at ELSE cur[t].at
  BY <1>2, <1>3 DEF NewAt
<1> QED BY <1>4, <1>5, TrackedIs

-----------------------------------------------------------------------------
(* Steps.                                                                  *)

LEMMA InitStateShape ==
    /\ init_state \in MtState /\ Down(init_state) = {} /\ Distinct(init_state)
    /\ \A s \in Slots : init_state[s].id = None
<1>1. \A s \in Slots : init_state[s].id = None
  BY DEF init_state
<1>2. init_state \in MtState
  BY RawAssumption DEF init_state, MtState, Finger
<1> QED BY <1>1, <1>2 DEF Down, Distinct

(* Two blank frames have no events between them.                           *)
LEMMA NothingToSend ==
    /\ Events(init_state, init_state) = <<>>
    /\ After(init_state, init_state, 0) = {}
<1> DEFINE i == init_state
<1>1. Falling(i, i) = {} /\ Rising(i, i) = {} /\ Survivors(i, i) = {}
  BY InitStateShape DEF Falling, Rising, Survivors
<1>2. Ups(i, i) = 0 /\ Downs(i, i) = 0 /\ ~Moved(i, i)
  BY <1>1, FS_EmptySet DEF Ups, Downs, Moved
<1>3. Events(i, i) \in Seq(FrameEvents(i, i)) /\ Len(Events(i, i)) = 0
  <2>1. /\ Events(i, i) \in Seq(FrameEvents(i, i))
        /\ Len(Events(i, i)) = Ups(i, i) + Downs(i, i) + (IF Moved(i, i) THEN 1 ELSE 0)
    BY InitStateShape, EventsAre
  <2> QED BY <1>2, <2>1
<1>4. Events(i, i) = <<>>
  BY <1>3, EmptySeq
<1> QED BY <1>4, InitStateShape DEF After, Ptrs

(* What the phone knows does not change while the sender is left alone.    *)
LEMMA DeliveringUnchanged ==
    ASSUME Delivering, UNCHANGED <<g_prev, todo, phone, synced>>, rpc' = "read" => rpc = "read"
    PROVE  Delivering'
BY DEF Delivering, Rest

(* A frame is only read when the one before is delivered: what is to be    *)
(* sent is the events from that one to this one.                           *)
LEMMA DeliveringFrame ==
    ASSUME TypeOK, Numbered, Threads, Delivering, rpc = "read", todo = <<>>,
           NEW c \in MtState, Distinct(c), Unseen(cur, c),
           touch_on_frame(c), UNCHANGED <<phone, synced>>
    PROVE  Delivering'
<1>1. PICK p \in MtState : Distinct(p) /\ \E k \in Nat : Rest(p, k)
  BY DEF Delivering
<1>2. PICK k \in Nat : Rest(p, k)
  BY <1>1
<1>3. g_prev \in MtState /\ g_prev = cur /\ Distinct(g_prev)
  BY DEF TypeOK, Threads, Numbered
<1>4. Len(Events(p, g_prev)) \in Nat
  BY <1>3, EventsAre
<1>5. k = Len(Events(p, g_prev))
  <2>1. Len(todo) = 0 /\ Len(todo) = Len(Events(p, g_prev)) - k
    BY <1>2 DEF Rest
  <2> QED BY <1>4, <2>1
<1>6. synced => phone = Ptrs(g_prev, Down(g_prev))
  BY <1>2, <1>3, <1>5, AllDelivered DEF Rest
<1>7. todo' = Events(g_prev, c) /\ g_prev' = c
  BY DEF touch_on_frame
<1>8. PICK o \in MtState : o = g_prev /\ Distinct(o)
  BY <1>3
<1> DEFINE E == Events(o, c)
<1>9. /\ E \in Seq(FrameEvents(o, c)) /\ Len(E) \in Nat /\ 0 \in 0..Len(E)
      /\ Len(E) = Len(E) - 0 /\ \A i \in 1..Len(E) : E[i] = E[0 + i]
  <2>1. E \in Seq(FrameEvents(o, c))
    BY EventsAre
  <2> HIDE DEF E
  <2>2. Len(E) \in Nat
    BY <2>1, LenProperties
  <2> QED BY <2>1, <2>2
<1>10. synced => phone = After(o, c, 0)
  BY <1>6, <1>8 DEF After
<1>11. todo' = E /\ g_prev' = c
  BY <1>7, <1>8
<1>12. Rest(o, 0)'
  BY <1>3, <1>8, <1>9, <1>10, <1>11 DEF Rest
<1>13. Distinct(o)'
  BY <1>8 DEF Distinct, Down
<1> QED BY <1>12, <1>13 DEF Delivering

-----------------------------------------------------------------------------
(* An event is sent.                                                       *)

LEMMA UpAction ==
    ASSUME NEW p, NEW c, NEW s
    PROVE  UpEvent(p, c, s).action \in {"UP", "POINTER_UP"}
BY DEF UpEvent, Event

(* An event takes a phone that knows what the events before it say, or any *)
(* phone when it starts or ends the gesture, to what it says itself.       *)
LEMMA Delivered ==
    ASSUME NEW p \in MtState, NEW c \in MtState, Distinct(p), Distinct(c),
           NEW k \in Nat, k < Len(Events(p, c)), NEW known,
           known = After(p, c, k) \/ Events(p, c)[k + 1].action \in {"DOWN", "UP"}
    PROVE  Received(known, Events(p, c)[k + 1]) = After(p, c, k + 1)
<1> DEFINE E == Events(p, c)
           u == Ups(p, c)
           d == Downs(p, c)
<1>1. /\ u \in Nat /\ d \in Nat /\ Len(E) = u + d + (IF Moved(p, c) THEN 1 ELSE 0)
      /\ \A i \in 1..u : E[i] = UpEvent(p, c, Nth(Falling(p, c), i))
      /\ \A i \in 1..d : E[u + i] = DownEvent(p, c, Nth(Rising(p, c), i))
      /\ Moved(p, c) => u = 0 /\ d = 0 /\ E[1] = MoveEvent(c)
  BY EventsAre
<1> HIDE DEF E, u, d
<1>2. CASE k < u
  <2> DEFINE e == UpEvent(p, c, Nth(Falling(p, c), k + 1))
  <2>1. k \in 0..(u - 1) /\ k + 1 \in 1..u
    BY <1>1, <1>2
  <2>2. E[k + 1] = e
    BY <1>1, <2>1
  <2>3. e.action \in {"UP", "POINTER_UP"}
    <3>1. Nth(Falling(p, c), k + 1) \in Falling(p, c)
      BY <2>1, Partition, NthMember DEF u, Ups
    <3>2. PICK s \in Falling(p, c) : s = Nth(Falling(p, c), k + 1)
      BY <3>1
    <3>3. UpEvent(p, c, s).action \in {"UP", "POINTER_UP"}
      BY UpAction
    <3> QED BY <3>2, <3>3
  <2>4. known = After(p, c, k) \/ e.action = "UP"
    BY <2>2, <2>3 DEF E
  <2> QED BY <2>1, <2>2, <2>4, UpDelivered DEF E, u
<1>3. CASE ~(k < u) /\ k < u + d
  <2>1. PICK j \in Nat : j = k - u
    BY <1>1, <1>3
  <2>2. j \in 0..(d - 1) /\ j + 1 \in 1..d /\ k = u + j /\ k + 1 = u + (j + 1) /\ k + 1 = u + j + 1
    BY <1>1, <1>3, <2>1
  <2> DEFINE e == DownEvent(p, c, Nth(Rising(p, c), j + 1))
  <2>3. E[k + 1] = e
    BY <1>1, <2>2
  <2>4. e.action \in {"DOWN", "POINTER_DOWN"}
    <3>1. Nth(Rising(p, c), j + 1) \in Rising(p, c)
      BY <2>2, Partition, NthMember DEF d, Downs
    <3>2. PICK s \in Rising(p, c) : s = Nth(Rising(p, c), j + 1)
      BY <3>1
    <3>3. DownEvent(p, c, s).action \in {"DOWN", "POINTER_DOWN"}
      BY DownFits
    <3> QED BY <3>2, <3>3
  <2>5. known = After(p, c, u + j) \/ e.action = "DOWN"
    BY <2>2, <2>3, <2>4 DEF E
  <2>6. Received(known, e) = After(p, c, u + j + 1)
    BY <2>2, <2>5, DownDelivered DEF u, d
  <2> QED BY <2>2, <2>3, <2>6 DEF E
<1>4. CASE ~(k < u + d)
  <2>1. Moved(p, c) /\ u = 0 /\ d = 0 /\ k = 0 /\ k + 1 = 1 /\ E[1] = MoveEvent(c)
    BY <1>1, <1>4 DEF E
  <2>2. Received(After(p, c, 0), MoveEvent(c)) = After(p, c, 1) /\ MoveEvent(c).action = "MOVE"
    BY <2>1, MoveDelivered
  <2>3. known = After(p, c, 0)
    BY <2>1, <2>2 DEF E
  <2> QED BY <2>1, <2>2, <2>3 DEF E
<1> QED BY <1>1, <1>2, <1>3, <1>4

LEMMA PointerTyped ==
    ASSUME NEW f \in Touched
    PROVE  Pointer(f) \in [id : Ids, px : Nat]
<1>1. f.id \in Ids /\ f.at \in Nat
  BY RawAssumption DEF Touched
<1>2. scale_x(f.at) \in Nat
  BY <1>1 DEF scale_x, kDisplayWidth, kRawMax
<1> QED BY <1>1, <1>2 DEF Pointer

LEMMA ReceivedTyped ==
    ASSUME NEW known \in SUBSET [id : Ids, px : Nat], NEW e, Fits(e)
    PROVE  Received(known, e) \in SUBSET [id : Ids, px : Nat]
<1> DEFINE D == DOMAIN e.ptrs
           lead == Pointer(Lead(e))
           rest == {p \in known : p.id # lead.id}
           moved == {p \in Pointers(e.ptrs) : \E k \in rest : k.id = p.id}
                    \cup {k \in rest : \A p \in Pointers(e.ptrs) : p.id # k.id}
<1>1. D \in SUBSET Slots /\ e.ptrs \in [D -> Touched]
  BY DEF Fits
<1>2. Cardinality(D) \in Nat /\ e.index + 1 \in 1..Cardinality(D)
  BY <1>1, SlotsFinite DEF Fits
<1>3. Nth(D, e.index + 1) \in D
  BY <1>1, <1>2, NthMember
<1>4. lead \in [id : Ids, px : Nat]
  BY <1>1, <1>3, PointerTyped DEF Lead
<1>5. \A p \in Pointers(e.ptrs) : p \in [id : Ids, px : Nat]
  BY <1>1, PointerTyped DEF Pointers
<1>6. moved \in SUBSET [id : Ids, px : Nat]
  BY <1>5
<1>7. e.action \in Actions
  BY DEF Fits
<1>8. Received(known, e) =
        CASE e.action = "DOWN" -> {lead}
          [] e.action = "UP" -> {}
          [] e.action = "POINTER_DOWN" -> moved \cup {lead}
          [] e.action = "POINTER_UP" -> moved
          [] e.action = "MOVE" -> {p \in Pointers(e.ptrs) : \E k \in known : k.id = p.id}
  BY DEF Received
<1> HIDE DEF lead, moved
<1> QED BY <1>4, <1>5, <1>6, <1>7, <1>8 DEF Actions

(* What is sent and what is left to send, of what was left before.         *)
LEMMA SendShape ==
    ASSUME TypeOK, Numbered, Threads, Delivering, NEW ok \in BOOLEAN, send_event(ok)
    PROVE  rpc = "read" /\ rpc' = "read" /\ Fits(Head(todo)) /\ Delivering'
<1>1. rpc = "read" /\ todo # <<>> /\ UNCHANGED <<rpc, g_prev>>
  BY DEF send_event, Threads, reader
<1>2. PICK p \in MtState : Distinct(p) /\ \E k \in Nat : Rest(p, k)
  BY <1>1 DEF Delivering
<1>3. PICK k \in Nat : Rest(p, k)
  BY <1>2
<1>4. PICK c \in MtState : c = g_prev /\ c = g_prev' /\ Distinct(c)
  BY <1>1 DEF TypeOK, Threads, Numbered
<1> DEFINE E == Events(p, c)
           S == FrameEvents(p, c)
           e == Head(todo)
<1>5. /\ k \in 0..Len(E) /\ todo \in Seq(S) /\ Len(todo) = Len(E) - k
      /\ Unseen(p, c)
      /\ \A i \in 1..Len(todo) : todo[i] = E[k + i]
      /\ synced => phone = After(p, c, k)
  BY <1>3, <1>4 DEF Rest
<1>6. Len(E) \in Nat
  <2>1. E \in Seq(S)
    BY EventsAre
  <2> HIDE DEF E, S
  <2> QED BY <2>1, LenProperties
<1>7. \A x \in S : Fits(x)
  BY <1>2, <1>4, EventsAllFit
<1> HIDE DEF E, S
<1>8. /\ Tail(todo) \in Seq(S) /\ Len(Tail(todo)) = Len(todo) - 1
      /\ \A i \in 1..Len(Tail(todo)) : Tail(todo)[i] = todo[i + 1]
      /\ e \in S /\ e = todo[1] /\ Len(todo) \in Nat \ {0}
  BY <1>1, <1>5, HeadTailProperties, EmptySeq, LenProperties
<1>9. k < Len(E) /\ k + 1 \in 0..Len(E) /\ k + 1 \in Nat /\ e = E[k + 1]
  <2>1. 1 \in 1..Len(todo)
    BY <1>8
  <2>2. e = E[k + 1]
    BY <1>5, <1>8, <2>1
  <2>3. k < Len(E) /\ k + 1 \in 0..Len(E) /\ k + 1 \in Nat
    BY <1>5, <1>6, <1>8
  <2> QED BY <2>2, <2>3
<1>10. /\ Len(Tail(todo)) = Len(E) - (k + 1)
       /\ \A i \in 1..Len(Tail(todo)) : Tail(todo)[i] = E[(k + 1) + i]
  <2>1. Len(Tail(todo)) = Len(E) - (k + 1)
    BY <1>5, <1>6, <1>8
  <2>2. ASSUME NEW i \in 1..Len(Tail(todo)) PROVE Tail(todo)[i] = E[(k + 1) + i]
    <3>1. i + 1 \in 1..Len(todo) /\ k + (i + 1) = (k + 1) + i
      BY <1>8
    <3>2. Tail(todo)[i] = todo[i + 1] /\ todo[i + 1] = E[k + (i + 1)]
      BY <1>5, <1>8, <3>1
    <3> QED BY <3>1, <3>2
  <2> QED BY <2>1, <2>2
<1>11. ASSUME synced' PROVE phone' = After(p, c, k + 1)
  <2>1. ok /\ phone' = Received(phone, e) /\ (synced \/ e.action \in {"DOWN", "UP"})
    BY <1>11 DEF send_event
  <2>2. phone = After(p, c, k) \/ E[k + 1].action \in {"DOWN", "UP"}
    BY <1>5, <1>9, <2>1
  <2> HIDE DEF e
  <2>3. Received(phone, E[k + 1]) = After(p, c, k + 1)
    BY <1>2, <1>4, <1>9, <2>2, Delivered DEF E
  <2> QED BY <1>9, <2>1, <2>3
<1>12. todo' = Tail(todo)
  BY DEF send_event
<1>13. Rest(p, k + 1)'
  <2>1. Unseen(p, g_prev)'
    BY <1>4, <1>5 DEF Unseen, Rising, Down
  <2> QED BY <1>4, <1>8, <1>9, <1>10, <1>11, <1>12, <2>1 DEF Rest, E, S
<1>14. Distinct(p)'
  BY <1>2 DEF Distinct, Down
<1>15. Delivering'
  BY <1>9, <1>13, <1>14 DEF Delivering
<1> QED BY <1>1, <1>7, <1>8, <1>15

-----------------------------------------------------------------------------
(* One step after another.                                                 *)

LEMMA InitInv == Init => TouchInv
<1> SUFFICES ASSUME Init PROVE TouchInv
  OBVIOUS
<1>1. TypeOK
  <2>1. alive \in BOOLEAN /\ stop \in BOOLEAN /\ synced \in BOOLEAN
    BY Zenon DEF Init
  <2>2. aligned \in BOOLEAN
    BY Zenon DEF Init
  <2>3. /\ panel \in MtState /\ cur \in MtState /\ g_prev \in MtState
        /\ announced \in Slots /\ active_slot \in Slots
    BY InitStateShape, FingerAssumption DEF Init, Slots
  <2>4. /\ contacts \in 0..MaxContacts /\ attempt \in 0..(MaxAttempts - 1) /\ sessions \in Nat
        /\ lpc \in {"idle", "join"} /\ rpc \in {"none", "open", "read", "exit"} /\ phone = {}
        /\ missed = "touches"
    BY BoundAssumption DEF Init
  <2> QED BY <2>1, <2>2, <2>3, <2>4 DEF TypeOK
<1>2. Threads
  BY DEF Init, Threads
<1>3. Numbered
  BY InitStateShape DEF Init, Numbered, None
<1>4. InStep /\ Delivering
  BY DEF Init, InStep, Delivering
<1> QED BY <1>1, <1>2, <1>3, <1>4 DEF TouchInv

LEMMA CreateInv ==
    ASSUME TouchInv, NEW ok \in BOOLEAN, touch_post_aap_create_session(ok)
    PROVE  TouchInv'
<1> USE DEF touch_post_aap_create_session
<1>1. /\ rpc' = IF ok THEN "open" ELSE "none"
      /\ rpc = "none" /\ phone = {} /\ synced /\ cur = init_state /\ active_slot = 0 /\ todo = <<>>
  BY DEF TouchInv, Threads
<1>2. TypeOK'
  <2>1. alive' \in BOOLEAN
    BY Zenon
  <2>2. g_prev' \in MtState
    BY InitStateShape DEF touch_send_reset
  <2>3. sessions' \in Nat
    BY DEF TouchInv, TypeOK
  <2> QED BY <1>1, <2>1, <2>2, <2>3 DEF TouchInv, TypeOK, device, remote, view
<1>3. Threads'
  BY <1>1 DEF Threads, remote, touch_send_reset
<1>4. Numbered'
  BY DEF TouchInv, Numbered, Distinct, Down, device
<1>5. InStep' /\ Delivering'
  BY <1>1 DEF InStep, Delivering
<1> QED BY <1>2, <1>3, <1>4, <1>5 DEF TouchInv

LEMMA DestroyInv ==
    ASSUME TouchInv, touch_pre_aap_destroy_session
    PROVE  TouchInv'
<1> USE DEF touch_pre_aap_destroy_session
<1>1. UNCHANGED <<device, alive, reader, sender, remote, view, sessions>>
  OBVIOUS
<1>2. TypeOK'
  <2>1. stop' \in BOOLEAN
    BY Zenon
  <2> QED BY <1>1, <2>1 DEF TouchInv, TypeOK, device, reader, sender, remote, view
<1>3. Threads' /\ Numbered' /\ InStep'
  BY <1>1 DEF TouchInv, Threads, Numbered, InStep, Distinct, Down,
       device, reader, sender, remote, view
<1>4. Delivering'
  BY <1>1, DeliveringUnchanged DEF TouchInv, reader, sender, remote
<1> QED BY <1>2, <1>3, <1>4 DEF TouchInv

LEMMA JoinInv ==
    ASSUME TouchInv, Join
    PROVE  TouchInv'
<1> USE DEF Join
<1>1. TypeOK'
  <2>1. alive' \in BOOLEAN /\ stop' \in BOOLEAN /\ synced' \in BOOLEAN
    BY Zenon
  <2> QED BY <2>1 DEF TouchInv, TypeOK, device, sender, view
<1>2. Threads' /\ Numbered'
  BY DEF TouchInv, Threads, Numbered, Distinct, Down, device, sender
<1>3. InStep' /\ Delivering'
  BY DEF InStep, Delivering
<1> QED BY <1>1, <1>2, <1>3 DEF TouchInv

(* The thread's end: nothing is left to send, its slots are blank.         *)
LEMMA ExitInv ==
    ASSUME TouchInv, rpc # "none", todo = <<>>, rpc' = "exit", ForgetLocals,
           UNCHANGED <<device, life, sender, remote, sessions>>
    PROVE  TouchInv'
<1>1. TypeOK'
  <2>1. aligned' \in BOOLEAN /\ missed' = "touches"
    BY Zenon DEF ForgetLocals
  <2>2. cur' \in MtState /\ active_slot' \in Slots
    BY InitStateShape, FingerAssumption DEF ForgetLocals, Slots
  <2>3. attempt' \in 0..(MaxAttempts - 1)
    BY BoundAssumption DEF ForgetLocals
  <2> QED BY <2>1, <2>2, <2>3 DEF TouchInv, TypeOK, device, life, sender, remote
<1>2. Threads'
  BY DEF TouchInv, Threads, ForgetLocals, life, sender
<1>3. Numbered'
  <2>1. cur' = init_state /\ contacts' = contacts /\ panel' = panel /\ contacts \in Nat
    BY DEF TouchInv, TypeOK, ForgetLocals, device
  <2>2. \A s \in Slots : cur'[s].id = None
    BY <2>1, InitStateShape
  <2>3. Down(cur)' = {}
    BY <2>2 DEF Down
  <2> QED BY <2>1, <2>2, <2>3 DEF TouchInv, Numbered, Distinct, None
<1>4. InStep' /\ Delivering'
  BY DEF InStep, Delivering
<1> QED BY <1>1, <1>2, <1>3, <1>4 DEF TouchInv

(* A reader starts from blank slots; it knows when it started with the     *)
(* panel's slot in mind.                                                   *)
LEMMA OpenInv ==
    ASSUME TouchInv, NEW ok \in BOOLEAN, open_touch_device(ok)
    PROVE  TouchInv'
<1>1. /\ rpc = "open" /\ UNCHANGED <<device, life, sender, remote, sessions>>
      /\ cur = init_state /\ active_slot = 0 /\ todo = <<>> /\ g_prev = init_state /\ phone = {}
      /\ alive
  BY DEF open_touch_device, TouchInv, Threads
<1>2. CASE /\ ok /\ ~stop /\ rpc' = "read"
           /\ missed' = IF panel = init_state /\ announced = 0 THEN "nothing" ELSE "touches"
           /\ aligned' = (announced = 0)
           /\ UNCHANGED <<attempt, cur, active_slot>>
  <2>1. TypeOK'
    <3>1. aligned' \in BOOLEAN /\ missed' \in {"nothing", "touches"}
      BY <1>2, Zenon
    <3> QED BY <1>1, <1>2, <3>1 DEF TouchInv, TypeOK, device, life, sender, remote
  <2>2. Threads' /\ Numbered'
    BY <1>1, <1>2 DEF TouchInv, Threads, Numbered, Distinct, Down, device, life, sender, remote
  <2>3. InStep'
    <3>1. cur' = init_state /\ active_slot' = 0 /\ panel' = panel /\ announced' = announced
      BY <1>1, <1>2 DEF device
    <3>2. missed' = "nothing" => aligned' /\ cur' = panel'
      BY <1>2, <3>1
    <3>3. aligned' => active_slot' = announced'
      BY <1>2, <3>1
    <3>4. Down(cur)' = {}
      BY <3>1, InitStateShape DEF Down
    <3> QED BY <3>2, <3>3, <3>4 DEF InStep
  <2>4. Delivering'
    <3> DEFINE E == Events(init_state, init_state)
    <3>1. todo' = <<>> /\ g_prev' = init_state /\ phone' = {}
      BY <1>1 DEF sender, remote
    <3>2. E = <<>> /\ After(init_state, init_state, 0) = {}
      BY NothingToSend
    <3>3. E \in Seq(FrameEvents(init_state, init_state))
      BY InitStateShape, EventsAre
    <3>4. Len(<<>>) = 0 /\ 0 \in 0..0 /\ 0 = 0 - 0 /\ 1..0 = {}
      OBVIOUS
    <3> HIDE DEF E
    <3>5. /\ 0 \in 0..Len(E) /\ E \in Seq(FrameEvents(init_state, init_state))
          /\ Len(E) = Len(E) - 0 /\ \A i \in 1..Len(E) : E[i] = E[0 + i]
      BY <3>2, <3>3, <3>4
    <3>6. todo' = E
      BY <3>1, <3>2
    <3>7. Rest(init_state, 0)'
      <4>1. Unseen(init_state, g_prev)'
        BY <3>1, InitStateShape DEF Unseen, Down, init_state
      <4> QED BY <3>1, <3>2, <3>5, <3>6, <4>1 DEF Rest, E, init_state
    <3>8. Distinct(init_state)'
      BY InitStateShape DEF Distinct, Down, init_state
    <3> QED BY <3>7, <3>8, InitStateShape DEF Delivering, init_state
  <2> QED BY <2>1, <2>2, <2>3, <2>4 DEF TouchInv
<1>3. CASE ~ok /\ ~stop /\ attempt + 1 < MaxAttempts /\ attempt' = attempt + 1
           /\ UNCHANGED <<rpc, cur, active_slot, view>>
  <2>1. attempt' \in 0..(MaxAttempts - 1)
    BY <1>3, BoundAssumption DEF TouchInv, TypeOK
  <2>2. TypeOK'
    BY <1>1, <1>3, <2>1 DEF TouchInv, TypeOK, device, life, sender, remote, view
  <2>3. Threads' /\ Numbered'
    BY <1>1, <1>3 DEF TouchInv, Threads, Numbered, Distinct, Down, device, life, sender, remote
  <2>4. InStep' /\ Delivering'
    BY <1>1, <1>3 DEF InStep, Delivering
  <2> QED BY <2>2, <2>3, <2>4 DEF TouchInv
<1>4. CASE rpc' = "exit" /\ ForgetLocals
  BY <1>1, <1>4, ExitInv
<1> QED BY <1>2, <1>3, <1>4 DEF open_touch_device

LEMMA ReaderExitInv ==
    ASSUME TouchInv, ReaderExit
    PROVE  TouchInv'
BY ExitInv DEF ReaderExit

LEMMA SendInv ==
    ASSUME TouchInv, NEW ok \in BOOLEAN, send_event(ok)
    PROVE  TouchInv'
<1>1. rpc = "read" /\ Fits(Head(todo)) /\ Delivering'
  BY SendShape DEF TouchInv
<1>2. UNCHANGED <<device, life, reader, g_prev, view, sessions>>
  BY DEF send_event
<1>3. TypeOK'
  <2>1. phone' \in SUBSET [id : Ids, px : Nat]
    <3>1. phone \in SUBSET [id : Ids, px : Nat]
      BY DEF TouchInv, TypeOK
    <3>2. Received(phone, Head(todo)) \in SUBSET [id : Ids, px : Nat]
      BY <1>1, <3>1, ReceivedTyped
    <3> QED BY <3>1, <3>2 DEF send_event
  <2>2. synced' \in BOOLEAN
    <3>1. synced \in BOOLEAN
      BY DEF TouchInv, TypeOK
    <3>2. synced' = synced \/ synced' = (synced \/ Head(todo).action \in {"DOWN", "UP"})
            \/ synced' = FALSE
      BY DEF send_event
    <3> QED BY <3>1, <3>2, Zenon
  <2> QED BY <1>2, <2>1, <2>2 DEF TouchInv, TypeOK, device, life, reader, view
<1>4. Threads' /\ Numbered' /\ InStep'
  BY <1>1, <1>2 DEF TouchInv, Threads, Numbered, InStep, Distinct, Down,
       device, life, reader, view
<1> QED BY <1>1, <1>3, <1>4 DEF TouchInv

LEMMA PanelShape ==
    ASSUME TypeOK, Numbered, NEW q \in Frames, PanelStep(q)
    PROVE  /\ panel' = q /\ panel' \in MtState /\ announced' \in Slots
           /\ contacts' \in 0..MaxContacts /\ contacts' >= contacts
           /\ contacts' = contacts + Cardinality({s \in Slots : q[s].id > contacts})
           /\ \A s \in Slots : panel'[s].id <= contacts'
<1> DEFINE n == contacts + Cardinality({s \in Slots : q[s].id > contacts})
<1>1. /\ q \in MtState /\ Changed(q) # {} /\ Changed(q) \in SUBSET Slots
      /\ n \in contacts..MaxContacts /\ \A s \in Slots : q[s].id <= n
  BY FrameShape
<1>2. panel' = q /\ contacts' = n /\ announced' = Greatest(Changed(q))
  BY DEF PanelStep
<1>3. Greatest(Changed(q)) \in Slots
  BY <1>1, GreatestMember
<1>4. contacts \in Nat /\ MaxContacts \in Nat
  BY BoundAssumption DEF TypeOK
<1> HIDE DEF n
<1>5. n \in 0..MaxContacts /\ n >= contacts
  BY <1>1, <1>4
<1> QED BY <1>1, <1>2, <1>3, <1>5 DEF n

(* Ids only grow, so those in the reader's slots stay handed out.          *)
LEMMA StillNumbered ==
    ASSUME TypeOK, Numbered, contacts' \in Nat, contacts' >= contacts
    PROVE  \A s \in Slots : cur[s].id <= contacts'
<1>1. contacts \in Nat /\ \A s \in Slots : cur[s].id \in Int
  BY DEF TypeOK, MtState, Finger, Ids, None
<1> QED BY <1>1 DEF Numbered

LEMMA UnreadInv ==
    ASSUME TouchInv, NEW q \in Frames, Unread(q)
    PROVE  TouchInv'
<1>1. rpc # "read" /\ PanelStep(q) /\ UNCHANGED <<life, reader, sender, remote, view, sessions>>
  BY DEF Unread
<1>2. /\ panel' \in MtState /\ announced' \in Slots
      /\ contacts' \in 0..MaxContacts /\ contacts' >= contacts
      /\ \A s \in Slots : panel'[s].id <= contacts'
  BY <1>1, PanelShape DEF TouchInv
<1>3. TypeOK'
  BY <1>1, <1>2 DEF TouchInv, TypeOK, life, reader, sender, remote, view
<1>4. Threads'
  BY <1>1 DEF TouchInv, Threads, life, reader, sender, remote
<1>5. Numbered'
  <2>1. \A s \in Slots : cur[s].id <= contacts'
    BY <1>2, StillNumbered DEF TouchInv
  <2>2. cur' = cur
    BY <1>1 DEF reader
  <2> QED BY <1>2, <2>1, <2>2 DEF TouchInv, Numbered, Distinct, Down
<1>6. InStep' /\ Delivering'
  BY <1>1 DEF InStep, Delivering, reader
<1> QED BY <1>3, <1>4, <1>5, <1>6 DEF TouchInv

LEMMA FingerEqual ==
    ASSUME NEW f \in MtState, NEW g \in MtState,
           \A t \in Slots : f[t].id = g[t].id /\ f[t].at = g[t].at
    PROVE  f = g
<1>1. \A t \in Slots : f[t] = g[t]
  <2> TAKE t \in Slots
  <2>1. f[t] \in Finger /\ g[t] \in Finger
    BY DEF MtState
  <2>2. f[t] = [id |-> f[t].id, at |-> f[t].at] /\ g[t] = [id |-> g[t].id, at |-> g[t].at]
    BY <2>1 DEF Finger
  <2> QED BY <2>2
<1> QED BY <1>1 DEF MtState

(* With the announced slot in mind the reader follows the frame.           *)
LEMMA FrameInStep ==
    ASSUME TouchInv, NEW q \in Frames, SYN_REPORT(q)
    PROVE  InStep'
<1>1. /\ rpc = "read" /\ PanelStep(q) /\ cur' = Tracked(q)
      /\ active_slot' = Target(q, Greatest(Changed(q))) /\ UNCHANGED view
  BY DEF SYN_REPORT
<1>2. /\ q \in MtState /\ Changed(q) # {} /\ Changed(q) \in SUBSET Slots
      /\ Tracked(q) \in MtState
  BY FrameShape, TrackedShape DEF TouchInv
<1>3. panel' = q /\ announced' = Greatest(Changed(q)) /\ UNCHANGED <<missed, aligned>>
  BY <1>1 DEF PanelStep, view
<1>4. Greatest(Changed(q)) \in Changed(q)
  BY <1>2, GreatestMember
<1>5. ASSUME aligned PROVE active_slot' = announced'
  <2>1. active_slot = announced
    BY <1>1, <1>5 DEF TouchInv, InStep
  <2> QED BY <1>1, <1>2, <1>3, <1>4, <2>1, AlignedTarget
<1>6. ASSUME aligned, NEW t \in Slots
      PROVE  /\ Tracked(q)[t].id = IF q[t].id # panel[t].id THEN q[t].id ELSE cur[t].id
             /\ Tracked(q)[t].at = IF q[t].at # panel[t].at THEN q[t].at ELSE cur[t].at
  <2>1. active_slot = announced
    BY <1>1, <1>6 DEF TouchInv, InStep
  <2> QED BY <1>2, <2>1, AlignedTracked
<1>7. ASSUME aligned PROVE \A s \in Down(cur)' : cur'[s].id = panel'[s].id
  <2> TAKE s \in Down(cur)'
  <2>1. s \in Slots /\ Tracked(q)[s].id # None
    BY <1>1 DEF Down
  <2>2. CASE q[s].id # panel[s].id
    BY <1>1, <1>3, <1>6, <1>7, <2>1, <2>2
  <2>3. CASE q[s].id = panel[s].id
    <3>1. Tracked(q)[s].id = cur[s].id
      BY <1>6, <1>7, <2>1, <2>3
    <3>2. s \in Down(cur)
      BY <2>1, <3>1 DEF Down
    <3>3. cur[s].id = panel[s].id
      BY <1>1, <1>7, <3>2 DEF TouchInv, InStep
    <3> QED BY <1>1, <1>3, <2>3, <3>1, <3>3
  <2> QED BY <2>2, <2>3
<1>8. ASSUME missed = "nothing" PROVE aligned /\ cur' = panel'
  <2>1. aligned /\ cur = panel
    BY <1>1, <1>8 DEF TouchInv, InStep
  <2>2. \A t \in Slots : Tracked(q)[t].id = q[t].id /\ Tracked(q)[t].at = q[t].at
    BY <1>6, <2>1
  <2>3. Tracked(q) = q
    BY <1>2, <2>2, FingerEqual
  <2> QED BY <1>1, <1>3, <2>1, <2>3
<1> QED BY <1>3, <1>5, <1>7, <1>8 DEF InStep

LEMMA SYN_REPORTInv ==
    ASSUME TouchInv, NEW q \in Frames, SYN_REPORT(q)
    PROVE  TouchInv'
<1>1. /\ rpc = "read" /\ todo = <<>> /\ PanelStep(q) /\ cur' = Tracked(q)
      /\ active_slot' = Target(q, Greatest(Changed(q))) /\ touch_on_frame(cur')
      /\ UNCHANGED <<life, rpc, attempt, remote, view, sessions>>
  BY DEF SYN_REPORT
<1>2. /\ panel' \in MtState /\ announced' \in Slots
      /\ contacts' \in 0..MaxContacts /\ contacts' >= contacts
      /\ contacts' = contacts + Cardinality({s \in Slots : q[s].id > contacts})
      /\ \A s \in Slots : panel'[s].id <= contacts'
  BY <1>1, PanelShape DEF TouchInv
<1>3. PICK c \in MtState : /\ c = Tracked(q) /\ c = cur' /\ Distinct(c) /\ Unseen(cur, c)
                           /\ \A t \in Slots : c[t].id <= contacts'
  BY <1>1, <1>2, TrackedShape DEF TouchInv
<1>4. Target(q, Greatest(Changed(q))) \in Slots
  BY TrackedShape DEF TouchInv
<1>5. cur' \in MtState /\ g_prev' = c
  BY <1>1, <1>3 DEF touch_on_frame
<1>6. TypeOK'
  BY <1>1, <1>2, <1>4, <1>5, <1>3 DEF TouchInv, TypeOK, life, remote, view
<1>7. Threads'
  BY <1>1, <1>3, <1>5 DEF TouchInv, Threads, life, remote
<1>8. Numbered'
  BY <1>2, <1>3 DEF Numbered, Distinct, Down
<1>9. InStep'
  BY FrameInStep
<1>10. Delivering'
  BY <1>1, <1>3, DeliveringFrame DEF TouchInv, remote
<1> QED BY <1>6, <1>7, <1>8, <1>9, <1>10 DEF TouchInv

LEMMA SYN_DROPPEDInv ==
    ASSUME TouchInv, NEW q \in Frames, SYN_DROPPED(q)
    PROVE  TouchInv'
<1>1. /\ rpc = "read" /\ todo = <<>> /\ PanelStep(q) /\ cur' = init_state
      /\ touch_on_frame(init_state) /\ g_prev' = init_state
      /\ missed' \in {"touches", "overflow"} /\ aligned' = (active_slot = announced')
      /\ UNCHANGED <<life, rpc, attempt, active_slot, remote, sessions>>
  BY DEF SYN_DROPPED, Overflow, touch_on_frame
<1>2. /\ panel' \in MtState /\ announced' \in Slots
      /\ contacts' \in 0..MaxContacts /\ contacts' >= contacts
      /\ \A s \in Slots : panel'[s].id <= contacts'
  BY <1>1, PanelShape DEF TouchInv
<1>3. TypeOK'
  <2>1. aligned' \in BOOLEAN
    BY <1>1, Zenon
  <2> QED BY <1>1, <1>2, <2>1, InitStateShape DEF TouchInv, TypeOK, life, remote
<1>4. Threads'
  BY <1>1 DEF TouchInv, Threads, life, remote
<1>5. Down(cur)' = {} /\ \A s \in Slots : cur'[s].id = None
  BY <1>1, InitStateShape DEF Down
<1>6. Numbered'
  BY <1>2, <1>5 DEF Numbered, Distinct, None
<1>7. InStep'
  BY <1>1, <1>5 DEF InStep
<1>8. Delivering'
  <2>1. Unseen(cur, init_state)
    BY InitStateShape DEF Unseen, Rising
  <2> QED BY <1>1, <2>1, InitStateShape, DeliveringFrame DEF TouchInv, remote
<1> QED BY <1>3, <1>4, <1>6, <1>7, <1>8 DEF TouchInv

LEMMA UnchangedInv ==
    ASSUME TouchInv, UNCHANGED vars
    PROVE  TouchInv'
<1> USE DEF vars, device, life, reader, sender, remote, view
<1>1. TypeOK' /\ Threads' /\ Numbered' /\ InStep'
  BY DEF TouchInv, TypeOK, Threads, Numbered, InStep, Distinct, Down
<1>2. Delivering'
  BY DeliveringUnchanged DEF TouchInv
<1> QED BY <1>1, <1>2 DEF TouchInv

LEMMA TouchStep == TouchInv /\ [Next]_vars => TouchInv'
<1> SUFFICES ASSUME TouchInv, [Next]_vars PROVE TouchInv'
  OBVIOUS
<1>1. CASE \E ok \in BOOLEAN : touch_post_aap_create_session(ok)
  BY <1>1, CreateInv
<1>2. CASE touch_pre_aap_destroy_session
  BY <1>2, DestroyInv
<1>3. CASE Join
  BY <1>3, JoinInv
<1>4. CASE Reader
  BY <1>4, OpenInv, ReaderExitInv, SendInv DEF Reader
<1>5. CASE ReaderExit
  BY <1>5, ReaderExitInv
<1>6. CASE \E q \in Frames : Unread(q) \/ SYN_REPORT(q) \/ SYN_DROPPED(q)
  BY <1>6, UnreadInv, SYN_REPORTInv, SYN_DROPPEDInv
<1>7. CASE UNCHANGED vars
  BY <1>7, UnchangedInv
<1> QED BY <1>1, <1>2, <1>3, <1>4, <1>5, <1>6, <1>7 DEF Next

LEMMA TouchInvariant == Spec => []TouchInv
BY InitInv, TouchStep, PTL DEF Spec

-----------------------------------------------------------------------------
(* The slots, the sender's frame and the phone's pointers keep their types *)
(* (touch_send.h:16-27, touch.cpp:58-72).                                  *)
THEOREM TypeCorrect == Spec => []TypeOK
<1>1. TouchInv => TypeOK
  BY DEF TouchInv
<1> QED BY <1>1, TouchInvariant, PTL

(* Whatever one frame changes, each event it makes fits the pointer array, *)
(* names a pointer in it and lists no contact twice                        *)
(* (touch_send.cpp:77-80, 171-181; blmjciaapa.h:29-31).                    *)
THEOREM EventsAlwaysFit == Spec => []EventsFit
<1>1. ASSUME NEW e, Fits(e)
      PROVE  /\ Cardinality(DOMAIN e.ptrs) \in 1..MaxFingers
             /\ e.index < Cardinality(DOMAIN e.ptrs)
             /\ Cardinality({e.ptrs[s].id : s \in DOMAIN e.ptrs}) = Cardinality(DOMAIN e.ptrs)
  <2> DEFINE D == DOMAIN e.ptrs
             T == {e.ptrs[s].id : s \in D}
             f == [s \in D |-> e.ptrs[s].id]
  <2>1. D \in SUBSET Slots /\ D # {}
    BY <1>1 DEF Fits
  <2>2. /\ IsFiniteSet(D) /\ Cardinality(D) \in Nat /\ Cardinality(D) <= MaxFingers
        /\ Cardinality(D) # 0 /\ MaxFingers \in Nat
    BY <2>1, SlotsFinite, FS_EmptySet, FingerAssumption
  <2>3. f \in Surjection(D, T)
    BY DEF Surjection
  <2>4. f \in Injection(D, T)
    BY <1>1 DEF Injection, IsInjective, Fits
  <2>5. Cardinality(T) = Cardinality(D)
    <3> HIDE DEF D, T, f
    <3> QED BY <2>2, <2>3, <2>4, FS_Surjection
  <2> QED BY <1>1, <2>2, <2>5 DEF Fits
<1>2. TouchInv => EventsFit
  <2> SUFFICES ASSUME TouchInv, NEW i \in 1..Len(todo)
               PROVE  Fits(todo[i])
    BY <1>1 DEF EventsFit
  <2>1. rpc = "read"
    BY DEF TouchInv, Threads
  <2>2. PICK p \in MtState : Distinct(p) /\ \E k \in Nat : Rest(p, k)
    BY <2>1 DEF TouchInv, Delivering
  <2>3. todo \in Seq(FrameEvents(p, g_prev))
    BY <2>2 DEF Rest
  <2>4. todo[i] \in FrameEvents(p, g_prev)
    BY <2>3, ElementOfSeq
  <2>5. g_prev \in MtState /\ Distinct(g_prev)
    BY <2>1 DEF TouchInv, TypeOK, Threads, Numbered
  <2> QED BY <2>2, <2>4, <2>5, EventsAllFit
<1> QED BY <1>2, TouchInvariant, PTL

(* From the last complete gesture start on, the phone knows exactly the    *)
(* fingers of the last frame, each where it is, however many fingers       *)
(* landed, lifted, changed slots or moved in one frame                     *)
(* (touch_send.cpp:193-306).  The run checks it as part of FingerStream.   *)
PhoneFollows ==
    (rpc = "read" /\ todo = <<>> /\ synced) =>
        phone = Pointers([s \in Down(g_prev) |-> g_prev[s]])

(* With nothing left to send a phone in step knows the last frame.         *)
LEMMA TouchInvFollows == TouchInv => PhoneFollows
<1> SUFFICES ASSUME TouchInv, rpc = "read", todo = <<>>, synced
             PROVE  phone = Pointers([s \in Down(g_prev) |-> g_prev[s]])
  BY DEF PhoneFollows
<1>1. PICK p \in MtState : Distinct(p) /\ \E k \in Nat : Rest(p, k)
  BY DEF TouchInv, Delivering
<1>2. PICK k \in Nat : Rest(p, k)
  BY <1>1
<1>3. g_prev \in MtState
  BY DEF TouchInv, TypeOK
<1>4. k = Len(Events(p, g_prev))
  <2>1. Len(todo) = 0 /\ Len(todo) = Len(Events(p, g_prev)) - k
    BY <1>2 DEF Rest
  <2>2. Events(p, g_prev) \in Seq(FrameEvents(p, g_prev))
    BY <1>3, EventsAre
  <2>3. Len(Events(p, g_prev)) \in Nat
    BY <2>2, LenProperties
  <2> QED BY <2>1, <2>3
<1>5. phone = Ptrs(g_prev, Down(g_prev))
  BY <1>2, <1>3, <1>4, AllDelivered DEF Rest
<1> QED BY <1>5 DEF Ptrs, Pointers

(* Once a gesture has started or ended with every event arriving since,    *)
(* the phone knows the fingers of the last frame, each where it is         *)
(* (touch_send.cpp:193-306).                                               *)
THEOREM PhoneInStep == Spec => []PhoneFollows
BY TouchInvFollows, TouchInvariant, PTL

(* A reader that missed nothing sees the panel as it is                    *)
(* (touch.cpp:200-224).                                                    *)
THEOREM ReaderInStep == Spec => []ReaderFollows
<1>1. TouchInv => ReaderFollows
  BY DEF TouchInv, InStep, ReaderFollows
<1> QED BY <1>1, TouchInvariant, PTL

(* A reader that started from blank slots with the panel's slot in mind    *)
(* tracks no contact that is not there (touch.cpp:200-246).                *)
THEOREM NoGhosts == Spec => []NoGhostFinger
<1>1. TouchInv => NoGhostFinger
  BY DEF TouchInv, InStep, NoGhostFinger
<1> QED BY <1>1, TouchInvariant, PTL
-----------------------------------------------------------------------------
(* The sender implements FingerStream.                                     *)

PtrIds(S) == {x.id : x \in S}

LEMMA PtrsIds ==
    ASSUME NEW m, NEW S
    PROVE  PtrIds(Ptrs(m, S)) = {m[t].id : t \in S}
BY PointerId DEF PtrIds, Ptrs

(* What FingerStream says of a phone and a frame: a lift, a landing, a     *)
(* gesture's start or end.                                                 *)
LiftTo(known, next, F) ==
    \E K \in SUBSET {x \in known : x.id \notin PtrIds(F)} :
        next = {f \in F : f.id \in PtrIds(known)} \cup K
LandTo(known, next, F) ==
    \E f \in F :
        /\ {x \in known : x.id \notin PtrIds(F)} = {} /\ f.id \notin PtrIds(known)
        /\ next = {g \in F : g.id \in PtrIds(known) \cup {f.id}}

OnlyTo(next, F) == next = {} \/ \E f \in F : next = {f}

(* The fingers of A stay or move; those of K have yet to lift.             *)
LEMMA LiftShape ==
    ASSUME NEW c, NEW A \in SUBSET Down(c), NEW known, NEW K \in SUBSET known,
           \A t \in Down(c) : c[t].id \in PtrIds(known) <=> t \in A,
           \A x \in K : \A t \in Down(c) : x.id # c[t].id
    PROVE  LiftTo(known, Ptrs(c, A) \cup K, Ptrs(c, Down(c)))
<1>1. \A t \in Down(c) : Pointer(c[t]).id = c[t].id
  BY PointerId
<1>2. ASSUME NEW f \in Ptrs(c, Down(c)), f.id \in PtrIds(known) PROVE f \in Ptrs(c, A)
  BY <1>1, <1>2 DEF Ptrs
<1>3. ASSUME NEW f \in Ptrs(c, A)
      PROVE  f \in Ptrs(c, Down(c)) /\ f.id \in PtrIds(known)
  BY <1>1 DEF Ptrs
<1>4. \A x \in K : x.id \notin PtrIds(Ptrs(c, Down(c)))
  BY PtrsIds
<1>5. {f \in Ptrs(c, Down(c)) : f.id \in PtrIds(known)} = Ptrs(c, A)
  BY <1>2, <1>3
<1> QED BY <1>4, <1>5 DEF LiftTo

(* The finger of slot s lands beside those of A.                           *)
LEMMA LandShape ==
    ASSUME NEW c, Distinct(c), NEW A \in SUBSET Down(c), NEW s \in Down(c), s \notin A,
           NEW known, PtrIds(known) = {c[t].id : t \in A}
    PROVE  LandTo(known, Ptrs(c, A \cup {s}), Ptrs(c, Down(c)))
<1>1. \A t \in Down(c) : Pointer(c[t]).id = c[t].id
  BY PointerId
<1>2. ASSUME NEW x \in known PROVE x.id \in PtrIds(Ptrs(c, Down(c)))
  <2>1. x.id \in {c[t].id : t \in A}
    BY DEF PtrIds
  <2> QED BY <2>1, PtrsIds
<1>3. Pointer(c[s]) \in Ptrs(c, Down(c)) /\ Pointer(c[s]).id \notin PtrIds(known)
  BY <1>1 DEF Ptrs, Distinct
<1>4. ASSUME NEW f \in Ptrs(c, Down(c)), f.id \in PtrIds(known) \cup {c[s].id}
      PROVE  f \in Ptrs(c, A \cup {s})
  <2>1. PICK t \in Down(c) : f = Pointer(c[t])
    BY DEF Ptrs
  <2>2. PICK r \in A \cup {s} : c[t].id = c[r].id
    BY <1>1, <1>4, <2>1
  <2>3. t = r
    BY <2>2 DEF Distinct
  <2> QED BY <2>1, <2>2, <2>3 DEF Ptrs
<1>5. ASSUME NEW f \in Ptrs(c, A \cup {s})
      PROVE  f \in Ptrs(c, Down(c)) /\ f.id \in PtrIds(known) \cup {c[s].id}
  BY <1>1 DEF Ptrs
<1>6. Pointer(c[s]).id = c[s].id
  BY <1>1
<1>7. {f \in Ptrs(c, Down(c)) : f.id \in PtrIds(known) \cup {Pointer(c[s]).id}}
        = Ptrs(c, A \cup {s})
  BY <1>4, <1>5, <1>6
<1>8. {x \in known : x.id \notin PtrIds(Ptrs(c, Down(c)))} = {}
  BY <1>2
<1> QED BY <1>3, <1>7, <1>8 DEF LandTo

(* A finger that is gone is in no slot of the frame.                       *)
LEMMA FallenGone ==
    ASSUME NEW p \in MtState, NEW c \in MtState, Distinct(p), Unseen(p, c),
           NEW s \in Falling(p, c), NEW t \in Down(c)
    PROVE  p[s].id # c[t].id
<1>1. s \in Down(p) /\ s \notin Survivors(p, c)
  BY Partition
<1>2. CASE t \in Rising(p, c)
  BY <1>1, <1>2 DEF Unseen
<1>3. CASE t \in Survivors(p, c)
  BY <1>1, <1>3, Partition DEF Distinct
<1> QED BY <1>2, <1>3, Partition

LEMMA UpLifts ==
    ASSUME NEW p \in MtState, NEW c \in MtState, Distinct(p), Unseen(p, c),
           NEW k \in 0..(Ups(p, c) - 1)
    PROVE  LiftTo(After(p, c, k), After(p, c, k + 1), Ptrs(c, Down(c)))
<1> DEFINE up == Falling(p, c)
           sv == Survivors(p, c)
           s == Nth(up, k + 1)
           later == {t \in up : t > s}
           known == After(p, c, k)
           next == After(p, c, k + 1)
           K == IF sv = {} THEN {} ELSE Ptrs(p, later)
<1>1. Ups(p, c) \in Nat /\ up \in SUBSET Slots /\ k \in 0..(Cardinality(up) - 1)
  BY EventsAre, Partition DEF Ups
<1>2. /\ s \in up
      /\ k = 0 => up = {s} \cup later
      /\ k > 0 => {t \in up : t > Nth(up, k)} = {s} \cup later
  BY <1>1, Remaining
<1>3. /\ Down(p) = up \cup sv /\ Down(c) = Rising(p, c) \cup sv
      /\ \A t \in sv : p[t].id = c[t].id
  BY Partition
<1>4. next = IF sv = {} THEN {} ELSE Ptrs(c, sv) \cup Ptrs(p, later)
  <2>1. k + 1 # 0 /\ k + 1 <= Ups(p, c)
    BY <1>1
  <2> QED BY <2>1 DEF After, Lifted
<1>5. /\ k = 0 => known = Ptrs(p, up \cup sv)
      /\ k > 0 => known = IF sv = {} THEN {} ELSE Ptrs(c, sv) \cup Ptrs(p, {s} \cup later)
  <2>1. k > 0 => k # 0 /\ k <= Ups(p, c)
    BY <1>1
  <2>2. k > 0 => known = Lifted(p, c, k)
    BY <2>1 DEF After
  <2> QED BY <1>2, <1>3, <2>2 DEF After, Lifted
<1> HIDE DEF known, next
<1>6. /\ k = 0 => PtrIds(known) = {p[t].id : t \in up \cup sv}
      /\ k > 0 => PtrIds(known) = IF sv = {} THEN {}
                                  ELSE {p[t].id : t \in sv \cup {s} \cup later}
  <2>1. CASE k = 0
    BY <1>5, <2>1, PtrsIds
  <2>2. CASE k > 0 /\ sv = {}
    BY <1>5, <2>2 DEF PtrIds
  <2>3. CASE k > 0 /\ sv # {}
    <3>1. PtrIds(known) = PtrIds(Ptrs(c, sv)) \cup PtrIds(Ptrs(p, {s} \cup later))
      BY <1>5, <2>3 DEF PtrIds
    <3>2. PtrIds(known) = {c[t].id : t \in sv} \cup {p[t].id : t \in {s} \cup later}
      BY <3>1, PtrsIds
    <3> QED BY <1>3, <2>3, <3>2
  <2> QED BY <1>1, <2>1, <2>2, <2>3
<1>7. ASSUME NEW t \in Down(c) PROVE c[t].id \in PtrIds(known) <=> t \in sv
  <2>1. CASE t \in sv
    BY <1>1, <1>3, <1>6, <2>1
  <2>2. CASE t \notin sv
    <3>1. t \in Rising(p, c)
      BY <1>3, <2>2
    <3>2. \A r \in up \cup sv : c[t].id # p[r].id
      BY <1>3, <3>1 DEF Unseen
    <3>3. {s} \cup later \subseteq up
      BY <1>2
    <3> QED BY <1>1, <1>6, <2>2, <3>2, <3>3
  <2> QED BY <2>1, <2>2
<1>8. \A x \in K : \A t \in Down(c) : x.id # c[t].id
  BY FallenGone, PointerId DEF Ptrs
<1>9. K \in SUBSET known
  <2>1. Ptrs(p, later) \subseteq Ptrs(p, up \cup sv)
    BY DEF Ptrs
  <2>2. Ptrs(p, later) \subseteq Ptrs(p, {s} \cup later)
    BY DEF Ptrs
  <2>3. CASE k = 0
    BY <1>5, <2>1, <2>3
  <2>4. CASE k > 0
    BY <1>5, <2>2, <2>4
  <2> QED BY <1>1, <2>3, <2>4
<1>10. next = Ptrs(c, sv) \cup K
  BY <1>4 DEF Ptrs
<1> HIDE DEF K, sv
<1>11. sv \in SUBSET Down(c)
  BY <1>3 DEF sv
<1>12. LiftTo(known, Ptrs(c, sv) \cup K, Ptrs(c, Down(c)))
  BY <1>7, <1>8, <1>9, <1>11, LiftShape
<1> QED BY <1>10, <1>12 DEF known, next

LEMMA DownLands ==
    ASSUME NEW p \in MtState, NEW c \in MtState, Distinct(c),
           NEW k \in 0..(Downs(p, c) - 1)
    PROVE  LandTo(After(p, c, Ups(p, c) + k), After(p, c, Ups(p, c) + k + 1), Ptrs(c, Down(c)))
<1> DEFINE u == Ups(p, c)
           dn == Rising(p, c)
           sv == Survivors(p, c)
           s == Nth(dn, k + 1)
           A == sv \cup {t \in dn : k > 0 /\ t <= Nth(dn, k)}
           known == After(p, c, u + k)
           next == After(p, c, u + k + 1)
<1>1. /\ u \in Nat /\ Downs(p, c) \in Nat /\ Downs(p, c) = Cardinality(dn) /\ dn \in SUBSET Slots
      /\ k \in 0..(Cardinality(dn) - 1)
  BY EventsAre, Partition DEF Downs
<1>2. /\ s \in dn
      /\ k = 0 => {t \in dn : t <= s} = {s}
      /\ k > 0 => {t \in dn : t <= s} = {s} \cup {t \in dn : t <= Nth(dn, k)}
      /\ k > 0 => ~(s <= Nth(dn, k))
  BY <1>1, Remaining
<1>3. /\ Falling(p, c) \in SUBSET Slots
      /\ Down(p) = Falling(p, c) \cup sv /\ Down(c) = dn \cup sv /\ dn \cap sv = {}
      /\ \A t \in sv : p[t].id = c[t].id
  BY Partition
<1>4. next = Ptrs(c, sv \cup {t \in dn : t <= s})
  <2>1. u + k + 1 # 0 /\ ~(u + k + 1 <= u) /\ u + k + 1 <= u + Downs(p, c) /\ (u + k + 1) - u = k + 1
    BY <1>1
  <2> QED BY <2>1 DEF After, Landed
<1>5. sv \cup {t \in dn : t <= s} = A \cup {s}
  BY <1>1, <1>2
<1>6. PtrIds(known) = {c[t].id : t \in A}
  <2>1. CASE k > 0
    <3>1. u + k # 0 /\ ~(u + k <= u) /\ u + k <= u + Downs(p, c) /\ (u + k) - u = k
      BY <1>1, <2>1
    <3>2. known = Ptrs(c, sv \cup {t \in dn : t <= Nth(dn, k)})
      BY <3>1 DEF After, Landed
    <3>3. A = sv \cup {t \in dn : t <= Nth(dn, k)}
      BY <2>1
    <3> QED BY <3>2, <3>3, PtrsIds
  <2>2. CASE k = 0 /\ u = 0
    <3>1. known = Ptrs(p, Down(p))
      BY <2>2 DEF After
    <3>2. Falling(p, c) = {}
      BY <1>3, <2>2, SlotsFinite, FS_EmptySet DEF Ups
    <3>3. Down(p) = sv /\ A = sv
      BY <1>3, <2>2, <3>2
    <3>4. PtrIds(known) = {p[t].id : t \in sv}
      BY <3>1, <3>3, PtrsIds
    <3> QED BY <1>3, <3>3, <3>4
  <2>3. CASE k = 0 /\ u # 0
    <3>1. u + k = u /\ u <= u
      BY <1>1, <2>3
    <3>2. known = Lifted(p, c, u)
      BY <2>3, <3>1 DEF After
    <3>3. {t \in Falling(p, c) : t > Nth(Falling(p, c), u)} = {}
      <4>1. Falling(p, c) # {}
        BY <2>3, FS_EmptySet DEF Ups
      <4> QED BY <1>3, <4>1, LastPlace DEF Ups
    <3>4. known = IF sv = {} THEN {} ELSE Ptrs(c, sv) \cup Ptrs(p, {})
      BY <3>2, <3>3 DEF Lifted
    <3>5. known = Ptrs(c, sv)
      BY <3>4 DEF Ptrs
    <3>6. A = sv
      BY <2>3
    <3> QED BY <3>5, <3>6, PtrsIds
  <2> QED BY <1>1, <2>1, <2>2, <2>3
<1>7. s \notin A /\ s \in Down(c) /\ A \in SUBSET Down(c)
  BY <1>2, <1>3
<1> HIDE DEF known, next, A, s
<1>8. LandTo(known, Ptrs(c, A \cup {s}), Ptrs(c, Down(c)))
  BY <1>6, <1>7, LandShape
<1>9. next = Ptrs(c, A \cup {s})
  BY <1>4, <1>5 DEF s
<1> QED BY <1>8, <1>9 DEF known, next

LEMMA MoveLifts ==
    ASSUME NEW p \in MtState, NEW c \in MtState, Moved(p, c)
    PROVE  LiftTo(After(p, c, 0), After(p, c, 1), Ptrs(c, Down(c)))
<1> DEFINE known == After(p, c, 0)
           sv == Survivors(p, c)
<1>1. Down(p) = sv /\ Down(c) = sv /\ \A t \in sv : p[t].id = c[t].id
  <2>1. Falling(p, c) = {} /\ Rising(p, c) = {}
    BY DEF Moved
  <2>2. /\ Down(p) = Falling(p, c) \cup sv /\ Down(c) = Rising(p, c) \cup sv
        /\ \A t \in sv : p[t].id = c[t].id
    BY Partition
  <2> QED BY <2>1, <2>2
<1>2. Ups(p, c) = 0 /\ Downs(p, c) = 0
  BY EventsAre
<1>3. After(p, c, 1) = Ptrs(c, Down(c)) /\ known = Ptrs(p, sv)
  BY <1>1, <1>2 DEF After
<1>4. PtrIds(known) = {c[t].id : t \in Down(c)}
  BY <1>1, <1>3, PtrsIds
<1> HIDE DEF known
<1>5. \A t \in Down(c) : c[t].id \in PtrIds(known) <=> t \in Down(c)
  BY <1>4
<1>6. LiftTo(known, Ptrs(c, Down(c)) \cup {}, Ptrs(c, Down(c)))
  BY <1>5, LiftShape
<1> QED BY <1>3, <1>6 DEF known

(* Every event takes a phone that is in step on as FingerStream allows.    *)
LEMMA EventTells ==
    ASSUME NEW p \in MtState, NEW c \in MtState, Distinct(p), Distinct(c), Unseen(p, c),
           NEW k \in Nat, k < Len(Events(p, c))
    PROVE  \/ LiftTo(After(p, c, k), After(p, c, k + 1), Ptrs(c, Down(c)))
           \/ LandTo(After(p, c, k), After(p, c, k + 1), Ptrs(c, Down(c)))
<1> DEFINE u == Ups(p, c)
           d == Downs(p, c)
           n == Len(Events(p, c))
<1>1. /\ u \in Nat /\ d \in Nat /\ n = u + d + (IF Moved(p, c) THEN 1 ELSE 0)
      /\ Moved(p, c) => u = 0 /\ d = 0
  BY EventsAre
<1> HIDE DEF u, d, n
<1>2. CASE k < u
  <2>1. k \in 0..(u - 1)
    BY <1>1, <1>2
  <2> QED BY <2>1, UpLifts DEF u
<1>3. CASE ~(k < u) /\ k < u + d
  <2>1. PICK j \in Nat : j = k - u
    BY <1>1, <1>3
  <2>2. j \in 0..(d - 1) /\ k = u + j /\ k + 1 = u + j + 1
    BY <1>1, <1>3, <2>1
  <2> QED BY <2>2, DownLands DEF u, d
<1>4. CASE ~(k < u + d)
  <2>1. Moved(p, c) /\ k = 0 /\ k + 1 = 1
    BY <1>1, <1>4 DEF n
  <2> QED BY <2>1, MoveLifts
<1> QED BY <1>1, <1>2, <1>3, <1>4

(* One that starts or ends a gesture leaves one finger of the frame, or    *)
(* none.                                                                   *)
LEMMA RestartTells ==
    ASSUME NEW p \in MtState, NEW c \in MtState, Distinct(p), Distinct(c),
           NEW k \in Nat, k < Len(Events(p, c)), NEW known,
           Events(p, c)[k + 1].action \in {"DOWN", "UP"}
    PROVE  OnlyTo(Received(known, Events(p, c)[k + 1]), Ptrs(c, Down(c)))
<1> DEFINE e == Events(p, c)[k + 1]
           u == Ups(p, c)
           d == Downs(p, c)
<1>1. /\ u \in Nat /\ d \in Nat /\ Len(Events(p, c)) = u + d + (IF Moved(p, c) THEN 1 ELSE 0)
      /\ \A i \in 1..u : Events(p, c)[i] = UpEvent(p, c, Nth(Falling(p, c), i))
      /\ Moved(p, c) => u = 0 /\ d = 0 /\ Events(p, c)[1] = MoveEvent(c)
  BY EventsAre
<1>2. CASE e.action = "UP"
  BY <1>2, ReceivedSingle DEF OnlyTo
<1>3. CASE e.action = "DOWN"
  <2>1. ~(k < u)
    <3>1. SUFFICES ASSUME k < u PROVE FALSE
      OBVIOUS
    <3>2. k + 1 \in 1..u
      BY <1>1, <3>1
    <3>3. e = UpEvent(p, c, Nth(Falling(p, c), k + 1))
      BY <1>1, <3>2
    <3>4. PICK x : x = Nth(Falling(p, c), k + 1)
      OBVIOUS
    <3>5. UpEvent(p, c, x).action \in {"UP", "POINTER_UP"}
      BY UpAction
    <3>6. e = UpEvent(p, c, x)
      BY <3>3, <3>4
    <3> HIDE DEF e
    <3> QED BY <1>3, <3>5, <3>6
  <2>2. ~Moved(p, c) \/ k # 0
    <3>1. Moved(p, c) => MoveEvent(c).action = "MOVE"
      BY MoveDelivered
    <3>2. Moved(p, c) /\ k = 0 => e = MoveEvent(c)
      BY <1>1
    <3> HIDE DEF e
    <3> QED BY <1>3, <3>1, <3>2
  <2>3. k + 1 # 0 /\ ~(k + 1 <= u) /\ k + 1 <= u + d
    <3> HIDE DEF u, d
    <3> QED BY <1>1, <2>1, <2>2
  <2>4. After(p, c, k + 1) = Landed(p, c, (k + 1) - u)
    BY <2>3 DEF After
  <2>5. Received(known, e) = After(p, c, k + 1) /\ Received(known, e) = {Pointer(Lead(e))}
    BY <1>3, Delivered, ReceivedSingle
  <2>6. Landed(p, c, (k + 1) - u) \subseteq Ptrs(c, Down(c))
    BY Partition DEF Landed, Ptrs
  <2> QED BY <2>4, <2>5, <2>6 DEF OnlyTo
<1> QED BY <1>2, <1>3

LEMMA FrameSentIs ==
    ASSUME alive
    PROVE  FrameSent = Ptrs(g_prev, Down(g_prev))
BY DEF FrameSent, Pointers, Ptrs

(* An event that arrives or not is a step of FingerStream.                 *)
LEMMA SendTells ==
    ASSUME TouchInv, NEW ok \in BOOLEAN, send_event(ok)
    PROVE  Stream!Tell
<1>1. rpc = "read" /\ todo # <<>> /\ UNCHANGED <<rpc, alive, g_prev>> /\ alive
  BY DEF TouchInv, send_event, Threads, reader, life
<1>2. PICK p \in MtState : Distinct(p) /\ \E k \in Nat : Rest(p, k)
  BY <1>1 DEF TouchInv, Delivering
<1>3. PICK k \in Nat : Rest(p, k)
  BY <1>2
<1>4. PICK c \in MtState : c = g_prev /\ c = g_prev' /\ Distinct(c)
  BY <1>1 DEF TouchInv, TypeOK, Threads, Numbered
<1> DEFINE E == Events(p, c)
           S == FrameEvents(p, c)
           F == Ptrs(c, Down(c))
           e == Head(todo)
<1>5. /\ k \in 0..Len(E) /\ todo \in Seq(S) /\ Len(todo) = Len(E) - k /\ Unseen(p, c)
      /\ \A i \in 1..Len(todo) : todo[i] = E[k + i]
      /\ synced => phone = After(p, c, k)
  BY <1>3, <1>4 DEF Rest
<1>6. Len(E) \in Nat
  <2>1. E \in Seq(S)
    BY EventsAre
  <2> HIDE DEF E, S
  <2> QED BY <2>1, LenProperties
<1> HIDE DEF E, S
<1>7. Len(Tail(todo)) = Len(todo) - 1 /\ e = todo[1] /\ Len(todo) \in Nat \ {0}
  BY <1>1, <1>5, HeadTailProperties, EmptySeq, LenProperties
<1>8. k < Len(E) /\ e = E[k + 1]
  <2>1. 1 \in 1..Len(todo)
    BY <1>7
  <2> QED BY <1>5, <1>6, <1>7, <2>1
<1>9. todo' = <<>> => k + 1 = Len(E)
  <2>1. todo' = <<>> => Len(Tail(todo)) = 0
    BY EmptySeq DEF send_event
  <2> QED BY <1>5, <1>6, <1>7, <2>1
<1>10. FrameSent = F /\ FrameSent' = F
  <2>1. FrameSent = F
    BY <1>1, <1>4, FrameSentIs
  <2>2. FrameSent' = FrameSent
    BY <1>1 DEF FrameSent, Pointers, Down
  <2> QED BY <2>1, <2>2
<1>11. /\ phone' = IF ok THEN Received(phone, e) ELSE phone
       /\ synced' = IF ok THEN synced \/ e.action \in {"DOWN", "UP"} ELSE FALSE
  BY DEF send_event
<1> HIDE DEF e
<1>12. ASSUME synced' PROVE ok /\ phone' = Received(phone, E[k + 1]) /\ phone' = After(p, c, k + 1)
  <2>1. ok /\ phone' = Received(phone, E[k + 1])
    BY <1>8, <1>11, <1>12
  <2>2. phone = After(p, c, k) \/ E[k + 1].action \in {"DOWN", "UP"}
    BY <1>5, <1>8, <1>11, <1>12, <2>1
  <2>3. Received(phone, E[k + 1]) = After(p, c, k + 1)
    BY <1>2, <1>4, <1>8, <2>2, Delivered DEF E
  <2> QED BY <2>1, <2>3
<1>13. synced' /\ ~(todo' # <<>>) => phone' = F
  BY <1>2, <1>9, <1>12, AllDelivered DEF E
<1>14. CASE synced /\ synced'
  <2>1. phone = After(p, c, k) /\ phone' = After(p, c, k + 1)
    BY <1>5, <1>12, <1>14
  <2>2. LiftTo(phone, phone', F) \/ LandTo(phone, phone', F)
    BY <1>2, <1>4, <1>5, <1>8, <2>1, EventTells DEF E
  <2>3. \/ \E K \in SUBSET Stream!Gone : Stream!Lift(K)
        \/ \E f \in FrameSent : Stream!Land(f)
    BY <1>10, <2>2
    DEF LiftTo, LandTo, PtrIds, Stream!Gone, Stream!Lift, Stream!Land, Stream!Placed, Stream!IdsOf
  <2>4. synced' /\ ~(todo' # <<>>) => phone' = FrameSent
    BY <1>10, <1>13
  <2>5. (todo' # <<>>) \in BOOLEAN /\ FrameSent' = FrameSent
    BY <1>10
  <2> QED BY <1>1, <1>14, <2>3, <2>4, <2>5, Zenon DEF Stream!Tell
<1>15. CASE ~synced /\ synced'
  <2>1. E[k + 1].action \in {"DOWN", "UP"}
    BY <1>8, <1>11, <1>15
  <2>2. phone' = {} \/ \E f \in F : phone' = {f}
    <3>1. OnlyTo(Received(phone, E[k + 1]), F)
      BY <1>2, <1>4, <1>8, <2>1, RestartTells DEF E
    <3>2. phone' = Received(phone, E[k + 1])
      BY <1>12, <1>15
    <3> QED BY <3>1, <3>2 DEF OnlyTo
  <2>3. phone' = {} \/ \E f \in FrameSent : phone' = {f}
    BY <1>10, <2>2
  <2>4. synced' /\ ~(todo' # <<>>) => phone' = FrameSent
    BY <1>10, <1>13
  <2>5. (todo' # <<>>) \in BOOLEAN /\ FrameSent' = FrameSent
    BY <1>10
  <2> QED BY <1>1, <1>15, <2>3, <2>4, <2>5, Zenon DEF Stream!Tell
<1>16. CASE ~synced'
  <2>1. synced => phone' = phone
    BY <1>11, <1>16
  <2>2. phone' \subseteq [id : Ids, px : Nat]
    BY SendInv DEF TouchInv, TypeOK
  <2> QED BY <1>1, <1>10, <1>16, <2>1, <2>2 DEF Stream!Tell
<1> QED BY <1>14, <1>15, <1>16

(* A frame is a step of FingerStream.                                      *)
LEMMA FrameReports ==
    ASSUME TouchInv, TouchInv', rpc = "read", todo = <<>>, alive, alive',
           NEW c \in MtState, Distinct(c), touch_on_frame(c), UNCHANGED <<phone, synced>>
    PROVE  Stream!Report
<1> DEFINE F == Ptrs(c, Down(c))
<1>1. g_prev' = c /\ todo' = Events(g_prev, c)
  BY DEF touch_on_frame
<1>2. FrameSent' = F
  BY <1>1 DEF FrameSent, Pointers, Ptrs, Down
<1>3. F \subseteq [id : Ids, px : Nat]
  BY DownTouched, PointerTyped DEF Ptrs
<1>4. \A f, g \in F : f.id = g.id => f = g
  BY PointerId DEF Ptrs, Distinct
<1>5. ASSUME synced, todo' = <<>> PROVE phone = F
  <2>1. PICK o \in MtState : o = g_prev
    BY DEF TouchInv, TypeOK
  <2>2. Events(o, c) = <<>>
    BY <1>1, <1>5, <2>1
  <2>3. After(o, c, 0) = F
    BY <2>2, AllDelivered, EmptySeq
  <2>4. phone = Ptrs(o, Down(o))
    BY <1>5, <2>1, TouchInvFollows DEF PhoneFollows, Ptrs, Pointers
  <2> QED BY <2>3, <2>4 DEF After
<1> QED BY <1>2, <1>3, <1>4, <1>5 DEF Stream!Report

(* Every other step leaves the stream alone, but for the end of the        *)
(* session.                                                                *)
LEMMA JoinRestarts ==
    ASSUME TouchInv, Join
    PROVE  Stream!Restart
<1>1. todo = <<>> /\ todo' = <<>> /\ ~alive' /\ phone' = {} /\ synced'
  BY DEF TouchInv, Threads, Join, sender
<1>2. FrameSent' = {}
  BY <1>1 DEF FrameSent
<1> QED BY <1>1, <1>2 DEF Stream!Restart

LEMMA CreateStutters ==
    ASSUME TouchInv, NEW ok \in BOOLEAN, touch_post_aap_create_session(ok)
    PROVE  UNCHANGED Stream!streamVars
<1>1. ~alive /\ UNCHANGED <<todo, phone, synced>> /\ g_prev' = init_state
  BY DEF touch_post_aap_create_session, remote, touch_send_reset
<1>2. FrameSent = {}
  BY <1>1 DEF FrameSent
<1>3. Down(g_prev)' = {}
  BY <1>1, InitStateShape DEF Down
<1>4. FrameSent' = {}
  BY <1>3 DEF FrameSent, Pointers
<1> QED BY <1>1, <1>2, <1>4 DEF Stream!streamVars

LEMMA OthersStutter ==
    ASSUME UNCHANGED <<alive, sender, remote>>
    PROVE  UNCHANGED Stream!streamVars
BY DEF Stream!streamVars, FrameSent, Pointers, Down, sender, remote

(* However many fingers land, lift, move and replace each other in one     *)
(* frame, the events sent take the phone through it in order: lifts, then  *)
(* landings one by one, every finger that stays in its place, and a phone  *)
(* that missed an event is in step again with the next DOWN or UP          *)
(* (touch_send.cpp:171-306).                                               *)
THEOREM ImplementsFingerStream == Spec => FingerStreamSpec
<1>1. Init => Stream!StreamInit
  <2> SUFFICES ASSUME Init PROVE Stream!StreamInit
    OBVIOUS
  <2>1. FrameSent = {} /\ phone = {} /\ synced = TRUE /\ todo = <<>>
    BY DEF Init, FrameSent
  <2> QED BY <2>1 DEF Stream!StreamInit
<1>2. TouchInv /\ [Next]_vars => [Stream!StreamNext]_(Stream!streamVars)
  <2> SUFFICES ASSUME TouchInv, [Next]_vars
               PROVE  Stream!StreamNext \/ UNCHANGED Stream!streamVars
    OBVIOUS
  <2> USE DEF Stream!StreamNext
  <2>1. CASE \E ok \in BOOLEAN : touch_post_aap_create_session(ok)
    BY <2>1, CreateStutters
  <2>2. CASE touch_pre_aap_destroy_session
    BY <2>2, OthersStutter DEF touch_pre_aap_destroy_session
  <2>3. CASE Join
    BY <2>3, JoinRestarts
  <2>4. CASE Reader
    <3>1. CASE \E ok \in BOOLEAN : open_touch_device(ok)
      BY <3>1, OthersStutter DEF open_touch_device, life
    <3>2. CASE ReaderExit
      BY <3>2, OthersStutter DEF ReaderExit, life
    <3>3. CASE \E ok \in BOOLEAN : send_event(ok)
      BY <3>3, SendTells
    <3> QED BY <2>4, <3>1, <3>2, <3>3 DEF Reader
  <2>5. CASE ReaderExit
    BY <2>5, OthersStutter DEF ReaderExit, life
  <2>6. ASSUME NEW q \in Frames, Unread(q) PROVE UNCHANGED Stream!streamVars
    BY <2>6, OthersStutter DEF Unread, life
  <2>7. ASSUME NEW q \in Frames, SYN_REPORT(q) PROVE Stream!Report
    <3>1. /\ rpc = "read" /\ todo = <<>> /\ cur' = Tracked(q) /\ touch_on_frame(cur')
          /\ UNCHANGED <<alive, rpc, phone, synced>>
      BY <2>7 DEF SYN_REPORT, life, remote
    <3>2. alive /\ alive'
      BY <3>1 DEF TouchInv, Threads
    <3>3. PICK c \in MtState : c = cur' /\ Distinct(c)
      BY <3>1, TrackedShape DEF TouchInv
    <3> QED BY <3>1, <3>2, <3>3, TouchStep, FrameReports
  <2>8. ASSUME NEW q \in Frames, SYN_DROPPED(q) PROVE Stream!Report
    <3>1. /\ rpc = "read" /\ todo = <<>> /\ touch_on_frame(init_state)
          /\ UNCHANGED <<alive, rpc, phone, synced>>
      BY <2>8 DEF SYN_DROPPED, life, remote
    <3>2. alive /\ alive'
      BY <3>1 DEF TouchInv, Threads
    <3> QED BY <3>1, <3>2, InitStateShape, TouchStep, FrameReports
  <2>9. CASE UNCHANGED vars
    BY <2>9, OthersStutter DEF vars, life
  <2> QED BY <2>1, <2>2, <2>3, <2>4, <2>5, <2>6, <2>7, <2>8, <2>9 DEF Next
<1> QED BY <1>1, <1>2, TouchInvariant, PTL
  DEF Spec, FingerStreamSpec, Stream!StreamSpec

-----------------------------------------------------------------------------
(* touch_pre_aap_destroy_session joins the reader without a limit          *)
(* (touch.cpp:292-313).  What it can wait for: the steps the reader has    *)
(* left once the stop descriptor is raised, which are the events of the    *)
(* frame it is sending, and leaving the loop or the wait for the device.   *)
ReaderStepsLeft ==
    CASE rpc = "open" -> 1
      [] rpc = "read" -> Len(todo) + 1
      [] OTHER        -> 0

Stopping == lpc = "join" => stop

LEMMA StoppingStep == Stopping /\ [Next]_vars => Stopping'
<1> SUFFICES ASSUME Stopping, [Next]_vars PROVE Stopping'
  OBVIOUS
<1> USE DEF Stopping
<1>1. CASE \/ \E ok \in BOOLEAN : touch_post_aap_create_session(ok)
           \/ touch_pre_aap_destroy_session \/ Join
  <2>1. lpc' # "join" \/ stop'
    BY <1>1 DEF touch_post_aap_create_session, touch_pre_aap_destroy_session, Join
  <2> QED BY <2>1
<1>2. CASE Reader \/ ReaderExit
  BY <1>2 DEF Reader, ReaderExit, open_touch_device, send_event, life
<1>3. CASE \E q \in Frames : Unread(q) \/ SYN_REPORT(q) \/ SYN_DROPPED(q)
  BY <1>3 DEF Unread, SYN_REPORT, SYN_DROPPED, life
<1>4. CASE UNCHANGED vars
  BY <1>4 DEF vars, life
<1> QED BY <1>1, <1>2, <1>3, <1>4 DEF Next

(* A frame gives at most two events for a slot: a finger replaced within   *)
(* its slot lifts and lands (touch_send.cpp:219-290).                      *)
LEMMA EventsBounded ==
    ASSUME NEW p \in MtState, NEW c \in MtState
    PROVE  Len(Events(p, c)) \in 0..(2 * MaxFingers)
<1>1. Falling(p, c) \in SUBSET Slots /\ Rising(p, c) \in SUBSET Slots
  BY Partition
<1>2. Ups(p, c) <= MaxFingers /\ Downs(p, c) <= MaxFingers
  BY <1>1, SlotsFinite DEF Ups, Downs
<1> DEFINE u == Ups(p, c)
           d == Downs(p, c)
           n == Len(Events(p, c))
<1>3. /\ u \in Nat /\ d \in Nat /\ n = u + d + (IF Moved(p, c) THEN 1 ELSE 0)
      /\ Moved(p, c) => u = 0 /\ d = 0
  BY EventsAre, Zenon
<1>4. u <= MaxFingers /\ d <= MaxFingers
  BY <1>2
<1> HIDE DEF u, d, n
<1>5. n \in 0..(2 * MaxFingers)
  <2>1. CASE Moved(p, c)
    BY <1>3, <2>1, FingerAssumption
  <2>2. CASE ~Moved(p, c)
    BY <1>3, <1>4, <2>2, FingerAssumption
  <2> QED BY <2>1, <2>2
<1> QED BY <1>5 DEF n

LEMMA WorkBounded ==
    ASSUME TouchInv, rpc = "read"
    PROVE  /\ Len(todo) \in 0..(2 * MaxFingers)
           /\ todo # <<>> => Len(Tail(todo)) = Len(todo) - 1
<1>1. PICK p \in MtState : \E k \in Nat : Rest(p, k)
  BY DEF TouchInv, Delivering
<1>2. PICK k \in Nat : Rest(p, k)
  BY <1>1
<1> DEFINE n == Len(Events(p, g_prev))
           S == FrameEvents(p, g_prev)
           l == Len(todo)
<1>3. n \in 0..(2 * MaxFingers)
  BY EventsBounded DEF TouchInv, TypeOK
<1>4. k \in 0..n /\ todo \in Seq(S) /\ l = n - k
  BY <1>2 DEF Rest
<1> HIDE DEF n, S
<1>5. todo # <<>> => Len(Tail(todo)) = Len(todo) - 1
  BY <1>4, HeadTailProperties
<1> HIDE DEF l
<1>6. l \in 0..(2 * MaxFingers)
  BY <1>3, <1>4, FingerAssumption
<1> QED BY <1>5, <1>6 DEF l

LEMMA StepsLeftBounded ==
    ASSUME TouchInv
    PROVE  ReaderStepsLeft \in 0..(2 * MaxFingers + 1)
<1>1. CASE rpc = "read"
  <2> DEFINE l == Len(todo)
  <2>1. l \in 0..(2 * MaxFingers)
    BY <1>1, WorkBounded
  <2> HIDE DEF l
  <2>2. ReaderStepsLeft = l + 1
    BY <1>1 DEF ReaderStepsLeft, l
  <2> QED BY <2>1, <2>2, FingerAssumption
<1>2. CASE rpc # "read"
  BY <1>2, FingerAssumption DEF ReaderStepsLeft
<1> QED BY <1>1, <1>2

LEMMA ReaderAdvances ==
    ASSUME TouchInv, Stopping, lpc = "join", Reader \/ ReaderExit
    PROVE  ReaderStepsLeft' \in Int /\ ReaderStepsLeft' < ReaderStepsLeft
<1>1. ASSUME NEW ok \in BOOLEAN, open_touch_device(ok)
      PROVE  ReaderStepsLeft' \in Int /\ ReaderStepsLeft' < ReaderStepsLeft
  <2>1. rpc = "open" /\ rpc' = "exit"
    BY <1>1 DEF Stopping, open_touch_device
  <2> QED BY <2>1 DEF ReaderStepsLeft
<1>2. CASE ReaderExit
  <2>1. Len(todo) \in Nat
    BY <1>2, WorkBounded DEF ReaderExit
  <2> QED BY <1>2, <2>1 DEF ReaderExit, ReaderStepsLeft
<1>3. ASSUME NEW ok \in BOOLEAN, send_event(ok)
      PROVE  ReaderStepsLeft' \in Int /\ ReaderStepsLeft' < ReaderStepsLeft
  <2>1. rpc = "read" /\ rpc' = "read" /\ todo # <<>> /\ todo' = Tail(todo)
    BY <1>3, SendShape DEF TouchInv, send_event
  <2> DEFINE l == Len(todo)
             m == Len(todo')
  <2>2. l \in Nat /\ m = l - 1
    BY <2>1, WorkBounded, FingerAssumption
  <2> HIDE DEF l, m
  <2>3. ReaderStepsLeft = l + 1 /\ ReaderStepsLeft' = m + 1
    BY <2>1 DEF ReaderStepsLeft, l, m
  <2> QED BY <2>2, <2>3
<1> QED BY <1>1, <1>2, <1>3 DEF Reader

(* Neither the panel nor the phone holds up the end of a session           *)
(* (touch.cpp:61-71, 226-313, touch_send.cpp:193-306): from the join on,   *)
(* every step of the reader uses up one of those it has left, at most two  *)
(* events for each slot and its exit, and no step of the panel gives one   *)
(* back.                                                                   *)
THEOREM StopIsBounded ==
    Spec => [][lpc = "join" /\ lpc' = "join" =>
                  /\ ReaderStepsLeft \in 0..(2 * MaxFingers + 1)
                  /\ Reader => ReaderStepsLeft' < ReaderStepsLeft
                  /\ ReaderStepsLeft' <= ReaderStepsLeft]_vars
<1> DEFINE Bounded == /\ ReaderStepsLeft \in 0..(2 * MaxFingers + 1)
                      /\ Reader => ReaderStepsLeft' < ReaderStepsLeft
                      /\ ReaderStepsLeft' <= ReaderStepsLeft
<1>1. Init => Stopping
  BY DEF Init, Stopping
<1>2. ASSUME TouchInv, Stopping, [Next]_vars, lpc = "join", lpc' = "join"
      PROVE  Bounded
  <2>1. ReaderStepsLeft \in 0..(2 * MaxFingers + 1)
    BY <1>2, StepsLeftBounded
  <2>2. ASSUME Reader \/ ReaderExit
        PROVE  ReaderStepsLeft' \in Int /\ ReaderStepsLeft' < ReaderStepsLeft
    BY <1>2, <2>2, ReaderAdvances
  <2>3. CASE Reader \/ ReaderExit
    BY <2>1, <2>2, <2>3, FingerAssumption
  <2>4. CASE ~(Reader \/ ReaderExit)
    <3>1. ASSUME NEW q \in Frames, Unread(q) \/ SYN_REPORT(q) \/ SYN_DROPPED(q)
          PROVE  rpc' = rpc /\ todo' = todo
      <4>1. stop
        BY <1>2 DEF Stopping
      <4>2. Unread(q)
        BY <3>1, <4>1 DEF SYN_REPORT, SYN_DROPPED
      <4> QED BY <4>2 DEF Unread, reader, sender
    <3>2. UNCHANGED vars => rpc' = rpc /\ todo' = todo
      BY DEF vars, reader, sender
    <3>3. rpc' = rpc /\ todo' = todo
      BY <1>2, <2>4, <3>1, <3>2 DEF Next, touch_post_aap_create_session,
         touch_pre_aap_destroy_session, Join
    <3>4. ReaderStepsLeft' = ReaderStepsLeft
      BY <3>3 DEF ReaderStepsLeft
    <3> QED BY <2>1, <2>4, <3>4, FingerAssumption
  <2> QED BY <2>3, <2>4
<1>3. TouchInv /\ Stopping /\ [Next]_vars =>
        [lpc = "join" /\ lpc' = "join" => Bounded]_vars
  BY <1>2
<1>4. Spec => []Stopping
  BY <1>1, StoppingStep, PTL DEF Spec
<1> QED BY <1>3, <1>4, TouchInvariant, PTL DEF Spec
=============================================================================
