--------------------------- MODULE HashRingProofs ----------------------------
(* Theorems about HashRing, for any nodes, virtual nodes and hash function. *)
EXTENDS HashRing, TLAPS, WellFoundedInduction

LEMMA SmallestFacts ==
    ASSUME NEW S \in SUBSET Nat, S # {}
    PROVE  Smallest(S) \in S /\ \A j \in S : Smallest(S) <= j
<1>1. \E x \in S : \A y \in S : ~ (<<y, x>> \in OpToRel(<, Nat))
  BY NatLessThanWellFounded, WFMin
<1>2. PICK x \in S : \A y \in S : ~(y < x)
  BY <1>1 DEF OpToRel
<1>3. \A y \in S : x <= y
  BY <1>2
<1> QED
  BY <1>3 DEF Smallest

\* The smallest element of a set is also that of a subset it belongs to.
LEMMA SmallestOfPart ==
    ASSUME NEW S \in SUBSET Nat, NEW T \in SUBSET S, S # {}, Smallest(S) \in T
    PROVE  Smallest(T) = Smallest(S)
<1>1. Smallest(S) \in S /\ \A j \in S : Smallest(S) <= j
  BY SmallestFacts
<1>2. Smallest(T) \in T /\ \A j \in T : Smallest(T) <= j
  BY SmallestFacts
<1>3. \A x, y \in Nat : x <= y /\ y <= x => y = x
  OBVIOUS
<1>4. Smallest(S) \in Nat /\ Smallest(T) \in Nat
  BY <1>1, <1>2
<1>5. Smallest(S) <= Smallest(T) /\ Smallest(T) <= Smallest(S)
  BY <1>1, <1>2
<1> QED
  BY <1>3, <1>4, <1>5

-----------------------------------------------------------------------------
(* get_node on any ring r *)

TakenIn(r) == {k \in Position : r[k] # None}
NotBelowIn(r, h) == {k \in TakenIn(r) : h <= k}
SlotIn(r, h) == IF NotBelowIn(r, h) # {} THEN Smallest(NotBelowIn(r, h)) ELSE Smallest(TakenIn(r))
OwnerIn(r, h) == IF TakenIn(r) = {} THEN None ELSE r[SlotIn(r, h)]

LEMMA SlotFacts ==
    ASSUME NEW r, NEW h, TakenIn(r) # {}
    PROVE  SlotIn(r, h) \in TakenIn(r)
<1>1. NotBelowIn(r, h) \in SUBSET Nat /\ TakenIn(r) \in SUBSET Nat
      /\ NotBelowIn(r, h) \subseteq TakenIn(r)
  BY PositionAssumption DEF NotBelowIn, TakenIn
<1>2. CASE NotBelowIn(r, h) # {}
  BY <1>1, <1>2, SmallestFacts DEF SlotIn
<1>3. CASE NotBelowIn(r, h) = {}
  BY <1>1, <1>3, SmallestFacts DEF SlotIn
<1> QED
  BY <1>2, <1>3

\* When entries disappear, a key whose slot is still taken keeps that slot.
LEMMA SlotStays ==
    ASSUME NEW r, NEW s, NEW h, TakenIn(s) \subseteq TakenIn(r),
           TakenIn(r) # {}, SlotIn(r, h) \in TakenIn(s)
    PROVE  SlotIn(s, h) = SlotIn(r, h)
<1>1. TakenIn(r) \in SUBSET Nat /\ NotBelowIn(r, h) \in SUBSET Nat
  BY PositionAssumption DEF NotBelowIn, TakenIn
<1>2. NotBelowIn(s, h) \in SUBSET NotBelowIn(r, h) /\ TakenIn(s) \in SUBSET TakenIn(r)
  BY DEF NotBelowIn
<1>3. CASE NotBelowIn(r, h) # {}
  <2>1. SlotIn(r, h) = Smallest(NotBelowIn(r, h)) /\ SlotIn(r, h) \in NotBelowIn(r, h)
    BY <1>1, <1>3, SmallestFacts DEF SlotIn
  <2>2. SlotIn(r, h) \in NotBelowIn(s, h)
    BY <2>1 DEF NotBelowIn
  <2>3. Smallest(NotBelowIn(s, h)) = Smallest(NotBelowIn(r, h))
    BY <1>1, <1>2, <1>3, <2>1, <2>2, SmallestOfPart
  <2> QED
    BY <2>1, <2>2, <2>3 DEF SlotIn
<1>4. CASE NotBelowIn(r, h) = {}
  <2>1. NotBelowIn(s, h) = {}
    BY <1>2, <1>4
  <2>2. Smallest(TakenIn(s)) = Smallest(TakenIn(r))
    BY <1>1, <1>2, <1>4, SmallestOfPart DEF SlotIn
  <2> QED
    BY <1>4, <2>1, <2>2 DEF SlotIn
<1> QED
  BY <1>3, <1>4

LEMMA OwnerAfterRemoval ==
    ASSUME NEW r, NEW h, NEW n, OwnerIn(r, h) # n
    PROVE  OwnerIn(WithoutNode(r, n), h) = OwnerIn(r, h)
<1> DEFINE s == WithoutNode(r, n)
<1>1. TakenIn(s) \subseteq TakenIn(r)
  BY DEF WithoutNode, TakenIn
<1>2. CASE TakenIn(r) = {}
  BY <1>1, <1>2 DEF OwnerIn
<1>3. CASE TakenIn(r) # {}
  <2>1. SlotIn(r, h) \in TakenIn(r) /\ OwnerIn(r, h) = r[SlotIn(r, h)]
    BY <1>3, SlotFacts DEF OwnerIn
  <2>2. SlotIn(r, h) \in TakenIn(s) /\ s[SlotIn(r, h)] = r[SlotIn(r, h)]
    BY <2>1 DEF WithoutNode, TakenIn
  <2> HIDE DEF s
  <2>3. SlotIn(s, h) = SlotIn(r, h)
    BY <1>1, <1>3, <2>2, SlotStays
  <2>4. OwnerIn(s, h) = OwnerIn(r, h)
    BY <2>1, <2>2, <2>3 DEF OwnerIn
  <2> QED
    BY <2>4 DEF s
<1> QED
  BY <1>2, <1>3

LEMMA OwnerAfterAddition ==
    ASSUME NEW r, NEW h, NEW n, n # None, OwnerIn(With(r, n), h) # n
    PROVE  OwnerIn(With(r, n), h) = OwnerIn(r, h)
<1> DEFINE s == With(r, n)
<1>1. TakenIn(r) \subseteq TakenIn(s)
  BY DEF With, TakenIn
<1>2. CASE TakenIn(s) = {}
  BY <1>1, <1>2 DEF OwnerIn
<1>3. CASE TakenIn(s) # {}
  <2>1. SlotIn(s, h) \in TakenIn(s) /\ OwnerIn(s, h) = s[SlotIn(s, h)]
    BY <1>3, SlotFacts DEF OwnerIn
  <2>2. SlotIn(s, h) \in TakenIn(r) /\ s[SlotIn(s, h)] = r[SlotIn(s, h)]
    BY <2>1 DEF With, TakenIn
  <2> HIDE DEF s
  <2>3. SlotIn(r, h) = SlotIn(s, h)
    BY <1>1, <1>3, <2>2, SlotStays
  <2>4. OwnerIn(s, h) = OwnerIn(r, h)
    BY <2>1, <2>2, <2>3 DEF OwnerIn
  <2> QED
    BY <2>4 DEF s
<1> QED
  BY <1>2, <1>3

-----------------------------------------------------------------------------
(* The ring and the members *)

Holds(r, S) ==
    /\ S \subseteq Member
    /\ r \in [Position -> Member \cup {None}]
    /\ \A k \in Position, n \in Member : r[k] = n <=> n \in S /\ k \in PositionsOf(n)

LEMMA OneNodePerPosition ==
    ASSUME NEW n \in Member, NEW p \in Member, NEW k \in PositionsOf(n), k \in PositionsOf(p)
    PROVE  n = p /\ k \in Position
<1>1. PICK i \in VirtualNode : k = HashOf[<<n, i>>]
  BY DEF PositionsOf
<1>2. PICK j \in VirtualNode : k = HashOf[<<p, j>>]
  BY DEF PositionsOf
<1>3. <<n, i>> \in Member \X VirtualNode /\ <<p, j>> \in Member \X VirtualNode
  OBVIOUS
<1>4. <<n, i>> = <<p, j>>
  BY <1>1, <1>2, <1>3, HashAssumption
<1> QED
  BY <1>1, <1>3, <1>4, HashAssumption

LEMMA HoldsIsExact ==
    ASSUME NEW S, NEW r, Holds(r, S)
    PROVE  r = [k \in Position |->
                  IF \E n \in S : k \in PositionsOf(n)
                  THEN CHOOSE n \in S : k \in PositionsOf(n) ELSE None]
<1>1. ASSUME NEW k \in Position
      PROVE  r[k] = IF \E n \in S : k \in PositionsOf(n)
                    THEN CHOOSE n \in S : k \in PositionsOf(n) ELSE None
  <2>1. CASE \E n \in S : k \in PositionsOf(n)
    <3> DEFINE n == CHOOSE m \in S : k \in PositionsOf(m)
    <3>1. n \in S /\ k \in PositionsOf(n)
      BY <2>1
    <3> QED
      BY <2>1, <3>1 DEF Holds
  <2>2. CASE ~ \E n \in S : k \in PositionsOf(n)
    BY <2>2 DEF Holds
  <2> QED
    BY <2>1, <2>2
<1> QED
  BY <1>1 DEF Holds

LEMMA HoldsWith ==
    ASSUME NEW S, NEW r, Holds(r, S), NEW n \in Member
    PROVE  /\ Holds(With(r, n), S \cup {n})
           /\ n \in S => With(r, n) = r
<1> DEFINE s == With(r, n)
<1>1. s \in [Position -> Member \cup {None}]
  BY DEF With, Holds
<1>2. ASSUME NEW k \in Position, NEW p \in Member
      PROVE  s[k] = p <=> p \in S \cup {n} /\ k \in PositionsOf(p)
  <2>1. CASE k \in PositionsOf(n)
    BY <2>1, OneNodePerPosition DEF With
  <2>2. CASE k \notin PositionsOf(n)
    BY <2>2 DEF With, Holds
  <2> QED
    BY <2>1, <2>2
<1>3. ASSUME n \in S
      PROVE  s = r
  BY <1>3 DEF With, Holds
<1> QED
  BY <1>1, <1>2, <1>3 DEF Holds

LEMMA HoldsWithout ==
    ASSUME NEW S, NEW r, Holds(r, S), NEW n \in Member
    PROVE  Holds(WithoutNode(r, n), S \ {n})
BY MemberAssumption DEF Holds, WithoutNode

RingInv == Holds(ring, members)

LEMMA RingInit == Init => RingInv
<1> SUFFICES ASSUME Init PROVE RingInv
  OBVIOUS
<1> DEFINE owner(k) == CHOOSE n \in First : k \in PositionsOf(n)
<1>1. ASSUME NEW k \in Position, NEW p \in First, k \in PositionsOf(p)
      PROVE  ring[k] = p
  <2>1. owner(k) \in First /\ k \in PositionsOf(owner(k))
    BY <1>1
  <2>2. owner(k) = p
    BY <1>1, <2>1, OneNodePerPosition, MemberAssumption
  <2> QED
    BY <1>1, <2>2 DEF Init
<1>2. ASSUME NEW k \in Position, ~ \E p \in First : k \in PositionsOf(p)
      PROVE  ring[k] = None
  BY <1>2 DEF Init
<1>3. ring \in [Position -> Member \cup {None}]
  BY <1>1, <1>2, MemberAssumption DEF Init
<1> QED
  BY <1>1, <1>2, <1>3, MemberAssumption DEF Init, RingInv, Holds

LEMMA RingNext == RingInv /\ [Next]_vars => RingInv'
<1> SUFFICES ASSUME RingInv, [Next]_vars PROVE RingInv'
  OBVIOUS
<1>1. ASSUME NEW n \in Member, add_node(n)
      PROVE  RingInv'
  BY <1>1, HoldsWith DEF add_node, RingInv
<1>2. ASSUME NEW n \in Member, remove_node(n)
      PROVE  RingInv'
  BY <1>2, HoldsWithout DEF remove_node, RingInv
<1>3. CASE UNCHANGED vars
  BY <1>3 DEF vars, RingInv
<1> QED
  BY <1>1, <1>2, <1>3 DEF Next

\* After any sequence of additions and removals the ring holds the virtual
\* nodes of the members, at their positions, and nothing else.
THEOREM RingIsExact == Spec => []RingHoldsTheMembers
<1>1. RingInv => RingHoldsTheMembers
  BY HoldsIsExact DEF RingInv, RingHoldsTheMembers
<1> QED
  BY <1>1, RingInit, RingNext, PTL DEF Spec

LEMMA MoveNext ==
    ASSUME RingInv, [Next]_vars, NEW h \in Position,
           OwnerIn(ring', h) # OwnerIn(ring, h)
    PROVE  \/ OwnerIn(ring', h) \in members' \ members
           \/ OwnerIn(ring, h) \notin members'
<1>1. ASSUME NEW n \in Member, add_node(n)
      PROVE  OwnerIn(ring', h) \in members' \ members
  <2>1. ring' = With(ring, n) /\ members' = members \cup {n} /\ n # None
    BY <1>1, MemberAssumption DEF add_node
  <2>2. OwnerIn(ring', h) = n
    BY <2>1, OwnerAfterAddition
  <2>3. n \notin members
    BY <2>1, HoldsWith DEF RingInv
  <2> QED
    BY <2>1, <2>2, <2>3
<1>2. ASSUME NEW n \in Member, remove_node(n)
      PROVE  OwnerIn(ring, h) \notin members'
  <2>1. ring' = WithoutNode(ring, n) /\ members' = members \ {n}
    BY <1>2 DEF remove_node
  <2>2. OwnerIn(ring, h) = n
    BY <2>1, OwnerAfterRemoval
  <2> QED
    BY <2>1, <2>2
<1>3. CASE UNCHANGED vars
  BY <1>3 DEF vars
<1> QED
  BY <1>1, <1>2, <1>3 DEF Next

\* Consistent hashing: a key changes its node only for a node that was added or
\* because its node was removed.
THEOREM KeysStayPut == Spec => OnlyNeededMoves
<1>1. ASSUME RingInv, [Next]_vars
      PROVE  [\A h \in Position : get_node(h)' # get_node(h) =>
                 \/ get_node(h)' \in members' \ members
                 \/ get_node(h) \notin members']_vars
  <2>1. \A h : get_node(h)' = OwnerIn(ring', h) /\ get_node(h) = OwnerIn(ring, h)
    BY DEF get_node, OwnerIn, SlotIn, NotBelow, NotBelowIn, Taken, TakenIn
  <2> QED
    BY <1>1, <2>1, MoveNext
<1> QED
  BY <1>1, RingInit, RingNext, PTL DEF Spec, OnlyNeededMoves

-----------------------------------------------------------------------------
(* The way round the ring *)

LEMMA SpanFacts == Span \in Nat \ {0} /\ \A k \in Position : k \in Nat /\ k < Span
<1> DEFINE top == CHOOSE k \in Position : \A j \in Position : j <= k
<1>1. top \in Position /\ \A j \in Position : j <= top
  BY RangeAssumption
<1>2. Span = top + 1
  BY DEF Span
<1> HIDE DEF top
<1> QED
  BY <1>1, <1>2, PositionAssumption

\* From a hash straight on to a position that is not below it, and over the end
\* of the ring to one that is.
LEMMA ClockwiseFacts ==
    ASSUME NEW h \in Position, NEW k \in Position
    PROVE  Clockwise(h, k) = IF h <= k THEN k - h ELSE (k + Span) - h
<1> DEFINE a == (k + Span) - h
<1>1. h \in Nat /\ k \in Nat /\ Span \in Nat \ {0} /\ h < Span /\ k < Span
  BY SpanFacts
<1>2. \A n \in Nat \ {0} : \A x \in 0..(n - 1) : x % n = x /\ (x + n) % n = x
  OBVIOUS
<1>3. CASE h <= k
  <2>1. k - h \in 0..(Span - 1) /\ a = (k - h) + Span
    BY <1>1, <1>3
  <2> QED
    BY <1>1, <1>2, <1>3, <2>1 DEF Clockwise
<1>4. CASE ~(h <= k)
  <2>1. a \in 0..(Span - 1)
    BY <1>1, <1>4
  <2> QED
    BY <1>1, <1>2, <1>4, <2>1 DEF Clockwise
<1> QED
  BY <1>3, <1>4

LEMMA SlotIsNext ==
    ASSUME NEW r, NEW h \in Position, NEW x \in TakenIn(r)
    PROVE  Clockwise(h, SlotIn(r, h)) <= Clockwise(h, x)
<1> DEFINE k == SlotIn(r, h)
<1>1. k \in TakenIn(r) /\ TakenIn(r) \subseteq Position
  BY SlotFacts DEF TakenIn
<1>2. /\ h \in Nat /\ x \in Nat /\ k \in Nat /\ Span \in Nat
      /\ h < Span /\ x < Span /\ k < Span
  BY <1>1, SpanFacts
<1>3. NotBelowIn(r, h) \in SUBSET Nat /\ TakenIn(r) \in SUBSET Nat
  BY PositionAssumption DEF NotBelowIn, TakenIn
<1>4. (h <= x \/ h <= k) => h <= k /\ (h <= x => k <= x)
  <2>1. CASE NotBelowIn(r, h) # {}
    <3>1. k \in NotBelowIn(r, h) /\ \A j \in NotBelowIn(r, h) : k <= j
      BY <1>3, <2>1, SmallestFacts DEF SlotIn
    <3> QED
      BY <3>1 DEF NotBelowIn
  <2>2. CASE NotBelowIn(r, h) = {}
    BY <1>1, <2>2 DEF NotBelowIn
  <2> QED
    BY <2>1, <2>2
<1>5. ~(h <= k) => k <= x
  <2>1. CASE NotBelowIn(r, h) # {}
    <3>1. k \in NotBelowIn(r, h)
      BY <1>3, <2>1, SmallestFacts DEF SlotIn
    <3> QED
      BY <3>1 DEF NotBelowIn
  <2>2. CASE NotBelowIn(r, h) = {}
    BY <1>3, <2>2, SmallestFacts DEF SlotIn
  <2> QED
    BY <2>1, <2>2
<1>6. /\ Clockwise(h, k) = IF h <= k THEN k - h ELSE (k + Span) - h
      /\ Clockwise(h, x) = IF h <= x THEN x - h ELSE (x + Span) - h
  BY <1>1, ClockwiseFacts
<1> HIDE DEF k
<1>7. Clockwise(h, k) <= Clockwise(h, x)
  BY <1>2, <1>4, <1>5, <1>6
<1> QED
  BY <1>7 DEF k

LEMMA HoldersOwn ==
    ASSUME RingInv
    PROVE  OwnerIsNextClockwise
<1>1. Holds(ring, members)
  BY DEF RingInv
<1>2. \A h : get_node(h) = OwnerIn(ring, h)
  BY DEF get_node, OwnerIn, SlotIn, NotBelow, NotBelowIn, Taken, TakenIn
<1>3. \A n \in members, i \in VirtualNode : HashOf[<<n, i>>] \in TakenIn(ring)
  <2> TAKE n \in members, i \in VirtualNode
  <2>1. n \in Member /\ HashOf[<<n, i>>] \in PositionsOf(n)
    BY <1>1 DEF Holds, PositionsOf
  <2>2. HashOf[<<n, i>>] \in Position
    BY <2>1, OneNodePerPosition
  <2> QED
    BY <1>1, <2>1, <2>2, MemberAssumption DEF Holds, TakenIn
<1>4. ASSUME NEW h \in Position, members = {}
      PROVE  get_node(h) = None
  <2>1. TakenIn(ring) = {}
    BY <1>1, <1>4 DEF Holds, TakenIn
  <2> QED
    BY <1>2, <2>1 DEF OwnerIn
<1>5. ASSUME NEW h \in Position, members # {}
      PROVE  \E n \in members, i \in VirtualNode :
                /\ get_node(h) = n
                /\ \A p \in members, j \in VirtualNode :
                     Clockwise(h, HashOf[<<n, i>>]) <= Clockwise(h, HashOf[<<p, j>>])
  <2> DEFINE k == SlotIn(ring, h)
  <2>1. TakenIn(ring) # {}
    BY <1>3, <1>5, RangeAssumption
  <2>2. k \in TakenIn(ring) /\ get_node(h) = ring[k]
    BY <1>2, <2>1, SlotFacts DEF OwnerIn
  <2>3. PICK n \in members : ring[k] = n /\ k \in PositionsOf(n)
    BY <1>1, <2>2 DEF Holds, TakenIn
  <2>4. PICK i \in VirtualNode : k = HashOf[<<n, i>>]
    BY <2>3 DEF PositionsOf
  <2>5. \A p \in members, j \in VirtualNode : Clockwise(h, k) <= Clockwise(h, HashOf[<<p, j>>])
    BY <1>3, SlotIsNext
  <2> HIDE DEF k
  <2> QED
    BY <2>2, <2>3, <2>4, <2>5
<1> QED
  BY <1>4, <1>5 DEF OwnerIsNextClockwise

\* A key belongs to the member whose virtual node comes first clockwise.
THEOREM KeysBelongToTheNext == Spec => []OwnerIsNextClockwise
BY HoldersOwn, RingInit, RingNext, PTL DEF Spec
=============================================================================
