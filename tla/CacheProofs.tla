----------------------------- MODULE CacheProofs -----------------------------
(* Theorems about Cache, for any addresses, data and capacities. *)
EXTENDS Cache, TLAPS, SequenceTheorems, FiniteSetTheorems

(***************************************************************************)
(* A line that is not INVALID has the data last written at its address,    *)
(* and that data was not invalidated since: nothing but a write changes    *)
(* data or makes an INVALID line anything else, and what is dropped comes  *)
(* back only by a write.                                                   *)
(***************************************************************************)
LinesTyped ==
    /\ cache \in [Address -> CacheLine \cup {None}]
    /\ current \in [Address -> Data \cup {None}]

LinesAreLastWrites ==
    \A a \in Cached : cache[a].state # "INVALID" => cache[a].data = current[a]

LineInv == LinesTyped /\ LinesAreLastWrites

\* Lines may go and change their state, if each keeps its data.
DataStays ==
    /\ current' = current
    /\ cache' \in [Address -> CacheLine \cup {None}]
    /\ \A a \in Address : cache'[a] # None =>
          /\ a \in Cached
          /\ cache'[a].data = cache[a].data
          /\ cache[a].state = "INVALID" => cache'[a].state = "INVALID"

LEMMA DataStaysKeeps ==
    ASSUME LineInv, DataStays
    PROVE  LineInv'
BY DEF LineInv, LinesTyped, LinesAreLastWrites, DataStays, Cached

LEMMA LineInit == Init => LineInv
BY DEF Init, LineInv, LinesTyped, LinesAreLastWrites, Cached

\* A line gets another state and keeps its data.
LEMMA StateSet ==
    ASSUME LineInv, NEW a \in Cached, NEW state \in CacheState, SetState(a, state)
    PROVE  /\ cache' \in [Address -> CacheLine \cup {None}]
           /\ cache'[a].state = state /\ cache'[a].data = cache[a].data
           /\ \A b \in Address \ {a} : cache'[b] = cache[b]
<1>1. cache[a] \in CacheLine /\ a \in Address
  BY DEF LineInv, LinesTyped, Cached
<1>2. cache' = [cache EXCEPT ![a] = [cache[a] EXCEPT !.state = state]]
  BY DEF SetState
<1> DEFINE line == [cache[a] EXCEPT !.state = state]
<1>3. line \in CacheLine /\ line.data = cache[a].data /\ line.state = state
  BY <1>1 DEF CacheLine
<1> HIDE DEF line
<1>4. cache' = [cache EXCEPT ![a] = line] /\ cache \in [Address -> CacheLine \cup {None}]
  BY <1>2 DEF line, LineInv, LinesTyped
<1> QED
  BY <1>1, <1>3, <1>4

\* A line that is read by a peer was MODIFIED: no INVALID line becomes OWNED.
LEMMA SnoopReadKeeps ==
    ASSUME LineInv, NEW a \in Address, SnoopRead(a)
    PROVE  LineInv'
<1>1. a \in Cached /\ cache[a].state = "MODIFIED" /\ SetState(a, "OWNED") /\ current' = current
  BY DEF SnoopRead, StateOf
<1>2. /\ cache' \in [Address -> CacheLine \cup {None}]
      /\ cache'[a].data = cache[a].data
      /\ \A b \in Address \ {a} : cache'[b] = cache[b]
  BY <1>1, StateSet DEF CacheState
<1>3. DataStays
  BY <1>1, <1>2 DEF DataStays, Cached
<1> QED
  BY <1>3, DataStaysKeeps

\* The line becomes INVALID as its data is invalidated.
LEMMA InvalidateKeeps ==
    ASSUME LineInv, NEW a \in Address, Invalidate(a)
    PROVE  LineInv'
<1>1. a \in Cached /\ SetState(a, "INVALID") /\ current' = [current EXCEPT ![a] = None]
  BY DEF Invalidate, Forget
<1>2. /\ cache' \in [Address -> CacheLine \cup {None}]
      /\ cache'[a].state = "INVALID"
      /\ \A b \in Address \ {a} : cache'[b] = cache[b]
  BY <1>1, StateSet DEF CacheState
<1>3. /\ current' \in [Address -> Data \cup {None}]
      /\ \A b \in Address \ {a} : current'[b] = current[b]
  BY <1>1 DEF LineInv, LinesTyped
<1> QED
  BY <1>2, <1>3 DEF LineInv, LinesTyped, LinesAreLastWrites, Cached

\* Line a is written and others may be dropped.
LEMMA WriteKeeps ==
    ASSUME LineInv, NEW a \in Address, NEW d \in Data, NEW line \in CacheLine,
           line.data = d, Record(a, d),
           cache' \in [Address -> CacheLine \cup {None}], cache'[a] = line,
           \A b \in Address \ {a} : cache'[b] \in {cache[b], None}
    PROVE  LineInv'
<1>1. /\ current' \in [Address -> Data \cup {None}]
      /\ current'[a] = d
      /\ \A b \in Address \ {a} : current'[b] = current[b]
  BY DEF Record, LineInv, LinesTyped
<1>2. ASSUME NEW b \in Address, cache'[b] # None
      PROVE  cache'[b].state # "INVALID" => cache'[b].data = current'[b]
  <2>1. CASE b = a
    BY <1>1, <2>1
  <2>2. CASE b # a
    BY <1>1, <1>2, <2>2 DEF LineInv, LinesAreLastWrites, Cached
  <2> QED
    BY <2>1, <2>2
<1> QED
  BY <1>1, <1>2 DEF LineInv, LinesTyped, LinesAreLastWrites, Cached

LEMMA WriteModifiedKeeps ==
    ASSUME LineInv, NEW a \in Address, NEW d \in Data, WriteModified(a, d)
    PROVE  LineInv'
<1>1. a \in Cached
  BY DEF WriteModified, StateOf
<1>2. cache \in [Address -> CacheLine \cup {None}] /\ cache[a] \in CacheLine
  BY <1>1 DEF LineInv, LinesTyped, Cached
<1> DEFINE line == WrittenLine(cache[a], d)
<1>3. line \in CacheLine /\ line.data = d
  BY <1>2 DEF CacheLine, WrittenLine
<1>4. cache' = [cache EXCEPT ![a] = line] /\ Record(a, d)
  BY DEF WriteModified
<1> HIDE DEF line
<1> QED
  BY <1>2, <1>3, <1>4, WriteKeeps

LEMMA WriteNewKeeps ==
    ASSUME LineInv, NEW a \in Address, NEW d \in Data, WriteNew(a, d)
    PROVE  LineInv'
<1> DEFINE new == [state |-> "MODIFIED", data |-> d]
<1>1. new \in CacheLine /\ new.data = d
  BY DEF CacheLine, CacheState
<1> HIDE DEF new
<1>2. PICK dropped \in SUBSET Address :
        cache' = [b \in Address |->
                    IF b = a THEN new ELSE IF b \in dropped THEN None ELSE cache[b]]
  <2> DEFINE evicts == NeedsRoom(a) /\ access_order # <<>>
             victim == Oldest(access_order)
  <2>1. cache' = [b \in Address |->
                    IF b = a THEN new ELSE IF evicts /\ b = victim THEN None ELSE cache[b]]
    BY DEF WriteNew, new
  <2> HIDE DEF evicts, victim
  <2> WITNESS {b \in Address : evicts /\ b = victim} \in SUBSET Address
  <2> QED
    BY <2>1
<1>3. cache \in [Address -> CacheLine \cup {None}]
  BY DEF LineInv, LinesTyped
<1>4. cache' \in [Address -> CacheLine \cup {None}]
  BY <1>1, <1>2, <1>3
<1>5. cache'[a] = new /\ \A b \in Address \ {a} : cache'[b] \in {cache[b], None}
  BY <1>2
<1> QED
  BY <1>1, <1>4, <1>5, WriteKeeps DEF WriteNew

LEMMA CleanupKeeps ==
    ASSUME LineInv, NEW expired \in SUBSET Cached, Cleanup(expired)
    PROVE  LineInv'
<1>1. cache \in [Address -> CacheLine \cup {None}]
  BY DEF LineInv, LinesTyped
<1>2. /\ cache' = [a \in Address |-> IF a \in expired THEN None ELSE cache[a]]
      /\ current' = current
  BY DEF Cleanup
<1>3. DataStays
  BY <1>1, <1>2 DEF DataStays, Cached
<1> QED
  BY <1>3, DataStaysKeeps

LEMMA LineNext == LineInv /\ [Next]_vars => LineInv'
<1> SUFFICES ASSUME LineInv, [Next]_vars PROVE LineInv'
  OBVIOUS
<1>0. ASSUME UNCHANGED <<cache, current>>
      PROVE  LineInv'
  BY <1>0 DEF LineInv, LinesTyped, LinesAreLastWrites, Cached
<1>1. ASSUME NEW a \in Address, ReadHit(a) \/ ReadMiss(a)
      PROVE  LineInv'
  BY <1>0, <1>1 DEF ReadHit, ReadMiss
<1>2. CASE UNCHANGED vars
  BY <1>0, <1>2 DEF vars
<1> QED
  BY <1>1, <1>2, InvalidateKeeps, SnoopReadKeeps, WriteModifiedKeeps, WriteNewKeeps,
     CleanupKeeps DEF Next

LEMMA HitStep ==
    ASSUME LineInv, NEW a \in Address, ReadHit(a)
    PROVE  reply'.data = current[a]
<1>1. /\ a \in Cached /\ cache[a].state # "INVALID"
      /\ reply' = [address |-> a, data |-> cache[a].data]
  BY DEF ReadHit, StateOf
<1> QED
  BY <1>1 DEF LineInv, LinesAreLastWrites

\* Whatever was snooped, invalidated, evicted or expired in between, a hit
\* returns the data last written at its address, and no data that was
\* invalidated since.
THEOREM HitsReturnLastWrites == Spec => HitsAreCurrent
<1>1. LineInv /\ [Next]_vars =>
        [\A a \in Address : ReadHit(a) => reply'.data = current[a]]_vars
  BY HitStep
<1> QED
  BY <1>1, LineInit, LineNext, PTL DEF Spec, HitsAreCurrent

-----------------------------------------------------------------------------
(***************************************************************************)
(* Sequences as the LRU uses them.  What an operation does to the order is *)
(* said by which elements stand before which.                              *)
(***************************************************************************)
\* Position k cut out.
LEMMA CutOut ==
    ASSUME NEW S, NEW s \in Seq(S), NEW k \in 1..Len(s),
           NEW t, t = SubSeq(s, 1, k - 1) \o SubSeq(s, k + 1, Len(s))
    PROVE  /\ t \in Seq(S)
           /\ Len(t) = Len(s) - 1
           /\ \A i \in 1..(Len(s) - 1) : t[i] = IF i < k THEN s[i] ELSE s[i + 1]
<1> DEFINE b == SubSeq(s, 1, k - 1)
           a == SubSeq(s, k + 1, Len(s))
<1>1. b \in Seq(S) /\ a \in Seq(S) /\ Len(b) = k - 1 /\ Len(a) = Len(s) - k
  OBVIOUS
<1>2. \A i \in 1..(k - 1) : b[i] = s[i]
  OBVIOUS
<1>3. \A i \in 1..(Len(s) - k) : a[i] = s[k + i]
  OBVIOUS
<1> HIDE DEF a, b
<1>4. b \o a \in Seq(S) /\ Len(b \o a) = Len(s) - 1
  BY <1>1
<1>5. ASSUME NEW i \in 1..(Len(s) - 1) PROVE (b \o a)[i] = IF i < k THEN s[i] ELSE s[i + 1]
  BY <1>1, <1>2, <1>3
<1> QED BY <1>4, <1>5 DEF a, b

\* x stands somewhere before y; an element that is there twice stands before itself.
Before(s, x, y) == \E i, j \in DOMAIN s : i < j /\ s[i] = x /\ s[j] = y

LEMMA Embedded ==
    ASSUME NEW s, NEW t, NEW g \in [DOMAIN t -> DOMAIN s],
           \A k \in DOMAIN t : t[k] = s[g[k]],
           \A k, m \in DOMAIN t : k < m => g[k] < g[m]
    PROVE  /\ Elements(t) \subseteq Elements(s)
           /\ \A x, y : Before(t, x, y) => Before(s, x, y)
BY DEF Elements, Before

\* Removing one element from a sequence that has it at most once.
LEMMA WithoutFacts ==
    ASSUME NEW S, NEW s \in Seq(S), NEW e, ~Before(s, e, e)
    PROVE  /\ Without(s, e) \in Seq(S)
           /\ Len(Without(s, e)) = IF e \in Elements(s) THEN Len(s) - 1 ELSE Len(s)
           /\ Elements(Without(s, e)) = Elements(s) \ {e}
           /\ \A x, y : Before(Without(s, e), x, y) => Before(s, x, y)
<1> DEFINE at == {i \in 1..Len(s) : s[i] = e}
<1>1. Len(s) \in Nat /\ DOMAIN s = 1..Len(s)
  OBVIOUS
<1>2. CASE at = {}
  BY <1>1, <1>2 DEF Without, Elements
<1>3. CASE at # {}
  <2>1. PICK k \in 1..Len(s) :
            /\ s[k] = e
            /\ Without(s, e) = SubSeq(s, 1, k - 1) \o SubSeq(s, k + 1, Len(s))
    BY <1>3 DEF Without
  <2>2. k \in 1..Len(s) /\ s[k] = e
    BY <2>1
  <2> HIDE DEF at
  <2> DEFINE t == Without(s, e)
             g == [i \in 1..(Len(s) - 1) |-> IF i < k THEN i ELSE i + 1]
  <2>3. /\ t \in Seq(S) /\ Len(t) = Len(s) - 1
        /\ \A i \in 1..(Len(s) - 1) : t[i] = IF i < k THEN s[i] ELSE s[i + 1]
    BY ONLY s \in Seq(S), k \in 1..Len(s), <2>1, CutOut, Zenon
  <2> HIDE DEF t
  <2>4. DOMAIN t = 1..(Len(s) - 1)
    BY <2>3
  <2>5. /\ g \in [DOMAIN t -> DOMAIN s]
        /\ \A i \in DOMAIN t : t[i] = s[g[i]] /\ g[i] # k
        /\ \A i, j \in DOMAIN t : i < j => g[i] < g[j]
    BY <1>1, <2>2, <2>3, <2>4
  <2>6. \A j \in DOMAIN s : j # k => \E i \in DOMAIN t : g[i] = j
    <3> TAKE j \in DOMAIN s
    <3>1. CASE j < k
      <4>1. j \in DOMAIN t /\ g[j] = j
        BY <1>1, <2>2, <2>4, <3>1
      <4> QED
        BY <4>1
    <3>2. CASE j > k
      <4>1. j - 1 \in DOMAIN t /\ g[j - 1] = j
        BY <1>1, <2>2, <2>4, <3>2
      <4> QED
        BY <4>1
    <3> QED
      BY <1>1, <2>2, <3>1, <3>2
  <2>7. /\ Elements(t) \subseteq Elements(s)
        /\ \A x, y : Before(t, x, y) => Before(s, x, y)
    <3> HIDE DEF g
    <3> QED
      BY <2>5, Embedded
  <2> HIDE DEF g
  <2>8. \A j \in DOMAIN s : s[j] = e => j = k
    BY <1>1, <2>2 DEF Before
  <2>9. e \notin Elements(t)
    BY <2>5, <2>8 DEF Elements
  <2>10. Elements(s) \ {e} \subseteq Elements(t)
    BY <2>2, <2>5, <2>6 DEF Elements
  <2>11. e \in Elements(s)
    BY <1>1, <2>2 DEF Elements
  <2> QED
    BY <2>3, <2>7, <2>9, <2>10, <2>11 DEF t
<1> QED
  BY <1>2, <1>3

\* The positions of a finite set of numbers can be counted through.
LEMMA Counting ==
    ASSUME NEW n \in Nat, NEW L \in SUBSET (1..n)
    PROVE  LET Rank(i) == Cardinality({j \in L : j <= i})
               Nth(k) == CHOOSE i \in L : Rank(i) = k
           IN  /\ Cardinality(L) \in 0..n
               /\ \A k \in 1..Cardinality(L) : Nth(k) \in L
               /\ \A k, m \in 1..Cardinality(L) : k < m => Nth(k) < Nth(m)
               /\ \A i \in L : \E k \in 1..Cardinality(L) : Nth(k) = i
<1> DEFINE Upto(i) == {j \in L : j <= i}
           Rank(i) == Cardinality(Upto(i))
           c == Cardinality(L)
           rank == [i \in L |-> Rank(i)]
           Nth(k) == CHOOSE i \in L : Rank(i) = k
<1>1. IsFiniteSet(1..n) /\ Cardinality(1..n) = n
  BY FS_Interval
<1>2. IsFiniteSet(L) /\ c \in 0..n
  <2>1. IsFiniteSet(L) /\ c <= n
    BY <1>1, FS_Subset
  <2>2. c \in Nat
    BY <2>1, FS_CardinalityType
  <2> HIDE DEF c
  <2> QED
    BY <2>1, <2>2
<1>3. \A i \in L : IsFiniteSet(Upto(i)) /\ Rank(i) \in 1..c
  <2> TAKE i \in L
  <2>1. IsFiniteSet(Upto(i)) /\ Rank(i) <= c
    BY <1>2, FS_Subset
  <2>2. Rank(i) \in Nat
    BY <2>1, FS_CardinalityType
  <2>3. i \in Upto(i)
    OBVIOUS
  <2>4. Rank(i) # 0
    BY <2>1, <2>3, FS_EmptySet
  <2> DEFINE r == Rank(i)
  <2>5. r \in Nat /\ r # 0 /\ r <= c /\ c \in Nat
    BY <1>2, <2>1, <2>2, <2>4
  <2> HIDE DEF r, c
  <2>6. r \in 1..c
    BY <2>5
  <2> QED
    BY <2>1, <2>6 DEF r
<1>4. ASSUME NEW i \in L, NEW j \in L, i < j
      PROVE  Rank(i) < Rank(j)
  <2>0. i \in Nat /\ j \in Nat /\ \A k \in L : k \in Nat
    OBVIOUS
  <2>1. Upto(i) \in SUBSET Upto(j) /\ j \in Upto(j) /\ j \notin Upto(i)
    <3>1. \A k \in L : k <= i => k <= j
      BY <1>4, <2>0
    <3>2. j <= j /\ ~(j <= i)
      BY <1>4, <2>0
    <3> QED
      BY <3>1, <3>2
  <2>2. Rank(i) <= Rank(j) /\ Rank(i) # Rank(j)
    <3> HIDE DEF Upto
    <3> QED
      BY <1>3, <2>1, FS_Subset
  <2>3. Rank(i) \in Nat /\ Rank(j) \in Nat
    BY <1>2, <1>3
  <2> QED
    BY <2>2, <2>3
<1> HIDE DEF Rank, Upto
<1>5. rank \in Injection(L, 1..c)
  <2>1. rank \in [L -> 1..c]
    BY <1>3
  <2>2. ASSUME NEW i \in L, NEW j \in L, rank[i] = rank[j]
        PROVE  i = j
    <3>0. rank[i] = Rank(i) /\ rank[j] = Rank(j)
      OBVIOUS
    <3> HIDE DEF rank
    <3>1. Rank(i) = Rank(j)
      BY <2>2, <3>0
    <3>3. Rank(i) \in Nat
      BY <1>2, <1>3
    <3>2. ~(i < j) /\ ~(j < i)
      <4>1. CASE i < j
        BY <1>4, <3>1, <3>3, <4>1
      <4>2. CASE j < i
        BY <1>4, <3>1, <3>3, <4>2
      <4> QED
        BY <4>1, <4>2
    <3> QED
      BY <3>2
  <2> QED
    BY <2>1, <2>2 DEF Injection, IsInjective
<1>6. \A k \in 1..c : \E i \in L : Rank(i) = k
  <2>1. IsFiniteSet(1..c) /\ Cardinality(1..c) = c
    BY <1>2, FS_Interval
  <2>2. rank \in Surjection(L, 1..c)
    <3> HIDE DEF rank
    <3> QED
      BY <1>5, <2>1, FS_Injection
  <2> QED
    BY <2>2 DEF Surjection
<1>7. \A k \in 1..c : Nth(k) \in L /\ Rank(Nth(k)) = k
  BY <1>6
<1>8. \A i \in L : Rank(i) \in 1..c /\ Nth(Rank(i)) = i
  <2> TAKE i \in L
  <2> DEFINE j == Nth(Rank(i))
  <2>1. Rank(i) \in 1..c /\ j \in L /\ Rank(j) = Rank(i)
    BY <1>3, <1>7
  <2> HIDE DEF j
  <2>2. ~(i < j) /\ ~(j < i)
    BY <1>2, <1>4, <2>1
  <2> QED
    BY <2>1, <2>2 DEF j
<1>9. ASSUME NEW k \in 1..c, NEW m \in 1..c, k < m
      PROVE  Nth(k) < Nth(m)
  <2> DEFINE a == Nth(k)
             b == Nth(m)
  <2>1. a \in L /\ b \in L /\ Rank(a) = k /\ Rank(b) = m
    BY <1>7
  <2> HIDE DEF a, b
  <2>2. a # b /\ ~(b < a)
    BY <1>2, <1>4, <1>9, <2>1
  <2>3. a \in Nat /\ b \in Nat
    BY <2>1
  <2>4. a < b
    BY <2>2, <2>3
  <2> QED
    BY <2>4 DEF a, b
<1> HIDE DEF c
<1>10. \A i \in L : \E k \in 1..c : Nth(k) = i
  BY <1>8
<1> QED
  BY <1>2, <1>7, <1>9, <1>10 DEF Rank, Upto, c

\* Removing any set of elements.
LEMMA OrderWithoutFacts ==
    ASSUME NEW S, NEW s \in Seq(S), NEW E
    PROVE  /\ OrderWithout(s, E) \in Seq(S)
           /\ Len(OrderWithout(s, E)) <= Len(s)
           /\ Elements(OrderWithout(s, E)) = Elements(s) \ E
           /\ \A x, y : Before(OrderWithout(s, E), x, y) => Before(s, x, y)
<1> DEFINE n == Len(s)
           L == {i \in DOMAIN s : s[i] \notin E}
           c == Cardinality(L)
           Nth(k) == CHOOSE i \in L : Cardinality({j \in L : j <= i}) = k
           t == OrderWithout(s, E)
           g == [k \in 1..c |-> Nth(k)]
<1>1. n \in Nat /\ DOMAIN s = 1..n /\ \A i \in 1..n : s[i] \in S
  OBVIOUS
<1>2. L \in SUBSET (1..n)
  BY <1>1
<1>3. t = [k \in 1..c |-> s[Nth(k)]]
  BY DEF OrderWithout
<1>4. /\ c \in 0..n
      /\ \A k \in 1..c : Nth(k) \in L
      /\ \A k, m \in 1..c : k < m => Nth(k) < Nth(m)
      /\ \A i \in L : \E k \in 1..c : Nth(k) = i
  <2> HIDE DEF n, L
  <2> QED
    BY <1>1, <1>2, Counting
<1>5. \A i : i \in L <=> i \in 1..n /\ s[i] \notin E
  BY <1>1
<1> HIDE DEF n, L, c, Nth, t
<1>6. t \in Seq(S) /\ Len(t) = c /\ DOMAIN t = 1..c
  <2>1. \A k \in 1..c : s[Nth(k)] \in S
    BY <1>1, <1>4, <1>5
  <2> QED
    BY <1>3, <1>4, <2>1
<1>7. /\ g \in [DOMAIN t -> DOMAIN s]
      /\ \A k \in DOMAIN t : t[k] = s[g[k]] /\ g[k] \in L
      /\ \A k, m \in DOMAIN t : k < m => g[k] < g[m]
      /\ \A i \in L : \E k \in DOMAIN t : g[k] = i
  BY <1>1, <1>3, <1>4, <1>5, <1>6
<1> HIDE DEF g
<1>8. Elements(t) \subseteq Elements(s) /\ \A x, y : Before(t, x, y) => Before(s, x, y)
  BY <1>7, Embedded
<1>9. Elements(t) = Elements(s) \ E
  <2>1. \A x \in Elements(t) : x \notin E
    BY <1>5, <1>7 DEF Elements
  <2>2. ASSUME NEW x \in Elements(s), x \notin E
        PROVE  x \in Elements(t)
    <3>1. PICK i \in 1..n : s[i] = x
      BY <1>1 DEF Elements
    <3>2. PICK k \in DOMAIN t : g[k] = i
      BY <1>5, <1>7, <2>2, <3>1
    <3> QED
      BY <1>7, <3>1, <3>2 DEF Elements
  <2> QED
    BY <1>8, <2>1, <2>2
<1> QED
  BY <1>4, <1>6, <1>8, <1>9, <1>1 DEF t, n

\* Entering an element behind the others.
LEMMA AppendFacts ==
    ASSUME NEW S, NEW s \in Seq(S), NEW e \in S
    PROVE  /\ Append(s, e) \in Seq(S)
           /\ Len(Append(s, e)) = Len(s) + 1
           /\ Elements(Append(s, e)) = Elements(s) \cup {e}
           /\ \A x, y : Before(Append(s, e), x, y) =>
                           Before(s, x, y) \/ (x \in Elements(s) /\ y = e)
<1> DEFINE t == Append(s, e)
           n == Len(s)
<1>1. n \in Nat /\ DOMAIN s = 1..n
  OBVIOUS
<1>2. /\ t \in Seq(S) /\ Len(t) = n + 1 /\ DOMAIN t = 1..(n + 1)
      /\ \A i \in 1..n : t[i] = s[i]
      /\ t[n + 1] = e
  BY <1>1
<1> HIDE DEF t, n
<1>3. \A i \in 1..(n + 1) : i \in 1..n \/ i = n + 1
  BY <1>1
<1>4. n + 1 \in 1..(n + 1) /\ \A i \in 1..n : i \in 1..(n + 1)
  BY <1>1
<1>5. Elements(t) = Elements(s) \cup {e}
  BY <1>1, <1>2, <1>3, <1>4 DEF Elements
<1>6. ASSUME NEW x, NEW y, Before(t, x, y)
      PROVE  Before(s, x, y) \/ (x \in Elements(s) /\ y = e)
  <2>1. PICK i \in 1..(n + 1), j \in 1..(n + 1) : i < j /\ t[i] = x /\ t[j] = y
    BY <1>2, <1>6 DEF Before
  <2>2. i \in 1..n
    BY <1>1, <2>1
  <2> QED
    BY <1>1, <1>2, <1>3, <2>1, <2>2 DEF Before, Elements
<1> QED
  BY <1>2, <1>5, <1>6 DEF t, n

\* A sequence without repetitions is as long as the set of its elements is large.
LEMMA LengthOfDistinct ==
    ASSUME NEW S, NEW s \in Seq(S), \A x : ~Before(s, x, x)
    PROVE  IsFiniteSet(Elements(s)) /\ Cardinality(Elements(s)) = Len(s)
<1> DEFINE n == Len(s)
<1>1. n \in Nat /\ DOMAIN s = 1..n /\ s \in [1..n -> S]
  BY LenProperties
<1> HIDE DEF n
<1>2. s \in [1..n -> Elements(s)]
  BY <1>1 DEF Elements
<1>3. \A i, j \in 1..n : s[i] = s[j] => i = j
  <2> SUFFICES ASSUME NEW i \in 1..n, NEW j \in 1..n, s[i] = s[j] PROVE i = j
    OBVIOUS
  <2>1. ~(i < j) /\ ~(j < i)
    BY <1>1 DEF Before
  <2> QED
    BY <1>1, <2>1
<1>4. s \in Bijection(1..n, Elements(s))
  BY <1>1, <1>2, <1>3 DEF Bijection, Injection, Surjection, IsInjective, Elements
<1>5. IsFiniteSet(1..n) /\ Cardinality(1..n) = n
  BY <1>1, FS_Interval
<1> QED
  BY <1>4, <1>5, FS_Bijection DEF ExistsBijection, n

-----------------------------------------------------------------------------
\* touch: a is the newest, the others keep their order; nothing falls out, but
\* with a capacity of 0.
LEMMA TouchFacts ==
    ASSUME NEW s \in Seq(Address), NEW a \in Address, max_size \in Nat,
           \A x : ~Before(s, x, x), Len(s) <= max_size,
           a \in Elements(s) \/ Len(s) < max_size \/ max_size = 0
    PROVE  /\ Touch(s, a) \in Seq(Address)
           /\ Len(Touch(s, a)) <= max_size
           /\ Elements(Touch(s, a)) = IF max_size = 0 THEN {} ELSE Elements(s) \cup {a}
           /\ \A x, y : Before(Touch(s, a), x, y) =>
                /\ x # a /\ x \in Elements(s)
                /\ y = a \/ Before(s, x, y)
<1> DEFINE w == Without(s, a)
           m == Append(w, a)
<1>1. /\ w \in Seq(Address)
      /\ Len(w) = IF a \in Elements(s) THEN Len(s) - 1 ELSE Len(s)
      /\ Elements(w) = Elements(s) \ {a}
      /\ \A x, y : Before(w, x, y) => Before(s, x, y)
  BY WithoutFacts
<1>2. Len(s) \in Nat
  OBVIOUS
<1> HIDE DEF w
<1>3. /\ m \in Seq(Address)
      /\ Len(m) = Len(w) + 1
      /\ Elements(m) = Elements(w) \cup {a}
      /\ \A x, y : Before(m, x, y) => Before(w, x, y) \/ (x \in Elements(w) /\ y = a)
  BY <1>1, AppendFacts
<1>4. \A x, y : Before(w, x, y) => x \in Elements(w)
  BY DEF Before, Elements
<1>5. Touch(s, a) = IF Len(m) > max_size THEN Tail(m) ELSE m
  BY DEF Touch, w
<1> HIDE DEF m
<1>6. CASE max_size = 0
  <2>1. Len(s) = 0 /\ s = <<>>
    BY <1>2, <1>6
  <2>2. Elements(s) = {}
    BY <2>1 DEF Elements
  <2>3. Len(m) = 1
    BY <1>1, <1>3, <2>1, <2>2
  <2>4. Touch(s, a) = <<>>
    BY <1>3, <1>5, <1>6, <2>3
  <2> QED
    BY <1>6, <2>4 DEF Elements, Before
<1>7. CASE max_size # 0
  <2>1. Len(m) <= max_size
    BY <1>1, <1>2, <1>3, <1>7
  <2>2. Touch(s, a) = m
    BY <1>1, <1>3, <1>5, <2>1
  <2>3. Elements(m) = Elements(s) \cup {a}
    BY <1>1, <1>3
  <2>4. ASSUME NEW x, NEW y, Before(m, x, y)
        PROVE  x # a /\ x \in Elements(s) /\ (y = a \/ Before(s, x, y))
    BY <1>1, <1>3, <1>4, <2>4
  <2> QED
    BY <1>3, <1>7, <2>1, <2>2, <2>3, <2>4
<1> QED
  BY <1>6, <1>7

(***************************************************************************)
(* The invariant, in two halves: what is in the lines and what the LRU     *)
(* knows of them.                                                          *)
(***************************************************************************)
LinesOK ==
    /\ max_size \in Sizes
    /\ cache \in [Address -> CacheLine \cup {None}]
    /\ reply \in Reply \cup {None}
    /\ current \in [Address -> Data \cup {None}]

OrderOK ==
    /\ access_order \in Seq(Address)
    /\ usedSince \in [Address -> SUBSET Address]
    /\ Elements(access_order) = IF max_size = 0 THEN {} ELSE Cached
    /\ Len(access_order) <= max_size
    /\ \A x, y : Before(access_order, x, y) => x # y /\ y \in usedSince[x]

LruInv == LinesOK /\ OrderOK

LEMMA LruInvMeans == LruInv => TypeOK /\ LruKnowsTheCache /\ OrderIsOrderOfUse
<1> SUFFICES ASSUME LruInv PROVE TypeOK /\ LruKnowsTheCache /\ OrderIsOrderOfUse
  OBVIOUS
<1> DEFINE s == access_order
<1>1. /\ s \in Seq(Address) /\ Len(s) <= max_size /\ max_size \in Nat
      /\ \A x, y : Before(s, x, y) => x # y /\ y \in usedSince[x]
      /\ Elements(s) = IF max_size = 0 THEN {} ELSE Cached
  BY SizeAssumption DEF LruInv, LinesOK, OrderOK
<1>2. Cardinality(Elements(s)) = Len(s)
  BY <1>1, LengthOfDistinct
<1>3. max_size > 0 => Cardinality(Cached) <= max_size
  BY <1>1, <1>2
<1>4. TypeOK
  BY <1>3 DEF LruInv, LinesOK, OrderOK, TypeOK
<1>5. \A i, j \in DOMAIN s : i < j => s[i] # s[j] /\ s[j] \in usedSince[s[i]]
  BY <1>1 DEF Before
<1>6. \A i, j \in DOMAIN s : s[i] = s[j] => i = j
  <2> SUFFICES ASSUME NEW i \in DOMAIN s, NEW j \in DOMAIN s, s[i] = s[j] PROVE i = j
    OBVIOUS
  <2>1. i \in Nat /\ j \in Nat
    BY <1>1
  <2>2. ~(i < j) /\ ~(j < i)
    BY <1>5
  <2> QED
    BY <2>1, <2>2
<1> QED
  BY <1>1, <1>4, <1>5, <1>6 DEF LruKnowsTheCache, OrderIsOrderOfUse

LEMMA LruInit == Init => LruInv
BY SizeAssumption DEF Init, LruInv, LinesOK, OrderOK, Cached, Elements, Before

\* An operation that uses address a, after what was evicted left order s.
LEMMA UseKeeps ==
    ASSUME LruInv, NEW a \in Address, NEW s \in Seq(Address),
           \A x, y : Before(s, x, y) => Before(access_order, x, y),
           Len(s) <= max_size,
           a \in Elements(s) \/ Len(s) < max_size \/ max_size = 0,
           access_order' = Touch(s, a), Use(a), max_size' = max_size,
           max_size # 0 => Cached' = Elements(s) \cup {a}
    PROVE  OrderOK'
<1>1. /\ max_size \in Nat
      /\ \A x, y : Before(s, x, y) => x # y /\ y \in usedSince[x]
      /\ usedSince \in [Address -> SUBSET Address]
  BY SizeAssumption DEF LruInv, LinesOK, OrderOK
<1> DEFINE t == Touch(s, a)
<1>2. /\ t \in Seq(Address) /\ Len(t) <= max_size
      /\ Elements(t) = IF max_size = 0 THEN {} ELSE Elements(s) \cup {a}
      /\ \A x, y : Before(t, x, y) =>
            x # a /\ x \in Elements(s) /\ (y = a \/ Before(s, x, y))
  BY <1>1, TouchFacts
<1> HIDE DEF t
<1>3. Elements(s) \subseteq Address
  BY DEF Elements
<1>4. /\ usedSince' \in [Address -> SUBSET Address]
      /\ \A x \in Address : x # a => usedSince'[x] = usedSince[x] \cup {a}
  BY <1>1 DEF Use
<1>5. \A x, y : Before(t, x, y) => x # y /\ y \in usedSince'[x]
  BY <1>1, <1>2, <1>3, <1>4
<1>6. access_order' = t
  BY DEF t
<1> QED
  BY <1>2, <1>4, <1>5, <1>6 DEF OrderOK

\* Operations that use nothing and leave the same addresses cached.
LEMMA SameOrderKeeps ==
    ASSUME LruInv, UNCHANGED <<max_size, access_order, usedSince>>, Cached' = Cached
    PROVE  OrderOK'
BY DEF LruInv, OrderOK

LEMMA UseCachedKeeps ==
    ASSUME LruInv, NEW a \in Cached, access_order' = Touch(access_order, a), Use(a),
           max_size' = max_size, Cached' = Cached
    PROVE  OrderOK'
<1>1. /\ access_order \in Seq(Address) /\ Len(access_order) <= max_size
      /\ Elements(access_order) = IF max_size = 0 THEN {} ELSE Cached
      /\ a \in Address
  BY DEF LruInv, OrderOK, Cached
<1> QED
  BY <1>1, UseKeeps

LEMMA ReadKeeps ==
    ASSUME LruInv, NEW a \in Address, ReadHit(a) \/ ReadMiss(a)
    PROVE  LruInv'
<1>1. UNCHANGED <<max_size, cache, current>> /\ Cached' = Cached
  BY DEF ReadHit, ReadMiss, Cached
<1>2. reply' \in Reply
  <2>1. a \in Cached => cache[a].data \in Data
    BY DEF LruInv, LinesOK, Cached, CacheLine
  <2>2. CASE ReadHit(a)
    BY <2>1, <2>2 DEF ReadHit, StateOf, Reply
  <2>3. CASE ReadMiss(a)
    BY <2>1, <2>3 DEF ReadMiss, Reply
  <2> QED
    BY <2>2, <2>3
<1>3. LinesOK'
  BY <1>1, <1>2 DEF LruInv, LinesOK
<1>4. CASE ReadHit(a)
  <2>1. a \in Cached
    BY <1>4 DEF ReadHit, StateOf
  <2> QED
    BY <1>1, <1>3, <1>4, <2>1, UseCachedKeeps DEF ReadHit, LruInv
<1>5. CASE ReadMiss(a)
  BY <1>1, <1>3, <1>5, SameOrderKeeps DEF ReadMiss, LruInv
<1> QED
  BY <1>4, <1>5

\* A line that stays a line.
LEMMA LineStays ==
    ASSUME LruInv, NEW a \in Cached, NEW line \in CacheLine,
           cache' = [cache EXCEPT ![a] = line]
    PROVE  cache' \in [Address -> CacheLine \cup {None}] /\ Cached' = Cached
BY NoneAssumption DEF LruInv, LinesOK, Cached

LEMMA SetStateKeepsOrder ==
    ASSUME LruInv, NEW a \in Cached, NEW state \in CacheState, SetState(a, state),
           UNCHANGED <<max_size, access_order, reply, usedSince>>,
           current' \in [Address -> Data \cup {None}]
    PROVE  LruInv'
<1> DEFINE line == [cache[a] EXCEPT !.state = state]
<1>1. line \in CacheLine
  BY DEF LruInv, LinesOK, Cached, CacheLine
<1>2. cache' = [cache EXCEPT ![a] = line]
  BY DEF SetState
<1> HIDE DEF line
<1>3. cache' \in [Address -> CacheLine \cup {None}] /\ Cached' = Cached
  BY <1>1, <1>2, LineStays
<1>4. LinesOK'
  BY <1>3 DEF LruInv, LinesOK
<1> QED
  BY <1>3, <1>4, SameOrderKeeps DEF LruInv

LEMMA WriteModifiedKeepsOrder ==
    ASSUME LruInv, NEW a \in Address, NEW d \in Data, WriteModified(a, d)
    PROVE  LruInv'
<1> DEFINE line == WrittenLine(cache[a], d)
<1>1. a \in Cached
  BY DEF WriteModified, StateOf
<1>2. line \in CacheLine
  BY <1>1 DEF LruInv, LinesOK, Cached, CacheLine, WrittenLine
<1>3. cache' = [cache EXCEPT ![a] = line] /\ UNCHANGED <<max_size, reply>>
  BY DEF WriteModified
<1> HIDE DEF line
<1>4. cache' \in [Address -> CacheLine \cup {None}] /\ Cached' = Cached
  BY <1>1, <1>2, <1>3, LineStays
<1>5. current' \in [Address -> Data \cup {None}]
  BY DEF WriteModified, Record, LruInv, LinesOK
<1>6. LinesOK'
  BY <1>3, <1>4, <1>5 DEF LruInv, LinesOK
<1>7. OrderOK'
  BY <1>1, <1>3, <1>4, UseCachedKeeps DEF WriteModified
<1> QED
  BY <1>6, <1>7 DEF LruInv

\* What a write of a line that is not MODIFIED evicts.
Evicts(a) == NeedsRoom(a) /\ access_order # <<>>
Victim == Oldest(access_order)

LEMMA VictimFacts ==
    ASSUME LruInv, NEW a \in Address, Evicts(a)
    PROVE  /\ max_size # 0 /\ Victim \in Cached /\ Victim # a
           /\ \A b \in Cached \ {Victim} : b \in usedSince[Victim]
<1> DEFINE s == access_order
<1>1. /\ s \in Seq(Address) /\ s # <<>>
      /\ Elements(s) = IF max_size = 0 THEN {} ELSE Cached
      /\ \A x, y : Before(s, x, y) => y \in usedSince[x]
  BY DEF LruInv, OrderOK, Evicts
<1>2. 1 \in DOMAIN s /\ Victim = s[1]
  BY <1>1 DEF Victim, Oldest
<1>3. Victim \in Elements(s)
  BY <1>2 DEF Elements
<1>4. ASSUME NEW b \in Elements(s), b # Victim
      PROVE  b \in usedSince[Victim]
  <2>1. PICK j \in DOMAIN s : s[j] = b
    BY DEF Elements
  <2>2. 1 < j
    BY <1>1, <1>2, <1>4, <2>1
  <2> QED
    BY <1>1, <1>2, <2>1, <2>2 DEF Before
<1>5. a \notin Cached
  BY DEF Evicts, NeedsRoom
<1> QED
  BY <1>1, <1>3, <1>4, <1>5

LEMMA WriteNewFacts ==
    ASSUME LruInv, NEW a \in Address, NEW d \in Data, WriteNew(a, d)
    PROVE  /\ cache' \in [Address -> CacheLine \cup {None}]
           /\ Cached' = (IF Evicts(a) THEN Cached \ {Victim} ELSE Cached) \cup {a}
           /\ access_order' =
                Touch(IF Evicts(a) THEN Without(access_order, Victim) ELSE access_order, a)
<1> DEFINE new == [state |-> "MODIFIED", data |-> d]
<1>1. new \in CacheLine
  BY DEF CacheLine, CacheState
<1>2. cache' = [b \in Address |->
                  IF b = a THEN new
                  ELSE IF Evicts(a) /\ b = Victim THEN None ELSE cache[b]]
  BY DEF WriteNew, Evicts, Victim
<1>3. access_order' =
        Touch(IF Evicts(a) THEN Without(access_order, Victim) ELSE access_order, a)
  BY DEF WriteNew, Evicts, Victim
<1> HIDE DEF new
<1>4. cache' \in [Address -> CacheLine \cup {None}]
  BY <1>1, <1>2 DEF LruInv, LinesOK
<1>5. new # None
  BY <1>1, NoneAssumption
<1>6. Evicts(a) => Victim # a
  BY VictimFacts
<1>7. \A b \in Address : cache'[b] # None <=>
        b = a \/ (cache[b] # None /\ ~(Evicts(a) /\ b = Victim))
  BY <1>2, <1>5
<1>8. Cached' = {b \in Address : cache'[b] # None}
  BY DEF Cached
<1>9. Cached' = (IF Evicts(a) THEN Cached \ {Victim} ELSE Cached) \cup {a}
  BY <1>6, <1>7, <1>8 DEF Cached
<1> QED
  BY <1>3, <1>4, <1>9

LEMMA WriteNewKeepsOrder ==
    ASSUME LruInv, NEW a \in Address, NEW d \in Data, WriteNew(a, d)
    PROVE  LruInv'
<1> DEFINE s == IF Evicts(a) THEN Without(access_order, Victim) ELSE access_order
<1>1. /\ cache' \in [Address -> CacheLine \cup {None}]
      /\ Cached' = (IF Evicts(a) THEN Cached \ {Victim} ELSE Cached) \cup {a}
      /\ access_order' = Touch(s, a)
  BY WriteNewFacts
<1>2. UNCHANGED <<max_size, reply>> /\ Use(a)
  BY DEF WriteNew
<1>3. current' \in [Address -> Data \cup {None}]
  BY DEF WriteNew, Record, LruInv, LinesOK
<1>4. LinesOK'
  BY <1>1, <1>2, <1>3 DEF LruInv, LinesOK
<1>5. /\ access_order \in Seq(Address) /\ Len(access_order) <= max_size
      /\ Len(access_order) \in Nat /\ max_size \in Nat
      /\ Elements(access_order) = IF max_size = 0 THEN {} ELSE Cached
      /\ \A x : ~Before(access_order, x, x)
  BY SizeAssumption DEF LruInv, LinesOK, OrderOK
<1>6. CASE Evicts(a)
  <2>1. Victim \in Cached /\ max_size # 0
    BY <1>6, VictimFacts
  <2>2. /\ s \in Seq(Address) /\ Len(s) = Len(access_order) - 1
        /\ Elements(s) = Cached \ {Victim}
        /\ \A x, y : Before(s, x, y) => Before(access_order, x, y)
    BY <1>5, <1>6, <2>1, WithoutFacts
  <2>3. Len(s) < max_size /\ Len(s) <= max_size
    BY <1>5, <2>2
  <2> HIDE DEF s
  <2>4. Cached' = Elements(s) \cup {a}
    BY <1>1, <1>6, <2>2
  <2>5. OrderOK'
    BY <1>1, <1>2, <2>2, <2>3, <2>4, UseKeeps
  <2> QED
    BY <1>4, <2>5 DEF LruInv
<1>7. CASE ~Evicts(a)
  <2>1. s = access_order
    BY <1>7
  <2>2. a \in Elements(s) \/ Len(s) < max_size \/ max_size = 0
    <3> SUFFICES ASSUME a \notin Cached, max_size # 0
                 PROVE  Len(access_order) < max_size
      BY <1>5, <2>1
    <3>1. Cardinality(Cached) = Len(access_order)
      BY <1>5, LengthOfDistinct
    <3>2. CASE access_order = <<>>
      BY <1>5, <3>2
    <3>3. CASE ~NeedsRoom(a)
      BY <1>5, <3>1, <3>3 DEF NeedsRoom
    <3> QED
      BY <1>7, <3>2, <3>3 DEF Evicts
  <2> HIDE DEF s
  <2>3. max_size # 0 => Cached' = Elements(s) \cup {a}
    BY <1>1, <1>5, <1>7, <2>1
  <2>4. OrderOK'
    BY <1>1, <1>2, <1>5, <2>1, <2>2, <2>3, UseKeeps
  <2> QED
    BY <1>4, <2>4 DEF LruInv
<1> QED
  BY <1>6, <1>7

LEMMA CleanupKeepsOrder ==
    ASSUME LruInv, NEW expired \in SUBSET Cached, Cleanup(expired)
    PROVE  LruInv'
<1>1. /\ cache' = [a \in Address |-> IF a \in expired THEN None ELSE cache[a]]
      /\ access_order' = OrderWithout(access_order, expired)
      /\ UNCHANGED <<max_size, reply, current, usedSince>>
  BY DEF Cleanup
<1>2. LinesOK'
  BY <1>1 DEF LruInv, LinesOK
<1>3. Cached' = Cached \ expired
  <2>1. \A a \in Address : cache'[a] # None <=> cache[a] # None /\ a \notin expired
    BY <1>1
  <2> QED
    BY <2>1 DEF Cached
<1>4. /\ access_order \in Seq(Address) /\ Len(access_order) <= max_size
      /\ Len(access_order) \in Nat /\ max_size \in Nat
      /\ Elements(access_order) = IF max_size = 0 THEN {} ELSE Cached
      /\ usedSince \in [Address -> SUBSET Address]
      /\ \A x, y : Before(access_order, x, y) => x # y /\ y \in usedSince[x]
  BY SizeAssumption DEF LruInv, LinesOK, OrderOK
<1>5. /\ access_order' \in Seq(Address)
      /\ Len(access_order') <= Len(access_order)
      /\ Elements(access_order') = Elements(access_order) \ expired
      /\ \A x, y : Before(access_order', x, y) => Before(access_order, x, y)
  BY <1>1, <1>4, OrderWithoutFacts
<1>6. Len(access_order') <= max_size
  BY <1>4, <1>5
<1>7. OrderOK'
  BY <1>1, <1>3, <1>4, <1>5, <1>6 DEF OrderOK
<1> QED
  BY <1>2, <1>7 DEF LruInv

LEMMA LruNext == LruInv /\ [Next]_vars => LruInv'
<1> SUFFICES ASSUME LruInv, [Next]_vars PROVE LruInv'
  OBVIOUS
<1>1. ASSUME NEW a \in Address, Invalidate(a)
      PROVE  LruInv'
  <2>1. current' \in [Address -> Data \cup {None}]
    BY <1>1 DEF Invalidate, Forget, LruInv, LinesOK
  <2> QED
    BY <1>1, <2>1, SetStateKeepsOrder DEF Invalidate, CacheState
<1>2. ASSUME NEW a \in Address, SnoopRead(a)
      PROVE  LruInv'
  <2>1. a \in Cached /\ current' \in [Address -> Data \cup {None}]
    BY <1>2 DEF SnoopRead, StateOf, LruInv, LinesOK
  <2> QED
    BY <1>2, <2>1, SetStateKeepsOrder DEF SnoopRead, CacheState
<1>3. CASE UNCHANGED vars
  BY <1>3 DEF vars, LruInv, LinesOK, OrderOK, Cached
<1> QED
  BY <1>1, <1>2, <1>3, ReadKeeps, WriteModifiedKeepsOrder, WriteNewKeepsOrder,
     CleanupKeepsOrder DEF Next

THEOREM LruInvariant == Spec => []LruInv
BY LruInit, LruNext, PTL DEF Spec

\* However lines are written, evicted, expired, snooped and invalidated, there
\* are never more of them than the capacity, unless that is 0.
THEOREM CacheTypeCorrect == Spec => []TypeOK
<1>1. LruInv => TypeOK
  BY LruInvMeans
<1> QED
  BY <1>1, LruInvariant, PTL

\* The LRU has the cached addresses, each once: an eviction always finds a line.
THEOREM LruAgreesWithCache == Spec => []LruKnowsTheCache
<1>1. LruInv => LruKnowsTheCache
  BY LruInvMeans
<1> QED
  BY <1>1, LruInvariant, PTL

\* The LRU's order is that of the last uses.
THEOREM LruOrderIsOrderOfUse == Spec => []OrderIsOrderOfUse
<1>1. LruInv => OrderIsOrderOfUse
  BY LruInvMeans
<1> QED
  BY <1>1, LruInvariant, PTL

LEMMA EvictionStep ==
    ASSUME LruInv, NEW a \in Address, NEW d \in Data, WriteNew(a, d),
           NEW v \in Cached \ Cached'
    PROVE  /\ Cardinality(Cached) = max_size
           /\ Cached \ Cached' = {v}
           /\ Cached \ {v} \subseteq usedSince[v]
<1>1. Cached' = (IF Evicts(a) THEN Cached \ {Victim} ELSE Cached) \cup {a}
  BY WriteNewFacts
<1>2. Evicts(a) /\ v = Victim
  BY <1>1
<1>3. /\ max_size # 0 /\ Victim \in Cached /\ Victim # a
      /\ \A b \in Cached \ {Victim} : b \in usedSince[Victim]
  BY <1>2, VictimFacts
<1>4. /\ access_order \in Seq(Address) /\ Elements(access_order) = Cached
      /\ Len(access_order) <= max_size /\ Len(access_order) \in Nat /\ max_size \in Nat
      /\ \A x : ~Before(access_order, x, x)
  BY <1>3, SizeAssumption DEF LruInv, LinesOK, OrderOK
<1>5. Cardinality(Cached) = Len(access_order)
  BY <1>4, LengthOfDistinct
<1>6. Cardinality(Cached) >= max_size
  BY <1>2 DEF Evicts, NeedsRoom
<1>7. Cardinality(Cached) = max_size
  BY <1>4, <1>5, <1>6
<1> QED
  BY <1>1, <1>2, <1>3, <1>7

\* A write drops a line only from a full cache, one line at most, and every other
\* line was used after it.
THEOREM OldestIsEvicted == Spec => EvictsLeastRecentlyUsed
<1>1. LruInv /\ [Next]_vars =>
        [\A a \in Address, d \in Data : WriteNew(a, d) =>
            \A v \in Cached \ Cached' :
                /\ Cardinality(Cached) = max_size
                /\ Cached \ Cached' = {v}
                /\ Cached \ {v} \subseteq usedSince[v]]_vars
  BY EvictionStep
<1> QED
  BY <1>1, LruInvariant, PTL DEF Spec, EvictsLeastRecentlyUsed
=============================================================================
