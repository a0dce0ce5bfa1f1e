-------------------------- MODULE LockManagerProofs --------------------------
(* Theorems about LockManager, for any clients, resources and requests. *)
EXTENDS LockManager, TLAPS, SequenceTheorems

\* Cutting position k out of a sequence of numbers.
LEMMA CutFacts ==
    ASSUME NEW s \in Seq(Nat), NEW k \in 1..Len(s),
           NEW t, t = SubSeq(s, 1, k - 1) \o SubSeq(s, k + 1, Len(s))
    PROVE  /\ t \in Seq(Nat)
           /\ Len(t) = Len(s) - 1
           /\ \A i \in 1..(Len(s) - 1) : t[i] = IF i < k THEN s[i] ELSE s[i + 1]
<1> DEFINE before == SubSeq(s, 1, k - 1)
           after == SubSeq(s, k + 1, Len(s))
<1>0. Len(s) \in Nat /\ k \in Nat /\ \A i \in 1..Len(s) : s[i] \in Nat
  BY ElementOfSeq, LenProperties
<1>1. /\ before \in Seq(Nat)
      /\ Len(before) = IF 1 <= k - 1 THEN (k - 1) - 1 + 1 ELSE 0
      /\ \A i \in 1..((k - 1) - 1 + 1) : before[i] = s[1 + i - 1]
  <2>1. \A i \in 1..(k - 1) : s[i] \in Nat
    BY <1>0
  <2> QED
    BY <1>0, <2>1, SubSeqProperties
<1>2. /\ after \in Seq(Nat)
      /\ Len(after) = IF k + 1 <= Len(s) THEN Len(s) - (k + 1) + 1 ELSE 0
      /\ \A i \in 1..(Len(s) - (k + 1) + 1) : after[i] = s[(k + 1) + i - 1]
  <2>1. \A i \in (k + 1)..Len(s) : s[i] \in Nat
    BY <1>0
  <2> QED
    BY <1>0, <2>1, SubSeqProperties
<1> HIDE DEF before, after
<1>3. /\ before \o after \in Seq(Nat)
      /\ Len(before \o after) = Len(before) + Len(after)
      /\ \A i \in 1..(Len(before) + Len(after)) : (before \o after)[i] =
            IF i <= Len(before) THEN before[i] ELSE after[i - Len(before)]
  BY <1>1, <1>2, ConcatProperties
<1>4. t = before \o after
  BY DEF before, after
<1>5. Len(before) = k - 1 /\ Len(after) = Len(s) - k
  BY <1>0, <1>1, <1>2
<1>6. t \in Seq(Nat) /\ Len(t) = Len(s) - 1
  <2>1. t \in Seq(Nat) /\ Len(t) = Len(before) + Len(after)
    BY ONLY <1>3, <1>4, Zenon
  <2> QED
    BY ONLY <1>0, <1>5, <2>1, SMT
<1>7. ASSUME NEW i \in 1..(Len(s) - 1)
      PROVE  t[i] = IF i < k THEN s[i] ELSE s[i + 1]
  <2>1. t[i] = IF i <= k - 1 THEN before[i] ELSE after[i - (k - 1)]
    <3>1. \A j \in 1..(Len(before) + Len(after)) :
            t[j] = IF j <= Len(before) THEN before[j] ELSE after[j - Len(before)]
      BY ONLY <1>3, <1>4, Zenon
    <3>2. i \in 1..(Len(before) + Len(after))
      BY <1>0, <1>5
    <3> QED
      BY <1>5, <3>1, <3>2
  <2>2. CASE i < k
    <3>1. before[i] = s[1 + i - 1] /\ s[1 + i - 1] = s[i]
      BY <1>0, <1>1, <2>2
    <3>2. i <= k - 1
      BY <1>0, <2>2
    <3>3. t[i] = s[i]
      BY <2>1, <3>1, <3>2
    <3> QED
      BY <2>2, <3>3
  <2>3. CASE ~(i < k)
    <3>1. i - (k - 1) \in 1..(Len(s) - (k + 1) + 1)
      BY <1>0, <2>3
    <3>2. after[i - (k - 1)] = s[(k + 1) + (i - (k - 1)) - 1]
      BY <1>2, <3>1
    <3>3. (k + 1) + (i - (k - 1)) - 1 = i + 1 /\ ~(i <= k - 1)
      BY <1>0, <2>3
    <3>4. t[i] = s[i + 1]
      BY <2>1, <3>2, <3>3
    <3> QED
      BY <2>3, <3>4
  <2> QED
    BY <2>2, <2>3
<1> QED
  BY <1>6, <1>7

\* Taking a request out of an increasing queue.
LEMMA WithoutFacts ==
    ASSUME NEW s \in Seq(Nat), Increasing(s), NEW q
    PROVE  /\ Without(s, q) \in Seq(Nat)
           /\ Increasing(Without(s, q))
           /\ \A i \in DOMAIN Without(s, q) :
                Without(s, q)[i] # q /\ \E j \in DOMAIN s : s[j] = Without(s, q)[i]
<1> DEFINE at == {i \in 1..Len(s) : s[i] = q}
<1>0. Len(s) \in Nat /\ DOMAIN s = 1..Len(s) /\ \A i \in 1..Len(s) : s[i] \in Nat
  BY ElementOfSeq, LenProperties
<1>1. CASE at = {}
  BY <1>0, <1>1 DEF Without
<1>2. CASE at # {}
  <2>1. PICK k \in at :
            Without(s, q) = SubSeq(s, 1, k - 1) \o SubSeq(s, k + 1, Len(s))
    BY <1>2 DEF Without
  <2>2. k \in 1..Len(s) /\ s[k] = q
    BY <2>1
  <2>3. ASSUME NEW t, t = SubSeq(s, 1, k - 1) \o SubSeq(s, k + 1, Len(s))
        PROVE  /\ t \in Seq(Nat)
               /\ Increasing(t)
               /\ \A i \in DOMAIN t : t[i] # q /\ \E j \in DOMAIN s : s[j] = t[i]
    <3>1. /\ t \in Seq(Nat)
          /\ Len(t) = Len(s) - 1
          /\ \A i \in 1..(Len(s) - 1) : t[i] = IF i < k THEN s[i] ELSE s[i + 1]
      BY <2>2, <2>3, CutFacts
    <3>2. DOMAIN t = 1..(Len(s) - 1)
      BY <3>1, LenProperties
    <3>3. ASSUME NEW i \in DOMAIN t, NEW j \in DOMAIN t, i < j
          PROVE  t[i] < t[j]
      <4>1. \E m, n \in DOMAIN s : m < n /\ t[i] = s[m] /\ t[j] = s[n]
        <5>1. CASE i < k /\ j < k
          <6>1. i \in DOMAIN s /\ j \in DOMAIN s
            BY <1>0, <2>2, <3>2, <3>3, <5>1
          <6>2. t[i] = s[i] /\ t[j] = s[j]
            BY <3>1, <3>2, <5>1
          <6> QED
            BY <3>3, <6>1, <6>2
        <5>2. CASE i < k /\ ~(j < k)
          <6>1. i \in DOMAIN s /\ j + 1 \in DOMAIN s /\ i < j + 1
            BY <1>0, <2>2, <3>2, <3>3, <5>2
          <6>2. t[i] = s[i] /\ t[j] = s[j + 1]
            BY <3>1, <3>2, <5>2
          <6> QED
            BY <6>1, <6>2
        <5>3. CASE ~(i < k) /\ ~(j < k)
          <6>1. i + 1 \in DOMAIN s /\ j + 1 \in DOMAIN s /\ i + 1 < j + 1
            BY <1>0, <2>2, <3>2, <3>3, <5>3
          <6>2. t[i] = s[i + 1] /\ t[j] = s[j + 1]
            BY <3>1, <3>2, <5>3
          <6> QED
            BY <6>1, <6>2
        <5>4. ~(~(i < k) /\ j < k)
          BY <1>0, <2>2, <3>2, <3>3
        <5> QED
          BY <5>1, <5>2, <5>3, <5>4
      <4> QED
        BY <4>1 DEF Increasing
    <3>4. ASSUME NEW i \in DOMAIN t
          PROVE  t[i] # q /\ \E j \in DOMAIN s : s[j] = t[i]
      <4>1. CASE i < k
        <5>1. t[i] = s[i] /\ i \in DOMAIN s
          BY <1>0, <2>2, <3>1, <3>2, <4>1
        <5>2. s[i] < s[k] /\ s[i] \in Nat /\ s[k] \in Nat
          BY <1>0, <2>2, <4>1, <5>1 DEF Increasing
        <5> QED
          BY <2>2, <5>1, <5>2
      <4>2. CASE ~(i < k)
        <5>1. i + 1 \in DOMAIN s /\ k < i + 1
          BY <1>0, <2>2, <3>2, <4>2
        <5>2. t[i] = s[i + 1]
          BY <3>1, <3>2, <4>2
        <5>3. s[k] < s[i + 1] /\ s[i + 1] \in Nat /\ s[k] \in Nat
          BY <1>0, <2>2, <5>1 DEF Increasing
        <5> QED
          BY <2>2, <5>1, <5>2, <5>3
      <4> QED
        BY <4>1, <4>2
    <3> QED
      BY <3>1, <3>3, <3>4 DEF Increasing
  <2> QED
    BY <2>1, <2>3
<1> QED
  BY <1>1, <1>2

\* Queueing a request that is newer than all that are queued.
LEMMA AtBackFacts ==
    ASSUME NEW s \in Seq(Nat), Increasing(s), NEW n \in Nat, \A i \in DOMAIN s : s[i] < n
    PROVE  /\ AtBack(s, n) \in Seq(Nat)
           /\ Increasing(AtBack(s, n))
           /\ \A i \in DOMAIN AtBack(s, n) :
                AtBack(s, n)[i] = n \/ \E j \in DOMAIN s : s[j] = AtBack(s, n)[i]
<1> DEFINE t == AtBack(s, n)
<1>0. Len(s) \in Nat /\ DOMAIN s = 1..Len(s)
  BY LenProperties
<1>1. /\ t \in Seq(Nat)
      /\ Len(t) = Len(s) + 1
      /\ \A i \in 1..Len(s) : t[i] = s[i]
      /\ t[Len(s) + 1] = n
  BY AppendProperties DEF AtBack
<1>2. DOMAIN t = 1..(Len(s) + 1)
  BY <1>1, LenProperties
<1> HIDE DEF t
<1>3. \A i \in DOMAIN t : t[i] = n \/ \E j \in DOMAIN s : s[j] = t[i]
  BY <1>0, <1>1, <1>2
<1>4. ASSUME NEW i \in DOMAIN t, NEW j \in DOMAIN t, i < j
      PROVE  t[i] < t[j]
  <2>1. i \in DOMAIN s /\ t[i] = s[i]
    BY <1>0, <1>1, <1>2, <1>4
  <2>2. CASE j = Len(s) + 1
    BY <1>1, <2>1, <2>2
  <2>3. CASE j # Len(s) + 1
    <3>1. j \in DOMAIN s /\ t[j] = s[j]
      BY <1>0, <1>1, <1>2, <2>3
    <3> QED
      BY <1>4, <2>1, <3>1 DEF Increasing
  <2> QED
    BY <2>2, <2>3
<1> QED
  BY <1>1, <1>3, <1>4 DEF Increasing, t

\* Serving the head of a queue: it is older than all that stay queued.
LEMMA TailFacts ==
    ASSUME NEW s \in Seq(Nat), Increasing(s), s # <<>>
    PROVE  /\ Tail(s) \in Seq(Nat)
           /\ Increasing(Tail(s))
           /\ \E j \in DOMAIN s : s[j] = Head(s)
           /\ \A i \in DOMAIN Tail(s) : \E j \in DOMAIN s : s[j] = Tail(s)[i]
           /\ \A j \in DOMAIN s : Head(s) <= s[j]
<1> DEFINE t == Tail(s)
<1>0. Len(s) \in Nat /\ DOMAIN s = 1..Len(s) /\ Len(s) # 0 /\ \A i \in 1..Len(s) : s[i] \in Nat
  BY ElementOfSeq, LenProperties, EmptySeq
<1>1. /\ t \in Seq(Nat)
      /\ Len(t) = Len(s) - 1
      /\ \A i \in 1..Len(t) : t[i] = s[i + 1]
  BY HeadTailProperties
<1>2. DOMAIN t = 1..(Len(s) - 1)
  BY <1>1, LenProperties
<1>3. Head(s) = s[1] /\ 1 \in DOMAIN s
  BY <1>0
<1> HIDE DEF t
<1>4. \A i \in DOMAIN t : t[i] = s[i + 1] /\ i + 1 \in DOMAIN s
  BY <1>0, <1>1, <1>2
<1>5. ASSUME NEW i \in DOMAIN t, NEW j \in DOMAIN t, i < j
      PROVE  t[i] < t[j]
  <2>1. i + 1 < j + 1
    BY <1>0, <1>2, <1>5
  <2> QED
    BY <1>4, <2>1 DEF Increasing
<1>6. ASSUME NEW j \in DOMAIN s
      PROVE  s[1] <= s[j]
  <2>1. CASE j = 1
    BY <1>0, <1>3, <2>1
  <2>2. CASE j # 1
    BY <1>0, <1>3, <2>2 DEF Increasing
  <2> QED
    BY <2>1, <2>2
<1> QED
  BY <1>1, <1>3, <1>4, <1>5, <1>6 DEF Increasing, t

-----------------------------------------------------------------------------
(* The parts of the type invariant, for one resource *)

LockOK(lk, rq, r) ==
    /\ lk \in Lock \cup {None}
    /\ lk # None => /\ lk.request \in DOMAIN rq
                    /\ lk.holder = rq[lk.request].client
                    /\ rq[lk.request].resource = r

QueueOK(s, rq, r) ==
    /\ s \in Seq(Nat)
    /\ Increasing(s)
    /\ \A i \in DOMAIN s : s[i] \in DOMAIN rq /\ rq[s[i]].resource = r

\* The calls recorded in rq are all in rq2, with the client and the resource they had.
Extends(rq, rq2) ==
    /\ rq2 \in Seq(Request)
    /\ DOMAIN rq \subseteq DOMAIN rq2
    /\ \A q \in DOMAIN rq : /\ rq2[q].client = rq[q].client
                            /\ rq2[q].resource = rq[q].resource
                            /\ rq2[q].mode = rq[q].mode

TypePerResource ==
    /\ requests \in Seq(Request)
    /\ locks \in [Resource -> Lock \cup {None}]
    /\ waiting_queue \in [Resource -> Seq(Nat)]
    /\ shared_locks \in [Resource -> SUBSET Client]
    /\ holds \in [Resource -> SUBSET Hold]
    /\ \A r \in Resource : LockOK(locks[r], requests, r)
    /\ \A r \in Resource : QueueOK(waiting_queue[r], requests, r)

LEMMA TypeParts == TypeOK <=> TypePerResource
<1>1. locks \in [Resource -> Lock \cup {None}] =>
        ((\A r \in Resource : LockOK(locks[r], requests, r)) <=> LocksMatchRequests)
  BY DEF LockOK, LocksMatchRequests
<1>2. waiting_queue \in [Resource -> Seq(Nat)] =>
        ((\A r \in Resource : QueueOK(waiting_queue[r], requests, r)) <=>
         \A r \in Resource : /\ Increasing(waiting_queue[r])
                             /\ \A q \in Queued(r) : q \in DOMAIN requests /\ requests[q].resource = r)
  BY DEF QueueOK, Queued
<1> QED
  BY <1>1, <1>2 DEF TypeOK, TypePerResource

LEMMA LockStaysOK ==
    ASSUME NEW rq, NEW rq2, Extends(rq, rq2), NEW lk, NEW r, LockOK(lk, rq, r)
    PROVE  LockOK(lk, rq2, r)
BY DEF LockOK, Extends

LEMMA QueueStaysOK ==
    ASSUME NEW rq, NEW rq2, Extends(rq, rq2), NEW s, NEW r, QueueOK(s, rq, r)
    PROVE  QueueOK(s, rq2, r)
BY DEF QueueOK, Extends

\* What a step has to show about the resource it works on.
LEMMA TypeStep ==
    ASSUME TypeOK, NEW r \in Resource, NEW lk, NEW wq,
           Extends(requests, requests'),
           locks' = [locks EXCEPT ![r] = lk], LockOK(lk, requests', r),
           waiting_queue' = [waiting_queue EXCEPT ![r] = wq], QueueOK(wq, requests', r),
           shared_locks' \in [Resource -> SUBSET Client],
           holds' \in [Resource -> SUBSET Hold]
    PROVE  TypeOK'
<1>1. /\ locks \in [Resource -> Lock \cup {None}]
      /\ waiting_queue \in [Resource -> Seq(Nat)]
      /\ \A x \in Resource : LockOK(locks[x], requests, x)
      /\ \A x \in Resource : QueueOK(waiting_queue[x], requests, x)
  BY TypeParts DEF TypePerResource
<1>2. requests' \in Seq(Request)
  BY DEF Extends
<1>3. locks' \in [Resource -> Lock \cup {None}] /\ waiting_queue' \in [Resource -> Seq(Nat)]
  BY <1>1 DEF LockOK, QueueOK
<1>4. \A x \in Resource : LockOK(locks'[x], requests', x)
  <2> TAKE x \in Resource
  <2>1. CASE x = r
    <3>1. locks'[x] = lk
      BY <1>1, <2>1
    <3> QED
      BY <2>1, <3>1
  <2>2. CASE x # r
    <3>1. locks'[x] = locks[x]
      BY <1>1, <2>2
    <3> QED
      BY <1>1, <3>1, LockStaysOK
  <2> QED
    BY <2>1, <2>2
<1>5. \A x \in Resource : QueueOK(waiting_queue'[x], requests', x)
  <2> TAKE x \in Resource
  <2>1. CASE x = r
    <3>1. waiting_queue'[x] = wq
      BY <1>1, <2>1
    <3> QED
      BY <2>1, <3>1
  <2>2. CASE x # r
    <3>1. waiting_queue'[x] = waiting_queue[x]
      BY <1>1, <2>2
    <3> QED
      BY <1>1, <3>1, QueueStaysOK
  <2> QED
    BY <2>1, <2>2
<1>6. TypePerResource'
  BY <1>2, <1>3, <1>4, <1>5 DEF TypePerResource
<1> QED
  BY <1>6, TypeParts, PTL

\* A new call is recorded behind the others.
LEMMA CallFacts ==
    ASSUME TypeOK, NEW c \in Client, NEW r \in Resource, NEW md \in Mode,
           NEW answer \in {"waiting", "success", "timeout"}, Call(c, r, md, answer)
    PROVE  /\ Extends(requests, requests')
           /\ Len(requests) + 1 \in DOMAIN requests' \ DOMAIN requests
           /\ DOMAIN requests' = DOMAIN requests \cup {Len(requests) + 1}
           /\ requests'[Len(requests) + 1] =
                 [client |-> c, resource |-> r, mode |-> md, answer |-> answer]
           /\ \A q \in DOMAIN requests : requests'[q] = requests[q] /\ q < Len(requests) + 1
<1> DEFINE rec == [client |-> c, resource |-> r, mode |-> md, answer |-> answer]
<1>1. requests \in Seq(Request) /\ requests' = Append(requests, rec)
  BY DEF Call, TypeOK
<1>2. Len(requests) \in Nat /\ DOMAIN requests = 1..Len(requests)
  BY <1>1, LenProperties
<1>3. rec \in Request
  BY ModeAssumption DEF Request
<1> HIDE DEF rec
<1>4. /\ requests' \in Seq(Request)
      /\ Len(requests') = Len(requests) + 1
      /\ \A i \in 1..Len(requests) : requests'[i] = requests[i]
      /\ requests'[Len(requests) + 1] = rec
  BY <1>1, <1>3, AppendProperties
<1>5. DOMAIN requests' = 1..(Len(requests) + 1)
  BY <1>4, LenProperties
<1>6. \A q \in DOMAIN requests : requests'[q] = requests[q] /\ q < Len(requests) + 1
  BY <1>2, <1>4
<1> QED
  BY <1>2, <1>4, <1>5, <1>6 DEF Extends, rec

LEMMA AnswerFacts ==
    ASSUME TypeOK, NEW q \in DOMAIN requests, NEW answer \in {"success", "timeout"},
           Answer(q, answer)
    PROVE  /\ Extends(requests, requests')
           /\ DOMAIN requests' = DOMAIN requests
           /\ requests'[q].answer = answer
           /\ \A p \in DOMAIN requests : p # q => requests'[p] = requests[p]
<1>1. /\ requests \in Seq(Request)
      /\ requests' = [requests EXCEPT ![q].answer = answer]
  BY DEF Answer, TypeOK
<1>2. /\ DOMAIN requests = 1..Len(requests)
      /\ Len(requests) \in Nat
      /\ \A p \in DOMAIN requests : requests[p] \in Request
  BY <1>1, LenProperties, ElementOfSeq
<1>3. /\ DOMAIN requests' = DOMAIN requests
      /\ requests'[q] = [requests[q] EXCEPT !.answer = answer]
      /\ \A p \in DOMAIN requests : p # q => requests'[p] = requests[p]
  BY <1>1
<1>4. /\ requests'[q] \in Request /\ requests'[q].answer = answer
      /\ requests'[q].client = requests[q].client
      /\ requests'[q].resource = requests[q].resource
      /\ requests'[q].mode = requests[q].mode
  BY <1>2, <1>3 DEF Request
<1>5. requests' \in Seq(Request)
  <2>1. requests' \in [1..Len(requests) -> Request]
    BY <1>1, <1>2, <1>3, <1>4
  <2> QED
    BY <1>2, <2>1, IsASeq
<1> QED
  BY <1>3, <1>4, <1>5 DEF Extends

LEMMA ResourceFacts ==
    ASSUME TypeOK, NEW r \in Resource
    PROVE  /\ locks = [locks EXCEPT ![r] = locks[r]]
           /\ waiting_queue = [waiting_queue EXCEPT ![r] = waiting_queue[r]]
           /\ LockOK(locks[r], requests, r)
           /\ QueueOK(waiting_queue[r], requests, r)
           /\ waiting_queue[r] \in Seq(Nat) /\ Increasing(waiting_queue[r])
           /\ Extends(requests, requests)
<1>1. TypePerResource
  BY TypeParts
<1> QED
  BY <1>1 DEF TypePerResource, Extends, QueueOK

\* The lock that a queued or a polling request gets.
LEMMA NewLockFacts ==
    ASSUME TypeOK, NEW q \in DOMAIN requests
    PROVE  /\ NewLock(q) \in Lock
           /\ NewLock(q).request = q
           /\ NewLock(q) # None
           /\ LockOK(NewLock(q), requests, requests[q].resource)
           /\ requests[q].client \in Client /\ requests[q].resource \in Resource
<1>1. requests[q] \in Request /\ q \in Nat \ {0}
  <2>1. requests \in Seq(Request)
    BY DEF TypeOK
  <2>2. DOMAIN requests = 1..Len(requests) /\ Len(requests) \in Nat
    BY <2>1, LenProperties
  <2> QED
    BY <2>1, <2>2, ElementOfSeq
<1>2. /\ requests[q].client \in Client /\ requests[q].resource \in Resource
      /\ requests[q].mode \in Mode
  BY <1>1 DEF Request
<1>3. NewLock(q) \in Lock /\ NewLock(q).request = q
  BY <1>1, <1>2 DEF NewLock, Lock
<1>4. NewLock(q) # None
  BY <1>1, <1>2, NoneAssumption DEF NewLock
<1> QED
  BY <1>2, <1>3, <1>4 DEF LockOK, NewLock

\* ServeNext gives the resource to the oldest request in its queue.
LEMMA ServeFacts ==
    ASSUME TypeOK, NEW r \in Resource, ServeNext(r)
    PROVE  \E lk, wq :
             /\ locks' = [locks EXCEPT ![r] = lk]
             /\ waiting_queue' = [waiting_queue EXCEPT ![r] = wq]
             /\ LockOK(lk, requests, r)
             /\ QueueOK(wq, requests, r)
             /\ \A i \in DOMAIN wq : \E j \in DOMAIN waiting_queue[r] : waiting_queue[r][j] = wq[i]
             /\ lk = None => wq = <<>>
             /\ lk # None => /\ lk.request \in Queued(r)
                            /\ \A w \in Queued(r) : lk.request <= w
<1> DEFINE s == waiting_queue[r]
<1>1. /\ QueueOK(s, requests, r) /\ waiting_queue = [waiting_queue EXCEPT ![r] = s]
      /\ s \in Seq(Nat) /\ Increasing(s)
  BY ResourceFacts
<1>2. CASE s = <<>>
  <2>1. locks' = [locks EXCEPT ![r] = None] /\ waiting_queue' = [waiting_queue EXCEPT ![r] = s]
    BY <1>1, <1>2 DEF ServeNext
  <2>2. LockOK(None, requests, r)
    BY DEF LockOK
  <2> QED
    BY <1>1, <1>2, <2>1, <2>2
<1>3. CASE s # <<>>
  <2> DEFINE lk == NewLock(Head(s))
             wq == Tail(s)
  <2>1. locks' = [locks EXCEPT ![r] = lk] /\ waiting_queue' = [waiting_queue EXCEPT ![r] = wq]
    BY <1>3 DEF ServeNext
  <2>2. /\ wq \in Seq(Nat) /\ Increasing(wq)
        /\ \E j \in DOMAIN s : s[j] = Head(s)
        /\ \A i \in DOMAIN wq : \E j \in DOMAIN s : s[j] = wq[i]
        /\ \A j \in DOMAIN s : Head(s) <= s[j]
    BY <1>1, <1>3, TailFacts
  <2>3. Head(s) \in DOMAIN requests /\ requests[Head(s)].resource = r /\ Head(s) \in Queued(r)
    BY <1>1, <2>2 DEF QueueOK, Queued
  <2>4. LockOK(lk, requests, r) /\ lk # None /\ lk.request = Head(s)
    BY <2>3, NewLockFacts
  <2> HIDE DEF lk, wq
  <2>5. QueueOK(wq, requests, r)
    BY <1>1, <2>2 DEF QueueOK
  <2>6. \A w \in Queued(r) : lk.request <= w
    BY <2>2, <2>4 DEF Queued
  <2> QED
    BY <2>1, <2>2, <2>3, <2>4, <2>5, <2>6
<1> QED
  BY <1>2, <1>3

\* The queue of a resource after request q has left it.
LEMMA LeaveFacts ==
    ASSUME TypeOK, NEW r \in Resource, NEW q
    PROVE  /\ QueueOK(Without(waiting_queue[r], q), requests, r)
           /\ \A i \in DOMAIN Without(waiting_queue[r], q) :
                /\ Without(waiting_queue[r], q)[i] # q
                /\ Without(waiting_queue[r], q)[i] \in Queued(r)
<1>1. QueueOK(waiting_queue[r], requests, r) /\ waiting_queue[r] \in Seq(Nat)
      /\ Increasing(waiting_queue[r])
  BY ResourceFacts
<1>2. /\ Without(waiting_queue[r], q) \in Seq(Nat)
      /\ Increasing(Without(waiting_queue[r], q))
      /\ \A i \in DOMAIN Without(waiting_queue[r], q) :
            /\ Without(waiting_queue[r], q)[i] # q
            /\ \E j \in DOMAIN waiting_queue[r] :
                  waiting_queue[r][j] = Without(waiting_queue[r], q)[i]
  BY <1>1, WithoutFacts
<1>3. ASSUME NEW i \in DOMAIN Without(waiting_queue[r], q)
      PROVE  Without(waiting_queue[r], q)[i] \in Queued(r)
  BY <1>2 DEF Queued
<1> QED
  BY <1>1, <1>2, <1>3 DEF QueueOK, Queued

\* The queue of a resource after the newest request has joined it.
LEMMA JoinFacts ==
    ASSUME TypeOK, NEW r \in Resource, NEW n \in Nat,
           \A q \in DOMAIN requests : q < n
    PROVE  /\ AtBack(waiting_queue[r], n) \in Seq(Nat)
           /\ Increasing(AtBack(waiting_queue[r], n))
           /\ \A i \in DOMAIN AtBack(waiting_queue[r], n) :
                AtBack(waiting_queue[r], n)[i] \in Queued(r) \cup {n}
<1>1. QueueOK(waiting_queue[r], requests, r) /\ waiting_queue[r] \in Seq(Nat)
      /\ Increasing(waiting_queue[r])
  BY ResourceFacts
<1>2. \A i \in DOMAIN waiting_queue[r] : waiting_queue[r][i] < n
  BY <1>1 DEF QueueOK
<1>3. /\ AtBack(waiting_queue[r], n) \in Seq(Nat)
      /\ Increasing(AtBack(waiting_queue[r], n))
      /\ \A i \in DOMAIN AtBack(waiting_queue[r], n) :
            \/ AtBack(waiting_queue[r], n)[i] = n
            \/ \E j \in DOMAIN waiting_queue[r] :
                  waiting_queue[r][j] = AtBack(waiting_queue[r], n)[i]
  BY <1>1, <1>2, AtBackFacts
<1> QED
  BY <1>3 DEF Queued

\* Whatever is told to clients or dropped by them, holds has its type.
LEMMA ToldFacts ==
    ASSUME TypeOK, NEW c \in Client, NEW r \in Resource, NEW md \in Mode, Told(c, r, md)
    PROVE  /\ holds' \in [Resource -> SUBSET Hold]
           /\ \A x \in Resource : x # r => holds'[x] = holds[x]
           /\ holds'[r] = holds[r] \cup {[client |-> c, mode |-> md]}
BY DEF TypeOK, Told, Hold

-----------------------------------------------------------------------------
(* Type correctness *)

LEMMA TypeAcquire ==
    ASSUME TypeOK, NEW c \in Client, NEW r \in Resource, NEW md \in Mode, Acquire(c, r, md)
    PROVE  TypeOK'
<1> DEFINE n == Len(requests) + 1
           lk == [mode |-> md, holder |-> c, request |-> n]
<1>0. /\ shared_locks \in [Resource -> SUBSET Client]
      /\ holds \in [Resource -> SUBSET Hold]
      /\ n \in Nat \ {0}
  <2>1. requests \in Seq(Request)
    BY DEF TypeOK
  <2> QED
    BY <2>1, LenProperties DEF TypeOK
<1>1. PICK answer \in {"waiting", "success", "timeout"} : Call(c, r, md, answer)
  BY DEF Acquire, AcquireFree, AcquireShared, AcquireUpgrade, Enqueue, RefuseAtOnce
<1>2. /\ Extends(requests, requests')
      /\ n \in DOMAIN requests'
      /\ requests'[n].client = c /\ requests'[n].resource = r
      /\ \A q \in DOMAIN requests : q < n
  <2>1. /\ Extends(requests, requests')
        /\ n \in DOMAIN requests'
        /\ requests'[n] = [client |-> c, resource |-> r, mode |-> md, answer |-> answer]
        /\ \A q \in DOMAIN requests : requests'[q] = requests[q] /\ q < n
    BY <1>1, CallFacts, Zenon
  <2> QED
    BY <2>1
<1>3. LockOK(lk, requests', r)
  BY <1>0, <1>2 DEF LockOK, Lock
<1>4. /\ locks = [locks EXCEPT ![r] = locks[r]]
      /\ waiting_queue = [waiting_queue EXCEPT ![r] = waiting_queue[r]]
      /\ LockOK(locks[r], requests', r)
      /\ QueueOK(waiting_queue[r], requests', r)
  BY <1>2, ResourceFacts, LockStaysOK, QueueStaysOK
<1>5. CASE AcquireFree(c, r, md) \/ AcquireUpgrade(c, r, md)
  <2>1. /\ locks' = [locks EXCEPT ![r] = lk]
        /\ waiting_queue' = [waiting_queue EXCEPT ![r] = waiting_queue[r]]
        /\ shared_locks' = shared_locks /\ Told(c, r, md)
    BY <1>4, <1>5 DEF AcquireFree, AcquireUpgrade
  <2>2. holds' \in [Resource -> SUBSET Hold]
    BY <2>1, ToldFacts
  <2> HIDE DEF lk, n
  <2> QED
    BY <1>0, <1>2, <1>3, <1>4, <2>1, <2>2, TypeStep
<1>6. CASE AcquireShared(c, r, md)
  <2>1. /\ locks' = [locks EXCEPT ![r] = locks[r]]
        /\ waiting_queue' = [waiting_queue EXCEPT ![r] = waiting_queue[r]]
        /\ shared_locks' = [shared_locks EXCEPT ![r] = @ \cup {c}]
        /\ Told(c, r, md)
    BY <1>4, <1>6 DEF AcquireShared
  <2>2. holds' \in [Resource -> SUBSET Hold]
    BY <2>1, ToldFacts
  <2>3. shared_locks' \in [Resource -> SUBSET Client]
    BY <1>0, <2>1
  <2> QED
    BY <1>2, <1>4, <2>1, <2>2, <2>3, TypeStep
<1>7. CASE Enqueue(c, r, md)
  <2> DEFINE wq == AtBack(waiting_queue[r], n)
  <2>1. /\ locks' = [locks EXCEPT ![r] = locks[r]]
        /\ waiting_queue' = [waiting_queue EXCEPT ![r] = wq]
        /\ shared_locks' = shared_locks /\ holds' = holds
    BY <1>4, <1>7 DEF Enqueue
  <2>2. /\ wq \in Seq(Nat) /\ Increasing(wq)
        /\ \A i \in DOMAIN wq : wq[i] \in Queued(r) \cup {n}
    BY <1>0, <1>2, JoinFacts
  <2>3. \A q \in Queued(r) : q \in DOMAIN requests' /\ requests'[q].resource = r
    BY <1>4 DEF QueueOK, Queued
  <2> HIDE DEF wq, n
  <2>4. QueueOK(wq, requests', r)
    BY <1>2, <2>2, <2>3 DEF QueueOK
  <2> QED
    BY <1>0, <1>2, <1>4, <2>1, <2>4, TypeStep
<1>8. CASE RefuseAtOnce(c, r, md)
  <2>1. /\ locks' = [locks EXCEPT ![r] = locks[r]]
        /\ waiting_queue' = [waiting_queue EXCEPT ![r] = waiting_queue[r]]
        /\ shared_locks' = shared_locks /\ holds' = holds
    BY <1>4, <1>8 DEF RefuseAtOnce
  <2> QED
    BY <1>0, <1>2, <1>4, <2>1, TypeStep
<1> QED
  BY <1>5, <1>6, <1>7, <1>8 DEF Acquire

LEMMA TypeWait ==
    ASSUME TypeOK, NEW q \in DOMAIN requests, PollTakes(q) \/ PollFinds(q) \/ GiveUp(q)
    PROVE  TypeOK'
<1>0. PICK r \in Resource, c \in Client, md \in Mode :
          r = requests[q].resource /\ c = requests[q].client /\ md = requests[q].mode
  <2>1. requests[q].resource \in Resource /\ requests[q].client \in Client
    BY NewLockFacts
  <2>2. requests[q].mode \in Mode
    BY NewLockFacts DEF NewLock, Lock
  <2> QED
    BY <2>1, <2>2
<1>1. PICK answer \in {"success", "timeout"} : Answer(q, answer)
  BY DEF PollTakes, PollFinds, GiveUp
<1>2. Extends(requests, requests')
  BY <1>1, AnswerFacts
<1>3. /\ shared_locks \in [Resource -> SUBSET Client]
      /\ holds \in [Resource -> SUBSET Hold]
  BY DEF TypeOK
<1>4. /\ locks = [locks EXCEPT ![r] = locks[r]]
      /\ waiting_queue = [waiting_queue EXCEPT ![r] = waiting_queue[r]]
      /\ LockOK(locks[r], requests', r)
      /\ QueueOK(waiting_queue[r], requests', r)
  BY <1>2, ResourceFacts, LockStaysOK, QueueStaysOK
<1>5. QueueOK(Without(waiting_queue[r], q), requests', r)
  BY <1>2, LeaveFacts, QueueStaysOK
<1>6. waiting_queue \in [Resource -> Seq(Nat)]
  BY DEF TypeOK
<1>7. CASE PollTakes(q)
  <2>1. LockOK(NewLock(q), requests', r)
    BY <1>0, <1>2, NewLockFacts, LockStaysOK
  <2>2. /\ locks' = [locks EXCEPT ![r] = NewLock(q)]
        /\ waiting_queue' = [waiting_queue EXCEPT ![r] = Without(waiting_queue[r], q)]
        /\ shared_locks' = shared_locks /\ Told(c, r, md)
    BY <1>0, <1>6, <1>7 DEF PollTakes
  <2>3. holds' \in [Resource -> SUBSET Hold]
    BY <2>2, ToldFacts
  <2> QED
    BY <1>2, <1>3, <1>5, <2>1, <2>2, <2>3, TypeStep
<1>8. CASE PollFinds(q)
  <2>1. /\ locks' = [locks EXCEPT ![r] = locks[r]]
        /\ waiting_queue' = [waiting_queue EXCEPT ![r] = waiting_queue[r]]
        /\ shared_locks' = shared_locks /\ Told(c, r, md)
    BY <1>0, <1>4, <1>8 DEF PollFinds
  <2>2. holds' \in [Resource -> SUBSET Hold]
    BY <2>1, ToldFacts
  <2> QED
    BY <1>2, <1>3, <1>4, <2>1, <2>2, TypeStep
<1>9. CASE GiveUp(q)
  <2>1. /\ locks' = [locks EXCEPT ![r] = locks[r]]
        /\ waiting_queue' = [waiting_queue EXCEPT ![r] = Without(waiting_queue[r], q)]
        /\ shared_locks' = shared_locks /\ holds' = holds
    BY <1>0, <1>4, <1>6, <1>9 DEF GiveUp
  <2> QED
    BY <1>2, <1>3, <1>4, <1>5, <2>1, TypeStep
<1> QED
  BY <1>7, <1>8, <1>9

LEMMA TypeLeave ==
    ASSUME TypeOK, NEW c \in Client, NEW r \in Resource,
           Release(c, r) \/ ReleaseRefused(c, r) \/ Expire(r)
    PROVE  TypeOK'
<1>1. /\ shared_locks \in [Resource -> SUBSET Client]
      /\ holds \in [Resource -> SUBSET Hold]
      /\ Extends(requests, requests)
  BY ResourceFacts DEF TypeOK
<1>2. shared_locks' \in [Resource -> SUBSET Client] /\ holds' \in [Resource -> SUBSET Hold]
  BY <1>1 DEF Release, ReleaseRefused, Expire
<1>3. requests' = requests
  BY DEF Release, ReleaseRefused, Expire
<1>4. CASE ServeNext(r)
  <2>1. PICK lk, wq : /\ locks' = [locks EXCEPT ![r] = lk]
                      /\ waiting_queue' = [waiting_queue EXCEPT ![r] = wq]
                      /\ LockOK(lk, requests, r)
                      /\ QueueOK(wq, requests, r)
    BY <1>4, ServeFacts
  <2> QED
    BY <1>1, <1>2, <1>3, <2>1, TypeStep
<1>5. CASE ReleaseRefused(c, r)
  <2>1. /\ locks' = [locks EXCEPT ![r] = locks[r]]
        /\ waiting_queue' = [waiting_queue EXCEPT ![r] = waiting_queue[r]]
        /\ LockOK(locks[r], requests, r) /\ QueueOK(waiting_queue[r], requests, r)
    BY <1>5, ResourceFacts DEF ReleaseRefused
  <2> QED
    BY <1>1, <1>2, <1>3, <2>1, TypeStep
<1> QED
  BY <1>4, <1>5 DEF Release, Expire

LEMMA TypeNext ==
    ASSUME TypeOK, [Next]_vars
    PROVE  TypeOK'
<1>1. ASSUME NEW c \in Client, NEW r \in Resource, NEW md \in Mode, Acquire(c, r, md)
      PROVE  TypeOK'
  BY <1>1, TypeAcquire
<1>2. ASSUME NEW q \in DOMAIN requests, PollTakes(q) \/ PollFinds(q) \/ GiveUp(q)
      PROVE  TypeOK'
  BY <1>2, TypeWait
<1>3. ASSUME NEW c \in Client, NEW r \in Resource, Release(c, r) \/ ReleaseRefused(c, r)
      PROVE  TypeOK'
  BY <1>3, TypeLeave
<1>4. ASSUME NEW r \in Resource, Expire(r)
      PROVE  TypeOK'
  <2>1. CASE Client = {}
    \* without clients there is no lock to expire
    <3>1. locks[r] # None /\ locks[r] \in Lock \cup {None}
      BY <1>4 DEF Expire, TypeOK
    <3> QED
      BY <2>1, <3>1 DEF Lock
  <2>2. CASE Client # {}
    BY <1>4, <2>2, TypeLeave
  <2> QED
    BY <2>1, <2>2
<1>5. CASE UNCHANGED vars
  BY <1>5 DEF vars, TypeOK, LocksMatchRequests, Queued, Increasing
<1> QED
  BY <1>1, <1>2, <1>3, <1>4, <1>5 DEF Next

LEMMA TypeInit == Init => TypeOK
<1> SUFFICES ASSUME Init PROVE TypeOK
  OBVIOUS
<1>1. /\ <<>> \in Seq(Request) /\ <<>> \in Seq(Nat) /\ Increasing(<<>>)
      /\ \A r \in Resource : Queued(r) = {}
  BY DEF Increasing, Init, Queued
<1>2. LocksMatchRequests
  BY DEF Init, LocksMatchRequests
<1> QED
  BY <1>1, <1>2 DEF Init, TypeOK

\* The tables keep their types, a queue holds requests for its own resource in
\* the order they arrived and a lock is that of a request.
THEOREM TypeCorrect == Spec => []TypeOK
<1>1. Init => TypeOK
  BY TypeInit
<1>2. TypeOK /\ [Next]_vars => TypeOK'
  BY TypeNext
<1> QED
  BY <1>1, <1>2, PTL DEF Spec

-----------------------------------------------------------------------------
(* What any step does to the tables *)

NewRequests == DOMAIN requests' \ DOMAIN requests

\* The step leaves the lock lk and the queue wq at resource r: it empties the
\* queue before it leaves no lock, only new requests join the queue, and the
\* lock goes to a new request, to one that still waits or to the oldest in
\* the queue.
TableStep(r, lk, wq) ==
    /\ locks' = [locks EXCEPT ![r] = lk]
    /\ waiting_queue' = [waiting_queue EXCEPT ![r] = wq]
    /\ lk = None => wq = <<>>
    /\ \A i \in DOMAIN wq : wq[i] \in Queued(r) \cup NewRequests
    /\ lk # None =>
         \/ lk = locks[r]
         \/ lk.request \in NewRequests
         \/ /\ lk.request \in Queued(r)
            /\ \A w \in Queued(r) : lk.request <= w
         \/ /\ IsWaiting(lk.request)
            /\ Queued(r) = {}

LEMMA StaysStep ==
    ASSUME TypeOK, NoLostWakeup, NEW r \in Resource,
           UNCHANGED <<locks, waiting_queue>>
    PROVE  TableStep(r, locks[r], waiting_queue[r])
<1>1. /\ locks = [locks EXCEPT ![r] = locks[r]]
      /\ waiting_queue = [waiting_queue EXCEPT ![r] = waiting_queue[r]]
  BY ResourceFacts
<1>2. locks[r] = None => waiting_queue[r] = <<>>
  BY DEF NoLostWakeup
<1> QED
  BY <1>1, <1>2 DEF TableStep, Queued

LEMMA AcquireStep ==
    ASSUME TypeOK, NoLostWakeup,
           NEW c \in Client, NEW r \in Resource, NEW md \in Mode, Acquire(c, r, md)
    PROVE  \E lk, wq : TableStep(r, lk, wq)
<1> DEFINE n == Len(requests) + 1
           lk == [mode |-> md, holder |-> c, request |-> n]
<1>1. PICK answer \in {"waiting", "success", "timeout"} : Call(c, r, md, answer)
  BY DEF Acquire, AcquireFree, AcquireShared, AcquireUpgrade, Enqueue, RefuseAtOnce
<1>2. n \in NewRequests /\ n \in Nat /\ \A q \in DOMAIN requests : q < n
  <2>1. n \in NewRequests /\ \A q \in DOMAIN requests : q < n
    BY <1>1, CallFacts DEF NewRequests
  <2>2. requests \in Seq(Request)
    BY DEF TypeOK
  <2> QED
    BY <2>1, <2>2, LenProperties
<1>3. waiting_queue = [waiting_queue EXCEPT ![r] = waiting_queue[r]]
      /\ locks = [locks EXCEPT ![r] = locks[r]]
  BY ResourceFacts
<1>4. CASE AcquireFree(c, r, md) \/ AcquireUpgrade(c, r, md)
  <2>1. /\ locks' = [locks EXCEPT ![r] = lk]
        /\ waiting_queue' = [waiting_queue EXCEPT ![r] = waiting_queue[r]]
    BY <1>3, <1>4 DEF AcquireFree, AcquireUpgrade
  <2>2. lk.request \in NewRequests
    BY <1>2
  <2>3. lk # None
    BY <1>2, NoneAssumption
  <2> HIDE DEF lk
  <2>4. TableStep(r, lk, waiting_queue[r])
    BY <2>1, <2>2, <2>3 DEF TableStep, Queued
  <2> QED
    BY <2>4
<1>5. CASE Enqueue(c, r, md)
  <2> DEFINE wq == AtBack(waiting_queue[r], n)
  <2>1. /\ locks' = [locks EXCEPT ![r] = locks[r]]
        /\ waiting_queue' = [waiting_queue EXCEPT ![r] = wq]
        /\ locks[r] # None
    BY <1>3, <1>5 DEF Enqueue, MustWait
  <2>2. \A i \in DOMAIN wq : wq[i] \in Queued(r) \cup {n}
    BY <1>2, JoinFacts
  <2> HIDE DEF wq, n
  <2>3. TableStep(r, locks[r], wq)
    BY <1>2, <2>1, <2>2 DEF TableStep
  <2> QED
    BY <2>3
<1>6. CASE AcquireShared(c, r, md) \/ RefuseAtOnce(c, r, md)
  <2>1. UNCHANGED <<locks, waiting_queue>>
    BY <1>6 DEF AcquireShared, RefuseAtOnce
  <2> QED
    BY <2>1, StaysStep
<1> QED
  BY <1>4, <1>5, <1>6 DEF Acquire

LEMMA WaitStep ==
    ASSUME TypeOK, NoLostWakeup, NEW q \in DOMAIN requests,
           PollTakes(q) \/ PollFinds(q) \/ GiveUp(q)
    PROVE  \E lk, wq : TableStep(requests[q].resource, lk, wq)
<1>0. PICK r \in Resource : r = requests[q].resource
  BY NewLockFacts
<1> DEFINE wq == Without(waiting_queue[r], q)
<1>1. \A i \in DOMAIN wq : wq[i] \in Queued(r)
  BY LeaveFacts
<1>2. waiting_queue \in [Resource -> Seq(Nat)] /\ locks = [locks EXCEPT ![r] = locks[r]]
  BY ResourceFacts DEF TypeOK
<1>3. CASE PollTakes(q)
  <2>1. /\ locks' = [locks EXCEPT ![r] = NewLock(q)]
        /\ waiting_queue' = [waiting_queue EXCEPT ![r] = wq]
        /\ locks[r] = None /\ IsWaiting(q)
    BY <1>0, <1>2, <1>3 DEF PollTakes, FindsFree
  <2>2. NewLock(q).request = q /\ NewLock(q) # None
    BY NewLockFacts
  <2>3. Queued(r) = {}
    BY <2>1 DEF NoLostWakeup, Queued
  <2> HIDE DEF wq
  <2>4. TableStep(r, NewLock(q), wq)
    BY <1>1, <2>1, <2>2, <2>3 DEF TableStep
  <2> QED
    BY <1>0, <2>4
<1>4. CASE PollFinds(q)
  <2>1. UNCHANGED <<locks, waiting_queue>>
    BY <1>4 DEF PollFinds
  <2> QED
    BY <1>0, <2>1, StaysStep
<1>5. CASE GiveUp(q)
  <2>1. /\ locks' = [locks EXCEPT ![r] = locks[r]]
        /\ waiting_queue' = [waiting_queue EXCEPT ![r] = wq]
        /\ locks[r] # None
    BY <1>0, <1>2, <1>5 DEF GiveUp, PollFailed, FindsFree
  <2> HIDE DEF wq
  <2>2. TableStep(r, locks[r], wq)
    BY <1>1, <2>1 DEF TableStep
  <2> QED
    BY <1>0, <2>2
<1> QED
  BY <1>3, <1>4, <1>5

LEMMA LeaveStep ==
    ASSUME TypeOK, NoLostWakeup, NEW r \in Resource,
           ServeNext(r) \/ \E c \in Client : ReleaseRefused(c, r)
    PROVE  \E lk, wq : TableStep(r, lk, wq)
<1>1. CASE ServeNext(r)
  <2>1. PICK lk, wq :
             /\ locks' = [locks EXCEPT ![r] = lk]
             /\ waiting_queue' = [waiting_queue EXCEPT ![r] = wq]
             /\ LockOK(lk, requests, r)
             /\ QueueOK(wq, requests, r)
             /\ \A i \in DOMAIN wq : \E j \in DOMAIN waiting_queue[r] : waiting_queue[r][j] = wq[i]
             /\ lk = None => wq = <<>>
             /\ lk # None => /\ lk.request \in Queued(r)
                            /\ \A w \in Queued(r) : lk.request <= w
    BY <1>1, ServeFacts, Zenon
  <2>2. \A i \in DOMAIN wq : wq[i] \in Queued(r)
    BY <2>1 DEF Queued
  <2>3. TableStep(r, lk, wq)
    BY <2>1, <2>2 DEF TableStep
  <2> QED
    BY <2>3
<1>2. CASE \E c \in Client : ReleaseRefused(c, r)
  <2>1. UNCHANGED <<locks, waiting_queue>>
    BY <1>2 DEF ReleaseRefused
  <2> QED
    BY <2>1, StaysStep
<1> QED
  BY <1>1, <1>2

LEMMA EveryStep ==
    ASSUME TypeOK, NoLostWakeup, Next
    PROVE  \E r \in Resource : \E lk, wq : TableStep(r, lk, wq)
<1>1. ASSUME NEW c \in Client, NEW r \in Resource, NEW md \in Mode, Acquire(c, r, md)
      PROVE  \E x \in Resource : \E lk, wq : TableStep(x, lk, wq)
  BY <1>1, AcquireStep
<1>2. ASSUME NEW q \in DOMAIN requests, PollTakes(q) \/ PollFinds(q) \/ GiveUp(q)
      PROVE  \E x \in Resource : \E lk, wq : TableStep(x, lk, wq)
  BY <1>2, WaitStep, NewLockFacts
<1>3. ASSUME NEW c \in Client, NEW r \in Resource,
             Release(c, r) \/ ReleaseRefused(c, r) \/ Expire(r)
      PROVE  \E x \in Resource : \E lk, wq : TableStep(x, lk, wq)
  BY <1>3, LeaveStep DEF Release, Expire
<1>4. ASSUME NEW r \in Resource, Expire(r)
      PROVE  \E x \in Resource : \E lk, wq : TableStep(x, lk, wq)
  BY <1>4, LeaveStep DEF Expire
<1> QED
  BY <1>1, <1>2, <1>3, <1>4 DEF Next

-----------------------------------------------------------------------------
(* No lost wake-up, service in order *)

LEMMA WakeupNext ==
    ASSUME TypeOK, NoLostWakeup, [Next]_vars
    PROVE  NoLostWakeup'
<1>1. CASE Next
  <2>0. PICK r \in Resource : \E lk, wq : TableStep(r, lk, wq)
    BY <1>1, EveryStep
  <2>1. PICK lk, wq : TableStep(r, lk, wq)
    BY <2>0
  <2>2. locks \in [Resource -> Lock \cup {None}] /\ waiting_queue \in [Resource -> Seq(Nat)]
    BY DEF TypeOK
  <2>3. ASSUME NEW x \in Resource, waiting_queue'[x] # <<>>
        PROVE  locks'[x] # None
    <3>1. CASE x = r
      BY <2>1, <2>2, <2>3, <3>1 DEF TableStep
    <3>2. CASE x # r
      BY <2>1, <2>2, <2>3, <3>2 DEF TableStep, NoLostWakeup
    <3> QED
      BY <3>1, <3>2
  <2> QED
    BY <2>3 DEF NoLostWakeup
<1>2. CASE UNCHANGED vars
  BY <1>2 DEF vars, NoLostWakeup
<1> QED
  BY <1>1, <1>2

\* Every release and every expiry hands the resource to a queued request: none
\* is left asleep before a free resource.
THEOREM WakeupsAreKept == Spec => []NoLostWakeup
<1>1. Init => NoLostWakeup
  BY DEF Init, NoLostWakeup
<1>2. TypeOK /\ NoLostWakeup /\ [Next]_vars => NoLostWakeup'
  BY WakeupNext
<1> QED
  BY <1>1, <1>2, TypeCorrect, PTL DEF Spec

LEMMA OrderNext ==
    ASSUME TypeOK, NoLostWakeup, Next,
           NEW r \in Resource, NEW q \in Queued(r),
           locks'[r] # locks[r], locks'[r] # None, locks'[r].request = q,
           NEW w \in Queued(r)
    PROVE  q <= w
<1>0. PICK x \in Resource : \E lk, wq : TableStep(x, lk, wq)
  BY EveryStep
<1>1. PICK lk, wq : TableStep(x, lk, wq)
  BY <1>0
<1>2. locks \in [Resource -> Lock \cup {None}]
  BY DEF TypeOK
<1>3. x = r /\ locks'[r] = lk
  BY <1>1, <1>2 DEF TableStep
<1>4. q \in DOMAIN requests
  BY DEF TypeOK
<1>5. q \notin NewRequests
  BY <1>4 DEF NewRequests
<1> QED
  BY <1>1, <1>3, <1>5 DEF TableStep

\* A resource goes from the queue to the request that has waited longest.
THEOREM OldestFirst == Spec => ServedInOrder
<1>1. ASSUME TypeOK, NoLostWakeup, [Next]_vars
      PROVE  [\A r \in Resource : \A q \in Queued(r) :
                locks'[r] # locks[r] /\ locks'[r] # None /\ locks'[r].request = q
                   => \A w \in Queued(r) : q <= w]_vars
  <2>1. CASE Next
    BY <1>1, <2>1, OrderNext
  <2>2. CASE UNCHANGED vars
    BY <2>2
  <2> QED
    BY <1>1, <2>1, <2>2
<1> QED
  BY <1>1, TypeCorrect, WakeupsAreKept, PTL DEF Spec, ServedInOrder

LEMMA NewcomerNext ==
    ASSUME TypeOK, NoLostWakeup, Next, NEW q \in DOMAIN requests' \ DOMAIN requests,
           requests'[q].mode = "exclusive", requests'[q].answer = "success"
    PROVE  \/ waiting_queue[requests'[q].resource] = <<>>
           \/ locks[requests'[q].resource].holder = requests'[q].client
<1>1. ASSUME NEW p \in DOMAIN requests, PollTakes(p) \/ PollFinds(p) \/ GiveUp(p)
      PROVE  FALSE
  BY <1>1, AnswerFacts DEF PollTakes, PollFinds, GiveUp
<1>2. UNCHANGED requests => FALSE
  OBVIOUS
<1>3. PICK c \in Client, r \in Resource, md \in Mode : Acquire(c, r, md)
  BY <1>1, <1>2 DEF Next, Release, ReleaseRefused, Expire
<1>4. PICK answer \in {"waiting", "success", "timeout"} :
        /\ Call(c, r, md, answer)
        /\ answer = "success" =>
              AcquireFree(c, r, md) \/ AcquireShared(c, r, md) \/ AcquireUpgrade(c, r, md)
  BY <1>3 DEF Acquire, AcquireFree, AcquireShared, AcquireUpgrade, Enqueue, RefuseAtOnce
<1>5. /\ requests'[q].client = c /\ requests'[q].resource = r
      /\ requests'[q].mode = md /\ requests'[q].answer = answer
  <2>1. /\ DOMAIN requests' = DOMAIN requests \cup {Len(requests) + 1}
        /\ requests'[Len(requests) + 1] =
              [client |-> c, resource |-> r, mode |-> md, answer |-> answer]
    BY <1>4, CallFacts, Zenon
  <2>2. q = Len(requests) + 1
    BY <2>1, Zenon
  <2>3. requests'[q] = [client |-> c, resource |-> r, mode |-> md, answer |-> answer]
    BY <2>1, <2>2, Zenon
  <2> QED
    BY <2>3
<1>6. CASE AcquireFree(c, r, md)
  BY <1>5, <1>6 DEF AcquireFree, NoLostWakeup
<1>7. CASE AcquireShared(c, r, md)
  BY <1>5, <1>7 DEF AcquireShared, Joins
<1>8. CASE AcquireUpgrade(c, r, md)
  BY <1>5, <1>8 DEF AcquireUpgrade, Upgrades
<1> QED
  BY <1>4, <1>5, <1>6, <1>7, <1>8

\* No exclusive request passes those that are queued, except the holder's own.
THEOREM NobodyIsPassed == Spec => NewcomersWait
<1>1. ASSUME TypeOK, NoLostWakeup, [Next]_vars
      PROVE  [\A q \in DOMAIN requests' \ DOMAIN requests :
                LET new == requests'[q]
                IN  new.mode = "exclusive" /\ new.answer = "success" =>
                       \/ waiting_queue[new.resource] = <<>>
                       \/ locks[new.resource].holder = new.client]_vars
  <2>1. CASE Next
    BY <1>1, <2>1, NewcomerNext
  <2>2. CASE UNCHANGED vars
    BY <2>2
  <2> QED
    BY <1>1, <2>1, <2>2
<1> QED
  BY <1>1, TypeCorrect, WakeupsAreKept, PTL DEF Spec, NewcomersWait

-----------------------------------------------------------------------------
(* A refused request is never granted *)

Unrecorded(q) ==
    \A r \in Resource : q \notin Queued(r) /\ (locks[r] # None => locks[r].request # q)

\* A refused request stays out of the tables whatever the step does.
LEMMA StaysUnrecorded ==
    ASSUME TypeOK, NoLostWakeup, Next,
           NEW q \in DOMAIN requests, ~IsWaiting(q), Unrecorded(q)
    PROVE  Unrecorded(q)'
<1>0. PICK r \in Resource : \E lk, wq : TableStep(r, lk, wq)
  BY EveryStep
<1>1. PICK lk, wq : TableStep(r, lk, wq)
  BY <1>0
<1>2. locks \in [Resource -> Lock \cup {None}] /\ waiting_queue \in [Resource -> Seq(Nat)]
  BY DEF TypeOK
<1>3. q \notin NewRequests
  BY DEF NewRequests
<1>4. ASSUME NEW x \in Resource
      PROVE  q \notin Queued(x)'
  <2>1. CASE x = r
    <3>1. waiting_queue'[x] = wq
      BY <1>1, <1>2, <2>1 DEF TableStep
    <3> QED
      BY <1>1, <1>3, <2>1, <3>1 DEF TableStep, Unrecorded, Queued
  <2>2. CASE x # r
    <3>1. waiting_queue'[x] = waiting_queue[x]
      BY <1>1, <1>2, <2>2 DEF TableStep
    <3> QED
      BY <3>1 DEF Unrecorded, Queued
  <2> QED
    BY <2>1, <2>2
<1>5. ASSUME NEW x \in Resource, locks'[x] # None
      PROVE  locks'[x].request # q
  <2>1. CASE x = r
    <3>1. locks'[x] = lk
      BY <1>1, <1>2, <2>1 DEF TableStep
    <3> QED
      BY <1>1, <1>3, <1>5, <2>1, <3>1 DEF TableStep, Unrecorded
  <2>2. CASE x # r
    <3>1. locks'[x] = locks[x]
      BY <1>1, <1>2, <2>2 DEF TableStep
    <3> QED
      BY <1>5, <3>1 DEF Unrecorded
  <2> QED
    BY <2>1, <2>2
<1> QED
  BY <1>4, <1>5 DEF Unrecorded

\* When a request is refused it leaves its queue and no lock bears its number.
LEMMA RefusalUnrecorded ==
    ASSUME TypeOK, NEW q \in DOMAIN requests, GiveUp(q)
    PROVE  Unrecorded(q)'
<1>0. PICK r \in Resource : r = requests[q].resource
  BY NewLockFacts
<1>1. /\ locks' = locks
      /\ waiting_queue' = [waiting_queue EXCEPT ![r] = Without(waiting_queue[r], q)]
  BY <1>0 DEF GiveUp, TypeOK
<1>2. TypePerResource
  BY TypeParts
<1>3. ASSUME NEW x \in Resource
      PROVE  q \notin Queued(x)'
  <2>1. CASE x = r
    <3>1. waiting_queue'[x] = Without(waiting_queue[r], q)
      BY <1>1, <1>2, <2>1 DEF TypePerResource
    <3>2. \A i \in DOMAIN Without(waiting_queue[r], q) : Without(waiting_queue[r], q)[i] # q
      BY LeaveFacts
    <3> QED
      BY <3>1, <3>2 DEF Queued
  <2>2. CASE x # r
    <3>1. waiting_queue'[x] = waiting_queue[x]
      BY <1>1, <1>2, <2>2 DEF TypePerResource
    <3>2. QueueOK(waiting_queue[x], requests, x)
      BY <1>2 DEF TypePerResource
    <3> QED
      BY <1>0, <2>2, <3>1, <3>2 DEF Queued, QueueOK
  <2> QED
    BY <2>1, <2>2
<1>4. ASSUME NEW x \in Resource, locks[x] # None
      PROVE  locks[x].request # q
  <2>1. LockOK(locks[x], requests, x)
    BY <1>2 DEF TypePerResource
  <2> QED
    BY <1>0, <1>4, <2>1 DEF GiveUp, PollFailed, FindsItself, LockOK
<1> QED
  BY <1>1, <1>3, <1>4 DEF Unrecorded

LEMMA RefusalNext ==
    ASSUME TypeOK, NoLostWakeup, RefusedNeverGranted, [Next]_vars
    PROVE  RefusedNeverGranted'
<1>0. \A p \in DOMAIN requests : requests[p].answer = "timeout" => Unrecorded(p)
  BY DEF RefusedNeverGranted, Unrecorded
<1>1. ASSUME Next, NEW q \in DOMAIN requests, requests[q].answer = "timeout"
      PROVE  Unrecorded(q)'
  BY <1>0, <1>1, StaysUnrecorded DEF IsWaiting
<1>2. ASSUME NEW c \in Client, NEW r \in Resource, NEW md \in Mode, Acquire(c, r, md),
             NEW q \in DOMAIN requests', requests'[q].answer = "timeout"
      PROVE  Unrecorded(q)'
  <2>1. PICK answer \in {"waiting", "success", "timeout"} :
          /\ Call(c, r, md, answer)
          /\ answer = "timeout" => RefuseAtOnce(c, r, md)
    BY <1>2 DEF Acquire, AcquireFree, AcquireShared, AcquireUpgrade, Enqueue, RefuseAtOnce
  <2>2. /\ Len(requests) + 1 \notin DOMAIN requests
        /\ DOMAIN requests' = DOMAIN requests \cup {Len(requests) + 1}
        /\ requests'[Len(requests) + 1].answer = answer
        /\ \A p \in DOMAIN requests : requests'[p] = requests[p]
    <3>1. /\ Len(requests) + 1 \in DOMAIN requests' \ DOMAIN requests
          /\ DOMAIN requests' = DOMAIN requests \cup {Len(requests) + 1}
          /\ requests'[Len(requests) + 1] =
                [client |-> c, resource |-> r, mode |-> md, answer |-> answer]
          /\ \A p \in DOMAIN requests : requests'[p] = requests[p] /\ p < Len(requests) + 1
      BY <2>1, CallFacts, Zenon
    <3> QED
      BY <3>1
  <2>3. CASE q \in DOMAIN requests
    BY <1>1, <1>2, <2>2, <2>3 DEF Next
  <2>4. CASE q = Len(requests) + 1
    <3>1. UNCHANGED <<locks, waiting_queue>>
      BY <1>2, <2>1, <2>2, <2>4 DEF RefuseAtOnce
    <3>2. Unrecorded(q)
      BY <2>2, <2>4 DEF TypeOK, LocksMatchRequests, Unrecorded
    <3> QED
      BY <3>1, <3>2 DEF Unrecorded, Queued
  <2> QED
    BY <1>2, <2>2, <2>3, <2>4
<1>3. ASSUME NEW p \in DOMAIN requests, PollTakes(p) \/ PollFinds(p) \/ GiveUp(p),
             NEW q \in DOMAIN requests', requests'[q].answer = "timeout"
      PROVE  Unrecorded(q)'
  <2>1. PICK answer \in {"success", "timeout"} :
          Answer(p, answer) /\ (answer = "timeout" => GiveUp(p))
    BY <1>3 DEF PollTakes, PollFinds, GiveUp
  <2>2. /\ DOMAIN requests' = DOMAIN requests
        /\ requests'[p].answer = answer
        /\ \A x \in DOMAIN requests : x # p => requests'[x] = requests[x]
    BY <2>1, AnswerFacts
  <2>3. CASE q = p
    BY <1>3, <2>1, <2>2, <2>3, RefusalUnrecorded
  <2>4. CASE q # p
    BY <1>1, <1>3, <2>2, <2>4 DEF Next
  <2> QED
    BY <2>3, <2>4
<1>4. ASSUME Next, UNCHANGED requests,
             NEW q \in DOMAIN requests', requests'[q].answer = "timeout"
      PROVE  Unrecorded(q)'
  BY <1>1, <1>4
<1>5. ASSUME Next, NEW q \in DOMAIN requests', requests'[q].answer = "timeout"
      PROVE  Unrecorded(q)'
  <2>1. CASE UNCHANGED requests
    BY <1>4, <1>5, <2>1
  <2>2. CASE requests' # requests
    BY <1>2, <1>3, <1>5, <2>2 DEF Next, Release, ReleaseRefused, Expire
  <2> QED
    BY <2>1, <2>2
<1>6. CASE Next
  BY <1>5, <1>6 DEF RefusedNeverGranted, Unrecorded
<1>7. CASE UNCHANGED vars
  BY <1>7 DEF vars, RefusedNeverGranted, Queued
<1> QED
  BY <1>6, <1>7

\* A client that was told "timeout" gets no lock for that request later: it is
\* out of the queue and no lock was recorded for it in the meantime.
THEOREM RefusalsAreFinal == Spec => []RefusedNeverGranted
<1>1. Init => RefusedNeverGranted
  BY DEF Init, RefusedNeverGranted
<1>2. TypeOK /\ NoLostWakeup /\ RefusedNeverGranted /\ [Next]_vars => RefusedNeverGranted'
  BY RefusalNext
<1> QED
  BY <1>1, <1>2, TypeCorrect, WakeupsAreKept, PTL DEF Spec

-----------------------------------------------------------------------------
(* Resources in exclusive mode only *)

RecordedAt(r) == \A h \in holds[r] : locks[r] # None /\ locks[r].holder = h.client

LEMMA ModesStay ==
    ASSUME TypeOK, NEW r \in Resource, Extends(requests, requests'), ExclusiveOnly(r)'
    PROVE  ExclusiveOnly(r)
BY DEF ExclusiveOnly, Extends

LEMMA EveryStepExtends ==
    ASSUME TypeOK, [Next]_vars
    PROVE  Extends(requests, requests')
<1>1. UNCHANGED requests => Extends(requests, requests')
  BY DEF Extends, TypeOK
<1>2. ASSUME NEW c \in Client, NEW r \in Resource, NEW md \in Mode, Acquire(c, r, md)
      PROVE  Extends(requests, requests')
  BY <1>2, CallFacts
     DEF Acquire, AcquireFree, AcquireShared, AcquireUpgrade, Enqueue, RefuseAtOnce
<1>3. ASSUME NEW q \in DOMAIN requests, PollTakes(q) \/ PollFinds(q) \/ GiveUp(q)
      PROVE  Extends(requests, requests')
  BY <1>3, AnswerFacts DEF PollTakes, PollFinds, GiveUp
<1> QED
  BY <1>1, <1>2, <1>3 DEF Next, vars, Release, ReleaseRefused, Expire

\* A client is told that it has resource r while the lock is recorded for it.
LEMMA ToldIsRecorded ==
    ASSUME TypeOK, NEW c \in Client, NEW r \in Resource, NEW md \in Mode, Told(c, r, md),
           \A h \in holds[r] : h.client = c,
           locks'[r] # None, locks'[r].holder = c
    PROVE  RecordedAt(r)'
<1>1. \A h \in holds'[r] : h.client = c
  BY ToldFacts
<1> QED
  BY <1>1 DEF RecordedAt

LEMMA RecordedAcquire ==
    ASSUME TypeOK, NEW c \in Client, NEW r \in Resource, NEW md \in Mode, Acquire(c, r, md),
           NEW x \in Resource, ExclusiveOnly(x)', RecordedAt(x)
    PROVE  RecordedAt(x)'
<1> DEFINE lk == [mode |-> md, holder |-> c, request |-> Len(requests) + 1]
<1>0. locks \in [Resource -> Lock \cup {None}] /\ holds \in [Resource -> SUBSET Hold]
  BY DEF TypeOK
<1>1. CASE AcquireFree(c, r, md) \/ AcquireUpgrade(c, r, md)
  <2>1. locks' = [locks EXCEPT ![r] = lk] /\ Told(c, r, md)
    BY <1>1 DEF AcquireFree, AcquireUpgrade
  <2>2. lk # None /\ lk.holder = c
    <3>1. requests \in Seq(Request)
      BY DEF TypeOK
    <3>2. Len(requests) + 1 \in Nat
      BY <3>1, LenProperties
    <3> QED
      BY <3>2, NoneAssumption
  <2> HIDE DEF lk
  <2>3. CASE x = r
    <3>1. \A h \in holds[r] : h.client = c
      BY <1>1, <2>3 DEF AcquireFree, AcquireUpgrade, Upgrades, RecordedAt
    <3>2. locks'[r] # None /\ locks'[r].holder = c
      BY <1>0, <2>1, <2>2
    <3> QED
      BY <2>1, <2>3, <3>1, <3>2, ToldIsRecorded
  <2>4. CASE x # r
    BY <1>0, <2>1, <2>4, ToldFacts DEF RecordedAt
  <2> QED
    BY <2>3, <2>4
<1>2. CASE AcquireShared(c, r, md)
  <2>0. Call(c, r, md, "success") /\ md = "shared"
    BY <1>2 DEF AcquireShared, Joins
  <2>1. x # r
    <3>1. /\ Len(requests) + 1 \in DOMAIN requests'
          /\ requests'[Len(requests) + 1].resource = r
          /\ requests'[Len(requests) + 1].mode = md
      <4>1. "success" \in {"waiting", "success", "timeout"}
        OBVIOUS
      <4>2. /\ Len(requests) + 1 \in DOMAIN requests' \ DOMAIN requests
            /\ requests'[Len(requests) + 1] =
                 [client |-> c, resource |-> r, mode |-> md, answer |-> "success"]
        BY ONLY <2>0, <4>1, CallFacts, TypeOK, c \in Client, r \in Resource, md \in Mode
      <4> QED
        BY <4>2
    <3>2. "shared" # "exclusive"
      OBVIOUS
    <3> QED
      BY <2>0, <3>1, <3>2 DEF ExclusiveOnly
  <2>2. Told(c, r, md) /\ UNCHANGED locks
    BY <1>2 DEF AcquireShared
  <2> QED
    BY <2>1, <2>2, ToldFacts DEF RecordedAt
<1>3. CASE Enqueue(c, r, md) \/ RefuseAtOnce(c, r, md)
  BY <1>3 DEF Enqueue, RefuseAtOnce, RecordedAt
<1> QED
  BY <1>1, <1>2, <1>3 DEF Acquire

LEMMA RecordedWait ==
    ASSUME TypeOK, NEW q \in DOMAIN requests, PollTakes(q) \/ PollFinds(q) \/ GiveUp(q),
           NEW x \in Resource, RecordedAt(x)
    PROVE  RecordedAt(x)'
<1>0. locks \in [Resource -> Lock \cup {None}] /\ holds \in [Resource -> SUBSET Hold]
  BY DEF TypeOK
<1>1. PICK r \in Resource, c \in Client, md \in Mode :
          r = requests[q].resource /\ c = requests[q].client /\ md = requests[q].mode
  <2>1. requests[q].mode \in Mode
    BY NewLockFacts DEF NewLock, Lock
  <2> QED
    BY <2>1, NewLockFacts
<1>2. CASE PollTakes(q) \/ PollFinds(q)
  <2>1. Told(c, r, md)
    BY <1>1, <1>2 DEF PollTakes, PollFinds
  <2>2. /\ locks'[r] # None /\ locks'[r].holder = c
        /\ x # r => locks'[x] = locks[x]
    <3>1. CASE PollTakes(q)
      <4>1. locks' = [locks EXCEPT ![r] = NewLock(q)]
        BY <1>1, <3>1 DEF PollTakes
      <4>2. NewLock(q) # None /\ NewLock(q).holder = c
        BY <1>1, NewLockFacts DEF NewLock
      <4> QED
        BY <1>0, <4>1, <4>2
    <3>2. CASE PollFinds(q)
      BY <1>1, <3>2 DEF PollFinds, FindsItself
    <3> QED
      BY <1>2, <3>1, <3>2
  <2>3. CASE x = r
    <3>1. \A h \in holds[r] : h.client = c
      BY <1>1, <1>2, <2>3 DEF PollTakes, PollFinds, FindsFree, FindsItself, RecordedAt
    <3> QED
      BY <2>1, <2>2, <2>3, <3>1, ToldIsRecorded
  <2>4. CASE x # r
    BY <2>1, <2>2, <2>4, ToldFacts DEF RecordedAt
  <2> QED
    BY <2>3, <2>4
<1>3. CASE GiveUp(q)
  BY <1>3 DEF GiveUp, RecordedAt
<1> QED
  BY <1>2, <1>3

LEMMA RecordedLeave ==
    ASSUME TypeOK, NEW c \in Client, NEW r \in Resource,
           Release(c, r) \/ ReleaseRefused(c, r) \/ Expire(r),
           NEW x \in Resource, RecordedAt(x)
    PROVE  RecordedAt(x)'
<1>0. locks \in [Resource -> Lock \cup {None}] /\ holds \in [Resource -> SUBSET Hold]
  BY DEF TypeOK
<1>1. holds'[x] \subseteq holds[x]
  BY <1>0 DEF Release, ReleaseRefused, Expire
<1>2. CASE ReleaseRefused(c, r)
  BY <1>1, <1>2 DEF ReleaseRefused, RecordedAt
<1>3. CASE Release(c, r) \/ Expire(r)
  <2>1. x # r => locks'[x] = locks[x]
    BY <1>0, <1>3 DEF Release, Expire, ServeNext
  <2>2. x = r => holds'[x] = {}
    BY <1>0, <1>3 DEF Release, MayRelease, Expire, RecordedAt
  <2> QED
    BY <1>1, <2>1, <2>2 DEF RecordedAt
<1> QED
  BY <1>2, <1>3

LEMMA HoldersNext ==
    ASSUME TypeOK, HoldersAreRecorded, [Next]_vars
    PROVE  HoldersAreRecorded'
<1> SUFFICES ASSUME NEW x \in Resource, ExclusiveOnly(x)'
             PROVE  RecordedAt(x)'
  BY DEF HoldersAreRecorded, RecordedAt
<1>0. RecordedAt(x)
  BY ModesStay, EveryStepExtends DEF HoldersAreRecorded, RecordedAt
<1>1. ASSUME NEW c \in Client, NEW r \in Resource, NEW md \in Mode, Acquire(c, r, md)
      PROVE  RecordedAt(x)'
  BY <1>0, <1>1, RecordedAcquire
<1>2. ASSUME NEW q \in DOMAIN requests, PollTakes(q) \/ PollFinds(q) \/ GiveUp(q)
      PROVE  RecordedAt(x)'
  BY <1>0, <1>2, RecordedWait
<1>3. ASSUME NEW c \in Client, NEW r \in Resource, Release(c, r) \/ ReleaseRefused(c, r)
      PROVE  RecordedAt(x)'
  BY <1>0, <1>3, RecordedLeave
<1>4. ASSUME NEW r \in Resource, Expire(r)
      PROVE  RecordedAt(x)'
  <2>1. holds \in [Resource -> SUBSET Hold]
    BY DEF TypeOK
  <2>2. CASE Client = {}
    BY <1>4, <2>1, <2>2 DEF Expire, RecordedAt, Hold
  <2>3. CASE Client # {}
    BY <1>0, <1>4, <2>3, RecordedLeave
  <2> QED
    BY <2>2, <2>3
<1>5. CASE UNCHANGED vars
  BY <1>0, <1>5 DEF vars, RecordedAt
<1> QED
  BY <1>1, <1>2, <1>3, <1>4, <1>5 DEF Next

\* As long as nobody asks for a resource in shared mode, whoever was told it has
\* it and has not released or lost it is its recorded holder.
THEOREM ExclusiveHoldersAreRecorded == Spec => []HoldersAreRecorded
<1>1. Init => HoldersAreRecorded
  BY DEF Init, HoldersAreRecorded
<1>2. TypeOK /\ HoldersAreRecorded /\ [Next]_vars => HoldersAreRecorded'
  BY HoldersNext
<1> QED
  BY <1>1, <1>2, TypeCorrect, PTL DEF Spec

\* As long as nobody asks for a resource in shared mode, no two clients have it
\* at the same time.
THEOREM ExclusiveLocksExclude == Spec => []WritersExcludeWriters
<1>1. HoldersAreRecorded => WritersExcludeWriters
  BY DEF HoldersAreRecorded, WritersExcludeWriters
<1> QED
  BY <1>1, ExclusiveHoldersAreRecorded, PTL

-----------------------------------------------------------------------------
(* An exclusive lock table implements LeaseTable *)

\* The two variables of LeaseTable, resource by resource.
OwnerAt(r) == IF locks[r] = None THEN {} ELSE {locks[r].holder}
ToldAt(r) == {h.client : h \in holds[r]}

\* The resources a step leaves alone.
Untouched(r) == \A x \in Resource \ {r} : OwnerAt(x)' = OwnerAt(x) /\ ToldAt(x)' = ToldAt(x)

\* Resource r changes as LeaseTable lets it, or not at all.
LeaseMoves(r) ==
    \/ \E c \in Client : OwnerAt(r) = {} /\ OwnerAt(r)' = {c} /\ ToldAt(r)' = {c}
    \/ OwnerAt(r) # {} /\ OwnerAt(r)' = OwnerAt(r) /\ ToldAt(r)' = OwnerAt(r)
    \/ OwnerAt(r) # {} /\ ToldAt(r)' = {} /\ \E c \in Client : OwnerAt(r)' \in {{}, {c}}
    \/ OwnerAt(r)' = OwnerAt(r) /\ ToldAt(r)' = ToldAt(r)

LEMMA LeaseStep ==
    ASSUME NEW r \in Resource, Untouched(r), LeaseMoves(r)
    PROVE  [Leases!Next]_Leases!vars
<1> DEFINE owner == [x \in Resource |-> OwnerAt(x)]
           ownerN == [x \in Resource |-> OwnerAt(x)']
           told == [x \in Resource |-> ToldAt(x)]
           toldN == [x \in Resource |-> ToldAt(x)']
<1>1. \A s : OwnerAt(r)' = s => ownerN = [owner EXCEPT ![r] = s]
  BY DEF Untouched
<1>2. \A s : ToldAt(r)' = s => toldN = [told EXCEPT ![r] = s]
  BY DEF Untouched
<1>3. OwnerAt(r)' = OwnerAt(r) => ownerN = owner
  BY DEF Untouched
<1>4. ToldAt(r)' = ToldAt(r) => toldN = told
  BY DEF Untouched
<1>5. owner[r] = OwnerAt(r)
  OBVIOUS
<1>6. /\ [Leases!Next]_Leases!vars <=>
            \/ \E x \in Resource :
                 \/ \E c \in Client :
                      \/ /\ owner[x] = {}
                         /\ ownerN = [owner EXCEPT ![x] = {c}]
                         /\ toldN = [told EXCEPT ![x] = {c}]
                      \/ /\ owner[x] # {}
                         /\ ownerN = [owner EXCEPT ![x] = {c}]
                         /\ toldN = [told EXCEPT ![x] = {}]
                 \/ /\ owner[x] # {}
                    /\ toldN = [told EXCEPT ![x] = owner[x]]
                    /\ ownerN = owner
                 \/ /\ owner[x] # {}
                    /\ ownerN = [owner EXCEPT ![x] = {}]
                    /\ toldN = [told EXCEPT ![x] = {}]
            \/ ownerN = owner /\ toldN = told
  BY DEF Leases!Next, Leases!vars, Leases!Take, Leases!Tell, Leases!End, OwnerAt, ToldAt
<1> HIDE DEF owner, ownerN, told, toldN
<1> QED
  BY <1>1, <1>2, <1>3, <1>4, <1>5, <1>6 DEF LeaseMoves

\* A client is told of the lock that is recorded for it, new or old.
LEMMA LeaseTold ==
    ASSUME TypeOK, NEW c \in Client, NEW r \in Resource, NEW md \in Mode, Told(c, r, md),
           RecordedAt(r),
           locks'[r] # None, locks'[r].holder = c,
           \A x \in Resource \ {r} : locks'[x] = locks[x],
           locks[r] = None \/ locks[r].holder = c
    PROVE  [Leases!Next]_Leases!vars
<1>1. /\ \A x \in Resource : x # r => holds'[x] = holds[x]
      /\ holds'[r] = holds[r] \cup {[client |-> c, mode |-> md]}
  BY ToldFacts
<1>2. Untouched(r)
  BY <1>1 DEF Untouched, OwnerAt, ToldAt
<1>3. \A h \in holds[r] : h.client = c
  BY DEF RecordedAt
<1>4. OwnerAt(r)' = {c} /\ ToldAt(r)' = {c}
  <2> DEFINE new == [client |-> c, mode |-> md]
  <2>1. new.client = c /\ holds'[r] = holds[r] \cup {new}
    BY <1>1
  <2> HIDE DEF new
  <2>2. \A x : x \in ToldAt(r)' <=> x = c
    BY <1>3, <2>1 DEF ToldAt
  <2> QED
    BY <2>2 DEF OwnerAt
<1>5. OwnerAt(r) = {} \/ OwnerAt(r) = {c}
  BY DEF OwnerAt
<1>6. LeaseMoves(r)
  BY <1>4, <1>5 DEF LeaseMoves
<1> QED
  BY <1>2, <1>6, LeaseStep

LEMMA LeaseAcquire ==
    ASSUME Mode = {"exclusive"}, TypeOK, NEW c \in Client, NEW r \in Resource, NEW md \in Mode,
           Acquire(c, r, md), RecordedAt(r)
    PROVE  [Leases!Next]_Leases!vars
<1>1. CASE AcquireFree(c, r, md) \/ AcquireUpgrade(c, r, md)
  <2> DEFINE lk == [mode |-> md, holder |-> c, request |-> Len(requests) + 1]
  <2>1. locks' = [locks EXCEPT ![r] = lk] /\ Told(c, r, md)
    BY <1>1 DEF AcquireFree, AcquireUpgrade
  <2>2. lk # None /\ lk.holder = c
    <3>1. requests \in Seq(Request)
      BY DEF TypeOK
    <3>2. Len(requests) + 1 \in Nat
      BY <3>1, LenProperties
    <3> QED
      BY <3>2, NoneAssumption
  <2> HIDE DEF lk
  <2>3. /\ locks'[r] # None /\ locks'[r].holder = c
        /\ \A x \in Resource \ {r} : locks'[x] = locks[x]
    BY <2>1, <2>2 DEF TypeOK
  <2>4. locks[r] = None \/ locks[r].holder = c
    BY <1>1 DEF AcquireFree, AcquireUpgrade, Upgrades
  <2> QED
    BY <2>1, <2>3, <2>4, LeaseTold
<1>2. CASE AcquireShared(c, r, md)
  BY <1>2 DEF AcquireShared, Joins
<1>3. CASE Enqueue(c, r, md) \/ RefuseAtOnce(c, r, md)
  <2>1. UNCHANGED <<locks, holds>>
    BY <1>3 DEF Enqueue, RefuseAtOnce
  <2> QED
    BY <2>1 DEF Leases!vars
<1> QED
  BY <1>1, <1>2, <1>3 DEF Acquire

LEMMA LeaseWait ==
    ASSUME TypeOK, NEW q \in DOMAIN requests, PollTakes(q) \/ PollFinds(q) \/ GiveUp(q),
           RecordedAt(requests[q].resource)
    PROVE  [Leases!Next]_Leases!vars
<1>1. PICK r \in Resource, c \in Client, md \in Mode :
          r = requests[q].resource /\ c = requests[q].client /\ md = requests[q].mode
  <2>1. requests[q].mode \in Mode
    BY NewLockFacts DEF NewLock, Lock
  <2> QED
    BY <2>1, NewLockFacts
<1>2. CASE PollTakes(q)
  <2>1. Told(c, r, md) /\ locks' = [locks EXCEPT ![r] = NewLock(q)] /\ locks[r] = None
    BY <1>1, <1>2 DEF PollTakes, FindsFree
  <2>2. NewLock(q) # None /\ NewLock(q).holder = c
    BY <1>1, NewLockFacts DEF NewLock
  <2>3. /\ locks'[r] # None /\ locks'[r].holder = c
        /\ \A x \in Resource \ {r} : locks'[x] = locks[x]
    BY <2>1, <2>2 DEF TypeOK
  <2> QED
    BY <1>1, <2>1, <2>3, LeaseTold
<1>3. CASE PollFinds(q)
  <2>1. Told(c, r, md) /\ locks' = locks /\ locks[r] # None /\ locks[r].holder = c
    BY <1>1, <1>3 DEF PollFinds, FindsItself
  <2> QED
    BY <1>1, <2>1, LeaseTold
<1>4. CASE GiveUp(q)
  BY <1>4 DEF GiveUp, Leases!vars
<1> QED
  BY <1>2, <1>3, <1>4

\* The lease of r ends and the resource passes on.
LEMMA LeaseEnds ==
    ASSUME TypeOK, NEW r \in Resource, ServeNext(r), locks[r] # None,
           ToldAt(r)' = {}, \A x \in Resource \ {r} : holds'[x] = holds[x]
    PROVE  [Leases!Next]_Leases!vars
<1>1. PICK lk : locks' = [locks EXCEPT ![r] = lk] /\ LockOK(lk, requests, r)
  BY ServeFacts
<1>2. locks[r] \in Lock /\ locks[r].holder \in Client
  BY DEF TypeOK, Lock
<1>3. lk = None \/ lk.holder \in Client
  BY <1>1 DEF LockOK, Lock
<1>4. locks'[r] = lk /\ \A x \in Resource \ {r} : locks'[x] = locks[x]
  BY <1>1 DEF TypeOK
<1>5. Untouched(r)
  BY <1>4 DEF Untouched, OwnerAt, ToldAt
<1>6. OwnerAt(r) # {} /\ \E c \in Client : OwnerAt(r)' \in {{}, {c}}
  BY <1>2, <1>3, <1>4 DEF OwnerAt
<1> QED
  BY <1>5, <1>6, LeaseStep DEF LeaseMoves

LEMMA LeaseLeave ==
    ASSUME TypeOK, NEW c \in Client, NEW r \in Resource,
           Release(c, r) \/ ReleaseRefused(c, r), RecordedAt(r)
    PROVE  [Leases!Next]_Leases!vars
<1>1. ~ReleaseRefused(c, r)
  BY DEF ReleaseRefused, MayRelease, RecordedAt
<1>2. /\ ServeNext(r) /\ locks[r] # None /\ locks[r].holder = c
      /\ holds' = [holds EXCEPT ![r] = {h \in @ : h.client # c}]
  BY <1>1 DEF Release, MayRelease
<1>3. holds'[r] = {} /\ \A x \in Resource \ {r} : holds'[x] = holds[x]
  BY <1>2 DEF TypeOK, RecordedAt
<1> QED
  BY <1>2, <1>3, LeaseEnds DEF ToldAt

LEMMA LeaseExpires ==
    ASSUME TypeOK, NEW r \in Resource, Expire(r)
    PROVE  [Leases!Next]_Leases!vars
<1>1. ServeNext(r) /\ locks[r] # None /\ holds' = [holds EXCEPT ![r] = {}]
  BY DEF Expire
<1>2. holds'[r] = {} /\ \A x \in Resource \ {r} : holds'[x] = holds[x]
  BY <1>1 DEF TypeOK
<1> QED
  BY <1>1, <1>2, LeaseEnds DEF ToldAt

LEMMA LeaseNext ==
    ASSUME Mode = {"exclusive"}, TypeOK, HoldersAreRecorded, [Next]_vars
    PROVE  [Leases!Next]_Leases!vars
<1>1. \A r \in Resource : ExclusiveOnly(r)
  <2>1. requests \in Seq(Request)
    BY DEF TypeOK
  <2>2. \A q \in DOMAIN requests : requests[q] \in Request
    BY <2>1, LenProperties, ElementOfSeq
  <2> QED
    BY <2>2 DEF ExclusiveOnly, Request
<1>2. \A r \in Resource : RecordedAt(r)
  BY <1>1 DEF HoldersAreRecorded, RecordedAt
<1>3. \A q \in DOMAIN requests : requests[q].resource \in Resource
  BY NewLockFacts
<1>4. CASE UNCHANGED vars
  BY <1>4 DEF vars, Leases!vars
<1> QED
  BY <1>2, <1>3, <1>4, LeaseAcquire, LeaseWait, LeaseLeave, LeaseExpires DEF Next

\* When clients ask for exclusive locks only, the lock manager is a table of
\* leases: one owner, nobody else told, and nobody told any more once it ends.
THEOREM LocksImplementLeases ==
    ASSUME Mode = {"exclusive"}
    PROVE  Spec => GrantsLeases
<1>1. Init => Leases!Init
  BY DEF Init, Leases!Init
<1>2. TypeOK /\ HoldersAreRecorded /\ [Next]_vars => [Leases!Next]_Leases!vars
  BY LeaseNext
<1> QED
  BY <1>1, <1>2, TypeCorrect, ExclusiveHoldersAreRecorded, PTL
     DEF Spec, GrantsLeases, Leases!Spec

-----------------------------------------------------------------------------
(***************************************************************************)
(* Clients that wait for one answer at a time.  A poll looks for the name  *)
(* of the client in the lock, so a client with two requests under way, or  *)
(* one that reads what it holds itself, can be answered while it is still  *)
(* queued, and the lock is later handed to a request nobody waits for.     *)
(* Neither can happen here.                                                *)
(***************************************************************************)
OneWaits ==
    \A p, q \in DOMAIN requests :
        IsWaiting(p) /\ IsWaiting(q) /\ requests[p].client = requests[q].client => p = q

QueuerWaits(r, q) == IsWaiting(q) /\ locks[r].holder # requests[q].client

\* Whoever is queued for a resource that is only used exclusively still waits
\* for its answer, and does not hold that resource: a lock is handed over to
\* nobody who was answered before, and no client waits for itself.
QueuersStillWait ==
    \A r \in Resource : ExclusiveOnly(r) => \A q \in Queued(r) : QueuerWaits(r, q)

LEMMA OneWaitsNext ==
    ASSUME OneAtATime, TypeOK, OneWaits, [Next]_vars
    PROVE  OneWaits'
<1>1. ASSUME NEW c \in Client, NEW r \in Resource, NEW md \in Mode, Acquire(c, r, md)
      PROVE  OneWaits'
  <2>1. PICK answer \in {"waiting", "success", "timeout"} : Call(c, r, md, answer)
    BY <1>1 DEF Acquire, AcquireFree, AcquireShared, AcquireUpgrade, Enqueue, RefuseAtOnce
  <2>2. \A q \in DOMAIN requests : requests[q].client = c => ~IsWaiting(q)
    BY <2>1 DEF Call, IsWaiting
  <2>3. PICK n : n = Len(requests) + 1
    OBVIOUS
  <2>4. /\ DOMAIN requests' = DOMAIN requests \cup {n}
        /\ requests'[n].client = c
        /\ \A q \in DOMAIN requests : requests'[q] = requests[q]
    <3>1. /\ DOMAIN requests' = DOMAIN requests \cup {n}
          /\ requests'[n] = [client |-> c, resource |-> r, mode |-> md, answer |-> answer]
          /\ \A q \in DOMAIN requests : requests'[q] = requests[q] /\ q < n
      BY <2>1, <2>3, CallFacts, Zenon
    <3> QED
      BY <3>1
  <2> SUFFICES ASSUME NEW p \in DOMAIN requests', NEW q \in DOMAIN requests',
                      IsWaiting(p)', IsWaiting(q)', requests'[p].client = requests'[q].client
               PROVE  p = q
    BY DEF OneWaits
  <2>5. \A x \in DOMAIN requests : IsWaiting(x)' => IsWaiting(x)
    BY <2>4 DEF IsWaiting
  <2> QED
    BY <2>2, <2>4, <2>5 DEF OneWaits
<1>2. ASSUME NEW x \in DOMAIN requests, PollTakes(x) \/ PollFinds(x) \/ GiveUp(x)
      PROVE  OneWaits'
  <2>1. PICK answer \in {"success", "timeout"} : Answer(x, answer)
    BY <1>2 DEF PollTakes, PollFinds, GiveUp
  <2>2. /\ DOMAIN requests' = DOMAIN requests
        /\ requests'[x].answer = answer
        /\ \A p \in DOMAIN requests : p # x => requests'[p] = requests[p]
    BY <2>1, AnswerFacts
  <2>3. \A p \in DOMAIN requests' : IsWaiting(p)' => p # x /\ IsWaiting(p)
    BY <2>2 DEF IsWaiting
  <2> QED
    BY <2>2, <2>3 DEF OneWaits
<1>3. UNCHANGED requests => OneWaits'
  BY DEF OneWaits, IsWaiting
<1> QED
  BY <1>1, <1>2, <1>3 DEF Next, vars, Release, ReleaseRefused, Expire

\* The request that ServeNext serves leaves the queue for good.
LEMMA ServedLeaves ==
    ASSUME TypeOK, NEW r \in Resource, ServeNext(r), NEW q \in Queued(r)'
    PROVE  \E h \in Queued(r) : locks'[r] = NewLock(h) /\ q \in Queued(r) /\ q # h
<1> DEFINE s == waiting_queue[r]
           t == Tail(s)
<1>1. s \in Seq(Nat) /\ Increasing(s) /\ waiting_queue \in [Resource -> Seq(Nat)]
      /\ locks \in [Resource -> Lock \cup {None}]
  BY ResourceFacts DEF TypeOK
<1>2. PICK i \in DOMAIN waiting_queue'[r] : q = waiting_queue'[r][i]
  BY DEF Queued
<1>3. s # <<>>
  <2>1. s = <<>> => waiting_queue'[r] = <<>>
    BY DEF ServeNext
  <2> QED
    BY <1>2, <2>1
<1>4. waiting_queue'[r] = t /\ locks'[r] = NewLock(Head(s))
  BY <1>1, <1>3 DEF ServeNext
<1>5. /\ Len(s) \in Nat /\ DOMAIN s = 1..Len(s) /\ Len(s) # 0
      /\ \A j \in 1..Len(s) : s[j] \in Nat
  BY <1>1, <1>3, ElementOfSeq, LenProperties, EmptySeq
<1>6. /\ t \in Seq(Nat) /\ Len(t) = Len(s) - 1
      /\ \A j \in 1..Len(t) : t[j] = s[j + 1]
  BY <1>1, <1>3, HeadTailProperties
<1>7. DOMAIN t = 1..(Len(s) - 1) /\ Head(s) = s[1]
  BY <1>5, <1>6, LenProperties
<1>8. i \in 1..(Len(s) - 1) /\ q = s[i + 1]
  BY <1>2, <1>4, <1>6, <1>7
<1>9. i + 1 \in DOMAIN s /\ 1 \in DOMAIN s /\ 1 < i + 1
  BY <1>5, <1>8
<1>10. s[1] < s[i + 1] /\ s[1] \in Nat /\ s[i + 1] \in Nat
  BY <1>1, <1>5, <1>9 DEF Increasing
<1>11. q \in Queued(r) /\ Head(s) \in Queued(r) /\ q # Head(s)
  BY <1>7, <1>8, <1>9, <1>10 DEF Queued
<1> QED
  BY <1>4, <1>11

LEMMA QueuersAcquire ==
    ASSUME TypeOK, NoLostWakeup, NEW x \in Resource, ExclusiveOnly(x)',
           \A q \in Queued(x) : QueuerWaits(x, q),
           NEW c \in Client, NEW r \in Resource, NEW md \in Mode, Acquire(c, r, md),
           NEW q \in Queued(x)'
    PROVE  QueuerWaits(x, q)'
<1>1. PICK answer \in {"waiting", "success", "timeout"} : Call(c, r, md, answer)
  BY DEF Acquire, AcquireFree, AcquireShared, AcquireUpgrade, Enqueue, RefuseAtOnce
<1>2. PICK n \in Nat : n = Len(requests) + 1
  <2>1. requests \in Seq(Request)
    BY DEF TypeOK
  <2> QED
    BY <2>1, LenProperties
<1>3. /\ DOMAIN requests' = DOMAIN requests \cup {n}
      /\ requests'[n] = [client |-> c, resource |-> r, mode |-> md, answer |-> answer]
      /\ \A p \in DOMAIN requests : requests'[p] = requests[p] /\ p < n
  BY <1>1, <1>2, CallFacts, Zenon
<1>4. locks \in [Resource -> Lock \cup {None}] /\ waiting_queue \in [Resource -> Seq(Nat)]
  BY DEF TypeOK
\* Those that were queued wait on, and the lock keeps its holder.
<1>5. CASE q \in Queued(x)
  <2>1. IsWaiting(q) /\ locks[x].holder # requests[q].client /\ q \in DOMAIN requests
    BY <1>5 DEF QueuerWaits, IsWaiting
  <2>2. locks[x] # None
    <3>1. waiting_queue[x] # <<>>
      BY <1>5 DEF Queued
    <3> QED
      BY <3>1 DEF NoLostWakeup
  <2>3. locks'[x].holder = locks[x].holder
    <3>1. CASE AcquireFree(c, r, md)
      BY <1>4, <2>2, <3>1 DEF AcquireFree
    <3>2. CASE AcquireUpgrade(c, r, md)
      <4>1. /\ locks[r].holder = c
            /\ locks' = [locks EXCEPT ![r] = [mode |-> md, holder |-> c,
                                              request |-> Len(requests) + 1]]
        BY <3>2 DEF AcquireUpgrade, Upgrades
      <4> QED
        BY <1>4, <4>1
    <3>3. CASE UNCHANGED locks
      BY <3>3
    <3> QED
      BY <3>1, <3>2, <3>3 DEF Acquire, AcquireShared, Enqueue, RefuseAtOnce
  <2>4. requests'[q] = requests[q] /\ q \in DOMAIN requests'
    BY <1>3, <2>1
  <2> QED
    BY <2>1, <2>3, <2>4 DEF QueuerWaits, IsWaiting
\* The request that joins is that of a client which does not hold the resource.
<1>6. CASE q \notin Queued(x)
  <2>1. waiting_queue' # waiting_queue
    BY <1>6 DEF Queued
  <2>2. Enqueue(c, r, md)
    BY <2>1 DEF Acquire, AcquireFree, AcquireShared, AcquireUpgrade, RefuseAtOnce
  <2>3. /\ waiting_queue' = [waiting_queue EXCEPT ![r] = AtBack(@, n)]
        /\ UNCHANGED locks /\ Call(c, r, md, "waiting") /\ MustWait(c, r, md)
    BY <1>2, <2>2 DEF Enqueue
  <2>4. x = r
    BY <1>4, <1>6, <2>3 DEF Queued
  <2>5. q = n
    <3>1. waiting_queue'[r] = AtBack(waiting_queue[r], n)
      BY <1>4, <2>3
    <3>2. \A i \in DOMAIN AtBack(waiting_queue[r], n) :
              AtBack(waiting_queue[r], n)[i] \in Queued(r) \cup {n}
      BY <1>3, JoinFacts
    <3> QED
      BY <1>6, <2>4, <3>1, <3>2 DEF Queued
  <2>6. requests'[n] = [client |-> c, resource |-> r, mode |-> md, answer |-> "waiting"]
    <3>1. "waiting" \in {"waiting", "success", "timeout"}
      OBVIOUS
    <3> QED
      BY <1>2, <2>3, <3>1, CallFacts, Zenon
  <2>7. n \in DOMAIN requests'
    BY <1>3
  <2>8. md = "exclusive"
    BY <2>4, <2>6, <2>7 DEF ExclusiveOnly
  <2>9. locks[r].holder # c
    BY <2>3, <2>8 DEF MustWait, Upgrades
  <2> QED
    BY <2>3, <2>4, <2>5, <2>6, <2>7, <2>9 DEF QueuerWaits, IsWaiting
<1> QED
  BY <1>5, <1>6

LEMMA QueuersPoll ==
    ASSUME TypeOK, NoLostWakeup, NEW x \in Resource,
           \A q \in Queued(x) : QueuerWaits(x, q),
           NEW p \in DOMAIN requests, PollTakes(p) \/ PollFinds(p) \/ GiveUp(p),
           NEW q \in Queued(x)'
    PROVE  QueuerWaits(x, q)'
<1>1. PICK answer \in {"success", "timeout"} : Answer(p, answer)
  BY DEF PollTakes, PollFinds, GiveUp
<1>2. /\ DOMAIN requests' = DOMAIN requests
      /\ \A y \in DOMAIN requests : y # p => requests'[y] = requests[y]
  BY <1>1, AnswerFacts
<1>3. PICK r \in Resource : r = requests[p].resource
  BY NewLockFacts
<1>4. locks \in [Resource -> Lock \cup {None}] /\ waiting_queue \in [Resource -> Seq(Nat)]
  BY DEF TypeOK
<1>5. \A y \in Queued(x) : requests[y].resource = x
  BY DEF TypeOK
<1>6. \A i \in DOMAIN Without(waiting_queue[r], p) :
         /\ Without(waiting_queue[r], p)[i] # p
         /\ Without(waiting_queue[r], p)[i] \in Queued(r)
  BY LeaveFacts
\* What was free had no queue, what the client held it did not queue for, and
\* whoever gives up leaves the queue.
<1>7. q \in Queued(x) /\ q # p /\ locks'[x] = locks[x]
  <2>1. CASE PollTakes(p)
    <3>1. /\ locks[r] = None
          /\ locks' = [locks EXCEPT ![r] = NewLock(p)]
          /\ waiting_queue' = [waiting_queue EXCEPT ![r] = Without(@, p)]
      BY <1>3, <2>1 DEF PollTakes, FindsFree
    <3>2. Queued(r) = {}
      BY <3>1 DEF NoLostWakeup, Queued
    <3>3. x # r
      BY <1>4, <1>6, <3>1, <3>2 DEF Queued
    <3> QED
      BY <1>3, <1>4, <1>5, <3>1, <3>3 DEF Queued
  <2>2. CASE PollFinds(p)
    <3>1. UNCHANGED <<locks, waiting_queue>> /\ locks[r].holder = requests[p].client
      BY <1>3, <2>2 DEF PollFinds, FindsItself
    <3>2. q \in Queued(x)
      BY <3>1 DEF Queued
    <3>3. q # p
      BY <1>3, <1>5, <3>1, <3>2 DEF QueuerWaits
    <3> QED
      BY <3>1, <3>2, <3>3
  <2>3. CASE GiveUp(p)
    <3>1. UNCHANGED locks /\ waiting_queue' = [waiting_queue EXCEPT ![r] = Without(@, p)]
      BY <1>3, <2>3 DEF GiveUp
    <3>2. CASE x = r
      BY <1>4, <1>6, <3>1, <3>2 DEF Queued
    <3>3. CASE x # r
      BY <1>3, <1>4, <1>5, <3>1, <3>3 DEF Queued
    <3> QED
      BY <3>1, <3>2, <3>3
  <2> QED
    BY <2>1, <2>2, <2>3
<1>8. QueuerWaits(x, q) /\ q \in DOMAIN requests
  BY <1>7 DEF QueuerWaits, IsWaiting
<1> QED
  BY <1>2, <1>7, <1>8 DEF QueuerWaits, IsWaiting

LEMMA QueuersLeave ==
    ASSUME TypeOK, OneWaits, NEW x \in Resource,
           \A q \in Queued(x) : QueuerWaits(x, q),
           NEW r \in Resource, ServeNext(r), UNCHANGED requests,
           NEW q \in Queued(x)'
    PROVE  QueuerWaits(x, q)'
<1>1. locks \in [Resource -> Lock \cup {None}] /\ waiting_queue \in [Resource -> Seq(Nat)]
  BY DEF TypeOK
<1>2. CASE x = r
  <2>1. PICK h \in Queued(r) : locks'[r] = NewLock(h) /\ q \in Queued(r) /\ q # h
    BY <1>2, ServedLeaves
  <2>2. IsWaiting(h) /\ IsWaiting(q) /\ h \in DOMAIN requests /\ q \in DOMAIN requests
    BY <1>2, <2>1 DEF QueuerWaits, IsWaiting
  <2>3. requests[h].client # requests[q].client
    BY <2>1, <2>2 DEF OneWaits
  <2>4. locks'[r].holder = requests[h].client
    BY <2>1 DEF NewLock
  <2> QED
    BY <1>2, <2>2, <2>3, <2>4 DEF QueuerWaits, IsWaiting
<1>3. CASE x # r
  <2>1. locks'[x] = locks[x] /\ waiting_queue'[x] = waiting_queue[x]
    BY <1>1, <1>3 DEF ServeNext
  <2>2. q \in Queued(x)
    BY <2>1 DEF Queued
  <2> QED
    BY <2>1, <2>2 DEF QueuerWaits, IsWaiting
<1> QED
  BY <1>2, <1>3

LEMMA QueuersNext ==
    ASSUME TypeOK, NoLostWakeup, OneWaits, QueuersStillWait, [Next]_vars
    PROVE  QueuersStillWait'
<1> SUFFICES ASSUME NEW x \in Resource, ExclusiveOnly(x)', NEW q \in Queued(x)'
             PROVE  QueuerWaits(x, q)'
  BY DEF QueuersStillWait
<1>1. \A p \in Queued(x) : QueuerWaits(x, p)
  BY ModesStay, EveryStepExtends DEF QueuersStillWait
<1>2. UNCHANGED <<locks, waiting_queue, requests>> => QueuerWaits(x, q)'
  BY <1>1 DEF Queued, QueuerWaits, IsWaiting
<1>3. ASSUME NEW c \in Client, NEW r \in Resource, NEW md \in Mode, Acquire(c, r, md)
      PROVE  QueuerWaits(x, q)'
  BY <1>1, <1>3, QueuersAcquire
<1>4. ASSUME NEW p \in DOMAIN requests, PollTakes(p) \/ PollFinds(p) \/ GiveUp(p)
      PROVE  QueuerWaits(x, q)'
  BY <1>1, <1>4, QueuersPoll
<1>5. ASSUME NEW r \in Resource, ServeNext(r), UNCHANGED requests
      PROVE  QueuerWaits(x, q)'
  BY <1>1, <1>5, QueuersLeave
<1> QED
  BY <1>2, <1>3, <1>4, <1>5 DEF Next, vars, Release, ReleaseRefused, Expire

\* A client that asks again only when it has its answer is queued for exclusive
\* resources of others only, and the lock reaches it while it waits.
THEOREM HandoversReachWaiters ==
    ASSUME OneAtATime
    PROVE  Spec => []QueuersStillWait
<1>1. Init => OneWaits /\ QueuersStillWait
  BY DEF Init, OneWaits, QueuersStillWait, Queued
<1>2. TypeOK /\ OneWaits /\ [Next]_vars => OneWaits'
  BY OneWaitsNext
<1>3. TypeOK /\ NoLostWakeup /\ OneWaits /\ QueuersStillWait /\ [Next]_vars => QueuersStillWait'
  BY QueuersNext
<1> QED
  BY <1>1, <1>2, <1>3, TypeCorrect, WakeupsAreKept, PTL DEF Spec
-----------------------------------------------------------------------------
(***************************************************************************)
(* The way of a request through its queue.  Nothing here depends on what   *)
(* clients do, on the modes they ask for or on how many requests they have *)
(* under way.                                                              *)
(***************************************************************************)
InFront(r, q) == {p \in Queued(r) : p < q}

\* While a request is queued nobody gets in front of it, and each time the lock
\* goes to another client one of those in front is gone: the lock passes it over
\* at most as often as there were requests in front of it.  It leaves the queue
\* only with the lock or with a timeout.  Meanwhile nobody is told that it has
\* the resource but the client the lock is recorded for, and readers that join a
\* lock in shared mode: those do overtake, any number of them, and nobody else.
TurnComes ==
    [][\A r \in Resource : \A q \in Queued(r) :
         /\ q \in Queued(r)' =>
               /\ InFront(r, q)' \subseteq InFront(r, q)
               /\ locks'[r] # locks[r] => \/ InFront(r, q)' # InFront(r, q)
                                          \/ locks'[r].holder = locks[r].holder
         /\ q \notin Queued(r)' => \/ locks'[r] # None /\ locks'[r].request = q
                                   \/ requests'[q].answer = "timeout"
         /\ \A h \in holds'[r] \ holds[r] :
               \/ locks'[r] # None /\ locks'[r].holder = h.client
               \/ locks[r].mode = "shared" /\ h.mode = "shared"]_vars

\* Only the request itself is filtered out of a queue.
LEMMA WithoutKeeps ==
    ASSUME NEW s \in Seq(Nat), NEW q, NEW j \in DOMAIN s, s[j] # q
    PROVE  \E i \in DOMAIN Without(s, q) : Without(s, q)[i] = s[j]
<1> DEFINE at == {i \in 1..Len(s) : s[i] = q}
<1>0. Len(s) \in Nat /\ DOMAIN s = 1..Len(s)
  BY LenProperties
<1>1. CASE at = {}
  BY <1>1 DEF Without
<1>2. CASE at # {}
  <2>1. PICK k \in at :
            Without(s, q) = SubSeq(s, 1, k - 1) \o SubSeq(s, k + 1, Len(s))
    BY <1>2 DEF Without
  <2>2. k \in 1..Len(s) /\ k # j
    BY <2>1
  <2>3. ASSUME NEW t, t = SubSeq(s, 1, k - 1) \o SubSeq(s, k + 1, Len(s))
        PROVE  \E i \in DOMAIN t : t[i] = s[j]
    <3>1. /\ t \in Seq(Nat)
          /\ Len(t) = Len(s) - 1
          /\ \A i \in 1..(Len(s) - 1) : t[i] = IF i < k THEN s[i] ELSE s[i + 1]
      BY <2>2, <2>3, CutFacts
    <3>2. DOMAIN t = 1..(Len(s) - 1)
      BY <3>1, LenProperties
    <3>3. CASE j < k
      <4>1. j \in 1..(Len(s) - 1)
        BY <1>0, <2>2, <3>3
      <4> QED
        BY <3>1, <3>2, <3>3, <4>1
    <3>4. CASE ~(j < k)
      <4>1. j - 1 \in 1..(Len(s) - 1) /\ ~(j - 1 < k) /\ (j - 1) + 1 = j
        BY <1>0, <2>2, <3>4
      <4>2. t[j - 1] = s[j]
        BY <3>1, <4>1
      <4> QED
        BY <3>2, <4>1, <4>2
    <3> QED
      BY <3>3, <3>4
  <2> QED
    BY <2>1, <2>3
<1> QED
  BY <1>1, <1>2

\* Only the head leaves with the head.
LEMMA TailKeeps ==
    ASSUME NEW s \in Seq(Nat), NEW j \in DOMAIN s, s[j] # Head(s)
    PROVE  \E i \in DOMAIN Tail(s) : Tail(s)[i] = s[j]
<1>0. Len(s) \in Nat /\ DOMAIN s = 1..Len(s) /\ s # <<>>
  BY LenProperties
<1>1. /\ Tail(s) \in Seq(Nat)
      /\ Len(Tail(s)) = Len(s) - 1
      /\ \A i \in 1..Len(Tail(s)) : Tail(s)[i] = s[i + 1]
  BY <1>0, HeadTailProperties
<1>2. DOMAIN Tail(s) = 1..(Len(s) - 1)
  BY <1>1, LenProperties
<1>3. j # 1
  OBVIOUS
<1>4. j - 1 \in 1..(Len(s) - 1) /\ (j - 1) + 1 = j
  BY <1>0, <1>3
<1> QED
  BY <1>1, <1>2, <1>4

\* What a step does to a resource somebody is queued for: the lock stays with
\* its client and at most a new request joins, or one gives up, or the oldest is
\* served.
Passes(r) ==
    \/ /\ locks'[r].holder = locks[r].holder
       /\ Queued(r) \subseteq Queued(r)'
       /\ Queued(r)' \subseteq Queued(r) \cup NewRequests
    \/ \E p \in DOMAIN requests :
         /\ locks'[r] = locks[r] /\ requests'[p].answer = "timeout"
         /\ Queued(r)' = Queued(r) \ {p}
    \/ \E h \in Queued(r) :
         /\ locks'[r] # None /\ locks'[r].request = h
         /\ \A w \in Queued(r) : h <= w
         /\ Queued(r)' = Queued(r) \ {h}

LEMMA SameTablesPass ==
    ASSUME NEW r, locks'[r] = locks[r], waiting_queue'[r] = waiting_queue[r]
    PROVE  Passes(r)
BY DEF Passes, Queued

LEMMA PassAcquire ==
    ASSUME TypeOK, NoLostWakeup, NEW x \in Resource, Queued(x) # {},
           NEW c \in Client, NEW r \in Resource, NEW md \in Mode, Acquire(c, r, md)
    PROVE  Passes(x)
<1>1. locks \in [Resource -> Lock \cup {None}] /\ waiting_queue \in [Resource -> Seq(Nat)]
  BY DEF TypeOK
<1>2. locks[x] # None
  BY DEF Queued, NoLostWakeup
<1>3. CASE x # r
  <2>1. locks'[x] = locks[x] /\ waiting_queue'[x] = waiting_queue[x]
    BY <1>1, <1>3
       DEF Acquire, AcquireFree, AcquireShared, AcquireUpgrade, Enqueue, RefuseAtOnce
  <2> QED
    BY <2>1, SameTablesPass
<1>4. CASE AcquireShared(c, r, md) \/ RefuseAtOnce(c, r, md)
  BY <1>4, SameTablesPass DEF AcquireShared, RefuseAtOnce
<1>5. CASE x = r /\ AcquireFree(c, r, md)
  BY <1>2, <1>5 DEF AcquireFree
<1>6. CASE x = r /\ AcquireUpgrade(c, r, md)
  <2>1. /\ waiting_queue' = waiting_queue /\ locks[r].holder = c
        /\ locks' = [locks EXCEPT ![r] = [mode |-> md, holder |-> c,
                                          request |-> Len(requests) + 1]]
    BY <1>6 DEF AcquireUpgrade, Upgrades
  <2>2. locks'[x].holder = locks[x].holder
    BY <1>1, <1>6, <2>1
  <2> QED
    BY <2>1, <2>2 DEF Passes, Queued
<1>7. CASE x = r /\ Enqueue(c, r, md)
  <2> DEFINE s == waiting_queue[r]
             n == Len(requests) + 1
             t == AtBack(s, n)
  <2>1. /\ Call(c, r, md, "waiting") /\ locks' = locks /\ waiting_queue'[r] = t
    BY <1>1, <1>7 DEF Enqueue
  <2>2. n \in NewRequests
    BY <2>1, CallFacts DEF NewRequests
  <2>3. s \in Seq(Nat) /\ n \in Nat
    <3>1. requests \in Seq(Request)
      BY DEF TypeOK
    <3> QED
      BY <1>1, <3>1, LenProperties
  <2> HIDE DEF n, s
  <2>4. /\ Len(s) \in Nat /\ DOMAIN s = 1..Len(s)
        /\ DOMAIN t = 1..(Len(s) + 1)
        /\ \A i \in 1..Len(s) : t[i] = s[i]
        /\ t[Len(s) + 1] = n
    BY <2>3, LenProperties, AppendProperties DEF AtBack
  <2> HIDE DEF t
  <2>5. \A i \in DOMAIN s : i \in DOMAIN t /\ t[i] = s[i]
    BY <2>4
  <2>6. \A i \in DOMAIN t : t[i] = n \/ \E j \in DOMAIN s : t[i] = s[j]
    <3> TAKE i \in DOMAIN t
    <3>1. i \in DOMAIN s \/ i = Len(s) + 1
      BY <2>4
    <3> QED
      BY <2>4, <2>5, <3>1
  <2>7. Queued(x) = {s[i] : i \in DOMAIN s} /\ Queued(x)' = {t[i] : i \in DOMAIN t}
    BY <1>7, <2>1 DEF Queued, s
  <2>8. Queued(x) \subseteq Queued(x)' /\ Queued(x)' \subseteq Queued(x) \cup NewRequests
    BY <2>2, <2>5, <2>6, <2>7
  <2> QED
    BY <2>1, <2>8 DEF Passes
<1> QED
  BY <1>3, <1>4, <1>5, <1>6, <1>7 DEF Acquire

LEMMA PassWait ==
    ASSUME TypeOK, NoLostWakeup, NEW x \in Resource, Queued(x) # {},
           NEW p \in DOMAIN requests, PollTakes(p) \/ PollFinds(p) \/ GiveUp(p)
    PROVE  Passes(x)
<1>0. PICK r \in Resource : r = requests[p].resource
  BY NewLockFacts
<1>1. locks \in [Resource -> Lock \cup {None}] /\ waiting_queue \in [Resource -> Seq(Nat)]
  BY DEF TypeOK
<1>2. locks[x] # None
  BY DEF Queued, NoLostWakeup
<1>3. CASE x # r
  <2>1. locks'[x] = locks[x] /\ waiting_queue'[x] = waiting_queue[x]
    BY <1>0, <1>1, <1>3 DEF PollTakes, PollFinds, GiveUp
  <2> QED
    BY <2>1, SameTablesPass
<1>4. CASE PollFinds(p)
  BY <1>4, SameTablesPass DEF PollFinds
<1>5. CASE x = r /\ PollTakes(p)
  BY <1>0, <1>2, <1>5 DEF PollTakes, FindsFree
<1>6. CASE x = r /\ GiveUp(p)
  <2> DEFINE s == waiting_queue[x]
             t == Without(s, p)
  <2>1. /\ Answer(p, "timeout") /\ locks' = locks /\ waiting_queue'[x] = t
    BY <1>0, <1>1, <1>6 DEF GiveUp
  <2>2. requests'[p].answer = "timeout"
    BY <2>1, AnswerFacts
  <2>3. \A i \in DOMAIN t : t[i] # p /\ t[i] \in Queued(x)
    BY LeaveFacts
  <2>4. s \in Seq(Nat)
    BY <1>1
  <2>5. ASSUME NEW j \in DOMAIN s, s[j] # p
        PROVE  \E i \in DOMAIN t : t[i] = s[j]
    <3> HIDE DEF s
    <3> QED
      BY <2>4, <2>5, WithoutKeeps
  <2> HIDE DEF t
  <2>6. Queued(x)' = {t[i] : i \in DOMAIN t} /\ Queued(x) = {s[i] : i \in DOMAIN s}
    BY <2>1 DEF Queued
  <2> HIDE DEF s
  <2>7. Queued(x)' = Queued(x) \ {p}
    <3>1. Queued(x)' \subseteq Queued(x) \ {p}
      BY <2>3, <2>6
    <3>2. Queued(x) \ {p} \subseteq Queued(x)'
      BY <2>5, <2>6
    <3> QED
      BY <3>1, <3>2
  <2> QED
    BY <2>1, <2>2, <2>7 DEF Passes
<1> QED
  BY <1>3, <1>4, <1>5, <1>6

LEMMA PassServe ==
    ASSUME TypeOK, NEW x \in Resource, Queued(x) # {}, NEW r \in Resource, ServeNext(r)
    PROVE  Passes(x)
<1>1. locks \in [Resource -> Lock \cup {None}] /\ waiting_queue \in [Resource -> Seq(Nat)]
  BY DEF TypeOK
<1>2. CASE x # r
  <2>1. locks'[x] = locks[x] /\ waiting_queue'[x] = waiting_queue[x]
    BY <1>1, <1>2 DEF ServeNext
  <2> QED
    BY <2>1, SameTablesPass
<1>3. CASE x = r
  <2> DEFINE s == waiting_queue[x]
             t == Tail(s)
             h == Head(s)
  <2>1. s \in Seq(Nat) /\ Increasing(s) /\ s # <<>>
    BY ResourceFacts DEF Queued
  <2>2. waiting_queue'[x] = t /\ locks'[x] = NewLock(h)
    BY <1>1, <1>3, <2>1 DEF ServeNext
  <2>3. /\ \E j \in DOMAIN s : s[j] = h
        /\ \A j \in DOMAIN s : h <= s[j]
    BY <2>1, TailFacts
  <2>4. h \in Queued(x) /\ \A w \in Queued(x) : h <= w
    BY <2>3 DEF Queued
  <2>5. h \in DOMAIN requests
    BY <2>4 DEF TypeOK
  <2>6. locks'[x] # None /\ locks'[x].request = h
    BY <2>2, <2>5, NewLockFacts
  <2>7. ASSUME NEW j \in DOMAIN s, s[j] # h
        PROVE  \E i \in DOMAIN t : t[i] = s[j]
    BY <2>1, <2>7, TailKeeps
  <2>8. ASSUME NEW q \in Queued(x)'
        PROVE  q \in Queued(x) /\ q # h
    <3>1. PICK k \in Queued(x) : locks'[x] = NewLock(k) /\ q \in Queued(x) /\ q # k
      BY <1>3, ServedLeaves
    <3>2. k \in DOMAIN requests
      BY DEF TypeOK
    <3>3. k = h
      BY <2>2, <2>5, <3>1, <3>2, NewLockFacts
    <3> QED
      BY <3>1, <3>3
  <2> HIDE DEF t, h
  <2>9. \A q \in Queued(x) : q # h => q \in Queued(x)'
    BY <2>2, <2>7 DEF Queued
  <2>10. Queued(x)' = Queued(x) \ {h}
    BY <2>8, <2>9
  <2> QED
    BY <2>4, <2>6, <2>10 DEF Passes
<1> QED
  BY <1>2, <1>3

LEMMA PassNext ==
    ASSUME TypeOK, NoLostWakeup, Next, NEW x \in Resource, Queued(x) # {}
    PROVE  Passes(x)
<1>1. ASSUME NEW c \in Client, NEW r \in Resource, NEW md \in Mode, Acquire(c, r, md)
      PROVE  Passes(x)
  BY <1>1, PassAcquire
<1>2. ASSUME NEW p \in DOMAIN requests, PollTakes(p) \/ PollFinds(p) \/ GiveUp(p)
      PROVE  Passes(x)
  BY <1>2, PassWait
<1>3. ASSUME NEW r \in Resource, ServeNext(r)
      PROVE  Passes(x)
  BY <1>3, PassServe
<1>4. UNCHANGED <<locks, waiting_queue>> => Passes(x)
  BY SameTablesPass
<1> QED
  BY <1>1, <1>2, <1>3, <1>4 DEF Next, Release, ReleaseRefused, Expire

LEMMA ToldOne ==
    ASSUME TypeOK, NEW c, NEW r \in Resource, NEW md, Told(c, r, md),
           NEW x \in Resource, NEW h \in holds'[x] \ holds[x]
    PROVE  x = r /\ h.client = c /\ h.mode = md
<1>1. holds' = [holds EXCEPT ![r] = holds[r] \cup {[client |-> c, mode |-> md]}]
  BY DEF Told
<1>2. holds \in [Resource -> SUBSET Hold]
  BY DEF TypeOK
<1>3. x = r
  BY <1>1, <1>2
<1>4. h \in holds[r] \cup {[client |-> c, mode |-> md]}
  BY <1>1, <1>2, <1>3
<1>5. h = [client |-> c, mode |-> md]
  BY <1>3, <1>4
<1> QED
  BY <1>3, <1>5

\* While somebody is queued, who is told that it has the resource is the
\* recorded holder or joins a shared lock: the resource is not free to be taken.
LEMMA WhoIsTold ==
    ASSUME TypeOK, NoLostWakeup, Next, NEW x \in Resource, Queued(x) # {},
           NEW h \in holds'[x] \ holds[x]
    PROVE  \/ locks'[x] # None /\ locks'[x].holder = h.client
           \/ locks[x].mode = "shared" /\ h.mode = "shared"
<1>1. /\ locks \in [Resource -> Lock \cup {None}] /\ locks[x] # None
      /\ holds \in [Resource -> SUBSET Hold]
  BY DEF TypeOK, Queued, NoLostWakeup
<1>2. ASSUME NEW c \in Client, NEW r \in Resource, NEW md \in Mode, AcquireFree(c, r, md)
      PROVE  FALSE
  BY <1>1, <1>2, ToldOne DEF AcquireFree
<1>3. ASSUME NEW c \in Client, NEW r \in Resource, NEW md \in Mode, AcquireShared(c, r, md)
      PROVE  locks[x].mode = "shared" /\ h.mode = "shared"
  BY <1>3, ToldOne DEF AcquireShared, Joins
<1>4. ASSUME NEW c \in Client, NEW r \in Resource, NEW md \in Mode, AcquireUpgrade(c, r, md)
      PROVE  locks'[x] # None /\ locks'[x].holder = h.client
  <2>1. x = r /\ h.client = c
    BY <1>4, ToldOne DEF AcquireUpgrade
  <2>2. locks'[x] = [mode |-> md, holder |-> c, request |-> Len(requests) + 1]
    BY <1>1, <1>4, <2>1 DEF AcquireUpgrade
  <2>3. requests \in Seq(Request) /\ md \in {"shared", "exclusive"}
    BY ModeAssumption DEF TypeOK
  <2>4. locks'[x] # None
    <3>1. Len(requests) + 1 \in Nat
      BY <2>3, LenProperties
    <3> QED
      BY <2>2, <3>1, NoneAssumption
  <2> QED
    BY <2>1, <2>2, <2>4
<1>5. ASSUME NEW p \in DOMAIN requests, PollTakes(p)
      PROVE  FALSE
  <2>1. PICK r \in Resource : r = requests[p].resource
    BY NewLockFacts
  <2> QED
    BY <1>1, <1>5, <2>1, ToldOne DEF PollTakes, FindsFree
<1>6. ASSUME NEW p \in DOMAIN requests, PollFinds(p)
      PROVE  locks'[x] # None /\ locks'[x].holder = h.client
  <2>1. PICK r \in Resource : r = requests[p].resource
    BY NewLockFacts
  <2>2. x = r /\ h.client = requests[p].client
    BY <1>6, <2>1, ToldOne DEF PollFinds
  <2> QED
    BY <1>6, <2>1, <2>2 DEF PollFinds, FindsItself
<1>7. ASSUME NEW c \in Client, NEW r \in Resource, Release(c, r) \/ ReleaseRefused(c, r)
      PROVE  FALSE
  BY <1>1, <1>7 DEF Release, ReleaseRefused
<1>8. ASSUME NEW r \in Resource, Expire(r)
      PROVE  FALSE
  BY <1>1, <1>8 DEF Expire
<1>9. holds' # holds
  OBVIOUS
<1> QED
  BY <1>2, <1>3, <1>4, <1>5, <1>6, <1>7, <1>8, <1>9
     DEF Next, Acquire, Enqueue, RefuseAtOnce, GiveUp

\* What TurnComes says of the way of one queued request.
LEMMA TurnNext ==
    ASSUME TypeOK, NoLostWakeup, Next, NEW r \in Resource, NEW q \in Queued(r)
    PROVE  /\ q \in Queued(r)' =>
                 /\ InFront(r, q)' \subseteq InFront(r, q)
                 /\ locks'[r] # locks[r] => \/ InFront(r, q)' # InFront(r, q)
                                            \/ locks'[r].holder = locks[r].holder
           /\ q \notin Queued(r)' => \/ locks'[r] # None /\ locks'[r].request = q
                                     \/ requests'[q].answer = "timeout"
<1>1. Passes(r)
  BY PassNext
<1>2. q \in DOMAIN requests /\ q \in Nat /\ Queued(r) \subseteq Nat
  BY ResourceFacts, ElementOfSeq DEF TypeOK, Queued
<1>3. ASSUME NEW n \in NewRequests PROVE ~(n < q)
  <2>1. DOMAIN requests = 1..Len(requests) /\ Len(requests) \in Nat
    <3>1. requests \in Seq(Request)
      BY DEF TypeOK
    <3> QED
      BY <3>1, LenProperties
  <2>2. n \in Nat \ {0}
    <3>1. requests' \in Seq(Request)
      BY TypeNext DEF TypeOK
    <3> QED
      BY <3>1, LenProperties DEF NewRequests
  <2> QED
    BY <1>2, <2>1, <2>2 DEF NewRequests
<1>4. CASE /\ locks'[r].holder = locks[r].holder
           /\ Queued(r) \subseteq Queued(r)'
           /\ Queued(r)' \subseteq Queued(r) \cup NewRequests
  BY <1>3, <1>4 DEF InFront
<1>5. ASSUME NEW p \in DOMAIN requests,
             locks'[r] = locks[r], requests'[p].answer = "timeout",
             Queued(r)' = Queued(r) \ {p}
      PROVE  /\ q \in Queued(r)' => InFront(r, q)' \subseteq InFront(r, q)
             /\ q \notin Queued(r)' => requests'[q].answer = "timeout"
  BY <1>5 DEF InFront
<1>6. ASSUME NEW h \in Queued(r),
             locks'[r] # None, locks'[r].request = h,
             \A w \in Queued(r) : h <= w,
             Queued(r)' = Queued(r) \ {h}
      PROVE  /\ q \in Queued(r)' => InFront(r, q)' \subseteq InFront(r, q)
                                    /\ InFront(r, q)' # InFront(r, q)
             /\ q \notin Queued(r)' => locks'[r].request = q
  <2>1. q \notin Queued(r)' => q = h
    BY <1>6
  <2>2. ASSUME q # h PROVE h \in InFront(r, q) /\ h \notin InFront(r, q)'
    <3>1. h <= q /\ h \in Nat
      BY <1>2, <1>6
    <3>2. h < q
      BY <1>2, <2>2, <3>1
    <3> QED
      BY <1>6, <3>2 DEF InFront
  <2>3. InFront(r, q)' \subseteq InFront(r, q)
    BY <1>6 DEF InFront
  <2> QED
    BY <1>6, <2>1, <2>2, <2>3
<1> QED
  BY <1>1, <1>4, <1>5, <1>6 DEF Passes

\* However clients ask, poll, upgrade, release and crash, a request that is
\* queued moves only forward, every change of hands brings it closer, and only
\* the holder and readers that join its shared lock are told they have the
\* resource before it.
THEOREM TurnsComeInOrder == Spec => TurnComes
<1>1. ASSUME TypeOK, NoLostWakeup, [Next]_vars
      PROVE  [\A r \in Resource : \A q \in Queued(r) :
                /\ q \in Queued(r)' =>
                      /\ InFront(r, q)' \subseteq InFront(r, q)
                      /\ locks'[r] # locks[r] => \/ InFront(r, q)' # InFront(r, q)
                                                 \/ locks'[r].holder = locks[r].holder
                /\ q \notin Queued(r)' => \/ locks'[r] # None /\ locks'[r].request = q
                                          \/ requests'[q].answer = "timeout"
                /\ \A h \in holds'[r] \ holds[r] :
                      \/ locks'[r] # None /\ locks'[r].holder = h.client
                      \/ locks[r].mode = "shared" /\ h.mode = "shared"]_vars
  <2>1. CASE Next
    BY <1>1, <2>1, TurnNext, WhoIsTold
  <2>2. CASE UNCHANGED vars
    BY <2>2
  <2> QED
    BY <1>1, <2>1, <2>2
<1> QED
  BY <1>1, TypeCorrect, WakeupsAreKept, PTL DEF Spec, TurnComes
=============================================================================
