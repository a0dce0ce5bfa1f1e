----------------------------- MODULE QueueProofs -----------------------------
(* Theorems about Queue, for any topics, partitions and number of messages. *)
EXTENDS Queue, TLAPS, SequenceTheorems

\* No element twice.
Distinct(s) == \A i, j \in DOMAIN s : s[i] = s[j] => i = j

LEMMA AtTheEnd ==
    ASSUME NEW S, NEW s \in Seq(S), NEW e \in S
    PROVE  /\ Append(s, e) \in Seq(S)
           /\ Elements(Append(s, e)) = Elements(s) \cup {e}
           /\ Distinct(s) /\ e \notin Elements(s) => Distinct(Append(s, e))
<1> DEFINE t == Append(s, e)
           n == Len(s)
<1>1. n \in Nat /\ DOMAIN s = 1..n
  BY LenProperties
<1>2. /\ t \in Seq(S) /\ DOMAIN t = 1..(n + 1)
      /\ \A i \in 1..n : t[i] = s[i]
      /\ t[n + 1] = e
  BY <1>1
<1> HIDE DEF t, n
<1>3. Elements(t) = Elements(s) \cup {e}
  <2>1. \A i \in 1..(n + 1) : i \in 1..n \/ i = n + 1
    BY <1>1
  <2>2. n + 1 \in 1..(n + 1) /\ \A i \in 1..n : i \in 1..(n + 1)
    BY <1>1
  <2> QED
    BY <1>1, <1>2, <2>1, <2>2 DEF Elements
<1>4. ASSUME Distinct(s), e \notin Elements(s)
      PROVE  Distinct(t)
  <2> SUFFICES ASSUME NEW i \in 1..(n + 1), NEW j \in 1..(n + 1), t[i] = t[j]
               PROVE  i = j
    BY <1>2 DEF Distinct
  <2>1. \A k \in 1..n : s[k] # e
    BY <1>1, <1>4 DEF Elements
  <2> QED
    BY <1>1, <1>2, <1>4, <2>1 DEF Distinct
<1> QED
  BY <1>2, <1>3, <1>4 DEF t

LEMMA AtTheFront ==
    ASSUME NEW S, NEW s \in Seq(S), NEW e \in S
    PROVE  /\ FrontOfQueue(s, e) \in Seq(S)
           /\ Elements(FrontOfQueue(s, e)) = Elements(s) \cup {e}
           /\ Distinct(s) /\ e \notin Elements(s) => Distinct(FrontOfQueue(s, e))
<1> DEFINE t == FrontOfQueue(s, e)
           n == Len(s)
<1>1. n \in Nat /\ DOMAIN s = 1..n
  BY LenProperties
<1>2. /\ t \in Seq(S) /\ DOMAIN t = 1..(n + 1)
      /\ \A i \in 1..n : t[i + 1] = s[i]
      /\ t[1] = e
  BY <1>1 DEF FrontOfQueue
<1> HIDE DEF t, n
<1>3. \A i \in 1..(n + 1) : i = 1 \/ (i - 1 \in 1..n /\ t[i] = s[i - 1])
  <2> TAKE i \in 1..(n + 1)
  <2>1. CASE i # 1
    <3>1. i - 1 \in 1..n /\ (i - 1) + 1 = i
      BY <1>1, <2>1
    <3> QED
      BY <1>2, <3>1
  <2> QED
    BY <2>1
<1>4. Elements(t) = Elements(s) \cup {e}
  <2>1. 1 \in 1..(n + 1) /\ \A i \in 1..n : i + 1 \in 1..(n + 1)
    BY <1>1
  <2>2. ASSUME NEW x \in Elements(t) PROVE x \in Elements(s) \cup {e}
    <3>1. PICK i \in 1..(n + 1) : x = t[i]
      BY <1>2 DEF Elements
    <3> QED
      BY <1>1, <1>2, <1>3, <3>1 DEF Elements
  <2>3. ASSUME NEW x \in Elements(s) PROVE x \in Elements(t)
    <3>1. PICK i \in 1..n : x = s[i]
      BY <1>1 DEF Elements
    <3>2. x = t[i + 1] /\ i + 1 \in 1..(n + 1)
      BY <1>2, <2>1, <3>1
    <3> QED
      BY <1>2, <3>2 DEF Elements
  <2>4. e \in Elements(t)
    BY <1>2, <2>1 DEF Elements
  <2> QED
    BY <2>2, <2>3, <2>4
<1>5. ASSUME Distinct(s), e \notin Elements(s)
      PROVE  Distinct(t)
  <2> SUFFICES ASSUME NEW i \in 1..(n + 1), NEW j \in 1..(n + 1), t[i] = t[j]
               PROVE  i = j
    BY <1>2 DEF Distinct
  <2>1. \A k \in 1..n : s[k] # e
    BY <1>1, <1>5 DEF Elements
  <2>2. CASE i = 1 \/ j = 1
    BY <1>2, <1>3, <2>1, <2>2
  <2>3. CASE i # 1 /\ j # 1
    <3>1. i - 1 \in 1..n /\ j - 1 \in 1..n /\ s[i - 1] = s[j - 1]
      BY <1>3, <2>3
    <3>2. i - 1 = j - 1
      BY <1>1, <1>5, <3>1 DEF Distinct
    <3> QED
      BY <1>1, <3>2
  <2> QED
    BY <2>2, <2>3
<1> QED
  BY <1>2, <1>4, <1>5 DEF t

LEMMA WithoutTheHead ==
    ASSUME NEW S, NEW s \in Seq(S), s # <<>>, Distinct(s)
    PROVE  /\ Tail(s) \in Seq(S) /\ Head(s) \in S
           /\ Head(s) \in Elements(s)
           /\ Elements(Tail(s)) = Elements(s) \ {Head(s)}
           /\ Distinct(Tail(s))
<1> DEFINE t == Tail(s)
           n == Len(s)
<1>1. n \in Nat \ {0} /\ DOMAIN s = 1..n
  BY LenProperties, EmptySeq
<1>2. /\ t \in Seq(S) /\ Len(t) = n - 1
      /\ \A i \in 1..Len(t) : t[i] = s[i + 1]
      /\ Head(s) \in S
  BY HeadTailProperties
<1>3. DOMAIN t = 1..(n - 1) /\ \A i \in 1..(n - 1) : t[i] = s[i + 1]
  BY <1>2, LenProperties
<1>4. Head(s) = s[1]
  BY <1>1
<1> HIDE DEF t, n
<1>5. \A i \in 1..(n - 1) : i + 1 \in 1..n /\ i + 1 # 1
  BY <1>1
<1>6. \A i \in 1..n : i = 1 \/ \E j \in 1..(n - 1) : i = j + 1
  <2> TAKE i \in 1..n
  <2>1. CASE i # 1
    <3>1. i - 1 \in 1..(n - 1) /\ i = (i - 1) + 1
      BY <1>1, <2>1
    <3> QED
      BY <3>1
  <2> QED
    BY <2>1
<1>7. 1 \in 1..n
  BY <1>1
<1>8. Elements(t) = Elements(s) \ {Head(s)}
  <2>1. ASSUME NEW i \in 1..(n - 1) PROVE t[i] \in Elements(s) /\ t[i] # s[1]
    BY <1>1, <1>3, <1>5, <1>7 DEF Elements, Distinct
  <2>2. ASSUME NEW x \in Elements(s), x # s[1] PROVE x \in Elements(t)
    <3>1. PICK i \in 1..n : x = s[i]
      BY <1>1 DEF Elements
    <3>2. PICK j \in 1..(n - 1) : i = j + 1
      BY <1>6, <2>2, <3>1
    <3> QED
      BY <1>3, <3>1, <3>2 DEF Elements
  <2>3. \A x \in Elements(t) : \E i \in 1..(n - 1) : x = t[i]
    BY <1>3 DEF Elements
  <2> QED
    BY <1>4, <2>1, <2>2, <2>3
<1>9. Distinct(t)
  <2> SUFFICES ASSUME NEW i \in 1..(n - 1), NEW j \in 1..(n - 1), t[i] = t[j]
               PROVE  i = j
    BY <1>3 DEF Distinct
  <2>1. i + 1 = j + 1
    BY <1>1, <1>3, <1>5 DEF Distinct
  <2> QED
    BY <1>1, <2>1
<1> QED
  BY <1>1, <1>2, <1>4, <1>7, <1>8, <1>9 DEF Elements, t

-----------------------------------------------------------------------------
(***************************************************************************)
(* The invariants are inductive together: that nothing is lost when a      *)
(* partition is popped needs that its head is not out, and that a late     *)
(* task finds its message gone, and so puts it back, needs the same.       *)
(***************************************************************************)
QInv == TypeOK /\ NothingIsLost /\ OnePlace /\ AckReachesItsTask

LEMMA SlotFacts == Absent \notin Slot /\ Orphan \notin Slot /\ Absent # Orphan
BY BoundAssumption DEF Absent, Orphan, Slot

\* The published ids are the first ones.
LEMMA IdFacts ==
    ASSUME TypeOK
    PROVE  /\ Len(messages) \in Nat
           /\ DOMAIN messages = 1..Len(messages)
           /\ \A m \in DOMAIN messages : m \in 1..MaxMessages /\ messages[m] \in Topic
           /\ \A m \in DOMAIN messages : LaneOf(m) \in Partition
           /\ delivered \subseteq DOMAIN messages
<1>1. messages \in Seq(Topic) /\ Len(messages) <= MaxMessages /\ delivered \subseteq DOMAIN messages
  BY DEF TypeOK
<1>2. Len(messages) \in Nat /\ DOMAIN messages = 1..Len(messages)
  BY <1>1, LenProperties
<1>3. \A m \in DOMAIN messages : m \in 1..MaxMessages /\ messages[m] \in Topic
  BY <1>1, <1>2, BoundAssumption, ElementOfSeq
<1> QED
  BY <1>1, <1>2, <1>3, PartitionAssumption DEF LaneOf

THEOREM QInit == Init => QInv
<1> SUFFICES ASSUME Init PROVE QInv
  OBVIOUS
<1>1. messages = <<>> /\ messages \in Seq(Topic) /\ Len(messages) = 0 /\ DOMAIN messages = {}
  BY EmptySeq DEF Init
<1>2. \A p \in Partition : /\ local_queues[p] \in Seq(1..MaxMessages)
                           /\ DOMAIN local_queues[p] = {}
                           /\ Elements(local_queues[p]) = {}
  BY EmptySeq DEF Init, Elements
<1>3. \A m \in 1..MaxMessages : ~Out(m) /\ pending_ack[m] = Absent
  BY DEF Init, Out, Live
<1>4. TypeOK
  <2>1. local_queues \in [Partition -> Seq(1..MaxMessages)]
    BY <1>2 DEF Init
  <2>2. tasks \in [1..MaxMessages -> [Slot -> Stage]]
    BY DEF Init, Stage
  <2> QED
    BY <1>1, <1>2, <1>3, <2>1, <2>2, SlotFacts, BoundAssumption DEF Init, TypeOK
<1>5. NothingIsLost
  BY <1>1 DEF NothingIsLost
<1>6. OnePlace
  BY <1>1, <1>2 DEF Init, OnePlace, Live
<1>7. AckReachesItsTask
  BY DEF Init, AckReachesItsTask
<1> QED
  BY <1>4, <1>5, <1>6, <1>7 DEF QInv

-----------------------------------------------------------------------------
(* What each action does to the message it is about, and to no other. *)

Still(h) ==
    /\ \A m \in 1..MaxMessages \ {h} : m \in DOMAIN messages' <=> m \in DOMAIN messages
    /\ \A m \in DOMAIN messages \ {h} : LaneOf(m)' = LaneOf(m) /\ (Queued(m)' <=> Queued(m))
    /\ \A m \in 1..MaxMessages \ {h} : Out(m)' <=> Out(m)

Arrives(h, q) ==
    /\ h = Len(messages) + 1
    /\ DOMAIN messages' = DOMAIN messages \cup {h}
    /\ Queued(h)' /\ LaneOf(h)' = q
    /\ local_queues' = [local_queues EXCEPT ![q] = Append(@, h)]
    /\ UNCHANGED <<delivered, acked>>

Leaves(h, q) ==
    /\ h \in DOMAIN messages /\ Queued(h) /\ LaneOf(h) = q
    /\ ~Queued(h)' /\ Out(h)'
    /\ local_queues[q] # <<>> /\ h = Head(local_queues[q])
    /\ local_queues' = [local_queues EXCEPT ![q] = Tail(@)]
    /\ delivered' = delivered \cup {h}

Returns(h) ==
    /\ h \in delivered /\ Out(h) /\ ~Out(h)'
    /\ Queued(h)'
    /\ local_queues' = [local_queues EXCEPT ![LaneOf(h)] = FrontOfQueue(@, h)]
    /\ UNCHANGED <<messages, delivered, acked>>

IsConfirmed(h) ==
    /\ h \in delivered
    /\ Queued(h)' <=> Queued(h)
    /\ Out(h)' => Out(h)
    /\ acked' = acked \cup {h}
    /\ UNCHANGED <<messages, local_queues, delivered>>

LEMMA EnqueueStep ==
    ASSUME QInv, NEW t \in Topic, Enqueue(t)
    PROVE  QInv' /\ \E h \in 1..MaxMessages : Still(h) /\ Arrives(h, PartitionOf[t])
<1> DEFINE q == PartitionOf[t]
<1>1. TypeOK /\ NothingIsLost /\ OnePlace /\ AckReachesItsTask
  BY DEF QInv
<1>0. PICK n \in 1..MaxMessages : n = Len(messages) + 1
  BY <1>1, IdFacts, BoundAssumption DEF Enqueue
<1>2. n \notin DOMAIN messages /\ q \in Partition
  BY <1>0, <1>1, IdFacts, PartitionAssumption
<1>3. /\ messages' \in Seq(Topic) /\ Len(messages') <= MaxMessages
      /\ DOMAIN messages' = DOMAIN messages \cup {n}
      /\ \A m \in DOMAIN messages : messages'[m] = messages[m]
      /\ messages'[n] = t
  <2>1. messages \in Seq(Topic) /\ messages' = Append(messages, t) /\ Len(messages) < MaxMessages
    BY <1>1 DEF TypeOK, Enqueue
  <2>2. /\ messages' \in Seq(Topic) /\ Len(messages') = n
        /\ \A m \in 1..Len(messages) : messages'[m] = messages[m]
        /\ messages'[n] = t
    BY <1>0, <2>1, AppendProperties
  <2>3. Len(messages) \in Nat /\ DOMAIN messages = 1..Len(messages)
    BY <1>1, IdFacts
  <2>4. DOMAIN messages' = 1..n
    BY <2>2, LenProperties
  <2> QED
    BY <1>0, <2>1, <2>2, <2>3, <2>4, BoundAssumption
<1>4. /\ \A m \in DOMAIN messages : LaneOf(m)' = LaneOf(m)
      /\ LaneOf(n)' = q
  BY <1>3 DEF LaneOf
<1>5. \A p \in Partition : n \notin Elements(local_queues[p])
  BY <1>1, <1>2 DEF TypeOK
<1>6. ~Out(n) /\ pending_ack[n] = Absent
  BY <1>1, <1>2, IdFacts DEF TypeOK
<1>7. local_queues' = [local_queues EXCEPT ![q] = Append(@, n)]
  BY <1>0 DEF Enqueue
<1>8. local_queues \in [Partition -> Seq(1..MaxMessages)] /\ \A p \in Partition : Distinct(local_queues[p])
  BY <1>1 DEF TypeOK, OnePlace, Distinct
<1> HIDE DEF q
<1>9. \A p \in Partition :
        /\ local_queues'[p] \in Seq(1..MaxMessages) /\ Distinct(local_queues'[p])
        /\ Elements(local_queues'[p]) = Elements(local_queues[p]) \cup (IF p = q THEN {n} ELSE {})
  <2> TAKE p \in Partition
  <2>1. CASE p = q
    <3>1. local_queues'[p] = Append(local_queues[p], n)
      BY <1>7, <1>8, <2>1
    <3>2. local_queues[p] \in Seq(1..MaxMessages) /\ Distinct(local_queues[p]) /\ n \notin Elements(local_queues[p])
      BY <1>5, <1>8
    <3>3. /\ Append(local_queues[p], n) \in Seq(1..MaxMessages)
          /\ Distinct(Append(local_queues[p], n))
          /\ Elements(Append(local_queues[p], n)) = Elements(local_queues[p]) \cup {n}
      BY <1>0, <3>2, AtTheEnd
    <3> QED
      BY <2>1, <3>1, <3>3
  <2>2. CASE p # q
    BY <1>7, <1>8, <2>2
  <2> QED
    BY <2>1, <2>2
<1>10. /\ \A m \in DOMAIN messages : Queued(m)' <=> Queued(m)
       /\ Queued(n)'
  <2>1. Queued(n)'
    BY <1>2, <1>4, <1>9 DEF Queued
  <2>2. ASSUME NEW m \in DOMAIN messages PROVE Queued(m)' <=> Queued(m)
    <3>1. LaneOf(m) \in Partition /\ LaneOf(m)' = LaneOf(m) /\ m # n
      BY <1>1, <1>2, <1>4, IdFacts
    <3>2. m \in Elements(local_queues'[LaneOf(m)]) <=> m \in Elements(local_queues[LaneOf(m)])
      BY <1>9, <3>1
    <3> QED
      BY <3>1, <3>2 DEF Queued
  <2> QED
    BY <2>1, <2>2
<1>11. UNCHANGED <<asleep, tasks, pending_ack, delivered, acked>>
  BY DEF Enqueue
<1>12. \A m : Out(m)' <=> Out(m)
  BY <1>11 DEF Out, Live
<1>13. TypeOK'
  <2>1. local_queues' \in [Partition -> Seq(1..MaxMessages)]
    BY <1>7, <1>8, <1>9
  <2>2. ASSUME NEW p \in Partition, NEW m \in Elements(local_queues'[p])
        PROVE  m \in DOMAIN messages' /\ LaneOf(m)' = p
    <3>1. m \in Elements(local_queues[p]) \/ (m = n /\ p = q)
      BY <1>9
    <3>2. m \in Elements(local_queues[p]) => m \in DOMAIN messages /\ LaneOf(m) = p
      BY <1>1 DEF TypeOK
    <3> QED
      BY <1>3, <1>4, <3>1, <3>2
  <2> QED
    BY <1>1, <1>3, <1>11, <1>12, <2>1, <2>2 DEF TypeOK
<1>14. NothingIsLost'
  <2> SUFFICES ASSUME NEW m \in DOMAIN messages', m \notin acked'
               PROVE  Queued(m)' \/ Out(m)'
    BY DEF NothingIsLost
  <2>1. CASE m = n
    BY <1>10, <2>1
  <2>2. CASE m \in DOMAIN messages
    BY <1>1, <1>10, <1>11, <1>12, <2>2 DEF NothingIsLost
  <2> QED
    BY <1>3, <2>1, <2>2
<1>15. OnePlace'
  BY <1>1, <1>3, <1>6, <1>9, <1>10, <1>11, <1>12 DEF OnePlace, Distinct, Live
<1>16. AckReachesItsTask'
  BY <1>1, <1>11 DEF AckReachesItsTask
<1>17. Still(n)
  BY <1>2, <1>3, <1>4, <1>10, <1>12 DEF Still
<1>18. Arrives(n, q)
  BY <1>0, <1>3, <1>4, <1>7, <1>10, <1>11 DEF Arrives
<1> QED
  BY <1>13, <1>14, <1>15, <1>16, <1>17, <1>18 DEF QInv, q

\* A delivery, whether the consumer slept or not.
LEMMA DeliverStep ==
    ASSUME QInv, NEW q \in Partition, local_queues[q] # <<>>, Deliver(q),
           messages' = messages, acked' = acked, asleep' \in Partition \cup {None}
    PROVE  QInv' /\ \E h \in 1..MaxMessages : Still(h) /\ Leaves(h, q)
<1>1. TypeOK /\ NothingIsLost /\ OnePlace /\ AckReachesItsTask
  BY DEF QInv
<1>2. local_queues \in [Partition -> Seq(1..MaxMessages)] /\ \A p \in Partition : Distinct(local_queues[p])
  BY <1>1 DEF TypeOK, OnePlace, Distinct
<1>3. PICK h \in 1..MaxMessages : h = Head(local_queues[q])
  BY <1>2, WithoutTheHead
<1>4. PICK k \in Slot : k = FreeSlot(h)
  BY <1>3 DEF Deliver, FreeSlot
<1>5. /\ local_queues' = [local_queues EXCEPT ![q] = Tail(@)]
      /\ tasks' = [tasks EXCEPT ![h][k] = "waiting"]
      /\ pending_ack' = [pending_ack EXCEPT ![h] = k]
      /\ delivered' = delivered \cup {h}
  BY <1>3, <1>4 DEF Deliver, AfterPop, EventOf
<1>6. \A p \in Partition :
        /\ local_queues'[p] \in Seq(1..MaxMessages) /\ Distinct(local_queues'[p])
        /\ \A m : m \in Elements(local_queues'[p]) <=>
                    m \in Elements(local_queues[p]) /\ ~(p = q /\ m = h)
  <2> TAKE p \in Partition
  <2>1. CASE p = q
    <3>1. local_queues'[p] = Tail(local_queues[p])
      BY <1>2, <1>5, <2>1
    <3>2. /\ Tail(local_queues[p]) \in Seq(1..MaxMessages)
          /\ Distinct(Tail(local_queues[p]))
          /\ Elements(Tail(local_queues[p])) = Elements(local_queues[p]) \ {h}
      BY <1>2, <1>3, <2>1, WithoutTheHead
    <3> QED
      BY <2>1, <3>1, <3>2
  <2>2. CASE p # q
    BY <1>2, <1>5, <2>2
  <2> QED
    BY <2>1, <2>2
<1>7. h \in Elements(local_queues[q])
  BY <1>2, <1>3, WithoutTheHead
<1>8. h \in DOMAIN messages /\ LaneOf(h) = q /\ Queued(h)
  BY <1>1, <1>7 DEF TypeOK, Queued
<1>9. \A j \in Slot : ~Live(h, j)
  BY <1>1, <1>8 DEF OnePlace, Out
<1>10. \A m : LaneOf(m)' = LaneOf(m)
  BY DEF LaneOf
<1>11. \A m \in DOMAIN messages : Queued(m)' <=> Queued(m) /\ m # h
  <2> TAKE m \in DOMAIN messages
  <2>1. LaneOf(m) \in Partition /\ LaneOf(m)' = LaneOf(m)
    BY <1>1, <1>10, IdFacts
  <2>2. m \in Elements(local_queues'[LaneOf(m)]) <=>
            m \in Elements(local_queues[LaneOf(m)]) /\ ~(LaneOf(m) = q /\ m = h)
    BY <1>6, <2>1
  <2> QED
    BY <1>8, <2>1, <2>2 DEF Queued
<1>12. /\ tasks \in [1..MaxMessages -> [Slot -> Stage]]
       /\ pending_ack \in [1..MaxMessages -> Slot \cup {Absent, Orphan}]
  BY <1>1 DEF TypeOK
<1>13. /\ \A m \in 1..MaxMessages : m # h => tasks'[m] = tasks[m] /\ pending_ack'[m] = pending_ack[m]
       /\ \A j \in Slot : tasks'[h][j] = IF j = k THEN "waiting" ELSE tasks[h][j]
       /\ pending_ack'[h] = k
  BY <1>5, <1>12
<1>14. /\ \A m \in 1..MaxMessages, j \in Slot : m # h => (Live(m, j)' <=> Live(m, j))
       /\ \A j \in Slot : Live(h, j)' <=> j = k
  <2>1. \A m \in 1..MaxMessages, j \in Slot : m # h => (Live(m, j)' <=> Live(m, j))
    BY <1>13 DEF Live
  <2>2. \A j \in Slot : Live(h, j)' <=> j = k
    BY <1>9, <1>13 DEF Live
  <2> QED
    BY <2>1, <2>2
<1>15. /\ \A m \in 1..MaxMessages : m # h => (Out(m)' <=> Out(m))
       /\ Out(h)'
  BY <1>14 DEF Out
<1>16. TypeOK'
  <2>1. local_queues' \in [Partition -> Seq(1..MaxMessages)]
    BY <1>2, <1>5, <1>6
  <2>2. /\ tasks' \in [1..MaxMessages -> [Slot -> Stage]]
        /\ pending_ack' \in [1..MaxMessages -> Slot \cup {Absent, Orphan}]
    BY <1>5, <1>12 DEF Stage
  <2>3. ASSUME NEW p \in Partition, NEW m \in Elements(local_queues'[p])
        PROVE  m \in DOMAIN messages' /\ LaneOf(m)' = p
    BY <1>1, <1>6, <1>10 DEF TypeOK
  <2>4. ASSUME NEW m \in 1..MaxMessages
        PROVE  /\ Out(m)' \/ pending_ack'[m] # Absent => m \in delivered'
               /\ pending_ack'[m] \in Slot => tasks'[m][pending_ack'[m]] = "waiting"
    <3>1. CASE m = h
      BY <1>5, <1>13, <3>1
    <3>2. CASE m # h
      BY <1>1, <1>5, <1>13, <1>15, <3>2 DEF TypeOK
    <3> QED
      BY <3>1, <3>2
  <2>5. messages' \in Seq(Topic) /\ Len(messages') <= MaxMessages
    BY <1>1 DEF TypeOK
  <2>6. acked' \subseteq delivered' /\ delivered' \subseteq DOMAIN messages'
    BY <1>1, <1>5, <1>8 DEF TypeOK
  <2> QED
    BY <2>1, <2>2, <2>3, <2>4, <2>5, <2>6 DEF TypeOK
<1>17. NothingIsLost'
  <2> SUFFICES ASSUME NEW m \in DOMAIN messages, m \notin acked
               PROVE  Queued(m)' \/ Out(m)'
    BY DEF NothingIsLost
  <2>1. CASE m = h
    BY <1>15, <2>1
  <2>2. CASE m # h
    BY <1>1, <1>11, <1>15, <2>2, IdFacts DEF NothingIsLost
  <2> QED
    BY <2>1, <2>2
<1>18. OnePlace'
  <2>1. \A m \in 1..MaxMessages : \A i, j \in Slot : Live(m, i)' /\ Live(m, j)' => i = j
    BY <1>1, <1>14 DEF OnePlace
  <2>2. \A m \in DOMAIN messages : ~(Queued(m)' /\ Out(m)')
    BY <1>1, <1>11, <1>15, IdFacts DEF OnePlace
  <2> QED
    BY <1>6, <2>1, <2>2 DEF OnePlace, Distinct
<1>19. AckReachesItsTask'
  <2> SUFFICES ASSUME NEW m \in 1..MaxMessages, NEW j \in Slot, tasks'[m][j] = "waiting"
               PROVE  pending_ack'[m] = j
    BY DEF AckReachesItsTask
  <2>1. CASE m = h
    BY <1>9, <1>13, <2>1 DEF Live
  <2>2. CASE m # h
    BY <1>1, <1>13, <2>2 DEF AckReachesItsTask
  <2> QED
    BY <2>1, <2>2
<1>20. Still(h)
  BY <1>10, <1>11, <1>15 DEF Still
<1>21. Leaves(h, q)
  BY <1>3, <1>5, <1>8, <1>11, <1>15 DEF Leaves
<1> QED
  BY <1>16, <1>17, <1>18, <1>19, <1>20, <1>21 DEF QInv

\* What TypeOK says of a step that moves no message.
LEMMA SameMessages ==
    ASSUME TypeOK, OnePlace, UNCHANGED <<messages, local_queues>>
    PROVE  /\ messages' \in Seq(Topic) /\ Len(messages') <= MaxMessages
           /\ local_queues' \in [Partition -> Seq(1..MaxMessages)]
           /\ \A p \in Partition : \A m \in Elements(local_queues'[p]) :
                m \in DOMAIN messages' /\ LaneOf(m)' = p
           /\ \A p \in Partition : \A i, j \in DOMAIN local_queues'[p] :
                local_queues'[p][i] = local_queues'[p][j] => i = j
           /\ \A m : Queued(m)' <=> Queued(m)
<1>1. \A m : LaneOf(m)' = LaneOf(m)
  BY DEF LaneOf
<1>2. \A p \in Partition : \A m \in Elements(local_queues'[p]) :
        m \in DOMAIN messages' /\ LaneOf(m)' = p
  BY <1>1 DEF TypeOK
<1>3. \A m : Queued(m)' <=> Queued(m)
  BY <1>1 DEF Queued
<1> QED
  BY <1>2, <1>3 DEF TypeOK, OnePlace

LEMMA SleepStep ==
    ASSUME QInv, asleep' \in Partition \cup {None},
           UNCHANGED <<messages, local_queues, tasks, pending_ack, delivered, acked>>
    PROVE  QInv'
<1>1. TypeOK /\ NothingIsLost /\ OnePlace /\ AckReachesItsTask
  BY DEF QInv
<1>2. \A m : Out(m)' <=> Out(m)
  BY DEF Out, Live
<1>3. TypeOK'
  BY <1>1, <1>2, SameMessages DEF TypeOK
<1>4. NothingIsLost'
  BY <1>1, <1>2, SameMessages DEF NothingIsLost
<1>5. OnePlace'
  BY <1>1, <1>2, SameMessages DEF OnePlace, Live
<1>6. AckReachesItsTask'
  BY <1>1 DEF AckReachesItsTask
<1> QED
  BY <1>3, <1>4, <1>5, <1>6 DEF QInv

LEMMA AcknowledgeStep ==
    ASSUME QInv, NEW h \in 1..MaxMessages, Acknowledge(h)
    PROVE  QInv' /\ Still(h) /\ IsConfirmed(h)
<1>1. TypeOK /\ NothingIsLost /\ OnePlace /\ AckReachesItsTask
  BY DEF QInv
<1>2. /\ tasks \in [1..MaxMessages -> [Slot -> Stage]]
      /\ pending_ack \in [1..MaxMessages -> Slot \cup {Absent, Orphan}]
  BY <1>1 DEF TypeOK
<1>3. /\ UNCHANGED <<messages, local_queues, asleep, delivered>>
      /\ acked' = acked \cup {h}
      /\ pending_ack' = [pending_ack EXCEPT ![h] = Absent]
      /\ pending_ack[h] # Absent
      /\ tasks' = EventSet(h, pending_ack[h])
  BY DEF Acknowledge
<1>4. h \in delivered
  BY <1>1, <1>3 DEF TypeOK
<1>5. /\ \A m \in 1..MaxMessages : m # h => tasks'[m] = tasks[m] /\ pending_ack'[m] = pending_ack[m]
      /\ pending_ack'[h] = Absent
      /\ \A j \in Slot : tasks'[h][j] = IF j = pending_ack[h] THEN "over" ELSE tasks[h][j]
      /\ tasks' \in [1..MaxMessages -> [Slot -> Stage]]
      /\ pending_ack' \in [1..MaxMessages -> Slot \cup {Absent, Orphan}]
  BY <1>2, <1>3, SlotFacts DEF EventSet, Stage
<1>6. \A m \in 1..MaxMessages, j \in Slot : Live(m, j)' => Live(m, j)
  <2> SUFFICES ASSUME NEW m \in 1..MaxMessages, NEW j \in Slot, tasks'[m][j] # "over"
               PROVE  tasks[m][j] # "over"
    BY DEF Live
  <2> QED
    BY <1>5
<1>7. /\ \A m \in 1..MaxMessages : m # h => (Out(m)' <=> Out(m))
      /\ Out(h)' => Out(h)
  BY <1>5, <1>6 DEF Out, Live
<1>8. TypeOK'
  <2>1. ASSUME NEW m \in 1..MaxMessages
        PROVE  /\ Out(m)' \/ pending_ack'[m] # Absent => m \in delivered'
               /\ pending_ack'[m] \in Slot => tasks'[m][pending_ack'[m]] = "waiting"
    <3>1. CASE m = h
      BY <1>3, <1>4, <1>5, <3>1, SlotFacts
    <3>2. CASE m # h
      BY <1>1, <1>3, <1>5, <1>7, <3>2 DEF TypeOK
    <3> QED
      BY <3>1, <3>2
  <2>2. acked' \subseteq delivered' /\ delivered' \subseteq DOMAIN messages' /\ asleep' \in Partition \cup {None}
    BY <1>1, <1>3, <1>4 DEF TypeOK
  <2> QED
    BY <1>1, <1>3, <1>5, <2>1, <2>2, SameMessages DEF TypeOK
<1>9. NothingIsLost'
  <2> SUFFICES ASSUME NEW m \in DOMAIN messages, m \notin acked'
               PROVE  Queued(m)' \/ Out(m)'
    BY <1>3 DEF NothingIsLost
  <2> QED
    BY <1>1, <1>3, <1>7, IdFacts, SameMessages DEF NothingIsLost
<1>10. OnePlace'
  <2>1. \A m \in 1..MaxMessages : \A i, j \in Slot : Live(m, i)' /\ Live(m, j)' => i = j
    BY <1>1, <1>6 DEF OnePlace
  <2>2. \A m \in DOMAIN messages : ~(Queued(m)' /\ Out(m)')
    BY <1>1, <1>3, <1>7, IdFacts, SameMessages DEF OnePlace
  <2> QED
    BY <1>1, <1>3, <2>1, <2>2, SameMessages DEF OnePlace
<1>11. AckReachesItsTask'
  <2> SUFFICES ASSUME NEW m \in 1..MaxMessages, NEW j \in Slot, tasks'[m][j] = "waiting"
               PROVE  pending_ack'[m] = j
    BY DEF AckReachesItsTask
  <2>1. m # h
    BY <1>1, <1>5 DEF AckReachesItsTask
  <2> QED
    BY <1>1, <1>5, <2>1 DEF AckReachesItsTask
<1>12. Still(h)
  BY <1>3, <1>7 DEF Still, Queued, LaneOf
<1>13. IsConfirmed(h)
  BY <1>1, <1>3, <1>4, <1>7, SameMessages DEF IsConfirmed
<1> QED
  BY <1>8, <1>9, <1>10, <1>11, <1>12, <1>13 DEF QInv

LEMMA AckTimeoutStep ==
    ASSUME QInv, NEW h \in 1..MaxMessages, NEW k \in Slot, AckTimeout(h, k)
    PROVE  QInv' /\ \A m \in 1..MaxMessages : Out(m)' <=> Out(m)
<1>1. TypeOK /\ NothingIsLost /\ OnePlace /\ AckReachesItsTask
  BY DEF QInv
<1>2. /\ tasks \in [1..MaxMessages -> [Slot -> Stage]]
      /\ pending_ack \in [1..MaxMessages -> Slot \cup {Absent, Orphan}]
  BY <1>1 DEF TypeOK
<1>3. /\ UNCHANGED <<messages, local_queues, asleep, delivered, acked>>
      /\ tasks[h][k] = "waiting"
      /\ tasks' = [tasks EXCEPT ![h][k] = "late"]
      /\ pending_ack' = [pending_ack EXCEPT ![h] = IF @ = k THEN Orphan ELSE @]
  BY DEF AckTimeout
<1>4. pending_ack[h] = k
  BY <1>1, <1>3 DEF AckReachesItsTask
<1>5. /\ \A m \in 1..MaxMessages : m # h => tasks'[m] = tasks[m] /\ pending_ack'[m] = pending_ack[m]
      /\ pending_ack'[h] = Orphan
      /\ \A j \in Slot : tasks'[h][j] = IF j = k THEN "late" ELSE tasks[h][j]
      /\ tasks' \in [1..MaxMessages -> [Slot -> Stage]]
      /\ pending_ack' \in [1..MaxMessages -> Slot \cup {Absent, Orphan}]
  BY <1>2, <1>3, <1>4 DEF Stage
<1>6. \A m \in 1..MaxMessages, j \in Slot : Live(m, j)' <=> Live(m, j)
  <2> TAKE m \in 1..MaxMessages, j \in Slot
  <2> QED
    BY <1>3, <1>5 DEF Live
<1>7. \A m \in 1..MaxMessages : Out(m)' <=> Out(m)
  BY <1>6 DEF Out
<1>8. Out(h)
  BY <1>3 DEF Out, Live
<1>9. TypeOK'
  <2>1. ASSUME NEW m \in 1..MaxMessages
        PROVE  /\ Out(m)' \/ pending_ack'[m] # Absent => m \in delivered'
               /\ pending_ack'[m] \in Slot => tasks'[m][pending_ack'[m]] = "waiting"
    <3>1. CASE m = h
      BY <1>1, <1>3, <1>5, <1>8, <3>1, SlotFacts DEF TypeOK
    <3>2. CASE m # h
      BY <1>1, <1>3, <1>5, <1>7, <3>2 DEF TypeOK
    <3> QED
      BY <3>1, <3>2
  <2>2. acked' \subseteq delivered' /\ delivered' \subseteq DOMAIN messages' /\ asleep' \in Partition \cup {None}
    BY <1>1, <1>3 DEF TypeOK
  <2> QED
    BY <1>1, <1>3, <1>5, <2>1, <2>2, SameMessages DEF TypeOK
<1>10. NothingIsLost'
  BY <1>1, <1>3, <1>7, IdFacts, SameMessages DEF NothingIsLost
<1>11. OnePlace'
  <2>1. \A m \in 1..MaxMessages : \A i, j \in Slot : Live(m, i)' /\ Live(m, j)' => i = j
    BY <1>1, <1>6 DEF OnePlace
  <2>2. \A m \in DOMAIN messages : ~(Queued(m)' /\ Out(m)')
    BY <1>1, <1>3, <1>7, IdFacts, SameMessages DEF OnePlace
  <2> QED
    BY <1>1, <1>3, <2>1, <2>2, SameMessages DEF OnePlace
<1>12. AckReachesItsTask'
  <2> SUFFICES ASSUME NEW m \in 1..MaxMessages, NEW j \in Slot, tasks'[m][j] = "waiting"
               PROVE  pending_ack'[m] = j
    BY DEF AckReachesItsTask
  <2>1. m # h
    BY <1>1, <1>4, <1>5 DEF AckReachesItsTask
  <2> QED
    BY <1>1, <1>5, <2>1 DEF AckReachesItsTask
<1> QED
  BY <1>7, <1>9, <1>10, <1>11, <1>12 DEF QInv

LEMMA RequeueStep ==
    ASSUME QInv, NEW h \in 1..MaxMessages, NEW k \in Slot, Requeue(h, k)
    PROVE  QInv' /\ Still(h) /\ Returns(h)
<1>1. TypeOK /\ NothingIsLost /\ OnePlace /\ AckReachesItsTask
  BY DEF QInv
<1>2. /\ tasks \in [1..MaxMessages -> [Slot -> Stage]]
      /\ pending_ack \in [1..MaxMessages -> Slot \cup {Absent, Orphan}]
      /\ local_queues \in [Partition -> Seq(1..MaxMessages)]
      /\ \A p \in Partition : Distinct(local_queues[p])
  BY <1>1 DEF TypeOK, OnePlace, Distinct
<1>3. Live(h, k) /\ Out(h)
  BY DEF Requeue, Out, Live
<1>4. h \in delivered /\ h \in DOMAIN messages
  BY <1>1, <1>3 DEF TypeOK
<1>5. PICK q \in Partition : q = LaneOf(h)
  BY <1>1, <1>4, IdFacts
<1>6. h \notin Elements(local_queues[q])
  BY <1>1, <1>3, <1>4, <1>5 DEF OnePlace, Queued
<1>7. /\ UNCHANGED <<messages, asleep, pending_ack, delivered, acked>>
      /\ tasks[h][k] = "late"
      /\ tasks' = [tasks EXCEPT ![h][k] = "over"]
      /\ local_queues' = [local_queues EXCEPT ![q] = FrontOfQueue(@, h)]
  BY <1>2, <1>5, <1>6 DEF Requeue, LaneOf, PutBack
<1>8. \A p \in Partition :
        /\ local_queues'[p] \in Seq(1..MaxMessages) /\ Distinct(local_queues'[p])
        /\ \A m : m \in Elements(local_queues'[p]) <=>
                    m \in Elements(local_queues[p]) \/ (p = q /\ m = h)
  <2> TAKE p \in Partition
  <2>1. CASE p = q
    <3>1. local_queues'[p] = FrontOfQueue(local_queues[p], h)
      BY <1>2, <1>7, <2>1
    <3>2. /\ FrontOfQueue(local_queues[p], h) \in Seq(1..MaxMessages)
          /\ Distinct(FrontOfQueue(local_queues[p], h))
          /\ Elements(FrontOfQueue(local_queues[p], h)) = Elements(local_queues[p]) \cup {h}
      <4> DEFINE S == 1..MaxMessages
      <4>1. local_queues[p] \in Seq(S) /\ h \in S
        BY <1>2
      <4>2. Distinct(local_queues[p]) /\ h \notin Elements(local_queues[p])
        BY <1>2, <1>6, <2>1
      <4> HIDE DEF S
      <4>3. /\ FrontOfQueue(local_queues[p], h) \in Seq(S)
            /\ Distinct(FrontOfQueue(local_queues[p], h))
            /\ Elements(FrontOfQueue(local_queues[p], h)) = Elements(local_queues[p]) \cup {h}
        BY <4>1, <4>2, AtTheFront
      <4> QED
        BY <4>3 DEF S
    <3> QED
      BY <2>1, <3>1, <3>2
  <2>2. CASE p # q
    BY <1>2, <1>7, <2>2
  <2> QED
    BY <2>1, <2>2
<1>9. \A m : LaneOf(m)' = LaneOf(m)
  BY <1>7 DEF LaneOf
<1>10. \A m \in DOMAIN messages : Queued(m)' <=> Queued(m) \/ m = h
  <2> TAKE m \in DOMAIN messages
  <2>1. LaneOf(m) \in Partition /\ LaneOf(m)' = LaneOf(m)
    BY <1>1, <1>9, IdFacts
  <2>2. m \in Elements(local_queues'[LaneOf(m)]) <=>
            m \in Elements(local_queues[LaneOf(m)]) \/ (LaneOf(m) = q /\ m = h)
    BY <1>8, <2>1
  <2> QED
    BY <1>5, <2>1, <2>2 DEF Queued
<1>11. /\ \A m \in 1..MaxMessages : m # h => tasks'[m] = tasks[m]
       /\ \A j \in Slot : tasks'[h][j] = IF j = k THEN "over" ELSE tasks[h][j]
       /\ tasks' \in [1..MaxMessages -> [Slot -> Stage]]
  BY <1>2, <1>7 DEF Stage
<1>12. \A m \in 1..MaxMessages, j \in Slot : Live(m, j)' => Live(m, j) /\ m # h
  <2> SUFFICES ASSUME NEW m \in 1..MaxMessages, NEW j \in Slot, tasks'[m][j] # "over"
               PROVE  tasks[m][j] # "over" /\ m # h
    BY DEF Live
  <2>1. CASE m = h
    <3>1. j # k /\ Live(h, j)
      BY <1>11, <2>1 DEF Live
    <3> QED
      BY <1>1, <1>3, <3>1 DEF OnePlace
  <2>2. CASE m # h
    BY <1>11, <2>2
  <2> QED
    BY <2>1, <2>2
<1>13. /\ \A m \in 1..MaxMessages : m # h => (Out(m)' <=> Out(m))
       /\ ~Out(h)'
  BY <1>11, <1>12 DEF Out, Live
<1>14. pending_ack[h] \notin Slot
  <2> SUFFICES ASSUME pending_ack[h] \in Slot PROVE FALSE
    OBVIOUS
  <2>1. tasks[h][pending_ack[h]] = "waiting"
    BY <1>1 DEF TypeOK
  <2>2. pending_ack[h] = k
    BY <1>1, <1>3, <2>1 DEF OnePlace, Live
  <2> QED
    BY <1>7, <2>1, <2>2
<1>15. TypeOK'
  <2>1. local_queues' \in [Partition -> Seq(1..MaxMessages)]
    BY <1>2, <1>7, <1>8
  <2>2. ASSUME NEW p \in Partition, NEW m \in Elements(local_queues'[p])
        PROVE  m \in DOMAIN messages' /\ LaneOf(m)' = p
    <3>1. m \in Elements(local_queues[p]) \/ (p = q /\ m = h)
      BY <1>8
    <3>2. m \in Elements(local_queues[p]) => m \in DOMAIN messages /\ LaneOf(m) = p
      BY <1>1 DEF TypeOK
    <3> QED
      BY <1>4, <1>5, <1>7, <1>9, <3>1, <3>2
  <2>3. ASSUME NEW m \in 1..MaxMessages
        PROVE  /\ Out(m)' \/ pending_ack'[m] # Absent => m \in delivered'
               /\ pending_ack'[m] \in Slot => tasks'[m][pending_ack'[m]] = "waiting"
    <3>1. CASE m = h
      BY <1>4, <1>7, <1>14, <3>1
    <3>2. CASE m # h
      BY <1>1, <1>7, <1>11, <1>13, <3>2 DEF TypeOK
    <3> QED
      BY <3>1, <3>2
  <2>4. /\ messages' \in Seq(Topic) /\ Len(messages') <= MaxMessages
        /\ acked' \subseteq delivered' /\ delivered' \subseteq DOMAIN messages'
        /\ asleep' \in Partition \cup {None}
        /\ pending_ack' \in [1..MaxMessages -> Slot \cup {Absent, Orphan}]
    BY <1>1, <1>7 DEF TypeOK
  <2> QED
    BY <1>11, <2>1, <2>2, <2>3, <2>4 DEF TypeOK
<1>16. NothingIsLost'
  <2> SUFFICES ASSUME NEW m \in DOMAIN messages, m \notin acked
               PROVE  Queued(m)' \/ Out(m)'
    BY <1>7 DEF NothingIsLost
  <2>1. CASE m = h
    BY <1>10, <2>1
  <2>2. CASE m # h
    BY <1>1, <1>10, <1>13, <2>2, IdFacts DEF NothingIsLost
  <2> QED
    BY <2>1, <2>2
<1>17. OnePlace'
  <2>1. \A m \in 1..MaxMessages : \A i, j \in Slot : Live(m, i)' /\ Live(m, j)' => i = j
    BY <1>1, <1>12 DEF OnePlace
  <2>2. \A m \in DOMAIN messages : ~(Queued(m)' /\ Out(m)')
    BY <1>1, <1>10, <1>13, IdFacts DEF OnePlace
  <2> QED
    BY <1>7, <1>8, <2>1, <2>2 DEF OnePlace, Distinct
<1>18. AckReachesItsTask'
  <2> SUFFICES ASSUME NEW m \in 1..MaxMessages, NEW j \in Slot, tasks'[m][j] = "waiting"
               PROVE  pending_ack'[m] = j
    BY DEF AckReachesItsTask
  <2>1. m # h
    BY <1>12 DEF Live
  <2> QED
    BY <1>1, <1>7, <1>11, <2>1 DEF AckReachesItsTask
<1>19. Still(h)
  BY <1>7, <1>9, <1>10, <1>13 DEF Still
<1>20. Returns(h)
  BY <1>3, <1>4, <1>5, <1>7, <1>10, <1>13 DEF Returns
<1> QED
  BY <1>15, <1>16, <1>17, <1>18, <1>19, <1>20 DEF QInv

THEOREM QStep == QInv /\ [Next]_vars => QInv'
<1> SUFFICES ASSUME QInv, [Next]_vars PROVE QInv'
  OBVIOUS
<1>0. asleep \in Partition \cup {None}
  BY DEF QInv, TypeOK
<1>1. ASSUME NEW t \in Topic, Dequeue(t) PROVE QInv'
  BY <1>0, <1>1, DeliverStep, PartitionAssumption DEF Dequeue
<1>2. ASSUME NEW t \in Topic, DequeueSleeps(t) PROVE QInv'
  BY <1>2, SleepStep, PartitionAssumption DEF DequeueSleeps
<1>3. CASE Wake
  <2>1. CASE local_queues[asleep] = <<>>
    BY <1>3, <2>1, SleepStep DEF Wake
  <2>2. CASE local_queues[asleep] # <<>>
    BY <1>0, <1>3, <2>2, DeliverStep DEF Wake
  <2> QED
    BY <2>1, <2>2
<1>4. CASE UNCHANGED vars
  BY <1>0, <1>4, SleepStep DEF vars
<1> QED
  BY <1>1, <1>2, <1>3, <1>4, EnqueueStep, AcknowledgeStep, AckTimeoutStep, RequeueStep DEF Next

THEOREM QInvariant == Spec => []QInv
BY QInit, QStep, PTL DEF Spec

\* Ids stay in the partition of their topic, and events belong to deliveries.
THEOREM QueueTypeCorrect == Spec => []TypeOK
<1>1. QInv => TypeOK
  BY DEF QInv
<1> QED
  BY <1>1, QInvariant, PTL

\* However timeouts, redeliveries and sleeping consumers interleave, a message
\* nobody acknowledged is queued or out with a task that puts it back.
THEOREM NothingIsEverLost == Spec => []NothingIsLost
<1>1. QInv => NothingIsLost
  BY DEF QInv
<1> QED
  BY <1>1, QInvariant, PTL

\* No message is twice in its partition, out with two tasks, or both.
THEOREM AlwaysOnePlace == Spec => []OnePlace
<1>1. QInv => OnePlace
  BY DEF QInv
<1> QED
  BY <1>1, QInvariant, PTL

\* The event an acknowledgement sets is that of the delivery still in time.
THEOREM AcksReachTheirTasks == Spec => []AckReachesItsTask
<1>1. QInv => AckReachesItsTask
  BY DEF QInv
<1> QED
  BY <1>1, QInvariant, PTL

-----------------------------------------------------------------------------
(***************************************************************************)
(* The order of a partition, which the promise of first deliveries in      *)
(* order rests on: what was delivered before is in front, and the others   *)
(* follow in the order of their ids.                                       *)
(***************************************************************************)
FreshBehind(s, d) ==
    \A i, j \in DOMAIN s : i < j => s[i] \in d \/ (s[j] \notin d /\ s[i] < s[j])

Ordered == \A p \in Partition : FreshBehind(local_queues[p], delivered)

LEMMA OrderAtTheEnd ==
    ASSUME NEW S, NEW s \in Seq(S), NEW e \in S, NEW d, FreshBehind(s, d),
           e \notin d, \A x \in Elements(s) : x < e
    PROVE  FreshBehind(Append(s, e), d)
<1> DEFINE t == Append(s, e)
           n == Len(s)
<1>1. n \in Nat /\ DOMAIN s = 1..n
  BY LenProperties
<1>2. /\ DOMAIN t = 1..(n + 1)
      /\ \A i \in 1..n : t[i] = s[i]
      /\ t[n + 1] = e
  BY <1>1
<1> HIDE DEF t, n
<1> SUFFICES ASSUME NEW i \in 1..(n + 1), NEW j \in 1..(n + 1), i < j
             PROVE  t[i] \in d \/ (t[j] \notin d /\ t[i] < t[j])
  BY <1>2 DEF FreshBehind, t
<1>3. i \in 1..n /\ (j \in 1..n \/ j = n + 1)
  BY <1>1
<1>4. s[i] < e
  BY <1>1, <1>3 DEF Elements
<1> QED
  BY <1>1, <1>2, <1>3, <1>4 DEF FreshBehind

LEMMA OrderAtTheFront ==
    ASSUME NEW S, NEW s \in Seq(S), NEW d, FreshBehind(s, d), NEW e \in d, e \in S
    PROVE  FreshBehind(FrontOfQueue(s, e), d)
<1> DEFINE t == FrontOfQueue(s, e)
           n == Len(s)
<1>1. n \in Nat /\ DOMAIN s = 1..n
  BY LenProperties
<1>2. /\ DOMAIN t = 1..(n + 1)
      /\ \A i \in 1..n : t[i + 1] = s[i]
      /\ t[1] = e
  BY <1>1 DEF FrontOfQueue
<1> HIDE DEF t, n
<1> SUFFICES ASSUME NEW i \in 1..(n + 1), NEW j \in 1..(n + 1), i < j
             PROVE  t[i] \in d \/ (t[j] \notin d /\ t[i] < t[j])
  BY <1>2 DEF FreshBehind, t
<1>3. CASE i # 1
  <2>1. i - 1 \in 1..n /\ j - 1 \in 1..n /\ i - 1 < j - 1 /\ (i - 1) + 1 = i /\ (j - 1) + 1 = j
    BY <1>1, <1>3
  <2>2. t[i] = s[i - 1] /\ t[j] = s[j - 1]
    BY <1>2, <2>1
  <2> QED
    BY <1>1, <2>1, <2>2 DEF FreshBehind
<1> QED
  BY <1>2, <1>3

LEMMA OrderWithoutTheHead ==
    ASSUME NEW S, NEW s \in Seq(S), NEW d, FreshBehind(s, d), s # <<>>, Distinct(s)
    PROVE  /\ FreshBehind(Tail(s), d \cup {Head(s)})
           /\ \A x \in Elements(s) :
                x = Head(s) \/ Head(s) \in d \/ (x \notin d /\ Head(s) < x)
<1> DEFINE t == Tail(s)
           n == Len(s)
<1>1. n \in Nat \ {0} /\ DOMAIN s = 1..n
  BY LenProperties, EmptySeq
<1>2. /\ t \in Seq(S) /\ Len(t) = n - 1
      /\ \A i \in 1..Len(t) : t[i] = s[i + 1]
  BY HeadTailProperties
<1>3. DOMAIN t = 1..(n - 1) /\ \A i \in 1..(n - 1) : t[i] = s[i + 1]
  BY <1>2, LenProperties
<1>4. Head(s) = s[1] /\ 1 \in 1..n
  BY <1>1
<1> HIDE DEF t, n
<1>5. ASSUME NEW i \in 1..(n - 1), NEW j \in 1..(n - 1), i < j
      PROVE  t[i] \in d \cup {s[1]} \/ (t[j] \notin d \cup {s[1]} /\ t[i] < t[j])
  <2>1. i + 1 \in 1..n /\ j + 1 \in 1..n /\ i + 1 < j + 1 /\ j + 1 # 1
    BY <1>1, <1>5
  <2>2. s[j + 1] # s[1]
    BY <1>1, <1>4, <2>1 DEF Distinct
  <2> QED
    BY <1>1, <1>3, <2>1, <2>2 DEF FreshBehind
<1>6. ASSUME NEW x \in Elements(s)
      PROVE  x = s[1] \/ s[1] \in d \/ (x \notin d /\ s[1] < x)
  <2>1. PICK i \in 1..n : x = s[i]
    BY <1>1 DEF Elements
  <2>2. CASE i # 1
    <3>1. 1 < i
      BY <1>1, <2>2
    <3> QED
      BY <1>1, <1>4, <2>1, <3>1 DEF FreshBehind
  <2> QED
    BY <2>1, <2>2
<1> QED
  BY <1>3, <1>4, <1>5, <1>6 DEF FreshBehind, t

\* What is delivered elsewhere does not count here.
LEMMA OrderElsewhere ==
    ASSUME NEW s, NEW d, NEW h, FreshBehind(s, d), h \notin Elements(s)
    PROVE  FreshBehind(s, d \cup {h})
BY DEF FreshBehind, Elements

LEMMA OrderArrives ==
    ASSUME QInv, Ordered, NEW h \in 1..MaxMessages, NEW q \in Partition, Arrives(h, q)
    PROVE  Ordered'
<1>1. TypeOK
  BY DEF QInv
<1>2. /\ local_queues \in [Partition -> Seq(1..MaxMessages)]
      /\ \A x \in Elements(local_queues[q]) : x \in DOMAIN messages
  BY <1>1 DEF TypeOK
<1>3. h = Len(messages) + 1 /\ delivered' = delivered
      /\ local_queues' = [local_queues EXCEPT ![q] = Append(@, h)]
  BY DEF Arrives
<1>4. h \notin delivered /\ \A x \in DOMAIN messages : x < h
  BY <1>1, <1>3, IdFacts
<1>5. FreshBehind(Append(local_queues[q], h), delivered)
  <2> DEFINE S == 1..MaxMessages
  <2>1. local_queues[q] \in Seq(S) /\ h \in S
    BY <1>2
  <2> HIDE DEF S
  <2> QED
    BY <1>2, <1>4, <2>1, OrderAtTheEnd DEF Ordered
<1> QED
  BY <1>2, <1>3, <1>5 DEF Ordered

LEMMA OrderLeaves ==
    ASSUME QInv, Ordered, NEW h \in 1..MaxMessages, NEW q \in Partition, Leaves(h, q)
    PROVE  /\ Ordered'
           /\ \A x \in Elements(local_queues[q]) :
                x = h \/ h \in delivered \/ (x \notin delivered /\ h < x)
<1>1. TypeOK /\ OnePlace
  BY DEF QInv
<1>2. /\ local_queues \in [Partition -> Seq(1..MaxMessages)]
      /\ Distinct(local_queues[q])
      /\ \A p \in Partition : h \in Elements(local_queues[p]) => LaneOf(h) = p
  BY <1>1 DEF TypeOK, OnePlace, Distinct
<1>3. /\ local_queues[q] # <<>> /\ h = Head(local_queues[q]) /\ LaneOf(h) = q
      /\ local_queues' = [local_queues EXCEPT ![q] = Tail(@)]
      /\ delivered' = delivered \cup {h}
  BY DEF Leaves
<1>4. local_queues[q] \in Seq(1..MaxMessages) /\ FreshBehind(local_queues[q], delivered)
  BY <1>2 DEF Ordered
<1>5. /\ FreshBehind(Tail(local_queues[q]), delivered \cup {h})
      /\ \A x \in Elements(local_queues[q]) :
            x = h \/ h \in delivered \/ (x \notin delivered /\ h < x)
  BY <1>2, <1>3, <1>4, OrderWithoutTheHead
<1>6. \A p \in Partition \ {q} : FreshBehind(local_queues[p], delivered \cup {h})
  BY <1>2, <1>3, OrderElsewhere DEF Ordered
<1> QED
  BY <1>2, <1>3, <1>5, <1>6 DEF Ordered

LEMMA OrderReturns ==
    ASSUME QInv, Ordered, NEW h \in 1..MaxMessages, Returns(h)
    PROVE  Ordered'
<1>1. TypeOK
  BY DEF QInv
<1>2. local_queues \in [Partition -> Seq(1..MaxMessages)]
  BY <1>1 DEF TypeOK
<1>3. h \in delivered /\ h \in DOMAIN messages
  BY <1>1 DEF Returns, TypeOK
<1>4. PICK q \in Partition : q = LaneOf(h)
  BY <1>1, <1>3, IdFacts
<1>5. /\ local_queues' = [local_queues EXCEPT ![q] = FrontOfQueue(@, h)]
      /\ delivered' = delivered
  BY <1>4 DEF Returns
<1>6. FreshBehind(FrontOfQueue(local_queues[q], h), delivered)
  <2> DEFINE S == 1..MaxMessages
  <2>1. local_queues[q] \in Seq(S) /\ h \in S
    BY <1>2
  <2> HIDE DEF S
  <2> QED
    BY <1>3, <2>1, OrderAtTheFront DEF Ordered
<1> QED
  BY <1>2, <1>5, <1>6 DEF Ordered

-----------------------------------------------------------------------------
(* The partitions implement the lanes of AtLeastOnce, step by step. *)

LaneMap == [m \in DOMAIN messages |-> LaneOf(m)]

LEMMA StatusFacts ==
    ASSUME QInv
    PROVE  /\ \A m \in 1..MaxMessages : Status[m] = "absent" <=> m \notin DOMAIN messages
           /\ \A m \in DOMAIN messages :
                /\ Status[m] = "ready" <=> Queued(m)
                /\ Status[m] = "out" <=> Out(m)
                /\ m \notin acked => Status[m] \in {"ready", "out"}
           /\ Promise!Published = DOMAIN messages
<1>1. TypeOK /\ OnePlace /\ NothingIsLost
  BY DEF QInv
<1>2. \A m \in 1..MaxMessages : Status[m] = "absent" <=> m \notin DOMAIN messages
  BY DEF Status
<1>3. ASSUME NEW m \in DOMAIN messages
      PROVE  /\ Status[m] = "ready" <=> Queued(m)
             /\ Status[m] = "out" <=> Out(m)
             /\ m \notin acked => Status[m] \in {"ready", "out"}
  <2>1. m \in 1..MaxMessages /\ ~(Queued(m) /\ Out(m)) /\ (m \notin acked => Queued(m) \/ Out(m))
    BY <1>1, IdFacts DEF OnePlace, NothingIsLost
  <2>2. Status[m] = IF Queued(m) THEN "ready" ELSE IF Out(m) THEN "out" ELSE "settled"
    BY <2>1 DEF Status
  <2> QED
    BY <2>1, <2>2
<1>4. Promise!Published = DOMAIN messages
  BY <1>1, <1>2, IdFacts DEF Promise!Published
<1> QED
  BY <1>2, <1>3, <1>4

\* A step that is about message h changes no other status and no other lane.
LEMMA StatusMoves ==
    ASSUME QInv, NEW h \in 1..MaxMessages, Still(h)
    PROVE  /\ Status' = [Status EXCEPT ![h] = Status'[h]]
           /\ h \in DOMAIN messages' =>
                Status'[h] = IF Queued(h)' THEN "ready" ELSE IF Out(h)' THEN "out" ELSE "settled"
<1>1. \A m \in 1..MaxMessages \ {h} : Status'[m] = Status[m]
  <2> TAKE m \in 1..MaxMessages \ {h}
  <2>1. CASE m \in DOMAIN messages
    BY <2>1 DEF Status, Still
  <2>2. CASE m \notin DOMAIN messages
    BY <2>2 DEF Status, Still
  <2> QED
    BY <2>1, <2>2
<1>2. Status' = [m \in 1..MaxMessages |-> Status'[m]] /\ Status = [m \in 1..MaxMessages |-> Status[m]]
  BY DEF Status
<1>3. h \in DOMAIN messages' =>
        Status'[h] = IF Queued(h)' THEN "ready" ELSE IF Out(h)' THEN "out" ELSE "settled"
  BY DEF Status
<1> QED
  BY <1>1, <1>2, <1>3

LEMMA PublishStep ==
    ASSUME QInv, NEW h \in 1..MaxMessages, NEW q \in Partition, Still(h), Arrives(h, q)
    PROVE  Promise!Publish(h, q)
<1>1. TypeOK
  BY DEF QInv
<1>2. h \notin DOMAIN messages /\ \A k \in DOMAIN messages : k < h
  BY <1>1, IdFacts DEF Arrives
<1>3. Status[h] = "absent" /\ Promise!Published = DOMAIN messages
  BY <1>2, StatusFacts
<1>4. Status' = [Status EXCEPT ![h] = "ready"]
  <2>1. Status'[h] = "ready"
    BY StatusMoves DEF Arrives
  <2> QED
    BY <2>1, StatusMoves
<1>5. [m \in DOMAIN messages' |-> LaneOf(m)'] =
        [k \in DOMAIN messages \cup {h} |-> IF k = h THEN q ELSE LaneMap[k]]
  <2>1. \A k \in DOMAIN messages : k # h /\ LaneOf(k)' = LaneOf(k) /\ LaneMap[k] = LaneOf(k)
    BY <1>1, <1>2, IdFacts DEF Still, LaneMap
  <2> QED
    BY <2>1 DEF Arrives
<1> QED
  BY <1>2, <1>3, <1>4, <1>5 DEF Promise!Publish, Promise!Becomes, Arrives, LaneMap

\* The lanes are those of before when no message is published.
LEMMA SameLanes ==
    ASSUME UNCHANGED messages
    PROVE  [m \in DOMAIN messages' |-> LaneOf(m)'] = [m \in DOMAIN messages |-> LaneOf(m)]
BY DEF LaneOf

LEMMA FirstInOrder ==
    ASSUME QInv, Ordered, NEW h \in 1..MaxMessages, NEW q \in Partition, Leaves(h, q)
    PROVE  Promise!IsNext(h)
<1>1. TypeOK
  BY DEF QInv
<1>2. h \in DOMAIN messages /\ LaneMap[h] = q
  BY DEF Leaves, LaneMap
<1>3. ASSUME NEW k \in 1..MaxMessages, Status[k] = "ready", LaneMap[k] = LaneMap[h]
      PROVE  h \in delivered \/ (k \notin delivered /\ h <= k)
  <2>1. k \in DOMAIN messages /\ Queued(k)
    BY <1>3, StatusFacts
  <2>2. k \in Elements(local_queues[q])
    BY <1>2, <1>3, <2>1 DEF Queued, LaneMap
  <2>3. k = h \/ h \in delivered \/ (k \notin delivered /\ h < k)
    BY <2>2, OrderLeaves
  <2> QED
    BY <2>3
<1> QED
  BY <1>3 DEF Promise!IsNext, LaneMap

LEMMA DeliveryStep ==
    ASSUME QInv, Ordered, NEW h \in 1..MaxMessages, NEW q \in Partition,
           Still(h), Leaves(h, q), UNCHANGED <<messages, acked>>
    PROVE  Promise!Deliver(h)
<1>1. Status[h] = "ready"
  BY StatusFacts DEF Leaves
<1>2. Status' = [Status EXCEPT ![h] = "out"]
  <2>1. Status'[h] = "out"
    BY StatusMoves DEF Leaves
  <2> QED
    BY <2>1, StatusMoves
<1> QED
  BY <1>1, <1>2, FirstInOrder, SameLanes DEF Promise!Deliver, Promise!Becomes, Leaves

LEMMA ReturnStep ==
    ASSUME QInv, NEW h \in 1..MaxMessages, Still(h), Returns(h)
    PROVE  Promise!ComesBack(h)
<1>1. h \in DOMAIN messages
  BY DEF QInv, TypeOK, Returns
<1>2. Status[h] = "out"
  BY <1>1, StatusFacts DEF Returns
<1>3. Status' = [Status EXCEPT ![h] = "ready"]
  <2>1. Status'[h] = "ready"
    BY <1>1, StatusMoves DEF Returns
  <2> QED
    BY <2>1, StatusMoves
<1> QED
  BY <1>2, <1>3, SameLanes DEF Promise!ComesBack, Promise!Becomes, Returns

\* An acknowledgement settles what was out with its task; one that comes after
\* the time, or again, changes no status.
LEMMA ConfirmStep ==
    ASSUME QInv, NEW h \in 1..MaxMessages, Still(h), IsConfirmed(h)
    PROVE  Promise!Settle(h) \/ Promise!ConfirmLate(h) \/ UNCHANGED Promise!vars
<1>1. h \in DOMAIN messages /\ h \in delivered
  BY DEF QInv, TypeOK, IsConfirmed
<1>2. /\ UNCHANGED <<messages, delivered>> /\ acked' = acked \cup {h}
      /\ [m \in DOMAIN messages' |-> LaneOf(m)'] = [m \in DOMAIN messages |-> LaneOf(m)]
  BY SameLanes DEF IsConfirmed
<1>3. /\ Status' = [Status EXCEPT ![h] = Status'[h]]
      /\ Status'[h] = IF Queued(h)' THEN "ready" ELSE IF Out(h)' THEN "out" ELSE "settled"
  BY <1>1, <1>2, StatusMoves
<1>4. CASE Status[h] = "out" /\ ~Out(h)'
  <2>1. ~Queued(h)'
    BY <1>1, <1>4, StatusFacts DEF IsConfirmed
  <2>2. Status' = [Status EXCEPT ![h] = "settled"]
    BY <1>3, <1>4, <2>1
  <2> QED
    BY <1>2, <1>4, <2>2 DEF Promise!Settle, Promise!Becomes
<1>5. CASE ~(Status[h] = "out" /\ ~Out(h)')
  <2>1. Status'[h] = Status[h]
    <3>1. /\ Queued(h)' <=> Queued(h)
          /\ Out(h)' => Out(h)
          /\ Status[h] = IF Queued(h) THEN "ready" ELSE IF Out(h) THEN "out" ELSE "settled"
      BY <1>1 DEF IsConfirmed, Status
    <3> QED
      BY <1>3, <1>5, <3>1
  <2>2. Status' = Status
    BY <1>3, <2>1 DEF Status
  <2>3. CASE h \in acked
    BY <1>2, <2>2, <2>3 DEF Promise!vars
  <2>4. CASE h \notin acked
    <3>1. Status[h] \in {"ready", "out"}
      BY <1>1, <2>4, StatusFacts
    <3> QED
      BY <1>1, <1>2, <2>2, <3>1 DEF Promise!ConfirmLate
  <2> QED
    BY <2>3, <2>4
<1> QED
  BY <1>4, <1>5

\* Each step keeps the order of the partitions and is one of the promise.
LEMMA QueueStep ==
    ASSUME QInv, Ordered, [Next]_vars
    PROVE  Ordered' /\ [Promise!Next]_Promise!vars
<1>1. TypeOK /\ asleep \in Partition \cup {None}
  BY DEF QInv, TypeOK
<1>2. ASSUME UNCHANGED <<messages, local_queues, delivered, acked>>,
             \A m \in 1..MaxMessages : Out(m)' <=> Out(m)
      PROVE  Ordered' /\ [Promise!Next]_Promise!vars
  <2>1. Status' = Status
    BY <1>2 DEF Status, Queued, LaneOf
  <2>2. Ordered'
    BY <1>2 DEF Ordered
  <2> QED
    BY <1>2, <2>1, <2>2, SameLanes DEF Promise!vars
<1>3. ASSUME NEW t \in Topic, Enqueue(t)
      PROVE  Ordered' /\ [Promise!Next]_Promise!vars
  <2>1. PICK h \in 1..MaxMessages, q \in Partition : Still(h) /\ Arrives(h, q)
    BY <1>3, EnqueueStep, PartitionAssumption
  <2> QED
    BY <2>1, OrderArrives, PublishStep DEF Promise!Next
<1>4. ASSUME NEW q \in Partition, local_queues[q] # <<>>, Deliver(q),
             UNCHANGED <<messages, acked>>, asleep' \in Partition \cup {None}
      PROVE  Ordered' /\ [Promise!Next]_Promise!vars
  <2>1. PICK h \in 1..MaxMessages : Still(h) /\ Leaves(h, q)
    BY <1>4, DeliverStep
  <2>2. Promise!Deliver(h)
    BY <1>4, <2>1, DeliveryStep
  <2> QED
    BY <2>1, <2>2, OrderLeaves DEF Promise!Next
<1>5. ASSUME NEW t \in Topic, Dequeue(t)
      PROVE  Ordered' /\ [Promise!Next]_Promise!vars
  BY <1>1, <1>4, <1>5, PartitionAssumption DEF Dequeue
<1>6. ASSUME NEW t \in Topic, DequeueSleeps(t)
      PROVE  Ordered' /\ [Promise!Next]_Promise!vars
  BY <1>2, <1>6 DEF DequeueSleeps, Out, Live
<1>7. CASE Wake
  <2>1. CASE local_queues[asleep] = <<>>
    BY <1>2, <1>7, <2>1 DEF Wake, Out, Live
  <2>2. CASE local_queues[asleep] # <<>>
    BY <1>1, <1>4, <1>7, <2>2 DEF Wake
  <2> QED
    BY <2>1, <2>2
<1>8. ASSUME NEW m \in 1..MaxMessages, Acknowledge(m)
      PROVE  Ordered' /\ [Promise!Next]_Promise!vars
  <2>1. Still(m) /\ IsConfirmed(m)
    BY <1>8, AcknowledgeStep
  <2>2. Ordered'
    BY <2>1 DEF IsConfirmed, Ordered
  <2> QED
    BY <2>1, <2>2, ConfirmStep DEF Promise!Next
<1>9. ASSUME NEW m \in 1..MaxMessages, NEW k \in Slot, AckTimeout(m, k)
      PROVE  Ordered' /\ [Promise!Next]_Promise!vars
  <2>1. \A h \in 1..MaxMessages : Out(h)' <=> Out(h)
    BY <1>9, AckTimeoutStep
  <2> QED
    BY <1>2, <1>9, <2>1 DEF AckTimeout
<1>10. ASSUME NEW m \in 1..MaxMessages, NEW k \in Slot, Requeue(m, k)
       PROVE  Ordered' /\ [Promise!Next]_Promise!vars
  <2>1. Still(m) /\ Returns(m)
    BY <1>10, RequeueStep
  <2> QED
    BY <2>1, OrderReturns, ReturnStep DEF Promise!Next
<1>11. CASE UNCHANGED vars
  BY <1>2, <1>11 DEF vars, Out, Live
<1> QED
  BY <1>3, <1>5, <1>6, <1>7, <1>8, <1>9, <1>10, <1>11 DEF Next

LEMMA QueueStart == Init => Ordered /\ Promise!Init
<1> SUFFICES ASSUME Init PROVE Ordered /\ Promise!Init
  OBVIOUS
<1>1. DOMAIN messages = {}
  BY EmptySeq DEF Init
<1>2. Ordered
  BY EmptySeq DEF Init, Ordered, FreshBehind
<1>3. Status = [m \in 1..MaxMessages |-> "absent"]
  BY <1>1 DEF Status
<1>4. [m \in DOMAIN messages |-> LaneOf(m)] = [m \in {} |-> m]
  BY <1>1
<1> QED
  BY <1>2, <1>3, <1>4 DEF Init, Promise!Init

\* DistributedQueue delivers at least once and, in each partition, for the first
\* time in the order of publication; what was acknowledged in time is settled
\* for good: its partitions implement the lanes of AtLeastOnce.
THEOREM QueueDeliversAtLeastOnce == Spec => DeliversAtLeastOnce
<1>1. Init => Ordered /\ Promise!Init
  BY QueueStart
<1>2. QInv /\ Ordered /\ [Next]_vars => Ordered' /\ [Promise!Next]_Promise!vars
  BY QueueStep
<1> QED
  BY <1>1, <1>2, QInvariant, PTL DEF Spec, DeliversAtLeastOnce, Promise!Spec
=============================================================================
