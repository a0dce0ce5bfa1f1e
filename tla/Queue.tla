-------------------------------- MODULE Queue --------------------------------
(***************************************************************************)
(* DistributedQueue of src/nodes/queue_node.py: the partitions of one      *)
(* node, the consumers' calls, and the tasks that wait for acknowledgement *)
(* of a delivery and put the message back.                                 *)
(*                                                                         *)
(* All calls run under one asyncio.Lock.  The only one that suspends while *)
(* it has the lock is a dequeue that found its partition empty; it keeps   *)
(* the lock while it sleeps.  What _replicate_message and the recovery     *)
(* loop send is ignored by every peer and has no action.                   *)
(*                                                                         *)
(* A message can be delivered any number of times: a task that is over     *)
(* gives its slot to a later one of the same message.                      *)
(***************************************************************************)
EXTENDS Naturals, Sequences, OrderedSequences

CONSTANTS
    Topic,          \* topics
    Partition,      \* partitions
    PartitionOf,    \* the partition a topic's hash selects
    None,           \* no partition
    MaxMessages,    \* bound: enqueue calls
    MaxTasks        \* bound: tasks one message has at a time

ASSUME PartitionAssumption ==
    PartitionOf \in [Topic -> Partition] /\ None \notin Partition
ASSUME BoundAssumption == MaxMessages \in Nat /\ MaxTasks \in Nat

VARIABLES
    messages,       \* the topic of every message so far; msg_id is the position
    local_queues,   \* the message ids in each partition
    asleep,         \* the partition of the dequeue that sleeps with the lock, or None
    tasks,          \* the _wait_for_ack tasks of each message: "waiting" for the
                    \* event, "late" (timed out and waiting for the lock), "over"
    pending_ack,    \* the task that waits for the event of each message id: Absent
                    \* when there is no event, Orphan when nobody waits for it
    delivered,      \* history: the ids that were ever delivered
    acked           \* history: the ids whose acknowledgement was answered with success

vars == <<messages, local_queues, asleep, tasks, pending_ack, delivered, acked>>

Slot == 1..MaxTasks
Absent == 0
Orphan == MaxTasks + 1
Stage == {"waiting", "late", "over"}

Init ==
    /\ messages = <<>>
    /\ local_queues = [p \in Partition |-> <<>>]
    /\ asleep = None
    /\ tasks = [m \in 1..MaxMessages |-> [k \in Slot |-> "over"]]
    /\ pending_ack = [m \in 1..MaxMessages |-> Absent]
    /\ delivered = {}
    /\ acked = {}

LockFree == asleep = None

Live(m, k) == tasks[m][k] # "over"

-----------------------------------------------------------------------------
Enqueue(t) ==
    /\ LockFree
    /\ Len(messages) < MaxMessages
    /\ messages' = Append(messages, t)
    /\ local_queues' = [local_queues EXCEPT ![PartitionOf[t]] = Append(@, Len(messages) + 1)]
    /\ UNCHANGED <<asleep, tasks, pending_ack, delivered, acked>>

KeepUntilAcked(s) == s
AfterPop(s) == Tail(s)

EventOfNext(m, k) == k + 1
OldEventStays(m, k) == IF pending_ack[m] = Absent THEN k ELSE pending_ack[m]
\* A second delivery of a message replaces the event of the first.
EventOf(m, k) == k

FreeSlot(m) == CHOOSE k \in Slot : ~Live(m, k)

\* The head of the partition goes to a consumer, whoever has asked.
Deliver(p) ==
    LET m == Head(local_queues[p])
    IN  /\ \E k \in Slot : ~Live(m, k)
        /\ local_queues' = [local_queues EXCEPT ![p] = AfterPop(@)]
        /\ tasks' = [tasks EXCEPT ![m][FreeSlot(m)] = "waiting"]
        /\ pending_ack' = [pending_ack EXCEPT ![m] = EventOf(m, FreeSlot(m))]
        /\ delivered' = delivered \cup {m}

Dequeue(t) ==
    /\ LockFree
    /\ local_queues[PartitionOf[t]] # <<>>
    /\ Deliver(PartitionOf[t])
    /\ UNCHANGED <<messages, asleep, acked>>

DequeueSleeps(t) ==
    /\ LockFree
    /\ local_queues[PartitionOf[t]] = <<>>
    /\ asleep' = PartitionOf[t]
    /\ UNCHANGED <<messages, local_queues, tasks, pending_ack, delivered, acked>>

\* The polls are over: a message that arrived is delivered, else the answer is
\* None.
Wake ==
    /\ asleep # None
    /\ IF local_queues[asleep] = <<>>
       THEN UNCHANGED <<local_queues, tasks, pending_ack, delivered>>
       ELSE Deliver(asleep)
    /\ asleep' = None
    /\ UNCHANGED <<messages, acked>>

EventForgotten(m, k) == tasks
\* event.set() ends the task that waits for the event, if one does.
EventSet(m, k) == IF k = Orphan THEN tasks ELSE [tasks EXCEPT ![m][k] = "over"]

Acknowledge(m) ==
    /\ LockFree
    /\ pending_ack[m] # Absent
    /\ tasks' = EventSet(m, pending_ack[m])
    /\ pending_ack' = [pending_ack EXCEPT ![m] = Absent]
    /\ acked' = acked \cup {m}
    /\ UNCHANGED <<messages, local_queues, asleep, delivered>>

\* wait_for gives up after 30 s: nobody waits for the event, which stays in
\* pending_ack, and the task has to queue for the lock.
AckTimeout(m, k) ==
    /\ tasks[m][k] = "waiting"
    /\ tasks' = [tasks EXCEPT ![m][k] = "late"]
    /\ pending_ack' = [pending_ack EXCEPT ![m] = IF @ = k THEN Orphan ELSE @]
    /\ UNCHANGED <<messages, local_queues, asleep, delivered, acked>>

BackOfQueue(s, m) == Append(s, m)
FrontOfQueue(s, m) == <<m>> \o s

NotBack(s, m) == s
PutBack(s, m) == IF m \in Elements(s) THEN s ELSE FrontOfQueue(s, m)

Requeue(m, k) ==
    LET p == PartitionOf[messages[m]]
    IN  /\ LockFree
        /\ tasks[m][k] = "late"
        /\ tasks' = [tasks EXCEPT ![m][k] = "over"]
        /\ local_queues' = [local_queues EXCEPT ![p] = PutBack(@, m)]
        /\ UNCHANGED <<messages, asleep, pending_ack, delivered, acked>>

-----------------------------------------------------------------------------
Next ==
    \/ \E t \in Topic : Enqueue(t) \/ Dequeue(t) \/ DequeueSleeps(t)
    \/ Wake
    \/ \E m \in 1..MaxMessages : Acknowledge(m)
    \/ \E m \in 1..MaxMessages, k \in Slot : AckTimeout(m, k) \/ Requeue(m, k)

Spec == Init /\ [][Next]_vars

(***************************************************************************)
(* A sleep ends.  asyncio.Lock serves its waiters first come first served, *)
(* so a task that queues for it again and again gets it (strong fairness), *)
(* and of the calls that find something to deliver, and of those that      *)
(* acknowledge in time, some succeed again and again.  Messages are        *)
(* finitely many, so nothing need be assumed of each single one.           *)
(***************************************************************************)
Asks == \E t \in Topic : Dequeue(t)
AcksInTime == \E m \in 1..MaxMessages : pending_ack[m] # Orphan /\ Acknowledge(m)
Requeues == \E m \in 1..MaxMessages, k \in Slot : Requeue(m, k)

Fairness == WF_vars(Wake) /\ SF_vars(Asks) /\ SF_vars(AcksInTime) /\ SF_vars(Requeues)

FairSpec == Spec /\ Fairness

-----------------------------------------------------------------------------
(* Properties *)

LaneOf(m) == PartitionOf[messages[m]]
Queued(m) == m \in Elements(local_queues[LaneOf(m)])
Out(m) == \E k \in Slot : Live(m, k)

\* Type invariant: messages sit in the partition of their topic, tasks and
\* events are of messages that were delivered.
TypeOK ==
    /\ messages \in Seq(Topic) /\ Len(messages) <= MaxMessages
    /\ local_queues \in [Partition -> Seq(1..MaxMessages)]
    /\ asleep \in Partition \cup {None}
    /\ tasks \in [1..MaxMessages -> [Slot -> Stage]]
    /\ pending_ack \in [1..MaxMessages -> Slot \cup {Absent, Orphan}]
    /\ acked \subseteq delivered /\ delivered \subseteq DOMAIN messages
    /\ \A p \in Partition : \A m \in Elements(local_queues[p]) :
        m \in DOMAIN messages /\ LaneOf(m) = p
    /\ \A m \in 1..MaxMessages :
        /\ Out(m) \/ pending_ack[m] # Absent => m \in delivered
        /\ pending_ack[m] \in Slot => tasks[m][pending_ack[m]] = "waiting"

\* At-least-once delivery within a run of the node: a message that no consumer
\* has acknowledged is in its partition, or is out with a task that will put it
\* back, even while that task waits for the lock.
NothingIsLost ==
    \A m \in DOMAIN messages : m \notin acked => Queued(m) \/ Out(m)

\* A message is in one place only: once in its partition or out with one
\* consumer, never both, whatever timeouts and redeliveries there were.
OnePlace ==
    /\ \A p \in Partition : \A i, j \in DOMAIN local_queues[p] :
        local_queues[p][i] = local_queues[p][j] => i = j
    /\ \A m \in 1..MaxMessages : \A j, k \in Slot :
        Live(m, j) /\ Live(m, k) => j = k
    /\ \A m \in DOMAIN messages : ~(Queued(m) /\ Out(m))

\* The acknowledgement of a delivery whose time is not over reaches the task
\* that waits for it, also when the message was delivered before.
AckReachesItsTask ==
    \A m \in 1..MaxMessages, k \in Slot :
        tasks[m][k] = "waiting" => pending_ack[m] = k

\* Every message is in the end neither queued nor out, and never comes back,
\* however often it was delivered again and however often consumers of an empty
\* partition held everybody up.
EverythingSettles ==
    \A m \in 1..MaxMessages :
        m \in DOMAIN messages ~> [](m \in DOMAIN messages /\ ~Queued(m) /\ ~Out(m))

-----------------------------------------------------------------------------
(* Refinement: the partitions are the lanes of AtLeastOnce. *)

Status ==
    [m \in 1..MaxMessages |->
        IF m \notin DOMAIN messages THEN "absent"
        ELSE IF Queued(m) THEN "ready"
        ELSE IF Out(m) THEN "out"
        ELSE "settled"]

Promise == INSTANCE AtLeastOnce WITH
    Id <- 1..MaxMessages,
    Lane <- Partition,
    lane <- [m \in DOMAIN messages |-> LaneOf(m)],
    status <- Status,
    confirmed <- acked

\* DistributedQueue delivers at least once, each partition in the order of its
\* messages, and never again what was acknowledged in time.
DeliversAtLeastOnce == Promise!Spec
=============================================================================
