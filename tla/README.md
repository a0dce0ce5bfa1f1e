# A verification of the distributed synchronization system

This directory holds TLA+ models of the components of the node program in
`src/distributed-sync-system/src`, the TLC runs that check them and proofs of
their main properties that TLAPS checks. Paths below are relative to that
directory; `docs/` and `test_sequence.py` are beside it.

Every module states in its header what it abstracts. `PROJECT.json` lists, for
each definition, the lines it models, and for each hazard of the code the
properties that are about it.

## 1. The system

One process per node runs `NodeServer` (`nodes/__main__.py`), an asyncio TCP
server that parses one JSON request per connection and calls one operation of
one component. Everything is one asyncio event loop: code interleaves at
`await`s that really suspend, and nowhere else. Each component has an
`asyncio.Lock`; its critical sections contain awaits, but (with one exception,
the queue's `dequeue`) none that suspends. `FailureDetector` and
`MessagePassing` have no lock: their coroutines interleave at every connection.

| Component | State | Operations and loops | What is hard | What makes it correct |
|---|---|---|---|---|
| `RaftNode` (`consensus/raft.py`) | role, term, vote, counted votes, known leader, local log | election loop, heartbeat loop, three send coroutines, `handle_message` (vote request, vote response, heartbeat), `submit_command`, `stop` | coroutines that read `current_term` only when their connection is open; late, lost and reordered messages; restarts without persistence | one vote per term, one leader per term, logs of different leaders do not mix, the leader becomes known |
| `DistributedLockManager` (`nodes/lock_manager.py`) | lock table, waiting queues, readers | `acquire_lock` with its polling loop, `release_lock`, expiry loop | polls, hand-overs, deadlines and expiry racing; a client with several requests; upgrades | a table of leases: mutual exclusion, no lost wake-up, order of service, a refusal is final, waiters are served |
| `DistributedQueue` (`nodes/queue_node.py`) | partitions, pending acknowledgements, one waiting task per delivery | `enqueue`, `dequeue`, `acknowledge`, `_wait_for_ack` | a consumer sleeps with the lock; acknowledgement racing the timeout; redelivery | at-least-once delivery in order, a message is in one place, every message settles |
| `ConsistentHashRing` (`nodes/queue_node.py`) | ring | `get_node`, `add_node`, `remove_node` | wrap-around, repeated additions and removals | owners are the next node clockwise, only the needed keys move |
| `CacheNode`, `LRUReplacement` (`nodes/cache_node.py`) | lines, order of use | `read`, `write`, `invalidate`, `handle_snoop`, cleanup loop | two structures that must agree through eviction, expiry and invalidation, also with a capacity of 0 | LRU and cache agree, the right line is evicted from a full cache, a hit returns the last write and nothing invalidated since |
| `FailureDetector` (`communication/failure_detector.py`) | status and last heartbeat of each peer | heartbeat sender, one coroutine per heartbeat, `handle_heartbeat`, start, stop | a heartbeat that outlives its sender; crashes and restarts of both ends; nothing marks a peer dead | peers that run are heard of again and again, peers that are down are not |
| `MessagePassing` (`communication/message_passing.py`) | pending futures, calls under way, requests on the wire | `send_message` with retries, `broadcast`, `send_and_wait` | retries that are never counted, late answers, peers that die with a request, futures keyed by message type | answers are one's own, requests are repeated only when an answer may be missing, calls end |
| `NodeServer` (`nodes/__main__.py`) | the components | reads a request, calls one operation, answers, closes | it dies between reading and answering | as the server of `MessagePassing` and `FailureDetector` |
| `BaseNode`, `Config`, `MetricsCollector` | - | - | - | not modelled: unused base class, environment variables, counters |

How the components interact: they hardly do. The lock manager, queue and cache
of a node never ask `RaftNode` who leads and send nothing to it;
`submit_command` is called by tests only. What the queue and the cache send to
the peers (`replicate`, `invalidate`, `snoop`, `upgrade_request`,
`cache_read_request`) carries no `action`, and `process_request` answers
`unknown_action`. So the tables, queues and caches of different nodes are
independent and each of their modules models one node; `Raft` and
`FailureDetector` are modelled as clusters, `MessagePassing` as one caller and
its peers. `get_node` is called by `enqueue`, which ignores its result, and
nothing calls `add_node` or `remove_node`: the ring is modelled as the class it
is. `NodeServer` constructs a `MessagePassing` and calls none of its methods, so
that class is modelled as its interface promises it, against the server of this
repository.

## 2. Modules

| Module | Models | Used by |
|---|---|---|
| `Raft` | the cluster: one action per handler, per loop turn and per send coroutine that connects or fails | `MCRaft` (TLC), `RaftProofs` |
| `RaftRestart` | `Raft` with crashes: a node loses its state, its coroutines and its unread messages | `MCRaftRestart`, `RaftRecordProofs` |
| `TermLeaders` | what elections promise: a directory with one winner per term | `Raft` (refinement) |
| `LockManager` | the lock table of one node and its clients' calls | `MCLockManager`, `LockManagerProofs` |
| `LeaseTable` | what an exclusive lock promises: one owner, and nobody else was told it has it | `LockManager` (refinement) |
| `Queue` | the partitions of one node, its consumers and the tasks of the deliveries | `MCQueue`, `QueueProofs` |
| `AtLeastOnce` | what the queue promises: delivery until acknowledged, first deliveries in order | `Queue` (refinement) |
| `Cache` | the cache and LRU of one node | `MCCache`, `CacheProofs` |
| `HashRing` | the ring | `MCHashRing`, `HashRingProofs` |
| `FailureDetector` | the detectors of all nodes, their heartbeats and crashes | `MCFailureDetector`, `FailureDetectorProofs` |
| `MessagePassing` | one node's calls, their connections and the servers of the peers | `MCMessagePassing`, `MessagePassingProofs` |
| `OrderedSequences` | sequences without repetitions, for queues and orders of use | `LockManager`, `Queue`, `Cache` |

Each component's module starts with the correspondence of its variables to the
attributes of the class; variables marked *history* do not exist in the code and
only record what happened so that a property can speak about it. Operators that
stand directly before another of the same parameters and appear nowhere else
(`HalfOnly` before `Majority`, `ServeLast` before `ServeNext`) are its faulty
variants: substituting one for the other must break a property.

**Raft.** A send coroutine is an element of the bag `tasks` from `create_task`
until its connection is open; then it reads `current_term` and its message is in
the bag `network` until `handle_message` takes it. Messages are handled in any
order. A connection can fail on the links in `Flaky`. `StartElection` is the
election loop finding its timeout elapsed, which it may at any time: only
`TimelySpec` restricts it. Node ids stand for addresses.

**LockManager.** The critical sections of `acquire_lock` before and inside its
wait loop are the actions `AcquireFree` ... `RefuseAtOnce`, `PollTakes`,
`PollFinds` and `GiveUp`. A waiter looks at its deadline directly after a failed
poll, without suspending, so `GiveUp` has the failed poll as its guard. A
`request_id` is the position of the call in `requests`. `holds` records which
clients were told they have a resource and have neither released it nor lost it
to expiry.

**Queue.** `asleep` is a `dequeue` that found its partition empty and sleeps
with `self._lock`; every other operation has `LockFree` in its guard. Each
delivery starts a task of its message: `"waiting"` in `wait_for`, `"late"` when
the timer has fired and the task queues for the lock, then `"over"`. There is no
bound on redeliveries: a task that is over gives its slot to a later one.
`pending_ack` names the task that waits for the event of a message; an event
whose task has timed out stays there with nobody waiting for it (`Orphan`). An
acknowledgement in stage `"waiting"` ends the task; one that comes in stage
`"late"` is answered with success and the message still goes back. When both come
in the same turn of the event loop, the Python version decides which stage the
task is in; the model has both.

**Cache.** Every operation is one action. Expiry may find any set of lines too
old. The capacity is chosen when the cache is made and may be 0, in which case
`touch` drops each address at once and the cache grows without the LRU. Versions
and statistics are left out. `current` records the data this node last wrote at an
address, until the address is invalidated.

**HashRing.** Positions are numbers; `HashOf` is any injective assignment of
positions to virtual nodes.

**FailureDetector.** `is_alive` is true for ever and `suspected_nodes`,
`dead_nodes` are empty for ever, since nothing changes them; what the code does
maintain is `last_heartbeat`, here *recent* or not. A coroutine marks its peer
when the connection was opened and closed without an exception, whether the
heartbeat was read or not. A peer is named by its address, a sender by its
`NODE_ID`; `NamesItself` has the nodes for which the two are the same.

**MessagePassing.** A call is in one of the stages of `send_message`
(connecting, reading, asleep before a retry, waiting for its future); what
became of each request it wrote is in `requests`. When the caller gives up, it
leaves the connection open and the peer may still read the request. A peer that
restarts resets what it has not read and closes what it was working on. The
arguments of the calls are chosen at the start from `Workload`.

## 3. Runs

`tlc -config <cfg> <module>`; `raft_restart` takes two to three minutes, each other run
about a minute or less.

| Run | Module, cfg | Bounds | Shows |
|---|---|---|---|
| `raft_restart` | `MCRaftRestart`, `RaftRestart` | 2 nodes, elections up to term 3 of one and of term 1 of its rival, 1 restart, logs of 2, one link that may fail; 3,215,855 states | counted votes were cast, a reported leader was elected, logs are in term order (with entries of two terms), a candidate backs itself, whatever is late, lost or restarted |
| `raft_timely` | `MCRaft`, `RaftTimely` | 3 nodes, two with elections up to term 2, log of 1; 515,797 states | `TimelySpec`: one leader per term, one log per term, one vote per term, votes follow the log, `TimelyInv`, and the cluster implements `TermLeaders` |
| `raft_liveness` | `MCRaft`, `RaftLiveness` | 3 nodes, two rivals, one of them stoppable, one link that may fail; 15,380 states | a lasting leader becomes known to all |
| `raft_split_brain` | `MCRaft`, `RaftSplitBrain` | as `raft_timely`, any timing | violation, see 5 |
| `lock_races` | `MCLockManager`, `LockRaces` | 3 clients, 1 resource, both modes, 5 requests, several at once per client; 538,755 states | no lost wake-up, refusals are final, mutual exclusion, recorded holders, order of service |
| `lock_patient` | `MCLockManager`, `LockPatient` | 2 clients, 2 resources, 4 exclusive requests; 4,897 states | waiters are served although circular waits occur, and the manager implements `LeaseTable` |
| `lock_readers` | `MCLockManager`, `LockReaders` | 3 clients, 4 requests | violation, see 5 |
| `queue` | `MCQueue`, `Queue` | 3 topics in 2 partitions, 3 messages, any number of deliveries; 59,633 states | nothing is lost, a message is in one place, acknowledgements reach their task, the queue implements `AtLeastOnce`, every message settles |
| `cache` | `MCCache`, `Cache` | 4 addresses, capacity 0, 1 or 3, 2 data; 150,126 states | LRU and cache agree, only a full cache evicts and the right line, hits return the last write and nothing invalidated since |
| `hash_ring` | `MCHashRing`, `HashRing` | 7 nodes, 2 virtual nodes each, 16 positions, all 128 sets of members | contents, owners, movement of keys |
| `message_passing` | `MCMessagePassing`, `MessagePassing` | 2 peers, 4 workloads of up to 2 calls, 2 tries of each, any number of restarts; 79,844 states | answers are one's own, a request is repeated only when an answer was given up, every call ends |
| `failure_detector` | `MCFailureDetector`, `FailureDetector` | 3 nodes, 3 links, any number of crashes and restarts; 26,520 states | peers that run stay recent, peers that stay down grow old |

Why the bounds are enough. *Raft:* in `raft_timely` and `raft_split_brain` two
rivals with elections up to term 2 give every overlap of an election with an
earlier one of the same node and with one of a rival; the third node is the
voter they compete for. In `raft_restart` one node may win term 1, be deposed
by a message stamped late and win term 3, which is the least that puts entries
of two terms on one log: with elections up to term 2 no log ever has them.
Votes and heartbeats that come late occur in all of them.
*Locks:* five requests of three clients give a holder, a queue of more than
one, a client with two requests and a newcomer. *Queue:* two topics share a
partition and one has its own; three messages put two behind one another while
the third keeps the other partition busy, and since no number of deliveries is
bounded the run covers messages that come back for ever. Two slots per message
are more than a message ever uses (`OnePlace` says one), and the guard of
`Deliver` never bites. *Cache:* four addresses for three lines make every write
a possible eviction with a victim that is neither the only nor necessarily the
first line; capacities 1 and 0 are the boundaries. *Messages:* two tries are
the least that have a late first answer and a second request; a broadcast asks
two peers one after the other, and two calls of one type compete for one entry
of `pending_messages`. *Failure detector:* one node with two peers, of which
one sends heartbeats back under a name that is known. Bounds are constants
named in the modules (`MaxTerm`, `MaxLog`, `MaxHeartbeats`, `MaxRestarts`,
`MaxRequests`, `MaxMessages`, `MaxTasks`, `Workload`, `RecursionLimit`); where
they make the system stop, deadlock is not checked. In `failure_detector` the
system may really stop: all nodes may be down, and nothing forces a start.

Symmetry is used in runs without liveness, over clients, addresses and data, or
the two nodes with equal bounds.

Fairness.
* `Raft`: the heartbeat loop keeps turning and a written message is handled (weak
  fairness, asyncio runs every ready coroutine); a connection that is tried again
  and again succeeds in the end (strong fairness per link). No election, command
  or stop is forced.
* `LockManager`: polls that would succeed are made and a lock that stays expires,
  since both loops run for ever; nobody is assumed to release.
* `Queue`: a sleep ends (weak fairness). Calls waiting for the `asyncio.Lock`,
  which serves its waiters in order, get it if it is free again and again; some
  consumer that finds a message asks again and again, and some acknowledgement is
  in time again and again (strong fairness, each over all messages together and
  of no message in particular). The last two are about the consumers; without
  them at-least-once delivery promises nothing.
* `MessagePassing`: every await of a call ends, by its timeout if not before (weak
  fairness per call). Nothing is assumed of the peers.
* `FailureDetector`: the loop of a running detector goes on, every await of a
  coroutine ends, what was written is read by a process that runs, and time
  passes (weak fairness). A link between processes that run lets a heartbeat
  through again and again if it is tried again and again (strong fairness).

## 4. Proofs

Checked by `tlapm <module>`. The theorems hold for all constants that satisfy
the named assumptions in the modules; an assumption beyond those stands in the
theorem.

* `RaftProofs`. `VotesAreUnique` is about `Spec`, with no assumption on timing
  or delivery: `VoteOncePerTerm` is not inductive, because it says nothing of
  the vote a node remembers; `VotesMatch` (the last vote cast is the one
  remembered, for the current term) makes it so. `OneLeaderPerTerm` and
  `LogsNeverMix` are about `TimelySpec`. Their invariant `TimelyInv` follows a
  vote from the request to the count: requests under way carry the current term
  of a campaigning sender, answers under way and counted votes stand for votes
  cast in that term, winners had a majority of the voters of the term, and
  leaders and entries come from winners. Two majorities share a voter, who voted
  once. The majority argument is the one place where cardinalities are needed.
* `RaftRecordProofs`. What holds *without* any timing, and with any number of
  restarts: `CountedVotesAreReal`, `ReportedLeadersWon`, `LogsAreOrdered`,
  `CampaignersBackThemselves` and the types. None of these is inductive: what a
  node counts or believes comes from a message, which comes from a coroutine. The
  invariant `RecordInv` therefore says of both that what they claim was true when
  they were made: a granted answer stands for a vote cast no later than the term
  it carries (`GrantsWereCast`), a heartbeat for an election won
  (`HeartbeatsWereEarned`). Terms may fall back to 0 in a restart; the invariant
  survives because the messages of the node's earlier life carry their own term
  and the records never shrink. `VotesAreForBetterLogs` (without restarts) adds
  that the log a request names is one its sender has had (`RequestsNameTheLog`),
  and that logs only grow. `ElectionsImplementTermLeaders` combines both
  invariants: under `TimelySpec` each step of the cluster is a step of
  `TermLeaders` or a stutter; a second win of one pair is mere news.
  `VotesStayRight` carries the comparison of the logs through time. `VotesFollowTheLog`
  says of a vote what was true when it was cast, but the voter's log goes on
  growing; `VotersHaveNothingBeyond` says that of the terms up to that of its
  vote a voter never has an entry beyond the candidate's log. It is inductive with
  `VotesMatch`, by which a voter appends only in a later term or as the candidate
  itself (`AppendStaysBehind`). Without timing it holds of each vote;
  `WinnersAreNotBehind` says it of a majority, and needs `TimelySpec`, under which
  the votes counted for a winner are of the term it won.
* `LockManagerProofs`. `TypeCorrect` includes that queues are increasing and
  hold requests for their own resource. `WakeupsAreKept`, `OldestFirst` and
  `RefusalsAreFinal` rest on one lemma, `EveryStep`: a step changes one
  resource, leaves it free only with an empty queue, and gives it to a new
  request, to the oldest queued one or to one still waiting.
  `ExclusiveLocksExclude` follows from `ExclusiveHoldersAreRecorded`: on a
  resource nobody asked for in shared mode, whoever was told it has it is the
  recorded holder, and there is one. With it, `LocksImplementLeases` shows that a
  manager asked for exclusive locks only (`Mode = {"exclusive"}`) implements
  `LeaseTable`: `LeaseStep` reduces a step to what it does to one resource, and
  each action is one of take, tell and end.
  `NobodyIsPassed` needs `NoLostWakeup`: a newcomer takes a free resource at
  once, and a free resource has no queue.
  `TurnsComeInOrder` is what can be said of a queued request apart from fairness,
  in any modes: nobody gets in front of it in the queue, each time the lock goes to
  another client there are fewer in front (`Passes`), and it leaves the queue only
  with the lock or with a timeout. Others do get the resource before it: readers
  that join a shared lock overtake a queued writer, any number of times. The theorem
  says that they are the only ones (`WhoIsTold`): everybody else who is told that it
  has the resource meanwhile is the client the lock is recorded for. On a resource
  used exclusively nobody overtakes.
  `HandoversReachWaiters` assumes `OneAtATime`, a client that waits for an answer
  before it asks again, as a client does that blocks on its call: on a resource
  that is only used exclusively every queued request is still waited for
  and is not the holder's own (`QueuersStillWait`), so no release hands the lock to
  somebody who has gone and nobody waits for himself. Its invariant adds `OneWaits`:
  a poll looks for the client, and only a client with one request is its request.
  Without the assumption TLC refutes it (section 5, last point).
* `QueueProofs`. `TypeOK`, `NothingIsLost`, `OnePlace` and `AckReachesItsTask`
  are inductive only together (`QInv`): a late task may put its message back
  because the message is neither queued nor out with another task; a delivery
  starts the only task because a queued message has none; and an acknowledgement
  may end a task because the event it sets is that task's own. Three lemmas say
  what an arrival, a delivery and a return do to a partition.
  `QueueDeliversAtLeastOnce` adds `Ordered`: in a partition the messages delivered before are in front and the
  others follow in the order of their ids, so the head is either a redelivery or
  the oldest message never delivered. Each step is then one of `Publish`,
  `Deliver`, `ComesBack`, `Settle` and `ConfirmLate` of `AtLeastOnce`, or a
  stutter.
* `CacheProofs`. `HitsReturnLastWrites` from `LineInv`: each line that is not
  `INVALID` has the data last written at its address, and that was not invalidated
  since. It is inductive because only a write makes an `INVALID` line anything else:
  a snoop changes `MODIFIED` lines only, which the mutant shows to be needed. The LRU
  does not matter to it, so any victim of an eviction is covered. Nothing is said of
  a miss (section 5). `CacheTypeCorrect`, `LruAgreesWithCache`,
  `LruOrderIsOrderOfUse` and `OldestIsEvicted` are inductive only together
  (`LruInv`): the cache stays within its capacity because the LRU finds a line to
  drop, and it does because it knows exactly the cached addresses. The length
  of a sequence without repetitions is the number of its elements
  (`LengthOfDistinct`), so the cache is full exactly when the LRU is. The order is
  carried by `Before(s, x, y)`, x stands in front of y somewhere: what the LRU
  does takes addresses out or puts the one just used at the end, so no pair that
  stays is exchanged, and since an address is never used after its own last use,
  none is there twice. A cleanup takes out any set of lines (`OrderWithoutFacts`,
  from a lemma that counts the members of a set of positions up to each of them,
  `Counting`). A capacity of 0, when the LRU stays empty and the cache
  grows, is a case of each step. `OldestIsEvicted` says both that a line goes only
  from a full cache and which one it is: the number of lines is at least the capacity
  by the guard of the write and at most the capacity by `LruInv`.
* `MessagePassingProofs`. `CallsGetOwnAnswers` and `RepeatsFollowGivingUp` from
  `MInv`: a call writes its requests in the order of its peers and tries
  (`Fresh`, so a request it answers for is new), and leaves a try behind only
  when nobody can read that request any more or when it stopped waiting for the
  answer (`Past`; `NotTwice` keeps it for the peers a broadcast has passed).
  `CallsComeToAnEnd` and `CallsTakeBoundedlyManySteps` are what `CallsEnd` promises
  apart from fairness: `StepsLeft`, four steps for each try that is left of
  each peer that is left, minus the stage of the current try, is a natural
  number that every step of a call lowers, and it is 0 only when the call returned or raised.
  So peers that die, close or stay silent cannot keep a call going, and with an
  await that always ends (the assumed fairness) it ends.
* `HashRingProofs`. `RingIsExact` from `Holds(ring, members)`, which says
  position by position who is there; `KeysStayPut` from what an addition and a
  removal do to the slot a hash falls into. `KeysBelongToTheNext` measures the
  way from a hash to a position (`Clockwise`, modulo `Span`, a number beyond the
  largest position) and shows that `bisect` with its wrap-around finds the
  position with the shortest way.
* `FailureDetectorProofs`. `DetectorsAreSound`: the types, with what is needed to
  make them inductive. It holds of any set of peers per node.
  `DeadPeersAreForgotten` is what `DeadPeersGrowOld` promises apart from fairness:
  while a peer is down, what it left at a detector (`Traces`: a heartbeat not
  yet read, and the coroutine that had already written to it) only grows fewer, and each
  time the detector takes the peer for alive one of these is spent.

Assumptions on constants are named in the modules that declare them and
evaluated by TLC: sets of nodes are finite where majorities are counted
(`NodeAssumption`), the hash function has no collisions (`HashAssumption`) and a
largest value (`RangeAssumption`), a list of peers names no peer twice
(`PeerAssumption`), and `None` is none of the values it stands beside (in `Cache`,
no data and no line).

Model-checked only:
* the liveness properties (`LeaderBecomesKnown`, `WaitersAreServed`,
  `EverythingSettles`, `CallsEnd`, `LivePeersStayRecent`, `DeadPeersGrowOld`):
  they need fairness and `ENABLED`, which this prover does not treat. Of
  `WaitersAreServed`, `CallsEnd` and `DeadPeersGrowOld` the part that needs neither
  is proved, see above;
* the two violations of section 5.

Every safety invariant, action property and refinement of the passing runs is
proved. Two forms are owed to the prover. `tlapm` has no definition of
`SelectSeq`, so `OrderWithout` says by its position where each address that
is left goes. The library's induction theorems take a formula as a parameter, which
no installed prover instantiates, so the proofs count and compare instead, and
take a least element where they need one (`WFMin`, in `HashRingProofs`).

No module has a `RECURSIVE` operator.

## 5. Where the code departs from what is written about it

Shown by a run:

* `raft_split_brain`: two leaders of one term, when the answer to a vote request
  is under way longer than an election timeout. The vote is counted in the next
  election, and the answer is even stamped with the voter's new term. Under the
  timing assumption (`TimelySpec`: nothing of a node's election is under way when it
  starts the next) it cannot happen, which is proved. The timeouts of the code do
  not imply that assumption: a request and its answer are two connections, each of
  which may take up to 2 s, and two elections of a node may be 3 s apart. It is met
  by a host on which a vote exchange takes less than an election timeout.
* `lock_readers`: a writer together with readers. The readers that joined are
  kept in `shared_locks`, which neither the upgrade nor the release looks at.

Seen while modelling, without a run:

* a read of an INVALID line returns the data of that line: it is counted as a miss
  and asks the peers, does not wait for them and finds the line still there
  (`cache_node.py:95-96`), though an invalid line is out of date
  (`architecture.md:90`) and `test_sequence.py:297` announces "Read after
  invalidation (miss now)". `ReadMiss` has it: a write, `Invalidate` and `ReadMiss` of
  one address are a behaviour of `Spec` whose `reply` is the invalidated data.
  `HitsAreCurrent` speaks of hits only and holds;
* no peer ever becomes suspected or dead, and no failover or rebalancing follows
  (`architecture.md:96`, `README.md:14`); heartbeats that arrive are ignored
  unless the `NODE_ID` of the sender is the address by which it is a peer;
* `send_message` counts retries on a message it then throws away
  (`message_passing.py:58`), so `max_retries = 3` does not limit them: an
  unreachable peer is tried until Python's recursion limit, and the error ends a
  broadcast before the other peers are asked;
* the log is never replicated (`architecture.md:72`), and lock operations are not
  routed through a leader, so each node has locks of its own (`:61`);
* a message whose acknowledgement was answered with success can be delivered
  again if the timer had fired (`:81`); two topics of one partition get each
  other's messages; nodes are never removed from the ring (`:82`);
* caches of different nodes are not kept coherent (`:87`);
* votes do not survive a restart, which the note in `raft.py:271` relies on;
* a client with two requests for one resource can leave a lock nobody knows of
  until its lease ends.

## 6. Not modelled

* `_replicate_message` and `_message_recovery` of the queue: what they send is
  answered with `unknown_action` by every peer, and a crash loses the messages
  of the node without any recovery code.
* The messages of the cache to its peers, for the same reason: the caches do not
  influence one another, so there is no joint protocol to model.
* `register_handler` and `handle_message` of `MessagePassing`,
  `reset_dead_node` of `FailureDetector`: nothing calls them.
* `NodeServer` beyond what the two communication modules need: each branch of
  `process_request` calls one operation, which is an action of that component's
  module; the token check keeps no state.
* `BaseNode` (no subclass), `Config` (environment variables), `MetricsCollector`
  (counters under a mutex no other module uses), tests, benchmarks and plots.
* Elapsed time: what is timed out may time out at any moment, except under
  `TimelySpec`.

## 7. Plan

Done: the modules, runs, refinements and theorems above. What is left:

1. What `EverythingSettles` and `LivePeersStayRecent` promise apart from fairness,
   as theorems like those on the other three.
2. The shared mode of the lock manager: which part of mutual exclusion the
   readers keep among themselves, in spite of the violation of section 5.
3. Larger instances: two restarts in `raft_restart` and a third client in
   `lock_patient`.
4. A run that shows the read of an INVALID line (section 5) as a violation.
