----------------------------- MODULE LockManager -----------------------------
(***************************************************************************)
(* DistributedLockManager of src/nodes/lock_manager.py: the lock table of  *)
(* one node, its waiting queues, the acquire_lock coroutines that poll for *)
(* their grant, release_lock and the expiry loop.                          *)
(*                                                                         *)
(* Every critical section of the class runs without suspending, so each is *)
(* one action.  Time is abstracted: a lock that exists may expire and a    *)
(* waiter's deadline may pass at any moment.  wait_graph is never filled,  *)
(* so the deadlock detector finds no cycle and has no action.              *)
(***************************************************************************)
EXTENDS Naturals, Sequences, OrderedSequences

CONSTANTS
    Client,         \* client ids
    Resource,       \* resource ids
    None,           \* no lock
    Mode,           \* the lock types clients ask for, of "shared" and "exclusive"
    OneAtATime,     \* whether a client waits for an answer before it asks again
    MaxRequests     \* bound: acquire_lock calls

ASSUME NoneAssumption == None \notin [mode : Mode, holder : Client, request : Nat]
ASSUME ModeAssumption == Mode \subseteq {"shared", "exclusive"}
ASSUME SwitchAssumption == OneAtATime \in BOOLEAN /\ MaxRequests \in Nat

VARIABLES
    locks,          \* the Lock of each resource, or None
    shared_locks,   \* the readers that joined a shared lock
    waiting_queue,  \* the numbers of the requests queued for each resource
    requests,       \* every acquire_lock call so far and its answer
    holds           \* history: who was told it has the resource and has it still

vars == <<locks, shared_locks, waiting_queue, requests, holds>>

\* A request_id is the position of the call in requests.
Request == [client : Client, resource : Resource, mode : Mode,
            answer : {"waiting", "success", "timeout"}]
Lock == [mode : Mode, holder : Client, request : Nat \ {0}]
Hold == [client : Client, mode : Mode]

NewLock(q) == [mode |-> requests[q].mode, holder |-> requests[q].client, request |-> q]

Init ==
    /\ locks = [r \in Resource |-> None]
    /\ shared_locks = [r \in Resource |-> {}]
    /\ waiting_queue = [r \in Resource |-> <<>>]
    /\ requests = <<>>
    /\ holds = [r \in Resource |-> {}]

-----------------------------------------------------------------------------
(* acquire_lock, up to its first suspension *)

\* The call is recorded with its immediate answer, or as waiting.
Call(c, r, md, answer) ==
    /\ Len(requests) < MaxRequests
    /\ OneAtATime => \A q \in DOMAIN requests :
                        requests[q].client = c => requests[q].answer # "waiting"
    /\ requests' = Append(requests, [client |-> c, resource |-> r, mode |-> md,
                                     answer |-> answer])

Told(c, r, md) == holds' = [holds EXCEPT ![r] = @ \cup {[client |-> c, mode |-> md]}]

Joins(r, md) == md = "shared" /\ locks[r].mode = "shared"
\* "Same client upgrading to exclusive"
AnyoneUpgrades(c, r, md) == md = "exclusive" /\ locks[r].mode = "shared"
Upgrades(c, r, md) == locks[r].holder = c /\ md = "exclusive"

AcquireFree(c, r, md) ==
    /\ locks[r] = None
    /\ Call(c, r, md, "success")
    /\ locks' = [locks EXCEPT ![r] = [mode |-> md, holder |-> c, request |-> Len(requests) + 1]]
    /\ Told(c, r, md)
    /\ UNCHANGED <<shared_locks, waiting_queue>>

AcquireShared(c, r, md) ==
    /\ locks[r] # None
    /\ Joins(r, md)
    /\ Call(c, r, md, "success")
    /\ shared_locks' = [shared_locks EXCEPT ![r] = @ \cup {c}]
    /\ Told(c, r, md)
    /\ UNCHANGED <<locks, waiting_queue>>

AcquireUpgrade(c, r, md) ==
    /\ locks[r] # None
    /\ Upgrades(c, r, md)
    /\ Call(c, r, md, "success")
    /\ locks' = [locks EXCEPT ![r] = [mode |-> md, holder |-> c, request |-> Len(requests) + 1]]
    /\ Told(c, r, md)
    /\ UNCHANGED <<shared_locks, waiting_queue>>

MustWait(c, r, md) == locks[r] # None /\ ~Joins(r, md) /\ ~Upgrades(c, r, md)

AtFront(s, q) == <<q>> \o s
AtBack(s, q) == Append(s, q)

Enqueue(c, r, md) ==
    /\ MustWait(c, r, md)
    /\ Call(c, r, md, "waiting")
    /\ waiting_queue' = [waiting_queue EXCEPT ![r] = AtBack(@, Len(requests) + 1)]
    /\ UNCHANGED <<locks, shared_locks, holds>>

\* timeout <= 0: the request is queued, the wait loop is not entered and the
\* request is taken off the queue again, all without a suspension.
RefuseAtOnce(c, r, md) ==
    /\ MustWait(c, r, md)
    /\ Call(c, r, md, "timeout")
    /\ UNCHANGED <<locks, shared_locks, waiting_queue, holds>>

-----------------------------------------------------------------------------
(* The wait loop of acquire_lock *)

IsWaiting(q) == q \in DOMAIN requests /\ requests[q].answer = "waiting"

Answer(q, answer) == requests' = [requests EXCEPT ![q].answer = answer]

StillQueuedAndFree(q) ==
    LET r == requests[q].resource
    IN  locks[r] = None /\ \E i \in DOMAIN waiting_queue[r] : waiting_queue[r][i] = q
FindsFree(q) == locks[requests[q].resource] = None

\* A poll finds the resource free and takes it.
PollTakes(q) ==
    LET r == requests[q].resource
    IN  /\ IsWaiting(q)
        /\ FindsFree(q)
        /\ locks' = [locks EXCEPT ![r] = NewLock(q)]
        /\ waiting_queue' = [waiting_queue EXCEPT ![r] = Without(@, q)]
        /\ Answer(q, "success")
        /\ Told(requests[q].client, r, requests[q].mode)
        /\ UNCHANGED shared_locks

FindsAnyLock(q) == locks[requests[q].resource] # None
\* The holder's name is compared, not the request: it may be the client's
\* other request that was granted.
FindsItself(q) ==
    /\ locks[requests[q].resource] # None
    /\ locks[requests[q].resource].holder = requests[q].client

PollFinds(q) ==
    /\ IsWaiting(q)
    /\ FindsItself(q)
    /\ Answer(q, "success")
    /\ Told(requests[q].client, requests[q].resource, requests[q].mode)
    /\ UNCHANGED <<locks, shared_locks, waiting_queue>>

GivesUpBlindly(q) == TRUE
\* The deadline is looked at after a poll that failed, with no suspension in
\* between.
PollFailed(q) == ~FindsFree(q) /\ ~FindsItself(q)

GiveUp(q) ==
    LET r == requests[q].resource
    IN  /\ IsWaiting(q)
        /\ PollFailed(q)
        /\ waiting_queue' = [waiting_queue EXCEPT ![r] = Without(@, q)]
        /\ Answer(q, "timeout")
        /\ UNCHANGED <<locks, shared_locks, holds>>

-----------------------------------------------------------------------------
(* release_lock and the expiry loop *)

FreeOnly(r) ==
    /\ locks' = [locks EXCEPT ![r] = None]
    /\ UNCHANGED waiting_queue

ServeLast(r) ==
    IF waiting_queue[r] = <<>>
    THEN locks' = [locks EXCEPT ![r] = None] /\ UNCHANGED waiting_queue
    ELSE LET n == Len(waiting_queue[r])
         IN  /\ locks' = [locks EXCEPT ![r] = NewLock(waiting_queue[r][n])]
             /\ waiting_queue' = [waiting_queue EXCEPT ![r] = SubSeq(@, 1, n - 1)]

\* The lock is deleted and _process_waiting gives it to the head of the queue.
ServeNext(r) ==
    IF waiting_queue[r] = <<>>
    THEN locks' = [locks EXCEPT ![r] = None] /\ UNCHANGED waiting_queue
    ELSE /\ locks' = [locks EXCEPT ![r] = NewLock(Head(waiting_queue[r]))]
         /\ waiting_queue' = [waiting_queue EXCEPT ![r] = Tail(@)]

ReleaseByAnyone(c, r) == locks[r] # None
MayRelease(c, r) == locks[r] # None /\ locks[r].holder = c

Release(c, r) ==
    /\ MayRelease(c, r)
    /\ ServeNext(r)
    /\ shared_locks' = [shared_locks EXCEPT ![r] = {}]
    /\ holds' = [holds EXCEPT ![r] = {h \in @ : h.client # c}]
    /\ UNCHANGED requests

\* "not_holder" or "lock_not_found": nothing changes, but a client that held
\* the resource (a reader that had joined) uses it no longer.
ReleaseRefused(c, r) ==
    /\ ~MayRelease(c, r)
    /\ \E h \in holds[r] : h.client = c
    /\ holds' = [holds EXCEPT ![r] = {h \in @ : h.client # c}]
    /\ UNCHANGED <<locks, shared_locks, waiting_queue, requests>>

\* _lock_expiry_checker: unlike release_lock it leaves shared_locks alone.
\* What clients were told about the resource is over with its lock.  The code
\* goes through all expired locks in one critical section; resources do not
\* touch one another, so taking them one by one adds states but hides none.
Expire(r) ==
    /\ locks[r] # None
    /\ ServeNext(r)
    /\ holds' = [holds EXCEPT ![r] = {}]
    /\ UNCHANGED <<shared_locks, requests>>

-----------------------------------------------------------------------------
Acquire(c, r, md) ==
    \/ AcquireFree(c, r, md) \/ AcquireShared(c, r, md) \/ AcquireUpgrade(c, r, md)
    \/ Enqueue(c, r, md) \/ RefuseAtOnce(c, r, md)

Next ==
    \/ \E c \in Client, r \in Resource, md \in Mode : Acquire(c, r, md)
    \/ \E q \in DOMAIN requests : PollTakes(q) \/ PollFinds(q) \/ GiveUp(q)
    \/ \E c \in Client, r \in Resource : Release(c, r) \/ ReleaseRefused(c, r)
    \/ \E r \in Resource : Expire(r)

Spec == Init /\ [][Next]_vars

(***************************************************************************)
(* Waiters whose timeout is longer than the leases before them: nobody     *)
(* gives up.  The wait loops and the expiry loop run for ever, so a poll   *)
(* that would succeed is made and a lock that stays is expired; releases   *)
(* are not promised, a client may crash with its lock.                     *)
(***************************************************************************)
PatientNext ==
    \/ \E c \in Client, r \in Resource, md \in Mode : Acquire(c, r, md)
    \/ \E q \in DOMAIN requests : PollTakes(q) \/ PollFinds(q)
    \/ \E c \in Client, r \in Resource : Release(c, r) \/ ReleaseRefused(c, r)
    \/ \E r \in Resource : Expire(r)

Fairness ==
    /\ \A q \in 1..MaxRequests : WF_vars(PollTakes(q)) /\ WF_vars(PollFinds(q))
    /\ \A r \in Resource : WF_vars(Expire(r))

PatientSpec == Init /\ [][PatientNext]_vars /\ Fairness

-----------------------------------------------------------------------------
(* Properties *)

Queued(r) == {waiting_queue[r][i] : i \in DOMAIN waiting_queue[r]}

\* A lock is recorded under the client and the resource of its request.
LocksMatchRequests ==
    \A r \in Resource : locks[r] # None =>
        /\ locks[r].request \in DOMAIN requests
        /\ locks[r].holder = requests[locks[r].request].client
        /\ requests[locks[r].request].resource = r

\* Type invariant: a queue holds existing requests for its resource, in the
\* order of their arrival and none twice.
TypeOK ==
    /\ locks \in [Resource -> Lock \cup {None}]
    /\ shared_locks \in [Resource -> SUBSET Client]
    /\ requests \in Seq(Request)
    /\ waiting_queue \in [Resource -> Seq(Nat)]
    /\ holds \in [Resource -> SUBSET Hold]
    /\ LocksMatchRequests
    /\ \A r \in Resource :
        /\ Increasing(waiting_queue[r])
        /\ \A q \in Queued(r) : q \in DOMAIN requests /\ requests[q].resource = r

\* Nobody is queued for a resource that is free: every release and every
\* expiry hands the lock over, so no wake-up is lost.
NoLostWakeup ==
    \A r \in Resource : waiting_queue[r] # <<>> => locks[r] # None

\* A request that was answered with a timeout is neither queued nor granted
\* afterwards, however close the grant and the deadline were: no lock is
\* recorded for a client that was told it has none.
RefusedNeverGranted ==
    \A q \in DOMAIN requests : requests[q].answer = "timeout" =>
        \A r \in Resource :
            /\ q \notin Queued(r)
            /\ locks[r] # None => locks[r].request # q

\* docs/architecture.md, "one writer": a client that has a resource in
\* exclusive mode is the only one that has it in any mode.
WriterIsAlone ==
    \A r \in Resource : \A g, h \in holds[r] :
        g.mode = "exclusive" => h.client = g.client

ExclusiveOnly(r) ==
    \A q \in DOMAIN requests : requests[q].resource = r => requests[q].mode = "exclusive"

\* A resource that nobody ever asked for in shared mode is had by one client
\* at a time, through grants, polls, releases, expiries and upgrades.
WritersExcludeWriters ==
    \A r \in Resource : ExclusiveOnly(r) =>
        \A g, h \in holds[r] : h.client = g.client

\* A client that was told it has such a resource is the recorded holder.
HoldersAreRecorded ==
    \A r \in Resource : ExclusiveOnly(r) =>
        \A h \in holds[r] : locks[r] # None /\ locks[r].holder = h.client

\* The lock goes from the queue to the request that has waited longest.
ServedInOrder ==
    [][\A r \in Resource : \A q \in Queued(r) :
         locks'[r] # locks[r] /\ locks'[r] # None /\ locks'[r].request = q
            => \A w \in Queued(r) : q <= w]_vars

\* A new exclusive request never passes the requests that are queued, unless
\* it is the holder's own.
NewcomersWait ==
    [][\A q \in DOMAIN requests' \ DOMAIN requests :
         LET new == requests'[q]
         IN  new.mode = "exclusive" /\ new.answer = "success" =>
                \/ waiting_queue[new.resource] = <<>>
                \/ locks[new.resource].holder = new.client]_vars

\* Whoever waits long enough is served, even when no client ever releases
\* anything: circular waits over several resources are broken by the expiry.
WaitersAreServed ==
    \A q \in 1..MaxRequests : IsWaiting(q) ~> q \in DOMAIN requests /\ ~IsWaiting(q)

-----------------------------------------------------------------------------
(* Refinement, for resources that are only used exclusively *)

Leases == INSTANCE LeaseTable WITH
    owner <- [r \in Resource |-> IF locks[r] = None THEN {} ELSE {locks[r].holder}],
    told <- [r \in Resource |-> {h.client : h \in holds[r]}]

\* Without shared requests a DistributedLockManager is a table of exclusive
\* leases: polls, hand-overs, releases and expiries are steps of LeaseTable.
GrantsLeases == Leases!Spec
=============================================================================
