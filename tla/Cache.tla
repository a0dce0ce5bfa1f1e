-------------------------------- MODULE Cache --------------------------------
(***************************************************************************)
(* CacheNode and LRUReplacement of src/nodes/cache_node.py: the cache of   *)
(* one node.  Every operation runs under one lock and never suspends while *)
(* it has it: what it awaits only spawns tasks.  Each is one action.  The  *)
(* messages the node sends (snoop, invalidate, upgrade_request,            *)
(* cache_read_request) are fire-and-forget and get no action here.  Time   *)
(* is abstracted: any set of lines may be found older than the ttl.  Not   *)
(* modelled: a line's version and the statistics.                          *)
(***************************************************************************)
EXTENDS Naturals, Sequences, FiniteSets, OrderedSequences

CONSTANTS
    Address,        \* addresses
    Data,           \* what is written
    None,           \* no line, no data, no read
    Sizes           \* what the environment variable CACHE_MAX_SIZE may be

ASSUME SizeAssumption == Sizes \subseteq Nat

VARIABLES
    max_size,       \* the capacity of the cache and of its LRU
    cache,          \* the CacheLine of each address, or None
    access_order,   \* the LRU's addresses, the one to evict first
    reply,          \* the last read's address and what it returned
    current,        \* history: the data last written at each address, or None
                    \* when the address was invalidated since
    usedSince       \* history: the addresses used after the last use of each

vars == <<max_size, cache, access_order, reply, current, usedSince>>

\* SHARED and EXCLUSIVE are declared and never assigned.
CacheState == {"MODIFIED", "OWNED", "INVALID"}
CacheLine == [state : CacheState, data : Data]
Reply == [address : Address, data : Data \cup {None}]

ASSUME NoneAssumption == None \notin Data /\ None \notin CacheLine

Cached == {a \in Address : cache[a] # None}
StateOf(a) == IF a \in Cached THEN cache[a].state ELSE "ABSENT"

Init ==
    /\ max_size \in Sizes
    /\ cache = [a \in Address |-> None]
    /\ access_order = <<>>
    /\ reply = None
    /\ current = [a \in Address |-> None]
    /\ usedSince = [a \in Address |-> {}]

-----------------------------------------------------------------------------
(* LRUReplacement *)

TouchFirstOnly(order, a) == IF a \in Elements(order) THEN order ELSE Append(order, a)
\* touch: the address goes to the recent end, and when there are too many the
\* oldest falls out; with a capacity of 0 that is the address itself.
Touch(order, a) ==
    LET moved == Append(Without(order, a), a)
    IN  IF Len(moved) > max_size THEN Tail(moved) ELSE moved

Newest(order) == order[Len(order)]
Oldest(order) == Head(order)

Use(a) ==
    usedSince' = [b \in Address |-> IF b = a THEN {} ELSE usedSince[b] \cup {a}]

-----------------------------------------------------------------------------
(* read *)

ReadHit(a) ==
    /\ StateOf(a) \notin {"ABSENT", "INVALID"}
    /\ access_order' = Touch(access_order, a)
    /\ reply' = [address |-> a, data |-> cache[a].data]
    /\ Use(a)
    /\ UNCHANGED <<max_size, cache, current>>

\* A miss asks the peers and does not wait for them: it returns what is cached,
\* the data of an INVALID line included.
ReadMiss(a) ==
    /\ StateOf(a) \in {"ABSENT", "INVALID"}
    /\ reply' = [address |-> a, data |-> IF a \in Cached THEN cache[a].data ELSE None]
    /\ UNCHANGED <<max_size, cache, access_order, current, usedSince>>

-----------------------------------------------------------------------------
(* write *)

Record(a, d) == current' = [current EXCEPT ![a] = d]
Forget(a) == current' = [current EXCEPT ![a] = None]

WritesNothing(line, d) == line
WrittenLine(line, d) == [line EXCEPT !.data = d]

WriteModified(a, d) ==
    /\ StateOf(a) = "MODIFIED"
    /\ cache' = [cache EXCEPT ![a] = WrittenLine(@, d)]
    /\ access_order' = Touch(access_order, a)
    /\ Record(a, d)
    /\ Use(a)
    /\ UNCHANGED <<max_size, reply>>

FullUnlessOne(a) == a \notin Cached /\ Cardinality(Cached) > max_size
NeedsRoom(a) == a \notin Cached /\ Cardinality(Cached) >= max_size

\* A line that is not MODIFIED is replaced as if it were absent.  The evicted
\* line is dropped, MODIFIED or not, and nothing is written back.
WriteNew(a, d) ==
    LET new == [state |-> "MODIFIED", data |-> d]
        evicts == NeedsRoom(a) /\ access_order # <<>>
        victim == Oldest(access_order)
    IN  /\ StateOf(a) # "MODIFIED"
        /\ cache' = [b \in Address |->
                        IF b = a THEN new
                        ELSE IF evicts /\ b = victim THEN None ELSE cache[b]]
        /\ access_order' =
              Touch(IF evicts THEN Without(access_order, victim) ELSE access_order, a)
        /\ Record(a, d)
        /\ Use(a)
        /\ UNCHANGED <<max_size, reply>>

-----------------------------------------------------------------------------
(* Invalidation, snooping, expiry *)

SetState(a, state) == cache' = [cache EXCEPT ![a].state = state]

\* The invalidate call, and the same of handle_snoop.
Invalidate(a) ==
    /\ a \in Cached
    /\ SetState(a, "INVALID")
    /\ Forget(a)
    /\ UNCHANGED <<max_size, access_order, reply, usedSince>>

SnoopAnyLine(a) ==
    /\ a \in Cached
    /\ SetState(a, "OWNED")
    /\ UNCHANGED <<max_size, access_order, reply, current, usedSince>>
\* handle_snoop(address, "read_shared")
SnoopRead(a) ==
    /\ StateOf(a) = "MODIFIED"
    /\ SetState(a, "OWNED")
    /\ UNCHANGED <<max_size, access_order, reply, current, usedSince>>

OrderUncleaned(order, expired) == order
\* Each expired address is removed: the k-th that is left had k - 1 of those left
\* before it.
OrderWithout(order, expired) ==
    LET left == {i \in DOMAIN order : order[i] \notin expired}
        Nth(k) == CHOOSE i \in left : Cardinality({j \in left : j <= i}) = k
    IN  [k \in 1..Cardinality(left) |-> order[Nth(k)]]

\* _cache_cleanup: all lines older than the ttl go at once; flushing a MODIFIED
\* line only logs.
Cleanup(expired) ==
    /\ expired # {}
    /\ cache' = [a \in Address |-> IF a \in expired THEN None ELSE cache[a]]
    /\ access_order' = OrderWithout(access_order, expired)
    /\ UNCHANGED <<max_size, reply, current, usedSince>>

-----------------------------------------------------------------------------
Next ==
    \/ \E a \in Address : ReadHit(a) \/ ReadMiss(a) \/ Invalidate(a) \/ SnoopRead(a)
    \/ \E a \in Address, d \in Data : WriteModified(a, d) \/ WriteNew(a, d)
    \/ \E expired \in SUBSET Cached : Cleanup(expired)

Spec == Init /\ [][Next]_vars

-----------------------------------------------------------------------------
(* Properties *)

\* Type invariant; in particular there are never more lines than max_size,
\* unless that is 0, when nothing is ever evicted.
TypeOK ==
    /\ max_size \in Sizes
    /\ cache \in [Address -> CacheLine \cup {None}]
    /\ max_size > 0 => Cardinality(Cached) <= max_size
    /\ access_order \in Seq(Address)
    /\ reply \in Reply \cup {None}
    /\ current \in [Address -> Data \cup {None}]
    /\ usedSince \in [Address -> SUBSET Address]

\* The LRU knows exactly the cached addresses, each once, and never more than
\* the capacity: eviction always finds a line to drop and never one that is gone.
\* With a capacity of 0 it knows none of them.
LruKnowsTheCache ==
    /\ Elements(access_order) = IF max_size = 0 THEN {} ELSE Cached
    /\ \A i, j \in DOMAIN access_order : access_order[i] = access_order[j] => i = j
    /\ Len(access_order) <= max_size

\* The LRU's order is the order of last use, through hits, writes, evictions,
\* invalidations and expiries.
OrderIsOrderOfUse ==
    \A i, j \in DOMAIN access_order :
        i < j => access_order[j] \in usedSince[access_order[i]]

\* A write drops a line only from a full cache, and then one only, the one used
\* least recently (docs/architecture.md on the LRU policy).
EvictsLeastRecentlyUsed ==
    [][\A a \in Address, d \in Data : WriteNew(a, d) =>
         \A v \in Cached \ Cached' :
            /\ Cardinality(Cached) = max_size
            /\ Cached \ Cached' = {v}
            /\ Cached \ {v} \subseteq usedSince[v]]_vars

\* A hit returns this node's last write at the address, and none invalidated
\* since: once invalidated, data is never a hit again, whatever is snooped,
\* evicted, expired or written in between.  Of a miss nothing is said: it may
\* return the data of an INVALID line.
HitsAreCurrent ==
    [][\A a \in Address : ReadHit(a) => reply'.data = current[a]]_vars
=============================================================================
