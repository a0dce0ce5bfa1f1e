------------------------------ MODULE HashRing -------------------------------
(***************************************************************************)
(* ConsistentHashRing of src/nodes/queue_node.py.  Hash values are small   *)
(* natural numbers; HashOf stands for md5 of "<node>:vn<i>", and a key is  *)
(* given by its hash.  add_node and remove_node may be called in any order *)
(* and for any node, present or not.                                       *)
(***************************************************************************)
EXTENDS Naturals

CONSTANTS
    Member,         \* the nodes that may be on the ring
    First,          \* the nodes __init__ puts there
    VirtualNode,    \* the indices of the virtual nodes of a node
    Position,       \* the hash values
    HashOf,         \* the position of each <<node, virtual node>>
    None            \* no node

ASSUME PositionAssumption == Position \subseteq Nat
\* There is a largest hash value, and every node has virtual nodes.
ASSUME RangeAssumption ==
    VirtualNode # {} /\ \E top \in Position : \A k \in Position : k <= top
ASSUME MemberAssumption == First \subseteq Member /\ None \notin Member
\* md5 has no collisions among the few hundred names of a cluster.
ASSUME HashAssumption ==
    /\ HashOf \in [Member \X VirtualNode -> Position]
    /\ \A x, y \in Member \X VirtualNode : HashOf[x] = HashOf[y] => x = y

VARIABLES
    ring,           \* the node at each position, or None
    members         \* history: the nodes added and not removed since

vars == <<ring, members>>

PositionsOf(n) == {HashOf[<<n, i>>] : i \in VirtualNode}

OverwritesSmaller(r, n) ==
    [k \in Position |-> IF \E j \in PositionsOf(n) : k <= j THEN n ELSE r[k]]
\* Node n is entered at all its positions.
With(r, n) == [k \in Position |-> IF k \in PositionsOf(n) THEN n ELSE r[k]]

FirstFound(r, n) ==
    [k \in Position |-> IF r[k] = n /\ (\A j \in Position : r[j] = n => k <= j)
                        THEN None ELSE r[k]]
\* All entries with value n are dropped.
WithoutNode(r, n) == [k \in Position |-> IF r[k] = n THEN None ELSE r[k]]

\* get_node walks sorted_keys: the first key not below the hash, or, behind
\* the last key, the very first.
Taken == {k \in Position : ring[k] # None}
Smallest(S) == CHOOSE k \in S : \A j \in S : k <= j
StartsAbove(h) == {k \in Taken : h < k}
NotBelow(h) == {k \in Taken : h <= k}

get_node(h) ==
    IF Taken = {} THEN None
    ELSE IF NotBelow(h) # {} THEN ring[Smallest(NotBelow(h))]
    ELSE ring[Smallest(Taken)]

-----------------------------------------------------------------------------
Init ==
    /\ ring = [k \in Position |->
                 IF \E n \in First : k \in PositionsOf(n)
                 THEN CHOOSE n \in First : k \in PositionsOf(n) ELSE None]
    /\ members = First

add_node(n) ==
    /\ ring' = With(ring, n)
    /\ members' = members \cup {n}

remove_node(n) ==
    /\ ring' = WithoutNode(ring, n)
    /\ members' = members \ {n}

Next == \E n \in Member : add_node(n) \/ remove_node(n)

Spec == Init /\ [][Next]_vars

-----------------------------------------------------------------------------
(* Properties *)

\* The ring holds the virtual nodes of the members and nothing else, after any
\* sequence of additions and removals, repeated ones included.
RingHoldsTheMembers ==
    ring = [k \in Position |->
              IF \E n \in members : k \in PositionsOf(n)
              THEN CHOOSE n \in members : k \in PositionsOf(n) ELSE None]

\* The distance from a hash to a position, clockwise round the ring.
Span == (CHOOSE k \in Position : \A j \in Position : j <= k) + 1
Clockwise(h, k) == ((k + Span) - h) % Span

\* A key belongs to the member whose virtual node comes first clockwise.
OwnerIsNextClockwise ==
    \A h \in Position :
        \/ members = {} /\ get_node(h) = None
        \/ \E n \in members, i \in VirtualNode :
              /\ get_node(h) = n
              /\ \A p \in members, j \in VirtualNode :
                   Clockwise(h, HashOf[<<n, i>>]) <= Clockwise(h, HashOf[<<p, j>>])

\* A key changes its node only for a node that was added, or because the node
\* it had was removed: everything else stays where it is.
OnlyNeededMoves ==
    [][\A h \in Position : get_node(h)' # get_node(h) =>
         \/ get_node(h)' \in members' \ members
         \/ get_node(h) \notin members']_vars
=============================================================================
