----------------------------- MODULE MCHashRing -----------------------------
(* An instance of HashRing for TLC: seven nodes with two virtual nodes each, *)
(* scattered over sixteen positions of which two, 4 and 15, stay unused.     *)
EXTENDS HashRing

CONSTANTS n1, n2, n3, n4, n5, n6, n7

Sixteen == 0..15
Nodes == <<n1, n2, n3, n4, n5, n6, n7>>
Scattered == <<11, 5, 0, 8, 14, 3, 9, 1, 13, 6, 2, 12, 7, 10>>
\* The virtual nodes of the i-th node are at the i-th and the (7+i)-th of them.
HashOfNodes ==
    [x \in Member \X VirtualNode |->
        LET i == CHOOSE j \in 1..7 : Nodes[j] = x[1]
        IN  Scattered[i + 7 * (x[2] - 1)]]
=============================================================================
