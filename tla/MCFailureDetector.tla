-------------------------- MODULE MCFailureDetector --------------------------
(* An instance of FailureDetector for TLC: one node with two peers, one of    *)
(* which knows the node and sends heartbeats to it.                           *)
EXTENDS FailureDetector

CONSTANTS n1, n2, n3

PeersOf == [n \in Node |-> CASE n = n1 -> {n2, n3} [] n = n2 -> {n1} [] n = n3 -> {}]
=============================================================================
