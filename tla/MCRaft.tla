------------------------------- MODULE MCRaft -------------------------------
(* Instances of Raft for TLC. *)
EXTENDS Raft, TLC

CONSTANTS n1, n2, n3

\* The last term each node starts an election for.
TwoTwice == (n1 :> 2) @@ (n2 :> 2) @@ (n3 :> 0)
TwoOnce == (n1 :> 1) @@ (n2 :> 1) @@ (n3 :> 0)

\* The links on which a connection can fail.
NoLinks == {}
ToThird == {<<n1, n3>>}

\* n1 and n2 run the same code under the same bounds.
Rival12 == Permutations({n1, n2})
=============================================================================
