--------------------------- MODULE MCRaftRestart ----------------------------
(* An instance of RaftRestart for TLC. *)
EXTENDS RaftRestart, TLC

CONSTANTS n1, n2, n3

\* Two nodes.  The one starts elections for the terms 1 to 3, so that its log may
\* get entries of two terms; the other starts one, as its rival for the first.
ThreeAndOne == (n1 :> 3) @@ (n2 :> 1)
\* What the rival sends may get lost.
OneWay == {<<n2, n1>>}
=============================================================================
