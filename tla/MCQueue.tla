------------------------------- MODULE MCQueue ------------------------------
(* An instance of Queue for TLC: two topics share a partition. *)
EXTENDS Queue, TLC

CONSTANTS orders, mails, audits, p1, p2

TwoShareOne == orders :> p1 @@ mails :> p1 @@ audits :> p2
=============================================================================
