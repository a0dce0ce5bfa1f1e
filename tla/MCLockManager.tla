--------------------------- MODULE MCLockManager ----------------------------
(* Instances of LockManager for TLC. *)
EXTENDS LockManager, TLC

CONSTANTS c1, c2, c3, a, b

Clients == Permutations({c1, c2, c3})
=============================================================================
