------------------------------- MODULE MCCache ------------------------------
(* Instances of Cache for TLC. *)
EXTENDS Cache, TLC

CONSTANTS a1, a2, a3, a4, x, y

Addresses == Permutations({a1, a2, a3, a4})
Values == Permutations({x, y})
=============================================================================
