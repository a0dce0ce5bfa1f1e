----------------------------- MODULE LeaseTable ------------------------------
(***************************************************************************)
(* What a table of exclusive leases promises to its clients: a resource    *)
(* has one owner at most, only the owner is told that it has it, and when  *)
(* the lease ends, by release or by expiry, nobody believes to have it any *)
(* more before the next owner is told.                                     *)
(***************************************************************************)
CONSTANTS
    Client,         \* client ids
    Resource        \* resource ids

VARIABLES
    owner,          \* the owner of each resource, as a set of one or none
    told            \* the clients that were told they have a resource

vars == <<owner, told>>

Init ==
    /\ owner = [r \in Resource |-> {}]
    /\ told = [r \in Resource |-> {}]

\* A free resource gets an owner, who is told at once.
Take(r, c) ==
    /\ owner[r] = {}
    /\ owner' = [owner EXCEPT ![r] = {c}]
    /\ told' = [told EXCEPT ![r] = {c}]

\* The owner is told, or told again.
Tell(r) ==
    /\ owner[r] # {}
    /\ told' = [told EXCEPT ![r] = owner[r]]
    /\ UNCHANGED owner

\* The lease ends and the resource becomes free or passes on.
End(r, next) ==
    /\ owner[r] # {}
    /\ owner' = [owner EXCEPT ![r] = next]
    /\ told' = [told EXCEPT ![r] = {}]

Next ==
    \E r \in Resource :
        \/ \E c \in Client : Take(r, c) \/ End(r, {c})
        \/ Tell(r)
        \/ End(r, {})

Spec == Init /\ [][Next]_vars
=============================================================================
