----------------------------- MODULE TermLeaders -----------------------------
(***************************************************************************)
(* What leader election promises to those who use it: every term has one   *)
(* leader at most, only leaders of a term write entries of that term, and  *)
(* whoever is reported as leader has won an election.                      *)
(***************************************************************************)
EXTENDS Naturals, Sequences

CONSTANTS
    Node,           \* the cluster members
    None            \* no leader known

VARIABLES
    winners,        \* <<node, term>> for every election won
    reported,       \* the leader each node reports
    entries         \* the terms of the entries each node wrote

vars == <<winners, reported, entries>>

Init ==
    /\ winners = {}
    /\ reported = [n \in Node |-> None]
    /\ entries = [n \in Node |-> <<>>]

\* w is a new pair: its term had no other winner.
Win(w) ==
    /\ w[1] \in Node /\ w[2] \in Nat
    /\ \A v \in winners : v[2] = w[2] => v[1] = w[1]
    /\ winners' = winners \cup {w}
    /\ reported' = [reported EXCEPT ![w[1]] = w[1]]
    /\ UNCHANGED entries

Learn(n, w) ==
    /\ reported' = [reported EXCEPT ![n] = w[1]]
    /\ UNCHANGED <<winners, entries>>

Write(w) ==
    /\ \A i \in DOMAIN entries[w[1]] : entries[w[1]][i] <= w[2]
    /\ entries' = [entries EXCEPT ![w[1]] = Append(@, w[2])]
    /\ UNCHANGED <<winners, reported>>

Next ==
    \/ \E w \in winners' \ winners : Win(w)
    \/ \E w \in winners : Write(w) \/ \E n \in Node : Learn(n, w)

Spec == Init /\ [][Next]_vars
=============================================================================
