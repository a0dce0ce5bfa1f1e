-------------------------- MODULE OrderedSequences --------------------------
(* Sequences that hold an element at most once: queues and orders of use. *)
EXTENDS Naturals, Sequences

Elements(s) == {s[i] : i \in DOMAIN s}
Increasing(s) == \A i, j \in DOMAIN s : i < j => s[i] < s[j]

\* Sequence s with e, which is in it at most once, filtered out.
Without(s, e) ==
    LET at == {i \in 1..Len(s) : s[i] = e}
        i == CHOOSE j \in at : TRUE
    IN  IF at = {} THEN s ELSE SubSeq(s, 1, i - 1) \o SubSeq(s, i + 1, Len(s))
=============================================================================
