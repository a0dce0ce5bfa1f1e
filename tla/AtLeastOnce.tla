----------------------------- MODULE AtLeastOnce -----------------------------
(***************************************************************************)
(* What a queue with lanes promises to producers and consumers             *)
(* (docs/architecture.md:81, "At-Least-Once Delivery"): a message is there *)
(* to be delivered, or out with a consumer, until it is acknowledged in    *)
(* time; one that is not acknowledged comes back.  The messages of a lane  *)
(* are delivered for the first time in the order they were published.      *)
(***************************************************************************)
EXTENDS Naturals

CONSTANTS
    Id,             \* message ids, numbers in the order of publication
    Lane            \* lanes

VARIABLES
    lane,           \* the lane of every published message
    status,         \* where each message is
    delivered,      \* the messages delivered at least once
    confirmed       \* the messages whose acknowledgement was accepted

vars == <<lane, status, delivered, confirmed>>

Published == {m \in Id : status[m] # "absent"}

Init ==
    /\ lane = [m \in {} |-> m]
    /\ status = [m \in Id |-> "absent"]
    /\ delivered = {}
    /\ confirmed = {}

Becomes(m, st) == status' = [status EXCEPT ![m] = st]

Publish(m, l) ==
    /\ status[m] = "absent"
    /\ \A k \in Published : k < m
    /\ lane' = [k \in Published \cup {m} |-> IF k = m THEN l ELSE lane[k]]
    /\ Becomes(m, "ready")
    /\ UNCHANGED <<delivered, confirmed>>

\* What came back goes first; the others follow in order.
IsNext(m) ==
    \A k \in Id : status[k] = "ready" /\ lane[k] = lane[m] =>
        m \in delivered \/ (k \notin delivered /\ m <= k)

Deliver(m) ==
    /\ status[m] = "ready"
    /\ IsNext(m)
    /\ Becomes(m, "out")
    /\ delivered' = delivered \cup {m}
    /\ UNCHANGED <<lane, confirmed>>

ComesBack(m) ==
    /\ status[m] = "out"
    /\ Becomes(m, "ready")
    /\ UNCHANGED <<lane, delivered, confirmed>>

Settle(m) ==
    /\ status[m] = "out"
    /\ Becomes(m, "settled")
    /\ confirmed' = confirmed \cup {m}
    /\ UNCHANGED <<lane, delivered>>

\* An acknowledgement after the time is accepted and changes nothing else.
ConfirmLate(m) ==
    /\ m \in delivered
    /\ status[m] \in {"ready", "out"}
    /\ confirmed' = confirmed \cup {m}
    /\ UNCHANGED <<lane, status, delivered>>

Next ==
    \E m \in Id :
        \/ \E l \in Lane : Publish(m, l)
        \/ Deliver(m) \/ ComesBack(m) \/ Settle(m) \/ ConfirmLate(m)

Spec == Init /\ [][Next]_vars
=============================================================================
