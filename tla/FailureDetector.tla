---------------------------- MODULE FailureDetector ----------------------------
(***************************************************************************)
(* FailureDetector of src/communication/failure_detector.py on every node, *)
(* and the fd_heartbeat branch of NodeServer in nodes/__main__.py.  A node *)
(* sends a heartbeat to each peer again and again, one coroutine for each. *)
(* A peer counts as heard of when such a coroutine ends well, and when a   *)
(* heartbeat is received whose sender is the name of a peer.  Nodes crash  *)
(* and start again without a bound.                                        *)
(*                                                                         *)
(* is_alive is TRUE of every peer for ever, and suspected_nodes and        *)
(* dead_nodes are empty for ever: no method makes them anything else.      *)
(* What tells a peer that answers from one that does not is the age of     *)
(* last_heartbeat; here it is recent or not.                               *)
(***************************************************************************)
CONSTANTS
    Node,           \* nodes
    Peers,          \* PEERS of each node
    NamesItself     \* the nodes whose NODE_ID is what their peers call them

ASSUME PeersAssumption == Peers \in [Node -> SUBSET Node] /\ NamesItself \subseteq Node

VARIABLES
    up,             \* the nodes whose process runs
    running,        \* the nodes whose _running is set
    sending,        \* the coroutines of _send_heartbeat, by sender, peer and stage
    connections,    \* heartbeats that were written and not yet read
    recent          \* recent[n]: the peers whose last_heartbeat is recent at n

vars == <<up, running, sending, connections, recent>>

Link == {l \in [from : Node, to : Node] : l.to \in Peers[l.from]}

\* Coroutines of one node for one peer do not differ but in their stage.
Stage == {"connecting", "written"}

At(n, p, stage) == [from |-> n, to |-> p, stage |-> stage]
To(n, p) == [from |-> n, to |-> p]

Init ==
    /\ up = Node
    /\ running = {n \in Node : Peers[n] # {}}
    /\ sending = {}
    /\ connections = {}
    /\ recent = Peers

-----------------------------------------------------------------------------
(* Sending *)

OnlyTheRecent(n) == recent[n]
\* _heartbeat_sender goes through all the peers.
Targets(n) == Peers[n]

HeartbeatSender(n) ==
    /\ n \in running
    /\ sending' = sending \cup {At(n, p, "connecting") : p \in Targets(n)}
    /\ UNCHANGED <<up, running, connections, recent>>

\* The connection opens, and the heartbeat is written.
Write(n, p) ==
    /\ At(n, p, "connecting") \in sending
    /\ p \in up
    /\ sending' = (sending \ {At(n, p, "connecting")}) \cup {At(n, p, "written")}
    /\ connections' = connections \cup {To(n, p)}
    /\ UNCHANGED <<up, running, recent>>

\* _mark_alive sets last_heartbeat of one peer.
Marked(n, p) == [recent EXCEPT ![n] = @ \cup ({p} \cap Peers[n])]

MarkInAnyCase(n, p) ==
    /\ \E stage \in Stage :
           /\ At(n, p, stage) \in sending
           /\ sending' = sending \ {At(n, p, stage)}
    /\ recent' = Marked(n, p)
    /\ UNCHANGED <<up, running, connections>>
\* Any exception ends the coroutine: refused, too late, or reset.
Ignore(n, p) ==
    /\ \E stage \in Stage :
           /\ At(n, p, stage) \in sending
           /\ sending' = sending \ {At(n, p, stage)}
    /\ UNCHANGED <<up, running, connections, recent>>

\* The connection is closed, whether the heartbeat was read or not.
MarkAlive(n, p) ==
    /\ At(n, p, "written") \in sending
    /\ sending' = sending \ {At(n, p, "written")}
    /\ recent' = Marked(n, p)
    /\ UNCHANGED <<up, running, connections>>

-----------------------------------------------------------------------------
(* Receiving *)

\* NodeServer reads a heartbeat; handle_heartbeat looks its sender up under the
\* name the sender has for itself.
HandleHeartbeat(n, p) ==
    /\ To(n, p) \in connections
    /\ connections' = connections \ {To(n, p)}
    /\ recent' = IF n \in NamesItself THEN Marked(p, n) ELSE recent
    /\ UNCHANGED <<up, running, sending>>

\* last_heartbeat of a peer grows old.
GrowOld(n, p) ==
    /\ p \in recent[n]
    /\ recent' = [recent EXCEPT ![n] = @ \ {p}]
    /\ UNCHANGED <<up, running, sending, connections>>

-----------------------------------------------------------------------------
(* Processes *)

Stop(n) ==
    /\ n \in running
    /\ running' = running \ {n}
    /\ UNCHANGED <<up, sending, connections, recent>>

\* The coroutines of a process die with it, and so does what it has not read.
\* What it has written can still be read.
Crash(n) ==
    /\ n \in up
    /\ up' = up \ {n}
    /\ running' = running \ {n}
    /\ sending' = {s \in sending : s.from # n}
    /\ connections' = {c \in connections : c.to # n}
    /\ UNCHANGED recent

\* A new detector takes all its peers for alive.
Start(n) ==
    /\ n \notin up
    /\ up' = up \cup {n}
    /\ running' = IF Peers[n] = {} THEN running ELSE running \cup {n}
    /\ recent' = [recent EXCEPT ![n] = Peers[n]]
    /\ UNCHANGED <<sending, connections>>

-----------------------------------------------------------------------------
Coroutine(n, p) == Write(n, p) \/ MarkAlive(n, p) \/ Ignore(n, p)

Next ==
    \/ \E n \in Node : HeartbeatSender(n) \/ Stop(n) \/ Crash(n) \/ Start(n)
    \/ \E l \in Link : Coroutine(l.from, l.to) \/ HandleHeartbeat(l.from, l.to)
    \/ \E l \in Link : GrowOld(l.from, l.to)

\* The loop of a running detector goes on, every await of a coroutine ends, what
\* a process can read it reads, and time passes.
Fairness ==
    /\ \A n \in Node : WF_vars(HeartbeatSender(n))
    /\ \A l \in Link :
        /\ WF_vars(Coroutine(l.from, l.to))
        /\ WF_vars(HandleHeartbeat(l.from, l.to))
        /\ WF_vars(GrowOld(l.from, l.to))

\* Connections between processes that run open and close without an exception
\* now and then, if they are tried again and again.
Reachable(n, p) == SF_vars(Write(n, p)) /\ SF_vars(MarkAlive(n, p))

Spec == Init /\ [][Next]_vars /\ Fairness /\ \A l \in Link : Reachable(l.from, l.to)

-----------------------------------------------------------------------------
(* Properties *)

\* Coroutines and set _running flags belong to processes that run.
TypeOK ==
    /\ up \subseteq Node
    /\ running \subseteq up
    /\ sending \subseteq [from : up, to : Node, stage : Stage]
    /\ connections \subseteq Link
    /\ recent \in [Node -> SUBSET Node]

\* If a peer runs from some time on, a detector that runs hears of it again and
\* again, whatever happened to both before and to the other peers meanwhile.
LivePeersStayRecent ==
    \A l \in Link :
        <>[](l.to \in up /\ l.from \in running) => []<>(l.to \in recent[l.from])

\* If a peer is down from some time on, its last_heartbeat grows old everywhere
\* and stays so: the coroutines and heartbeats of its lifetime do not keep it
\* recent.
DeadPeersGrowOld ==
    \A l \in Link : <>[](l.to \notin up /\ l.from \in up) => <>[](l.to \notin recent[l.from])
=============================================================================
