---------------------------- MODULE RaftRestart ----------------------------
(***************************************************************************)
(* Raft with nodes that crash and are started again.  RaftNode keeps       *)
(* current_term, voted_for and log in attributes only and __init__ resets  *)
(* them all, so a restarted node remembers nothing of its earlier life.    *)
(* Its unfinished coroutines and the requests it had not read die with it. *)
(***************************************************************************)
EXTENDS Raft

CONSTANT MaxRestarts    \* bound: restarts of all nodes together

ASSUME RestartAssumption == MaxRestarts \in Nat

VARIABLE restarts       \* how many restarts there were; for the bound only

RestartInit == Init /\ restarts = 0

\* The elements of the bag that satisfy no condition on the crashed node stay.
KeepTasks(n) == [b \in {x \in DOMAIN tasks : x.from # n} |-> tasks[b]]
KeepNetwork(n) == [m \in {x \in DOMAIN network : x.body.to # n} |-> network[m]]

\* __init__ and start() of the new process.
Restart(n) ==
    /\ restarts < MaxRestarts
    /\ restarts' = restarts + 1
    /\ state' = [state EXCEPT ![n] = "follower"]
    /\ current_term' = [current_term EXCEPT ![n] = 0]
    /\ voted_for' = [voted_for EXCEPT ![n] = None]
    /\ votes_received' = [votes_received EXCEPT ![n] = {}]
    /\ leader_id' = [leader_id EXCEPT ![n] = None]
    /\ log' = [log EXCEPT ![n] = <<>>]
    /\ loops' = [loops EXCEPT ![n] = "on"]
    /\ tasks' = KeepTasks(n)
    /\ network' = KeepNetwork(n)
    /\ UNCHANGED historyVars

RestartNext ==
    \/ Next /\ UNCHANGED restarts
    \/ \E n \in Node : Restart(n)

RestartSpec == RestartInit /\ [][RestartNext]_<<vars, restarts>>
=============================================================================
