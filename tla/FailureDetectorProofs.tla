------------------------- MODULE FailureDetectorProofs -------------------------
(* Theorems about FailureDetector, for any nodes and peers. *)
EXTENDS FailureDetector, TLAPS

\* A detector only ever marks its own peers, and a heartbeat is only under way
\* to a peer of its sender.
DetectorInv ==
    /\ TypeOK
    /\ \A n \in Node : recent[n] \subseteq Peers[n]
    /\ \A s \in sending : s.to \in Peers[s.from]

LEMMA DetectorInit == Init => DetectorInv
BY PeersAssumption DEF Init, DetectorInv, TypeOK

LEMMA MarkedFacts ==
    ASSUME DetectorInv, NEW n \in Node, NEW p \in Node
    PROVE  /\ Marked(n, p) \in [Node -> SUBSET Node]
           /\ \A m \in Node : Marked(n, p)[m] \subseteq Peers[m]
BY PeersAssumption DEF Marked, DetectorInv, TypeOK

LEMMA AtFacts ==
    ASSUME NEW n, NEW p, NEW st
    PROVE  At(n, p, st).from = n /\ At(n, p, st).to = p /\ At(n, p, st).stage = st
BY DEF At

LEMMA DetectorNext == DetectorInv /\ [Next]_vars => DetectorInv'
<1> SUFFICES ASSUME DetectorInv, [Next]_vars PROVE DetectorInv'
  OBVIOUS
<1>1. ASSUME NEW n \in Node, HeartbeatSender(n)
      PROVE  DetectorInv'
  <2>1. \A p \in Peers[n] : p \in Node /\ At(n, p, "connecting") \in [from : up, to : Node, stage : Stage]
    BY <1>1, PeersAssumption DEF HeartbeatSender, DetectorInv, TypeOK, At, Stage
  <2> QED
    BY <1>1, <2>1, AtFacts DEF HeartbeatSender, Targets, DetectorInv, TypeOK
<1>2. ASSUME NEW l \in Link, Write(l.from, l.to)
      PROVE  DetectorInv'
  <2>1. l.from \in Node /\ l.to \in Peers[l.from] /\ To(l.from, l.to) = l
    BY DEF Link, To
  <2>2. At(l.from, l.to, "connecting") \in [from : up, to : Node, stage : Stage]
    BY <1>2 DEF Write, DetectorInv, TypeOK
  <2>3. At(l.from, l.to, "written") \in [from : up, to : Node, stage : Stage]
    BY <2>2 DEF At, Stage
  <2> QED
    BY <1>2, <2>1, <2>3, AtFacts DEF Write, DetectorInv, TypeOK
<1>3. ASSUME NEW l \in Link, MarkAlive(l.from, l.to) \/ Ignore(l.from, l.to)
      PROVE  DetectorInv'
  <2>1. l.from \in Node /\ l.to \in Node
    BY DEF Link
  <2>2. sending' \subseteq sending /\ UNCHANGED <<up, running, connections>>
    BY <1>3 DEF MarkAlive, Ignore
  <2>3. recent' = recent \/ recent' = Marked(l.from, l.to)
    BY <1>3 DEF MarkAlive, Ignore
  <2> QED
    BY <2>1, <2>2, <2>3, MarkedFacts DEF DetectorInv, TypeOK
<1>4. ASSUME NEW l \in Link, HandleHeartbeat(l.from, l.to)
      PROVE  DetectorInv'
  <2>1. l.from \in Node /\ l.to \in Node
    BY DEF Link
  <2>2. connections' \subseteq connections /\ UNCHANGED <<up, running, sending>>
    BY <1>4 DEF HandleHeartbeat
  <2>3. recent' = recent \/ recent' = Marked(l.to, l.from)
    BY <1>4 DEF HandleHeartbeat
  <2> QED
    BY <2>1, <2>2, <2>3, MarkedFacts DEF DetectorInv, TypeOK
<1>5. ASSUME NEW l \in Link, GrowOld(l.from, l.to)
      PROVE  DetectorInv'
  BY <1>5 DEF GrowOld, DetectorInv, TypeOK
<1>6. ASSUME NEW n \in Node, Stop(n)
      PROVE  DetectorInv'
  BY <1>6 DEF Stop, DetectorInv, TypeOK
<1>7. ASSUME NEW n \in Node, Crash(n)
      PROVE  DetectorInv'
  <2>1. ASSUME NEW s \in sending'
        PROVE  s \in [from : up', to : Node, stage : Stage] /\ s.to \in Peers[s.from]
    BY <1>7, <2>1 DEF Crash, DetectorInv, TypeOK
  <2> QED
    BY <1>7, <2>1 DEF Crash, DetectorInv, TypeOK
<1>8. ASSUME NEW n \in Node, Start(n)
      PROVE  DetectorInv'
  <2>1. ASSUME NEW s \in sending'
        PROVE  s \in [from : up', to : Node, stage : Stage] /\ s.to \in Peers[s.from]
    BY <1>8, <2>1 DEF Start, DetectorInv, TypeOK
  <2>2. recent' \in [Node -> SUBSET Node] /\ \A m \in Node : recent'[m] \subseteq Peers[m]
    BY <1>8, PeersAssumption DEF Start, DetectorInv, TypeOK
  <2> QED
    BY <1>8, <2>1, <2>2 DEF Start, DetectorInv, TypeOK
<1>9. CASE UNCHANGED vars
  BY <1>9 DEF vars, DetectorInv, TypeOK
<1> QED
  BY <1>1, <1>2, <1>3, <1>4, <1>5, <1>6, <1>7, <1>8, <1>9 DEF Next, Coroutine

\* Through any crashes and restarts, coroutines and running detectors belong to
\* processes that run, heartbeats go to peers of their senders, and a detector
\* marks nobody but its peers.
THEOREM DetectorsAreSound == Spec => []DetectorInv
BY DetectorInit, DetectorNext, PTL DEF Spec

-----------------------------------------------------------------------------
(***************************************************************************)
(* What is left of a peer that died: the coroutine that had written to it, *)
(* and the heartbeat it had written itself and that is not yet read.  No   *)
(* coroutine that still connects leaves a trace, for nobody accepts its    *)
(* connection, and the coroutines of the dead process are gone.            *)
(***************************************************************************)
Traces(l) ==
    {s \in sending : s = At(l.from, l.to, "written")}
        \cup {c \in connections : c = To(l.to, l.from)}

\* While a peer is down its traces at a detector that runs only grow fewer,
\* and each time it is taken for alive again a trace of its lifetime is spent.
\* When they are spent and its last_heartbeat is old, it stays old until the
\* peer or the detector starts again.
DeadPeersFade ==
    [][\A l \in Link :
         l.from \in up /\ l.to \notin up /\ l.to \notin up' =>
            /\ Traces(l)' \subseteq Traces(l)
            /\ l.to \in recent'[l.from] \ recent[l.from] => Traces(l)' # Traces(l)]_vars

\* A step of any node, while the peer is down and the detector's process runs.
LEMMA FadeNext ==
    ASSUME DetectorInv, Next, NEW l \in Link,
           l.from \in up, l.to \notin up, l.to \notin up'
    PROVE  /\ Traces(l)' \subseteq Traces(l)
           /\ l.to \in recent'[l.from] \ recent[l.from] => Traces(l)' # Traces(l)
<1> DEFINE w == At(l.from, l.to, "written")
           h == To(l.to, l.from)
           n == l.from
           p == l.to
<1>1. /\ n \in Node /\ p \in Node /\ n # p
      /\ w.from = n /\ w.to = p /\ w.stage = "written"
      /\ h.from = p /\ h.to = n
  BY AtFacts DEF Link, To
<1>2. recent \in [Node -> SUBSET Node]
  BY DEF DetectorInv, TypeOK
<1>3. /\ \A s \in sending : s.from \in up
      /\ Traces(l) = {s \in sending : s = w} \cup {c \in connections : c = h}
      /\ Traces(l)' = {s \in sending' : s = w} \cup {c \in connections' : c = h}
  BY DEF DetectorInv, TypeOK, Traces
\* The traces are a coroutine and a heartbeat, which are different things.
<1>4. w # h
  <2>1. DOMAIN w = {"from", "to", "stage"} /\ DOMAIN h = {"from", "to"}
    BY DEF At, To
  <2> QED
    BY <2>1
<1>5. (w \in Traces(l) <=> w \in sending) /\ (w \in Traces(l)' <=> w \in sending')
  BY <1>3, <1>4
<1>6. (h \in Traces(l) <=> h \in connections) /\ (h \in Traces(l)' <=> h \in connections')
  BY <1>3, <1>4
<1> HIDE DEF w, h, n, p
\* It is enough to look at the two of them.
<1>7. SUFFICES /\ w \in sending' => w \in sending
               /\ h \in connections' => h \in connections
               /\ p \in recent'[n] \ recent[n] =>
                     \/ w \in sending /\ w \notin sending'
                     \/ h \in connections /\ h \notin connections'
  <2>1. ASSUME w \in sending' => w \in sending, h \in connections' => h \in connections
        PROVE  Traces(l)' \subseteq Traces(l)
    BY <1>3, <2>1
  <2> QED
    BY <1>5, <1>6, <2>1 DEF n, p
<1>8. ASSUME NEW m \in Node, HeartbeatSender(m)
      PROVE  UNCHANGED <<connections, recent>> /\ (w \in sending' => w \in sending)
  BY <1>1, <1>8, AtFacts DEF HeartbeatSender
<1>9. ASSUME NEW m \in Node, Stop(m) \/ Crash(m)
      PROVE  recent' = recent /\ sending' \subseteq sending /\ connections' \subseteq connections
  BY <1>9 DEF Stop, Crash
<1>10. ASSUME NEW m \in Node, Start(m)
       PROVE  UNCHANGED <<sending, connections>> /\ recent'[n] = recent[n]
  <2>1. m # n
    BY <1>10 DEF Start, n
  <2> QED
    BY <1>1, <1>2, <1>10, <2>1 DEF Start
<1>11. ASSUME NEW k \in Link, Write(k.from, k.to)
       PROVE  /\ recent' = recent
              /\ w \in sending' => w \in sending
              /\ h \in connections' => h \in connections
  <2>1. k.to \in up /\ At(k.from, k.to, "connecting") \in sending
    BY <1>11 DEF Write
  <2>2. k.from \in up
    BY <1>3, <2>1, AtFacts
  <2>3. At(k.from, k.to, "written") # w /\ To(k.from, k.to) # h
    <3>1. To(k.from, k.to).from = k.from
      BY DEF To
    <3> QED
      BY <1>1, <2>1, <2>2, <3>1, AtFacts DEF p
  <2> QED
    BY <1>11, <2>3 DEF Write
<1>12. ASSUME NEW k \in Link, MarkAlive(k.from, k.to)
       PROVE  /\ sending' \subseteq sending /\ connections' = connections
              /\ p \in recent'[n] \ recent[n] => w \in sending /\ w \notin sending'
  <2>1. /\ At(k.from, k.to, "written") \in sending
        /\ sending' = sending \ {At(k.from, k.to, "written")}
        /\ recent' = Marked(k.from, k.to) /\ connections' = connections
    BY <1>12 DEF MarkAlive
  <2>2. p \in recent'[n] \ recent[n] => k.from = n /\ k.to = p
    BY <1>1, <1>2, <2>1 DEF Marked
  <2>3. k.from = n /\ k.to = p => At(k.from, k.to, "written") = w
    BY DEF w, n, p
  <2> QED
    BY <2>1, <2>2, <2>3
<1>13. ASSUME NEW k \in Link, Ignore(k.from, k.to)
       PROVE  sending' \subseteq sending /\ UNCHANGED <<connections, recent>>
  BY <1>13 DEF Ignore
<1>14. ASSUME NEW k \in Link, HandleHeartbeat(k.from, k.to)
       PROVE  /\ sending' = sending /\ connections' \subseteq connections
              /\ p \in recent'[n] \ recent[n] => h \in connections /\ h \notin connections'
  <2>1. /\ To(k.from, k.to) \in connections
        /\ connections' = connections \ {To(k.from, k.to)}
        /\ recent' = recent \/ recent' = Marked(k.to, k.from)
        /\ sending' = sending
    BY <1>14 DEF HandleHeartbeat
  <2>2. p \in recent'[n] \ recent[n] => k.to = n /\ k.from = p
    BY <1>1, <1>2, <2>1 DEF Marked
  <2>3. k.to = n /\ k.from = p => To(k.from, k.to) = h
    BY DEF h, n, p
  <2> QED
    BY <2>1, <2>2, <2>3
<1>15. ASSUME NEW k \in Link, GrowOld(k.from, k.to)
       PROVE  UNCHANGED <<sending, connections>> /\ recent'[n] \subseteq recent[n]
  BY <1>1, <1>2, <1>15 DEF GrowOld
<1> QED
  BY <1>8, <1>9, <1>10, <1>11, <1>12, <1>13, <1>14, <1>15 DEF Next, Coroutine

\* No detector takes a dead peer for alive for ever: through any crashes and
\* restarts, only what was under way when the peer died can still mark it.
THEOREM DeadPeersAreForgotten == Spec => DeadPeersFade
<1>1. ASSUME DetectorInv, [Next]_vars
      PROVE  [\A l \in Link :
                l.from \in up /\ l.to \notin up /\ l.to \notin up' =>
                   /\ Traces(l)' \subseteq Traces(l)
                   /\ l.to \in recent'[l.from] \ recent[l.from] => Traces(l)' # Traces(l)]_vars
  BY <1>1, FadeNext
<1> QED
  BY <1>1, DetectorsAreSound, PTL DEF Spec, DeadPeersFade
=============================================================================
