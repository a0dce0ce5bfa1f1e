----------------------------- MODULE RaftProofs -----------------------------
(* Theorems about Raft, for every cluster and every bound. *)
EXTENDS Raft, TLAPS, FiniteSetTheorems

\* Adding a set to a bag adds exactly its members.
LEMMA BagAdd ==
    ASSUME NEW B, IsABag(B), NEW S
    PROVE  /\ IsABag(B (+) SetToBag(S))
           /\ BagToSet(B (+) SetToBag(S)) = BagToSet(B) \cup S
<1> DEFINE C == B (+) SetToBag(S)
<1>1. DOMAIN C = DOMAIN B \cup S
  BY DEF SetToBag, (+)
<1>2. \A e \in DOMAIN C : C[e] \in Nat /\ C[e] > 0
  BY DEF SetToBag, (+), IsABag
<1>3. C = [e \in DOMAIN C |-> C[e]]
  BY DEF (+)
<1> QED
  BY <1>1, <1>2, <1>3 DEF IsABag, BagToSet

\* Removing one copy of an element adds nothing.
LEMMA BagRemove ==
    ASSUME NEW B, IsABag(B), NEW x
    PROVE  /\ IsABag(B (-) SetToBag({x}))
           /\ BagToSet(B (-) SetToBag({x})) \subseteq BagToSet(B)
<1> DEFINE C == B (-) SetToBag({x})
<1>1. DOMAIN C \subseteq DOMAIN B
  BY DEF SetToBag, (-)
<1>2. \A e \in DOMAIN C : C[e] \in Nat /\ C[e] > 0
  BY DEF SetToBag, (-), IsABag
<1>3. C = [e \in DOMAIN C |-> C[e]]
  BY DEF (-)
<1> QED
  BY <1>1, <1>2, <1>3 DEF IsABag, BagToSet

-----------------------------------------------------------------------------
(* Types *)

\* What the coroutines a handler spawns look like.
LEMMA VoteRequestType ==
    ASSUME NEW n \in Node, NEW p \in Peers(n), NEW i \in Nat, NEW t \in Nat
    PROVE  VoteRequest(n, p, i, t) \in Task
BY DEF VoteRequest, Task, Peers

LEMMA HeartbeatType ==
    ASSUME NEW n \in Node, NEW p \in Peers(n)
    PROVE  Heartbeat(n, p) \in Task
BY DEF Heartbeat, Task, Peers

LEMMA VoteResponseType ==
    ASSUME NEW n \in Node, NEW p \in Peers(n), NEW g \in BOOLEAN
    PROVE  VoteResponse(n, p, g) \in Task
BY DEF VoteResponse, Task, Peers

LEMMA LastTermType ==
    ASSUME NEW s \in Seq(Nat)
    PROVE  LastTerm(s) \in Nat /\ Len(s) \in Nat
<1>1. CASE s = <<>>
  BY <1>1 DEF LastTerm
<1>2. CASE s # <<>>
  <2>1. Len(s) \in 1..Len(s)
    BY <1>2
  <2> QED
    BY <1>2, <2>1 DEF LastTerm
<1> QED
  BY <1>1, <1>2

\* What the prologue of handle_message makes of term, state and vote.
LEMMA PrologueType ==
    ASSUME TypeOK, NEW n \in Node, NEW t \in Nat
    PROVE  /\ TermAfter(n, t) \in Nat
           /\ TermAfter(n, t) >= current_term[n]
           /\ TermAfter(n, t) >= t
           /\ StateAfter(n, t) \in RaftState
           /\ VoteAfter(n, t) \in Node \cup {None}
BY DEF TypeOK, TermAfter, StateAfter, VoteAfter, RaftState

\* The end points and the term of a message.
LEMMA MessageType ==
    ASSUME NEW m \in Message
    PROVE  /\ m.term \in Nat
           /\ m.body \in Task
           /\ m.body.to \in Node
           /\ m.body.from \in Peers(m.body.to)
           /\ m.body.kind = "vote_response" => m.body.granted \in BOOLEAN
           /\ m.body.kind = "request_vote" =>
                m.body.last_idx \in Nat /\ m.body.last_term \in Nat
BY DEF Message, Task, Peers

LEMMA TypeInit == Init => TypeOK
<1> SUFFICES ASSUME Init PROVE TypeOK
  OBVIOUS
<1>1. IsABag(EmptyBag) /\ BagToSet(EmptyBag) = {}
  BY DEF EmptyBag, SetToBag, IsABag, BagToSet
<1> QED
  BY <1>1 DEF Init, TypeOK, RaftState

LEMMA TypeNext == TypeOK /\ [Next]_vars => TypeOK'
<1> SUFFICES ASSUME TypeOK, [Next]_vars PROVE TypeOK'
  OBVIOUS
<1> USE DEF TypeOK
<1>1. CASE UNCHANGED vars
  BY <1>1 DEF vars, serverVars, historyVars
<1>2. ASSUME NEW n \in Node, Stop(n) PROVE TypeOK'
  BY <1>2 DEF Stop, serverVars, historyVars
<1>3. ASSUME NEW n \in Node, StartElection(n) PROVE TypeOK'
  <2> DEFINE S == {VoteRequest(n, p, Len(log[n]), LastTerm(log[n])) : p \in Peers(n)}
  <2>1. S \subseteq Task
    BY LastTermType, VoteRequestType
  <2>2. IsABag(tasks') /\ BagToSet(tasks') = BagToSet(tasks) \cup S
    BY <1>3, BagAdd DEF StartElection, Spawn
  <2>3. /\ state' \in [Node -> RaftState]
        /\ current_term' \in [Node -> Nat]
        /\ voted_for' \in [Node -> Node \cup {None}]
        /\ votes_received' \in [Node -> SUBSET Node]
        /\ votes_cast' \subseteq Node \X Nat \X Node
    BY <1>3 DEF StartElection, RaftState
  <2> QED
    BY <1>3, <2>1, <2>2, <2>3 DEF StartElection
<1>4. ASSUME NEW n \in Node, HeartbeatLoop(n) PROVE TypeOK'
  <2> DEFINE S == {Heartbeat(n, p) : p \in Peers(n)}
  <2>1. S \subseteq Task
    BY HeartbeatType
  <2>2. IsABag(tasks') /\ BagToSet(tasks') = BagToSet(tasks) \cup S
    BY <1>4, BagAdd DEF HeartbeatLoop, Spawn
  <2>3. loops' \in [Node -> {"on", "last", "off"}]
    BY <1>4 DEF HeartbeatLoop
  <2> QED
    BY <1>4, <2>1, <2>2, <2>3 DEF HeartbeatLoop, serverVars, historyVars
<1>5. ASSUME NEW b \in BagToSet(tasks), Transmit(b) PROVE TypeOK'
  <2> DEFINE m == [term |-> current_term[b.from], body |-> b]
  <2>1. m \in Message
    BY DEF Message, Task
  <2>2. IsABag(tasks') /\ BagToSet(tasks') \subseteq BagToSet(tasks)
    BY <1>5, BagRemove DEF Transmit
  <2>3. IsABag(network') /\ BagToSet(network') = BagToSet(network) \cup {m}
    BY <1>5, BagAdd DEF Transmit
  <2> QED
    BY <1>5, <2>1, <2>2, <2>3 DEF Transmit, serverVars, historyVars
<1>6. ASSUME NEW b \in BagToSet(tasks), ConnectFails(b) PROVE TypeOK'
  <2>1. IsABag(tasks') /\ BagToSet(tasks') \subseteq BagToSet(tasks)
    BY <1>6, BagRemove DEF ConnectFails
  <2> QED
    BY <1>6, <2>1 DEF ConnectFails, serverVars, historyVars
<1>7. ASSUME NEW m \in BagToSet(network), HandleVoteRequest(m) PROVE TypeOK'
  <2> DEFINE n == m.body.to
             granted == TermOk(n, m.term, m.body.from) /\ LogOk(n, m.body)
  <2>1. m \in Message /\ n \in Node /\ m.body.from \in Peers(n)
    BY MessageType
  <2>2. IsABag(network') /\ BagToSet(network') \subseteq BagToSet(network)
    BY <1>7, BagRemove DEF HandleVoteRequest
  <2>3. granted \in BOOLEAN
    BY DEF TermOk, LogOk
  <2>4. VoteResponse(n, m.body.from, granted) \in Task
    BY <2>1, <2>3, VoteResponseType
  <2>5. /\ IsABag(tasks')
        /\ BagToSet(tasks') = BagToSet(tasks) \cup {VoteResponse(n, m.body.from, granted)}
    BY <1>7, BagAdd DEF HandleVoteRequest, Spawn
  <2>6. m.term \in Nat /\ m.body.from \in Node
    BY <2>1, MessageType DEF Peers
  <2>7. /\ state' \in [Node -> RaftState]
        /\ current_term' \in [Node -> Nat]
    <3>1. StateAfter(n, m.term) \in RaftState /\ TermAfter(n, m.term) \in Nat
      BY <2>1, <2>6, PrologueType
    <3> QED
      BY <1>7, <2>1, <3>1 DEF HandleVoteRequest
  <2>8. voted_for' \in [Node -> Node \cup {None}]
    <3>1. VoteAfter(n, m.term) \in Node \cup {None}
      BY <2>1, <2>6, PrologueType
    <3> QED
      BY <1>7, <2>1, <2>6, <3>1 DEF HandleVoteRequest
  <2>9. votes_cast' \subseteq Node \X Nat \X Node
    BY <1>7, <2>1, <2>6 DEF HandleVoteRequest
  <2> QED
    BY <1>7, <2>2, <2>4, <2>5, <2>7, <2>8, <2>9 DEF HandleVoteRequest
<1>8. ASSUME NEW m \in BagToSet(network), HandleVoteResponse(m) PROVE TypeOK'
  <2> DEFINE n == m.body.to
             S == {Heartbeat(n, p) : p \in Peers(n)}
  <2>1. m \in Message /\ n \in Node /\ m.body.from \in Node /\ m.term \in Nat
    BY MessageType DEF Peers
  <2>2. IsABag(network') /\ BagToSet(network') \subseteq BagToSet(network)
    BY <1>8, BagRemove DEF HandleVoteResponse
  <2>3. IsABag(Spawn(S)) /\ BagToSet(Spawn(S)) = BagToSet(tasks) \cup S
    BY BagAdd DEF Spawn
  <2>4. S \subseteq Task
    BY <2>1, HeartbeatType
  <2>5. IsABag(tasks') /\ BagToSet(tasks') \subseteq Task
    BY <1>8, <2>3, <2>4 DEF HandleVoteResponse
  <2>6. CountVote(n, m.body) \subseteq Node
    BY <2>1 DEF CountVote
  <2>7. state' \in [Node -> RaftState]
    <3>1. StateAfter(n, m.term) \in RaftState
      BY <2>1, PrologueType
    <3> QED
      BY <1>8, <2>1, <3>1 DEF HandleVoteResponse, RaftState
  <2>8. /\ current_term' \in [Node -> Nat]
        /\ voted_for' \in [Node -> Node \cup {None}]
        /\ votes_received' \in [Node -> SUBSET Node]
    BY <1>8, <2>1, <2>6, PrologueType DEF HandleVoteResponse
  <2>9. leader_id' \in [Node -> Node \cup {None}]
    BY <1>8, <2>1 DEF HandleVoteResponse
  <2>10. elected' \subseteq Node \X Nat
    <3>1. TermAfter(n, m.term) \in Nat
      BY <2>1, PrologueType
    <3> QED
      BY <1>8, <2>1, <3>1 DEF HandleVoteResponse
  <2> QED
    BY <1>8, <2>2, <2>5, <2>7, <2>8, <2>9, <2>10 DEF HandleVoteResponse
<1>9. ASSUME NEW m \in BagToSet(network), HandleHeartbeat(m) PROVE TypeOK'
  <2> DEFINE n == m.body.to
  <2>1. m \in Message /\ n \in Node /\ m.body.from \in Node /\ m.term \in Nat
    BY MessageType DEF Peers
  <2>2. IsABag(network') /\ BagToSet(network') \subseteq BagToSet(network)
    BY <1>9, BagRemove DEF HandleHeartbeat
  <2>3. /\ state' \in [Node -> RaftState]
        /\ current_term' \in [Node -> Nat]
        /\ voted_for' \in [Node -> Node \cup {None}]
        /\ leader_id' \in [Node -> Node \cup {None}]
    BY <1>9, <2>1, PrologueType
       DEF HandleHeartbeat, RaftState, VoteAfterHeartbeat, LeaderAfterHeartbeat
  <2> QED
    BY <1>9, <2>2, <2>3 DEF HandleHeartbeat, historyVars
<1>10. ASSUME NEW n \in Node, SubmitCommand(n) PROVE TypeOK'
  BY <1>10 DEF SubmitCommand, AppendEntry, serverVars, historyVars
<1> QED
  BY <1>1, <1>2, <1>3, <1>4, <1>5, <1>6, <1>7, <1>8, <1>9, <1>10
     DEF Next, LoopStep, TaskStep, HandlerStep,
         SendVoteRequest, SendHeartbeat, SendVoteResponse

\* Every variable keeps its type, and no node ever sends to itself.
THEOREM TypeCorrect == Spec => []TypeOK
BY TypeInit, TypeNext, PTL DEF Spec

-----------------------------------------------------------------------------
(* Votes *)

\* A step that casts no vote and does to one node at most what the prologue
\* does keeps the history and voted_for in agreement.
LEMMA PrologueKeepsVotes ==
    ASSUME TypeOK, VotesMatch, NEW n \in Node, NEW t \in Nat,
           votes_cast' = votes_cast,
           current_term' = [current_term EXCEPT ![n] = TermAfter(n, t)],
           voted_for' = [voted_for EXCEPT ![n] = VoteAfter(n, t)]
    PROVE  VotesMatch'
<1> SUFFICES ASSUME NEW x \in votes_cast
             PROVE  /\ x[2] <= current_term'[x[1]]
                    /\ x[2] = current_term'[x[1]] => voted_for'[x[1]] = x[3]
  BY DEF VotesMatch
<1>1. x[1] \in Node /\ x[2] \in Nat /\ x[2] <= current_term[x[1]]
  BY DEF TypeOK, VotesMatch
<1>2. current_term[n] \in Nat /\ current_term[x[1]] \in Nat
  BY <1>1 DEF TypeOK
<1>3. CASE x[1] # n
  BY <1>1, <1>3 DEF VotesMatch, TypeOK
<1>4. CASE x[1] = n
  <2>1. current_term'[n] = TermAfter(n, t) /\ voted_for'[n] = VoteAfter(n, t)
    BY DEF TypeOK
  <2>2. CASE t > current_term[n]
    BY <1>1, <1>2, <1>4, <2>1, <2>2 DEF TermAfter
  <2>3. CASE ~(t > current_term[n])
    BY <1>1, <1>2, <1>4, <2>1, <2>3 DEF TermAfter, VoteAfter, VotesMatch
  <2> QED
    BY <2>2, <2>3
<1> QED
  BY <1>3, <1>4

\* Voter v has cast no vote in a term after t, and none in t but for c.
MayCast(v, t, c) ==
    \A x \in votes_cast : x[1] = v => x[2] < t \/ (x[2] = t /\ x[3] = c)

\* A step that casts the vote <<v, t, c>> is safe when v cast no other vote in
\* t or later and its current_term and voted_for record the new vote.
LEMMA CastKeepsVotes ==
    ASSUME TypeOK, VotesMatch, VoteOncePerTerm,
           NEW v \in Node, NEW t \in Nat, NEW c \in Node,
           MayCast(v, t, c),
           votes_cast' = votes_cast \cup {<<v, t, c>>},
           current_term' = [current_term EXCEPT ![v] = t],
           voted_for' = [voted_for EXCEPT ![v] = c]
    PROVE  VotesMatch' /\ VoteOncePerTerm'
<1> USE DEF MayCast
<1>1. current_term'[v] = t /\ voted_for'[v] = c
  BY DEF TypeOK
<1>2. VotesMatch'
  <2> SUFFICES ASSUME NEW x \in votes_cast'
               PROVE  /\ x[2] <= current_term'[x[1]]
                      /\ x[2] = current_term'[x[1]] => voted_for'[x[1]] = x[3]
    BY DEF VotesMatch
  <2>1. CASE x = <<v, t, c>>
    BY <1>1, <2>1
  <2>2. CASE x \in votes_cast
    <3>1. x[1] \in Node /\ x[2] \in Nat
      BY <2>2 DEF TypeOK
    <3>2. CASE x[1] = v
      BY <1>1, <2>2, <3>1, <3>2
    <3>3. CASE x[1] # v
      BY <2>2, <3>1, <3>3 DEF VotesMatch, TypeOK
    <3> QED
      BY <3>2, <3>3
  <2> QED
    BY <2>1, <2>2
<1>3. VoteOncePerTerm'
  <2> SUFFICES ASSUME NEW x \in votes_cast', NEW y \in votes_cast',
                      x[1] = y[1], x[2] = y[2]
               PROVE  x[3] = y[3]
    BY DEF VoteOncePerTerm
  <2>1. \A z \in votes_cast : z[2] \in Nat
    BY DEF TypeOK
  <2>2. CASE x \in votes_cast /\ y \in votes_cast
    BY <2>2 DEF VoteOncePerTerm
  <2>3. CASE x = <<v, t, c>> /\ y \in votes_cast
    BY <2>1, <2>3
  <2>4. CASE x \in votes_cast /\ y = <<v, t, c>>
    BY <2>1, <2>4
  <2>5. CASE x = <<v, t, c>> /\ y = <<v, t, c>>
    BY <2>5
  <2> QED
    BY <2>2, <2>3, <2>4, <2>5
<1> QED
  BY <1>2, <1>3

LEMMA VotesNext ==
    TypeOK /\ VotesMatch /\ VoteOncePerTerm /\ [Next]_vars => VotesMatch' /\ VoteOncePerTerm'
<1> SUFFICES ASSUME TypeOK, VotesMatch, VoteOncePerTerm, [Next]_vars
             PROVE  VotesMatch' /\ VoteOncePerTerm'
  OBVIOUS
<1>1. CASE UNCHANGED <<current_term, voted_for, votes_cast>>
  BY <1>1 DEF VotesMatch, VoteOncePerTerm
<1>2. ASSUME NEW n \in Node, StartElection(n) PROVE VotesMatch' /\ VoteOncePerTerm'
  <2>1. MayCast(n, current_term[n] + 1, n)
    BY DEF VotesMatch, TypeOK, MayCast
  <2>2. current_term[n] + 1 \in Nat
    BY DEF TypeOK
  <2>3. current_term' = [current_term EXCEPT ![n] = current_term[n] + 1]
    BY <1>2 DEF StartElection
  <2> QED
    BY <1>2, <2>1, <2>2, <2>3, CastKeepsVotes DEF StartElection
<1>3. ASSUME NEW m \in BagToSet(network), HandleVoteRequest(m)
      PROVE  VotesMatch' /\ VoteOncePerTerm'
  <2> DEFINE n == m.body.to
             c == m.body.from
             granted == TermOk(n, m.term, c) /\ LogOk(n, m.body)
  <2>1. m \in Message /\ n \in Node /\ c \in Node /\ m.term \in Nat
    BY MessageType DEF TypeOK, Peers
  <2>2. CASE granted
    <3>1. m.term = TermAfter(n, m.term) /\ VoteAfter(n, m.term) \in {None, c}
      BY <2>1, <2>2, PrologueType DEF TermOk
    <3>2. MayCast(n, m.term, c)
      <4> SUFFICES ASSUME NEW x \in votes_cast, x[1] = n
                   PROVE  x[2] < m.term \/ (x[2] = m.term /\ x[3] = c)
        BY DEF MayCast
      <4>1. /\ x[2] \in Nat /\ x[3] \in Node /\ current_term[n] \in Nat
            /\ x[2] <= current_term[n]
            /\ x[2] = current_term[n] => voted_for[n] = x[3]
        BY <2>1 DEF TypeOK, VotesMatch
      <4>2. CASE m.term > current_term[n]
        BY <2>1, <4>1, <4>2
      <4>3. CASE ~(m.term > current_term[n])
        BY <2>1, <3>1, <4>1, <4>3, NodeAssumption DEF TermAfter, VoteAfter
      <4> QED
        BY <4>2, <4>3
    <3>3. /\ votes_cast' = votes_cast \cup {<<n, m.term, c>>}
          /\ current_term' = [current_term EXCEPT ![n] = m.term]
          /\ voted_for' = [voted_for EXCEPT ![n] = c]
      BY <1>3, <2>2, <3>1 DEF HandleVoteRequest
    <3> QED
      BY <2>1, <3>2, <3>3, CastKeepsVotes
  <2>3. CASE ~granted
    <3>1. /\ votes_cast' = votes_cast
          /\ current_term' = [current_term EXCEPT ![n] = TermAfter(n, m.term)]
          /\ voted_for' = [voted_for EXCEPT ![n] = VoteAfter(n, m.term)]
      BY <1>3, <2>3 DEF HandleVoteRequest
    <3> QED
      BY <2>1, <3>1, PrologueKeepsVotes DEF VoteOncePerTerm
  <2> QED
    BY <2>2, <2>3
<1>4. ASSUME NEW m \in BagToSet(network), HandleVoteResponse(m) \/ HandleHeartbeat(m)
      PROVE  VotesMatch' /\ VoteOncePerTerm'
  <2> DEFINE n == m.body.to
  <2>1. n \in Node /\ m.term \in Nat
    BY MessageType DEF TypeOK
  <2>2. /\ votes_cast' = votes_cast
        /\ current_term' = [current_term EXCEPT ![n] = TermAfter(n, m.term)]
        /\ voted_for' = [voted_for EXCEPT ![n] = VoteAfter(n, m.term)]
    BY <1>4 DEF HandleVoteResponse, HandleHeartbeat, VoteAfterHeartbeat, historyVars
  <2> QED
    BY <2>1, <2>2, PrologueKeepsVotes DEF VoteOncePerTerm
<1> QED
  BY <1>1, <1>2, <1>3, <1>4
     DEF Next, LoopStep, TaskStep, HandlerStep, Stop, HeartbeatLoop, SubmitCommand, Transmit,
         SendVoteRequest, SendHeartbeat, SendVoteResponse, ConnectFails,
         vars, serverVars, historyVars

LEMMA VotesInit == Init => VotesMatch /\ VoteOncePerTerm
BY DEF Init, VotesMatch, VoteOncePerTerm

\* No node votes for two candidates in one term, whatever the interleaving,
\* the delays and the losses: the claim of the note in _handle_heartbeat.
THEOREM VotesAreUnique == Spec => []VoteOncePerTerm
<1>1. Init => TypeOK /\ VotesMatch /\ VoteOncePerTerm
  BY TypeInit, VotesInit
<1>2. /\ TypeOK /\ VotesMatch /\ VoteOncePerTerm
      /\ [Next]_vars
      => (TypeOK /\ VotesMatch /\ VoteOncePerTerm)'
  BY TypeNext, VotesNext
<1> QED
  BY <1>1, <1>2, PTL DEF Spec

-----------------------------------------------------------------------------
(* One leader per term, under the timing assumption *)

\* No node becomes a candidate, and one that campaigns or leads keeps its term;
\* nothing is forgotten by the history.
Calm ==
    /\ \A n \in Node : state'[n] # "follower" =>
            state[n] # "follower" /\ current_term'[n] = current_term[n]
    /\ votes_cast \subseteq votes_cast'
    /\ elected \subseteq elected'

\* What a step other than StartElection can be.
CalmStep ==
    \/ UNCHANGED vars
    \/ LoopStep \/ TaskStep \/ HandlerStep

LEMMA CalmStepIsCalm ==
    ASSUME TypeOK, CalmStep
    PROVE  Calm
<1>1. CASE UNCHANGED vars
  BY <1>1 DEF vars, serverVars, historyVars, Calm
<1>2. CASE LoopStep
  BY <1>2 DEF LoopStep, Stop, HeartbeatLoop, SubmitCommand, serverVars, historyVars, Calm
<1>3. CASE TaskStep
  BY <1>3 DEF TaskStep, SendVoteRequest, SendHeartbeat, SendVoteResponse, Transmit, ConnectFails,
              serverVars, historyVars, Calm
<1>4. ASSUME NEW m \in BagToSet(network),
             HandleVoteRequest(m) \/ HandleVoteResponse(m) \/ HandleHeartbeat(m)
      PROVE  Calm
  <2> DEFINE n == m.body.to
  <2>1. n \in Node /\ m.term \in Nat
    BY MessageType DEF TypeOK
  <2>2. votes_cast \subseteq votes_cast' /\ elected \subseteq elected'
    BY <1>4 DEF HandleVoteRequest, HandleVoteResponse, HandleHeartbeat, historyVars
  <2>3. \A p \in Node \ {n} : state'[p] = state[p] /\ current_term'[p] = current_term[p]
    BY <1>4, <2>1 DEF HandleVoteRequest, HandleVoteResponse, HandleHeartbeat, TypeOK
  <2>4. state'[n] # "follower" => StateAfter(n, m.term) # "follower"
    BY <1>4, <2>1 DEF HandleVoteRequest, HandleVoteResponse, HandleHeartbeat, TypeOK
  <2>5. current_term'[n] = TermAfter(n, m.term)
    BY <1>4, <2>1 DEF HandleVoteRequest, HandleVoteResponse, HandleHeartbeat, TypeOK
  <2>6. StateAfter(n, m.term) # "follower" =>
          state[n] # "follower" /\ TermAfter(n, m.term) = current_term[n]
    BY DEF StateAfter, TermAfter
  <2> QED
    BY <2>2, <2>3, <2>4, <2>5, <2>6 DEF Calm
<1> QED
  BY <1>1, <1>2, <1>3, <1>4 DEF CalmStep, HandlerStep

LEMMA CalmOrElection ==
    [Next]_vars => CalmStep \/ \E n \in Node : StartElection(n)
BY DEF Next, CalmStep

LEMMA TimelyStep ==
    [TimelyNext]_vars =>
        /\ [Next]_vars
        /\ CalmStep \/ \E n \in Node : Drained(n) /\ StartElection(n)
BY DEF TimelyNext, Next, CalmStep

LEMMA CalmVotesStand ==
    ASSUME TypeOK, Calm, NEW b \in Task, VoteStands(b)
    PROVE  VoteStands(b)'
BY DEF Calm, VoteStands, Task

LEMMA RequestsNext ==
    ASSUME TypeOK, RequestsAreCurrent, [TimelyNext]_vars
    PROVE  RequestsAreCurrent'
<1> SUFFICES ASSUME NEW m \in BagToSet(network'),
                    m.body.kind = "request_vote",
                    state'[m.body.from] # "follower"
             PROVE  m.term = current_term'[m.body.from]
  BY DEF RequestsAreCurrent
<1>1. ASSUME NEW n \in Node, Drained(n), StartElection(n)
      PROVE  m.term = current_term'[m.body.from]
  <2>1. m \in BagToSet(network)
    BY <1>1 DEF StartElection
  <2>2. m.body.from \in Node
    BY <2>1, MessageType DEF TypeOK, Peers
  <2>3. m.body.from # n
    BY <1>1, <2>1 DEF Drained, OfElection
  <2> QED
    BY <1>1, <2>1, <2>2, <2>3 DEF StartElection, RequestsAreCurrent, TypeOK
<1>2. ASSUME CalmStep, m \in BagToSet(network)
      PROVE  m.term = current_term'[m.body.from]
  <2>1. m.body.from \in Node
    BY <1>2, MessageType DEF TypeOK, Peers
  <2> QED
    BY <1>2, <2>1, CalmStepIsCalm DEF Calm, RequestsAreCurrent
<1>3. ASSUME NEW b \in BagToSet(tasks), Transmit(b)
      PROVE  m \in BagToSet(network) \/ m.term = current_term'[m.body.from]
  <2>1. BagToSet(network') =
          BagToSet(network) \cup {[term |-> current_term[b.from], body |-> b]}
    BY <1>3, BagAdd DEF Transmit, TypeOK
  <2>2. current_term' = current_term
    BY <1>3 DEF Transmit, serverVars
  <2> QED
    BY <2>1, <2>2
<1>4. ASSUME NEW k \in BagToSet(network),
             HandleVoteRequest(k) \/ HandleVoteResponse(k) \/ HandleHeartbeat(k)
      PROVE  m \in BagToSet(network)
  BY <1>4, BagRemove DEF HandleVoteRequest, HandleVoteResponse, HandleHeartbeat, TypeOK
<1>5. CASE CalmStep
  <2>1. CASE UNCHANGED vars
    BY <1>2, <1>5, <2>1 DEF vars
  <2>2. CASE LoopStep
    BY <1>2, <1>5, <2>2 DEF LoopStep, Stop, HeartbeatLoop, SubmitCommand
  <2>3. CASE TaskStep
    BY <1>2, <1>3, <1>5, <2>3
       DEF TaskStep, SendVoteRequest, SendHeartbeat, SendVoteResponse, ConnectFails
  <2>4. CASE HandlerStep
    BY <1>2, <1>4, <1>5, <2>4 DEF HandlerStep
  <2> QED
    BY <1>5, <2>1, <2>2, <2>3, <2>4 DEF CalmStep
<1> QED
  BY <1>1, <1>5, TimelyStep

\* A coroutine that answers or asks for votes is created by two actions only.
LEMMA ResponsesNext ==
    ASSUME TypeOK, TypeOK', RequestsAreCurrent, ResponsesAreCurrent, [TimelyNext]_vars
    PROVE  ResponsesAreCurrent'
<1>1. ASSUME NEW n \in Node, Drained(n), StartElection(n)
      PROVE  ResponsesAreCurrent'
  <2> DEFINE S == {VoteRequest(n, p, Len(log[n]), LastTerm(log[n])) : p \in Peers(n)}
  <2>1. BagToSet(tasks') = BagToSet(tasks) \cup S /\ network' = network
    BY <1>1, BagAdd DEF StartElection, Spawn, TypeOK
  <2>2. \A b \in S : b.kind = "request_vote"
    BY DEF VoteRequest
  <2>3. ASSUME NEW b \in Task, VoteStands(b), ~OfElection(b, n) PROVE VoteStands(b)'
    <3> SUFFICES ASSUME b.kind = "vote_response", b.granted, state'[b.to] # "follower"
                 PROVE  <<b.from, current_term'[b.to], b.to>> \in votes_cast'
      BY DEF VoteStands
    <3>1. b.to \in Node /\ b.to # n
      BY <2>3 DEF OfElection, Task
    <3>2. state'[b.to] = state[b.to] /\ current_term'[b.to] = current_term[b.to]
      BY <1>1, <3>1 DEF StartElection, TypeOK
    <3> QED
      BY <1>1, <2>3, <3>2 DEF StartElection, VoteStands
  <2>4. \A b \in BagToSet(tasks') : VoteStands(b)'
    <3>1. \A b \in BagToSet(tasks) : VoteStands(b)'
      BY <1>1, <2>3 DEF Drained, ResponsesAreCurrent, TypeOK
    <3>2. \A b \in S : VoteStands(b)'
      BY <2>2 DEF VoteStands
    <3> QED
      BY <2>1, <3>1, <3>2
  <2>5. \A m \in BagToSet(network') : VoteStands(m.body)'
    BY <1>1, <2>1, <2>3, MessageType DEF Drained, ResponsesAreCurrent, TypeOK
  <2> QED
    BY <2>4, <2>5 DEF ResponsesAreCurrent
<1>2. ASSUME CalmStep,
             \A b \in BagToSet(tasks') : b \in BagToSet(tasks) \/ VoteStands(b)',
             \A m \in BagToSet(network') :
                m \in BagToSet(network) \/ m.body \in BagToSet(tasks)
      PROVE  ResponsesAreCurrent'
  <2>1. Calm
    BY <1>2, CalmStepIsCalm
  <2>2. \A b \in BagToSet(tasks) : VoteStands(b)'
    BY <2>1, CalmVotesStand DEF ResponsesAreCurrent, TypeOK
  <2>3. \A m \in BagToSet(network) : VoteStands(m.body)'
    BY <2>1, CalmVotesStand, MessageType DEF ResponsesAreCurrent, TypeOK
  <2> QED
    BY <1>2, <2>2, <2>3 DEF ResponsesAreCurrent
<1>3. CASE UNCHANGED vars
  BY <1>2, <1>3 DEF CalmStep, vars
<1>4. CASE LoopStep
  <2>1. ASSUME NEW n \in Node, Stop(n) \/ SubmitCommand(n) PROVE ResponsesAreCurrent'
    BY <1>2, <1>4, <2>1 DEF CalmStep, Stop, SubmitCommand
  <2>2. ASSUME NEW n \in Node, HeartbeatLoop(n) PROVE ResponsesAreCurrent'
    <3> DEFINE S == {Heartbeat(n, p) : p \in Peers(n)}
    <3>1. BagToSet(tasks') = BagToSet(tasks) \cup S /\ network' = network
      BY <2>2, BagAdd DEF HeartbeatLoop, Spawn, TypeOK
    <3>2. \A b \in S : VoteStands(b)'
      BY DEF Heartbeat, VoteStands
    <3> QED
      BY <1>2, <1>4, <3>1, <3>2 DEF CalmStep
  <2> QED
    BY <1>4, <2>1, <2>2 DEF LoopStep
<1>5. CASE TaskStep
  <2>1. ASSUME NEW b \in BagToSet(tasks), Transmit(b) PROVE ResponsesAreCurrent'
    <3>1. BagToSet(tasks') \subseteq BagToSet(tasks)
      BY <2>1, BagRemove DEF Transmit, TypeOK
    <3>2. BagToSet(network') =
            BagToSet(network) \cup {[term |-> current_term[b.from], body |-> b]}
      BY <2>1, BagAdd DEF Transmit, TypeOK
    <3> QED
      BY <1>2, <1>5, <3>1, <3>2 DEF CalmStep
  <2>2. ASSUME NEW b \in BagToSet(tasks), ConnectFails(b) PROVE ResponsesAreCurrent'
    <3>1. BagToSet(tasks') \subseteq BagToSet(tasks) /\ network' = network
      BY <2>2, BagRemove DEF ConnectFails, TypeOK
    <3> QED
      BY <1>2, <1>5, <3>1 DEF CalmStep
  <2> QED
    BY <1>5, <2>1, <2>2
       DEF TaskStep, SendVoteRequest, SendHeartbeat, SendVoteResponse
<1>6. CASE HandlerStep
  <2>1. ASSUME NEW m \in BagToSet(network), HandleVoteRequest(m) PROVE ResponsesAreCurrent'
    <3> DEFINE n == m.body.to
               c == m.body.from
               granted == TermOk(n, m.term, c) /\ LogOk(n, m.body)
               r == VoteResponse(n, c, granted)
    <3>1. m \in Message /\ n \in Node /\ c \in Node
      BY MessageType DEF TypeOK, Peers
    <3>2. BagToSet(network') \subseteq BagToSet(network)
      BY <2>1, BagRemove DEF HandleVoteRequest, TypeOK
    <3>3. BagToSet(tasks') = BagToSet(tasks) \cup {r}
      BY <2>1, BagAdd DEF HandleVoteRequest, Spawn, TypeOK
    <3>4. ASSUME NEW b, b = r PROVE VoteStands(b)'
      <4>5. b.from = n /\ b.to = c /\ (b.granted <=> granted)
        <5> HIDE DEF n, c, granted
        <5> QED
          BY <3>4 DEF VoteResponse
      <4> SUFFICES ASSUME granted, state'[c] # "follower"
                   PROVE  <<n, current_term'[c], c>> \in votes_cast'
        <5> HIDE DEF n, c, granted
        <5> QED
          BY <4>5 DEF VoteStands
      <4>1. state[c] # "follower" /\ current_term'[c] = current_term[c]
        BY <1>6, <3>1, CalmStepIsCalm DEF CalmStep, Calm
      <4>2. m.term = current_term[c]
        BY <2>1, <4>1 DEF RequestsAreCurrent, HandleVoteRequest
      <4>3. votes_cast' = votes_cast \cup {<<n, m.term, c>>}
        BY <2>1 DEF HandleVoteRequest
      <4>4. m.term = current_term'[c]
        BY <4>1, <4>2
      <4> HIDE DEF n, c, granted
      <4> QED
        BY <4>3, <4>4
    <3> QED
      BY <1>2, <1>6, <3>2, <3>3, <3>4 DEF CalmStep
  <2>2. ASSUME NEW m \in BagToSet(network), HandleVoteResponse(m) PROVE ResponsesAreCurrent'
    <3> DEFINE S == {Heartbeat(m.body.to, p) : p \in Peers(m.body.to)}
    <3>1. BagToSet(network') \subseteq BagToSet(network)
      BY <2>2, BagRemove DEF HandleVoteResponse, TypeOK
    <3>2. BagToSet(Spawn(S)) = BagToSet(tasks) \cup S
      BY BagAdd DEF Spawn, TypeOK
    <3>3. BagToSet(tasks') \subseteq BagToSet(tasks) \cup S
      BY <2>2, <3>2 DEF HandleVoteResponse
    <3>4. \A b \in S : VoteStands(b)'
      BY DEF Heartbeat, VoteStands
    <3> QED
      BY <1>2, <1>6, <3>1, <3>3, <3>4 DEF CalmStep
  <2>3. ASSUME NEW m \in BagToSet(network), HandleHeartbeat(m) PROVE ResponsesAreCurrent'
    <3>1. BagToSet(network') \subseteq BagToSet(network) /\ tasks' = tasks
      BY <2>3, BagRemove DEF HandleHeartbeat, TypeOK
    <3> QED
      BY <1>2, <1>6, <3>1 DEF CalmStep
  <2> QED
    BY <1>6, <2>1, <2>2, <2>3 DEF HandlerStep
<1> QED
  BY <1>1, <1>3, <1>4, <1>5, <1>6, TimelyStep DEF CalmStep

LEMMA CountedVotesNext ==
    ASSUME TypeOK, ResponsesAreCurrent, CountedVotesAreCurrent, [TimelyNext]_vars
    PROVE  CountedVotesAreCurrent'
<1> SUFFICES ASSUME NEW n \in Node, state'[n] # "follower",
                    NEW v \in votes_received'[n]
             PROVE  <<v, current_term'[n], n>> \in votes_cast'
  BY DEF CountedVotesAreCurrent
<1>1. ASSUME NEW p \in Node, StartElection(p)
      PROVE  <<v, current_term'[n], n>> \in votes_cast'
  <2>1. CASE n = p
    BY <1>1, <2>1 DEF StartElection, TypeOK
  <2>2. CASE n # p
    BY <1>1, <2>2 DEF StartElection, TypeOK, CountedVotesAreCurrent
  <2> QED
    BY <2>1, <2>2
<1>2. ASSUME CalmStep, v \in votes_received[n]
      PROVE  <<v, current_term'[n], n>> \in votes_cast'
  BY <1>2, CalmStepIsCalm DEF Calm, CountedVotesAreCurrent
<1>3. ASSUME NEW m \in BagToSet(network), HandleVoteResponse(m)
      PROVE  v \in votes_received[n] \/ <<v, current_term'[n], n>> \in votes_cast'
  <2>1. m \in Message /\ m.body.to \in Node
    BY MessageType DEF TypeOK
  <2>2. CASE v \in votes_received[n]
    BY <2>2
  <2>3. CASE v \notin votes_received[n]
    <3>1. n = m.body.to /\ v = m.body.from /\ m.body.granted
      BY <1>3, <2>1, <2>3 DEF HandleVoteResponse, CountVote, TypeOK
    <3>2. CalmStep
      BY <1>3 DEF CalmStep, HandlerStep
    <3>3. state[n] # "follower" /\ current_term'[n] = current_term[n]
          /\ votes_cast \subseteq votes_cast'
      BY <3>2, CalmStepIsCalm DEF Calm
    <3>4. m.body.kind = "vote_response"
      BY <1>3 DEF HandleVoteResponse
    <3>5. <<v, current_term[n], n>> \in votes_cast
      BY <3>1, <3>3, <3>4 DEF ResponsesAreCurrent, VoteStands
    <3> QED
      BY <3>3, <3>5
  <2> QED
    BY <2>2, <2>3
<1>4. CASE CalmStep
  <2>1. CASE votes_received' = votes_received
    BY <1>2, <1>4, <2>1
  <2>2. CASE votes_received' # votes_received
    <3>1. \E m \in BagToSet(network) : HandleVoteResponse(m)
      BY <1>4, <2>2
         DEF CalmStep, vars, serverVars, LoopStep, TaskStep, HandlerStep, Stop, HeartbeatLoop,
             SubmitCommand, SendVoteRequest, SendHeartbeat, SendVoteResponse, Transmit,
             ConnectFails, HandleVoteRequest, HandleHeartbeat
    <3> QED
      BY <1>2, <1>3, <1>4, <3>1
  <2> QED
    BY <2>1, <2>2
<1> QED
  BY <1>1, <1>4, TimelyStep

\* The votes of a finished election stay counted.
LEMMA VotersGrow ==
    ASSUME votes_cast \subseteq votes_cast', NEW n \in Node, NEW t \in Nat
    PROVE  Cardinality(Voters(n, t)') >= Cardinality(Voters(n, t))
<1>1. Voters(n, t) \subseteq Voters(n, t)' /\ Voters(n, t)' \subseteq Node
  BY DEF Voters
<1>2. IsFiniteSet(Voters(n, t)') /\ IsFiniteSet(Voters(n, t))
  BY <1>1, FS_Subset, NodeAssumption
<1> QED
  BY <1>1, <1>2, FS_Subset, FS_CardinalityType

\* Only HandleVoteResponse elects, and only with a majority.
LEMMA ElectionStep ==
    ASSUME TypeOK, [Next]_vars
    PROVE  \/ elected' = elected /\ \A n \in Node : state'[n] = "leader" => state[n] = "leader"
           \/ \E m \in BagToSet(network) :
                /\ HandleVoteResponse(m)
                /\ StateAfter(m.body.to, m.term) = "candidate"
                /\ Cardinality(CountVote(m.body.to, m.body)) >= Majority
<1>1. CASE UNCHANGED <<state, elected>>
  BY <1>1
<1>2. ASSUME NEW n \in Node, StartElection(n)
      PROVE  elected' = elected /\ \A p \in Node : state'[p] = "leader" => state[p] = "leader"
  BY <1>2 DEF StartElection, TypeOK
<1>3. ASSUME NEW m \in BagToSet(network), HandleVoteRequest(m) \/ HandleHeartbeat(m)
      PROVE  elected' = elected /\ \A p \in Node : state'[p] = "leader" => state[p] = "leader"
  <2>1. m.body.to \in Node
    BY MessageType DEF TypeOK
  <2> QED
    BY <1>3, <2>1 DEF HandleVoteRequest, HandleHeartbeat, StateAfter, historyVars, TypeOK
<1>4. ASSUME NEW m \in BagToSet(network), HandleVoteResponse(m),
             ~ (/\ StateAfter(m.body.to, m.term) = "candidate"
                /\ Cardinality(CountVote(m.body.to, m.body)) >= Majority)
      PROVE  elected' = elected /\ \A p \in Node : state'[p] = "leader" => state[p] = "leader"
  <2>1. m.body.to \in Node
    BY MessageType DEF TypeOK
  <2>2. elected' = elected
    BY <1>4 DEF HandleVoteResponse
  <2>3. state' = [state EXCEPT ![m.body.to] = StateAfter(m.body.to, m.term)]
    BY <1>4 DEF HandleVoteResponse
  <2> QED
    BY <2>1, <2>2, <2>3 DEF StateAfter, TypeOK
<1> QED
  BY <1>1, <1>2, <1>3, <1>4
     DEF Next, LoopStep, TaskStep, HandlerStep, Stop, HeartbeatLoop, SubmitCommand, Transmit,
         SendVoteRequest, SendHeartbeat, SendVoteResponse, ConnectFails,
         vars, serverVars, historyVars

LEMMA HistoryGrows == TypeOK /\ [Next]_vars =>
    votes_cast \subseteq votes_cast' /\ elected \subseteq elected'
<1> SUFFICES ASSUME TypeOK, [Next]_vars
             PROVE  votes_cast \subseteq votes_cast' /\ elected \subseteq elected'
  OBVIOUS
<1>1. CASE CalmStep
  BY <1>1, CalmStepIsCalm DEF Calm
<1>2. CASE \E n \in Node : StartElection(n)
  BY <1>2 DEF StartElection
<1> QED
  BY <1>1, <1>2, CalmOrElection

LEMMA WinnersNext ==
    ASSUME TypeOK, TypeOK', CountedVotesAreCurrent', WinnersHadMajority, [TimelyNext]_vars
    PROVE  WinnersHadMajority'
<1> SUFFICES ASSUME NEW x \in elected'
             PROVE  Cardinality(Voters(x[1], x[2])') >= Majority
  BY DEF WinnersHadMajority
<1>1. CASE x \in elected
  <2>1. x[1] \in Node /\ x[2] \in Nat /\ Cardinality(Voters(x[1], x[2])) >= Majority
    BY <1>1 DEF WinnersHadMajority, TypeOK
  <2>2. \A n \in Node, t \in Nat :
          /\ Cardinality(Voters(n, t)') >= Cardinality(Voters(n, t))
          /\ Cardinality(Voters(n, t)') \in Nat /\ Cardinality(Voters(n, t)) \in Nat
    <3> TAKE n \in Node, t \in Nat
    <3>1. Cardinality(Voters(n, t)') >= Cardinality(Voters(n, t))
      BY HistoryGrows, TimelyStep, VotersGrow
    <3>2. IsFiniteSet(Voters(n, t)') /\ IsFiniteSet(Voters(n, t))
      BY FS_Subset, NodeAssumption DEF Voters
    <3> QED
      BY <3>1, <3>2, FS_CardinalityType
  <2>3. Majority \in Nat
    BY NodeAssumption, FS_CardinalityType DEF Majority
  <2> QED
    BY <2>1, <2>2, <2>3
<1>2. CASE x \notin elected
  <2>1. PICK m \in BagToSet(network) :
          /\ HandleVoteResponse(m)
          /\ StateAfter(m.body.to, m.term) = "candidate"
          /\ Cardinality(CountVote(m.body.to, m.body)) >= Majority
    BY <1>2, ElectionStep, TimelyStep
  <2> DEFINE n == m.body.to
  <2>2. n \in Node
    BY MessageType DEF TypeOK
  <2>3. x = <<n, TermAfter(n, m.term)>>
    BY <1>2, <2>1 DEF HandleVoteResponse
  <2>4. /\ state'[n] = "leader"
        /\ current_term'[n] = TermAfter(n, m.term)
        /\ votes_received'[n] = CountVote(n, m.body)
    BY <2>1, <2>2 DEF HandleVoteResponse, TypeOK
  <2>5. \A v \in votes_received'[n] : v \in Node /\ <<v, current_term'[n], n>> \in votes_cast'
    BY <2>2, <2>4 DEF CountedVotesAreCurrent, TypeOK
  <2>6. CountVote(n, m.body) \subseteq Voters(x[1], x[2])'
    BY <2>3, <2>4, <2>5 DEF Voters
  <2>7. IsFiniteSet(Voters(x[1], x[2])') /\ IsFiniteSet(CountVote(n, m.body))
    BY <2>6, FS_Subset, NodeAssumption DEF Voters
  <2>8. Cardinality(CountVote(n, m.body)) <= Cardinality(Voters(x[1], x[2])')
    BY <2>6, <2>7, FS_Subset
  <2>9. Majority \in Nat
    BY NodeAssumption, FS_CardinalityType DEF Majority
  <2> QED
    BY <2>1, <2>7, <2>8, <2>9, FS_CardinalityType
<1> QED
  BY <1>1, <1>2

LEMMA LeadersNext ==
    ASSUME TypeOK, LeadersWereElected, [Next]_vars
    PROVE  LeadersWereElected'
<1> SUFFICES ASSUME NEW n \in Node, state'[n] = "leader"
             PROVE  <<n, current_term'[n]>> \in elected'
  BY DEF LeadersWereElected
<1>1. CASE \E p \in Node : StartElection(p)
  BY <1>1 DEF StartElection, TypeOK, LeadersWereElected
<1>2. CASE CalmStep /\ state[n] = "leader"
  BY <1>2, CalmStepIsCalm DEF Calm, LeadersWereElected
<1>3. ASSUME NEW m \in BagToSet(network), HandleVoteResponse(m),
             StateAfter(m.body.to, m.term) = "candidate",
             Cardinality(CountVote(m.body.to, m.body)) >= Majority,
             state[n] # "leader"
      PROVE  <<n, current_term'[n]>> \in elected'
  <2>1. m.body.to \in Node
    BY MessageType DEF TypeOK
  <2>2. n = m.body.to
    BY <1>3, <2>1 DEF HandleVoteResponse, TypeOK
  <2> QED
    BY <1>3, <2>1, <2>2 DEF HandleVoteResponse, TypeOK
<1> QED
  BY <1>1, <1>2, <1>3, ElectionStep, CalmOrElection

LEMMA EntriesNext ==
    ASSUME TypeOK, LeadersWereElected, EntriesFromLeaders, [TimelyNext]_vars
    PROVE  EntriesFromLeaders'
<1> SUFFICES ASSUME NEW n \in Node, NEW i \in DOMAIN log'[n]
             PROVE  <<n, log'[n][i]>> \in elected'
  BY DEF EntriesFromLeaders
<1>1. elected \subseteq elected'
  BY HistoryGrows, TimelyStep
<1>2. CASE log' = log
  BY <1>1, <1>2 DEF EntriesFromLeaders
<1>3. ASSUME NEW p \in Node, SubmitCommand(p)
      PROVE  <<n, log'[n][i]>> \in elected'
  <2>1. CASE p # n
    BY <1>1, <1>3, <2>1 DEF SubmitCommand, TypeOK, EntriesFromLeaders
  <2>2. CASE p = n
    <3>1. /\ log'[n] = Append(log[n], current_term[n])
          /\ log[n] \in Seq(Nat) /\ current_term[n] \in Nat
          /\ <<n, current_term[n]>> \in elected
      BY <1>3, <2>2 DEF SubmitCommand, AppendEntry, MaySubmit, TypeOK, LeadersWereElected
    <3>2. CASE i = Len(log[n]) + 1
      BY <1>1, <3>1, <3>2
    <3>3. CASE i # Len(log[n]) + 1
      <4>1. i \in DOMAIN log[n] /\ log'[n][i] = log[n][i]
        BY <3>1, <3>3
      <4> QED
        BY <1>1, <4>1 DEF EntriesFromLeaders
    <3> QED
      BY <3>2, <3>3
  <2> QED
    BY <2>1, <2>2
<1> QED
  BY <1>2, <1>3, TimelyStep
     DEF Next, LoopStep, TaskStep, HandlerStep, StartElection, Stop, HeartbeatLoop, Transmit,
         SendVoteRequest, SendHeartbeat, SendVoteResponse, ConnectFails,
         HandleVoteRequest, HandleVoteResponse, HandleHeartbeat, vars

LEMMA TimelyInvInit == Init => TimelyInv
<1> SUFFICES ASSUME Init PROVE TimelyInv
  OBVIOUS
<1>1. TypeOK /\ VotesMatch /\ VoteOncePerTerm
  BY TypeInit, VotesInit
<1>2. BagToSet(tasks) = {} /\ BagToSet(network) = {}
  BY DEF Init, EmptyBag, SetToBag, BagToSet
<1>3. RequestsAreCurrent /\ ResponsesAreCurrent
  BY <1>2 DEF RequestsAreCurrent, ResponsesAreCurrent
<1>4. CountedVotesAreCurrent /\ WinnersHadMajority /\ LeadersWereElected /\ EntriesFromLeaders
  BY DEF Init, CountedVotesAreCurrent, WinnersHadMajority, LeadersWereElected, EntriesFromLeaders
<1> QED
  BY <1>1, <1>3, <1>4 DEF TimelyInv

LEMMA TimelyInvNext == TimelyInv /\ [TimelyNext]_vars => TimelyInv'
<1> SUFFICES ASSUME TimelyInv, [TimelyNext]_vars PROVE TimelyInv'
  OBVIOUS
<1> USE DEF TimelyInv
<1>1. [Next]_vars
  BY TimelyStep
<1>2. TypeOK'
  BY <1>1, TypeNext
<1>3. VoteOncePerTerm' /\ VotesMatch'
  BY <1>1, VotesNext
<1>4. RequestsAreCurrent'
  BY RequestsNext
<1>5. ResponsesAreCurrent'
  BY <1>2, ResponsesNext
<1>6. CountedVotesAreCurrent'
  BY CountedVotesNext
<1>7. WinnersHadMajority'
  BY <1>2, <1>6, WinnersNext
<1>8. LeadersWereElected'
  BY <1>1, LeadersNext
<1>9. EntriesFromLeaders'
  BY EntriesNext
<1> QED
  BY <1>2, <1>3, <1>4, <1>5, <1>6, <1>7, <1>8, <1>9

\* Two elections of one term have a voter in common, and it voted once.
LEMMA ElectionsAgree == TimelyInv => ElectionSafety
<1> SUFFICES ASSUME TimelyInv, NEW x \in elected, NEW y \in elected, x[2] = y[2]
             PROVE  x[1] = y[1]
  BY DEF ElectionSafety
<1> DEFINE X == Voters(x[1], x[2])
           Y == Voters(y[1], y[2])
<1>1. X \subseteq Node /\ Y \subseteq Node
  BY DEF Voters
<1>2. Cardinality(X) >= Majority /\ Cardinality(Y) >= Majority
  BY DEF TimelyInv, WinnersHadMajority
<1>3. IsFiniteSet(X) /\ IsFiniteSet(Y) /\ IsFiniteSet(Node)
  BY <1>1, FS_Subset, NodeAssumption
<1>4. Cardinality(X) \in Nat /\ Cardinality(Y) \in Nat /\ Cardinality(Node) \in Nat
  BY <1>3, FS_CardinalityType
<1>5. Cardinality(X) + Cardinality(Y) > Cardinality(Node)
  <2> HIDE DEF X, Y
  <2> QED
    BY <1>2, <1>4 DEF Majority
<1>6. X \cap Y # {}
  <2> HIDE DEF X, Y
  <2> QED
    BY <1>1, <1>3, <1>5, FS_MajoritiesIntersect
<1>7. PICK v \in Node : /\ <<v, x[2], x[1]>> \in votes_cast
                        /\ <<v, y[2], y[1]>> \in votes_cast
  BY <1>6 DEF Voters
<1> QED
  BY <1>7 DEF TimelyInv, VoteOncePerTerm

\* When no election overtakes the traffic of an earlier one, no term ever has
\* two leaders.  Without that assumption the code does elect two (the run
\* raft_split_brain), because a vote is counted whatever term it was cast in.
THEOREM OneLeaderPerTerm == TimelySpec => []ElectionSafety
BY TimelyInvInit, TimelyInvNext, ElectionsAgree, PTL DEF TimelySpec

\* Under the same assumption no two logs hold entries of one term.
THEOREM LogsNeverMix == TimelySpec => []OneLogPerTerm
<1>1. TimelyInv => OneLogPerTerm
  <2> SUFFICES ASSUME TimelyInv, NEW n \in Node, NEW p \in Node, n # p,
                      NEW i \in DOMAIN log[n], NEW j \in DOMAIN log[p]
               PROVE  log[n][i] # log[p][j]
    BY DEF OneLogPerTerm
  <2>1. <<n, log[n][i]>> \in elected /\ <<p, log[p][j]>> \in elected
    BY DEF TimelyInv, EntriesFromLeaders
  <2>2. ElectionSafety
    BY ElectionsAgree
  <2> QED
    BY <2>1, <2>2 DEF ElectionSafety
<1> QED
  BY <1>1, TimelyInvInit, TimelyInvNext, PTL DEF TimelySpec

\* The same argument, as the inductive invariant it rests on.
THEOREM TimelyInvariant == TimelySpec => []TimelyInv
BY TimelyInvInit, TimelyInvNext, PTL DEF TimelySpec
=============================================================================
