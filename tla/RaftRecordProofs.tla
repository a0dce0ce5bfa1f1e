--------------------------- MODULE RaftRecordProofs ---------------------------
(* Theorems about what the nodes of Raft count, report and store: without any *)
(* assumption on timing, and most of them with restarts.                      *)
EXTENDS RaftRestart, RaftProofs

-----------------------------------------------------------------------------
(* What a step does to terms and to what is under way *)

LEMMA TermsGrow ==
    ASSUME TypeOK, [Next]_vars, NEW n \in Node
    PROVE  current_term[n] \in Nat /\ current_term'[n] \in Nat /\ current_term[n] <= current_term'[n]
<1>0. current_term[n] \in Nat
  BY DEF TypeOK
<1>1. CASE current_term' = current_term
  BY <1>0, <1>1
<1>2. ASSUME NEW p \in Node, StartElection(p)
      PROVE  current_term'[n] \in Nat /\ current_term[n] <= current_term'[n]
  <2>1. current_term' = [current_term EXCEPT ![p] = @ + 1]
    BY <1>2 DEF StartElection
  <2> QED
    BY <1>0, <2>1 DEF TypeOK
<1>3. ASSUME NEW m \in BagToSet(network),
             HandleVoteRequest(m) \/ HandleVoteResponse(m) \/ HandleHeartbeat(m)
      PROVE  current_term'[n] \in Nat /\ current_term[n] <= current_term'[n]
  <2>1. m.body.to \in Node /\ m.term \in Nat
    BY MessageType DEF TypeOK
  <2>2. current_term' = [current_term EXCEPT ![m.body.to] = TermAfter(m.body.to, m.term)]
    BY <1>3 DEF HandleVoteRequest, HandleVoteResponse, HandleHeartbeat
  <2>3. TermAfter(m.body.to, m.term) \in Nat /\ TermAfter(m.body.to, m.term) >= current_term[m.body.to]
    BY <2>1, PrologueType
  <2> QED
    BY <1>0, <2>1, <2>2, <2>3 DEF TypeOK
<1> QED
  BY <1>0, <1>1, <1>2, <1>3
     DEF Next, LoopStep, TaskStep, HandlerStep, Stop, HeartbeatLoop, SubmitCommand, Transmit,
         SendVoteRequest, SendHeartbeat, SendVoteResponse, ConnectFails, vars, serverVars

\* What was cast or won stays so, and the terms it was in stay reached.
LEMMA CastByStays ==
    ASSUME votes_cast \subseteq votes_cast', votes_cast \subseteq Node \X Nat \X Node,
           NEW v, NEW c, NEW t \in Nat, NEW u \in Nat, t <= u, CastBy(v, t, c)
    PROVE  \E x \in votes_cast' : x[1] = v /\ x[2] <= u /\ x[3] = c
<1>1. PICK x \in votes_cast : x[1] = v /\ x[2] <= t /\ x[3] = c
  BY DEF CastBy
<1>2. x[2] \in Nat
  BY <1>1
<1> QED
  BY <1>1, <1>2

LEMMA WonByStays ==
    ASSUME elected \subseteq elected', elected \subseteq Node \X Nat,
           NEW n, NEW t \in Nat, NEW u \in Nat, t <= u, WonBy(n, t)
    PROVE  \E x \in elected' : x[1] = n /\ x[2] <= u
<1>1. PICK x \in elected : x[1] = n /\ x[2] <= t
  BY DEF WonBy
<1>2. x[2] \in Nat
  BY <1>1
<1> QED
  BY <1>1, <1>2

\* A message comes from a coroutine, which read its term then.
LEMMA MessageSource ==
    ASSUME TypeOK, [Next]_vars, NEW m \in BagToSet(network')
    PROVE  \/ m \in BagToSet(network)
           \/ \E b \in BagToSet(tasks) : /\ current_term' = current_term
                                         /\ m = [term |-> current_term[b.from], body |-> b]
<1>1. CASE network' = network
  BY <1>1
<1>2. ASSUME NEW b \in BagToSet(tasks), Transmit(b)
      PROVE  \/ m \in BagToSet(network)
             \/ current_term' = current_term /\ m = [term |-> current_term[b.from], body |-> b]
  <2>1. BagToSet(network') = BagToSet(network) \cup {[term |-> current_term[b.from], body |-> b]}
    BY <1>2, BagAdd DEF Transmit, TypeOK
  <2>2. current_term' = current_term
    BY <1>2 DEF Transmit, serverVars
  <2> QED
    BY <2>1, <2>2
<1>3. ASSUME NEW k \in BagToSet(network),
             HandleVoteRequest(k) \/ HandleVoteResponse(k) \/ HandleHeartbeat(k)
      PROVE  m \in BagToSet(network)
  BY <1>3, BagRemove DEF HandleVoteRequest, HandleVoteResponse, HandleHeartbeat, TypeOK
<1> QED
  BY <1>1, <1>2, <1>3
     DEF Next, LoopStep, TaskStep, HandlerStep, StartElection, Stop, HeartbeatLoop, SubmitCommand,
         SendVoteRequest, SendHeartbeat, SendVoteResponse, ConnectFails, vars

\* Where a coroutine comes from.
Asked(b) == \E n \in Node : StartElection(n) /\
    \E p \in Peers(n) : b = VoteRequest(n, p, Len(log[n]), LastTerm(log[n]))
Answered(b) == \E m \in BagToSet(network) : HandleVoteRequest(m) /\
    b = VoteResponse(m.body.to, m.body.from,
                     TermOk(m.body.to, m.term, m.body.from) /\ LogOk(m.body.to, m.body))
Led(b) ==
    \E n \in Node, p \in Node :
        /\ b = Heartbeat(n, p)
        /\ \/ HeartbeatLoop(n)
           \/ \E m \in BagToSet(network) :
                /\ HandleVoteResponse(m) /\ m.body.to = n
                /\ elected' = elected \cup {<<n, TermAfter(n, m.term)>>}

LEMMA TaskSource ==
    ASSUME TypeOK, [Next]_vars, NEW b \in BagToSet(tasks')
    PROVE  b \in BagToSet(tasks) \/ Asked(b) \/ Answered(b) \/ Led(b)
<1>1. CASE tasks' = tasks
  BY <1>1
<1>2. ASSUME NEW n \in Node, StartElection(n)
      PROVE  b \in BagToSet(tasks) \/ Asked(b)
  <2> DEFINE S == {VoteRequest(n, p, Len(log[n]), LastTerm(log[n])) : p \in Peers(n)}
  <2>1. BagToSet(tasks') = BagToSet(tasks) \cup S
    BY <1>2, BagAdd DEF StartElection, Spawn, TypeOK
  <2>2. CASE b \in S
    BY <1>2, <2>2 DEF Asked
  <2> QED
    BY <2>1, <2>2
<1>3. ASSUME NEW n \in Node, HeartbeatLoop(n)
      PROVE  b \in BagToSet(tasks) \/ Led(b)
  <2> DEFINE S == {Heartbeat(n, p) : p \in Peers(n)}
  <2>1. BagToSet(tasks') = BagToSet(tasks) \cup S
    BY <1>3, BagAdd DEF HeartbeatLoop, Spawn, TypeOK
  <2>2. CASE b \in S
    BY <1>3, <2>2 DEF Led, Peers
  <2> QED
    BY <2>1, <2>2
<1>4. ASSUME NEW c \in BagToSet(tasks), Transmit(c) \/ ConnectFails(c)
      PROVE  b \in BagToSet(tasks)
  BY <1>4, BagRemove DEF Transmit, ConnectFails, TypeOK
<1>5. ASSUME NEW m \in BagToSet(network), HandleVoteRequest(m)
      PROVE  b \in BagToSet(tasks) \/ Answered(b)
  <2> DEFINE r == VoteResponse(m.body.to, m.body.from,
                     TermOk(m.body.to, m.term, m.body.from) /\ LogOk(m.body.to, m.body))
  <2>1. tasks' = Spawn({r})
    BY <1>5 DEF HandleVoteRequest
  <2>2. BagToSet(tasks') = BagToSet(tasks) \cup {r}
    BY <2>1, BagAdd DEF Spawn, TypeOK
  <2>3. CASE b = r
    BY <1>5, <2>3 DEF Answered
  <2> QED
    BY <2>2, <2>3
<1>6. ASSUME NEW m \in BagToSet(network), HandleVoteResponse(m)
      PROVE  b \in BagToSet(tasks) \/ Led(b)
  <2> DEFINE n == m.body.to
             S == {Heartbeat(n, p) : p \in Peers(n)}
             wins == /\ StateAfter(n, m.term) = "candidate"
                     /\ Cardinality(CountVote(n, m.body)) >= Majority
  <2>1. CASE ~wins
    BY <1>6, <2>1 DEF HandleVoteResponse
  <2>2. CASE wins
    <3>1. tasks' = Spawn(S) /\ elected' = elected \cup {<<n, TermAfter(n, m.term)>>}
      BY <1>6, <2>2 DEF HandleVoteResponse
    <3>2. BagToSet(tasks') = BagToSet(tasks) \cup S
      BY <3>1, BagAdd DEF Spawn, TypeOK
    <3>3. CASE b \in S
      <4>1. n \in Node
        BY MessageType DEF TypeOK
      <4>2. PICK p \in Peers(n) : b = Heartbeat(n, p)
        BY <3>3
      <4>3. p \in Node
        BY <4>2 DEF Peers
      <4> QED
        BY <1>6, <3>1, <4>1, <4>2, <4>3 DEF Led
    <3> QED
      BY <3>2, <3>3
  <2> QED
    BY <2>1, <2>2
<1>7. ASSUME NEW m \in BagToSet(network), HandleHeartbeat(m)
      PROVE  b \in BagToSet(tasks)
  BY <1>7 DEF HandleHeartbeat
<1> QED
  BY <1>1, <1>2, <1>3, <1>4, <1>5, <1>6, <1>7
     DEF Next, LoopStep, TaskStep, HandlerStep, Stop, SubmitCommand,
         SendVoteRequest, SendHeartbeat, SendVoteResponse, vars

-----------------------------------------------------------------------------
(* Each part of RecordInv is kept by every step of Raft *)

\* A step that does to one node what the prologue does, and perhaps more to its
\* state when it leads or follows, keeps the votes of those that campaign.
LEMMA CampaignerNext ==
    ASSUME TypeOK, CampaignerBacksItself, [Next]_vars
    PROVE  CampaignerBacksItself'
<1> SUFFICES ASSUME NEW n \in Node, state'[n] # "follower"
             PROVE  voted_for'[n] = n /\ n \in votes_received'[n]
  BY DEF CampaignerBacksItself
<1>1. CASE UNCHANGED <<state, voted_for, votes_received>>
  BY <1>1 DEF CampaignerBacksItself
<1>2. ASSUME NEW p \in Node, StartElection(p)
      PROVE  voted_for'[n] = n /\ n \in votes_received'[n]
  BY <1>2 DEF StartElection, CampaignerBacksItself, TypeOK
<1>3. ASSUME NEW m \in BagToSet(network), HandleVoteRequest(m)
      PROVE  voted_for'[n] = n /\ n \in votes_received'[n]
  <2> DEFINE p == m.body.to
             c == m.body.from
  <2>1. p \in Node /\ c \in Peers(p) /\ m.term \in Nat
    BY MessageType DEF TypeOK
  <2>2. CASE n # p
    BY <1>3, <2>1, <2>2 DEF HandleVoteRequest, CampaignerBacksItself, TypeOK
  <2>3. CASE n = p
    <3>1. state'[n] = StateAfter(n, m.term) /\ votes_received' = votes_received
      BY <1>3, <2>1, <2>3 DEF HandleVoteRequest, TypeOK
    <3>2. ~(m.term > current_term[n]) /\ state[n] # "follower"
      BY <3>1 DEF StateAfter
    <3>3. voted_for[n] = n /\ n \in votes_received[n] /\ VoteAfter(n, m.term) = n
      BY <3>2 DEF CampaignerBacksItself, VoteAfter
    <3>4. ~TermOk(n, m.term, c)
      <4>1. TermAfter(n, m.term) = current_term[n] /\ current_term[n] \in Nat
        BY <3>2 DEF TermAfter, TypeOK
      <4>2. n # None /\ n # c
        BY <2>1, <2>3, NodeAssumption DEF Peers
      <4> QED
        BY <2>1, <3>2, <3>3, <4>1, <4>2 DEF TermOk
    <3>5. voted_for'[n] = VoteAfter(n, m.term)
      BY <1>3, <2>1, <2>3, <3>4 DEF HandleVoteRequest, TypeOK
    <3> QED
      BY <3>1, <3>3, <3>5
  <2> QED
    BY <2>2, <2>3
<1>4. ASSUME NEW m \in BagToSet(network), HandleVoteResponse(m) \/ HandleHeartbeat(m)
      PROVE  voted_for'[n] = n /\ n \in votes_received'[n]
  <2> DEFINE p == m.body.to
  <2>1. p \in Node /\ m.term \in Nat
    BY MessageType DEF TypeOK
  <2>2. CASE n # p
    BY <1>4, <2>1, <2>2
       DEF HandleVoteResponse, HandleHeartbeat, VoteAfterHeartbeat, CampaignerBacksItself, TypeOK
  <2>3. CASE n = p /\ HandleVoteResponse(m)
    <3>1. StateAfter(n, m.term) # "follower"
      BY <2>1, <2>3 DEF HandleVoteResponse, TypeOK
    <3>2. ~(m.term > current_term[n]) /\ state[n] # "follower"
      BY <3>1 DEF StateAfter
    <3>3. voted_for'[n] = voted_for[n] /\ votes_received[n] \subseteq votes_received'[n]
      BY <2>1, <2>3, <3>2 DEF HandleVoteResponse, VoteAfter, CountVote, TypeOK
    <3> QED
      BY <3>2, <3>3 DEF CampaignerBacksItself
  <2>4. CASE n = p /\ HandleHeartbeat(m)
    BY <2>1, <2>4 DEF HandleHeartbeat, TypeOK
  <2> QED
    BY <1>4, <2>2, <2>3, <2>4
<1> QED
  BY <1>1, <1>2, <1>3, <1>4
     DEF Next, LoopStep, TaskStep, HandlerStep, Stop, HeartbeatLoop, SubmitCommand, Transmit,
         SendVoteRequest, SendHeartbeat, SendVoteResponse, ConnectFails,
         vars, serverVars

LEMMA GrantsNext ==
    ASSUME TypeOK, GrantsWereCast, [Next]_vars
    PROVE  GrantsWereCast'
<1>1. votes_cast \subseteq votes_cast' /\ votes_cast \subseteq Node \X Nat \X Node
  BY HistoryGrows DEF TypeOK
<1>2. ASSUME NEW b \in BagToSet(tasks), Grants(b)
      PROVE  \E x \in votes_cast' :
                x[1] = b.from /\ x[2] <= current_term'[b.from] /\ x[3] = b.to
  <2>1. b.from \in Node
    BY DEF TypeOK, Task
  <2>2. CastBy(b.from, current_term[b.from], b.to)
    BY <1>2 DEF GrantsWereCast
  <2> QED
    BY <1>1, <2>1, <2>2, TermsGrow, CastByStays
<1>3. ASSUME NEW b \in BagToSet(tasks'), Grants(b)
      PROVE  \E x \in votes_cast' :
                x[1] = b.from /\ x[2] <= current_term'[b.from] /\ x[3] = b.to
  <2>1. CASE b \in BagToSet(tasks)
    BY <1>2, <1>3, <2>1
  <2>2. ASSUME Answered(b)
        PROVE  \E x \in votes_cast' :
                  x[1] = b.from /\ x[2] <= current_term'[b.from] /\ x[3] = b.to
    <3>1. PICK m \in BagToSet(network) : HandleVoteRequest(m) /\
            b = VoteResponse(m.body.to, m.body.from,
                             TermOk(m.body.to, m.term, m.body.from) /\ LogOk(m.body.to, m.body))
      BY <2>2 DEF Answered
    <3>2. m.body.to \in Node /\ m.body.from \in Node /\ m.term \in Nat
      BY MessageType DEF TypeOK, Peers
    <3>3. b.from = m.body.to /\ b.to = m.body.from
      BY <3>1 DEF VoteResponse
    <3>4. TermOk(m.body.to, m.term, m.body.from) /\ LogOk(m.body.to, m.body)
      BY <1>3, <3>1 DEF VoteResponse, Grants
    <3>5. <<m.body.to, m.term, m.body.from>> \in votes_cast'
      BY <3>1, <3>4 DEF HandleVoteRequest
    <3>6. current_term'[m.body.to] = TermAfter(m.body.to, m.term)
      BY <3>1, <3>2 DEF HandleVoteRequest, TypeOK
    <3>7. m.term <= current_term'[m.body.to]
      BY <3>2, <3>6, PrologueType
    <3> QED
      BY <3>3, <3>5, <3>7
  <2>3. ~Asked(b) /\ ~Led(b)
    BY <1>3 DEF Asked, Led, Grants, VoteRequest, Heartbeat
  <2> QED
    BY <2>1, <2>2, <2>3, TaskSource
<1>4. ASSUME NEW m \in BagToSet(network'), Grants(m.body)
      PROVE  \E x \in votes_cast' : x[1] = m.body.from /\ x[2] <= m.term /\ x[3] = m.body.to
  <2>1. CASE m \in BagToSet(network)
    <3>1. CastBy(m.body.from, m.term, m.body.to)
      BY <1>4, <2>1 DEF GrantsWereCast
    <3> QED
      BY <1>1, <3>1 DEF CastBy
  <2>2. ASSUME NEW b \in BagToSet(tasks), current_term' = current_term,
               m = [term |-> current_term[b.from], body |-> b]
        PROVE  \E x \in votes_cast' : x[1] = m.body.from /\ x[2] <= m.term /\ x[3] = m.body.to
    BY <1>2, <1>4, <2>2
  <2> QED
    BY <2>1, <2>2, MessageSource
<1> QED
  BY <1>3, <1>4 DEF GrantsWereCast, CastBy, Grants

LEMMA CountedNext ==
    ASSUME TypeOK, GrantsWereCast, CountedVotesWereCast, [Next]_vars
    PROVE  CountedVotesWereCast'
<1> SUFFICES ASSUME NEW n \in Node, NEW v \in votes_received'[n]
             PROVE  \E x \in votes_cast' : x[1] = v /\ x[2] <= current_term'[n] /\ x[3] = n
  BY DEF CountedVotesWereCast
<1>1. votes_cast \subseteq votes_cast' /\ votes_cast \subseteq Node \X Nat \X Node
  BY HistoryGrows DEF TypeOK
<1>2. CASE v \in votes_received[n]
  <2>1. CastBy(v, current_term[n], n)
    BY <1>2 DEF CountedVotesWereCast, CastBy
  <2> QED
    BY <1>1, <2>1, TermsGrow, CastByStays
<1>3. ASSUME NEW p \in Node, StartElection(p), v \notin votes_received[n]
      PROVE  \E x \in votes_cast' : x[1] = v /\ x[2] <= current_term'[n] /\ x[3] = n
  <2>1. n = p /\ v = n
    BY <1>3 DEF StartElection, TypeOK
  <2>2. <<n, current_term[n] + 1, n>> \in votes_cast' /\ current_term'[n] = current_term[n] + 1
    BY <1>3, <2>1 DEF StartElection, TypeOK
  <2>3. current_term[n] + 1 \in Nat
    BY DEF TypeOK
  <2> QED
    BY <2>1, <2>2, <2>3
<1>4. ASSUME NEW m \in BagToSet(network), HandleVoteResponse(m), v \notin votes_received[n]
      PROVE  \E x \in votes_cast' : x[1] = v /\ x[2] <= current_term'[n] /\ x[3] = n
  <2>1. m.body.to \in Node /\ m.term \in Nat
    BY MessageType DEF TypeOK
  <2>2. n = m.body.to /\ v = m.body.from /\ m.body.granted
    BY <1>4, <2>1 DEF HandleVoteResponse, CountVote, TypeOK
  <2>3. CastBy(v, m.term, n)
    BY <1>4, <2>2 DEF HandleVoteResponse, GrantsWereCast, Grants
  <2>4. current_term'[n] = TermAfter(n, m.term)
    BY <1>4, <2>1, <2>2 DEF HandleVoteResponse, TypeOK
  <2>5. m.term <= current_term'[n] /\ current_term'[n] \in Nat
    BY <2>1, <2>4, PrologueType
  <2> QED
    BY <1>1, <2>1, <2>3, <2>5, CastByStays
<1>5. CASE votes_received' = votes_received
  BY <1>2, <1>5
<1> QED
  BY <1>2, <1>3, <1>4, <1>5
     DEF Next, LoopStep, TaskStep, HandlerStep, Stop, HeartbeatLoop, SubmitCommand, Transmit,
         SendVoteRequest, SendHeartbeat, SendVoteResponse, ConnectFails,
         HandleVoteRequest, HandleHeartbeat, vars, serverVars

LEMMA HeartbeatsNext ==
    ASSUME TypeOK, LeadersWereElected, HeartbeatsWereEarned, [Next]_vars
    PROVE  HeartbeatsWereEarned'
<1>1. elected \subseteq elected' /\ elected \subseteq Node \X Nat
  BY HistoryGrows DEF TypeOK
<1>2. ASSUME NEW b \in BagToSet(tasks), b.kind = "heartbeat"
      PROVE  \E x \in elected' : x[1] = b.from /\ x[2] <= current_term'[b.from]
  <2>1. b.from \in Node
    BY DEF TypeOK, Task
  <2>2. WonBy(b.from, current_term[b.from])
    BY <1>2 DEF HeartbeatsWereEarned
  <2> QED
    BY <1>1, <2>1, <2>2, TermsGrow, WonByStays
<1>3. ASSUME NEW b \in BagToSet(tasks'), b.kind = "heartbeat"
      PROVE  \E x \in elected' : x[1] = b.from /\ x[2] <= current_term'[b.from]
  <2>1. CASE b \in BagToSet(tasks)
    BY <1>2, <1>3, <2>1
  <2>2. ASSUME Led(b)
        PROVE  \E x \in elected' : x[1] = b.from /\ x[2] <= current_term'[b.from]
    <3>1. PICK n \in Node, p \in Node :
            /\ b = Heartbeat(n, p)
            /\ \/ HeartbeatLoop(n)
               \/ \E m \in BagToSet(network) :
                    /\ HandleVoteResponse(m) /\ m.body.to = n
                    /\ elected' = elected \cup {<<n, TermAfter(n, m.term)>>}
      BY <2>2 DEF Led
    <3>2. b.from = n
      BY <3>1 DEF Heartbeat
    <3>3. CASE HeartbeatLoop(n)
      <4>1. <<n, current_term[n]>> \in elected
        BY <3>3 DEF HeartbeatLoop, MaySendHeartbeats, LeadersWereElected
      <4>2. current_term[n] \in Nat /\ current_term'[n] \in Nat /\ current_term[n] <= current_term'[n]
        BY TermsGrow
      <4> DEFINE w == <<n, current_term[n]>>
      <4>3. w \in elected' /\ w[1] = n /\ w[2] <= current_term'[n]
        BY <1>1, <4>1, <4>2
      <4> QED
        BY <3>2, <4>3
    <3>4. ASSUME NEW m \in BagToSet(network), HandleVoteResponse(m), m.body.to = n,
                 elected' = elected \cup {<<n, TermAfter(n, m.term)>>}
          PROVE  \E x \in elected' : x[1] = n /\ x[2] <= current_term'[n]
      <4>1. current_term'[n] = TermAfter(n, m.term)
        BY <3>4 DEF HandleVoteResponse, TypeOK
      <4>2. current_term'[n] \in Nat
        BY TermsGrow
      <4> DEFINE w == <<n, TermAfter(n, m.term)>>
      <4>3. w \in elected' /\ w[1] = n /\ w[2] <= current_term'[n]
        <5>1. w \in elected' /\ w[1] = n /\ w[2] = current_term'[n]
          BY <3>4, <4>1
        <5> QED
          BY <4>2, <5>1
      <4> QED
        BY <4>3
    <3> QED
      BY <3>1, <3>2, <3>3, <3>4
  <2>3. ~Asked(b) /\ ~Answered(b)
    BY <1>3 DEF Asked, Answered, VoteRequest, VoteResponse
  <2> QED
    BY <2>1, <2>2, <2>3, TaskSource
<1>4. ASSUME NEW m \in BagToSet(network'), m.body.kind = "heartbeat"
      PROVE  \E x \in elected' : x[1] = m.body.from /\ x[2] <= m.term
  <2>1. CASE m \in BagToSet(network)
    <3>1. WonBy(m.body.from, m.term)
      BY <1>4, <2>1 DEF HeartbeatsWereEarned
    <3> QED
      BY <1>1, <3>1 DEF WonBy
  <2>2. ASSUME NEW b \in BagToSet(tasks), current_term' = current_term,
               m = [term |-> current_term[b.from], body |-> b]
        PROVE  \E x \in elected' : x[1] = m.body.from /\ x[2] <= m.term
    BY <1>2, <1>4, <2>2
  <2> QED
    BY <2>1, <2>2, MessageSource
<1> QED
  BY <1>3, <1>4 DEF HeartbeatsWereEarned, WonBy

LEMMA LeaderIdNext ==
    ASSUME TypeOK, HeartbeatsWereEarned, LeaderIdWasElected, [Next]_vars
    PROVE  LeaderIdWasElected'
<1> SUFFICES ASSUME NEW n \in Node, leader_id'[n] # None
             PROVE  \E x \in elected' : x[1] = leader_id'[n] /\ x[2] <= current_term'[n]
  BY DEF LeaderIdWasElected
<1>1. elected \subseteq elected' /\ elected \subseteq Node \X Nat
  BY HistoryGrows DEF TypeOK
<1>2. CASE leader_id'[n] = leader_id[n]
  <2>1. WonBy(leader_id[n], current_term[n])
    BY <1>2 DEF LeaderIdWasElected, WonBy
  <2> QED
    BY <1>1, <1>2, <2>1, TermsGrow, WonByStays
<1>3. ASSUME NEW m \in BagToSet(network), HandleVoteResponse(m), leader_id'[n] # leader_id[n]
      PROVE  \E x \in elected' : x[1] = leader_id'[n] /\ x[2] <= current_term'[n]
  <2>1. m.body.to \in Node /\ m.term \in Nat
    BY MessageType DEF TypeOK
  <2>2. n = m.body.to /\ leader_id'[n] = n /\ <<n, TermAfter(n, m.term)>> \in elected'
    BY <1>3, <2>1 DEF HandleVoteResponse, TypeOK
  <2>3. current_term'[n] = TermAfter(n, m.term)
    BY <1>3, <2>1, <2>2 DEF HandleVoteResponse, TypeOK
  <2>4. current_term'[n] \in Nat
    BY TermsGrow
  <2> QED
    BY <2>2, <2>3, <2>4
<1>4. ASSUME NEW m \in BagToSet(network), HandleHeartbeat(m), leader_id'[n] # leader_id[n]
      PROVE  \E x \in elected' : x[1] = leader_id'[n] /\ x[2] <= current_term'[n]
  <2>1. m.body.to \in Node /\ m.term \in Nat
    BY MessageType DEF TypeOK
  <2>2. n = m.body.to /\ leader_id'[n] = m.body.from
    BY <1>4, <2>1 DEF HandleHeartbeat, LeaderAfterHeartbeat, TypeOK
  <2>3. WonBy(m.body.from, m.term)
    BY <1>4 DEF HandleHeartbeat, HeartbeatsWereEarned
  <2>4. current_term'[n] = TermAfter(n, m.term)
    BY <1>4, <2>1, <2>2 DEF HandleHeartbeat, TypeOK
  <2>5. m.term <= current_term'[n] /\ current_term'[n] \in Nat
    BY <2>1, <2>4, PrologueType
  <2> QED
    BY <1>1, <2>1, <2>2, <2>3, <2>5, WonByStays
<1>5. CASE leader_id' = leader_id
  BY <1>2, <1>5
<1> QED
  BY <1>2, <1>3, <1>4, <1>5
     DEF Next, LoopStep, TaskStep, HandlerStep, StartElection, Stop, HeartbeatLoop, SubmitCommand,
         Transmit, SendVoteRequest, SendHeartbeat, SendVoteResponse, ConnectFails,
         HandleVoteRequest, vars, serverVars

LEMMA LogTermsNext ==
    ASSUME TypeOK, LogTermsOrdered, [Next]_vars
    PROVE  LogTermsOrdered'
<1> SUFFICES ASSUME NEW n \in Node, NEW i \in DOMAIN log'[n]
             PROVE  /\ log'[n][i] <= current_term'[n]
                    /\ \A j \in 1..i : log'[n][j] <= log'[n][i]
  BY DEF LogTermsOrdered
<1>1. /\ current_term[n] \in Nat /\ current_term'[n] \in Nat
      /\ current_term[n] <= current_term'[n]
  BY TermsGrow
<1>2. CASE log'[n] = log[n]
  <2>1. log[n] \in Seq(Nat) /\ i \in DOMAIN log[n] /\ log[n][i] \in Nat
    BY <1>2 DEF TypeOK
  <2>2. log[n][i] <= current_term[n] /\ \A j \in 1..i : log[n][j] <= log[n][i]
    BY <2>1 DEF LogTermsOrdered
  <2>3. log[n][i] <= current_term'[n]
    BY <1>1, <2>1, <2>2
  <2> QED
    BY <1>2, <2>2, <2>3
<1>3. ASSUME SubmitCommand(n)
      PROVE  /\ log'[n][i] <= current_term'[n]
             /\ \A j \in 1..i : log'[n][j] <= log'[n][i]
  <2> DEFINE old == log[n]
             t == current_term[n]
  <2>1. old \in Seq(Nat) /\ log'[n] = Append(old, t)
    BY <1>3 DEF SubmitCommand, AppendEntry, TypeOK
  <2>2. \A k \in 1..Len(old) : old[k] \in Nat /\ old[k] <= t /\ \A j \in 1..k : old[j] <= old[k]
    BY <2>1 DEF LogTermsOrdered
  <2>3. t \in Nat /\ t <= current_term'[n]
    BY <1>1
  <2> HIDE DEF old, t
  <2>4. i \in 1..(Len(old) + 1) /\ Len(old) \in Nat
    BY <2>1, <2>3
  <2>5. \A k \in 1..Len(old) : Append(old, t)[k] = old[k]
    BY <2>1, <2>3
  <2>6. Append(old, t)[Len(old) + 1] = t
    BY <2>1, <2>3
  <2>7. CASE i = Len(old) + 1
    BY <2>1, <2>2, <2>3, <2>4, <2>5, <2>6, <2>7
  <2>8. CASE i \in 1..Len(old)
    <3>1. log'[n][i] <= current_term'[n]
      <4> DEFINE e == old[i]
      <4>1. e \in Nat /\ e <= t /\ log'[n][i] = e
        BY <2>1, <2>2, <2>5, <2>8
      <4> HIDE DEF e
      <4> QED
        BY <1>1, <2>3, <4>1
    <3>2. \A j \in 1..i : log'[n][j] <= log'[n][i]
      BY <2>1, <2>2, <2>4, <2>5, <2>8
    <3> QED
      BY <3>1, <3>2
  <2> QED
    BY <2>4, <2>7, <2>8
<1>4. ASSUME NEW p \in Node, SubmitCommand(p), log'[n] # log[n]
      PROVE  SubmitCommand(n)
  BY <1>4 DEF SubmitCommand, TypeOK
<1>5. CASE log' = log
  BY <1>2, <1>5
<1> QED
  BY <1>2, <1>3, <1>4, <1>5
     DEF Next, LoopStep, TaskStep, HandlerStep, StartElection, Stop, HeartbeatLoop,
         Transmit, SendVoteRequest, SendHeartbeat, SendVoteResponse, ConnectFails,
         HandleVoteRequest, HandleVoteResponse, HandleHeartbeat, vars

LEMMA RecordInit == Init => RecordInv
<1> SUFFICES ASSUME Init PROVE RecordInv
  OBVIOUS
<1>1. TypeOK
  BY TypeInit
<1>2. BagToSet(tasks) = {} /\ BagToSet(network) = {}
  BY DEF Init, EmptyBag, SetToBag, BagToSet
<1>3. GrantsWereCast /\ HeartbeatsWereEarned
  BY <1>2 DEF GrantsWereCast, HeartbeatsWereEarned
<1>4. CampaignerBacksItself /\ CountedVotesWereCast /\ LeadersWereElected /\ LeaderIdWasElected
  BY DEF Init, CampaignerBacksItself, CountedVotesWereCast, LeadersWereElected, LeaderIdWasElected
<1>5. LogTermsOrdered
  BY DEF Init, LogTermsOrdered
<1> QED
  BY <1>1, <1>3, <1>4, <1>5 DEF RecordInv

LEMMA RecordNext ==
    ASSUME RecordInv, [Next]_vars
    PROVE  RecordInv'
BY TypeNext, CampaignerNext, GrantsNext, CountedNext, LeadersNext, HeartbeatsNext, LeaderIdNext,
   LogTermsNext DEF RecordInv

-----------------------------------------------------------------------------
(* and by a restart *)

LEMMA RestartKeeps ==
    ASSUME RecordInv, NEW n \in Node, Restart(n)
    PROVE  RecordInv'
<1> USE DEF RecordInv
<1>1. /\ IsABag(tasks')
      /\ \A b \in BagToSet(tasks') : b \in BagToSet(tasks) /\ b.from # n
  BY DEF Restart, KeepTasks, TypeOK, IsABag, BagToSet
<1>2. /\ IsABag(network')
      /\ \A m \in BagToSet(network') : m \in BagToSet(network)
  BY DEF Restart, KeepNetwork, TypeOK, IsABag, BagToSet
<1>3. votes_cast' = votes_cast /\ elected' = elected
  BY DEF Restart, historyVars
<1>4. \A p \in Node \ {n} : /\ state'[p] = state[p]
                            /\ current_term'[p] = current_term[p]
                            /\ voted_for'[p] = voted_for[p]
                            /\ votes_received'[p] = votes_received[p]
                            /\ leader_id'[p] = leader_id[p]
                            /\ log'[p] = log[p]
  BY DEF Restart, TypeOK
<1>5. /\ state'[n] = "follower" /\ votes_received'[n] = {} /\ leader_id'[n] = None
      /\ log'[n] = <<>>
  BY DEF Restart, TypeOK
<1>6. TypeOK'
  <2>1. /\ state' \in [Node -> RaftState]
        /\ current_term' \in [Node -> Nat]
        /\ voted_for' \in [Node -> Node \cup {None}]
        /\ votes_received' \in [Node -> SUBSET Node]
    BY DEF Restart, TypeOK, RaftState
  <2>2. /\ leader_id' \in [Node -> Node \cup {None}]
        /\ log' \in [Node -> Seq(Nat)]
        /\ loops' \in [Node -> {"on", "last", "off"}]
    BY DEF Restart, TypeOK
  <2>3. BagToSet(tasks') \subseteq Task /\ BagToSet(network') \subseteq Message
    BY <1>1, <1>2 DEF TypeOK
  <2>4. votes_cast' \subseteq Node \X Nat \X Node /\ elected' \subseteq Node \X Nat
    BY <1>3 DEF TypeOK
  <2> QED
    BY <1>1, <1>2, <2>1, <2>2, <2>3, <2>4 DEF TypeOK
<1>7. CampaignerBacksItself'
  BY <1>4, <1>5 DEF CampaignerBacksItself
<1>8. \A b \in BagToSet(tasks') : b.from \in Node \ {n}
  BY <1>1 DEF TypeOK, Task
<1>9. GrantsWereCast'
  BY <1>1, <1>2, <1>3, <1>4, <1>8 DEF GrantsWereCast, CastBy, Grants
<1>10. CountedVotesWereCast'
  BY <1>3, <1>4, <1>5 DEF CountedVotesWereCast
<1>11. LeadersWereElected'
  BY <1>3, <1>4, <1>5 DEF LeadersWereElected
<1>12. HeartbeatsWereEarned'
  BY <1>1, <1>2, <1>3, <1>4, <1>8 DEF HeartbeatsWereEarned, WonBy
<1>13. LeaderIdWasElected'
  BY <1>3, <1>4, <1>5 DEF LeaderIdWasElected
<1>14. LogTermsOrdered'
  BY <1>4, <1>5 DEF LogTermsOrdered
<1> QED
  BY <1>6, <1>7, <1>9, <1>10, <1>11, <1>12, <1>13, <1>14

LEMMA RecordInvariant == RestartSpec => []RecordInv
<1>1. RestartInit => RecordInv
  BY RecordInit DEF RestartInit
<1>2. RecordInv /\ [RestartNext]_<<vars, restarts>> => RecordInv'
  BY RecordNext, RestartKeeps DEF RestartNext
<1> QED
  BY <1>1, <1>2, PTL DEF RestartSpec

\* The types hold across restarts too.
THEOREM TypeCorrectWithRestarts == RestartSpec => []TypeOK
BY RecordInvariant, PTL DEF RecordInv

\* Whatever is delayed, reordered or lost, and whoever restarts, a vote that is
\* counted was cast for the one who counts it, in a term it has reached.
THEOREM CountedVotesAreReal == RestartSpec => []CountedVotesWereCast
BY RecordInvariant, PTL DEF RecordInv

\* No node ever reports a leader that did not win an election.
THEOREM ReportedLeadersWon == RestartSpec => []LeaderIdWasElected
BY RecordInvariant, PTL DEF RecordInv

\* The terms of a local log never decrease and never run ahead of its node.
THEOREM LogsAreOrdered == RestartSpec => []LogTermsOrdered
BY RecordInvariant, PTL DEF RecordInv

\* Who campaigns or leads has its own vote, so it helps no rival of its term.
THEOREM CampaignersBackThemselves == RestartSpec => []CampaignerBacksItself
BY RecordInvariant, PTL DEF RecordInv

-----------------------------------------------------------------------------
(* Votes and logs, without restarts *)

\* A log only grows, and so does what it proves.
LEMMA LogGrows ==
    ASSUME TypeOK, LogTermsOrdered, [Next]_vars, NEW n \in Node
    PROVE  UpToDate(log'[n], log[n])
<1>1. LastTerm(log[n]) \in Nat /\ Len(log[n]) \in Nat
  BY LastTermType DEF TypeOK
<1>2. CASE log'[n] = log[n]
  BY <1>1, <1>2 DEF UpToDate
<1>3. ASSUME SubmitCommand(n)
      PROVE  UpToDate(log'[n], log[n])
  <2> DEFINE old == log[n]
             t == current_term[n]
  <2>1. old \in Seq(Nat) /\ t \in Nat /\ log'[n] = Append(old, t)
    BY <1>3 DEF SubmitCommand, AppendEntry, TypeOK
  <2>2. \A i \in 1..Len(old) : old[i] <= t
    BY <2>1 DEF LogTermsOrdered
  <2> HIDE DEF old, t
  <2>3. LastTerm(log'[n]) = t /\ Len(log'[n]) = Len(old) + 1
    BY <2>1 DEF LastTerm
  <2>4. CASE old = <<>>
    BY <2>1, <2>3, <2>4 DEF UpToDate, LastTerm, old
  <2>5. CASE old # <<>>
    <3>1. Len(old) \in 1..Len(old)
      BY <2>1, <2>5
    <3>2. LastTerm(old) <= t /\ LastTerm(old) \in Nat
      BY <2>1, <2>2, <2>5, <3>1 DEF LastTerm
    <3> QED
      BY <1>1, <2>1, <2>3, <3>2 DEF UpToDate, old
  <2> QED
    BY <2>4, <2>5
<1>4. ASSUME NEW p \in Node, SubmitCommand(p), log'[n] # log[n]
      PROVE  SubmitCommand(n)
  BY <1>4 DEF SubmitCommand, TypeOK
<1>5. CASE log' = log
  BY <1>2, <1>5
<1> QED
  BY <1>2, <1>3, <1>4, <1>5
     DEF Next, LoopStep, TaskStep, HandlerStep, StartElection, Stop, HeartbeatLoop,
         Transmit, SendVoteRequest, SendHeartbeat, SendVoteResponse, ConnectFails,
         HandleVoteRequest, HandleVoteResponse, HandleHeartbeat, vars

\* A request names a log its sender has had, and it does not forget it.
LEMMA LogHadNext ==
    ASSUME TypeOK, TypeOK', LogTermsOrdered, RequestsNameTheLog, [Next]_vars
    PROVE  RequestsNameTheLog'
<1>1. ASSUME NEW b \in Task, LogHad(b)
      PROVE  LogHad(b)'
  <2> SUFFICES ASSUME b.kind = "request_vote"
               PROVE  LogHad(b)'
    BY DEF LogHad
  <2>1. b.from \in Node /\ b.last_idx \in Nat /\ b.last_term \in Nat
    BY DEF Task
  <2>2. /\ LastTerm(log[b.from]) \in Nat /\ Len(log[b.from]) \in Nat
        /\ LastTerm(log'[b.from]) \in Nat /\ Len(log'[b.from]) \in Nat
    BY <2>1, LastTermType DEF TypeOK
  <2>3. UpToDate(log'[b.from], log[b.from])
    BY <2>1, LogGrows
  <2> QED
    BY <1>1, <2>1, <2>2, <2>3 DEF LogHad, UpToDate
<1>2. ASSUME NEW b \in BagToSet(tasks')
      PROVE  LogHad(b)'
  <2>1. CASE b \in BagToSet(tasks)
    BY <1>1, <2>1 DEF RequestsNameTheLog, TypeOK
  <2>2. CASE Asked(b)
    <3>1. PICK n \in Node : StartElection(n) /\
            \E p \in Peers(n) : b = VoteRequest(n, p, Len(log[n]), LastTerm(log[n]))
      BY <2>2 DEF Asked
    <3>2. b.from = n /\ b.last_idx = Len(log[n]) /\ b.last_term = LastTerm(log[n])
      BY <3>1 DEF VoteRequest
    <3>3. log' = log
      BY <3>1 DEF StartElection
    <3>4. LastTerm(log[n]) \in Nat /\ Len(log[n]) \in Nat
      BY LastTermType DEF TypeOK
    <3> QED
      BY <3>2, <3>3, <3>4 DEF LogHad
  <2>3. CASE Answered(b) \/ Led(b)
    BY <2>3 DEF Answered, Led, VoteResponse, Heartbeat, LogHad
  <2> QED
    BY <2>1, <2>2, <2>3, TaskSource
<1>3. ASSUME NEW m \in BagToSet(network')
      PROVE  LogHad(m.body)'
  <2>1. CASE m \in BagToSet(network)
    BY <1>1, <2>1, MessageType DEF RequestsNameTheLog, TypeOK
  <2>2. CASE \E b \in BagToSet(tasks) : m = [term |-> current_term[b.from], body |-> b]
    BY <1>1, <2>2 DEF RequestsNameTheLog, TypeOK
  <2> QED
    BY <2>1, <2>2, MessageSource
<1> QED
  BY <1>2, <1>3 DEF RequestsNameTheLog

\* A vote cast by a step goes to a log as good as the voter's.
LEMMA VotersJudgeTheLog ==
    ASSUME RecordInv, RequestsNameTheLog, [Next]_vars, NEW x \in votes_cast' \ votes_cast
    PROVE  UpToDate(log[x[3]], log[x[1]])
<1>1. ASSUME NEW n \in Node, StartElection(n)
      PROVE  UpToDate(log[x[3]], log[x[1]])
  <2>1. x[1] = n /\ x[3] = n
    BY <1>1 DEF StartElection
  <2>2. LastTerm(log[n]) \in Nat /\ Len(log[n]) \in Nat
    BY LastTermType DEF RecordInv, TypeOK
  <2> QED
    BY <2>1, <2>2 DEF UpToDate
<1>2. ASSUME NEW m \in BagToSet(network), HandleVoteRequest(m)
      PROVE  UpToDate(log[x[3]], log[x[1]])
  <2> DEFINE n == m.body.to
             c == m.body.from
  <2>1. n \in Node /\ c \in Node /\ m.body.kind = "request_vote"
    BY <1>2, MessageType DEF RecordInv, TypeOK, Peers, HandleVoteRequest
  <2>2. m.body.last_idx \in Nat /\ m.body.last_term \in Nat
    BY <2>1, MessageType DEF RecordInv, TypeOK
  <2>3. LogOk(n, m.body) /\ x[1] = n /\ x[3] = c
    BY <1>2 DEF HandleVoteRequest
  <2>4. LogHad(m.body)
    BY DEF RequestsNameTheLog
  <2>5. /\ LastTerm(log[n]) \in Nat /\ Len(log[n]) \in Nat
        /\ LastTerm(log[c]) \in Nat /\ Len(log[c]) \in Nat
    BY <2>1, LastTermType DEF RecordInv, TypeOK
  <2> QED
    BY <2>1, <2>2, <2>3, <2>4, <2>5 DEF LogOk, LogHad, UpToDate
<1> QED
  BY <1>1, <1>2
     DEF Next, LoopStep, TaskStep, HandlerStep, Stop, HeartbeatLoop, SubmitCommand, Transmit,
         SendVoteRequest, SendHeartbeat, SendVoteResponse, ConnectFails,
         HandleVoteResponse, HandleHeartbeat, vars, historyVars

\* Though a request carries the log of the moment the election started, the vote
\* is right for the log of the moment it is cast: a candidate loses no entry.
THEOREM VotesAreForBetterLogs == Spec => VotesFollowTheLog
<1> DEFINE Inv == RecordInv /\ RequestsNameTheLog
<1>1. Init => Inv
  <2> SUFFICES ASSUME Init PROVE RequestsNameTheLog
    BY RecordInit
  <2>1. BagToSet(tasks) = {} /\ BagToSet(network) = {}
    BY DEF Init, EmptyBag, SetToBag, BagToSet
  <2> QED
    BY <2>1 DEF RequestsNameTheLog
<1>2. Inv /\ [Next]_vars => Inv'
  <2> SUFFICES ASSUME Inv, [Next]_vars PROVE Inv'
    OBVIOUS
  <2>1. RecordInv'
    BY RecordNext
  <2> QED
    BY <2>1, LogHadNext DEF RecordInv
<1>3. Inv /\ [Next]_vars =>
        [\A x \in votes_cast' \ votes_cast : UpToDate(log[x[3]], log[x[1]])]_vars
  BY VotersJudgeTheLog
<1> QED
  BY <1>1, <1>2, <1>3, PTL DEF Spec, VotesFollowTheLog

-----------------------------------------------------------------------------
(* Elections implement TermLeaders *)

\* A won election is a new winner of its term, or the news of an earlier win.
LEMMA WinIsNew ==
    ASSUME TypeOK, ElectionSafety', NEW n \in Node, NEW t \in Nat,
           elected' = elected \cup {<<n, t>>},
           leader_id' = [leader_id EXCEPT ![n] = n],
           log' = log
    PROVE  Terms!Next
<1> DEFINE w == <<n, t>>
<1>1. w[1] = n /\ w[2] = t /\ w \in elected'
  OBVIOUS
<1>2. CASE w \in elected
  <2>1. elected' = elected
    BY <1>2
  <2>2. Terms!Learn(n, w)
    BY <1>1, <2>1 DEF Terms!Learn
  <2> HIDE DEF w
  <2> QED
    BY <1>2, <2>2 DEF Terms!Next
<1>3. CASE w \notin elected
  <2>1. \A v \in elected : v[2] = w[2] => v[1] = w[1]
    BY <1>1 DEF ElectionSafety
  <2>2. Terms!Win(w)
    BY <1>1, <2>1 DEF Terms!Win
  <2>3. w \in elected' \ elected
    BY <1>1, <1>3
  <2> HIDE DEF w
  <2> QED
    BY <2>2, <2>3 DEF Terms!Next
<1> QED
  BY <1>2, <1>3

LEMMA StepImplementsTerms ==
    ASSUME RecordInv, ElectionSafety', [Next]_vars
    PROVE  [Terms!Next]_Terms!vars
<1> USE DEF RecordInv
<1>1. CASE UNCHANGED <<elected, leader_id, log>>
  BY <1>1 DEF Terms!vars
<1>2. ASSUME NEW n \in Node, SubmitCommand(n)
      PROVE  Terms!Next
  <2> DEFINE w == <<n, current_term[n]>>
  <2>1. w \in elected /\ w[1] = n /\ w[2] = current_term[n]
    BY <1>2 DEF SubmitCommand, MaySubmit, LeadersWereElected
  <2>2. \A i \in DOMAIN log[n] : log[n][i] <= current_term[n]
    BY DEF LogTermsOrdered
  <2>3. log' = [log EXCEPT ![n] = Append(@, current_term[n])] /\ UNCHANGED <<elected, leader_id>>
    BY <1>2 DEF SubmitCommand, AppendEntry, serverVars, historyVars
  <2>4. Terms!Write(w)
    BY <2>1, <2>2, <2>3 DEF Terms!Write
  <2> HIDE DEF w
  <2> QED
    BY <2>1, <2>4 DEF Terms!Next
<1>3. ASSUME NEW m \in BagToSet(network), HandleHeartbeat(m)
      PROVE  Terms!Next
  <2> DEFINE n == m.body.to
  <2>1. n \in Node
    BY MessageType DEF TypeOK
  <2>2. WonBy(m.body.from, m.term)
    BY <1>3 DEF HeartbeatsWereEarned, HandleHeartbeat
  <2>3. PICK w \in elected : w[1] = m.body.from
    BY <2>2 DEF WonBy
  <2>4. Terms!Learn(n, w)
    BY <1>3, <2>3 DEF HandleHeartbeat, LeaderAfterHeartbeat, historyVars, Terms!Learn
  <2> HIDE DEF n
  <2> QED
    BY <2>1, <2>3, <2>4 DEF Terms!Next
<1>4. ASSUME NEW m \in BagToSet(network), HandleVoteResponse(m)
      PROVE  Terms!Next \/ UNCHANGED <<elected, leader_id, log>>
  <2> DEFINE n == m.body.to
             wins == /\ StateAfter(n, m.term) = "candidate"
                     /\ Cardinality(CountVote(n, m.body)) >= Majority
  <2>1. n \in Node /\ m.term \in Nat
    BY MessageType DEF TypeOK
  <2>2. TermAfter(n, m.term) \in Nat
    BY <2>1, PrologueType
  <2>3. log' = log
    BY <1>4 DEF HandleVoteResponse
  <2>4. CASE wins
    <3>1. elected' = elected \cup {<<n, TermAfter(n, m.term)>>}
          /\ leader_id' = [leader_id EXCEPT ![n] = n]
      BY <1>4, <2>4 DEF HandleVoteResponse
    <3> QED
      BY <2>1, <2>2, <2>3, <3>1, WinIsNew
  <2>5. CASE ~wins
    BY <1>4, <2>3, <2>5 DEF HandleVoteResponse, TypeOK
  <2> QED
    BY <2>4, <2>5
<1> QED
  BY <1>1, <1>2, <1>3, <1>4
     DEF Next, LoopStep, TaskStep, HandlerStep, StartElection, Stop, HeartbeatLoop,
         Transmit, SendVoteRequest, SendHeartbeat, SendVoteResponse, ConnectFails,
         HandleVoteRequest, vars, serverVars, historyVars

\* Under the timing assumption the cluster is what its users rely on: one winner
\* for each term, only winners reported, and entries only of won terms.
THEOREM ElectionsImplementTermLeaders == TimelySpec => ElectsTermLeaders
<1>1. Init => Terms!Init
  BY DEF Init, Terms!Init
<1>2. Init => TimelyInv /\ RecordInv
  BY TimelyInvInit, RecordInit
<1>3. TimelyInv /\ RecordInv /\ [TimelyNext]_vars => TimelyInv' /\ RecordInv'
  BY TimelyInvNext, RecordNext, TimelyStep
<1>4. TimelyInv' => ElectionSafety'
  BY ElectionsAgree, PTL
<1>5. TimelyInv' /\ RecordInv /\ [TimelyNext]_vars => [Terms!Next]_Terms!vars
  BY <1>4, StepImplementsTerms, TimelyStep
<1> QED
  BY <1>1, <1>2, <1>3, <1>5, PTL DEF TimelySpec, ElectsTermLeaders, Terms!Spec

-----------------------------------------------------------------------------
(***************************************************************************)
(* VotesFollowTheLog says of a vote what was true when it was cast.  The   *)
(* logs go on growing, but what a voter adds to its own later is of a      *)
(* later term, so the comparison stands for good.                          *)
(***************************************************************************)

\* The entry at position i of the log of v is beyond everything c has.
Beyond(v, i, c) ==
    \/ log[v][i] > LastTerm(log[c])
    \/ log[v][i] = LastTerm(log[c]) /\ i > Len(log[c])

NothingBeyond(v, t, c) ==
    \A i \in DOMAIN log[v] : log[v][i] <= t => ~Beyond(v, i, c)

\* Of the terms up to that of its vote, a voter never has an entry beyond the
\* log of the candidate it voted for, however late it appends to its log.
VotersHaveNothingBeyond ==
    \A x \in votes_cast : NothingBeyond(x[1], x[2], x[3])

\* Of the terms up to that of an election, a majority has nothing beyond the log
\* of the winner: what the check of the logs in _handle_vote_request is for.
WinnersHaveTheLog ==
    \A w \in elected : \E Q \in SUBSET Node :
        /\ Cardinality(Q) >= Majority
        /\ \A v \in Q : NothingBeyond(v, w[2], w[1])

\* A log that is as good as another has nothing of it beyond itself.
LEMMA UpToDateMeans ==
    ASSUME TypeOK, LogTermsOrdered, NEW v \in Node, NEW ylog \in Seq(Nat),
           UpToDate(ylog, log[v]), NEW i \in DOMAIN log[v]
    PROVE  ~(log[v][i] > LastTerm(ylog) \/ (log[v][i] = LastTerm(ylog) /\ i > Len(ylog)))
<1> DEFINE s == log[v]
           n == Len(s)
<1>1. s \in Seq(Nat) /\ n \in Nat /\ DOMAIN s = 1..n
  BY DEF TypeOK
<1>2. LastTerm(ylog) \in Nat /\ Len(ylog) \in Nat
  BY LastTermType
<1>3. n \in DOMAIN s /\ s # <<>> /\ i \in 1..n
  BY <1>1
<1>4. LastTerm(s) = s[n]
  BY <1>3 DEF LastTerm
<1>5. s[i] <= s[n] /\ s[i] \in Nat /\ s[n] \in Nat
  BY <1>1, <1>3 DEF LogTermsOrdered
<1>6. \/ LastTerm(ylog) > s[n]
      \/ LastTerm(ylog) = s[n] /\ Len(ylog) >= n
  BY <1>4 DEF UpToDate
<1> HIDE DEF s, n
<1>7. ~(s[i] > LastTerm(ylog) \/ (s[i] = LastTerm(ylog) /\ i > Len(ylog)))
  BY <1>1, <1>2, <1>3, <1>5, <1>6
<1> QED
  BY <1>7 DEF s

\* What was not beyond a log is not beyond a better one.
LEMMA BeyondLess ==
    ASSUME NEW e \in Nat, NEW i \in Nat, NEW xlog \in Seq(Nat), NEW ylog \in Seq(Nat),
           UpToDate(ylog, xlog),
           ~(e > LastTerm(xlog) \/ (e = LastTerm(xlog) /\ i > Len(xlog)))
    PROVE  ~(e > LastTerm(ylog) \/ (e = LastTerm(ylog) /\ i > Len(ylog)))
<1>1. LastTerm(ylog) \in Nat /\ Len(ylog) \in Nat /\ LastTerm(xlog) \in Nat /\ Len(xlog) \in Nat
  BY LastTermType
<1> QED
  BY <1>1 DEF UpToDate

\* Casting votes and appending to a log are steps of their own.
LEMMA CastOrAppend ==
    ASSUME [Next]_vars
    PROVE  \/ log' = log
           \/ votes_cast' = votes_cast /\ \E n \in Node : SubmitCommand(n)
BY DEF Next, LoopStep, TaskStep, HandlerStep, StartElection, Stop, HeartbeatLoop, SubmitCommand,
       Transmit, SendVoteRequest, SendHeartbeat, SendVoteResponse, ConnectFails,
       HandleVoteRequest, HandleVoteResponse, HandleHeartbeat, vars, historyVars

\* A voter appends to its log: only in a later term, or as the candidate itself.
LEMMA AppendStaysBehind ==
    ASSUME RecordInv, VotesMatch, NEW n \in Node, SubmitCommand(n),
           NEW x \in votes_cast, x[1] = n, NEW i \in DOMAIN log'[n], log'[n][i] <= x[2]
    PROVE  (i \in DOMAIN log[n] /\ log'[n][i] = log[n][i]) \/ x[3] = n
<1> DEFINE s == log[n]
           t == current_term[n]
<1>1. s \in Seq(Nat) /\ t \in Nat /\ log'[n] = Append(s, t) /\ x[2] \in Nat
  BY DEF RecordInv, TypeOK, SubmitCommand, AppendEntry
<1>2. x[2] <= t /\ (x[2] = t => voted_for[n] = x[3])
  BY DEF VotesMatch
<1>3. voted_for[n] = n
  BY DEF SubmitCommand, MaySubmit, RecordInv, CampaignerBacksItself
<1>4. i \in 1..(Len(s) + 1) /\ Len(s) \in Nat /\ DOMAIN s = 1..Len(s)
  BY <1>1
<1>5. CASE i = Len(s) + 1
  <2>1. log'[n][i] = t
    BY <1>1, <1>5
  <2>2. x[2] = t
    BY <1>1, <1>2, <2>1
  <2> QED
    BY <1>2, <1>3, <2>2
<1>6. CASE i \in DOMAIN s
  BY <1>1, <1>4, <1>6
<1> QED
  BY <1>4, <1>5, <1>6

LEMMA BeyondNext ==
    ASSUME RecordInv, RecordInv', RequestsNameTheLog, VotesMatch, VotersHaveNothingBeyond,
           [Next]_vars
    PROVE  VotersHaveNothingBeyond'
<1> SUFFICES ASSUME NEW x \in votes_cast', NEW i \in DOMAIN log'[x[1]],
                    log'[x[1]][i] <= x[2]
             PROVE  ~Beyond(x[1], i, x[3])'
  BY DEF VotersHaveNothingBeyond, NothingBeyond
<1> DEFINE v == x[1]
           c == x[3]
<1>1. /\ v \in Node /\ c \in Node /\ x[2] \in Nat
      /\ log[v] \in Seq(Nat) /\ log[c] \in Seq(Nat)
      /\ log'[v] \in Seq(Nat) /\ log'[c] \in Seq(Nat)
      /\ TypeOK /\ LogTermsOrdered /\ (TypeOK /\ LogTermsOrdered)'
  BY DEF RecordInv, TypeOK
\* A vote of this step: the logs stay as they are.
<1>2. CASE x \notin votes_cast
  <2>1. log' = log
    BY <1>2, CastOrAppend
  <2>2. UpToDate(log[c], log[v])
    BY <1>2, VotersJudgeTheLog
  <2> QED
    BY <1>1, <2>1, <2>2, UpToDateMeans DEF Beyond
\* A vote of an earlier step, and an entry that was there.
<1>3. CASE x \in votes_cast /\ i \in DOMAIN log[v] /\ log'[v][i] = log[v][i]
  <2>1. ~Beyond(v, i, c)
    BY <1>3 DEF VotersHaveNothingBeyond, NothingBeyond
  <2>2. UpToDate(log'[c], log[c])
    BY <1>1, LogGrows
  <2> HIDE DEF v, c
  <2>3. log[v][i] \in Nat /\ i \in Nat
    <3> DEFINE s == log[v]
    <3>1. s \in Seq(Nat) /\ i \in DOMAIN s
      BY <1>1, <1>3
    <3> HIDE DEF s
    <3>2. s[i] \in Nat /\ i \in Nat
      BY <3>1
    <3> QED
      BY <3>2 DEF s
  <2>4. ~(log[v][i] > LastTerm(log'[c]) \/ (log[v][i] = LastTerm(log'[c]) /\ i > Len(log'[c])))
    BY <1>1, <2>1, <2>2, <2>3, BeyondLess DEF Beyond
  <2> QED
    BY <1>3, <2>4 DEF Beyond, v, c
\* A candidate's vote for itself.
<1>4. CASE c = v
  <2>1. LastTerm(log'[v]) \in Nat /\ Len(log'[v]) \in Nat
    BY <1>1, LastTermType
  <2>2. UpToDate(log'[v], log'[v])
    BY <2>1 DEF UpToDate
  <2>3. ~(log'[v][i] > LastTerm(log'[v]) \/ (log'[v][i] = LastTerm(log'[v]) /\ i > Len(log'[v])))
    <3> DEFINE s == log'[v]
               n == Len(s)
    <3>1. s \in Seq(Nat) /\ i \in DOMAIN s /\ n \in Nat /\ DOMAIN s = 1..n /\ i \in 1..n
      <4>1. s \in Seq(Nat) /\ i \in DOMAIN s
        BY <1>1
      <4> HIDE DEF s
      <4> QED
        BY <4>1
    <3>2. n \in 1..n /\ s # <<>>
      BY <3>1
    <3>3. LastTerm(s) = s[n]
      BY <3>2 DEF LastTerm
    <3>4. s[i] <= s[n] /\ s[i] \in Nat /\ s[n] \in Nat
      <4>1. \A j \in DOMAIN s : \A k \in 1..j : s[k] <= s[j]
        BY <1>1 DEF LogTermsOrdered
      <4> HIDE DEF s, n
      <4> QED
        BY <3>1, <3>2, <4>1
    <3> HIDE DEF s, n
    <3>5. ~(s[i] > LastTerm(s) \/ (s[i] = LastTerm(s) /\ i > n))
      BY <3>1, <3>3, <3>4
    <3> QED
      BY <3>5 DEF s, n
  <2> QED
    BY <1>4, <2>3 DEF Beyond
<1>5. x \in votes_cast => \/ i \in DOMAIN log[v] /\ log'[v][i] = log[v][i]
                          \/ c = v
  <2> SUFFICES ASSUME x \in votes_cast
               PROVE  (i \in DOMAIN log[v] /\ log'[v][i] = log[v][i]) \/ c = v
    OBVIOUS
  <2>1. CASE log' = log
    BY <2>1
  <2>2. ASSUME NEW n \in Node, SubmitCommand(n)
        PROVE  (i \in DOMAIN log[v] /\ log'[v][i] = log[v][i]) \/ c = v
    <3>1. CASE v = n
      BY <2>2, <3>1, AppendStaysBehind
    <3>2. CASE v # n
      <4>1. log'[v] = log[v]
        BY <1>1, <2>2, <3>2 DEF SubmitCommand, TypeOK
      <4> QED
        BY <4>1
    <3> QED
      BY <3>1, <3>2
  <2> QED
    BY <2>1, <2>2, CastOrAppend
<1> QED
  BY <1>2, <1>3, <1>4, <1>5

BeyondInv ==
    /\ RecordInv /\ RequestsNameTheLog
    /\ VotesMatch /\ VoteOncePerTerm
    /\ VotersHaveNothingBeyond

LEMMA BeyondInit == Init => BeyondInv
<1> SUFFICES ASSUME Init PROVE BeyondInv
  OBVIOUS
<1>1. BagToSet(tasks) = {} /\ BagToSet(network) = {}
  BY DEF Init, EmptyBag, SetToBag, BagToSet
<1>2. RequestsNameTheLog
  BY <1>1 DEF RequestsNameTheLog
<1>3. VotersHaveNothingBeyond
  BY DEF Init, VotersHaveNothingBeyond
<1> QED
  BY <1>2, <1>3, RecordInit, VotesInit DEF BeyondInv

LEMMA BeyondStep == BeyondInv /\ [Next]_vars => BeyondInv'
<1> SUFFICES ASSUME BeyondInv, [Next]_vars PROVE BeyondInv'
  OBVIOUS
<1>1. RecordInv'
  BY RecordNext DEF BeyondInv
<1>2. RequestsNameTheLog'
  BY <1>1, LogHadNext DEF BeyondInv, RecordInv
<1>3. VotesMatch' /\ VoteOncePerTerm'
  BY VotesNext DEF BeyondInv, RecordInv
<1>4. VotersHaveNothingBeyond'
  BY <1>1, BeyondNext DEF BeyondInv
<1> QED
  BY <1>1, <1>2, <1>3, <1>4 DEF BeyondInv

\* Without any timing: a vote stays right about the logs.
THEOREM VotesStayRight == Spec => []VotersHaveNothingBeyond
<1>1. BeyondInv => VotersHaveNothingBeyond
  BY DEF BeyondInv
<1> QED
  BY <1>1, BeyondInit, BeyondStep, PTL DEF Spec

\* Under the timing assumption the votes of a winner are of its term, so the
\* comparison holds of the majority that elected it.
THEOREM WinnersAreNotBehind == TimelySpec => []WinnersHaveTheLog
<1>1. Init => TimelyInv /\ BeyondInv
  BY TimelyInvInit, BeyondInit
<1>2. TimelyInv /\ BeyondInv /\ [TimelyNext]_vars => TimelyInv' /\ BeyondInv'
  BY TimelyInvNext, BeyondStep, TimelyStep
<1>3. TimelyInv /\ BeyondInv => WinnersHaveTheLog
  <2> SUFFICES ASSUME TimelyInv, BeyondInv, NEW w \in elected
               PROVE  \E Q \in SUBSET Node :
                        /\ Cardinality(Q) >= Majority
                        /\ \A v \in Q : NothingBeyond(v, w[2], w[1])
    BY DEF WinnersHaveTheLog
  <2> DEFINE Q == Voters(w[1], w[2])
  <2>1. Cardinality(Q) >= Majority
    BY DEF TimelyInv, WinnersHadMajority
  <2>2. ASSUME NEW v \in Q
        PROVE  NothingBeyond(v, w[2], w[1])
    <3>1. <<v, w[2], w[1]>> \in votes_cast
      BY DEF Voters
    <3> QED
      BY <3>1 DEF BeyondInv, VotersHaveNothingBeyond
  <2>3. Q \in SUBSET Node
    BY DEF Voters
  <2> HIDE DEF Q
  <2> QED
    BY <2>1, <2>2, <2>3
<1> QED
  BY <1>1, <1>2, <1>3, PTL DEF TimelySpec
=============================================================================
