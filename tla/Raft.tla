-------------------------------- MODULE Raft --------------------------------
(***************************************************************************)
(* Leader election and the local command log of src/consensus/raft.py: one *)
(* RaftNode per member of Node, the asyncio tasks it spawns and the JSON   *)
(* messages they put on the wire.                                          *)
(*                                                                         *)
(* Every handler runs under self._lock and never suspends while it holds   *)
(* it, so each is one action.  What does interleave are the send           *)
(* coroutines: a task is created by a handler with some arguments, and     *)
(* only when its TCP connection is open (any number of handlers later)     *)
(* does it read current_term and write its message.                        *)
(***************************************************************************)
EXTENDS Naturals, FiniteSets, Sequences, Bags

CONSTANTS
    Node,           \* the cluster members; a node id stands for its address too
    None,           \* Python's None
    Stoppable,      \* the nodes on which stop() may be called
    Flaky,          \* the links <<from, to>> on which a connection can fail
    MaxTerm,        \* bound: MaxTerm[n] is the last term n starts an election for
    MaxLog,         \* bound: longest command log
    MaxHeartbeats   \* bound: heartbeats one node may have outstanding

ASSUME NodeAssumption == IsFiniteSet(Node) /\ None \notin Node
ASSUME BoundAssumption ==
    MaxTerm \in [Node -> Nat] /\ MaxLog \in Nat /\ MaxHeartbeats \in Nat

VARIABLES
    state,          \* RaftState of each node
    current_term,   \* current_term of each node
    voted_for,      \* voted_for of each node
    votes_received, \* votes_received, a list without duplicates, as a set
    leader_id,      \* the leader each node believes in
    log,            \* the terms of the log entries; an entry's index is its position
    loops,          \* the two background loops: "on", "last" (stop() called), "off"
    tasks,          \* bag of send coroutines that have not yet connected
    network,        \* bag of messages written and not yet handled
    votes_cast,     \* history: <<voter, term, candidate>> for every vote ever cast
    elected         \* history: <<node, term>> for every election won

serverVars == <<state, current_term, voted_for, votes_received, leader_id>>
historyVars == <<votes_cast, elected>>
vars == <<serverVars, log, loops, tasks, network, historyVars>>

RaftState == {"follower", "candidate", "leader"}
PeersAndSelf(n) == Node
Peers(n) == Node \ {n}

\* The three coroutines: _request_vote, _send_heartbeat, _send_vote_response.
VoteRequest(n, p, idx, term) ==
    [kind |-> "request_vote", from |-> n, to |-> p, last_idx |-> idx, last_term |-> term]
Heartbeat(n, p) == [kind |-> "heartbeat", from |-> n, to |-> p]
VoteResponse(n, p, granted) ==
    [kind |-> "vote_response", from |-> n, to |-> p, granted |-> granted]

Task ==
    {b \in [kind : {"request_vote"}, from : Node, to : Node, last_idx : Nat, last_term : Nat]
           \cup [kind : {"heartbeat"}, from : Node, to : Node]
           \cup [kind : {"vote_response"}, from : Node, to : Node, granted : BOOLEAN] :
        b.from # b.to}

\* What arrives: the coroutine's arguments and the term it read when it wrote.
Message == [term : Nat, body : Task]

Spawn(S) == tasks (+) SetToBag(S)

LastTerm(xlog) == IF xlog = <<>> THEN 0 ELSE xlog[Len(xlog)]

HalfOnly == Cardinality(Node) \div 2
\* majority = total_nodes // 2 + 1
Majority == (Cardinality(Node) \div 2) + 1

-----------------------------------------------------------------------------
Init ==
    /\ state = [n \in Node |-> "follower"]
    /\ current_term = [n \in Node |-> 0]
    /\ voted_for = [n \in Node |-> None]
    /\ votes_received = [n \in Node |-> {}]
    /\ leader_id = [n \in Node |-> None]
    /\ log = [n \in Node |-> <<>>]
    /\ loops = [n \in Node |-> "on"]
    /\ tasks = EmptyBag
    /\ network = EmptyBag
    /\ votes_cast = {}
    /\ elected = {}

\* stop(): the loops see it when their current sleep ends.
Stop(n) ==
    /\ n \in Stoppable
    /\ loops[n] = "on"
    /\ loops' = [loops EXCEPT ![n] = "last"]
    /\ UNCHANGED <<serverVars, log, tasks, network, historyVars>>

\* _election_loop finds the timeout elapsed and calls _start_election.
StartElection(n) ==
    /\ loops[n] = "on"
    /\ state[n] # "leader"
    /\ current_term[n] < MaxTerm[n]
    /\ state' = [state EXCEPT ![n] = "candidate"]
    /\ current_term' = [current_term EXCEPT ![n] = @ + 1]
    /\ voted_for' = [voted_for EXCEPT ![n] = n]
    /\ votes_received' = [votes_received EXCEPT ![n] = {n}]
    /\ tasks' = Spawn({VoteRequest(n, p, Len(log[n]), LastTerm(log[n])) : p \in Peers(n)})
    /\ votes_cast' = votes_cast \cup {<<n, current_term[n] + 1, n>>}
    /\ UNCHANGED <<leader_id, log, loops, network, elected>>

\* The guard of the bound on heartbeats; not in the code.
HeartbeatsOut(n) ==
    Cardinality({b \in BagToSet(tasks) : b.kind = "heartbeat" /\ b.from = n})
    + Cardinality({m \in BagToSet(network) : m.body.kind = "heartbeat" /\ m.body.from = n})

AnyCampaignerSendsHeartbeats(n) == state[n] # "follower"
MaySendHeartbeats(n) == state[n] = "leader"

\* One turn of _heartbeat_loop.  After its sleep it does not look at _running
\* again, so a leader that was stopped sends one more round.
HeartbeatLoop(n) ==
    /\ loops[n] # "off"
    /\ MaySendHeartbeats(n)
    /\ HeartbeatsOut(n) < MaxHeartbeats
    /\ tasks' = Spawn({Heartbeat(n, p) : p \in Peers(n)})
    /\ loops' = [loops EXCEPT ![n] = IF @ = "last" THEN "off" ELSE @]
    /\ UNCHANGED <<serverVars, log, network, historyVars>>

\* The coroutine b has its connection: it reads current_term now and writes.
Transmit(b) ==
    /\ tasks' = tasks (-) SetToBag({b})
    /\ network' = network (+) SetToBag({[term |-> current_term[b.from], body |-> b]})
    /\ UNCHANGED <<serverVars, log, loops, historyVars>>

SendVoteRequest(b)  == b.kind = "request_vote"  /\ Transmit(b)
SendHeartbeat(b)    == b.kind = "heartbeat"     /\ Transmit(b)
SendVoteResponse(b) == b.kind = "vote_response" /\ Transmit(b)

\* The connection is refused or times out; the exception is printed.
ConnectFails(b) ==
    /\ <<b.from, b.to>> \in Flaky
    /\ tasks' = tasks (-) SetToBag({b})
    /\ UNCHANGED <<serverVars, log, loops, network, historyVars>>

-----------------------------------------------------------------------------
\* The prologue of handle_message: a higher term is adopted, the node becomes
\* a follower and its vote is reset.
KeepState(n, t) == state[n]
TermAfter(n, t)  == IF t > current_term[n] THEN t ELSE current_term[n]
StateAfter(n, t) == IF t > current_term[n] THEN "follower" ELSE state[n]
VoteAfter(n, t)  == IF t > current_term[n] THEN None ELSE voted_for[n]

\* log_ok and term_ok of _handle_vote_request, for voter n.
LogNeverChecked(n, b) == TRUE
LogOk(n, b) ==
    \/ b.last_term > LastTerm(log[n])
    \/ b.last_term = LastTerm(log[n]) /\ b.last_idx >= Len(log[n])
TermOk(n, t, candidate) ==
    \/ t > TermAfter(n, t)
    \/ t = TermAfter(n, t) /\ VoteAfter(n, t) \in {None, candidate}

HandleVoteRequest(m) ==
    LET n == m.body.to
        candidate == m.body.from
        granted == TermOk(n, m.term, candidate) /\ LogOk(n, m.body)
    IN  /\ m.body.kind = "request_vote"
        /\ network' = network (-) SetToBag({m})
        /\ state' = [state EXCEPT ![n] = StateAfter(n, m.term)]
        /\ current_term' = [current_term EXCEPT ![n] = TermAfter(n, m.term)]
        /\ voted_for' =
             [voted_for EXCEPT ![n] = IF granted THEN candidate ELSE VoteAfter(n, m.term)]
        /\ votes_cast' = votes_cast \cup IF granted THEN {<<n, m.term, candidate>>} ELSE {}
        /\ tasks' = Spawn({VoteResponse(n, candidate, granted)})
        /\ UNCHANGED <<votes_received, leader_id, log, loops, elected>>

CountEveryResponse(n, b) == votes_received[n] \cup {b.from}
\* votes_received after a response: the sender is added when it granted,
\* whatever election the vote belongs to.
CountVote(n, b) == votes_received[n] \cup IF b.granted THEN {b.from} ELSE {}

\* _handle_vote_response and _check_election_winner.
HandleVoteResponse(m) ==
    LET n == m.body.to
        wins == /\ StateAfter(n, m.term) = "candidate"
                /\ Cardinality(CountVote(n, m.body)) >= Majority
    IN  /\ m.body.kind = "vote_response"
        /\ network' = network (-) SetToBag({m})
        /\ current_term' = [current_term EXCEPT ![n] = TermAfter(n, m.term)]
        /\ voted_for' = [voted_for EXCEPT ![n] = VoteAfter(n, m.term)]
        /\ votes_received' = [votes_received EXCEPT ![n] = CountVote(n, m.body)]
        /\ state' = [state EXCEPT ![n] = IF wins THEN "leader" ELSE StateAfter(n, m.term)]
        /\ leader_id' = [leader_id EXCEPT ![n] = IF wins THEN n ELSE @]
        /\ elected' = elected \cup IF wins THEN {<<n, TermAfter(n, m.term)>>} ELSE {}
        /\ tasks' = IF wins THEN Spawn({Heartbeat(n, p) : p \in Peers(n)}) ELSE tasks
        /\ UNCHANGED <<log, loops, votes_cast>>

ForgetVote(n, t) == None
VoteAfterHeartbeat(n, t) == VoteAfter(n, t)

KnownToItsVoters(n, b) == IF voted_for[n] = b.from THEN b.from ELSE leader_id[n]
LeaderAfterHeartbeat(n, b) == b.from

\* _handle_heartbeat: the term of the heartbeat is not compared again, so an
\* old leader's heartbeat also turns the receiver into its follower.
HandleHeartbeat(m) ==
    LET n == m.body.to
    IN  /\ m.body.kind = "heartbeat"
        /\ network' = network (-) SetToBag({m})
        /\ current_term' = [current_term EXCEPT ![n] = TermAfter(n, m.term)]
        /\ voted_for' = [voted_for EXCEPT ![n] = VoteAfterHeartbeat(n, m.term)]
        /\ state' = [state EXCEPT ![n] = "follower"]
        /\ leader_id' = [leader_id EXCEPT ![n] = LeaderAfterHeartbeat(n, m.body)]
        /\ UNCHANGED <<votes_received, log, loops, tasks, historyVars>>

AnyoneSubmits(n) == current_term[n] > 0
MaySubmit(n) == state[n] = "leader"

EntryAtFront(entries, t) == <<t>> \o entries
AppendEntry(entries, t) == Append(entries, t)
\* submit_command appends to the local log only.
SubmitCommand(n) ==
    /\ MaySubmit(n)
    /\ Len(log[n]) < MaxLog
    /\ log' = [log EXCEPT ![n] = AppendEntry(@, current_term[n])]
    /\ UNCHANGED <<serverVars, loops, tasks, network, historyVars>>

-----------------------------------------------------------------------------
LoopStep == \E n \in Node : Stop(n) \/ HeartbeatLoop(n) \/ SubmitCommand(n)
TaskStep ==
    \E b \in BagToSet(tasks) :
        SendVoteRequest(b) \/ SendHeartbeat(b) \/ SendVoteResponse(b) \/ ConnectFails(b)
HandlerStep ==
    \E m \in BagToSet(network) :
        HandleVoteRequest(m) \/ HandleVoteResponse(m) \/ HandleHeartbeat(m)

Next == (\E n \in Node : StartElection(n)) \/ LoopStep \/ TaskStep \/ HandlerStep

Spec == Init /\ [][Next]_vars

(***************************************************************************)
(* The timing the configuration relies on: when a node starts an election, *)
(* nothing of its earlier ones is still under way.  An election timeout is *)
(* at least 3.0 s after the last vote message seen, and on a healthy host  *)
(* a vote exchange takes milliseconds.  It is an assumption about the      *)
(* host: the code gives up a connection attempt after 2 s, but a request   *)
(* and its answer make two of them, and the handlers' time comes on top.   *)
(* TimelySpec is Spec under that assumption.                               *)
(***************************************************************************)
OfElection(b, n) ==
    \/ b.kind = "request_vote" /\ b.from = n
    \/ b.kind = "vote_response" /\ b.to = n
Drained(n) ==
    /\ \A b \in BagToSet(tasks) : ~OfElection(b, n)
    /\ \A m \in BagToSet(network) : ~OfElection(m.body, n)

TimelyNext ==
    \/ \E n \in Node : Drained(n) /\ StartElection(n)
    \/ LoopStep \/ TaskStep \/ HandlerStep

TimelySpec == Init /\ [][TimelyNext]_vars

(***************************************************************************)
(* Fairness.  asyncio schedules every ready coroutine, so the heartbeat    *)
(* loop keeps turning and a message that has been written is handled.  A   *)
(* connection may fail, but on a link that is tried again and again it is  *)
(* not refused for ever (strong fairness).  Nothing forces an election, a  *)
(* command or a stop.                                                      *)
(***************************************************************************)
Connects(n, p) == \E b \in BagToSet(tasks) :
    /\ b.from = n /\ b.to = p
    /\ SendVoteRequest(b) \/ SendHeartbeat(b) \/ SendVoteResponse(b)
Handles(n, p) == \E m \in BagToSet(network) :
    /\ m.body.from = n /\ m.body.to = p
    /\ HandleVoteRequest(m) \/ HandleVoteResponse(m) \/ HandleHeartbeat(m)

Fairness ==
    /\ \A n \in Node : WF_vars(HeartbeatLoop(n))
    /\ \A n \in Node : \A p \in Peers(n) : SF_vars(Connects(n, p)) /\ WF_vars(Handles(n, p))

FairSpec == Spec /\ Fairness

-----------------------------------------------------------------------------
(* Properties *)

\* Type invariant; in particular no node ever sends to itself.
TypeOK ==
    /\ state \in [Node -> RaftState]
    /\ current_term \in [Node -> Nat]
    /\ voted_for \in [Node -> Node \cup {None}]
    /\ votes_received \in [Node -> SUBSET Node]
    /\ leader_id \in [Node -> Node \cup {None}]
    /\ log \in [Node -> Seq(Nat)]
    /\ loops \in [Node -> {"on", "last", "off"}]
    /\ IsABag(tasks) /\ BagToSet(tasks) \subseteq Task
    /\ IsABag(network) /\ BagToSet(network) \subseteq Message
    /\ votes_cast \subseteq Node \X Nat \X Node
    /\ elected \subseteq Node \X Nat

\* A node never votes for two candidates in one term, over its whole life:
\* what the note in _handle_heartbeat demands of voted_for.
VoteOncePerTerm ==
    \A x, y \in votes_cast : x[1] = y[1] /\ x[2] = y[2] => x[3] = y[3]

\* A node that campaigns or leads has voted for itself in its current term,
\* so it can never help a rival of that term.
CampaignerBacksItself ==
    \A n \in Node : state[n] # "follower" => voted_for[n] = n /\ n \in votes_received[n]

\* Every vote a node counts was really cast for it, in this or in an earlier
\* term: a refusal, a heartbeat or a lost answer is never counted as a vote.
CountedVotesWereCast ==
    \A n \in Node : \A v \in votes_received[n] :
        \E x \in votes_cast : x[1] = v /\ x[2] <= current_term[n] /\ x[3] = n

\* The leader a node reports (get_leader_id) did win an election, in a term
\* the node has reached, however late the heartbeat that named it was sent.
LeaderIdWasElected ==
    \A n \in Node : leader_id[n] # None =>
        \E x \in elected : x[1] = leader_id[n] /\ x[2] <= current_term[n]

\* Entries are appended in term order and never in a term not yet reached.
LogTermsOrdered ==
    \A n \in Node : \A i \in DOMAIN log[n] :
        /\ log[n][i] <= current_term[n]
        /\ \A j \in 1..i : log[n][j] <= log[n][i]

\* Log xlog is at least as up to date as log ylog.
UpToDate(xlog, ylog) ==
    \/ LastTerm(xlog) > LastTerm(ylog)
    \/ LastTerm(xlog) = LastTerm(ylog) /\ Len(xlog) >= Len(ylog)

\* When a vote is cast, the candidate's log as it is at that moment is at
\* least as up to date as the voter's, though the request carries the last
\* index and term of the moment the election started.
VotesFollowTheLog ==
    [][\A x \in votes_cast' \ votes_cast : UpToDate(log[x[3]], log[x[1]])]_vars

\* At most one node wins the election of a term (no split brain).
ElectionSafety ==
    \A x, y \in elected : x[2] = y[2] => x[1] = y[1]

\* Two nodes never hold entries of the same term.
OneLogPerTerm ==
    \A n, p \in Node : n # p =>
        \A i \in DOMAIN log[n], j \in DOMAIN log[p] : log[n][i] # log[p][j]

\* A leader is deposed, is stopped, or is in the end the leader every member
\* reports: its heartbeats also win over the candidates it defeated.
LeaderBecomesKnown ==
    \A n \in Node :
        state[n] = "leader" ~>
            state[n] # "leader" \/ loops[n] # "on" \/ \A p \in Node : leader_id[p] = n

Terms == INSTANCE TermLeaders WITH
    winners <- elected, reported <- leader_id, entries <- log

\* Under the timing assumption a cluster of RaftNodes is a directory of leaders
\* by term: the elections it wins, the leaders it reports and the entries it
\* appends are steps of TermLeaders.
ElectsTermLeaders == Terms!Spec

-----------------------------------------------------------------------------
(* The strengthening the proofs carry *)

\* voted_for and current_term remember the node's last vote, and only that.
VotesMatch ==
    \A x \in votes_cast :
        /\ x[2] <= current_term[x[1]]
        /\ x[2] = current_term[x[1]] => voted_for[x[1]] = x[3]

\* Under the timing assumption everything under way for the election of a
\* node that campaigns or leads belongs to its current term.
RequestsAreCurrent ==
    \A m \in BagToSet(network) :
        m.body.kind = "request_vote" /\ state[m.body.from] # "follower" =>
            m.term = current_term[m.body.from]

VoteStands(b) == b.kind = "vote_response" /\ b.granted /\ state[b.to] # "follower" =>
    <<b.from, current_term[b.to], b.to>> \in votes_cast

ResponsesAreCurrent ==
    /\ \A b \in BagToSet(tasks) : VoteStands(b)
    /\ \A m \in BagToSet(network) : VoteStands(m.body)

CountedVotesAreCurrent ==
    \A n \in Node : state[n] # "follower" =>
        \A v \in votes_received[n] : <<v, current_term[n], n>> \in votes_cast

Voters(n, t) == {v \in Node : <<v, t, n>> \in votes_cast}

WinnersHadMajority ==
    \A x \in elected : Cardinality(Voters(x[1], x[2])) >= Majority

LeadersWereElected ==
    \A n \in Node : state[n] = "leader" => <<n, current_term[n]>> \in elected

EntriesFromLeaders ==
    \A n \in Node : \A i \in DOMAIN log[n] : <<n, log[n][i]>> \in elected

\* The inductive invariant of TimelySpec.
TimelyInv ==
    /\ TypeOK
    /\ VoteOncePerTerm
    /\ VotesMatch
    /\ RequestsAreCurrent
    /\ ResponsesAreCurrent
    /\ CountedVotesAreCurrent
    /\ WinnersHadMajority
    /\ LeadersWereElected
    /\ EntriesFromLeaders

\* Without that assumption, what a message claims was true when it was written:
\* the vote it grants was cast, its sender was elected, the log it names was
\* there.
CastBy(v, t, c) == \E x \in votes_cast : x[1] = v /\ x[2] <= t /\ x[3] = c
WonBy(n, t) == \E x \in elected : x[1] = n /\ x[2] <= t

Grants(b) == b.kind = "vote_response" /\ b.granted

GrantsWereCast ==
    /\ \A b \in BagToSet(tasks) : Grants(b) => CastBy(b.from, current_term[b.from], b.to)
    /\ \A m \in BagToSet(network) : Grants(m.body) => CastBy(m.body.from, m.term, m.body.to)

HeartbeatsWereEarned ==
    /\ \A b \in BagToSet(tasks) : b.kind = "heartbeat" => WonBy(b.from, current_term[b.from])
    /\ \A m \in BagToSet(network) : m.body.kind = "heartbeat" => WonBy(m.body.from, m.term)

\* The log that request b names is not ahead of its sender's log.
LogHad(b) == b.kind = "request_vote" =>
    \/ LastTerm(log[b.from]) > b.last_term
    \/ LastTerm(log[b.from]) = b.last_term /\ Len(log[b.from]) >= b.last_idx

RequestsNameTheLog ==
    /\ \A b \in BagToSet(tasks) : LogHad(b)
    /\ \A m \in BagToSet(network) : LogHad(m.body)

\* The inductive invariant of Spec and, but for RequestsNameTheLog, of
\* RestartSpec in RaftRestart.
RecordInv ==
    /\ TypeOK
    /\ CampaignerBacksItself
    /\ GrantsWereCast
    /\ CountedVotesWereCast
    /\ LeadersWereElected
    /\ HeartbeatsWereEarned
    /\ LeaderIdWasElected
    /\ LogTermsOrdered
=============================================================================
