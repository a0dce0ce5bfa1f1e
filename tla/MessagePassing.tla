---------------------------- MODULE MessagePassing ----------------------------
(***************************************************************************)
(* MessagePassing of src/communication/message_passing.py: the calls one   *)
(* node makes to its peers (send_message with its retries, broadcast,      *)
(* send_and_wait), and the NodeServer of the peers, which reads a request, *)
(* answers it and closes the connection.                                   *)
(*                                                                         *)
(* A call uses one connection at a time, but when it gives up waiting for  *)
(* an answer it leaves the connection open, and the peer can read that     *)
(* request later.  retry_count is 0 in every message, so a call that fails *)
(* calls itself again until Python's recursion limit raises an error.      *)
(* Not modelled: handle_message and register_handler, which nothing calls. *)
(***************************************************************************)
EXTENDS Naturals, Sequences

CONSTANTS
    PeerList,       \* peers, in the order in which broadcast asks them
    Type,           \* message types
    Call,           \* the calls
    Workload,       \* bound: the calls made in one run, with their arguments
    None,           \* Python's None
    RecursionLimit  \* how often send_message can call itself

Peer == {PeerList[i] : i \in DOMAIN PeerList}
Request == [call : Call, to : Peer, try : 0..RecursionLimit - 1]

Op == [method : {"send_message", "send_and_wait"}, type : Type, to : Peer]
        \cup [method : {"broadcast"}, type : Type]

\* The node has peers, and its list names none of them twice.
ASSUME PeerAssumption ==
    /\ PeerList \in Seq(Peer) /\ PeerList # <<>>
    /\ \A i, j \in DOMAIN PeerList : PeerList[i] = PeerList[j] => i = j
ASSUME CallAssumption == None \notin Call
ASSUME WorkloadAssumption == Workload \subseteq UNION {[C -> Op] : C \in SUBSET Call}
ASSUME LimitAssumption == RecursionLimit \in Nat \ {0}

VARIABLES
    ops,            \* the calls of this run
    stage,          \* where each call is
    asking,         \* the peers a call has still to ask, the current one first
    tries,          \* how often the current peer was tried in vain
    results,        \* whose answer each call has for each peer, None for no answer
    pending_messages, \* the call whose future each message type is mapped to
    futures,        \* whose answer was set on each call's future, None for pending
    requests,       \* what became of each request on the wire
    given_up        \* history: the requests whose answer was late or unreadable

callVars == <<ops, stage, asking, tries, results, pending_messages, futures>>
vars == <<callVars, requests, given_up>>

\* "written" in the connection, "read" by the peer's NodeServer, then "answered"
\* or "closed" without an answer; "reset" when the peer died without reading it.
Fate == {"unsent", "written", "read", "answered", "closed", "reset"}

Init ==
    /\ ops \in Workload
    /\ stage = [c \in Call |-> "idle"]
    /\ asking = [c \in Call |-> <<>>]
    /\ tries = [c \in Call |-> 0]
    /\ results = [c \in Call |-> [p \in Peer |-> None]]
    /\ pending_messages = [t \in Type |-> None]
    /\ futures = [c \in Call |-> None]
    /\ requests = [k \in Request |-> "unsent"]
    /\ given_up = {}

Current(c) == [call |-> c, to |-> Head(asking[c]), try |-> tries[c]]

-----------------------------------------------------------------------------
(* The calls *)

Make(c, method, peers) ==
    /\ stage[c] = "idle"
    /\ ops[c].method = method
    /\ stage' = [stage EXCEPT ![c] = "connecting"]
    /\ asking' = [asking EXCEPT ![c] = peers]
    /\ UNCHANGED <<ops, tries, results, futures, requests, given_up>>

SendMessage(c) ==
    Make(c, "send_message", <<ops[c].to>>) /\ UNCHANGED pending_messages

Broadcast(c) ==
    Make(c, "broadcast", PeerList) /\ UNCHANGED pending_messages

SendAndWait(c) ==
    /\ Make(c, "send_and_wait", <<ops[c].to>>)
    /\ pending_messages' = [pending_messages EXCEPT ![ops[c].type] = c]

Waits(c) == ops[c].method = "send_and_wait"

\* send_message has returned for the current peer: a broadcast calls it for the
\* next one.
Returns(c) ==
    /\ stage' = [stage EXCEPT ![c] = IF Len(asking[c]) > 1 THEN "connecting" ELSE "returned"]
    /\ asking' = [asking EXCEPT ![c] = Tail(@)]
    /\ tries' = [tries EXCEPT ![c] = 0]

\* An exception: send_message sleeps and calls itself, or the limit raises a
\* RecursionError through all those calls and out of the method.
Failed(c) ==
    /\ tries' = [tries EXCEPT ![c] = @ + 1]
    /\ stage' = [stage EXCEPT ![c] =
                   IF tries[c] + 1 < RecursionLimit THEN "asleep" ELSE "raised"]
    /\ UNCHANGED <<ops, asking, results, pending_messages, futures>>

SharedFuture(c) == pending_messages[ops[c].type]
\* set_result is called on the future that this call has created.
FutureOf(c) == c

\* The answer was read: send_message returns it, send_and_wait sets its future
\* to it and awaits that future.
Answered(c) ==
    /\ futures' = IF Waits(c) THEN [futures EXCEPT ![FutureOf(c)] = c] ELSE futures
    /\ IF Waits(c) /\ futures'[c] = None
       THEN stage' = [stage EXCEPT ![c] = "future"] /\ UNCHANGED <<asking, tries, results>>
       ELSE /\ results' = [results EXCEPT ![c][Current(c).to] =
                             IF Waits(c) THEN futures'[c] ELSE c]
            /\ Returns(c)
    /\ UNCHANGED <<ops, pending_messages>>

ClosedMeansFailed(c) == Failed(c)
\* The connection was closed without an answer: send_message returns None and
\* does not try again; send_and_wait goes on to wait for its future.
Closed(c) ==
    /\ IF Waits(c)
       THEN stage' = [stage EXCEPT ![c] = "future"] /\ UNCHANGED <<asking, tries>>
       ELSE Returns(c)
    /\ UNCHANGED <<ops, results, pending_messages, futures>>

FutureIsDone(c) ==
    /\ stage[c] = "future"
    /\ futures[c] # None
    /\ results' = [results EXCEPT ![c][Current(c).to] = futures[c]]
    /\ Returns(c)
    /\ UNCHANGED <<ops, pending_messages, futures, requests, given_up>>
\* The wait for the future ends, with what was set on it or with the timeout.
FutureEnds(c) ==
    /\ stage[c] = "future"
    /\ results' = [results EXCEPT ![c][Current(c).to] = futures[c]]
    /\ Returns(c)
    /\ UNCHANGED <<ops, pending_messages, futures, requests, given_up>>

Connect(c) ==
    /\ stage[c] = "connecting"
    /\ requests' = [requests EXCEPT ![Current(c)] = "written"]
    /\ stage' = [stage EXCEPT ![c] = "reading"]
    /\ UNCHANGED <<ops, asking, tries, results, pending_messages, futures, given_up>>

\* Refused, because the peer is down, or not open within the timeout.
ConnectFails(c) ==
    /\ stage[c] = "connecting"
    /\ Failed(c)
    /\ UNCHANGED <<requests, given_up>>

\* The connection tells something: the answer, its end, or a reset.
Hear(c) ==
    /\ stage[c] = "reading"
    /\ \/ requests[Current(c)] = "answered" /\ Answered(c)
       \/ requests[Current(c)] = "closed" /\ Closed(c)
       \/ requests[Current(c)] = "reset" /\ Failed(c)
    /\ UNCHANGED <<requests, given_up>>

\* The answer does not come within the timeout, or is cut off and is no JSON.
\* The connection of a late answer stays open.
GiveUp(c) ==
    /\ stage[c] = "reading"
    /\ Failed(c)
    /\ given_up' = given_up \cup {Current(c)}
    /\ UNCHANGED requests

Retry(c) ==
    /\ stage[c] = "asleep"
    /\ stage' = [stage EXCEPT ![c] = "connecting"]
    /\ UNCHANGED <<ops, asking, tries, results, pending_messages, futures, requests, given_up>>

-----------------------------------------------------------------------------
(* The peers *)

\* NodeServer reads a request, however long ago it was written.
Read(k) ==
    /\ requests[k] = "written"
    /\ requests' = [requests EXCEPT ![k] = "read"]
    /\ UNCHANGED <<callVars, given_up>>

Awaited(k) == stage[k.call] = "reading" /\ Current(k.call) = k

\* It answers, also to a type it does not know, or it cannot parse the request
\* or fails; it closes the connection in both cases.  What it does with a
\* request that was given up nobody sees.
Answer(k) ==
    /\ Awaited(k)
    /\ requests[k] = "read"
    /\ \E fate \in {"answered", "closed"} : requests' = [requests EXCEPT ![k] = fate]
    /\ UNCHANGED <<callVars, given_up>>

\* A peer dies and starts again; while it is down ConnectFails.  What it has not
\* read is reset, what it was working on is closed.
Restart(p) ==
    /\ requests' = [k \in Request |->
                      CASE k.to = p /\ requests[k] = "written"          -> "reset"
                        [] k.to = p /\ requests[k] = "read" /\ Awaited(k) -> "closed"
                        [] OTHER -> requests[k]]
    /\ UNCHANGED <<callVars, given_up>>

-----------------------------------------------------------------------------
CallStep(c) ==
    Connect(c) \/ ConnectFails(c) \/ Hear(c) \/ GiveUp(c) \/ Retry(c) \/ FutureEnds(c)

Next ==
    \/ \E c \in DOMAIN ops : SendMessage(c) \/ Broadcast(c) \/ SendAndWait(c)
    \/ \E c \in Call : CallStep(c)
    \/ \E k \in Request : Read(k) \/ Answer(k)
    \/ \E p \in Peer : Restart(p)

\* Every await of a call ends, by its timeout if not before.  Nothing is
\* assumed of the peers, which may be down for ever or never answer.
Spec == Init /\ [][Next]_vars /\ \A c \in Call : WF_vars(CallStep(c))

-----------------------------------------------------------------------------
(* Properties *)

WasRead(k) == requests[k] \in {"read", "answered", "closed"}

\* What a call returns for a peer is the answer to a request of its own that
\* this peer has read, although calls of one type share an entry of
\* pending_messages and connections that were given up are still served.
AnswersAreOwn ==
    \A c \in Call, p \in Peer : results[c][p] # None =>
        /\ results[c][p] = c
        /\ \E k \in Request : k.call = c /\ k.to = p /\ requests[k] = "answered"

\* A peer reads one call twice only when the answer to the earlier try was late
\* or unreadable: a peer that dies, fails or cannot be reached makes nobody
\* repeat a request that it has already seen.
RepeatedOnlyAfterGivingUp ==
    \A j, k \in Request :
        /\ WasRead(j) /\ WasRead(k)
        /\ j.call = k.call /\ j.to = k.to /\ j.try < k.try
        => j \in given_up

\* Every call returns or raises in the end, whatever the peers do: the retries
\* stop, at the recursion limit if nowhere before, and a future that nobody sets
\* does not hold send_and_wait.  It may be an end by an error: a peer that cannot
\* be reached raises out of a broadcast before the peers after it are asked.
CallsEnd ==
    \A c \in Call : stage[c] # "idle" ~> stage[c] \in {"returned", "raised"}
=============================================================================
