------------------------- MODULE MessagePassingProofs -------------------------
(* Theorems about MessagePassing, for any peers, calls and number of tries. *)
EXTENDS MessagePassing, TLAPS, SequenceTheorems

Elements(s) == {s[i] : i \in DOMAIN s}
Distinct(s) == \A i, j \in DOMAIN s : s[i] = s[j] => i = j

\* The peers a broadcast still has to ask, without the current one.
LEMMA RestFacts ==
    ASSUME NEW S, NEW s \in Seq(S), s # <<>>, Distinct(s)
    PROVE  /\ Tail(s) \in Seq(S) /\ Head(s) \in S
           /\ Elements(Tail(s)) \subseteq Elements(s)
           /\ Head(s) \in Elements(s) /\ Head(s) \notin Elements(Tail(s))
           /\ Distinct(Tail(s))
           /\ Len(s) > 1 => Tail(s) # <<>>
<1> DEFINE t == Tail(s)
           n == Len(s)
<1>1. n \in Nat \ {0} /\ DOMAIN s = 1..n
  BY LenProperties, EmptySeq
<1>2. /\ t \in Seq(S) /\ Len(t) = n - 1
      /\ \A i \in 1..Len(t) : t[i] = s[i + 1]
      /\ Head(s) \in S
  BY HeadTailProperties
<1>3. DOMAIN t = 1..(n - 1) /\ \A i \in 1..(n - 1) : t[i] = s[i + 1]
  BY <1>2, LenProperties
<1>4. Head(s) = s[1] /\ 1 \in 1..n
  BY <1>1
<1>5. n > 1 => t # <<>>
  <2>1. t = <<>> => Len(t) = 0
    BY EmptySeq
  <2> HIDE DEF t, n
  <2> QED
    BY <1>1, <1>2, <2>1
<1> HIDE DEF t, n
<1>6. \A i \in 1..(n - 1) : i + 1 \in 1..n /\ i + 1 # 1
  BY <1>1
<1>7. \A i \in 1..(n - 1) : t[i] \in Elements(s) /\ t[i] # s[1]
  BY <1>1, <1>3, <1>4, <1>6 DEF Elements, Distinct
<1>8. \A x \in Elements(t) : x \in Elements(s) /\ x # s[1]
  BY <1>3, <1>7 DEF Elements
<1>9. Distinct(t)
  <2> SUFFICES ASSUME NEW i \in 1..(n - 1), NEW j \in 1..(n - 1), t[i] = t[j]
               PROVE  i = j
    BY <1>3 DEF Distinct
  <2>1. i + 1 = j + 1
    BY <1>1, <1>3, <1>6 DEF Distinct
  <2> QED
    BY <1>1, <2>1
<1>10. s[1] \in Elements(s)
  BY <1>1, <1>4 DEF Elements
<1> QED
  BY <1>2, <1>4, <1>5, <1>8, <1>9, <1>10 DEF t, n

LEMMA SingleFacts ==
    ASSUME NEW S, NEW e \in S
    PROVE  <<e>> \in Seq(S) /\ <<e>> # <<>> /\ Distinct(<<e>>) /\ Len(<<e>>) = 1
BY DEF Distinct

-----------------------------------------------------------------------------
(***************************************************************************)
(* The invariant.  A call writes its requests in the order of its peers    *)
(* and tries, so what is still to come is unsent (Fresh), and it leaves a  *)
(* try behind only when nobody can read that request any more or when it   *)
(* has given up waiting for the answer (Past).                             *)
(***************************************************************************)
Stages == {"idle", "connecting", "reading", "asleep", "future", "returned", "raised"}
Active(c) == stage[c] \in {"connecting", "reading", "asleep", "future"}

Typed ==
    /\ ops \in [DOMAIN ops -> Op] /\ DOMAIN ops \subseteq Call
    /\ stage \in [Call -> Stages]
    /\ asking \in [Call -> Seq(Peer)]
    /\ tries \in [Call -> Nat]
    /\ results \in [Call -> [Peer -> Call \cup {None}]]
    /\ futures \in [Call -> Call \cup {None}]
    /\ requests \in [Request -> Fate]

UnderWay(c) ==
    /\ stage[c] = "idle" => tries[c] = 0 /\ futures[c] = None
    /\ Active(c) =>
        /\ c \in DOMAIN ops
        /\ asking[c] # <<>> /\ Distinct(asking[c])
        /\ tries[c] \in 0..(RecursionLimit - 1)
        /\ futures[c] = None
        /\ Waits(c) => Len(asking[c]) = 1

Own(c) ==
    \A p \in Peer : results[c][p] # None =>
        /\ results[c][p] = c
        /\ \E k \in Request : k.call = c /\ k.to = p /\ requests[k] = "answered"

Sent(k) == requests[k] # "unsent"
Unread(k) == requests[k] \in {"unsent", "reset"} \/ k \in given_up

Fresh(c) ==
    \A k \in Request : k.call = c /\ Sent(k) =>
        /\ stage[c] # "idle"
        /\ Active(c) =>
            /\ k.to \notin Elements(Tail(asking[c]))
            /\ k.to = Head(asking[c]) =>
                \/ k.try < tries[c]
                \/ k.try = tries[c] /\ stage[c] \in {"reading", "future"}

Past(c) ==
    Active(c) => \A k \in Request :
        k.call = c /\ k.to = Head(asking[c]) /\ k.try < tries[c] => Unread(k)

CallInv(c) == UnderWay(c) /\ Own(c) /\ Fresh(c) /\ Past(c)

NotTwice ==
    \A j, k \in Request :
        j.call = k.call /\ j.to = k.to /\ j.try < k.try /\ Sent(k) => Unread(j)

MInv == Typed /\ (\A c \in Call : CallInv(c)) /\ NotTwice

LEMMA MInit == Init => MInv
<1> SUFFICES ASSUME Init PROVE MInv
  OBVIOUS
<1>1. PICK C \in SUBSET Call : ops \in [C -> Op]
  BY WorkloadAssumption DEF Init
<1>2. ops \in [DOMAIN ops -> Op] /\ DOMAIN ops \subseteq Call
  BY <1>1
<1>3. \A c \in Call : asking[c] = <<>> /\ <<>> \in Seq(Peer)
  BY EmptySeq DEF Init
<1>4. \A k \in Request : ~Sent(k)
  BY DEF Init, Sent
<1>5. Typed
  BY <1>2, <1>3 DEF Init, Typed, Stages, Fate
<1>6. \A c \in Call : CallInv(c)
  BY <1>4 DEF Init, CallInv, UnderWay, Own, Fresh, Past, Active
<1> QED
  BY <1>4, <1>5, <1>6 DEF MInv, NotTwice

-----------------------------------------------------------------------------
(* Steps of the peers *)

LEMMA PeerStep ==
    ASSUME MInv, UNCHANGED <<callVars, given_up>>, requests' \in [Request -> Fate],
           \A k \in Request : requests[k] \in {"unsent", "reset", "answered"} =>
                                requests'[k] = requests[k],
           \A k \in Request : Sent(k) => Sent(k)'
    PROVE  MInv'
<1>1. Typed /\ (\A c \in Call : CallInv(c)) /\ NotTwice
  BY DEF MInv
<1>2. UNCHANGED <<ops, stage, asking, tries, results, pending_messages, futures, given_up>>
  BY DEF callVars
<1>3. \A k \in Request : (Sent(k)' <=> Sent(k)) /\ (Unread(k) => Unread(k)')
  BY <1>2 DEF Sent, Unread
<1>4. Typed'
  BY <1>1, <1>2 DEF Typed
<1>5. ASSUME NEW c \in Call
      PROVE  CallInv(c)'
  <2>1. UnderWay(c) /\ Own(c) /\ Fresh(c) /\ Past(c)
    BY <1>1 DEF CallInv
  <2>2. UnderWay(c)'
    BY <1>2, <2>1 DEF UnderWay, Active, Waits
  <2>3. Own(c)'
    BY <1>2, <2>1 DEF Own
  <2>4. Fresh(c)'
    BY <1>2, <1>3, <2>1 DEF Fresh, Active
  <2>5. Past(c)'
    BY <1>2, <1>3, <2>1 DEF Past, Active
  <2> QED
    BY <2>2, <2>3, <2>4, <2>5 DEF CallInv
<1>6. NotTwice'
  BY <1>1, <1>3 DEF NotTwice
<1> QED
  BY <1>4, <1>5, <1>6 DEF MInv

LEMMA ReadOrAnswerKeeps ==
    ASSUME MInv, NEW k \in Request, Read(k) \/ Answer(k)
    PROVE  MInv'
<1>1. requests \in [Request -> Fate]
  BY DEF MInv, Typed
<1>2. PICK fate \in {"read", "answered", "closed"} :
        requests' = [requests EXCEPT ![k] = fate] /\ requests[k] \in {"written", "read"}
  BY DEF Read, Answer
<1>3. UNCHANGED <<callVars, given_up>>
  BY DEF Read, Answer
<1>4. requests' \in [Request -> Fate]
  BY <1>1, <1>2 DEF Fate
<1> QED
  BY <1>1, <1>2, <1>3, <1>4, PeerStep DEF Sent

LEMMA RestartKeeps ==
    ASSUME MInv, NEW p \in Peer, Restart(p)
    PROVE  MInv'
<1>1. requests \in [Request -> Fate]
  BY DEF MInv, Typed
<1>2. UNCHANGED <<callVars, given_up>>
  BY DEF Restart
<1>3. \A k \in Request :
        \/ requests'[k] = requests[k]
        \/ requests[k] = "written" /\ requests'[k] = "reset"
        \/ requests[k] = "read" /\ requests'[k] = "closed"
  BY DEF Restart
<1>4. requests' \in [Request -> Fate]
  <2>1. requests' = [k \in Request |-> requests'[k]]
    BY DEF Restart
  <2>2. \A k \in Request : requests'[k] \in Fate
    BY <1>1, <1>3 DEF Fate
  <2> QED
    BY <2>1, <2>2
<1> QED
  BY <1>2, <1>3, <1>4, PeerStep DEF Sent

-----------------------------------------------------------------------------
(* Steps of the calls *)

\* A step of call c leaves the other calls and their requests alone.
OnlyCall(c) ==
    /\ ops' = ops
    /\ \A d \in Call \ {c} :
        /\ stage'[d] = stage[d] /\ asking'[d] = asking[d] /\ tries'[d] = tries[d]
        /\ results'[d] = results[d] /\ futures'[d] = futures[d]
    /\ \A k \in Request : k.call # c => requests'[k] = requests[k]
    /\ given_up \subseteq given_up'

LEMMA CallStepKeeps ==
    ASSUME MInv, NEW c \in Call, OnlyCall(c), Typed', CallInv(c)', NotTwice'
    PROVE  MInv'
<1>1. \A d \in Call : CallInv(d)
  BY DEF MInv
<1>2. ASSUME NEW d \in Call, d # c
      PROVE  CallInv(d)'
  <2>1. UnderWay(d) /\ Own(d) /\ Fresh(d) /\ Past(d)
    BY <1>1 DEF CallInv
  <2>2. /\ ops' = ops
        /\ stage'[d] = stage[d] /\ asking'[d] = asking[d] /\ tries'[d] = tries[d]
        /\ results'[d] = results[d] /\ futures'[d] = futures[d]
    BY <1>2 DEF OnlyCall
  <2>3. \A k \in Request : k.call = d =>
            requests'[k] = requests[k] /\ (Sent(k)' <=> Sent(k)) /\ (Unread(k) => Unread(k)')
    BY <1>2 DEF OnlyCall, Sent, Unread
  <2>4. UnderWay(d)'
    BY <2>1, <2>2 DEF UnderWay, Active, Waits
  <2>5. Own(d)'
    BY <2>1, <2>2, <2>3 DEF Own
  <2>6. Fresh(d)'
    BY <2>1, <2>2, <2>3 DEF Fresh, Active
  <2>7. Past(d)'
    BY <2>1, <2>2, <2>3 DEF Past, Active
  <2> QED
    BY <2>4, <2>5, <2>6, <2>7 DEF CallInv
<1> QED
  BY <1>2 DEF MInv

\* What was given up stays so: nothing is sent twice by a step that sends nothing.
LEMMA NothingSentKeeps ==
    ASSUME NotTwice, requests' = requests, given_up \subseteq given_up'
    PROVE  NotTwice'
BY DEF NotTwice, Sent, Unread

\* The request of the current try.
LEMMA CurrentFacts ==
    ASSUME Typed, NEW c \in Call, UnderWay(c), Active(c)
    PROVE  /\ Current(c) \in Request /\ Head(asking[c]) \in Peer
           /\ Current(c).call = c
           /\ Current(c).to = Head(asking[c])
           /\ Current(c).try = tries[c]
           /\ \A k \in Request : k.call = c /\ k.to = Head(asking[c]) /\ k.try = tries[c] =>
                k = Current(c)
<1>1. asking[c] \in Seq(Peer) /\ asking[c] # <<>> /\ Distinct(asking[c])
      /\ tries[c] \in 0..(RecursionLimit - 1)
  BY DEF Typed, UnderWay
<1>2. Head(asking[c]) \in Peer
  BY <1>1, RestFacts
<1> QED
  BY <1>1, <1>2 DEF Current, Request

LEMMA MakeKeeps ==
    ASSUME MInv, NEW c \in Call, c \in DOMAIN ops, NEW method, NEW peers \in Seq(Peer),
           peers # <<>>, Distinct(peers), Make(c, method, peers),
           method = "send_and_wait" => Len(peers) = 1
    PROVE  MInv'
<1>1. Typed /\ UnderWay(c) /\ Own(c) /\ Fresh(c) /\ Past(c) /\ NotTwice
  BY DEF MInv, CallInv
<1>2. /\ stage[c] = "idle" /\ ops[c].method = method
      /\ stage' = [stage EXCEPT ![c] = "connecting"]
      /\ asking' = [asking EXCEPT ![c] = peers]
      /\ UNCHANGED <<ops, tries, results, futures, requests, given_up>>
  BY DEF Make
<1>3. stage'[c] = "connecting" /\ asking'[c] = peers /\ tries'[c] = 0 /\ futures'[c] = None
  BY <1>1, <1>2 DEF Typed, UnderWay
<1>4. Typed'
  BY <1>1, <1>2 DEF Typed, Stages
<1>5. OnlyCall(c)
  BY <1>1, <1>2 DEF OnlyCall, Typed
<1>6. UnderWay(c)'
  BY <1>2, <1>3, LimitAssumption DEF UnderWay, Active, Waits
<1>7. Own(c)'
  BY <1>1, <1>2 DEF Own
<1>8. \A k \in Request : k.call = c => ~Sent(k)
  BY <1>1, <1>2 DEF Fresh
<1>9. Fresh(c)'
  BY <1>2, <1>8 DEF Fresh, Sent
<1>10. Past(c)'
  BY <1>2, <1>8 DEF Past, Sent, Unread
<1>11. NotTwice'
  BY <1>1, <1>2, NothingSentKeeps
<1> QED
  BY <1>4, <1>5, <1>6, <1>7, <1>9, <1>10, <1>11, CallStepKeeps DEF CallInv

LEMMA ConnectKeeps ==
    ASSUME MInv, NEW c \in Call, Connect(c)
    PROVE  MInv'
<1>1. Typed /\ UnderWay(c) /\ Own(c) /\ Fresh(c) /\ Past(c) /\ NotTwice
  BY DEF MInv, CallInv
<1>2. /\ stage[c] = "connecting" /\ Active(c)
      /\ requests' = [requests EXCEPT ![Current(c)] = "written"]
      /\ stage' = [stage EXCEPT ![c] = "reading"]
      /\ UNCHANGED <<ops, asking, tries, results, futures, given_up>>
  BY DEF Connect, Active
<1>3. PICK r \in Request :
        /\ r = Current(c) /\ r.call = c /\ r.to = Head(asking[c]) /\ r.try = tries[c]
        /\ \A k \in Request : k.call = c /\ k.to = Head(asking[c]) /\ k.try = tries[c] => k = r
  BY <1>1, <1>2, CurrentFacts
<1>4. /\ requests'[r] = "written"
      /\ \A k \in Request : k # r => requests'[k] = requests[k]
  BY <1>1, <1>2, <1>3 DEF Typed
<1>5. /\ asking[c] \in Seq(Peer) /\ asking[c] # <<>> /\ Distinct(asking[c])
      /\ tries[c] \in 0..(RecursionLimit - 1) /\ tries[c] \in Nat
  BY <1>1, <1>2 DEF Typed, UnderWay
<1>6. \A k \in Request : k.try \in Nat
  BY LimitAssumption DEF Request
<1>7. ~Sent(r)
  BY <1>1, <1>2, <1>3, <1>5 DEF Fresh
<1>8. \A k \in Request : k # r => (Sent(k)' <=> Sent(k)) /\ (Unread(k)' <=> Unread(k))
  BY <1>2, <1>4 DEF Sent, Unread
<1>9. stage'[c] = "reading"
  BY <1>1, <1>2 DEF Typed
<1>10. Typed'
  BY <1>1, <1>2, <1>3 DEF Typed, Stages, Fate
<1>11. OnlyCall(c)
  BY <1>1, <1>2, <1>3, <1>4 DEF OnlyCall, Typed
<1>12. UnderWay(c)'
  BY <1>1, <1>2, <1>9 DEF UnderWay, Active, Waits
<1>13. Own(c)'
  <2>1. \A k \in Request : requests[k] = "answered" => requests'[k] = "answered"
    BY <1>4, <1>7 DEF Sent
  <2> QED
    BY <1>1, <1>2, <2>1 DEF Own
<1>14. Fresh(c)'
  <2>1. r.to \notin Elements(Tail(asking[c]))
    BY <1>3, <1>5, RestFacts
  <2>2. ASSUME NEW k \in Request, k.call = c, Sent(k)'
        PROVE  /\ k.to \notin Elements(Tail(asking[c]))
               /\ k.to = Head(asking[c]) => k.try < tries[c] \/ k.try = tries[c]
    <3>1. CASE k = r
      BY <1>3, <2>1, <3>1
    <3>2. CASE k # r
      BY <1>1, <1>2, <1>8, <2>2, <3>2 DEF Fresh
    <3> QED
      BY <3>1, <3>2
  <2> QED
    BY <1>2, <1>9, <2>2 DEF Fresh
<1>15. Past(c)'
  <2>1. ASSUME NEW k \in Request, k.call = c, k.to = Head(asking[c]), k.try < tries[c]
        PROVE  Unread(k)'
    <3>1. k # r
      BY <1>3, <1>5, <2>1
    <3> QED
      BY <1>1, <1>2, <1>8, <2>1, <3>1 DEF Past
  <2> QED
    BY <1>2, <2>1 DEF Past
<1>16. NotTwice'
  <2> SUFFICES ASSUME NEW j \in Request, NEW k \in Request,
                      j.call = k.call, j.to = k.to, j.try < k.try, Sent(k)'
               PROVE  Unread(j)'
    BY DEF NotTwice
  <2>1. CASE j = r
    <3>1. k # r
      BY <1>6, <2>1
    <3>2. Sent(k) /\ k.call = c /\ k.to = Head(asking[c]) /\ tries[c] < k.try
      BY <1>3, <1>8, <2>1, <3>1
    <3>3. k.try < tries[c] \/ k.try = tries[c]
      BY <1>1, <1>2, <3>2 DEF Fresh
    <3> QED
      BY <1>5, <1>6, <3>2, <3>3
  <2>2. CASE j # r /\ k = r
    BY <1>1, <1>2, <1>3, <1>8, <2>2 DEF Past
  <2>3. CASE j # r /\ k # r
    BY <1>1, <1>8, <2>3 DEF NotTwice
  <2> QED
    BY <2>1, <2>2, <2>3
<1> QED
  BY <1>10, <1>11, <1>12, <1>13, <1>14, <1>15, <1>16, CallStepKeeps DEF CallInv

\* A try ends with an exception, and nobody can read its request any more or its
\* answer was given up.
LEMMA FailedKeeps ==
    ASSUME MInv, NEW c \in Call, stage[c] \in {"connecting", "reading"}, Failed(c),
           requests' = requests, given_up \subseteq given_up',
           NEW r \in Request, r = Current(c), Unread(r)'
    PROVE  MInv'
<1>1. Typed /\ UnderWay(c) /\ Own(c) /\ Fresh(c) /\ Past(c) /\ NotTwice
  BY DEF MInv, CallInv
<1>2. Active(c)
  BY DEF Active
<1>3. /\ tries' = [tries EXCEPT ![c] = @ + 1]
      /\ stage' = [stage EXCEPT ![c] =
                     IF tries[c] + 1 < RecursionLimit THEN "asleep" ELSE "raised"]
      /\ UNCHANGED <<ops, asking, results, futures>>
  BY DEF Failed
<1>4. tries[c] \in Nat
  BY <1>1 DEF Typed
<1>5. /\ tries'[c] = tries[c] + 1
      /\ stage'[c] = IF tries[c] + 1 < RecursionLimit THEN "asleep" ELSE "raised"
  BY <1>1, <1>3 DEF Typed
<1>6. \A k \in Request : k.try \in Nat
  BY LimitAssumption DEF Request
<1>7. stage'[c] # "idle" /\ (Active(c)' => tries[c] + 1 < RecursionLimit)
  BY <1>5 DEF Active
<1>8. \A k \in Request : (Sent(k)' <=> Sent(k)) /\ (Unread(k) => Unread(k)')
  BY DEF Sent, Unread
<1>9. \A k \in Request : k.call = c /\ k.to = Head(asking[c]) /\ k.try = tries[c] => Unread(k)'
  BY <1>1, <1>2, CurrentFacts
<1>10. Typed'
  <2>1. tries' \in [Call -> Nat]
    BY <1>1, <1>3, <1>4 DEF Typed
  <2>2. stage' \in [Call -> Stages]
    BY <1>1, <1>3 DEF Typed, Stages
  <2> QED
    BY <1>1, <1>3, <2>1, <2>2 DEF Typed
<1>11. OnlyCall(c)
  BY <1>1, <1>3 DEF OnlyCall, Typed
<1>12. UnderWay(c)'
  <2>1. Active(c)' => tries'[c] \in 0..(RecursionLimit - 1)
    BY <1>4, <1>5, <1>7, LimitAssumption
  <2> QED
    BY <1>1, <1>2, <1>3, <1>7, <2>1 DEF UnderWay, Waits
<1>13. Own(c)'
  BY <1>1, <1>3 DEF Own
<1>14. Fresh(c)'
  <2> SUFFICES ASSUME NEW k \in Request, k.call = c, Sent(k)', Active(c)'
               PROVE  /\ k.to \notin Elements(Tail(asking'[c]))
                      /\ k.to = Head(asking'[c]) => k.try < tries'[c]
    BY <1>7 DEF Fresh
  <2>1. /\ k.to \notin Elements(Tail(asking[c]))
        /\ k.to = Head(asking[c]) => k.try < tries[c] \/ k.try = tries[c]
    BY <1>1, <1>2, <1>8 DEF Fresh
  <2> QED
    BY <1>3, <1>4, <1>5, <1>6, <2>1
<1>15. Past(c)'
  <2> SUFFICES ASSUME NEW k \in Request, k.call = c, k.to = Head(asking'[c]), k.try < tries'[c]
               PROVE  Unread(k)'
    BY DEF Past
  <2>1. k.to = Head(asking[c]) /\ (k.try < tries[c] \/ k.try = tries[c])
    BY <1>3, <1>4, <1>5, <1>6
  <2> QED
    BY <1>1, <1>2, <1>8, <1>9, <2>1 DEF Past
<1>16. NotTwice'
  BY <1>1, NothingSentKeeps
<1> QED
  BY <1>10, <1>11, <1>12, <1>13, <1>14, <1>15, <1>16, CallStepKeeps DEF CallInv

\* The current peer is done with, and the call goes on to the next one.
LEMMA ReturnsKeeps ==
    ASSUME MInv, NEW c \in Call, stage[c] \in {"reading", "future"}, Returns(c),
           UNCHANGED <<ops, requests, given_up>>,
           futures' \in [Call -> Call \cup {None}],
           \A d \in Call \ {c} : futures'[d] = futures[d],
           Waits(c) \/ futures'[c] = None,
           NEW a \in {c, None}, results' = [results EXCEPT ![c][Current(c).to] = a],
           a = c => \E k \in Request : /\ k.call = c /\ k.to = Current(c).to
                                       /\ requests[k] = "answered"
    PROVE  MInv'
<1>1. Typed /\ UnderWay(c) /\ Own(c) /\ Fresh(c) /\ Past(c) /\ NotTwice
  BY DEF MInv, CallInv
<1>2. Active(c)
  BY DEF Active
<1>3. PICK r \in Request, p \in Peer :
        r = Current(c) /\ r.call = c /\ r.to = p /\ p = Head(asking[c])
  BY <1>1, <1>2, CurrentFacts
<1>4. /\ asking[c] \in Seq(Peer) /\ asking[c] # <<>> /\ Distinct(asking[c])
      /\ c \in DOMAIN ops /\ (Waits(c) => Len(asking[c]) = 1)
  BY <1>1, <1>2 DEF Typed, UnderWay
<1>5. /\ stage' = [stage EXCEPT ![c] = IF Len(asking[c]) > 1 THEN "connecting" ELSE "returned"]
      /\ asking' = [asking EXCEPT ![c] = Tail(@)]
      /\ tries' = [tries EXCEPT ![c] = 0]
      /\ results' = [results EXCEPT ![c][p] = a]
  BY <1>3 DEF Returns
<1>6. Tail(asking[c]) \in Seq(Peer) /\ Distinct(Tail(asking[c]))
      /\ (Len(asking[c]) > 1 => Tail(asking[c]) # <<>>)
  BY <1>4, RestFacts
<1>7. /\ stage'[c] = IF Len(asking[c]) > 1 THEN "connecting" ELSE "returned"
      /\ asking'[c] = Tail(asking[c]) /\ tries'[c] = 0
      /\ \A q \in Peer : results'[c][q] = IF q = p THEN a ELSE results[c][q]
  BY <1>1, <1>5 DEF Typed
<1>8. Active(c)' => Len(asking[c]) > 1 /\ ~Waits(c)
  <2>1. Active(c)' => Len(asking[c]) > 1
    BY <1>7 DEF Active
  <2>2. ASSUME Waits(c) PROVE ~(Len(asking[c]) > 1)
    <3>1. Len(asking[c]) = 1
      BY <1>4, <2>2
    <3> QED
      BY <3>1
  <2> QED
    BY <2>1, <2>2
<1>9. Typed'
  <2>1. stage' \in [Call -> Stages] /\ asking' \in [Call -> Seq(Peer)] /\ tries' \in [Call -> Nat]
    BY <1>1, <1>5, <1>6 DEF Typed, Stages
  <2>2. results' \in [Call -> [Peer -> Call \cup {None}]]
    <3>1. results \in [Call -> [Peer -> Call \cup {None}]] /\ results[c] \in [Peer -> Call \cup {None}]
      BY <1>1 DEF Typed
    <3>2. [results[c] EXCEPT ![p] = a] \in [Peer -> Call \cup {None}]
      BY <3>1
    <3> QED
      BY <1>5, <3>1, <3>2
  <2> QED
    BY <1>1, <2>1, <2>2 DEF Typed
<1>10. OnlyCall(c)
  BY <1>1, <1>5 DEF OnlyCall, Typed
<1>11. UnderWay(c)'
  <2>1. stage'[c] # "idle"
    BY <1>7
  <2> QED
    BY <1>4, <1>6, <1>7, <1>8, <2>1, LimitAssumption DEF UnderWay, Waits
<1>12. Own(c)'
  <2> SUFFICES ASSUME NEW q \in Peer, results'[c][q] # None
               PROVE  /\ results'[c][q] = c
                      /\ \E k \in Request : k.call = c /\ k.to = q /\ requests[k] = "answered"
    BY DEF Own
  <2>1. CASE q = p
    BY <1>3, <1>7, <2>1
  <2>2. CASE q # p
    BY <1>1, <1>7, <2>2 DEF Own
  <2> QED
    BY <2>1, <2>2
<1>13. Fresh(c)'
  <2> SUFFICES ASSUME NEW k \in Request, k.call = c, Sent(k), Active(c)'
               PROVE  /\ k.to \notin Elements(Tail(asking'[c]))
                      /\ k.to # Head(asking'[c])
    BY <1>7 DEF Fresh, Sent
  <2>1. k.to \notin Elements(Tail(asking[c]))
    BY <1>1, <1>2 DEF Fresh
  <2>2. Tail(asking[c]) # <<>>
    BY <1>6, <1>8
  <2>3. /\ Head(Tail(asking[c])) \in Elements(Tail(asking[c]))
        /\ Elements(Tail(Tail(asking[c]))) \subseteq Elements(Tail(asking[c]))
    BY <1>6, <2>2, RestFacts
  <2> QED
    BY <1>7, <2>1, <2>3
<1>14. Past(c)'
  <2>1. \A k \in Request : ~(k.try < 0)
    BY LimitAssumption DEF Request
  <2> QED
    BY <1>7, <2>1 DEF Past
<1>15. NotTwice'
  BY <1>1, NothingSentKeeps
<1> QED
  BY <1>9, <1>10, <1>11, <1>12, <1>13, <1>14, <1>15, CallStepKeeps DEF CallInv

\* The call goes to another stage, and nothing else happens.
LEMMA StageKeeps ==
    ASSUME MInv, NEW c \in Call, Active(c), NEW st, stage' = [stage EXCEPT ![c] = st],
           (stage[c] = "reading" /\ st = "future") \/ (stage[c] = "asleep" /\ st = "connecting"),
           UNCHANGED <<ops, asking, tries, results, futures, requests, given_up>>
    PROVE  MInv'
<1>1. Typed /\ UnderWay(c) /\ Own(c) /\ Fresh(c) /\ Past(c) /\ NotTwice
  BY DEF MInv, CallInv
<1>2. stage'[c] = st /\ st \in {"future", "connecting"}
  BY <1>1 DEF Typed
<1>3. Typed'
  BY <1>1, <1>2 DEF Typed, Stages
<1>4. OnlyCall(c)
  BY <1>1 DEF OnlyCall, Typed
<1>5. UnderWay(c)'
  BY <1>1, <1>2 DEF UnderWay, Waits
<1>6. Own(c)'
  BY <1>1 DEF Own
<1>7. Fresh(c)'
  <2> SUFFICES ASSUME NEW k \in Request, k.call = c, Sent(k)
               PROVE  /\ k.to \notin Elements(Tail(asking[c]))
                      /\ k.to = Head(asking[c]) =>
                            k.try < tries[c] \/ (k.try = tries[c] /\ st \in {"reading", "future"})
    BY <1>2 DEF Fresh, Sent
  <2>1. /\ k.to \notin Elements(Tail(asking[c]))
        /\ k.to = Head(asking[c]) =>
              k.try < tries[c] \/ (k.try = tries[c] /\ stage[c] \in {"reading", "future"})
    BY <1>1 DEF Fresh
  <2>2. CASE stage[c] = "reading" /\ st = "future"
    <3>1. st \in {"reading", "future"}
      BY <2>2
    <3> QED
      BY <2>1, <3>1
  <2>3. CASE stage[c] = "asleep" /\ st = "connecting"
    <3>1. stage[c] \notin {"reading", "future"}
      BY <2>3
    <3> QED
      BY <2>1, <3>1
  <2> QED
    BY <2>2, <2>3
<1>8. Past(c)'
  BY <1>1 DEF Past, Unread
<1>9. NotTwice'
  BY <1>1, NothingSentKeeps
<1> QED
  BY <1>3, <1>4, <1>5, <1>6, <1>7, <1>8, <1>9, CallStepKeeps DEF CallInv

LEMMA HearKeeps ==
    ASSUME MInv, NEW c \in Call, Hear(c)
    PROVE  MInv'
<1>1. Typed /\ UnderWay(c)
  BY DEF MInv, CallInv
<1>2. stage[c] = "reading" /\ Active(c) /\ requests' = requests /\ given_up' = given_up
  BY DEF Hear, Active
<1>3. futures \in [Call -> Call \cup {None}] /\ futures[c] = None /\ results \in [Call -> [Peer -> Call \cup {None}]]
  BY <1>1, <1>2 DEF Typed, UnderWay
<1>4. CASE requests[Current(c)] = "answered" /\ Answered(c)
  <2>1. /\ ops' = ops
        /\ futures' = IF Waits(c) THEN [futures EXCEPT ![c] = c] ELSE futures
    BY <1>4 DEF Answered, FutureOf
  <2>2. /\ futures' \in [Call -> Call \cup {None}]
        /\ \A d \in Call \ {c} : futures'[d] = futures[d]
        /\ Waits(c) => futures'[c] = c /\ futures'[c] # None
        /\ Waits(c) \/ futures'[c] = None
    BY <1>3, <2>1, CallAssumption
  <2>3. /\ results' = [results EXCEPT ![c][Current(c).to] = IF Waits(c) THEN futures'[c] ELSE c]
        /\ Returns(c)
    BY <1>4, <2>2 DEF Answered
  <2>4. results' = [results EXCEPT ![c][Current(c).to] = c]
    BY <2>2, <2>3
  <2>5. \E k \in Request : k.call = c /\ k.to = Current(c).to /\ requests[k] = "answered"
    BY <1>1, <1>2, <1>4, CurrentFacts
  <2> QED
    BY <1>2, <2>1, <2>2, <2>3, <2>4, <2>5, ReturnsKeeps
<1>5. CASE requests[Current(c)] = "closed" /\ Closed(c)
  <2>1. UNCHANGED <<ops, results, futures>>
    BY <1>5 DEF Closed
  <2>2. CASE Waits(c)
    <3>1. stage' = [stage EXCEPT ![c] = "future"] /\ UNCHANGED <<asking, tries>>
      BY <1>5, <2>2 DEF Closed
    <3> QED
      BY <1>2, <2>1, <3>1, StageKeeps
  <2>3. CASE ~Waits(c)
    <3>1. PICK p \in Peer : p = Current(c).to
      BY <1>1, <1>2, CurrentFacts
    <3>2. Own(c)
      BY DEF MInv, CallInv
    <3>3. PICK a \in {c, None} : a = results[c][p]
      BY <3>2 DEF Own
    <3>4. results' = [results EXCEPT ![c][p] = a]
      BY <1>3, <2>1, <3>3
    <3>5. a = c => \E k \in Request : k.call = c /\ k.to = p /\ requests[k] = "answered"
      BY <3>2, <3>3, CallAssumption DEF Own
    <3>6. Returns(c)
      BY <1>5, <2>3 DEF Closed
    <3> QED
      BY <1>2, <1>3, <2>1, <3>1, <3>4, <3>5, <3>6, ReturnsKeeps
  <2> QED
    BY <2>2, <2>3
<1>6. CASE requests[Current(c)] = "reset" /\ Failed(c)
  <2>1. PICK r \in Request : r = Current(c)
    BY <1>1, <1>2, CurrentFacts
  <2>2. Unread(r)'
    BY <1>2, <1>6, <2>1 DEF Unread
  <2> QED
    BY <1>2, <1>6, <2>1, <2>2, FailedKeeps
<1> QED
  BY <1>4, <1>5, <1>6 DEF Hear

LEMMA TryFailsKeeps ==
    ASSUME MInv, NEW c \in Call, ConnectFails(c) \/ GiveUp(c)
    PROVE  MInv'
<1>1. Typed /\ UnderWay(c) /\ Fresh(c) /\ tries[c] \in Nat
  BY DEF MInv, CallInv, Typed
<1>2. stage[c] \in {"connecting", "reading"} /\ Active(c) /\ Failed(c) /\ requests' = requests
  BY DEF ConnectFails, GiveUp, Active
<1>3. PICK r \in Request :
        r = Current(c) /\ r.call = c /\ r.to = Head(asking[c]) /\ r.try = tries[c]
  BY <1>1, <1>2, CurrentFacts
<1>4. given_up \subseteq given_up' /\ Unread(r)'
  <2>1. CASE ConnectFails(c)
    <3>1. stage[c] = "connecting" /\ given_up' = given_up
      BY <2>1 DEF ConnectFails
    <3>2. ~Sent(r)
      BY <1>1, <1>2, <1>3, <3>1 DEF Fresh
    <3> QED
      BY <1>2, <3>1, <3>2 DEF Sent, Unread
  <2>2. CASE GiveUp(c)
    BY <1>3, <2>2 DEF GiveUp, Unread
  <2> QED
    BY <2>1, <2>2
<1> QED
  BY <1>2, <1>3, <1>4, FailedKeeps

LEMMA FutureEndsKeeps ==
    ASSUME MInv, NEW c \in Call, FutureEnds(c)
    PROVE  MInv'
<1>1. Typed /\ UnderWay(c)
  BY DEF MInv, CallInv
<1>2. stage[c] = "future" /\ Active(c)
  BY DEF FutureEnds, Active
<1>3. futures \in [Call -> Call \cup {None}] /\ futures[c] = None /\ None # c
  BY <1>1, <1>2, CallAssumption DEF Typed, UnderWay
<1>4. /\ results' = [results EXCEPT ![c][Current(c).to] = None]
      /\ Returns(c) /\ UNCHANGED <<ops, futures, requests, given_up>>
  BY <1>3 DEF FutureEnds
<1> QED
  BY <1>2, <1>3, <1>4, ReturnsKeeps

THEOREM MStep == MInv /\ [Next]_vars => MInv'
<1> SUFFICES ASSUME MInv, [Next]_vars PROVE MInv'
  OBVIOUS
<1>1. /\ DOMAIN ops \subseteq Call
      /\ \A c \in DOMAIN ops : ops[c] \in Op
  BY DEF MInv, Typed
<1>2. ASSUME NEW c \in DOMAIN ops, SendMessage(c)
      PROVE  MInv'
  <2>1. ops[c].method = "send_message"
    BY <1>2 DEF SendMessage, Make
  <2>2. ops[c].to \in Peer
    BY <1>1, <2>1 DEF Op
  <2> QED
    BY <1>1, <1>2, <2>2, SingleFacts, MakeKeeps DEF SendMessage
<1>3. ASSUME NEW c \in DOMAIN ops, SendAndWait(c)
      PROVE  MInv'
  <2>1. ops[c].method = "send_and_wait"
    BY <1>3 DEF SendAndWait, Make
  <2>2. ops[c].to \in Peer
    BY <1>1, <2>1 DEF Op
  <2> QED
    BY <1>1, <1>3, <2>2, SingleFacts, MakeKeeps DEF SendAndWait
<1>4. ASSUME NEW c \in DOMAIN ops, Broadcast(c)
      PROVE  MInv'
  <2>1. PeerList \in Seq(Peer) /\ PeerList # <<>> /\ Distinct(PeerList)
    BY PeerAssumption DEF Distinct
  <2> QED
    BY <1>1, <1>4, <2>1, MakeKeeps DEF Broadcast
<1>5. ASSUME NEW c \in Call, Retry(c)
      PROVE  MInv'
  BY <1>5, StageKeeps DEF Retry, Active
<1>6. CASE UNCHANGED vars
  <2>1. requests \in [Request -> Fate]
    BY DEF MInv, Typed
  <2> QED
    BY <1>6, <2>1, PeerStep DEF vars, Sent
<1> QED
  BY <1>2, <1>3, <1>4, <1>5, <1>6, ConnectKeeps, TryFailsKeeps, HearKeeps, FutureEndsKeeps,
     ReadOrAnswerKeeps, RestartKeeps DEF Next, CallStep

THEOREM MInvariant == Spec => []MInv
BY MInit, MStep, PTL DEF Spec

\* What a call returns for a peer is that peer's answer to a request of its own,
\* however calls of one type overlap and whichever connections are still served.
THEOREM CallsGetOwnAnswers == Spec => []AnswersAreOwn
<1>1. MInv => AnswersAreOwn
  BY DEF MInv, CallInv, Own, AnswersAreOwn
<1> QED
  BY <1>1, MInvariant, PTL

\* No peer reads a call twice, unless the answer to the earlier try was late or
\* unreadable.
THEOREM RepeatsFollowGivingUp == Spec => []RepeatedOnlyAfterGivingUp
<1>1. MInv => RepeatedOnlyAfterGivingUp
  <2> SUFFICES ASSUME MInv, NEW j \in Request, NEW k \in Request,
                      WasRead(j), WasRead(k),
                      j.call = k.call, j.to = k.to, j.try < k.try
               PROVE  j \in given_up
    BY DEF RepeatedOnlyAfterGivingUp
  <2>1. Sent(k)
    BY DEF WasRead, Sent
  <2>2. Unread(j)
    BY <2>1 DEF MInv, NotTwice
  <2> QED
    BY <2>2 DEF WasRead, Unread
<1> QED
  BY <1>1, MInvariant, PTL

-----------------------------------------------------------------------------
(***************************************************************************)
(* A call comes to its end: every step it takes uses up some of the steps  *)
(* it can still take, which are so many for each try of each peer.         *)
(***************************************************************************)
Phase == [asleep |-> 0, connecting |-> 1, reading |-> 2, future |-> 3]

\* The tries a call can still make, the current one among them.
TriesLeft(c) == (Len(asking[c]) - 1) * RecursionLimit + (RecursionLimit - tries[c])
StepsLeft(c) == IF Active(c) THEN 4 * TriesLeft(c) - Phase[stage[c]] ELSE 0

\* A call that was made makes no step that does not bring its end nearer,
\* however often the peers die or close: it asks no peer of its list twice and
\* never goes back to a try that it left.  When it has ended it stays so.
CallsRunDown ==
    [][\A c \in Call : stage[c] # "idle" =>
         \/ stage'[c] = stage[c] /\ asking'[c] = asking[c] /\ tries'[c] = tries[c]
         \/ Active(c) /\ stage'[c] # "idle" /\ StepsLeft(c)' < StepsLeft(c)]_vars

\* What is left is never more than four steps for each try of each peer, and
\* nothing is left only when the call has returned or raised.
CallsAreBounded ==
    \A c \in Call :
        /\ StepsLeft(c) \in 0..(4 * Len(PeerList) * RecursionLimit)
        /\ stage[c] # "idle" /\ StepsLeft(c) = 0 => stage[c] \in {"returned", "raised"}

AskingBounded == \A c \in Call : Active(c) => Len(asking[c]) <= Len(PeerList)

LEMMA OneLess ==
    ASSUME NEW m \in Int, NEW r \in Int
    PROVE  (m - 1) * r = m * r - r
OBVIOUS

LEMMA MoreIsMore ==
    ASSUME NEW m \in Nat, NEW n \in Nat, m <= n, NEW r \in Nat
    PROVE  m * r \in Nat /\ n * r \in Nat /\ m * r <= n * r
OBVIOUS

\* The terms of StepsLeft for a call that is under way.
LEMMA LeftFacts ==
    ASSUME MInv, NEW c \in Call, Active(c)
    PROVE  /\ Len(asking[c]) \in Nat \ {0} /\ tries[c] \in Nat /\ RecursionLimit \in Nat
           /\ tries[c] < RecursionLimit
           /\ (Len(asking[c]) - 1) * RecursionLimit \in Nat
           /\ Phase[stage[c]] \in 0..3
           /\ StepsLeft(c) = 4 * ((Len(asking[c]) - 1) * RecursionLimit
                                  + (RecursionLimit - tries[c])) - Phase[stage[c]]
           /\ StepsLeft(c) \in Nat \ {0}
           /\ asking[c] \in Seq(Peer) /\ asking[c] # <<>>
<1>1. /\ asking[c] \in Seq(Peer) /\ asking[c] # <<>>
      /\ tries[c] \in 0..(RecursionLimit - 1) /\ RecursionLimit \in Nat
  BY LimitAssumption DEF MInv, CallInv, UnderWay, Typed
<1>2. Len(asking[c]) \in Nat \ {0}
  BY <1>1, EmptySeq, LenProperties
<1>3. Phase[stage[c]] \in 0..3
  BY DEF Active, Phase
<1>4. Len(asking[c]) - 1 \in Nat
  BY <1>2
<1>5. (Len(asking[c]) - 1) * RecursionLimit \in Nat
  BY <1>1, <1>4, MoreIsMore
<1>6. StepsLeft(c) = 4 * ((Len(asking[c]) - 1) * RecursionLimit
                          + (RecursionLimit - tries[c])) - Phase[stage[c]]
  BY DEF StepsLeft, TriesLeft
<1> DEFINE x == (Len(asking[c]) - 1) * RecursionLimit
<1>7. StepsLeft(c) = 4 * (x + (RecursionLimit - tries[c])) - Phase[stage[c]] /\ x \in Nat
  BY <1>5, <1>6
<1> HIDE DEF x
<1>8. StepsLeft(c) \in Nat \ {0}
  BY <1>1, <1>3, <1>7
<1> QED
  BY <1>1, <1>2, <1>3, <1>5, <1>6, <1>8

\* The next stage of the same try.
LEMMA OnwardRunsDown ==
    ASSUME MInv, NEW c \in Call, Active(c), Active(c)',
           asking' = asking, tries' = tries,
           Phase[stage'[c]] = Phase[stage[c]] + 1
    PROVE  StepsLeft(c)' < StepsLeft(c)
<1> DEFINE x == TriesLeft(c)
<1>1. x \in Int
  BY LeftFacts DEF TriesLeft
<1>2. StepsLeft(c) = 4 * x - Phase[stage[c]] /\ StepsLeft(c)' = 4 * x - Phase[stage'[c]]
  BY DEF StepsLeft, TriesLeft
<1>3. Phase[stage[c]] \in 0..3
  BY LeftFacts
<1> HIDE DEF x
<1> QED
  BY <1>1, <1>2, <1>3

\* The end of the call.
LEMMA EndRunsDown ==
    ASSUME MInv, NEW c \in Call, Active(c), stage'[c] \in {"returned", "raised"}
    PROVE  stage'[c] # "idle" /\ StepsLeft(c)' < StepsLeft(c)
<1>1. StepsLeft(c)' = 0
  BY DEF StepsLeft, Active
<1> QED
  BY <1>1, LeftFacts

LEMMA FailedRunsDown ==
    ASSUME MInv, NEW c \in Call, stage[c] \in {"connecting", "reading"}, Failed(c)
    PROVE  stage'[c] # "idle" /\ StepsLeft(c)' < StepsLeft(c)
<1>1. Active(c)
  BY DEF Active
<1>2. /\ asking' = asking /\ tries'[c] = tries[c] + 1
      /\ stage'[c] = IF tries[c] + 1 < RecursionLimit THEN "asleep" ELSE "raised"
  BY DEF Failed, MInv, Typed
<1>3. CASE stage'[c] = "asleep"
  <2> DEFINE x == (Len(asking[c]) - 1) * RecursionLimit
  <2>1. x \in Nat /\ tries[c] \in Nat /\ RecursionLimit \in Nat /\ Phase[stage[c]] \in 0..3
    BY <1>1, LeftFacts
  <2>2. StepsLeft(c) = 4 * (x + (RecursionLimit - tries[c])) - Phase[stage[c]]
    BY <1>1, LeftFacts
  <2>3. Active(c)' /\ Phase[stage'[c]] = 0
    BY <1>3 DEF Active, Phase
  <2>4. StepsLeft(c)' = 4 * (x + (RecursionLimit - (tries[c] + 1))) - 0
    BY <1>2, <2>3 DEF StepsLeft, TriesLeft
  <2> HIDE DEF x
  <2> QED
    BY <1>3, <2>1, <2>2, <2>4
<1>4. CASE stage'[c] = "raised"
  BY <1>1, <1>4, EndRunsDown
<1> QED
  BY <1>2, <1>3, <1>4

LEMMA ReturnsRunsDown ==
    ASSUME MInv, NEW c \in Call, stage[c] \in {"reading", "future"}, Returns(c)
    PROVE  stage'[c] # "idle" /\ StepsLeft(c)' < StepsLeft(c)
<1>1. Active(c)
  BY DEF Active
<1>2. /\ asking'[c] = Tail(asking[c]) /\ tries'[c] = 0
      /\ stage'[c] = IF Len(asking[c]) > 1 THEN "connecting" ELSE "returned"
  BY DEF Returns, MInv, Typed
<1>3. CASE stage'[c] = "connecting"
  <2> DEFINE m == Len(asking[c]) - 1
             x == m * RecursionLimit
  <2>1. /\ x \in Nat /\ m \in Nat /\ tries[c] \in Nat /\ RecursionLimit \in Nat
        /\ tries[c] < RecursionLimit /\ Phase[stage[c]] \in 0..3
    BY <1>1, LeftFacts
  <2>2. StepsLeft(c) = 4 * (x + (RecursionLimit - tries[c])) - Phase[stage[c]]
    BY <1>1, LeftFacts
  <2>3. Active(c)' /\ Phase[stage'[c]] = 1
    BY <1>3 DEF Active, Phase
  <2>4. asking[c] \in Seq(Peer) /\ asking[c] # <<>>
    BY <1>1, LeftFacts
  <2>5. Len(asking'[c]) = m
    BY <1>2, <2>4, HeadTailProperties
  <2>6. StepsLeft(c)' = 4 * ((m - 1) * RecursionLimit + (RecursionLimit - 0)) - 1
    BY <1>2, <2>3, <2>5 DEF StepsLeft, TriesLeft
  <2>7. (m - 1) * RecursionLimit = x - RecursionLimit
    BY <2>1, OneLess
  <2> HIDE DEF x, m
  <2> QED
    BY <1>3, <2>1, <2>2, <2>6, <2>7
<1>4. CASE stage'[c] = "returned"
  BY <1>1, <1>4, EndRunsDown
<1> QED
  BY <1>2, <1>3, <1>4

LEMMA OwnStepRunsDown ==
    ASSUME MInv, NEW c \in Call, CallStep(c)
    PROVE  Active(c) /\ stage'[c] # "idle" /\ StepsLeft(c)' < StepsLeft(c)
<1>1. stage \in [Call -> Stages]
  BY DEF MInv, Typed
<1>2. CASE Connect(c)
  <2>1. /\ stage[c] = "connecting" /\ stage'[c] = "reading"
        /\ asking' = asking /\ tries' = tries
    BY <1>1, <1>2 DEF Connect
  <2>2. Active(c) /\ Active(c)' /\ Phase[stage'[c]] = Phase[stage[c]] + 1
    BY <2>1 DEF Active, Phase
  <2> QED
    BY <2>1, <2>2, OnwardRunsDown
<1>3. CASE Retry(c)
  <2>1. /\ stage[c] = "asleep" /\ stage'[c] = "connecting"
        /\ asking' = asking /\ tries' = tries
    BY <1>1, <1>3 DEF Retry
  <2>2. Active(c) /\ Active(c)' /\ Phase[stage'[c]] = Phase[stage[c]] + 1
    BY <2>1 DEF Active, Phase
  <2> QED
    BY <2>1, <2>2, OnwardRunsDown
<1>4. CASE ConnectFails(c) \/ GiveUp(c)
  BY <1>4, FailedRunsDown DEF ConnectFails, GiveUp, Active
<1>5. CASE FutureEnds(c)
  BY <1>5, ReturnsRunsDown DEF FutureEnds, Active
<1>6. CASE Hear(c)
  <2>1. stage[c] = "reading" /\ Active(c)
    BY <1>6 DEF Hear, Active
  <2>2. CASE Failed(c)
    BY <2>1, <2>2, FailedRunsDown
  <2>3. CASE Returns(c)
    BY <2>1, <2>3, ReturnsRunsDown
  <2>4. CASE stage' = [stage EXCEPT ![c] = "future"] /\ UNCHANGED <<asking, tries>>
    <3>1. Active(c)' /\ stage'[c] = "future" /\ Phase[stage'[c]] = Phase[stage[c]] + 1
      BY <1>1, <2>1, <2>4 DEF Active, Phase
    <3> QED
      BY <2>1, <2>4, <3>1, OnwardRunsDown
  <2> QED
    BY <1>6, <2>2, <2>3, <2>4 DEF Hear, Answered, Closed
<1> QED
  BY <1>2, <1>3, <1>4, <1>5, <1>6 DEF CallStep

\* A step that is no step of call c leaves it where it is.
LEMMA OtherStepLeaves ==
    ASSUME MInv, NEW c \in Call, stage[c] # "idle", [Next]_vars, ~CallStep(c)
    PROVE  stage'[c] = stage[c] /\ asking'[c] = asking[c] /\ tries'[c] = tries[c]
<1>1. stage \in [Call -> Stages] /\ tries \in [Call -> Nat] /\ asking \in [Call -> Seq(Peer)]
  BY DEF MInv, Typed
<1>2. ASSUME NEW d \in DOMAIN ops, SendMessage(d) \/ Broadcast(d) \/ SendAndWait(d)
      PROVE  stage'[c] = stage[c] /\ asking'[c] = asking[c] /\ tries'[c] = tries[c]
  <2>1. d # c
    BY <1>2 DEF SendMessage, Broadcast, SendAndWait, Make
  <2> QED
    BY <1>1, <1>2, <2>1 DEF SendMessage, Broadcast, SendAndWait, Make
<1>3. ASSUME NEW d \in Call, d # c, CallStep(d)
      PROVE  stage'[c] = stage[c] /\ asking'[c] = asking[c] /\ tries'[c] = tries[c]
  BY <1>1, <1>3 DEF CallStep, Connect, ConnectFails, Hear, GiveUp, Retry, FutureEnds,
       Answered, Closed, Failed, Returns
<1>4. ASSUME UNCHANGED callVars
      PROVE  stage'[c] = stage[c] /\ asking'[c] = asking[c] /\ tries'[c] = tries[c]
  BY <1>4 DEF callVars
<1> QED
  BY <1>2, <1>3, <1>4 DEF Next, Read, Answer, Restart, vars

\* Every step a call takes after it was made brings its end nearer, for any
\* peers, calls and recursion limit.
THEOREM CallsComeToAnEnd == Spec => CallsRunDown
<1>1. ASSUME MInv, [Next]_vars
      PROVE  [\A c \in Call : stage[c] # "idle" =>
                \/ stage'[c] = stage[c] /\ asking'[c] = asking[c] /\ tries'[c] = tries[c]
                \/ Active(c) /\ stage'[c] # "idle" /\ StepsLeft(c)' < StepsLeft(c)]_vars
  BY <1>1, OwnStepRunsDown, OtherStepLeaves
<1> QED
  BY <1>1, MInvariant, PTL DEF Spec, CallsRunDown

LEMMA AskingNext ==
    ASSUME MInv, AskingBounded, [Next]_vars
    PROVE  AskingBounded'
<1> SUFFICES ASSUME NEW c \in Call, Active(c)'
             PROVE  Len(asking'[c]) <= Len(PeerList)
  BY DEF AskingBounded
<1>1. stage \in [Call -> Stages] /\ asking \in [Call -> Seq(Peer)]
  BY DEF MInv, Typed
<1>2. PeerList \in Seq(Peer) /\ Len(PeerList) \in Nat /\ 1 <= Len(PeerList)
  BY PeerAssumption, EmptySeq, LenProperties
<1>3. CASE stage[c] = "idle"
  <2>1. stage'[c] # stage[c]
    BY <1>3 DEF Active
  <2>2. ~CallStep(c)
    BY <1>3, OwnStepRunsDown DEF Active
  <2>3. ASSUME NEW d \in Call, d # c, CallStep(d)
        PROVE  FALSE
    BY <1>1, <2>1, <2>3 DEF CallStep, Connect, ConnectFails, Hear, GiveUp, Retry, FutureEnds,
         Answered, Closed, Failed, Returns
  <2>4. ~(UNCHANGED callVars)
    BY <2>1 DEF callVars
  <2>5. PICK d \in DOMAIN ops : SendMessage(d) \/ Broadcast(d) \/ SendAndWait(d)
    BY <2>2, <2>3, <2>4 DEF Next, Read, Answer, Restart, vars
  <2>6. d = c
    BY <1>1, <2>1, <2>5 DEF SendMessage, Broadcast, SendAndWait, Make
  <2>7. asking'[c] \in {PeerList, <<ops[c].to>>}
    BY <1>1, <2>5, <2>6 DEF SendMessage, Broadcast, SendAndWait, Make
  <2>8. Len(<<ops[c].to>>) = 1
    OBVIOUS
  <2> QED
    BY <1>2, <2>7, <2>8
<1>4. CASE stage[c] # "idle"
  <2>1. Active(c) /\ Len(asking[c]) <= Len(PeerList)
    <3>1. Active(c)
      BY <1>4, OwnStepRunsDown, OtherStepLeaves DEF Active
    <3> QED
      BY <3>1 DEF AskingBounded
  <2>2. asking[c] \in Seq(Peer) /\ asking[c] # <<>>
    BY <2>1, LeftFacts
  <2>3. Len(Tail(asking[c])) = Len(asking[c]) - 1 /\ Len(asking[c]) \in Nat
    BY <2>2, HeadTailProperties, LenProperties
  <2>4. asking'[c] = asking[c] \/ asking'[c] = Tail(asking[c])
    <3>1. ASSUME CallStep(c)
          PROVE  asking'[c] = asking[c] \/ asking'[c] = Tail(asking[c])
      BY <1>1, <3>1 DEF CallStep, Connect, ConnectFails, Hear, GiveUp, Retry, FutureEnds,
           Answered, Closed, Failed, Returns
    <3> QED
      BY <1>4, <3>1, OtherStepLeaves
  <2>5. Len(asking'[c]) \in {Len(asking[c]), Len(asking[c]) - 1}
    BY <2>3, <2>4
  <2> QED
    BY <1>2, <2>1, <2>3, <2>5
<1> QED
  BY <1>3, <1>4

\* A call takes four steps for each try of each peer at the most, and stops
\* nowhere but at its end.
THEOREM CallsTakeBoundedlyManySteps == Spec => []CallsAreBounded
<1>1. Init => AskingBounded
  BY DEF Init, AskingBounded, Active
<1>2. MInv /\ AskingBounded /\ [Next]_vars => AskingBounded'
  BY AskingNext
<1>3. MInv /\ AskingBounded => CallsAreBounded
  <2> SUFFICES ASSUME MInv, AskingBounded, NEW c \in Call
               PROVE  /\ StepsLeft(c) \in 0..(4 * Len(PeerList) * RecursionLimit)
                      /\ stage[c] # "idle" /\ StepsLeft(c) = 0 =>
                            stage[c] \in {"returned", "raised"}
    BY DEF CallsAreBounded
  <2>1. stage[c] \in Stages
    BY DEF MInv, Typed
  <2>2. Len(PeerList) \in Nat /\ RecursionLimit \in Nat
    BY PeerAssumption, LenProperties, LimitAssumption
  <2> DEFINE y == Len(PeerList) * RecursionLimit
  <2>3. y \in Nat /\ 4 * Len(PeerList) * RecursionLimit = 4 * y
    BY <2>2, MoreIsMore
  <2>4. CASE Active(c)
    <3> DEFINE n == Len(asking[c])
               x == n * RecursionLimit
    <3>1. /\ n \in Nat /\ tries[c] \in Nat /\ Phase[stage[c]] \in 0..3
          /\ StepsLeft(c) = 4 * ((n - 1) * RecursionLimit + (RecursionLimit - tries[c]))
                            - Phase[stage[c]]
          /\ StepsLeft(c) \in Nat \ {0}
      BY <2>4, LeftFacts
    <3>2. n <= Len(PeerList)
      BY <2>4 DEF AskingBounded
    <3>3. x \in Nat /\ x <= y
      BY <2>2, <3>1, <3>2, MoreIsMore
    <3>4. (n - 1) * RecursionLimit = x - RecursionLimit
      BY <2>2, <3>1, OneLess
    <3>5. StepsLeft(c) = 4 * ((x - RecursionLimit) + (RecursionLimit - tries[c]))
                         - Phase[stage[c]]
      BY <3>1, <3>4
    <3>6. StepsLeft(c) \in Nat /\ StepsLeft(c) # 0
      BY <3>1
    <3> HIDE DEF n, x, y
    <3>7. StepsLeft(c) <= 4 * y
      <4> DEFINE f == Phase[stage[c]]
                 t == tries[c]
      <4>1. f \in 0..3 /\ t \in Nat /\ StepsLeft(c) = 4 * ((x - RecursionLimit) + (RecursionLimit - t)) - f
        BY <3>1, <3>5
      <4> HIDE DEF f, t
      <4>2. 4 * ((x - RecursionLimit) + (RecursionLimit - t)) - f <= 4 * y
        BY <2>2, <2>3, <3>3, <4>1
      <4> QED
        BY <4>1, <4>2
    <3> QED
      BY <2>3, <3>6, <3>7
  <2>5. CASE ~Active(c)
    <3>1. StepsLeft(c) = 0
      BY <2>5 DEF StepsLeft
    <3>2. stage[c] \in {"idle", "returned", "raised"}
      BY <2>1, <2>5 DEF Active, Stages
    <3> HIDE DEF y
    <3> QED
      BY <2>3, <3>1, <3>2
  <2> QED
    BY <2>4, <2>5
<1> QED
  BY <1>1, <1>2, <1>3, MInvariant, PTL DEF Spec
=============================================================================
