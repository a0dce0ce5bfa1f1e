-------------------------- MODULE MCMessagePassing --------------------------
(* An instance of MessagePassing for TLC: a broadcast, two send_and_wait of   *)
(* one type to one peer or to two, and one beside a send_message.             *)
EXTENDS MessagePassing, TLC

CONSTANTS p1, p2, c1, c2, t

BothPeers == <<p1, p2>>

To(method, peer) == [method |-> method, type |-> t, to |-> peer]

Workloads ==
    {c1 :> [method |-> "broadcast", type |-> t],
     c1 :> To("send_and_wait", p1) @@ c2 :> To("send_and_wait", p1),
     c1 :> To("send_and_wait", p1) @@ c2 :> To("send_and_wait", p2),
     c1 :> To("send_and_wait", p1) @@ c2 :> To("send_message", p1)}
=============================================================================
