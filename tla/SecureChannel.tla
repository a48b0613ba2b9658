--------------------------- MODULE SecureChannel ----------------------------
(***************************************************************************)
(* What a session promises its two devices, whatever the network does: a   *)
(* channel that hands over only what the peer sent, in any order, each     *)
(* message at most once.                                                   *)
(***************************************************************************)
EXTENDS Integers

CONSTANTS
  Device,     \* the two ends
  MaxSend     \* bound: messages sent by one end

VARIABLES
  sent,       \* sent[d]: how many messages d sent, numbered from 1
  got         \* got[d][k]: how many times d was handed its peer's message k

vars == <<sent, got>>

Peer(d) == CHOOSE e \in Device : e # d

Init ==
  /\ sent = [d \in Device |-> 0]
  /\ got = [d \in Device |-> [k \in 1..MaxSend |-> 0]]

Send(d) ==
  /\ sent[d] < MaxSend
  /\ sent' = [sent EXCEPT ![d] = @ + 1]
  /\ UNCHANGED got

Deliver(d, k) ==
  /\ k <= sent[Peer(d)]
  /\ got[d][k] = 0
  /\ got' = [got EXCEPT ![d][k] = 1]
  /\ UNCHANGED sent

Next == \E d \in Device : Send(d) \/ \E k \in 1..MaxSend : Deliver(d, k)

Spec == Init /\ [][Next]_vars

(* With a network that keeps delivering, every message is handed over.     *)
LiveSpec == Spec /\ \A d \in Device, k \in 1..MaxSend : WF_vars(Deliver(d, k))
=============================================================================
