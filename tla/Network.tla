------------------------------- MODULE Network -------------------------------
(***************************************************************************)
(* What the Transport interface promises its node, and what MultiPaxos     *)
(* assumes of it: a message arrives at its addressee at most once, as its  *)
(* sender's, and only if it was sent.  It may be lost and it may be late.  *)
(***************************************************************************)
EXTENDS Integers, Sequences

CONSTANTS Node, Message

VARIABLES
  sent,       \* the messages handed to Send and Broadcast
  received    \* node -> the envelopes taken from Receive()

vars == <<sent, received>>

Envelope == [from : Node, message : Message]

Init ==
  /\ sent = {}
  /\ received = [n \in Node |-> <<>>]

Send(M) ==
  /\ M \subseteq Message \ sent
  /\ sent' = sent \cup M
  /\ UNCHANGED received

Receive(n, m) ==
  /\ m \in sent
  /\ m.to = n
  /\ \A j \in 1 .. Len(received[n]) : received[n][j].message # m
  /\ received' = [received EXCEPT ![n] = Append(@, [from |-> m.from, message |-> m])]
  /\ UNCHANGED sent

Next ==
  \/ \E M \in SUBSET Message : Send(M)
  \/ \E n \in Node, m \in Message : Receive(n, m)

Spec == Init /\ [][Next]_vars
=============================================================================
