------------------------------ MODULE MCReplica ------------------------------
(* Small clusters and a few commands of each example. *)
EXTENDS Replica

add(x) == [type |-> "ADD", amount |-> x]
set(k, v) == [type |-> "SET", key |-> k, value |-> v]
del(k) == [type |-> "DEL", key |-> k]

Commands == [n \in Node |->
  CASE n = 1 -> <<add(1), set("garbled", "v")>>
    [] n = 2 -> <<del("repaired"), add(-2)>>
    [] OTHER -> <<>>]

(* Node 3 proposes nothing; it votes, and learns. *)
Contested == [n \in Node |->
  CASE n = 1 -> <<add(1)>>
    [] n = 2 -> <<set("garbled", "v"), add(-2)>>
    [] OTHER -> <<>>]
=============================================================================
