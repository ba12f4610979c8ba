------------------------------- MODULE Voter --------------------------------
(***************************************************************************)
(* What an acceptor owes the protocol, with no memory, disk, failed save   *)
(* or crash in sight: for every instance not yet released by a commit, one *)
(* promise that never goes down and one vote that only a ballot at or      *)
(* above the promise replaces.  A released instance is outside the         *)
(* contract.                                                               *)
(***************************************************************************)
EXTENDS Integers

CONSTANTS
  Instance,     \* the consensus instances
  Ballot,       \* the ballots the acceptor is asked about
  VoteValue,    \* the values it may vote for
  NoValue       \* the value of "no vote"

VARIABLES
  promised,     \* instance -> the highest ballot promised, 0 for none
  vote,         \* instance -> the last vote, ballot 0 for none
  released      \* instances whose state has been given up

vars == <<promised, vote, released>>

NoVote == [ballot |-> 0, value |-> NoValue]

Init ==
  /\ promised = [i \in Instance |-> 0]
  /\ vote = [i \in Instance |-> NoVote]
  /\ released = {}

Promise(i, b) ==
  /\ i \notin released
  /\ b >= promised[i]
  /\ promised' = [promised EXCEPT ![i] = b]
  /\ UNCHANGED <<vote, released>>

Vote(i, b, v) ==
  /\ i \notin released
  /\ b >= promised[i]
  /\ promised' = [promised EXCEPT ![i] = b]
  /\ vote' = [vote EXCEPT ![i] = [ballot |-> b, value |-> v]]
  /\ UNCHANGED released

Release(i) ==
  /\ released' = released \cup {i}
  /\ promised' = [promised EXCEPT ![i] = 0]
  /\ vote' = [vote EXCEPT ![i] = NoVote]

Next ==
  \E i \in Instance :
    \/ \E b \in Ballot : Promise(i, b)
    \/ \E b \in Ballot, v \in VoteValue : Vote(i, b, v)
    \/ Release(i)

Spec == Init /\ [][Next]_vars
=============================================================================
