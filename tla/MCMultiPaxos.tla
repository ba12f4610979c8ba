---------------------------- MODULE MCMultiPaxos ----------------------------
(* Small clusters.  Values are interchangeable; nodes are not, since the node *)
(* ID decides between ballots of one round.                                   *)
EXTENDS MultiPaxos, TLC

CONSTANTS v1, v2

(* Whose clients propose what. *)
TwoProposers   == 1 :> {v1} @@ 2 :> {v2} @@ 3 :> {}
Quiet          == 1 :> {} @@ 2 :> {} @@ 3 :> {}
AnyBytes       == 1 :> {v1, v2, Empty} @@ 2 :> {} @@ 3 :> {}
SteadyProposer == 1 :> {v1} @@ 2 :> {} @@ 3 :> {}
EmptyProposer  == 1 :> {Empty} @@ 2 :> {v2} @@ 3 :> {}

(* For runs whose clients treat both values alike. *)
Interchangeable == Permutations({v1, v2})

(* Explore an instance up to its first Commit: what follows is outside the    *)
(* properties of the runs that use this constraint.                           *)
BeforeCommit == \A i \in Instance : ~CommitIssued(i)
=============================================================================
