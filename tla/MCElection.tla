----------------------------- MODULE MCElection ------------------------------
(* Small clusters without clients, for the election of a leader. *)
EXTENDS Election, TLC

CONSTANTS v1

Quiet == [n \in Node |-> {}]
=============================================================================
