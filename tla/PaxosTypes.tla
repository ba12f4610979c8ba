----------------------------- MODULE PaxosTypes -----------------------------
(***************************************************************************)
(* The data of paxos/types.go and paxos/message.go that the protocol tells *)
(* apart: ballots, values and the conversions a value goes through on the  *)
(* wire and on disk.                                                       *)
(*                                                                         *)
(* A Go []byte has two spellings of "no bytes": the nil slice and the      *)
(* empty slice.  The proposer compares with nil, so both are kept.         *)
(***************************************************************************)
EXTENDS Integers

CONSTANTS
  Value,      \* the non-empty byte strings clients propose
  Nil,        \* the nil slice
  Empty,      \* the empty, non-nil slice
  RoundSpan   \* 2^32: rounds are uint32 and wrap

ASSUME ValueAssumption == Nil \notin Value /\ Empty \notin Value /\ Nil # Empty

ASSUME RoundSpanAssumption == RoundSpan \in Nat /\ RoundSpan > 1

Bytes == Value \cup {Nil, Empty}

(* A ballot is the round shifted above the 16 bits of the node ID. *)
NodeIDSpan == 65536

MakeBallot(round, nodeID) == round * NodeIDSpan + nodeID

Round(b) == b \div NodeIDSpan

NodeID(b) == b % NodeIDSpan

(* Slip: a wider counter than the ballot has room for. *)
WideRound(round) == round + 1

(* p.currentRound++ on a uint32. *)
NextRound(round) == (round + 1) % RoundSpan

(* What a value is after Encode and decode: a zero length leaves the field  *)
(* nil.                                                                     *)
Wire(v) == IF v = Empty THEN Nil ELSE v

(* What a value is after the copy that MemoryStorage makes of it: make and  *)
(* copy of a nil slice give an empty one.                                   *)
Stored(v) == IF v = Nil THEN Empty ELSE v
=============================================================================
