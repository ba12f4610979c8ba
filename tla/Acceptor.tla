------------------------------ MODULE Acceptor ------------------------------
(***************************************************************************)
(* The acceptor of paxos/acceptor.go and the part of paxos/storage.go that *)
(* keeps its state.  The three Go maps promised, acceptedBallot and        *)
(* acceptedValue are one function from instances to entries; an absent key *)
(* reads as the zero value, which is what the entry Unset holds.           *)
(*                                                                         *)
(* A handler is a function of the acceptor's memory, its disk and whether  *)
(* SaveAcceptorState succeeds; it returns the new memory, the new disk and *)
(* the reply.                                                              *)
(***************************************************************************)
EXTENDS PaxosTypes

Unset == [promised |-> 0, acceptedBallot |-> 0, acceptedValue |-> Nil]

Entry == [promised : Nat, acceptedBallot : Nat, acceptedValue : Bytes]

(* Replies; "from" is FromNode. *)
Promise(id, i, b, ab, av) ==
  [type |-> "Promise", from |-> id, instance |-> i, ballot |-> b,
   acceptedBallot |-> ab, acceptedValue |-> av]

Reject(id, i, b, higher) ==
  [type |-> "Reject", from |-> id, instance |-> i, ballot |-> b, higherBallot |-> higher]

Accepted(id, i, b) ==
  [type |-> "Accepted", from |-> id, instance |-> i, ballot |-> b]

Nack(id, i, b, higher) ==
  [type |-> "Nack", from |-> id, instance |-> i, ballot |-> b, higherBallot |-> higher]

(* The deep copy of the three maps: every value present is copied. *)
Copied(state) ==
  [i \in DOMAIN state |->
     IF state[i].acceptedBallot = 0 THEN state[i]
     ELSE [state[i] EXCEPT !.acceptedValue = Stored(@)]]

SaveAcceptorState(mem) == Copied(mem)

(* Slip: the acceptor starts empty. *)
LoadNothing(disk) == [i \in DOMAIN disk |-> Unset]

(* NewAcceptor takes ErrNotFound, which stands for empty maps, as empty. *)
LoadAcceptorState(disk) == Copied(disk)

(* Slips in the handlers, each checked to break a property: the save is       *)
(* skipped; a refusal reports the accepted ballot; memory keeps the update of *)
(* a failed save; the promise is ignored.                                     *)
PrepareUnsaved(id, mem, disk, i, b, saved) ==
  IF b < mem[i].promised
  THEN [mem |-> mem, disk |-> disk, reply |-> Reject(id, i, b, mem[i].promised)]
  ELSE [mem |-> [mem EXCEPT ![i].promised = b], disk |-> disk,
        reply |-> Promise(id, i, b, mem[i].acceptedBallot, mem[i].acceptedValue)]

PrepareWrongHigher(id, mem, disk, i, b, saved) ==
  LET next == [mem EXCEPT ![i].promised = b]
  IN  IF b < mem[i].promised
      THEN [mem |-> mem, disk |-> disk, reply |-> Reject(id, i, b, mem[i].acceptedBallot)]
      ELSE [mem |-> next, disk |-> SaveAcceptorState(next),
            reply |-> Promise(id, i, b, mem[i].acceptedBallot, mem[i].acceptedValue)]

AcceptNoRollback(id, mem, disk, i, b, v, saved) ==
  LET next == [mem EXCEPT ![i] = [promised |-> b, acceptedBallot |-> b,
                                  acceptedValue |-> v]]
  IN  IF b < mem[i].promised
      THEN [mem |-> mem, disk |-> disk, reply |-> Nack(id, i, b, mem[i].promised)]
      ELSE [mem |-> next, disk |-> IF saved THEN SaveAcceptorState(next) ELSE disk,
            reply |-> IF saved THEN Accepted(id, i, b) ELSE Nack(id, i, b, b)]

AcceptAny(id, mem, disk, i, b, v, saved) ==
  LET next == [mem EXCEPT ![i] = [promised |-> b, acceptedBallot |-> b,
                                  acceptedValue |-> v]]
  IN  [mem |-> next, disk |-> SaveAcceptorState(next), reply |-> Accepted(id, i, b)]

HandlePrepare(id, mem, disk, i, b, saved) ==
  LET promised == mem[i].promised
      next     == [mem EXCEPT ![i].promised = b]
  IN  IF b < promised
      THEN [mem |-> mem, disk |-> disk, reply |-> Reject(id, i, b, promised)]
      ELSE IF ~saved
      THEN [mem |-> mem, disk |-> disk, reply |-> Reject(id, i, b, b)]
      ELSE [mem |-> next, disk |-> SaveAcceptorState(next),
            reply |-> Promise(id, i, b, mem[i].acceptedBallot, mem[i].acceptedValue)]

HandleAccept(id, mem, disk, i, b, v, saved) ==
  LET promised == mem[i].promised
      next     == [mem EXCEPT ![i] = [promised |-> b, acceptedBallot |-> b,
                                      acceptedValue |-> v]]
  IN  IF b < promised
      THEN [mem |-> mem, disk |-> disk, reply |-> Nack(id, i, b, promised)]
      ELSE IF ~saved
      THEN [mem |-> mem, disk |-> disk, reply |-> Nack(id, i, b, b)]
      ELSE [mem |-> next, disk |-> SaveAcceptorState(next), reply |-> Accepted(id, i, b)]

(* ForgetInstance clears memory only; the next save makes it durable. *)
ForgetInstance(mem, i) == [mem EXCEPT ![i] = Unset]
=============================================================================
