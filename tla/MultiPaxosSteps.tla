-------------------------- MODULE MultiPaxosSteps ---------------------------
(***************************************************************************)
(* Proof that every step of MultiPaxos has one of the effects of           *)
(* MultiPaxosEffects, of its type invariant, and of what holds whatever    *)
(* the proposers do: the bookkeeping of proposers and learners, who sent   *)
(* what, which replies a proposal may count, and that the log is           *)
(* write-once.                                                             *)
(***************************************************************************)
EXTENDS MultiPaxosBasics

(* The storage's copy (storage.go:40-56) keeps ballots, and values up to the *)
(* spelling of "no bytes".                                                   *)
LEMMA CopiedEntry ==
  ASSUME NEW S, NEW state \in [S -> Entry]
  PROVE  /\ Copied(state) \in [S -> Entry]
         /\ \A i \in S :
              /\ Copied(state)[i].promised = state[i].promised
              /\ Copied(state)[i].acceptedBallot = state[i].acceptedBallot
              /\ Wire(Copied(state)[i].acceptedValue) = Wire(state[i].acceptedValue)
              /\ state[i].acceptedValue \in Value => Copied(state)[i] = state[i]
  <1> DEFINE e(i) == [promised |-> state[i].promised, acceptedBallot |-> state[i].acceptedBallot,
                      acceptedValue |-> Stored(state[i].acceptedValue)]
  <1>1. ASSUME NEW i \in S
        PROVE  /\ [state[i] EXCEPT !.acceptedValue = Stored(@)] = e(i)
               /\ e(i) \in Entry
    BY ValueAssumption DEF Entry, Stored, Bytes
  <1>2. \A i \in S : Copied(state)[i] = IF state[i].acceptedBallot = 0 THEN state[i] ELSE e(i)
    BY <1>1 DEF Copied
  <1>3. Copied(state) \in [S -> Entry]
    BY Zenon, <1>1 DEF Copied
  <1>4. ASSUME NEW i \in S
        PROVE  /\ Wire(e(i).acceptedValue) = Wire(state[i].acceptedValue)
               /\ state[i].acceptedValue \in Value => e(i) = state[i]
    BY ValueAssumption DEF Entry, Stored, Bytes, Wire
  <1> QED
    BY <1>2, <1>3, <1>4

(* HandlePrepare either changes nothing and refuses, or promises and has     *)
(* saved the promise.                                                        *)
PrepareOutcome(r, S, id, m, d, i, b) ==
  \/ /\ r.mem = m
     /\ r.disk = d
     /\ \E h \in Nat : r.reply = Reject(id, i, b, h)
  \/ /\ b >= m[i].promised
     /\ r.mem = [m EXCEPT ![i].promised = b]
     /\ r.mem \in [S -> Entry]
     /\ r.disk = Copied(r.mem)
     /\ r.reply = Promise(id, i, b, m[i].acceptedBallot, m[i].acceptedValue)

(* These are all the outcomes of HandlePrepare (acceptor.go:79-139). *)
LEMMA PrepareResult ==
  ASSUME NEW S, NEW m \in [S -> Entry], NEW d, NEW id, NEW i \in S,
         NEW b \in Nat, NEW saved \in BOOLEAN
  PROVE  PrepareOutcome(HandlePrepare(id, m, d, i, b, saved), S, id, m, d, i, b)
  BY DEF PrepareOutcome, HandlePrepare, Entry, SaveAcceptorState

(* HandleAccept likewise. *)
AcceptOutcome(r, S, id, m, d, i, b, v) ==
  \/ /\ r.mem = m
     /\ r.disk = d
     /\ \E h \in Nat : r.reply = Nack(id, i, b, h)
  \/ /\ b >= m[i].promised
     /\ r.mem = [m EXCEPT ![i] = [promised |-> b, acceptedBallot |-> b,
                                    acceptedValue |-> v]]
     /\ r.mem \in [S -> Entry]
     /\ r.disk = Copied(r.mem)
     /\ r.reply = Accepted(id, i, b)

(* These are all the outcomes of HandleAccept (acceptor.go:150-222). *)
LEMMA AcceptResult ==
  ASSUME NEW S, NEW m \in [S -> Entry], NEW d, NEW id, NEW i \in S,
         NEW b \in Nat, NEW v \in Bytes, NEW saved \in BOOLEAN
  PROVE  AcceptOutcome(HandleAccept(id, m, d, i, b, v, saved), S, id, m, d, i, b, v)
  BY DEF AcceptOutcome, HandleAccept, Entry, SaveAcceptorState

(* The result r of a handler becomes the state of acceptor a. *)
Stores(a, r) == mem' = [mem EXCEPT ![a] = r.mem] /\ disk' = [disk EXCEPT ![a] = r.disk]

PrepareDone(a, i, b, r) ==
  \/ /\ mem' = mem /\ disk' = disk
     /\ \E h \in Nat : r.reply = Reject(a, i, b, h)
  \/ /\ GrantPrepare(a, i, b)
     /\ r.reply = Promise(a, i, b, mem[a][i].acceptedBallot, mem[a][i].acceptedValue)

AcceptDone(a, i, b, v, r) ==
  \/ /\ mem' = mem /\ disk' = disk
     /\ \E h \in Nat : r.reply = Nack(a, i, b, h)
  \/ /\ GrantAccept(a, i, b, v)
     /\ r.reply = Accepted(a, i, b)

(* What HandlePrepare leaves behind at node a (acceptor.go:79-139). *)
LEMMA PrepareEffect ==
  ASSUME TypeOK, NEW a \in Node, NEW i \in Slot, NEW b \in Nat, NEW r,
         PrepareOutcome(r, Slot, a, mem[a], disk[a], i, b), Stores(a, r)
  PROVE  PrepareDone(a, i, b, r)
  <1>0. /\ mem \in [Node -> [Slot -> Entry]] /\ disk \in [Node -> [Slot -> Entry]]
        /\ mem[a] \in [Slot -> Entry] /\ disk[a] \in [Slot -> Entry]
        /\ mem' = [mem EXCEPT ![a] = r.mem] /\ disk' = [disk EXCEPT ![a] = r.disk]
    BY DEF TypeOK, Stores
  <1>2. CASE r.mem = mem[a] /\ r.disk = disk[a] /\ \E h \in Nat : r.reply = Reject(a, i, b, h)
    BY Zenon, <1>0, <1>2 DEF PrepareDone
  <1>3. CASE /\ r.mem = [mem[a] EXCEPT ![i].promised = b]
             /\ r.mem \in [Slot -> Entry]
             /\ r.disk = Copied(r.mem)
             /\ b >= mem[a][i].promised
             /\ r.reply = Promise(a, i, b, mem[a][i].acceptedBallot, mem[a][i].acceptedValue)
    <2>0. r.mem \in [Slot -> Entry]
      BY <1>3
    <2>1. /\ Copied(r.mem) \in [Slot -> Entry]
          /\ \A j \in Slot : Copy(r.mem[j], Copied(r.mem)[j])
      BY <2>0, CopiedEntry DEF Copy
    <2>2. Saved(a) /\ mem'[a] = r.mem
      BY Zenon, <1>0, <1>3, <2>1 DEF Saved
    <2>3. /\ r.mem[i].promised = b
          /\ r.mem[i].acceptedBallot = mem[a][i].acceptedBallot
          /\ r.mem[i].acceptedValue = mem[a][i].acceptedValue
          /\ \A j \in Slot \ {i} : r.mem[j] = mem[a][j]
      BY <1>0, <1>3 DEF Entry
    <2> QED
      BY <1>3, <2>2, <2>3 DEF GrantPrepare, PrepareDone
  <1> QED
    BY <1>2, <1>3 DEF PrepareOutcome

(* What HandleAccept leaves behind at node a (acceptor.go:150-222). *)
LEMMA AcceptEffect ==
  ASSUME TypeOK, NEW a \in Node, NEW i \in Slot, NEW b \in Nat, NEW v \in Bytes, NEW r,
         AcceptOutcome(r, Slot, a, mem[a], disk[a], i, b, v), Stores(a, r)
  PROVE  AcceptDone(a, i, b, v, r)
  <1>0. /\ mem \in [Node -> [Slot -> Entry]] /\ disk \in [Node -> [Slot -> Entry]]
        /\ mem[a] \in [Slot -> Entry] /\ disk[a] \in [Slot -> Entry]
        /\ mem' = [mem EXCEPT ![a] = r.mem] /\ disk' = [disk EXCEPT ![a] = r.disk]
    BY DEF TypeOK, Stores
  <1>2. CASE r.mem = mem[a] /\ r.disk = disk[a] /\ \E h \in Nat : r.reply = Nack(a, i, b, h)
    BY Zenon, <1>0, <1>2 DEF AcceptDone
  <1>3. CASE /\ r.mem = [mem[a] EXCEPT ![i] = [promised |-> b, acceptedBallot |-> b,
                                               acceptedValue |-> v]]
             /\ r.mem \in [Slot -> Entry]
             /\ r.disk = Copied(r.mem)
             /\ b >= mem[a][i].promised
             /\ r.reply = Accepted(a, i, b)
    <2>0. r.mem \in [Slot -> Entry]
      BY <1>3
    <2>1. /\ Copied(r.mem) \in [Slot -> Entry]
          /\ \A j \in Slot : Copy(r.mem[j], Copied(r.mem)[j])
      BY <2>0, CopiedEntry DEF Copy
    <2>2. Saved(a) /\ mem'[a] = r.mem
      BY Zenon, <1>0, <1>3, <2>1 DEF Saved
    <2>3. /\ r.mem[i].promised = b
          /\ r.mem[i].acceptedBallot = b
          /\ r.mem[i].acceptedValue = v
          /\ \A j \in Slot \ {i} : r.mem[j] = mem[a][j]
      BY <1>0, <1>3
    <2> QED
      BY Zenon, <1>3, <2>2, <2>3 DEF GrantAccept, AcceptDone
  <1> QED
    BY <1>2, <1>3 DEF AcceptOutcome

(* The updates of a proposal, field by field. *)
LEMMA CountPromises ==
  ASSUME NEW p \in Proposal, NEW s
  PROVE  [p EXCEPT !.promises = s] = With(p, p.pc, p.value, s, p.accepteds)
  BY DEF With, Proposal

(* Likewise for the tally of runPhase2. *)
LEMMA CountAccepteds ==
  ASSUME NEW p \in Proposal, NEW s
  PROVE  [p EXCEPT !.accepteds = s] = With(p, p.pc, p.value, p.promises, s)
  BY DEF With, Proposal

(* Likewise for a move within phase 1. *)
LEMMA MovePromises ==
  ASSUME NEW p \in Proposal, NEW pc, NEW s
  PROVE  [p EXCEPT !.pc = pc, !.promises = s] = With(p, pc, p.value, s, p.accepteds)
  <1>1. [p EXCEPT !.pc = pc] = With(p, pc, p.value, p.promises, p.accepteds)
    BY DEF With, Proposal
  <1>2. [p EXCEPT !.pc = pc, !.promises = s] = [[p EXCEPT !.pc = pc] EXCEPT !.promises = s]
    OBVIOUS
  <1>3. [With(p, pc, p.value, p.promises, p.accepteds) EXCEPT !.promises = s] =
          With(p, pc, p.value, s, p.accepteds)
    BY DEF With
  <1> QED
    BY Zenon, <1>1, <1>2, <1>3

(* Likewise for a move within phase 2. *)
LEMMA MoveAccepteds ==
  ASSUME NEW p \in Proposal, NEW pc, NEW s
  PROVE  [p EXCEPT !.pc = pc, !.accepteds = s] = With(p, pc, p.value, p.promises, s)
  <1>1. [p EXCEPT !.pc = pc] = With(p, pc, p.value, p.promises, p.accepteds)
    BY DEF With, Proposal
  <1>2. [p EXCEPT !.pc = pc, !.accepteds = s] = [[p EXCEPT !.pc = pc] EXCEPT !.accepteds = s]
    OBVIOUS
  <1>3. [With(p, pc, p.value, p.promises, p.accepteds) EXCEPT !.accepteds = s] =
          With(p, pc, p.value, p.promises, s)
    BY DEF With
  <1> QED
    BY Zenon, <1>1, <1>2, <1>3

(* Likewise for the move from phase 1 to phase 2. *)
LEMMA MoveValue ==
  ASSUME NEW p \in Proposal, NEW pc, NEW s, NEW v
  PROVE  [p EXCEPT !.pc = pc, !.promises = s, !.value = v] = With(p, pc, v, s, p.accepteds)
  <1>1. [p EXCEPT !.pc = pc, !.promises = s, !.value = v] =
          [[p EXCEPT !.pc = pc, !.promises = s] EXCEPT !.value = v]
    OBVIOUS
  <1>2. [With(p, pc, p.value, s, p.accepteds) EXCEPT !.value = v] =
          With(p, pc, v, s, p.accepteds)
    BY DEF With
  <1> QED
    BY Zenon, <1>1, <1>2, MovePromises

(* runPhase1 up to its loop (proposer.go:174-202). *)
LEMMA StartPhase1Does ==
  ASSUME TypeOK, NEW n \in Node, NEW i \in Slot, NEW saved \in SaveOutcomes,
         StartPhase1(n, i, saved)
  PROVE  StartPhase1Effect(n, i)
  <1>p. PICK p : p = pending[n][i]
    OBVIOUS
  <1>r. PICK r : r = HandlePrepare(n, mem[n], disk[n], i, p.ballot, saved)
    OBVIOUS
  <1>o. PICK own : own = Reply(r.reply, n, incarnation[n])
    OBVIOUS
  <1>1. /\ p \in Proposal /\ p.ballot \in Nat /\ mem[n] \in [Slot -> Entry]
        /\ saved \in BOOLEAN
    <2>1. p \in Proposal
      BY <1>p, ProposalTyped
    <2>2. p.ballot \in Nat
      BY Zenon, <2>1 DEF Proposal
    <2>3. mem[n] \in [Slot -> Entry]
      BY DEF TypeOK
    <2> QED
      BY Zenon, <2>1, <2>2, <2>3, Constants
  <1>2. PrepareOutcome(r, Slot, n, mem[n], disk[n], i, p.ballot)
    BY Zenon, <1>1, <1>r, PrepareResult
  <1>3. /\ mem' = [mem EXCEPT ![n] = r.mem] /\ disk' = [disk EXCEPT ![n] = r.disk]
        /\ p.pc = "prepare"
        /\ UNCHANGED <<learnerVars, proposerVars, incarnation, votes, acks>>
        /\ \/ own.type = "Reject" /\ Abandon(n, i) /\ UNCHANGED msgs
           \/ /\ own.type = "Promise"
              /\ pending' = [pending EXCEPT ![n][i] =
                               [p EXCEPT !.pc = "promises", !.promises = {own}]]
              /\ msgs' = msgs \cup {Prepare(n, incarnation[n], i, p.ballot)}
    BY Zenon, <1>p, <1>r, <1>o DEF StartPhase1
  <1>4. CASE /\ mem' = mem /\ disk' = disk
             /\ \E h \in Nat : r.reply = Reject(n, i, p.ballot, h)
    <2>1. own.type = "Reject"
      BY <1>4, <1>o DEF Reply, Reject
    <2>2. Abandon(n, i) /\ UNCHANGED msgs
      BY <1>3, <2>1
    <2>3. Becomes(n, i, NoProposal)
      BY Zenon, <2>2, BecomesIntro DEF Abandon
    <2> QED
      BY Zenon, <1>p, <1>3, <1>4, <2>2, <2>3 DEF StartPhase1Effect
  <1>5. CASE /\ GrantPrepare(n, i, p.ballot)
             /\ r.reply = Promise(n, i, p.ballot, mem[n][i].acceptedBallot,
                                  mem[n][i].acceptedValue)
    <2>1. /\ own = PromiseOf(n, n, incarnation[n], i, p.ballot, mem[n][i].acceptedValue)
          /\ own.type = "Promise"
      BY <1>5, <1>o DEF Reply, Promise, PromiseOf
    <2>2. PICK q : q = With(p, "promises", p.value, {own}, p.accepteds)
      OBVIOUS
    <2>3. [p EXCEPT !.pc = "promises", !.promises = {own}] = q
      BY Zenon, <1>1, <2>2, MovePromises
    <2>5. pending' = [pending EXCEPT ![n][i] = q]
      BY <1>3, <2>1, <2>3
    <2>4. Becomes(n, i, q)
      BY Zenon, <2>5, BecomesIntro
    <2> QED
      BY Zenon, <1>p, <1>3, <1>5, <2>1, <2>2, <2>4 DEF StartPhase1Effect
  <1>6. Stores(n, r)
    BY Zenon, <1>3 DEF Stores
  <1>7. PrepareDone(n, i, p.ballot, r)
    BY Zenon, <1>1, <1>2, <1>6, PrepareEffect
  <1> QED
    BY <1>4, <1>5, <1>7 DEF PrepareDone

(* A peer's Prepare (node.go:251-274, acceptor.go:79-139). *)
LEMMA ReceivePrepareDoes ==
  ASSUME TypeOK, NEW n \in Node, NEW m \in msgs, NEW saved \in SaveOutcomes,
         ReceivePrepare(n, m, saved)
  PROVE  ReceivePrepareEffect(n, m)
  <1>r. PICK r : r = HandlePrepare(n, mem[n], disk[n], m.instance, m.ballot, saved)
    BY Zenon
  <1>1. /\ m \in PrepareMsg /\ m.instance \in Slot /\ m.ballot \in Nat
        /\ mem[n] \in [Slot -> Entry] /\ saved \in BOOLEAN
    <2>1. m \in PrepareMsg
      BY Zenon, MessageKinds DEF ReceivePrepare
    <2> QED
      BY Zenon, <2>1, Constants DEF TypeOK, PrepareMsg
  <1>2. PrepareOutcome(r, Slot, n, mem[n], disk[n], m.instance, m.ballot)
    BY Zenon, <1>1, <1>r, PrepareResult
  <1>3. /\ mem' = [mem EXCEPT ![n] = r.mem] /\ disk' = [disk EXCEPT ![n] = r.disk]
        /\ n # m.from
        /\ ~Answered(n, m, {"Promise", "Reject"})
        /\ msgs' = msgs \cup {OnWire(Reply(r.reply, m.from, m.inc))}
        /\ UNCHANGED <<learnerVars, proposerVars, pending, incarnation, votes, acks>>
    BY Zenon, <1>r DEF ReceivePrepare
  <1>4. CASE /\ mem' = mem /\ disk' = disk
             /\ \E h \in Nat : r.reply = Reject(n, m.instance, m.ballot, h)
    <2>1. OnWire(Reply(r.reply, m.from, m.inc)) =
            RefusalOf("Reject", n, m.from, m.inc, m.instance, m.ballot)
      BY SMTT(20), <1>4 DEF Reply, Reject, OnWire, RefusalOf
    <2> QED
      BY Zenon, <1>1, <1>3, <1>4, <2>1 DEF ReceivePrepareEffect
  <1>5. CASE /\ GrantPrepare(n, m.instance, m.ballot)
             /\ r.reply = Promise(n, m.instance, m.ballot, mem[n][m.instance].acceptedBallot,
                                  mem[n][m.instance].acceptedValue)
    <2> DEFINE own == PromiseOf(n, m.from, m.inc, m.instance, m.ballot,
                                mem[n][m.instance].acceptedValue)
    <2>1. Reply(r.reply, m.from, m.inc) = own
      BY <1>5 DEF Reply, Promise, PromiseOf
    <2>2. OnWire(own) = PromiseOf(n, m.from, m.inc, m.instance, m.ballot,
                                  Wire(mem[n][m.instance].acceptedValue))
      BY DEF OnWire, PromiseOf
    <2> QED
      BY Zenon, <1>1, <1>3, <1>5, <2>1, <2>2 DEF ReceivePrepareEffect
  <1>6. Stores(n, r)
    BY Zenon, <1>3 DEF Stores
  <1>7. PrepareDone(n, m.instance, m.ballot, r)
    BY Zenon, <1>1, <1>2, <1>6, PrepareEffect
  <1> QED
    BY Zenon, <1>4, <1>5, <1>7 DEF PrepareDone

(* A peer's Accept (node.go:251-274, acceptor.go:150-222). *)
LEMMA ReceiveAcceptDoes ==
  ASSUME TypeOK, NEW n \in Node, NEW m \in msgs, NEW saved \in SaveOutcomes,
         ReceiveAccept(n, m, saved)
  PROVE  ReceiveAcceptEffect(n, m)
  <1>r. PICK r : r = HandleAccept(n, mem[n], disk[n], m.instance, m.ballot, m.value, saved)
    OBVIOUS
  <1>1. /\ m \in AcceptMsg /\ m.instance \in Slot /\ m.ballot \in Nat /\ m.value \in Bytes
        /\ mem[n] \in [Slot -> Entry] /\ saved \in BOOLEAN
    <2>1. m \in AcceptMsg
      BY Zenon, MessageKinds DEF ReceiveAccept
    <2> QED
      BY Zenon, <2>1, Constants DEF TypeOK, AcceptMsg, Bytes
  <1>2. AcceptOutcome(r, Slot, n, mem[n], disk[n], m.instance, m.ballot, m.value)
    BY Zenon, <1>1, <1>r, AcceptResult
  <1>3. /\ mem' = [mem EXCEPT ![n] = r.mem] /\ disk' = [disk EXCEPT ![n] = r.disk]
        /\ n # m.from
        /\ ~Answered(n, m, {"Accepted", "Nack"})
        /\ msgs' = msgs \cup {OnWire(Reply(r.reply, m.from, m.inc))}
        /\ votes' = votes \cup VotesOf(r.reply, m.value)
        /\ UNCHANGED <<learnerVars, proposerVars, pending, incarnation, acks>>
    BY Zenon, <1>r DEF ReceiveAccept
  <1>4. CASE /\ mem' = mem /\ disk' = disk
             /\ \E h \in Nat : r.reply = Nack(n, m.instance, m.ballot, h)
    <2>1. /\ OnWire(Reply(r.reply, m.from, m.inc)) =
               RefusalOf("Nack", n, m.from, m.inc, m.instance, m.ballot)
          /\ VotesOf(r.reply, m.value) = {}
      BY <1>4 DEF Reply, Nack, OnWire, RefusalOf, VotesOf
    <2> QED
      BY Zenon, <1>1, <1>3, <1>4, <2>1 DEF ReceiveAcceptEffect
  <1>5. CASE /\ GrantAccept(n, m.instance, m.ballot, m.value)
             /\ r.reply = Accepted(n, m.instance, m.ballot)
    <2>1. /\ OnWire(Reply(r.reply, m.from, m.inc)) =
               AcceptedOf(n, m.from, m.inc, m.instance, m.ballot)
          /\ VotesOf(r.reply, m.value) = {Vote(n, m.instance, m.ballot, m.value)}
      BY <1>5 DEF Reply, Accepted, AcceptedOf, OnWire, VotesOf
    <2> QED
      BY Zenon, <1>1, <1>3, <1>5, <2>1 DEF ReceiveAcceptEffect
  <1>6. Stores(n, r)
    BY Zenon, <1>3 DEF Stores
  <1>7. AcceptDone(n, m.instance, m.ballot, m.value, r)
    BY Zenon, <1>1, <1>2, <1>6, AcceptEffect
  <1> QED
    BY Zenon, <1>4, <1>5, <1>7 DEF AcceptDone

(* runPhase2 up to its loop (proposer.go:246-276). *)
LEMMA StartPhase2Does ==
  ASSUME TypeOK, NEW n \in Node, NEW i \in Slot, NEW saved \in SaveOutcomes,
         StartPhase2(n, i, saved)
  PROVE  StartPhase2Effect(n, i)
  <1>p. PICK p : p = pending[n][i]
    OBVIOUS
  <1>r. PICK r : r = HandleAccept(n, mem[n], disk[n], i, p.ballot, p.value, saved)
    BY Zenon
  <1>o. PICK own : own = Reply(r.reply, n, incarnation[n])
    OBVIOUS
  <1>1. /\ p \in Proposal /\ p.ballot \in Nat /\ p.value \in Bytes
        /\ mem[n] \in [Slot -> Entry] /\ saved \in BOOLEAN
    <2>1. p \in Proposal
      BY <1>p, ProposalTyped
    <2>2. p.ballot \in Nat /\ p.value \in Bytes
      BY Zenon, <2>1 DEF Proposal
    <2>3. mem[n] \in [Slot -> Entry]
      BY DEF TypeOK
    <2> QED
      BY Zenon, <2>1, <2>2, <2>3, Constants
  <1>2. AcceptOutcome(r, Slot, n, mem[n], disk[n], i, p.ballot, p.value)
    BY Zenon, <1>1, <1>r, AcceptResult
  <1>3. /\ mem' = [mem EXCEPT ![n] = r.mem] /\ disk' = [disk EXCEPT ![n] = r.disk]
        /\ p.pc = "accept"
        /\ votes' = votes \cup VotesOf(r.reply, p.value)
        /\ UNCHANGED <<learnerVars, proposerVars, incarnation, acks>>
        /\ \/ own.type = "Nack" /\ Abandon(n, i) /\ UNCHANGED msgs
           \/ /\ own.type = "Accepted"
              /\ pending' = [pending EXCEPT ![n][i] =
                               [p EXCEPT !.pc = "accepteds", !.accepteds = {own}]]
              /\ msgs' = msgs \cup {Accept(n, incarnation[n], i, p.ballot, p.value)}
    BY Zenon, <1>p, <1>r, <1>o DEF StartPhase2
  <1>i. i \in Instance
    BY Zenon, <1>p, <1>3 DEF TypeOK, Slot
  <1>4. CASE /\ mem' = mem /\ disk' = disk
             /\ \E h \in Nat : r.reply = Nack(n, i, p.ballot, h)
    <2>h. PICK h \in Nat : r.reply = Nack(n, i, p.ballot, h)
      BY Zenon, <1>4
    <2>t. r.reply.type = "Nack"
      BY <2>h DEF Nack
    <2>1. own.type = "Nack" /\ VotesOf(r.reply, p.value) = {}
      <3>1. own.type = "Nack"
        BY Zenon, <2>t, <1>o DEF Reply
      <3>2. VotesOf(r.reply, p.value) = {}
        BY <2>t DEF VotesOf
      <3> QED
        BY Zenon, <3>1, <3>2
    <2>2. Abandon(n, i) /\ UNCHANGED <<msgs, votes>>
      BY <1>3, <2>1
    <2>3. Becomes(n, i, NoProposal)
      BY Zenon, <2>2, BecomesIntro DEF Abandon
    <2> QED
      BY Zenon, <1>p, <1>i, <1>3, <1>4, <2>2, <2>3 DEF StartPhase2Effect
  <1>5. CASE /\ GrantAccept(n, i, p.ballot, p.value)
             /\ r.reply = Accepted(n, i, p.ballot)
    <2>1. /\ own = AcceptedOf(n, n, incarnation[n], i, p.ballot)
          /\ own.type = "Accepted"
          /\ VotesOf(r.reply, p.value) = {Vote(n, i, p.ballot, p.value)}
      BY <1>5, <1>o DEF Reply, Accepted, AcceptedOf, VotesOf
    <2>2. PICK q : q = With(p, "accepteds", p.value, p.promises, {own})
      BY SMTT(20)
    <2>3. [p EXCEPT !.pc = "accepteds", !.accepteds = {own}] = q
      BY Zenon, <1>1, <2>2, MoveAccepteds
    <2>4. pending' = [pending EXCEPT ![n][i] = q]
      BY Zenon, <1>3, <2>1, <2>3
    <2>5. Becomes(n, i, q)
      BY Zenon, <2>4, BecomesIntro
    <2>6. /\ votes' = votes \cup {Vote(n, i, p.ballot, p.value)}
          /\ msgs' = msgs \cup {Accept(n, incarnation[n], i, p.ballot, p.value)}
      BY <1>3, <2>1
    <2> QED
      BY Zenon, <1>p, <1>i, <1>3, <1>5, <2>1, <2>2, <2>5, <2>6 DEF StartPhase2Effect
  <1>6. Stores(n, r)
    BY Zenon, <1>3 DEF Stores
  <1>7. AcceptDone(n, i, p.ballot, p.value, r)
    BY Zenon, <1>1, <1>2, <1>6, AcceptEffect
  <1> QED
    BY Zenon, <1>4, <1>5, <1>7 DEF AcceptDone

(* A promise in the loop of runPhase1 (proposer.go:204-237). *)
LEMMA ReceivePromiseDoes ==
  ASSUME TypeOK, NEW n \in Node, NEW m \in msgs, ReceivePromise(n, m)
  PROVE  ReceivePromiseEffect(n, m)
  <1>i. PICK i : i = m.instance
    OBVIOUS
  <1>p. PICK p : p = pending[n][i]
    OBVIOUS
  <1>s. PICK ps : ps = p.promises \cup {m}
    BY ZenonT(30)
  <1>1. m \in PromiseMsg /\ i \in Slot /\ p \in Proposal
    <2>1. m \in PromiseMsg
      BY Zenon, MessageKinds DEF ReceivePromise
    <2> QED
      BY <1>i, <1>p, <2>1 DEF PromiseMsg, TypeOK
  <1>2. /\ m.to = n /\ p.pc = "promises" /\ p.ballot = m.ballot /\ m \notin p.promises
        /\ UNCHANGED <<acceptorVars, learnerVars, currentRound, nextInstance, incarnation,
                       msgs, votes, acks>>
    BY ZenonT(30), <1>i, <1>p DEF ReceivePromise, Matches
  <1>3. \/ /\ pending' = [pending EXCEPT ![n][i] = [p EXCEPT !.promises = ps]]
           /\ UNCHANGED <<isLeader, leaderBallot>>
        \/ /\ Cardinality(ps) >= QuorumSize /\ i # 0
           /\ UNCHANGED <<isLeader, leaderBallot>>
           /\ \E v \in HighestAccepted(ps) :
                pending' = [pending EXCEPT ![n][i] =
                              [p EXCEPT !.pc = "accept", !.promises = {},
                                        !.value = IF v # Nil THEN v ELSE p.value]]
        \/ /\ Cardinality(ps) >= QuorumSize /\ i = 0
           /\ isLeader' = [isLeader EXCEPT ![n] = TRUE]
           /\ leaderBallot' = [leaderBallot EXCEPT ![n] = m.ballot]
           /\ Abandon(n, 0)
    BY ZenonT(30), <1>i, <1>p, <1>s DEF ReceivePromise
  <1>4. CASE /\ pending' = [pending EXCEPT ![n][i] = [p EXCEPT !.promises = ps]]
             /\ UNCHANGED <<isLeader, leaderBallot>>
    <2>1. PICK q : q = With(p, "promises", p.value, ps, p.accepteds)
      OBVIOUS
    <2>2. [p EXCEPT !.promises = ps] = q
      BY Zenon, <1>1, <1>2, <2>1, CountPromises
    <2>3. Becomes(n, i, q)
      BY Zenon, <1>1, <1>4, <2>2, BecomesIntro
    <2> QED
      BY Zenon, <1>i, <1>p, <1>s, <1>1, <1>2, <1>4, <2>1, <2>3 DEF ReceivePromiseEffect
  <1>5. ASSUME Cardinality(ps) >= QuorumSize, i # 0, UNCHANGED <<isLeader, leaderBallot>>,
               NEW v \in HighestAccepted(ps),
               pending' = [pending EXCEPT ![n][i] =
                             [p EXCEPT !.pc = "accept", !.promises = {},
                                       !.value = IF v # Nil THEN v ELSE p.value]]
        PROVE  ReceivePromiseEffect(n, m)
    <2>v. PICK w : w = IF v # Nil THEN v ELSE p.value
      OBVIOUS
    <2>1. PICK q : q = With(p, "accept", w, {}, p.accepteds)
      BY SMTT(20)
    <2>2. [p EXCEPT !.pc = "accept", !.promises = {}, !.value = w] = q
      BY Zenon, <1>1, <2>1, MoveValue
    <2>3. pending' = [pending EXCEPT ![n][i] = q]
      BY Zenon, <1>5, <2>v, <2>2
    <2>4. Becomes(n, i, q)
      BY Zenon, <1>1, <2>3, BecomesIntro
    <2>5. i \in Instance
      BY Zenon, <1>1, <1>5 DEF Slot
    <2> QED
      BY Zenon, <1>i, <1>p, <1>s, <1>1, <1>2, <1>5, <2>v, <2>1, <2>4, <2>5 DEF ReceivePromiseEffect
  <1>6. CASE /\ Cardinality(ps) >= QuorumSize /\ i = 0
             /\ isLeader' = [isLeader EXCEPT ![n] = TRUE]
             /\ leaderBallot' = [leaderBallot EXCEPT ![n] = m.ballot]
             /\ Abandon(n, 0)
    <2>1. Becomes(n, i, NoProposal)
      BY Zenon, <1>1, <1>6, BecomesIntro DEF Abandon
    <2> QED
      BY Zenon, <1>i, <1>p, <1>s, <1>1, <1>2, <1>6, <2>1 DEF ReceivePromiseEffect
  <1> QED
    BY Zenon, <1>3, <1>4, <1>5, <1>6

(* An accepted in the loop of runPhase2 (proposer.go:278-311). *)
LEMMA ReceiveAcceptedDoes ==
  ASSUME TypeOK, NEW n \in Node, NEW m \in msgs, ReceiveAccepted(n, m)
  PROVE  ReceiveAcceptedEffect(n, m)
  <1>i. PICK i : i = m.instance
    OBVIOUS
  <1>p. PICK p : p = pending[n][i]
    OBVIOUS
  <1>s. PICK as : as = p.accepteds \cup {m}
    BY Zenon
  <1>1. m \in AcceptedMsg /\ i \in Slot /\ p \in Proposal
    <2>1. m \in AcceptedMsg
      BY Zenon, MessageKinds DEF ReceiveAccepted
    <2> QED
      BY <1>i, <1>p, <2>1 DEF AcceptedMsg, TypeOK, Slot
  <1>2. /\ m.to = n /\ p.pc = "accepteds" /\ p.ballot = m.ballot /\ m \notin p.accepteds
        /\ UNCHANGED <<acceptorVars, learnerVars, proposerVars, incarnation, msgs, votes, acks>>
    BY Zenon, <1>i, <1>p DEF ReceiveAccepted, Matches
  <1>3. \/ pending' = [pending EXCEPT ![n][i] = [p EXCEPT !.accepteds = as]]
        \/ /\ Cardinality(as) >= QuorumSize
           /\ pending' = [pending EXCEPT ![n][i] =
                            [p EXCEPT !.pc = "commit", !.accepteds = {}]]
    BY Zenon, <1>i, <1>p, <1>s DEF ReceiveAccepted
  <1>4. CASE pending' = [pending EXCEPT ![n][i] = [p EXCEPT !.accepteds = as]]
    <2>1. PICK q : q = With(p, "accepteds", p.value, p.promises, as)
      BY Zenon
    <2>2. [p EXCEPT !.accepteds = as] = q
      BY Zenon, <1>1, <1>2, <2>1, CountAccepteds
    <2>3. Becomes(n, i, q)
      BY ZenonT(30), <1>1, <1>4, <2>2, BecomesIntro
    <2> QED
      BY Zenon, <1>i, <1>p, <1>s, <1>1, <1>2, <2>1, <2>3 DEF ReceiveAcceptedEffect
  <1>5. CASE /\ Cardinality(as) >= QuorumSize
             /\ pending' = [pending EXCEPT ![n][i] =
                              [p EXCEPT !.pc = "commit", !.accepteds = {}]]
    <2>1. PICK q : q = With(p, "commit", p.value, p.promises, {})
      BY SMTT(20)
    <2>2. [p EXCEPT !.pc = "commit", !.accepteds = {}] = q
      BY Zenon, <1>1, <2>1, MoveAccepteds
    <2>3. pending' = [pending EXCEPT ![n][i] = q]
      BY Zenon, <1>5, <2>2
    <2>4. Becomes(n, i, q)
      BY Zenon, <1>1, <2>3, BecomesIntro
    <2> QED
      BY Zenon, <1>i, <1>p, <1>s, <1>1, <1>2, <1>5, <2>1, <2>4 DEF ReceiveAcceptedEffect
  <1> QED
    BY Zenon, <1>3, <1>4, <1>5

(* ErrPreempted and ErrTimeout (proposer.go:204-237, 278-311). *)
LEMMA AbandonDoes ==
  ASSUME TypeOK, NEW n \in Node
  PROVE  /\ \A m \in msgs : ReceiveRefusal(n, m) => \E i \in Slot : AbandonEffect(n, i)
         /\ \A i \in Slot : Timeout(n, i) => AbandonEffect(n, i)
  <1>1. ASSUME NEW i \in Slot, Abandon(n, i) PROVE Becomes(n, i, NoProposal)
    BY Zenon, <1>1, BecomesIntro DEF Abandon
  <1>2. ASSUME NEW m \in msgs, ReceiveRefusal(n, m) PROVE \E i \in Slot : AbandonEffect(n, i)
    <2>1. m \in RejectMsg \/ m \in NackMsg
      BY <1>2, MessageKinds DEF ReceiveRefusal
    <2>2. m.instance \in Slot
      BY Zenon, <2>1, Constants DEF RejectMsg, NackMsg
    <2> QED
      BY Zenon, <1>1, <1>2, <2>2 DEF ReceiveRefusal, AbandonEffect
  <1>3. ASSUME NEW i \in Slot, Timeout(n, i) PROVE AbandonEffect(n, i)
    BY <1>1, <1>3 DEF Timeout, AbandonEffect
  <1> QED
    BY <1>2, <1>3

(* Propose up to runPhase1 (proposer.go:108-141), and BecomeLeader (365-388). *)
LEMMA StartDoes ==
  ASSUME TypeOK, NEW n \in Node, NEW v \in Bytes
  PROVE  /\ Propose(n, v) => ProposeEffect(n, v)
         /\ BecomeLeader(n) => StartEffect(n, 0, Nil) /\ UNCHANGED nextInstance
  <1>1. NextRound(currentRound[n]) \in 0 .. RoundSpan - 1 /\ currentRound \in [Node -> 0 .. RoundSpan - 1]
    BY RoundSpanAssumption DEF NextRound, TypeOK
  <1>2. ASSUME NEW i \in Slot, NEW w, Start(n, i, w),
               currentRound' = [currentRound EXCEPT ![n] = NextRound(currentRound[n])]
        PROVE  Becomes(n, i, [pc |-> "prepare", ballot |-> MakeBallot(NextRound(currentRound[n]), n),
                              asked |-> w, value |-> w, promises |-> {}, accepteds |-> {}])
    <2>1. PICK q : q = [pc |-> "prepare", ballot |-> MakeBallot(NextRound(currentRound[n]), n),
                        asked |-> w, value |-> w, promises |-> {}, accepteds |-> {}]
      BY Zenon
    <2>2. currentRound'[n] = NextRound(currentRound[n])
      BY Zenon, <1>1, <1>2
    <2>3. pending' = [pending EXCEPT ![n][i] = q]
      BY Zenon, <1>2, <2>1, <2>2 DEF Start
    <2> QED
      BY Zenon, <2>1, <2>3, BecomesIntro
  <1>3. ASSUME Propose(n, v) PROVE ProposeEffect(n, v)
    <2>1. nextInstance[n] \in Instance /\ nextInstance[n] \in Slot
      BY Zenon, <1>3, Constants DEF Propose
    <2>2. PICK i : i = nextInstance[n]
      BY SMTT(20)
    <2>3. StartEffect(n, i, v)
      BY Zenon, <1>1, <1>2, <1>3, <2>1, <2>2 DEF Propose, StartEffect
    <2> QED
      BY <1>3, <2>1, <2>2, <2>3 DEF Propose, ProposeEffect
  <1>4. ASSUME BecomeLeader(n) PROVE StartEffect(n, 0, Nil) /\ UNCHANGED nextInstance
    BY Zenon, <1>1, <1>2, <1>4, Constants DEF BecomeLeader, StartEffect
  <1> QED
    BY Zenon, <1>3, <1>4

(* handleCommit's ForgetInstance (node.go:308, acceptor.go:260-267). *)
LEMMA CommitForgets ==
  ASSUME TypeOK, NEW n \in Node, NEW i \in Instance, NEW b, NEW v, NEW saved \in SaveOutcomes,
         HandleCommit(n, i, b, v, saved), UNCHANGED disk
  PROVE  Forget(n, i)
  <1>1. mem \in [Node -> [Slot -> Entry]] /\ i \in Slot /\ Unset \in Entry
    BY Constants DEF TypeOK, Unset, Entry, Bytes
  <1>2. CASE UNCHANGED mem
    BY Zenon, <1>1, <1>2 DEF Forget
  <1>3. CASE mem' = [mem EXCEPT ![n] = ForgetInstance(mem[n], i)]
    BY Zenon, <1>1, <1>3 DEF Forget, ForgetInstance
  <1> QED
    BY Zenon, <1>2, <1>3 DEF HandleCommit

(* NewAcceptor on the old storage (acceptor.go:36-68). *)
LEMMA RestartReloads ==
  ASSUME TypeOK, NEW n \in Node, Restart(n)
  PROVE  Reload(n)
  <1>1. PICK d : d = disk[n]
    BY Zenon
  <1>2. d \in [Slot -> Entry] /\ mem \in [Node -> [Slot -> Entry]]
    BY Zenon, <1>1 DEF TypeOK
  <1>3. Copied(d) \in [Slot -> Entry] /\ \A j \in Slot : Copy(d[j], Copied(d)[j])
    BY SMTT(20), <1>2, CopiedEntry DEF Copy
  <1>4. mem' = [mem EXCEPT ![n] = Copied(d)] /\ disk' = disk
    BY <1>1 DEF Restart, LoadAcceptorState
  <1> QED
    BY Zenon, <1>1, <1>2, <1>3, <1>4 DEF Reload

(* Every step has one of the effects. *)
LEMMA StepDoes ==
  ASSUME TypeOK, [Next]_vars
  PROVE  StepEffect
  <1>1. CASE UNCHANGED vars
    BY Zenon, <1>1 DEF StepEffect
  <1>2. ASSUME NEW n \in Node, NEW v \in Clients[n], Propose(n, v)
        PROVE  StepEffect
    <2>1. v \in Bytes
      BY Zenon, Constants
    <2>2. ProposeEffect(n, v)
      BY <1>2, <2>1, StartDoes
    <2> QED
      BY Zenon, <2>1, <2>2 DEF StepEffect
  <1>3. ASSUME NEW n \in Node, BecomeLeader(n)
        PROVE  StepEffect
    <2>1. Nil \in Bytes
      BY DEF Bytes
    <2>2. ElectEffect(n)
      BY <1>3, <2>1, StartDoes DEF ElectEffect
    <2> QED
      BY Zenon, <2>2 DEF StepEffect
  <1>4. ASSUME NEW n \in Node, StepDown(n) \/ ReadCommitCh(n)
        PROVE  StepEffect
    BY Zenon, <1>4 DEF StepEffect
  <1>5. ASSUME NEW n \in Node, NEW i \in Slot, NEW saved \in SaveOutcomes,
               StartPhase1(n, i, saved)
        PROVE  StepEffect
    <2>1. StartPhase1Effect(n, i)
      BY Zenon, <1>5, StartPhase1Does
    <2> QED
      BY Zenon, <2>1 DEF StepEffect
  <1>6. ASSUME NEW n \in Node, NEW i \in Slot, NEW saved \in SaveOutcomes,
               StartPhase2(n, i, saved)
        PROVE  StepEffect
    <2>1. StartPhase2Effect(n, i)
      BY <1>6, StartPhase2Does
    <2> QED
      BY Zenon, <2>1 DEF StepEffect
  <1>7. ASSUME NEW n \in Node, NEW m \in msgs, NEW saved \in SaveOutcomes,
               ReceivePrepare(n, m, saved)
        PROVE  StepEffect
    <2>1. ReceivePrepareEffect(n, m)
      BY Zenon, <1>7, ReceivePrepareDoes
    <2> QED
      BY Zenon, <2>1 DEF StepEffect
  <1>8. ASSUME NEW n \in Node, NEW m \in msgs, NEW saved \in SaveOutcomes,
               ReceiveAccept(n, m, saved)
        PROVE  StepEffect
    <2>1. ReceiveAcceptEffect(n, m)
      BY <1>8, ReceiveAcceptDoes
    <2> QED
      BY Zenon, <2>1 DEF StepEffect
  <1>9. ASSUME NEW n \in Node, NEW m \in msgs, ReceivePromise(n, m)
        PROVE  StepEffect
    <2>1. ReceivePromiseEffect(n, m)
      BY <1>9, ReceivePromiseDoes
    <2> QED
      BY Zenon, <2>1 DEF StepEffect
  <1>10. ASSUME NEW n \in Node, NEW m \in msgs, ReceiveAccepted(n, m)
         PROVE  StepEffect
    <2>1. ReceiveAcceptedEffect(n, m)
      BY <1>10, ReceiveAcceptedDoes
    <2> QED
      BY Zenon, <2>1 DEF StepEffect
  <1>11. ASSUME NEW n \in Node, NEW m \in msgs, ReceiveRefusal(n, m)
         PROVE  StepEffect
    <2>1. PICK i \in Slot : AbandonEffect(n, i)
      BY Zenon, <1>11, AbandonDoes
    <2> QED
      BY Zenon, <2>1 DEF StepEffect
  <1>12. ASSUME NEW n \in Node, NEW i \in Slot, Timeout(n, i)
         PROVE  StepEffect
    <2>1. AbandonEffect(n, i)
      BY <1>12, AbandonDoes
    <2> QED
      BY Zenon, <2>1 DEF StepEffect
  <1>13. ASSUME NEW n \in Node, NEW i \in Instance, NEW saved \in SaveOutcomes,
                BroadcastCommit(n, i, saved)
         PROVE  StepEffect
    <2>p. PICK p : p = pending[n][i]
      OBVIOUS
    <2>1. HandleCommit(n, i, p.ballot, p.value, saved) /\ Abandon(n, i) /\ disk' = disk
      BY Zenon, <1>13, <2>p DEF BroadcastCommit
    <2>2. Forget(n, i)
      BY Zenon, <2>1, CommitForgets
    <2>3. i \in Slot
      BY Zenon, Constants
    <2>4. Becomes(n, i, NoProposal)
      BY Zenon, <2>1, <2>3, BecomesIntro DEF Abandon
    <2>5. BroadcastCommitEffect(n, i, saved)
      BY Zenon, <1>13, <2>2, <2>4 DEF BroadcastCommitEffect
    <2> QED
      BY Zenon, <2>5 DEF StepEffect
  <1>14. ASSUME NEW n \in Node, NEW m \in msgs, NEW saved \in SaveOutcomes,
                ReceiveCommit(n, m, saved)
         PROVE  StepEffect
    <2>1. /\ HandleCommit(n, m.instance, m.ballot, m.value, saved) /\ disk' = disk
          /\ m.type = "Commit"
      BY Zenon, <1>14 DEF ReceiveCommit
    <2>2. m \in CommitMsg
      BY Zenon, <2>1, MessageKinds
    <2>3. m.instance \in Instance
      BY <2>2 DEF CommitMsg
    <2>4. Forget(n, m.instance)
      BY Zenon, <2>1, <2>3, CommitForgets
    <2>5. ReceiveCommitEffect(n, m, saved)
      BY Zenon, <1>14, <2>2, <2>4 DEF ReceiveCommitEffect
    <2> QED
      BY Zenon, <2>5 DEF StepEffect
  <1>15. ASSUME NEW n \in Node, Restart(n)
         PROVE  StepEffect
    <2>1. RestartEffect(n)
      BY Zenon, <1>15, RestartReloads DEF RestartEffect
    <2> QED
      BY Zenon, <2>1 DEF StepEffect
  <1>16. ASSUME NEW n \in Node, Serve(n)
         PROVE  StepEffect
    <2>1. Instance \subseteq Slot
      BY Zenon, Constants
    <2> QED
      BY Zenon, <1>16, <2>1, <1>2, <1>4, <1>5, <1>6, <1>7, <1>8, <1>9, <1>10, <1>11, <1>12,
         <1>13, <1>14 DEF Serve
  <1>17. ASSUME NEW n \in Node, SeekPromises(n)
         PROVE  StepEffect
    <2>1. 0 \in Slot
      BY Zenon, Constants
    <2> QED
      BY Zenon, <1>17, <2>1, <1>5, <1>9, <1>11, <1>12 DEF SeekPromises
  <1> QED
    BY Zenon, <1>1, <1>3, <1>4, <1>15, <1>16, <1>17 DEF Next, Elect

-----------------------------------------------------------------------------
(* What the channel operations do to a sequence. *)
LEMMA AppendType == \A S, s, e : s \in Seq(S) /\ e \in S => Append(s, e) \in Seq(S)
  OBVIOUS

(* Likewise for taking the first element. *)
LEMMA TailType == \A S, s : s \in Seq(S) /\ s # <<>> => Tail(s) \in Seq(S)
  OBVIOUS

(* Likewise for an empty channel. *)
LEMMA EmptySeqType == \A S : <<>> \in Seq(S)
  OBVIOUS

(* The wire form of a value is a value or nil. *)
LEMMA WireType == \A v \in Bytes : Wire(v) \in Value \cup {Nil} /\ Wire(v) \in Bytes
  BY Zenon DEF Wire, Bytes

(* A fresh cluster (NewNode on empty storage) has the types. *)
LEMMA InitTypeOK == Init => TypeOK
  <1> SUFFICES ASSUME Init PROVE TypeOK
    BY SMTT(20)
  <1>1. Unset \in Entry /\ NoEntry \in LogEntry /\ NoProposal \in Proposal
    BY ZenonT(30) DEF Unset, Entry, NoEntry, LogEntry, NoProposal, Proposal, Bytes
  <1>2. /\ mem \in [Node -> [Slot -> Entry]] /\ disk \in [Node -> [Slot -> Entry]]
        /\ log \in [Node -> [Instance -> LogEntry]] /\ committed \in [Node -> [Instance -> LogEntry]]
        /\ lastInstance \in [Node -> Slot] /\ lastCommitted \in [Node -> Slot]
    BY Zenon, <1>1, Constants DEF Init
  <1>3. /\ commitCh \in [Node -> Seq([instance : Instance, value : Bytes])]
        /\ currentRound \in [Node -> 0 .. RoundSpan - 1]
        /\ nextInstance \in [Node -> Nat \ {0}]
        /\ isLeader \in [Node -> BOOLEAN]
        /\ leaderBallot \in [Node -> Nat]
        /\ incarnation \in [Node -> Nat]
    BY SMTT(20), RoundSpanAssumption DEF Init
  <1>4. /\ pending \in [Node -> [Slot -> Proposal]]
        /\ \A n \in Node : pending[n][0].pc \in {"none", "prepare", "promises"}
    BY Zenon, <1>1, Constants DEF Init, NoProposal
  <1> QED
    BY Zenon, <1>2, <1>3, <1>4 DEF Init, TypeOK

(* Replacing one proposal by another keeps the type of pending. *)
LEMMA BecomesType ==
  ASSUME TypeOK, NEW n \in Node, NEW i \in Slot, NEW q \in Proposal, Becomes(n, i, q),
         i = 0 => q.pc \in {"none", "prepare", "promises"}
  PROVE  /\ pending' \in [Node -> [Slot -> Proposal]]
         /\ \A c \in Node : pending'[c][0].pc \in {"none", "prepare", "promises"}
  BY Zenon, Constants DEF TypeOK, Becomes

(* Every step keeps the types. *)
LEMMA EffectTypeOK ==
  ASSUME TypeOK, StepEffect
  PROVE  TypeOK'
  <1>0. NoProposal \in Proposal /\ NoProposal.pc = "none"
    BY SMTT(20) DEF NoProposal, Proposal, Bytes
  <1>1. CASE UNCHANGED vars
    BY Zenon, <1>1 DEF TypeOK, vars
  <1>2. ASSUME NEW n \in Node, NEW i \in Slot, NEW v \in Bytes, StartEffect(n, i, v),
               nextInstance' \in [Node -> Nat \ {0}]
        PROVE  TypeOK'
    <2>1. PICK r \in 0 .. RoundSpan - 1 : r = NextRound(currentRound[n])
      BY <1>2 DEF StartEffect
    <2>2. PICK q : q = [pc |-> "prepare", ballot |-> MakeBallot(r, n), asked |-> v,
                        value |-> v, promises |-> {}, accepteds |-> {}]
      BY ZenonT(30)
    <2>3. MakeBallot(r, n) \in Nat
      BY Constants, Span, RoundSpanAssumption, SMT DEF MakeBallot
    <2>4. q \in Proposal /\ q.pc = "prepare"
      BY Zenon, <2>2, <2>3 DEF Proposal
    <2>5. Becomes(n, i, q)
      BY ZenonT(30), <1>2, <2>1, <2>2 DEF StartEffect
    <2>6. currentRound' \in [Node -> 0 .. RoundSpan - 1]
      BY Zenon, <1>2, <2>1 DEF StartEffect, TypeOK
    <2>7. /\ pending' \in [Node -> [Slot -> Proposal]]
          /\ \A c \in Node : pending'[c][0].pc \in {"none", "prepare", "promises"}
      BY Zenon, <2>4, <2>5, BecomesType
    <2> QED
      BY Zenon, <1>2, <2>6, <2>7 DEF StartEffect, TypeOK, acceptorVars, learnerVars
  <1>3. ASSUME NEW n \in Node, NEW v \in Bytes, ProposeEffect(n, v)
        PROVE  TypeOK'
    <2>1. nextInstance' \in [Node -> Nat \ {0}] /\ nextInstance[n] \in Slot
      BY <1>3, Constants DEF ProposeEffect, TypeOK
    <2> QED
      BY Zenon, <1>2, <1>3, <2>1 DEF ProposeEffect
  <1>4. ASSUME NEW n \in Node, ElectEffect(n)
        PROVE  TypeOK'
    <2>1. Nil \in Bytes /\ 0 \in Slot
      BY Constants DEF Bytes
    <2> QED
      BY Zenon, <1>2, <1>4, <2>1 DEF ElectEffect, TypeOK
  <1>5. ASSUME NEW n \in Node, StepDown(n)
        PROVE  TypeOK'
    BY Zenon, <1>5 DEF StepDown, TypeOK, acceptorVars, learnerVars
  <1>6. ASSUME NEW n \in Node, NEW i \in Slot, StartPhase1Effect(n, i)
        PROVE  TypeOK'
    <2>1. PICK p : p = pending[n][i]
      BY Zenon
    <2>2. p \in Proposal
      BY SMTT(20), <2>1 DEF TypeOK
    <2>3. CASE UNCHANGED <<mem, disk, msgs>> /\ Becomes(n, i, NoProposal)
      <3>1. /\ pending' \in [Node -> [Slot -> Proposal]]
            /\ \A c \in Node : pending'[c][0].pc \in {"none", "prepare", "promises"}
        BY Zenon, <1>0, <2>3, BecomesType
      <3> QED
        BY ZenonT(30), <1>6, <2>3, <3>1 DEF StartPhase1Effect, TypeOK, learnerVars, proposerVars
    <2>4. ASSUME NEW own, own = PromiseOf(n, n, incarnation[n], i, p.ballot, mem[n][i].acceptedValue),
                 GrantPrepare(n, i, p.ballot),
                 Becomes(n, i, With(p, "promises", p.value, {own}, p.accepteds)),
                 msgs' = msgs \cup {Prepare(n, incarnation[n], i, p.ballot)}
          PROVE  TypeOK'
      <3>1. own \in PromiseMsg
        <4>1. mem[n][i] \in Entry /\ incarnation[n] \in Nat
          BY SMTT(20) DEF TypeOK
        <4>2. mem[n][i].acceptedBallot \in Nat /\ mem[n][i].acceptedValue \in Bytes
          BY Zenon, <4>1 DEF Entry
        <4>3. p.ballot \in Nat
          BY <2>2 DEF Proposal
        <4> QED
          BY Zenon, <2>4, <4>1, <4>2, <4>3 DEF PromiseOf, PromiseMsg
      <3>2. PICK q : q = With(p, "promises", p.value, {own}, p.accepteds)
        BY Zenon
      <3>3. q \in Proposal /\ q.pc = "promises"
        BY Zenon, <2>2, <3>1, <3>2 DEF With, Proposal
      <3>4. /\ pending' \in [Node -> [Slot -> Proposal]]
            /\ \A c \in Node : pending'[c][0].pc \in {"none", "prepare", "promises"}
        BY ZenonT(30), <2>4, <3>2, <3>3, BecomesType
      <3>5. Prepare(n, incarnation[n], i, p.ballot) \in PrepareMsg
        BY Zenon, <2>2 DEF Prepare, PrepareMsg, Proposal, TypeOK
      <3>6. msgs' \subseteq Message
        BY Zenon, <2>4, <3>5 DEF Message, TypeOK
      <3> QED
        BY Zenon, <1>6, <2>4, <3>4, <3>6 DEF StartPhase1Effect, TypeOK, learnerVars, proposerVars,
           GrantPrepare, Saved
    <2> QED
      BY Zenon, <1>6, <2>1, <2>3, <2>4 DEF StartPhase1Effect
  <1>7. ASSUME NEW n \in Node, NEW m, ReceivePrepareEffect(n, m)
        PROVE  TypeOK'
    <2>1. /\ m.from \in Node /\ m.inc \in Nat /\ m.instance \in Slot /\ m.ballot \in Nat
          /\ mem[n][m.instance] \in Entry
      <3>1. m \in PrepareMsg
        BY Zenon, <1>7 DEF ReceivePrepareEffect
      <3>2. m.from \in Node /\ m.inc \in Nat /\ m.instance \in Slot /\ m.ballot \in Nat
        BY SMTT(20), <3>1 DEF PrepareMsg
      <3> QED
        BY SMTT(20), <3>2 DEF TypeOK
    <2>2. RefusalOf("Reject", n, m.from, m.inc, m.instance, m.ballot) \in RejectMsg
      BY Zenon, <2>1 DEF RefusalOf, RejectMsg
    <2>3. PromiseOf(n, m.from, m.inc, m.instance, m.ballot,
                    Wire(mem[n][m.instance].acceptedValue)) \in PromiseMsg
      <3>1. mem[n][m.instance].acceptedBallot \in Nat /\ mem[n][m.instance].acceptedValue \in Bytes
        BY <2>1 DEF Entry
      <3>2. Wire(mem[n][m.instance].acceptedValue) \in Bytes
        BY Zenon, <3>1, WireType
      <3> QED
        BY Zenon, <2>1, <3>1, <3>2 DEF PromiseOf, PromiseMsg
    <2>4. msgs' \subseteq Message
      BY ZenonT(30), <1>7, <2>2, <2>3 DEF ReceivePrepareEffect, TypeOK, Message
    <2>5. mem' \in [Node -> [Slot -> Entry]] /\ disk' \in [Node -> [Slot -> Entry]]
      BY Zenon, <1>7 DEF ReceivePrepareEffect, TypeOK, GrantPrepare, Saved
    <2> QED
      BY Zenon, <1>7, <2>4, <2>5 DEF ReceivePrepareEffect, TypeOK, learnerVars, proposerVars
  <1>8. ASSUME NEW n \in Node, NEW m, ReceivePromiseEffect(n, m)
        PROVE  TypeOK'
    <2>1. PICK i : i = m.instance
      OBVIOUS
    <2>2. PICK p : p = pending[n][i]
      OBVIOUS
    <2>3. m \in PromiseMsg /\ i \in Slot /\ p \in Proposal /\ m.ballot \in Nat
      <3>1. m \in PromiseMsg
        BY Zenon, <1>8 DEF ReceivePromiseEffect
      <3>2. i \in Slot /\ m.ballot \in Nat
        BY <2>1, <3>1 DEF PromiseMsg
      <3> QED
        BY Zenon, <2>2, <3>1, <3>2, ProposalTyped
    <2>4. PICK ps : ps = p.promises \cup {m}
      BY Zenon
    <2>5. ps \subseteq PromiseMsg
      BY <2>3, <2>4 DEF Proposal
    <2>6. ASSUME NEW q \in Proposal, Becomes(n, i, q),
                 i = 0 => q.pc \in {"none", "prepare", "promises"}
          PROVE  TypeOK'
      <3>1. /\ pending' \in [Node -> [Slot -> Proposal]]
            /\ \A c \in Node : pending'[c][0].pc \in {"none", "prepare", "promises"}
        BY Zenon, <2>3, <2>6, BecomesType
      <3>2. isLeader' \in [Node -> BOOLEAN] /\ leaderBallot' \in [Node -> Nat]
        BY Zenon, <1>8, <2>3 DEF ReceivePromiseEffect, TypeOK
      <3> QED
        BY Zenon, <1>8, <3>1, <3>2 DEF ReceivePromiseEffect, TypeOK, acceptorVars, learnerVars
    <2>7. With(p, "promises", p.value, ps, p.accepteds) \in Proposal
      BY Zenon, <2>3, <2>5 DEF With, Proposal
    <2>8. ASSUME NEW v \in HighestAccepted(ps)
          PROVE  With(p, "accept", IF v # Nil THEN v ELSE p.value, {}, p.accepteds) \in Proposal
      <3>1. v \in Bytes
        BY Zenon, <2>5, <2>8 DEF HighestAccepted, PromiseMsg, Bytes
      <3> QED
        BY Zenon, <2>3, <3>1 DEF With, Proposal
    <2>9. \/ Becomes(n, i, With(p, "promises", p.value, ps, p.accepteds))
          \/ /\ i \in Instance
             /\ \E v \in HighestAccepted(ps) :
                  Becomes(n, i, With(p, "accept", IF v # Nil THEN v ELSE p.value, {}, p.accepteds))
          \/ Becomes(n, i, NoProposal)
      BY Zenon, <1>8, <2>1, <2>2, <2>4 DEF ReceivePromiseEffect
    <2>10. CASE Becomes(n, i, With(p, "promises", p.value, ps, p.accepteds))
      <3>1. With(p, "promises", p.value, ps, p.accepteds).pc = "promises"
        BY DEF With
      <3> QED
        BY Zenon, <2>6, <2>7, <2>10, <3>1
    <2>11. ASSUME i \in Instance, NEW v \in HighestAccepted(ps),
                  Becomes(n, i, With(p, "accept", IF v # Nil THEN v ELSE p.value, {}, p.accepteds))
           PROVE  TypeOK'
      <3>1. i # 0
        BY Zenon, <2>11, Constants
      <3>2. PICK q \in Proposal :
              q = With(p, "accept", IF v # Nil THEN v ELSE p.value, {}, p.accepteds)
        BY Zenon, <2>8, <2>11
      <3>3. Becomes(n, i, q)
        BY Zenon, <2>11, <3>2
      <3> QED
        BY Zenon, <2>6, <3>1, <3>2, <3>3
    <2>12. CASE Becomes(n, i, NoProposal)
      BY Zenon, <1>0, <2>6, <2>12
    <2> QED
      BY Zenon, <2>9, <2>10, <2>11, <2>12
  <1>9. ASSUME NEW n \in Node, NEW i \in Slot, AbandonEffect(n, i)
        PROVE  TypeOK'
    <2>1. /\ pending' \in [Node -> [Slot -> Proposal]]
          /\ \A c \in Node : pending'[c][0].pc \in {"none", "prepare", "promises"}
      BY Zenon, <1>0, <1>9, BecomesType DEF AbandonEffect
    <2> QED
      BY Zenon, <1>9, <2>1 DEF AbandonEffect, TypeOK, acceptorVars, learnerVars, proposerVars
  <1>10. ASSUME NEW n \in Node, NEW i \in Slot, StartPhase2Effect(n, i)
         PROVE  TypeOK'
    <2>1. PICK p : p = pending[n][i]
      OBVIOUS
    <2>2. p \in Proposal /\ i \in Instance /\ i # 0
      <3>1. i \in Instance
        BY ZenonT(30), <1>10 DEF StartPhase2Effect
      <3> QED
        BY Zenon, <2>1, <3>1, Constants, ProposalTyped
    <2>3. CASE UNCHANGED <<mem, disk, msgs, votes>> /\ Becomes(n, i, NoProposal)
      <3>1. /\ pending' \in [Node -> [Slot -> Proposal]]
            /\ \A c \in Node : pending'[c][0].pc \in {"none", "prepare", "promises"}
        BY Zenon, <1>0, <2>3, BecomesType
      <3> QED
        BY Zenon, <1>10, <2>3, <3>1 DEF StartPhase2Effect, TypeOK, learnerVars, proposerVars
    <2>4. ASSUME NEW own, own = AcceptedOf(n, n, incarnation[n], i, p.ballot),
                 GrantAccept(n, i, p.ballot, p.value),
                 Becomes(n, i, With(p, "accepteds", p.value, p.promises, {own})),
                 votes' = votes \cup {Vote(n, i, p.ballot, p.value)},
                 msgs' = msgs \cup {Accept(n, incarnation[n], i, p.ballot, p.value)}
          PROVE  TypeOK'
      <3>1. own \in AcceptedMsg
        BY Zenon, <2>2, <2>4 DEF AcceptedOf, AcceptedMsg, Proposal, TypeOK
      <3>2. PICK q : q = With(p, "accepteds", p.value, p.promises, {own})
        BY Zenon
      <3>3. q \in Proposal
        BY Zenon, <2>2, <3>1, <3>2 DEF With, Proposal
      <3>4. /\ pending' \in [Node -> [Slot -> Proposal]]
            /\ \A c \in Node : pending'[c][0].pc \in {"none", "prepare", "promises"}
        BY Zenon, <2>2, <2>4, <3>2, <3>3, BecomesType
      <3>w. Wire(p.value) \in Value \cup {Nil}
        BY Zenon, <2>2, WireType DEF Proposal
      <3>5. Accept(n, incarnation[n], i, p.ballot, p.value) \in AcceptMsg
        BY Zenon, <2>2, <3>w DEF Accept, AcceptMsg, Proposal, TypeOK
      <3>6. msgs' \subseteq Message
        BY Zenon, <2>4, <3>5 DEF Message, TypeOK
      <3>7. Vote(n, i, p.ballot, p.value) \in [node : Node, instance : Instance, ballot : Nat,
                                                value : Value \cup {Nil}]
        BY Zenon, <2>2, <3>w DEF Vote, Proposal
      <3>8. votes' \subseteq [node : Node, instance : Instance, ballot : Nat,
                              value : Value \cup {Nil}]
        BY Zenon, <2>4, <3>7 DEF TypeOK
      <3> QED
        BY Zenon, <1>10, <2>4, <3>4, <3>6, <3>8 DEF StartPhase2Effect, TypeOK, learnerVars,
           proposerVars, GrantAccept, Saved
    <2> QED
      BY Zenon, <1>10, <2>1, <2>3, <2>4 DEF StartPhase2Effect
  <1>11. ASSUME NEW n \in Node, NEW m, ReceiveAcceptEffect(n, m)
         PROVE  TypeOK'
    <2>1. /\ m.from \in Node /\ m.inc \in Nat /\ m.instance \in Instance /\ m.ballot \in Nat
          /\ m.value \in Value \cup {Nil}
      BY <1>11 DEF ReceiveAcceptEffect, AcceptMsg
    <2>2. RefusalOf("Nack", n, m.from, m.inc, m.instance, m.ballot) \in NackMsg
      BY Zenon, <2>1 DEF RefusalOf, NackMsg
    <2>3. AcceptedOf(n, m.from, m.inc, m.instance, m.ballot) \in AcceptedMsg
      BY Zenon, <2>1 DEF AcceptedOf, AcceptedMsg
    <2>4. msgs' \subseteq Message
      BY Zenon, <1>11, <2>2, <2>3 DEF ReceiveAcceptEffect, TypeOK, Message
    <2>5. mem' \in [Node -> [Slot -> Entry]] /\ disk' \in [Node -> [Slot -> Entry]]
      BY Zenon, <1>11 DEF ReceiveAcceptEffect, TypeOK, GrantAccept, Saved
    <2>6. Wire(m.value) \in Value \cup {Nil}
      BY SMTT(20), <2>1 DEF Wire
    <2>7. Vote(n, m.instance, m.ballot, m.value) \in
            [node : Node, instance : Instance, ballot : Nat, value : Value \cup {Nil}]
      BY ZenonT(30), <2>1, <2>6 DEF Vote
    <2>8. votes' \subseteq [node : Node, instance : Instance, ballot : Nat,
                            value : Value \cup {Nil}]
      BY Zenon, <1>11, <2>7 DEF ReceiveAcceptEffect, TypeOK
    <2> QED
      BY ZenonT(30), <1>11, <2>4, <2>5, <2>8 DEF ReceiveAcceptEffect, TypeOK, learnerVars, proposerVars
  <1>12. ASSUME NEW n \in Node, NEW m, ReceiveAcceptedEffect(n, m)
         PROVE  TypeOK'
    <2>1. PICK i : i = m.instance
      OBVIOUS
    <2>2. PICK p : p = pending[n][i]
      OBVIOUS
    <2>3. m \in AcceptedMsg /\ i \in Slot /\ i # 0 /\ p \in Proposal
      <3>1. m \in AcceptedMsg
        BY Zenon, <1>12 DEF ReceiveAcceptedEffect
      <3>2. i \in Instance
        BY <2>1, <3>1 DEF AcceptedMsg
      <3> QED
        BY Zenon, <2>2, <3>1, <3>2, Constants, ProposalTyped
    <2>4. PICK as : as = p.accepteds \cup {m}
      BY Zenon
    <2>5. PICK q \in Proposal : Becomes(n, i, q)
      <3>1. /\ With(p, "accepteds", p.value, p.promises, as) \in Proposal
            /\ With(p, "commit", p.value, p.promises, {}) \in Proposal
        BY Zenon, <2>3, <2>4 DEF With, Proposal
      <3> QED
        BY ZenonT(30), <1>12, <2>1, <2>2, <2>4, <3>1 DEF ReceiveAcceptedEffect
    <2>6. /\ pending' \in [Node -> [Slot -> Proposal]]
          /\ \A c \in Node : pending'[c][0].pc \in {"none", "prepare", "promises"}
      BY Zenon, <2>3, <2>5, BecomesType
    <2> QED
      BY ZenonT(30), <1>12, <2>6 DEF ReceiveAcceptedEffect, TypeOK, acceptorVars, learnerVars, proposerVars
  <1>13. ASSUME NEW n \in Node, NEW i \in Instance, NEW b \in Nat, NEW v \in Bytes,
                NEW saved \in SaveOutcomes, HandleCommit(n, i, b, v, saved), UNCHANGED disk
         PROVE  /\ mem' \in [Node -> [Slot -> Entry]]
                /\ log' \in [Node -> [Instance -> LogEntry]]
                /\ committed' \in [Node -> [Instance -> LogEntry]]
                /\ lastInstance' \in [Node -> Slot]
                /\ lastCommitted' \in [Node -> Slot]
                /\ commitCh' \in [Node -> Seq([instance : Instance, value : Bytes])]
    <2>1. mem' \in [Node -> [Slot -> Entry]]
      BY <1>13, CommitForgets DEF Forget
    <2>2. /\ [ballot |-> b, value |-> v] \in LogEntry
          /\ [ballot |-> b, value |-> Stored(v)] \in LogEntry
          /\ [instance |-> i, value |-> v] \in [instance : Instance, value : Bytes]
          /\ i \in Slot
      BY Zenon, Constants DEF LogEntry, Stored, Bytes
    <2>3. CASE UNCHANGED learnerVars
      BY Zenon, <2>1, <2>3 DEF learnerVars, TypeOK
    <2>4. CASE ~CommittedAt(n, i)
      <3>1. committed' \in [Node -> [Instance -> LogEntry]]
        <4>1. PICK e \in LogEntry : e = [ballot |-> b, value |-> v]
          BY Zenon, <2>2
        <4>2. committed' = [committed EXCEPT ![n][i] = e]
          BY Zenon, <1>13, <2>4, <4>1 DEF HandleCommit
        <4> QED
          BY Zenon, <4>2 DEF TypeOK
      <3>2. lastCommitted' \in [Node -> Slot]
        BY ZenonT(30), <1>13, <2>2, <2>4 DEF HandleCommit, TypeOK
      <3>3. log' \in [Node -> [Instance -> LogEntry]] /\ lastInstance' \in [Node -> Slot]
        <4>1. PICK e \in LogEntry : e = [ballot |-> b, value |-> Stored(v)]
          BY ZenonT(30), <2>2
        <4>2. \/ /\ log' = [log EXCEPT ![n][i] = e]
                 /\ lastInstance' = [lastInstance EXCEPT ![n] = IF i > @ THEN i ELSE @]
              \/ log' = log /\ lastInstance' = lastInstance
          BY Zenon, <1>13, <2>4, <4>1 DEF HandleCommit, AppendLog
        <4>3. log' \in [Node -> [Instance -> LogEntry]]
          <5>1. log \in [Node -> [Instance -> LogEntry]]
            BY DEF TypeOK
          <5>2. CASE log' = [log EXCEPT ![n][i] = e]
            BY Zenon, <5>1, <5>2
          <5> QED
            BY Zenon, <4>2, <5>1, <5>2
        <4>4. lastInstance' \in [Node -> Slot]
          BY ZenonT(30), <2>2, <4>2 DEF TypeOK
        <4> QED
          BY <4>3, <4>4
      <3>4. commitCh' \in [Node -> Seq([instance : Instance, value : Bytes])]
        <4>1. PICK e \in [instance : Instance, value : Bytes] : e = [instance |-> i, value |-> v]
          BY Zenon, <2>2
        <4>2. \/ commitCh' = [commitCh EXCEPT ![n] = Append(commitCh[n], e)]
              \/ commitCh' = commitCh
          BY Zenon, <1>13, <2>4, <4>1 DEF HandleCommit
        <4>3. commitCh[n] \in Seq([instance : Instance, value : Bytes])
          BY Zenon DEF TypeOK
        <4>4. Append(commitCh[n], e) \in Seq([instance : Instance, value : Bytes])
          BY <4>3, AppendType
        <4> QED
          BY ZenonT(30), <4>2, <4>4 DEF TypeOK
      <3> QED
        BY ZenonT(30), <2>1, <3>1, <3>2, <3>3, <3>4
    <2> QED
      BY ZenonT(30), <1>13, <2>3, <2>4 DEF HandleCommit
  <1>14. ASSUME NEW n \in Node, NEW i \in Instance, NEW saved \in SaveOutcomes,
                BroadcastCommitEffect(n, i, saved)
         PROVE  TypeOK'
    <2>1. PICK p : p = pending[n][i]
      OBVIOUS
    <2>2. p \in Proposal /\ p.ballot \in Nat /\ p.value \in Bytes /\ p.asked \in Bytes /\ i \in Slot
      <3>1. i \in Slot /\ p \in Proposal
        BY Zenon, <2>1, Constants, ProposalTyped
      <3> QED
        BY SMTT(20), <3>1 DEF Proposal
    <2>3. /\ HandleCommit(n, i, p.ballot, p.value, saved) /\ UNCHANGED disk
          /\ msgs' = msgs \cup {Commit(n, i, p.ballot, p.value)}
          /\ acks' = acks \cup {[node |-> n, instance |-> i, asked |-> p.asked]}
          /\ pending' = [pending EXCEPT ![n][i] = NoProposal]
          /\ UNCHANGED <<proposerVars, incarnation, votes>>
      BY Zenon, <1>14, <2>1 DEF BroadcastCommitEffect, BroadcastCommit, Abandon
    <2>4. Wire(p.value) \in Value \cup {Nil}
      BY SMTT(20), <2>2, WireType
    <2>5. Commit(n, i, p.ballot, p.value) \in CommitMsg
      BY ZenonT(30), <2>2, <2>4 DEF Commit, CommitMsg
    <2>6. msgs' \subseteq Message
      BY Zenon, <2>3, <2>5 DEF TypeOK, Message
    <2>7. acks' \subseteq [node : Node, instance : Instance, asked : Bytes]
      <3>1. acks \subseteq [node : Node, instance : Instance, asked : Bytes]
        BY Zenon DEF TypeOK
      <3>2. acks' = acks \cup {[node |-> n, instance |-> i, asked |-> p.asked]}
        BY Zenon, <2>3
      <3>3. p.asked \in Bytes
        BY SMTT(20), <2>2
      <3> QED
        BY SMTT(20), <3>1, <3>2, <3>3
    <2>8. Becomes(n, i, NoProposal)
      BY ZenonT(30), <1>14 DEF BroadcastCommitEffect
    <2>9. /\ pending' \in [Node -> [Slot -> Proposal]]
          /\ \A c \in Node : pending'[c][0].pc \in {"none", "prepare", "promises"}
      BY Zenon, <1>0, <2>2, <2>8, BecomesType
    <2> QED
      BY Zenon, <1>13, <2>2, <2>3, <2>6, <2>7, <2>9 DEF TypeOK, proposerVars
  <1>15. ASSUME NEW n \in Node, NEW m \in msgs, NEW saved \in SaveOutcomes,
                ReceiveCommitEffect(n, m, saved)
         PROVE  TypeOK'
    <2>1. m \in CommitMsg /\ ReceiveCommit(n, m, saved)
      BY Zenon, <1>15 DEF ReceiveCommitEffect
    <2>2. m.instance \in Instance /\ m.ballot \in Nat /\ m.value \in Bytes
      BY SMTT(20), <2>1 DEF CommitMsg, Bytes
    <2> QED
      BY Zenon, <1>13, <2>1, <2>2 DEF ReceiveCommit, TypeOK, proposerVars
  <1>16. ASSUME NEW n \in Node, ReadCommitCh(n)
         PROVE  TypeOK'
    <2>1. commitCh' \in [Node -> Seq([instance : Instance, value : Bytes])]
      <3>1. commitCh[n] \in Seq([instance : Instance, value : Bytes]) /\ commitCh[n] # <<>>
        BY ZenonT(30), <1>16 DEF ReadCommitCh, TypeOK
      <3>2. Tail(commitCh[n]) \in Seq([instance : Instance, value : Bytes])
        BY <3>1, TailType
      <3> QED
        BY Zenon, <1>16, <3>2 DEF ReadCommitCh, TypeOK
    <2> QED
      BY Zenon, <1>16, <2>1 DEF ReadCommitCh, TypeOK, proposerVars
  <1>17. ASSUME NEW n \in Node, RestartEffect(n)
         PROVE  TypeOK'
    <2>0. Restart(n)
      BY Zenon, <1>17 DEF RestartEffect
    <2>1. mem' \in [Node -> [Slot -> Entry]]
      BY Zenon, <1>17 DEF RestartEffect, Reload
    <2>2. NoEntry \in LogEntry
      BY Zenon DEF NoEntry, LogEntry, Bytes
    <2>3. committed' \in [Node -> [Instance -> LogEntry]] /\ lastCommitted' \in [Node -> Slot]
      BY Zenon, <2>0, <2>2 DEF Restart, GetLogRange, TypeOK
    <2>4. commitCh' \in [Node -> Seq([instance : Instance, value : Bytes])]
      <3>1. <<>> \in Seq([instance : Instance, value : Bytes])
        BY EmptySeqType
      <3> QED
        BY Zenon, <2>0, <3>1 DEF Restart, TypeOK
    <2>5. /\ currentRound' \in [Node -> 0 .. RoundSpan - 1]
          /\ nextInstance' \in [Node -> Nat \ {0}]
          /\ isLeader' \in [Node -> BOOLEAN]
          /\ leaderBallot' \in [Node -> Nat]
          /\ incarnation' \in [Node -> Nat]
      <3>0. /\ currentRound' = [currentRound EXCEPT ![n] = 0]
            /\ nextInstance' = [nextInstance EXCEPT ![n] = 1]
            /\ isLeader' = [isLeader EXCEPT ![n] = FALSE]
            /\ leaderBallot' = [leaderBallot EXCEPT ![n] = 0]
            /\ incarnation' = [incarnation EXCEPT ![n] = @ + 1]
        BY Zenon, <2>0 DEF Restart
      <3>1. currentRound' \in [Node -> 0 .. RoundSpan - 1] /\ nextInstance' \in [Node -> Nat \ {0}]
        BY SMTT(20), <3>0, RoundSpanAssumption DEF TypeOK
      <3>2. isLeader' \in [Node -> BOOLEAN] /\ leaderBallot' \in [Node -> Nat]
        BY Zenon, <3>0 DEF TypeOK
      <3>3. incarnation' \in [Node -> Nat]
        BY SMTT(20), <3>0 DEF TypeOK
      <3> QED
        BY <3>1, <3>2, <3>3
    <2>6. /\ pending' \in [Node -> [Slot -> Proposal]]
          /\ \A c \in Node : pending'[c][0].pc \in {"none", "prepare", "promises"}
      BY Zenon, <1>0, <2>0, Constants DEF Restart, TypeOK
    <2> QED
      BY Zenon, <2>0, <2>1, <2>3, <2>4, <2>5, <2>6 DEF Restart, TypeOK
  <1> QED
    BY ZenonT(30), <1>1, <1>3, <1>4, <1>5, <1>6, <1>7, <1>8, <1>9, <1>10, <1>11, <1>12, <1>14, <1>15,
       <1>16, <1>17 DEF StepEffect

(* So every step keeps the types. *)
LEMMA StepTypeOK == TypeOK /\ [Next]_vars => TypeOK'
  BY Zenon, StepDoes, EffectTypeOK

(* Rounds fit their width, values keep their wire form, an election has no    *)
(* second phase: the types hold in every execution of any cluster.            *)
THEOREM TypeCorrect == Spec => []TypeOK
  BY InitTypeOK, StepTypeOK, PTL DEF Spec
-----------------------------------------------------------------------------
(* The notifications q of one node are of its committed entries E, "none" being *)
(* the missing entry.                                                            *)
Genuine(q, E, none) ==
  \A j, k \in 1 .. Len(q) :
    /\ E[q[j].instance] # none
    /\ E[q[j].instance].value = q[j].value
    /\ q[j].instance = q[k].instance => j = k

(* The application takes the first one (Subscribe, node.go:184-188). *)
LEMMA TailGenuine ==
  ASSUME NEW none, NEW S, NEW q \in Seq(S), NEW E, q # <<>>, Genuine(q, E, none)
  PROVE  Genuine(Tail(q), E, none)
  <1>1. Len(Tail(q)) = Len(q) - 1 /\ Len(q) \in Nat /\ Len(q) > 0
    OBVIOUS
  <1>2. \A j \in 1 .. Len(Tail(q)) : Tail(q)[j] = q[j + 1] /\ j + 1 \in 1 .. Len(q)
    BY <1>1
  <1>3. ASSUME NEW j \in 1 .. Len(Tail(q)), NEW k \in 1 .. Len(Tail(q))
        PROVE  /\ E[Tail(q)[j].instance] # none
               /\ E[Tail(q)[j].instance].value = Tail(q)[j].value
               /\ Tail(q)[j].instance = Tail(q)[k].instance => j = k
    <2>1. /\ Tail(q)[j] = q[j + 1] /\ Tail(q)[k] = q[k + 1]
          /\ j + 1 \in 1 .. Len(q) /\ k + 1 \in 1 .. Len(q) /\ j \in Int /\ k \in Int
      BY <1>2
    <2>2. /\ E[q[j + 1].instance] # none
          /\ E[q[j + 1].instance].value = q[j + 1].value
          /\ q[j + 1].instance = q[k + 1].instance => j + 1 = k + 1
      BY Zenon, <2>1 DEF Genuine
    <2> QED
      BY <2>1, <2>2
  <1> QED
    BY Zenon, <1>3 DEF Genuine

(* The entries F have an entry for the notification e, E has none, and they   *)
(* agree on the instances of the notifications q.                             *)
OneMore(q, e, E, F, none) ==
  /\ E[e.instance] = none /\ F[e.instance] # none /\ F[e.instance].value = e.value
  /\ \A j \in 1 .. Len(q) : q[j].instance # e.instance => F[q[j].instance] = E[q[j].instance]

(* One more is sent, for an instance that had no entry. *)
LEMMA AppendGenuine ==
  ASSUME NEW none, NEW S, NEW q, NEW e, NEW E, NEW F, q \in Seq(S), e \in S, Genuine(q, E, none),
         OneMore(q, e, E, F, none)
  PROVE  Genuine(Append(q, e), F, none) /\ Genuine(q, F, none)
  <1>0. /\ E[e.instance] = none /\ F[e.instance] # none /\ F[e.instance].value = e.value
        /\ \A j \in 1 .. Len(q) : q[j].instance # e.instance => F[q[j].instance] = E[q[j].instance]
    BY DEF OneMore
  <1>1. Len(Append(q, e)) = Len(q) + 1 /\ Len(q) \in Nat
    OBVIOUS
  <1>2. \A j \in 1 .. Len(q) : Append(q, e)[j] = q[j]
    OBVIOUS
  <1>3. Append(q, e)[Len(q) + 1] = e
    OBVIOUS
  <1>4. \A j \in 1 .. Len(q) : q[j].instance # e.instance
    BY <1>0 DEF Genuine
  <1>5. Genuine(q, F, none)
    BY Zenon, <1>0, <1>4 DEF Genuine
  <1>6. ASSUME NEW j \in 1 .. Len(q) + 1, NEW k \in 1 .. Len(q) + 1
        PROVE  /\ F[Append(q, e)[j].instance] # none
               /\ F[Append(q, e)[j].instance].value = Append(q, e)[j].value
               /\ Append(q, e)[j].instance = Append(q, e)[k].instance => j = k
    <2>1. j \in 1 .. Len(q) \/ j = Len(q) + 1
      BY <1>1
    <2>2. k \in 1 .. Len(q) \/ k = Len(q) + 1
      BY <1>1
    <2> QED
      BY <1>0, <1>2, <1>3, <1>4, <1>5, <2>1, <2>2 DEF Genuine
  <1> QED
    BY Zenon, <1>1, <1>5, <1>6 DEF Genuine
-----------------------------------------------------------------------------
(* A proposal that is left alone still fits when more is sent and its node    *)
(* goes on to later instances.                                                *)
LEMMA FitsFrame ==
  ASSUME NEW p, NEW n, NEW i \in Nat, NEW inc, NEW next \in Nat, NEW next2 \in Nat,
         NEW M, NEW M2, Fits(p, n, i, inc, next, M), M \subseteq M2, next <= next2,
         \A m \in M2 : m \in M \/ ~(m.type = "Accept" /\ m.from = n /\ m.instance = i)
  PROVE  Fits(p, n, i, inc, next2, M2)
  BY DEF Fits, Tallied

(* A slot without a proposal. *)
LEMMA NoneFits ==
  ASSUME NEW n, NEW i, NEW inc, NEW next, NEW M
  PROVE  Fits(NoProposal, n, i, inc, next, M)
  <1>1. NoProposal.pc = "none" /\ NoProposal.promises = {} /\ NoProposal.accepteds = {}
    BY Zenon DEF NoProposal
  <1> QED
    BY <1>1 DEF Fits

(* The proposals other than the one that changes. *)
LEMMA OthersFit ==
  ASSUME TypeOK, ProposalInv, NEW n \in Node, NEW i \in Slot, NEW q, Becomes(n, i, q),
         msgs \subseteq msgs', incarnation' = incarnation,
         \A c \in Node : nextInstance'[c] \in Nat /\ nextInstance[c] <= nextInstance'[c],
         \A m \in msgs' : m \in msgs \/ m.type # "Accept" \/ (m.from = n /\ m.instance = i),
         Fits(q, n, i, incarnation'[n], nextInstance'[n], msgs')
  PROVE  ProposalInv'
  <1> SUFFICES ASSUME NEW c \in Node, NEW j \in Slot
               PROVE  Fits(pending'[c][j], c, j, incarnation'[c], nextInstance'[c], msgs')
    BY DEF ProposalInv
  <1>1. CASE c = n /\ j = i
    BY Zenon, <1>1 DEF Becomes
  <1>2. CASE c # n \/ j # i
    <2>1. pending'[c][j] = pending[c][j] /\ incarnation'[c] = incarnation[c]
      BY Zenon, <1>2 DEF Becomes
    <2>2. Fits(pending[c][j], c, j, incarnation[c], nextInstance[c], msgs)
      BY Zenon DEF ProposalInv
    <2>3. nextInstance[c] \in Nat /\ j \in Nat
      BY Zenon, Constants DEF TypeOK
    <2>4. \A m \in msgs' : m \in msgs \/ ~(m.type = "Accept" /\ m.from = c /\ m.instance = j)
      BY <1>2
    <2>5. Fits(pending[c][j], c, j, incarnation[c], nextInstance'[c], msgs')
      BY Zenon, <2>2, <2>3, <2>4, FitsFrame
    <2> QED
      BY Zenon, <2>1, <2>5
  <1> QED
    BY Zenon, <1>1, <1>2

(* Likewise when no proposal changes. *)
LEMMA AllFit ==
  ASSUME TypeOK, ProposalInv, pending' = pending, msgs \subseteq msgs',
         incarnation' = incarnation, nextInstance' = nextInstance,
         \A m \in msgs' : m \in msgs \/ m.type # "Accept"
  PROVE  ProposalInv'
  <1> SUFFICES ASSUME NEW c \in Node, NEW j \in Slot
               PROVE  Fits(pending[c][j], c, j, incarnation[c], nextInstance[c], msgs')
    BY Zenon DEF ProposalInv
  <1>1. Fits(pending[c][j], c, j, incarnation[c], nextInstance[c], msgs)
    BY Zenon DEF ProposalInv
  <1>2. nextInstance[c] \in Nat /\ j \in Nat
    BY Zenon, Constants DEF TypeOK
  <1> QED
    BY <1>1, <1>2, FitsFrame
-----------------------------------------------------------------------------
(* The part of the invariant that is proved here. *)
BookInv == TypeOK /\ RequestInv /\ ReplyInv /\ ProposalInv

(* When nothing is sent, the requests and replies are as they were. *)
LEMMA NothingSent ==
  ASSUME TypeOK, RequestInv, ReplyInv, msgs' = msgs,
         \A c \in Node : nextInstance'[c] \in Nat /\ nextInstance[c] <= nextInstance'[c],
         incarnation' = incarnation
  PROVE  RequestInv' /\ ReplyInv'
  <1>1. \A c \in Node : nextInstance[c] \in Nat
    BY Zenon DEF TypeOK
  <1>2. ASSUME NEW m \in msgs, m.type = "Prepare"
        PROVE  /\ m.inc <= incarnation'[m.from]
               /\ (m.inc = incarnation'[m.from] /\ m.instance # 0) =>
                    m.instance < nextInstance'[m.from]
    <2>1. m \in PrepareMsg
      BY <1>2, MessageKinds
    <2>2. m.from \in Node /\ m.instance \in Nat
      BY Zenon, <2>1, Constants DEF PrepareMsg
    <2> QED
      BY <1>1, <1>2, <2>2 DEF RequestInv
  <1>3. RequestInv'
    BY <1>2 DEF RequestInv
  <1>4. ReplyInv'
    BY Zenon DEF ReplyInv
  <1> QED
    BY Zenon, <1>3, <1>4

(* A message that keeps the requests and replies in order when it is sent. *)
Admissible(k) ==
  /\ k.type \in {"Prepare", "Accept", "Commit"} => OwnBallot(k.ballot, k.from)
  /\ k.type = "Prepare" =>
       /\ k.inc <= incarnation[k.from]
       /\ (k.inc = incarnation[k.from] /\ k.instance # 0) => k.instance < nextInstance[k.from]
  /\ k.type = "Accept" =>
       /\ Prepare(k.from, k.inc, k.instance, k.ballot) \in msgs
       /\ \A m \in msgs : (/\ m.type = "Accept" /\ m.from = k.from /\ m.inc = k.inc
                           /\ m.instance = k.instance) => m = k
  /\ k.type = "Promise" =>
       /\ k.from # k.to /\ Prepare(k.to, k.inc, k.instance, k.ballot) \in msgs
       /\ \A m \in msgs : (/\ m.type = "Promise" /\ m.from = k.from /\ m.to = k.to
                           /\ m.inc = k.inc /\ m.instance = k.instance
                           /\ m.ballot = k.ballot) => m = k
  /\ k.type = "Accepted" =>
       /\ k.from # k.to
       /\ \E m \in msgs : /\ m.type = "Accept" /\ m.from = k.to /\ m.inc = k.inc
                          /\ m.instance = k.instance /\ m.ballot = k.ballot

(* What is sent is checked against what was sent before. *)
LEMMA OneSent ==
  ASSUME RequestInv, ReplyInv, NEW k, Admissible(k), msgs' = msgs \cup {k},
         incarnation' = incarnation, nextInstance' = nextInstance
  PROVE  RequestInv' /\ ReplyInv'
  <1>1. \A m \in msgs' : m.type \in {"Prepare", "Accept", "Commit"} => OwnBallot(m.ballot, m.from)
    BY DEF RequestInv, Admissible
  <1>2. \A m \in msgs' : m.type = "Prepare" =>
          /\ m.inc <= incarnation[m.from]
          /\ (m.inc = incarnation[m.from] /\ m.instance # 0) => m.instance < nextInstance[m.from]
    BY Zenon DEF RequestInv, Admissible
  <1>3. \A m \in msgs' : m.type = "Accept" => Prepare(m.from, m.inc, m.instance, m.ballot) \in msgs'
    BY Zenon DEF RequestInv, Admissible
  <1>4. \A m1, m2 \in msgs' :
          (/\ m1.type = "Accept" /\ m2.type = "Accept" /\ m1.from = m2.from
           /\ m1.inc = m2.inc /\ m1.instance = m2.instance) => m1 = m2
    BY DEF RequestInv, Admissible
  <1>5. \A m \in msgs' : m.type = "Promise" =>
          m.from # m.to /\ Prepare(m.to, m.inc, m.instance, m.ballot) \in msgs'
    BY Zenon DEF ReplyInv, Admissible
  <1>6. \A m \in msgs' : m.type = "Accepted" =>
          /\ m.from # m.to
          /\ \E a \in msgs' : /\ a.type = "Accept" /\ a.from = m.to /\ a.inc = m.inc
                              /\ a.instance = m.instance /\ a.ballot = m.ballot
    BY DEF ReplyInv, Admissible
  <1>7. \A m1, m2 \in msgs' :
          (/\ m1.type = "Promise" /\ m2.type = "Promise" /\ m1.from = m2.from
           /\ m1.to = m2.to /\ m1.inc = m2.inc /\ m1.instance = m2.instance
           /\ m1.ballot = m2.ballot) => m1 = m2
    BY DEF ReplyInv, Admissible
  <1> QED
    BY Zenon, <1>1, <1>2, <1>3, <1>4, <1>5, <1>6, <1>7 DEF RequestInv, ReplyInv
-----------------------------------------------------------------------------
(* Propose and BecomeLeader: the instance is new to this run of the node. *)
LEMMA StartBooks ==
  ASSUME TypeOK, RequestInv, ReplyInv, ProposalInv, NEW n \in Node, NEW i \in Slot, NEW v,
         StartEffect(n, i, v),
         \A c \in Node : nextInstance'[c] \in Nat /\ nextInstance[c] <= nextInstance'[c],
         i # 0 => i = nextInstance[n] /\ i < nextInstance'[n]
  PROVE  RequestInv' /\ ReplyInv' /\ ProposalInv'
  <1>r. PICK r : r = NextRound(currentRound[n])
    OBVIOUS
  <1>q. PICK q : q = [pc |-> "prepare", ballot |-> MakeBallot(r, n),
                      asked |-> v, value |-> v, promises |-> {}, accepteds |-> {}]
    BY Zenon
  <1>1. /\ Becomes(n, i, q) /\ r \in 0 .. RoundSpan - 1
        /\ msgs' = msgs /\ incarnation' = incarnation
    BY Zenon, <1>r, <1>q DEF StartEffect
  <1>2. RequestInv' /\ ReplyInv'
    BY Zenon, <1>1, NothingSent
  <1>3. /\ q.pc = "prepare" /\ q.ballot = MakeBallot(r, n)
        /\ q.promises = {} /\ q.accepteds = {}
    BY Zenon, <1>q
  <1>4. OwnBallot(q.ballot, n)
    BY <1>1, <1>3, RoundSpanAssumption DEF OwnBallot
  <1>5. ASSUME NEW m \in msgs, m.type = "Accept", m.from = n, m.instance = i,
               m.inc = incarnation[n]
        PROVE  FALSE
    <2>1. i # 0
      BY Zenon, <1>5, MessageKinds, Constants DEF AcceptMsg
    <2>k. PICK k : k = Prepare(n, incarnation[n], i, m.ballot)
      BY Zenon
    <2>2. k \in msgs
      BY Zenon, <1>5, <2>k DEF RequestInv
    <2>3. k.type = "Prepare" /\ k.from = n /\ k.inc = incarnation[n] /\ k.instance = i
      BY Zenon, <2>k DEF Prepare
    <2>4. i < nextInstance[n]
      BY Zenon, <2>1, <2>2, <2>3 DEF RequestInv
    <2>5. nextInstance[n] \in Nat
      BY Zenon DEF TypeOK
    <2> QED
      BY <2>1, <2>4, <2>5
  <1>6. Fits(q, n, i, incarnation'[n], nextInstance'[n], msgs')
    BY Zenon, <1>1, <1>3, <1>4, <1>5 DEF Fits
  <1>7. ProposalInv'
    BY Zenon, <1>1, <1>6, OthersFit
  <1> QED
    BY Zenon, <1>2, <1>7

(* A proposal that ends. *)
LEMMA AbandonBooks ==
  ASSUME TypeOK, RequestInv, ReplyInv, ProposalInv, NEW n \in Node, NEW i \in Slot,
         Becomes(n, i, NoProposal), msgs' = msgs, incarnation' = incarnation,
         nextInstance' = nextInstance
  PROVE  RequestInv' /\ ReplyInv' /\ ProposalInv'
  <1>1. \A c \in Node : nextInstance'[c] \in Nat /\ nextInstance[c] <= nextInstance'[c]
    BY DEF TypeOK
  <1>2. RequestInv' /\ ReplyInv'
    BY Zenon, <1>1, NothingSent
  <1>3. Fits(NoProposal, n, i, incarnation'[n], nextInstance'[n], msgs')
    BY Zenon, NoneFits
  <1>4. ProposalInv'
    BY Zenon, <1>1, <1>3, OthersFit
  <1> QED
    BY Zenon, <1>2, <1>4

(* runPhase1 up to its loop: the Prepare names the proposal's own ballot. *)
LEMMA StartPhase1Books ==
  ASSUME TypeOK, RequestInv, ReplyInv, ProposalInv, NEW n \in Node, NEW i \in Slot,
         StartPhase1Effect(n, i)
  PROVE  RequestInv' /\ ReplyInv' /\ ProposalInv'
  <1>p. PICK p : p = pending[n][i]
    OBVIOUS
  <1>o. PICK own : own = PromiseOf(n, n, incarnation[n], i, p.ballot, mem[n][i].acceptedValue)
    BY Zenon
  <1>0. /\ incarnation' = incarnation /\ nextInstance' = nextInstance /\ p.pc = "prepare"
        /\ \A c \in Node : nextInstance[c] \in Nat /\ incarnation[c] \in Nat
    BY Zenon, <1>p DEF StartPhase1Effect, proposerVars, TypeOK
  <1>1. CASE UNCHANGED <<mem, disk, msgs>> /\ Becomes(n, i, NoProposal)
    BY Zenon, <1>0, <1>1, AbandonBooks
  <1>2. CASE /\ Becomes(n, i, With(p, "promises", p.value, {own}, p.accepteds))
             /\ msgs' = msgs \cup {Prepare(n, incarnation[n], i, p.ballot)}
    <2>k. PICK k : k = Prepare(n, incarnation[n], i, p.ballot)
      OBVIOUS
    <2>q. PICK q : q = With(p, "promises", p.value, {own}, p.accepteds)
      OBVIOUS
    <2>1. Fits(p, n, i, incarnation[n], nextInstance[n], msgs)
      BY Zenon, <1>p DEF ProposalInv
    <2>2. /\ k.type = "Prepare" /\ k.from = n /\ k.inc = incarnation[n] /\ k.instance = i
          /\ k.ballot = p.ballot /\ msgs' = msgs \cup {k}
      BY Zenon, <1>2, <2>k DEF Prepare
    <2>3. OwnBallot(p.ballot, n) /\ (i # 0 => i < nextInstance[n])
      BY Zenon, <1>0, <2>1 DEF Fits
    <2>4. Admissible(k)
      BY <1>0, <2>2, <2>3 DEF Admissible
    <2>5. RequestInv' /\ ReplyInv'
      BY Zenon, <1>0, <2>2, <2>4, OneSent
    <2>6. /\ q.pc = "promises" /\ q.ballot = p.ballot /\ q.promises = {own}
          /\ q.accepteds = p.accepteds
      BY Zenon, <2>q DEF With
    <2>7. own.to = n /\ own.from = n /\ own.instance = i /\ own.ballot = p.ballot
      BY Zenon, <1>o DEF PromiseOf
    <2>8. /\ \A m \in msgs' : ~(m.type = "Accept" /\ m.from = n /\ m.instance = i /\ m.inc = incarnation[n])
          /\ \A m \in p.accepteds : Tallied(m, q, n, i, msgs')
          /\ \A m1, m2 \in p.accepteds : m1.from = n /\ m2.from = n => m1 = m2
      BY Zenon, <1>0, <2>1, <2>2, <2>6 DEF Fits, Tallied
    <2>9. Tallied(own, q, n, i, msgs') /\ Prepare(n, incarnation[n], i, q.ballot) \in msgs'
      BY Zenon, <2>2, <2>6, <2>7, <2>k DEF Tallied
    <2>10. Fits(q, n, i, incarnation'[n], nextInstance'[n], msgs')
      BY Zenon, <1>0, <2>3, <2>6, <2>8, <2>9 DEF Fits
    <2>11. /\ Becomes(n, i, q) /\ msgs \subseteq msgs'
           /\ \A c \in Node : nextInstance'[c] \in Nat /\ nextInstance[c] <= nextInstance'[c]
           /\ \A m \in msgs' : m \in msgs \/ m.type # "Accept" \/ (m.from = n /\ m.instance = i)
      BY <1>0, <1>2, <2>2, <2>q
    <2>12. ProposalInv'
      BY Zenon, <1>0, <2>10, <2>11, OthersFit
    <2> QED
      BY Zenon, <2>5, <2>12
  <1> QED
    BY Zenon, <1>p, <1>o, <1>1, <1>2 DEF StartPhase1Effect

(* An answer to a Prepare: one per request. *)
LEMMA ReceivePrepareBooks ==
  ASSUME TypeOK, RequestInv, ReplyInv, ProposalInv, NEW n \in Node, NEW m,
         ReceivePrepareEffect(n, m)
  PROVE  RequestInv' /\ ReplyInv' /\ ProposalInv'
  <1>0. /\ incarnation' = incarnation /\ nextInstance' = nextInstance /\ pending' = pending
        /\ m \in PrepareMsg /\ m \in msgs /\ n # m.from
        /\ ~Answered(n, m, {"Promise", "Reject"})
    BY Zenon DEF ReceivePrepareEffect, proposerVars
  <1>1. PICK k : /\ msgs' = msgs \cup {k}
                 /\ \/ k = RefusalOf("Reject", n, m.from, m.inc, m.instance, m.ballot)
                    \/ k = PromiseOf(n, m.from, m.inc, m.instance, m.ballot,
                                     Wire(mem[n][m.instance].acceptedValue))
    BY Zenon DEF ReceivePrepareEffect
  <1>2. /\ k.type \in {"Reject", "Promise"} /\ k.from = n /\ k.to = m.from /\ k.inc = m.inc
        /\ k.instance = m.instance /\ k.ballot = m.ballot
    <2>1. CASE k = RefusalOf("Reject", n, m.from, m.inc, m.instance, m.ballot)
      BY Zenon, <2>1 DEF RefusalOf
    <2>2. CASE k = PromiseOf(n, m.from, m.inc, m.instance, m.ballot,
                             Wire(mem[n][m.instance].acceptedValue))
      BY Zenon, <2>2 DEF PromiseOf
    <2> QED
      BY Zenon, <1>1, <2>1, <2>2
  <1>3. m = Prepare(m.from, m.inc, m.instance, m.ballot)
    BY Zenon, <1>0 DEF PrepareMsg, Prepare
  <1>4. \A a \in msgs : ~(/\ a.type = "Promise" /\ a.from = k.from /\ a.to = k.to
                          /\ a.inc = k.inc /\ a.instance = k.instance
                          /\ a.ballot = k.ballot)
    BY Zenon, <1>0, <1>2 DEF Answered
  <1>5. Admissible(k)
    BY Zenon, <1>0, <1>2, <1>3, <1>4 DEF Admissible
  <1>6. RequestInv' /\ ReplyInv'
    BY Zenon, <1>0, <1>1, <1>5, OneSent
  <1>7. \A a \in msgs' : a \in msgs \/ a.type # "Accept"
    BY Zenon, <1>1, <1>2
  <1>8. ProposalInv'
    BY Zenon, <1>0, <1>1, <1>7, AllFit
  <1> QED
    BY Zenon, <1>6, <1>8

(* Counting a promise: one more of those received, or the move to phase 2. *)
LEMMA ReceivePromiseBooks ==
  ASSUME TypeOK, RequestInv, ReplyInv, ProposalInv, NEW n \in Node, NEW m,
         ReceivePromiseEffect(n, m)
  PROVE  RequestInv' /\ ReplyInv' /\ ProposalInv'
  <1>i. PICK i : i = m.instance
    OBVIOUS
  <1>p. PICK p : p = pending[n][i]
    OBVIOUS
  <1>0. /\ incarnation' = incarnation /\ nextInstance' = nextInstance /\ msgs' = msgs
        /\ m \in PromiseMsg /\ m \in msgs /\ m.to = n /\ p.pc = "promises" /\ p.ballot = m.ballot
        /\ i \in Slot /\ m.type = "Promise"
    <2>1. /\ incarnation' = incarnation /\ nextInstance' = nextInstance /\ msgs' = msgs
          /\ m \in PromiseMsg /\ m \in msgs /\ m.to = n /\ p.pc = "promises" /\ p.ballot = m.ballot
      BY Zenon, <1>i, <1>p DEF ReceivePromiseEffect
    <2>2. i \in Slot /\ m.type = "Promise"
      BY Zenon, <1>i, <2>1 DEF PromiseMsg
    <2> QED
      BY Zenon, <2>1, <2>2
  <1>1. \A c \in Node : nextInstance'[c] \in Nat /\ nextInstance[c] <= nextInstance'[c]
    <2>1. nextInstance' = nextInstance /\ nextInstance \in [Node -> Nat \ {0}]
      BY Zenon, <1>0 DEF TypeOK
    <2> QED
      BY <2>1
  <1>2. CASE Becomes(n, i, NoProposal)
    BY Zenon, <1>0, <1>2, AbandonBooks
  <1>3. ASSUME NEW q, Becomes(n, i, q), q.ballot = p.ballot, q.accepteds = p.accepteds,
               \/ q.pc = "promises" /\ q.promises = p.promises \cup {m}
               \/ q.pc = "accept" /\ q.promises = {}
        PROVE  RequestInv' /\ ReplyInv' /\ ProposalInv'
    <2>1. Fits(p, n, i, incarnation[n], nextInstance[n], msgs)
      BY Zenon, <1>p, <1>0 DEF ProposalInv
    <2>2. m.from # n
      BY Zenon, <1>0 DEF ReplyInv
    <2>3. \A x \in q.promises : Tallied(x, q, n, i, msgs)
      BY Zenon, <1>i, <1>0, <1>3, <2>1 DEF Fits, Tallied
    <2>4. \A m1, m2 \in q.promises : m1.from = n /\ m2.from = n => m1 = m2
      BY Zenon, <1>3, <2>1, <2>2 DEF Fits
    <2>5. \A x \in q.accepteds : Tallied(x, q, n, i, msgs)
      BY Zenon, <1>3, <2>1 DEF Fits, Tallied
    <2>6. Fits(q, n, i, incarnation'[n], nextInstance'[n], msgs')
      BY ZenonT(30), <1>0, <1>3, <2>1, <2>3, <2>4, <2>5 DEF Fits
    <2>7. ProposalInv'
      BY Zenon, <1>0, <1>1, <1>3, <2>6, OthersFit
    <2> QED
      BY Zenon, <1>0, <1>1, <2>7, NothingSent
  <1>5. \/ Becomes(n, i, NoProposal)
        \/ Becomes(n, i, With(p, "promises", p.value, p.promises \cup {m}, p.accepteds))
        \/ \E w : Becomes(n, i, With(p, "accept", w, {}, p.accepteds))
    BY Zenon, <1>i, <1>p DEF ReceivePromiseEffect
  <1>6. ASSUME Becomes(n, i, With(p, "promises", p.value, p.promises \cup {m}, p.accepteds))
        PROVE  RequestInv' /\ ReplyInv' /\ ProposalInv'
    <2>q. PICK q : q = With(p, "promises", p.value, p.promises \cup {m}, p.accepteds)
      BY Zenon
    <2>1. Becomes(n, i, q)
      BY Zenon, <1>6, <2>q
    <2>2. q.ballot = p.ballot /\ q.accepteds = p.accepteds
      BY Zenon, <2>q DEF With
    <2>3. q.pc = "promises" /\ q.promises = p.promises \cup {m}
      BY Zenon, <2>q DEF With
    <2> QED
      BY Zenon, <1>3, <2>1, <2>2, <2>3
  <1>7. ASSUME NEW w, Becomes(n, i, With(p, "accept", w, {}, p.accepteds))
        PROVE  RequestInv' /\ ReplyInv' /\ ProposalInv'
    <2>q. PICK q : q = With(p, "accept", w, {}, p.accepteds)
      BY Zenon
    <2>1. Becomes(n, i, q)
      BY Zenon, <1>7, <2>q
    <2>2. q.ballot = p.ballot /\ q.accepteds = p.accepteds
      BY Zenon, <2>q DEF With
    <2>3. q.pc = "accept" /\ q.promises = {}
      BY Zenon, <2>q DEF With
    <2> QED
      BY Zenon, <1>3, <2>1, <2>2, <2>3
  <1> QED
    BY Zenon, <1>2, <1>5, <1>6, <1>7

(* runPhase2 up to its loop: one Accept per run of a node and instance. *)
LEMMA StartPhase2Books ==
  ASSUME TypeOK, RequestInv, ReplyInv, ProposalInv, NEW n \in Node, NEW i \in Slot,
         StartPhase2Effect(n, i)
  PROVE  RequestInv' /\ ReplyInv' /\ ProposalInv'
  <1>p. PICK p : p = pending[n][i]
    OBVIOUS
  <1>o. PICK own : own = AcceptedOf(n, n, incarnation[n], i, p.ballot)
    BY Zenon
  <1>0. /\ incarnation' = incarnation /\ nextInstance' = nextInstance /\ p.pc = "accept"
        /\ \A c \in Node : nextInstance[c] \in Nat
    BY Zenon, <1>p DEF StartPhase2Effect, proposerVars, TypeOK
  <1>1. CASE UNCHANGED <<mem, disk, msgs, votes>> /\ Becomes(n, i, NoProposal)
    BY Zenon, <1>0, <1>1, AbandonBooks
  <1>2. CASE /\ Becomes(n, i, With(p, "accepteds", p.value, p.promises, {own}))
             /\ msgs' = msgs \cup {Accept(n, incarnation[n], i, p.ballot, p.value)}
    <2>k. PICK k : k = Accept(n, incarnation[n], i, p.ballot, p.value)
      OBVIOUS
    <2>q. PICK q : q = With(p, "accepteds", p.value, p.promises, {own})
      BY Zenon
    <2>1. Fits(p, n, i, incarnation[n], nextInstance[n], msgs)
      BY <1>p DEF ProposalInv
    <2>2. /\ k.type = "Accept" /\ k.from = n /\ k.inc = incarnation[n] /\ k.instance = i
          /\ k.ballot = p.ballot
      BY Zenon, <2>k DEF Accept
    <2>s. msgs' = msgs \cup {k}
      BY Zenon, <1>2, <2>k
    <2>3. /\ OwnBallot(p.ballot, n) /\ (i # 0 => i < nextInstance[n])
          /\ Prepare(n, incarnation[n], i, p.ballot) \in msgs
          /\ \A m \in msgs : ~(m.type = "Accept" /\ m.from = n /\ m.instance = i /\ m.inc = incarnation[n])
      BY Zenon, <1>0, <2>1 DEF Fits
    <2>4. Admissible(k)
      BY Zenon, <2>2, <2>3 DEF Admissible
    <2>5. RequestInv' /\ ReplyInv'
      BY Zenon, <1>0, <2>s, <2>4, OneSent
    <2>6. /\ q.pc = "accepteds" /\ q.ballot = p.ballot /\ q.promises = p.promises
          /\ q.accepteds = {own} /\ q.value = p.value
      BY Zenon, <2>q DEF With
    <2>7. own.to = n /\ own.from = n /\ own.instance = i /\ own.ballot = p.ballot
      BY <1>o DEF AcceptedOf
    <2>8. /\ \A m \in p.promises : Tallied(m, q, n, i, msgs')
          /\ \A m1, m2 \in p.promises : m1.from = n /\ m2.from = n => m1 = m2
      BY Zenon, <2>1, <2>s, <2>6 DEF Fits, Tallied
    <2>9. /\ Tallied(own, q, n, i, msgs')
          /\ Accept(n, incarnation[n], i, q.ballot, q.value) \in msgs'
      BY Zenon, <2>s, <2>6, <2>7, <2>k DEF Tallied
    <2>10. Fits(q, n, i, incarnation'[n], nextInstance'[n], msgs')
      BY ZenonT(30), <1>0, <2>3, <2>s, <2>6, <2>8, <2>9 DEF Fits
    <2>11. /\ Becomes(n, i, q) /\ msgs \subseteq msgs'
           /\ \A c \in Node : nextInstance'[c] \in Nat /\ nextInstance[c] <= nextInstance'[c]
           /\ \A m \in msgs' : m \in msgs \/ m.type # "Accept" \/ (m.from = n /\ m.instance = i)
      BY SMTT(30), <1>0, <1>2, <2>2, <2>s, <2>q
    <2>12. ProposalInv'
      BY Zenon, <1>0, <2>10, <2>11, OthersFit
    <2> QED
      BY <2>5, <2>12
  <1> QED
    BY Zenon, <1>p, <1>o, <1>1, <1>2 DEF StartPhase2Effect

(* An answer to an Accept. *)
LEMMA ReceiveAcceptBooks ==
  ASSUME TypeOK, RequestInv, ReplyInv, ProposalInv, NEW n \in Node, NEW m,
         ReceiveAcceptEffect(n, m)
  PROVE  RequestInv' /\ ReplyInv' /\ ProposalInv'
  <1>0. /\ incarnation' = incarnation /\ nextInstance' = nextInstance /\ pending' = pending
        /\ m \in AcceptMsg /\ m \in msgs /\ n # m.from
    BY Zenon DEF ReceiveAcceptEffect, proposerVars
  <1>1. PICK k : /\ msgs' = msgs \cup {k}
                 /\ \/ k = RefusalOf("Nack", n, m.from, m.inc, m.instance, m.ballot)
                    \/ k = AcceptedOf(n, m.from, m.inc, m.instance, m.ballot)
    BY Zenon DEF ReceiveAcceptEffect
  <1>2. /\ k.type \in {"Nack", "Accepted"} /\ k.from = n /\ k.to = m.from /\ k.inc = m.inc
        /\ k.instance = m.instance /\ k.ballot = m.ballot
    BY <1>1 DEF RefusalOf, AcceptedOf
  <1>3. m.type = "Accept"
    BY Zenon, <1>0 DEF AcceptMsg
  <1>5. Admissible(k)
    BY Zenon, <1>0, <1>2, <1>3 DEF Admissible
  <1>6. RequestInv' /\ ReplyInv'
    BY Zenon, <1>0, <1>1, <1>5, OneSent
  <1>7. \A a \in msgs' : a \in msgs \/ a.type # "Accept"
    BY Zenon, <1>1, <1>2
  <1>8. ProposalInv'
    BY Zenon, <1>0, <1>1, <1>7, AllFit
  <1> QED
    BY <1>6, <1>8

(* Counting an accepted, up to the quorum. *)
LEMMA ReceiveAcceptedBooks ==
  ASSUME TypeOK, RequestInv, ReplyInv, ProposalInv, NEW n \in Node, NEW m,
         ReceiveAcceptedEffect(n, m)
  PROVE  RequestInv' /\ ReplyInv' /\ ProposalInv'
  <1>i. PICK i : i = m.instance
    OBVIOUS
  <1>p. PICK p : p = pending[n][i]
    OBVIOUS
  <1>0. /\ incarnation' = incarnation /\ nextInstance' = nextInstance /\ msgs' = msgs
        /\ m \in AcceptedMsg /\ m \in msgs /\ m.to = n /\ p.pc = "accepteds" /\ p.ballot = m.ballot
        /\ i \in Slot /\ m.type = "Accepted"
    BY ZenonT(30), <1>i, <1>p, Constants DEF ReceiveAcceptedEffect, AcceptedMsg, proposerVars
  <1>1. \A c \in Node : nextInstance'[c] \in Nat /\ nextInstance[c] <= nextInstance'[c]
    <2>1. nextInstance' = nextInstance /\ nextInstance \in [Node -> Nat \ {0}]
      BY Zenon, <1>0 DEF TypeOK
    <2> QED
      BY <2>1
  <1>3. ASSUME NEW q, Becomes(n, i, q), q.ballot = p.ballot, q.promises = p.promises,
               q.value = p.value,
               \/ q.pc = "accepteds" /\ q.accepteds = p.accepteds \cup {m}
               \/ q.pc = "commit" /\ q.accepteds = {}
        PROVE  RequestInv' /\ ReplyInv' /\ ProposalInv'
    <2>1. Fits(p, n, i, incarnation[n], nextInstance[n], msgs)
      BY Zenon, <1>p, <1>0 DEF ProposalInv
    <2>2. m.from # n
      BY <1>0 DEF ReplyInv
    <2>3. \A x \in q.accepteds : Tallied(x, q, n, i, msgs)
      BY Zenon, <1>i, <1>0, <1>3, <2>1 DEF Fits, Tallied
    <2>4. \A m1, m2 \in q.accepteds : m1.from = n /\ m2.from = n => m1 = m2
      BY Zenon, <1>3, <2>1, <2>2 DEF Fits
    <2>5. \A x \in q.promises : Tallied(x, q, n, i, msgs)
      BY Zenon, <1>3, <2>1 DEF Fits, Tallied
    <2>6. Fits(q, n, i, incarnation'[n], nextInstance'[n], msgs')
      BY Zenon, <1>0, <1>3, <2>1, <2>3, <2>4, <2>5 DEF Fits
    <2>7. ProposalInv'
      BY Zenon, <1>0, <1>1, <1>3, <2>6, OthersFit
    <2> QED
      BY ZenonT(30), <1>0, <1>1, <2>7, NothingSent
  <1>6. ASSUME Becomes(n, i, With(p, "accepteds", p.value, p.promises, p.accepteds \cup {m}))
        PROVE  RequestInv' /\ ReplyInv' /\ ProposalInv'
    <2>q. PICK q : q = With(p, "accepteds", p.value, p.promises, p.accepteds \cup {m})
      OBVIOUS
    <2>1. Becomes(n, i, q)
      BY Zenon, <1>6, <2>q
    <2>2. q.ballot = p.ballot /\ q.promises = p.promises /\ q.value = p.value
      BY Zenon, <2>q DEF With
    <2>3. q.pc = "accepteds" /\ q.accepteds = p.accepteds \cup {m}
      BY Zenon, <2>q DEF With
    <2> QED
      BY Zenon, <1>3, <2>1, <2>2, <2>3
  <1>7. ASSUME Becomes(n, i, With(p, "commit", p.value, p.promises, {}))
        PROVE  RequestInv' /\ ReplyInv' /\ ProposalInv'
    <2>q. PICK q : q = With(p, "commit", p.value, p.promises, {})
      OBVIOUS
    <2>1. Becomes(n, i, q)
      BY Zenon, <1>7, <2>q
    <2>2. q.ballot = p.ballot /\ q.promises = p.promises /\ q.value = p.value
      BY Zenon, <2>q DEF With
    <2>3. q.pc = "commit" /\ q.accepteds = {}
      BY Zenon, <2>q DEF With
    <2> QED
      BY Zenon, <1>3, <2>1, <2>2, <2>3
  <1> QED
    BY Zenon, <1>i, <1>p, <1>6, <1>7 DEF ReceiveAcceptedEffect

(* broadcastCommit: the Commit names the proposal's own ballot. *)
LEMMA BroadcastCommitBooks ==
  ASSUME TypeOK, RequestInv, ReplyInv, ProposalInv, NEW n \in Node, NEW i \in Instance,
         NEW saved, BroadcastCommitEffect(n, i, saved)
  PROVE  RequestInv' /\ ReplyInv' /\ ProposalInv'
  <1>p. PICK p : p = pending[n][i]
    OBVIOUS
  <1>k. PICK k : k = Commit(n, i, p.ballot, p.value)
    OBVIOUS
  <1>0. /\ incarnation' = incarnation /\ nextInstance' = nextInstance /\ p.pc = "commit"
        /\ msgs' = msgs \cup {k} /\ Becomes(n, i, NoProposal) /\ i \in Slot
    BY Zenon, <1>p, <1>k, Constants DEF BroadcastCommitEffect, BroadcastCommit, proposerVars
  <1>1. k.type = "Commit" /\ k.from = n /\ k.ballot = p.ballot
    BY Zenon, <1>k DEF Commit
  <1>2. Fits(p, n, i, incarnation[n], nextInstance[n], msgs)
    BY Zenon, <1>p, <1>0 DEF ProposalInv
  <1>3. OwnBallot(p.ballot, n)
    BY Zenon, <1>0, <1>2 DEF Fits
  <1>4. Admissible(k)
    BY Zenon, <1>1, <1>3 DEF Admissible
  <1>5. RequestInv' /\ ReplyInv'
    BY Zenon, <1>0, <1>4, OneSent
  <1>q. PICK q : q = NoProposal
    OBVIOUS
  <1>6. Becomes(n, i, q)
    BY Zenon, <1>0, <1>q
  <1>7. Fits(q, n, i, incarnation'[n], nextInstance'[n], msgs')
    BY Zenon, <1>q, NoneFits
  <1>8. msgs \subseteq msgs' /\ incarnation' = incarnation
    BY Zenon, <1>0
  <1>9. \A c \in Node : nextInstance'[c] \in Nat /\ nextInstance[c] <= nextInstance'[c]
    <2>1. nextInstance' = nextInstance /\ nextInstance \in [Node -> Nat \ {0}]
      BY Zenon, <1>0 DEF TypeOK
    <2> QED
      BY <2>1
  <1>10. \A m \in msgs' : m \in msgs \/ m.type # "Accept" \/ (m.from = n /\ m.instance = i)
    BY Zenon, <1>0, <1>1
  <1>11. ProposalInv'
    <2>1. i \in Slot
      BY <1>0
    <2> QED
      BY Zenon, <2>1, <1>6, <1>7, <1>8, <1>9, <1>10, OthersFit
  <1> QED
    BY Zenon, <1>5, <1>11

(* A process restarted: its new incarnation has asked nothing yet. *)
LEMMA RestartBooks ==
  ASSUME TypeOK, RequestInv, ReplyInv, ProposalInv, NEW n \in Node, RestartEffect(n)
  PROVE  RequestInv' /\ ReplyInv' /\ ProposalInv'
  <1>0. /\ msgs' = msgs
        /\ incarnation' = [incarnation EXCEPT ![n] = @ + 1]
        /\ nextInstance' = [nextInstance EXCEPT ![n] = 1]
        /\ pending' = [pending EXCEPT ![n] = [i \in Slot |-> NoProposal]]
    BY Zenon DEF RestartEffect, Restart
  <1>1. /\ incarnation \in [Node -> Nat] /\ nextInstance \in [Node -> Nat \ {0}]
        /\ pending \in [Node -> [Slot -> Proposal]]
    BY Zenon DEF TypeOK
  <1>2. /\ incarnation'[n] = incarnation[n] + 1 /\ incarnation[n] \in Nat
        /\ \A c \in Node \ {n} : /\ incarnation'[c] = incarnation[c]
                                 /\ nextInstance'[c] = nextInstance[c]
                                 /\ pending'[c] = pending[c]
        /\ \A j \in Slot : pending'[n][j] = NoProposal
    BY <1>0, <1>1
  <1>3. ASSUME NEW m \in msgs, m.type = "Prepare"
        PROVE  /\ m.inc <= incarnation'[m.from]
               /\ (m.inc = incarnation'[m.from] /\ m.instance # 0) =>
                    m.instance < nextInstance'[m.from]
    <2>1. m.from \in Node /\ m.inc \in Nat
      BY Zenon, <1>3, MessageKinds DEF PrepareMsg
    <2>2. /\ m.inc <= incarnation[m.from]
          /\ (m.inc = incarnation[m.from] /\ m.instance # 0) => m.instance < nextInstance[m.from]
      BY Zenon, <1>3 DEF RequestInv
    <2>3. CASE m.from = n
      BY <1>2, <2>1, <2>2, <2>3
    <2>4. CASE m.from # n
      BY Zenon, <1>2, <2>1, <2>2, <2>4
    <2> QED
      BY Zenon, <2>3, <2>4
  <1>4. RequestInv'
    BY Zenon, <1>0, <1>3 DEF RequestInv
  <1>5. ReplyInv'
    BY Zenon, <1>0 DEF ReplyInv
  <1>6. ASSUME NEW c \in Node, NEW j \in Slot
        PROVE  Fits(pending'[c][j], c, j, incarnation'[c], nextInstance'[c], msgs')
    <2>1. CASE c = n
      BY Zenon, <1>2, <2>1, NoneFits
    <2>2. CASE c # n
      BY Zenon, <1>0, <1>2, <2>2 DEF ProposalInv
    <2> QED
      BY Zenon, <2>1, <2>2
  <1>7. ProposalInv'
    BY Zenon, <1>6 DEF ProposalInv
  <1> QED
    BY Zenon, <1>4, <1>5, <1>7

(* Steps that touch neither the messages nor a proposal. *)
LEMMA ElsewhereBooks ==
  ASSUME TypeOK, RequestInv, ReplyInv, ProposalInv, msgs' = msgs, pending' = pending,
         incarnation' = incarnation, nextInstance' = nextInstance
  PROVE  RequestInv' /\ ReplyInv' /\ ProposalInv'
  BY Zenon DEF RequestInv, ReplyInv, ProposalInv
-----------------------------------------------------------------------------
(* Propose, and BecomeLeader: no message yet, and a fresh slot. *)
LEMMA CallBooks ==
  ASSUME TypeOK, RequestInv, ReplyInv, ProposalInv, NEW n \in Node
  PROVE  /\ \A v \in Bytes : ProposeEffect(n, v) => RequestInv' /\ ReplyInv' /\ ProposalInv'
         /\ ElectEffect(n) => RequestInv' /\ ReplyInv' /\ ProposalInv'
  <1>0. nextInstance \in [Node -> Nat \ {0}]
    BY DEF TypeOK
  <1>1. ASSUME NEW v \in Bytes, ProposeEffect(n, v)
        PROVE  RequestInv' /\ ReplyInv' /\ ProposalInv'
    <2>i. PICK i : i = nextInstance[n]
      OBVIOUS
    <2>1. /\ StartEffect(n, i, v) /\ i \in Slot
          /\ nextInstance' = [nextInstance EXCEPT ![n] = @ + 1]
      BY Zenon, <1>1, <2>i, Constants DEF ProposeEffect
    <2>2. /\ nextInstance'[n] = i + 1
          /\ \A c \in Node : nextInstance'[c] \in Nat /\ nextInstance[c] <= nextInstance'[c]
      BY <1>0, <2>i, <2>1
    <2>3. i = nextInstance[n] /\ i < nextInstance'[n]
      BY <1>0, <2>i, <2>2
    <2> QED
      BY Zenon, <2>1, <2>2, <2>3, StartBooks
  <1>2. ASSUME ElectEffect(n)
        PROVE  RequestInv' /\ ReplyInv' /\ ProposalInv'
    <2>1. Nil \in Bytes /\ 0 \in Slot
      BY Constants DEF Bytes
    <2>2. StartEffect(n, 0, Nil) /\ nextInstance' = nextInstance
      BY Zenon, <1>2 DEF ElectEffect
    <2>3. \A c \in Node : nextInstance'[c] \in Nat /\ nextInstance[c] <= nextInstance'[c]
      BY <1>0, <2>2
    <2> QED
      BY Zenon, <2>1, <2>2, <2>3, StartBooks
  <1> QED
    BY Zenon, <1>1, <1>2

(* Every step keeps the books of requests, replies and proposals. *)
LEMMA StepBooks ==
  ASSUME TypeOK, RequestInv, ReplyInv, ProposalInv, StepEffect
  PROVE  RequestInv' /\ ReplyInv' /\ ProposalInv'
  <1>1. CASE UNCHANGED vars
    BY Zenon, <1>1, ElsewhereBooks DEF vars
  <1>2. ASSUME NEW n \in Node,
               (\E v \in Bytes : ProposeEffect(n, v)) \/ ElectEffect(n)
        PROVE  RequestInv' /\ ReplyInv' /\ ProposalInv'
    BY Zenon, <1>2, CallBooks
  <1>3. ASSUME NEW n \in Node, StepDown(n) \/ ReadCommitCh(n)
        PROVE  RequestInv' /\ ReplyInv' /\ ProposalInv'
    BY Zenon, <1>3, ElsewhereBooks DEF StepDown, ReadCommitCh, proposerVars
  <1>4. ASSUME NEW n \in Node, NEW i \in Slot, AbandonEffect(n, i)
        PROVE  RequestInv' /\ ReplyInv' /\ ProposalInv'
    BY Zenon, <1>4, AbandonBooks DEF AbandonEffect, proposerVars
  <1>5. ASSUME NEW n \in Node, NEW i \in Slot, StartPhase1Effect(n, i)
        PROVE  RequestInv' /\ ReplyInv' /\ ProposalInv'
    BY Zenon, <1>5, StartPhase1Books
  <1>6. ASSUME NEW n \in Node, NEW i \in Slot, StartPhase2Effect(n, i)
        PROVE  RequestInv' /\ ReplyInv' /\ ProposalInv'
    BY Zenon, <1>6, StartPhase2Books
  <1>7. ASSUME NEW n \in Node, NEW m \in msgs, ReceivePrepareEffect(n, m)
        PROVE  RequestInv' /\ ReplyInv' /\ ProposalInv'
    BY Zenon, <1>7, ReceivePrepareBooks
  <1>8. ASSUME NEW n \in Node, NEW m \in msgs, ReceivePromiseEffect(n, m)
        PROVE  RequestInv' /\ ReplyInv' /\ ProposalInv'
    BY Zenon, <1>8, ReceivePromiseBooks
  <1>9. ASSUME NEW n \in Node, NEW m \in msgs, ReceiveAcceptEffect(n, m)
        PROVE  RequestInv' /\ ReplyInv' /\ ProposalInv'
    BY Zenon, <1>9, ReceiveAcceptBooks
  <1>10. ASSUME NEW n \in Node, NEW m \in msgs, ReceiveAcceptedEffect(n, m)
         PROVE  RequestInv' /\ ReplyInv' /\ ProposalInv'
    BY Zenon, <1>10, ReceiveAcceptedBooks
  <1>11. ASSUME NEW n \in Node, NEW i \in Instance, NEW saved, BroadcastCommitEffect(n, i, saved)
         PROVE  RequestInv' /\ ReplyInv' /\ ProposalInv'
    BY Zenon, <1>11, BroadcastCommitBooks
  <1>12. ASSUME NEW n \in Node, NEW m \in msgs, NEW saved, ReceiveCommitEffect(n, m, saved)
         PROVE  RequestInv' /\ ReplyInv' /\ ProposalInv'
    BY Zenon, <1>12, ElsewhereBooks DEF ReceiveCommitEffect, ReceiveCommit, proposerVars
  <1>13. ASSUME NEW n \in Node, RestartEffect(n)
         PROVE  RequestInv' /\ ReplyInv' /\ ProposalInv'
    BY Zenon, <1>13, RestartBooks
  <1> QED
    BY Zenon, <1>1, <1>2, <1>3, <1>4, <1>5, <1>6, <1>7, <1>8, <1>9, <1>10, <1>11, <1>12, <1>13
       DEF StepEffect

(* A fresh cluster has sent nothing and proposes nothing. *)
LEMMA InitBooks == Init => RequestInv /\ ReplyInv /\ ProposalInv
  <1> SUFFICES ASSUME Init PROVE RequestInv /\ ReplyInv /\ ProposalInv
    BY Zenon
  <1>1. RequestInv /\ ReplyInv
    BY Zenon DEF Init, RequestInv, ReplyInv
  <1>2. \A n \in Node, i \in Slot : pending[n][i] = NoProposal
    BY DEF Init
  <1>3. ProposalInv
    BY Zenon, <1>2, NoneFits DEF ProposalInv
  <1> QED
    BY Zenon, <1>1, <1>3

(* The books are an inductive invariant on their own. *)
LEMMA StepBookInv ==
  ASSUME BookInv, TypeOK', StepEffect
  PROVE  BookInv'
  BY Zenon, StepBooks DEF BookInv
-----------------------------------------------------------------------------
(* What a step may do to the log: add to it. *)
LogKept ==
  \A n \in Node, i \in Instance : log[n][i] # NoEntry => log'[n][i] = log[n][i]

(* handleCommit writes the log only where the learner, and so the log, has    *)
(* nothing (node.go:277-324); a real ballot tells the entry from no entry.    *)
LEMMA CommitLearner ==
  ASSUME TypeOK, LearnerInv, NEW n \in Node, NEW i \in Instance, NEW b \in Nat, b > 0,
         NEW v \in Bytes, NEW saved, HandleCommit(n, i, b, v, saved)
  PROVE  LearnerInv' /\ LogKept
  <1>0. /\ log \in [Node -> [Instance -> LogEntry]] /\ committed \in [Node -> [Instance -> LogEntry]]
        /\ lastInstance \in [Node -> Nat] /\ Instance \subseteq Nat
    BY Zenon, Constants DEF TypeOK
  <1>1. CASE UNCHANGED <<learnerVars, mem>>
    BY <1>1 DEF LearnerInv, LogKept, learnerVars
  <1>2. CASE /\ ~CommittedAt(n, i)
             /\ committed' = [committed EXCEPT ![n][i] = [ballot |-> b, value |-> v]]
             /\ AppendLog(n, i, b, v) \/ UNCHANGED <<log, lastInstance>>
    <2>1. log[n][i] = NoEntry
      BY <1>2 DEF LearnerInv, CommittedAt
    <2>e. PICK e : e = [ballot |-> b, value |-> v]
      BY Zenon
    <2>2. e # NoEntry
      <3>1. e.ballot = b /\ NoEntry.ballot = 0
        BY Zenon, <2>e DEF NoEntry
      <3> QED
        BY <3>1
    <2>3. /\ committed'[n][i] = e
          /\ \A c \in Node, j \in Instance : (c # n \/ j # i) => committed'[c][j] = committed[c][j]
      BY Zenon, <1>0, <1>2, <2>e
    <2>4. \A c \in Node, j \in Instance : (c # n \/ j # i) => log'[c][j] = log[c][j]
      <3>1. CASE UNCHANGED <<log, lastInstance>>
        BY Zenon, <3>1
      <3>2. CASE AppendLog(n, i, b, v)
        <4>1. log' = [log EXCEPT ![n][i] = [ballot |-> b, value |-> Stored(v)]]
          BY Zenon, <3>2 DEF AppendLog
        <4> QED
          BY Zenon, <1>0, <4>1
      <3> QED
        BY Zenon, <1>2, <3>1, <3>2
    <2>5. /\ \A c \in Node : lastInstance'[c] \in Nat /\ lastInstance'[c] >= lastInstance[c]
          /\ log'[n][i] # log[n][i] => i <= lastInstance'[n]
      <3>1. CASE UNCHANGED <<log, lastInstance>>
        BY <1>0, <3>1
      <3>2. CASE AppendLog(n, i, b, v)
        <4>1. lastInstance' = [lastInstance EXCEPT ![n] = IF i > @ THEN i ELSE @]
          BY Zenon, <3>2 DEF AppendLog
        <4> QED
          BY <1>0, <4>1
      <3> QED
        BY Zenon, <1>2, <3>1, <3>2
    <2>6. LogKept
      BY Zenon, <2>1, <2>4 DEF LogKept
    <2>7. ASSUME NEW c \in Node, NEW j \in Instance, log'[c][j] # NoEntry
          PROVE  j <= lastInstance'[c] /\ committed'[c][j] # NoEntry
      <3>1. CASE c = n /\ j = i
        BY ZenonT(30), <2>1, <2>2, <2>3, <2>5, <2>7, <3>1
      <3>2. CASE c # n \/ j # i
        <4>1. j <= lastInstance[c] /\ committed[c][j] # NoEntry
          BY Zenon, <2>4, <2>7, <3>2 DEF LearnerInv
        <4> QED
          BY <1>0, <2>3, <2>5, <3>2, <4>1
      <3> QED
        BY Zenon, <3>1, <3>2
    <2> QED
      BY Zenon, <2>6, <2>7 DEF LearnerInv
  <1> QED
    BY Zenon, <1>1, <1>2 DEF HandleCommit

(* recoverLog gives the learner back all that the log holds (node.go:455-487). *)
LEMMA RestartLearner ==
  ASSUME TypeOK, LearnerInv, NEW n \in Node, Restart(n)
  PROVE  LearnerInv' /\ LogKept
  <1>0. /\ committed \in [Node -> [Instance -> LogEntry]]
        /\ lastInstance \in [Node -> Nat] /\ Instance \subseteq Nat \ {0}
    BY Zenon, Constants DEF TypeOK
  <1>1. /\ log' = log /\ lastInstance' = lastInstance
        /\ committed' = [committed EXCEPT ![n] = GetLogRange(n, 1, lastInstance[n] + 1)]
    BY Zenon DEF Restart
  <1>2. ASSUME NEW j \in Instance, log[n][j] # NoEntry
        PROVE  committed'[n][j] # NoEntry
    <2>1. j <= lastInstance[n]
      BY Zenon, <1>2 DEF LearnerInv
    <2>2. 1 <= j /\ j < lastInstance[n] + 1
      BY <1>0, <2>1
    <2>3. committed'[n] = GetLogRange(n, 1, lastInstance[n] + 1)
      BY Zenon, <1>0, <1>1
    <2>4. committed'[n][j] = log[n][j]
      BY Zenon, <2>2, <2>3 DEF GetLogRange
    <2> QED
      BY Zenon, <1>2, <2>4
  <1>3. \A c \in Node \ {n} : committed'[c] = committed[c]
    BY Zenon, <1>0, <1>1
  <1>4. LearnerInv'
    BY Zenon, <1>1, <1>2, <1>3 DEF LearnerInv
  <1> QED
    BY Zenon, <1>1, <1>4 DEF LogKept

(* The ballot and value of every Commit that is applied are real. *)
LEMMA CommitGenuine ==
  ASSUME BookInv, NEW n \in Node
  PROVE  /\ \A m \in msgs : m.type = "Commit" =>
              m.instance \in Instance /\ m.ballot \in Nat /\ m.ballot > 0 /\ m.value \in Bytes
         /\ \A i \in Instance : pending[n][i].pc = "commit" =>
              /\ pending[n][i].ballot \in Nat /\ pending[n][i].ballot > 0
              /\ pending[n][i].value \in Bytes
  <1>1. ASSUME NEW m \in msgs, m.type = "Commit"
        PROVE  m.instance \in Instance /\ m.ballot \in Nat /\ m.ballot > 0 /\ m.value \in Bytes
    <2>1. m \in CommitMsg
      BY Zenon, <1>1, MessageKinds DEF BookInv
    <2>2. OwnBallot(m.ballot, m.from)
      BY Zenon, <1>1 DEF BookInv, RequestInv
    <2>3. m.from \in Node /\ m.instance \in Instance /\ m.value \in Bytes
      BY Zenon, <2>1 DEF CommitMsg, Bytes
    <2> QED
      BY Zenon, <2>2, <2>3, OwnPositive
  <1>2. ASSUME NEW i \in Instance, pending[n][i].pc = "commit"
        PROVE  /\ pending[n][i].ballot \in Nat /\ pending[n][i].ballot > 0
               /\ pending[n][i].value \in Bytes
    <2>p. PICK p : p = pending[n][i]
      OBVIOUS
    <2>0. i \in Slot
      BY Zenon, Constants
    <2>1. Fits(p, n, i, incarnation[n], nextInstance[n], msgs) /\ p \in Proposal
      BY Zenon, <2>p, <2>0, ProposalTyped DEF BookInv, ProposalInv
    <2>2. OwnBallot(p.ballot, n)
      BY Zenon, <1>2, <2>p, <2>1 DEF Fits
    <2>3. p.value \in Bytes
      BY Zenon, <2>1 DEF Proposal
    <2>4. p.ballot \in Nat /\ p.ballot > 0
      BY <2>2, OwnPositive
    <2> QED
      BY Zenon, <2>p, <2>3, <2>4
  <1> QED
    BY Zenon, <1>1, <1>2

(* Every step is one of four to the learners. *)
Learning(n) ==
  \E i \in Instance, b \in Nat, v \in Bytes, saved \in SaveOutcomes :
    b > 0 /\ HandleCommit(n, i, b, v, saved)

LearnerStep ==
  \/ UNCHANGED learnerVars
  \/ \E n \in Node : Learning(n) \/ ReadCommitCh(n) \/ Restart(n)

(* Only commits, the application and a restart reach the learner. *)
LEMMA StepLearners ==
  ASSUME BookInv, StepEffect
  PROVE  LearnerStep
  <1>1. CASE UNCHANGED vars
    BY Zenon, <1>1 DEF vars, LearnerStep, learnerVars
  <1>2. ASSUME NEW n \in Node, NEW i \in Instance, NEW saved \in SaveOutcomes,
               BroadcastCommitEffect(n, i, saved)
        PROVE  Learning(n)
    <2>1. /\ pending[n][i].pc = "commit"
          /\ HandleCommit(n, i, pending[n][i].ballot, pending[n][i].value, saved)
      BY Zenon, <1>2 DEF BroadcastCommitEffect, BroadcastCommit
    <2>2. /\ pending[n][i].ballot \in Nat /\ pending[n][i].ballot > 0
          /\ pending[n][i].value \in Bytes
      BY Zenon, <2>1, CommitGenuine
    <2> QED
      BY ZenonT(30), <2>1, <2>2 DEF Learning
  <1>3. ASSUME NEW n \in Node, NEW m \in msgs, NEW saved \in SaveOutcomes,
               ReceiveCommitEffect(n, m, saved)
        PROVE  Learning(n)
    <2>1. m.type = "Commit" /\ HandleCommit(n, m.instance, m.ballot, m.value, saved)
      BY <1>3 DEF ReceiveCommitEffect, ReceiveCommit
    <2>2. m.instance \in Instance /\ m.ballot \in Nat /\ m.ballot > 0 /\ m.value \in Bytes
      BY Zenon, <2>1, CommitGenuine
    <2> QED
      BY Zenon, <2>1, <2>2 DEF Learning
  <1>4. ASSUME NEW n \in Node, (\E v \in Bytes : ProposeEffect(n, v)) \/ ElectEffect(n) \/ StepDown(n)
        PROVE  UNCHANGED learnerVars
    BY Zenon, <1>4 DEF ProposeEffect, ElectEffect, StartEffect, StepDown
  <1>5. ASSUME NEW n \in Node, NEW i \in Slot,
               StartPhase1Effect(n, i) \/ StartPhase2Effect(n, i) \/ AbandonEffect(n, i)
        PROVE  UNCHANGED learnerVars
    BY Zenon, <1>5 DEF StartPhase1Effect, StartPhase2Effect, AbandonEffect
  <1>6. ASSUME NEW n \in Node, NEW m \in msgs,
               \/ ReceivePrepareEffect(n, m) \/ ReceivePromiseEffect(n, m)
               \/ ReceiveAcceptEffect(n, m) \/ ReceiveAcceptedEffect(n, m)
        PROVE  UNCHANGED learnerVars
    BY Zenon, <1>6 DEF ReceivePrepareEffect, ReceivePromiseEffect, ReceiveAcceptEffect,
           ReceiveAcceptedEffect
  <1>7. ASSUME NEW n \in Node, RestartEffect(n) PROVE Restart(n)
    BY Zenon, <1>7 DEF RestartEffect
  <1> QED
    BY Zenon, <1>1, <1>2, <1>3, <1>4, <1>5, <1>6, <1>7 DEF StepEffect, LearnerStep

(* The learner and its log. *)
LEMMA StepLearnerInv ==
  ASSUME BookInv, LearnerInv, StepEffect
  PROVE  LearnerInv' /\ LogKept
  <1>0. TypeOK
    BY Zenon DEF BookInv
  <1>1. CASE UNCHANGED learnerVars
    BY Zenon, <1>1 DEF LearnerInv, LogKept, learnerVars
  <1>2. ASSUME NEW n \in Node, Learning(n)
        PROVE  LearnerInv' /\ LogKept
    BY Zenon, <1>0, <1>2, CommitLearner DEF Learning
  <1>3. ASSUME NEW n \in Node, ReadCommitCh(n)
        PROVE  LearnerInv' /\ LogKept
    BY <1>3 DEF ReadCommitCh, LearnerInv, LogKept
  <1>4. ASSUME NEW n \in Node, Restart(n)
        PROVE  LearnerInv' /\ LogKept
    BY Zenon, <1>0, <1>4, RestartLearner
  <1> QED
    BY Zenon, <1>1, <1>2, <1>3, <1>4, StepLearners DEF LearnerStep

(* A fresh node has an empty log. *)
LEMMA InitLearnerInv == Init => LearnerInv
  BY DEF Init, LearnerInv
-----------------------------------------------------------------------------
(* handleCommit notifies of what it has just committed, and drops the         *)
(* notification when the channel is full.                                     *)
LEMMA CommitNotifies ==
  ASSUME TypeOK, NotificationsGenuine, NEW n \in Node, NEW i \in Instance, NEW b \in Nat,
         b > 0, NEW v \in Bytes, NEW saved, HandleCommit(n, i, b, v, saved)
  PROVE  NotificationsGenuine'
  <1>0. /\ committed \in [Node -> [Instance -> LogEntry]]
        /\ commitCh \in [Node -> Seq([instance : Instance, value : Bytes])]
    BY Zenon DEF TypeOK
  <1>1. CASE UNCHANGED <<learnerVars, mem>>
    BY ZenonT(30), <1>1 DEF NotificationsGenuine, learnerVars
  <1>2. CASE /\ ~CommittedAt(n, i)
             /\ committed' = [committed EXCEPT ![n][i] = [ballot |-> b, value |-> v]]
             /\ \/ commitCh' = [commitCh EXCEPT ![n] = Append(@, [instance |-> i, value |-> v])]
                \/ commitCh' = commitCh
    <2>e. PICK e : e = [instance |-> i, value |-> v]
      BY Zenon
    <2>q. PICK q : q = commitCh[n]
      OBVIOUS
    <2>E. PICK E : E = committed[n]
      OBVIOUS
    <2>F. PICK F : F = committed'[n]
      OBVIOUS
    <2>S. PICK S : S = [instance : Instance, value : Bytes]
      BY Zenon
    <2>1. e \in S /\ e.instance = i /\ e.value = v /\ q \in Seq(S)
      BY Zenon, <1>0, <2>e, <2>q, <2>S
    <2>2. /\ F[i] = [ballot |-> b, value |-> v]
          /\ \A j \in Instance \ {i} : F[j] = E[j]
          /\ \A c \in Node \ {n} : committed'[c] = committed[c]
      BY Zenon, <1>0, <1>2, <2>E, <2>F
    <2>3. F[i].ballot = b /\ F[i].value = v /\ NoEntry.ballot = 0
      BY <2>2 DEF NoEntry
    <2>4. F[i] # NoEntry /\ E[i] = NoEntry
      BY <1>2, <2>3, <2>E DEF CommittedAt
    <2>5. \A j \in 1 .. Len(q) : q[j].instance \in Instance
      <3>1. \A j \in 1 .. Len(q) : q[j] \in S
        BY <2>1
      <3> QED
        BY Zenon, <2>S, <3>1
    <2>6. Genuine(q, E, NoEntry)
      BY ZenonT(30), <2>q, <2>E DEF NotificationsGenuine, Genuine
    <2>7. Genuine(Append(q, e), F, NoEntry) /\ Genuine(q, F, NoEntry)
      <3>1. \A j \in 1 .. Len(q) : q[j].instance # e.instance => F[q[j].instance] = E[q[j].instance]
        BY Zenon, <2>1, <2>2, <2>5
      <3>2. E[e.instance] = NoEntry /\ F[e.instance] # NoEntry /\ F[e.instance].value = e.value
        BY Zenon, <2>1, <2>3, <2>4
      <3>3. OneMore(q, e, E, F, NoEntry)
        BY Zenon, <3>1, <3>2 DEF OneMore
      <3> QED
        BY Zenon, <2>1, <2>6, <3>3, AppendGenuine
    <2>8. /\ commitCh'[n] = Append(q, e) \/ commitCh'[n] = q
          /\ \A c \in Node \ {n} : commitCh'[c] = commitCh[c]
      BY Zenon, <1>0, <1>2, <2>e, <2>q
    <2>9. ASSUME NEW c \in Node PROVE Genuine(commitCh'[c], committed'[c], NoEntry)
      <3>1. CASE c = n
        BY ZenonT(30), <2>7, <2>8, <2>F, <3>1
      <3>2. CASE c # n
        <4>1. Genuine(commitCh[c], committed[c], NoEntry)
          BY Zenon DEF NotificationsGenuine, Genuine
        <4> QED
          BY Zenon, <2>2, <2>8, <3>2, <4>1
      <3> QED
        BY Zenon, <3>1, <3>2
    <2> QED
      BY Zenon, <2>9 DEF NotificationsGenuine, Genuine
  <1> QED
    BY Zenon, <1>1, <1>2 DEF HandleCommit

(* Every step keeps the notifications genuine. *)
LEMMA StepNotifications ==
  ASSUME BookInv, NotificationsGenuine, StepEffect
  PROVE  NotificationsGenuine'
  <1>0. TypeOK
    BY DEF BookInv
  <1>t. commitCh \in [Node -> Seq([instance : Instance, value : Bytes])]
    BY ZenonT(30), <1>0 DEF TypeOK
  <1>g. \A c \in Node : Genuine(commitCh[c], committed[c], NoEntry)
    BY Zenon DEF NotificationsGenuine, Genuine
  <1>1. CASE UNCHANGED learnerVars
    BY <1>1 DEF NotificationsGenuine, learnerVars
  <1>2. ASSUME NEW n \in Node, Learning(n)
        PROVE  NotificationsGenuine'
    BY Zenon, <1>0, <1>2, CommitNotifies DEF Learning
  <1>3. ASSUME NEW n \in Node, ReadCommitCh(n)
        PROVE  NotificationsGenuine'
    <2>1. /\ commitCh[n] # <<>> /\ commitCh' = [commitCh EXCEPT ![n] = Tail(@)]
          /\ committed' = committed
      BY Zenon, <1>3 DEF ReadCommitCh
    <2>2. Genuine(Tail(commitCh[n]), committed[n], NoEntry)
      BY Zenon, <1>t, <1>g, <2>1, TailGenuine
    <2>3. /\ commitCh'[n] = Tail(commitCh[n]) /\ committed'[n] = committed[n]
          /\ \A c \in Node \ {n} : commitCh'[c] = commitCh[c] /\ committed'[c] = committed[c]
      BY Zenon, <1>t, <2>1
    <2>4. \A c \in Node : Genuine(commitCh'[c], committed'[c], NoEntry)
      BY Zenon, <1>g, <2>2, <2>3
    <2> QED
      BY Zenon, <2>4 DEF NotificationsGenuine, Genuine
  <1>4. ASSUME NEW n \in Node, Restart(n)
        PROVE  NotificationsGenuine'
    <2>1. /\ commitCh' = [commitCh EXCEPT ![n] = <<>>]
          /\ committed' = [committed EXCEPT ![n] = GetLogRange(n, 1, lastInstance[n] + 1)]
      BY Zenon, <1>4 DEF Restart
    <2>2. /\ commitCh'[n] = <<>>
          /\ \A c \in Node \ {n} : commitCh'[c] = commitCh[c] /\ committed'[c] = committed[c]
      BY Zenon, <1>0, <1>t, <2>1 DEF TypeOK
    <2>3. \A E : Genuine(<<>>, E, NoEntry)
      <3>1. 1 .. Len(<<>>) = {}
        OBVIOUS
      <3> QED
        BY <3>1 DEF Genuine
    <2>4. \A c \in Node : Genuine(commitCh'[c], committed'[c], NoEntry)
      BY Zenon, <1>g, <2>2, <2>3
    <2> QED
      BY Zenon, <2>4 DEF NotificationsGenuine, Genuine
  <1> QED
    BY Zenon, <1>1, <1>2, <1>3, <1>4, StepLearners DEF LearnerStep

(* A fresh node has notified of nothing. *)
LEMMA InitNotifications == Init => NotificationsGenuine
  <1>1. SUFFICES ASSUME Init, NEW n \in Node
                 PROVE  Genuine(commitCh[n], committed[n], NoEntry)
    BY Zenon DEF NotificationsGenuine, Genuine
  <1>2. commitCh[n] = <<>>
    BY <1>1 DEF Init
  <1>3. 1 .. Len(<<>>) = {}
    OBVIOUS
  <1> QED
    BY <1>2, <1>3 DEF Genuine
=============================================================================
