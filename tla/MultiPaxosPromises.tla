------------------------- MODULE MultiPaxosPromises --------------------------
(***************************************************************************)
(* Proofs about the acceptors of a cluster.  Every step of MultiPaxos is   *)
(* one of five things to them (AcceptorStep); that promises bind until the *)
(* first Commit follows from that, and so does what is promised to a       *)
(* leader for good.                                                        *)
(***************************************************************************)
EXTENDS MultiPaxosBasics

(* Where the promises after a step come from, when one proposal changes. *)
LEMMA PromisesFrom ==
  ASSUME NEW n \in Node, NEW i \in Slot, NEW q, NEW S, Becomes(n, i, q),
         \A m \in q.promises : IsPromise(m) \/ m \in S,
         \A m \in msgs' : m.type = "Promise" => m \in msgs \/ m \in S
  PROVE  \A m : IsPromise(m)' => IsPromise(m) \/ m \in S
  <1> SUFFICES ASSUME NEW m, IsPromise(m)' PROVE IsPromise(m) \/ m \in S
    OBVIOUS
  <1>1. CASE m \in msgs' /\ m.type = "Promise"
    BY <1>1 DEF IsPromise
  <1>2. ASSUME NEW c \in Node, NEW j \in Slot, m \in pending'[c][j].promises
        PROVE  IsPromise(m) \/ m \in S
    BY <1>2 DEF Becomes, IsPromise
  <1> QED
    BY <1>1, <1>2 DEF IsPromise

(* Likewise when no proposal changes. *)
LEMMA PromisesSent ==
  ASSUME NEW S, pending' = pending,
         \A m \in msgs' : m.type = "Promise" => m \in msgs \/ m \in S
  PROVE  \A m : IsPromise(m)' => IsPromise(m) \/ m \in S
  BY DEF IsPromise

(* Likewise when no new promise is counted or sent. *)
LEMMA NoneFrom ==
  ASSUME NEW n \in Node, NEW i \in Slot, NEW q, Becomes(n, i, q),
         \A m \in q.promises : IsPromise(m),
         \A m \in msgs' : m.type = "Promise" => m \in msgs
  PROVE  NoNewPromise
  <1>1. ASSUME NEW c \in Node, NEW j \in Slot, NEW m \in pending'[c][j].promises
        PROVE  IsPromise(m)
    BY <1>1 DEF Becomes, IsPromise
  <1> QED
    BY <1>1 DEF NoNewPromise, IsPromise

(* Likewise. *)
LEMMA NoneSent ==
  ASSUME pending' = pending, \A m \in msgs' : m.type = "Promise" => m \in msgs
  PROVE  NoNewPromise
  BY DEF IsPromise, NoNewPromise

(* Propose, and BecomeLeader: no acceptor is involved. *)
LEMMA StartIdle ==
  ASSUME TypeOK, NEW n \in Node, NEW i \in Slot, NEW v, StartEffect(n, i, v)
  PROVE  Idle
  <1>q. PICK q : q = [pc |-> "prepare", ballot |-> MakeBallot(NextRound(currentRound[n]), n),
                      asked |-> v, value |-> v, promises |-> {}, accepteds |-> {}]
    BY Zenon
  <1>1. Becomes(n, i, q) /\ msgs' = msgs /\ mem' = mem /\ disk' = disk /\ votes' = votes
    BY <1>q DEF StartEffect, acceptorVars
  <1>2. q.promises = {}
    BY <1>q
  <1>3. NoNewPromise
    BY Zenon, <1>1, <1>2, NoneFrom
  <1> QED
    BY <1>1, <1>3 DEF Idle

(* runPhase1 up to its loop. *)
LEMMA StartPhase1Kind ==
  ASSUME TypeOK, NEW n \in Node, NEW i \in Slot, StartPhase1Effect(n, i)
  PROVE  Idle \/ \E b \in Nat : Promising(n, i, b)
  <1>p. PICK p : p = pending[n][i]
    OBVIOUS
  <1>o. PICK own : own = PromiseOf(n, n, incarnation[n], i, p.ballot, mem[n][i].acceptedValue)
    OBVIOUS
  <1>0. votes' = votes
    BY DEF StartPhase1Effect
  <1>1. CASE UNCHANGED <<mem, disk, msgs>> /\ Becomes(n, i, NoProposal)
    <2>1. NoProposal.promises = {}
      BY DEF NoProposal
    <2>2. NoNewPromise
      BY <1>1, <2>1, NoneFrom
    <2> QED
      BY <1>0, <1>1, <2>2 DEF Idle
  <1>2. CASE /\ GrantPrepare(n, i, p.ballot)
             /\ Becomes(n, i, With(p, "promises", p.value, {own}, p.accepteds))
             /\ msgs' = msgs \cup {Prepare(n, incarnation[n], i, p.ballot)}
    <2>q. PICK q : q = With(p, "promises", p.value, {own}, p.accepteds)
      OBVIOUS
    <2>1. q.promises = {own}
      BY <2>q DEF With
    <2>2. Becomes(n, i, q)
      BY <1>2, <2>q
    <2>3. \A m \in msgs' : m.type = "Promise" => m \in msgs
      BY <1>2 DEF Prepare
    <2>4. \A m : IsPromise(m)' => IsPromise(m) \/ m \in {own}
      BY Zenon, <2>1, <2>2, <2>3, PromisesFrom
    <2>5. Reports(own, n, i, p.ballot)
      BY <1>o DEF Reports, PromiseOf
    <2>6. p.ballot \in Nat
      BY <1>p, ProposalTyped DEF Proposal
    <2>7. Promising(n, i, p.ballot)
      BY Zenon, <1>0, <1>2, <2>4, <2>5 DEF Promising
    <2> QED
      BY <2>6, <2>7
  <1> QED
    BY <1>p, <1>o, <1>1, <1>2 DEF StartPhase1Effect

(* A peer's Prepare. *)
LEMMA ReceivePrepareKind ==
  ASSUME TypeOK, NEW n \in Node, NEW m, ReceivePrepareEffect(n, m)
  PROVE  Idle \/ \E j \in Slot, b \in Nat : Promising(n, j, b)
  <1>0. votes' = votes /\ pending' = pending
    BY DEF ReceivePrepareEffect
  <1>1. m.instance \in Slot /\ m.ballot \in Nat
    BY DEF ReceivePrepareEffect, PrepareMsg
  <1>2. CASE /\ UNCHANGED <<mem, disk>>
             /\ msgs' = msgs \cup {RefusalOf("Reject", n, m.from, m.inc, m.instance, m.ballot)}
    <2>1. \A k \in msgs' : k.type = "Promise" => k \in msgs
      BY <1>2 DEF RefusalOf
    <2>2. NoNewPromise
      BY <1>0, <2>1, NoneSent
    <2> QED
      BY <1>0, <1>2, <2>2 DEF Idle
  <1>3. CASE /\ GrantPrepare(n, m.instance, m.ballot)
             /\ msgs' = msgs \cup {PromiseOf(n, m.from, m.inc, m.instance, m.ballot,
                                             Wire(mem[n][m.instance].acceptedValue))}
    <2>o. PICK own : own = PromiseOf(n, m.from, m.inc, m.instance, m.ballot,
                                     Wire(mem[n][m.instance].acceptedValue))
      OBVIOUS
    <2>1. \A k : IsPromise(k)' => IsPromise(k) \/ k \in {own}
      BY Zenon, <1>0, <1>3, <2>o, PromisesSent
    <2>2. Reports(own, n, m.instance, m.ballot)
      BY Zenon, <2>o, ValueAssumption DEF Reports, PromiseOf, Wire
    <2>3. Promising(n, m.instance, m.ballot)
      BY <1>0, <1>3, <2>1, <2>2 DEF Promising
    <2> QED
      BY <1>1, <2>3
  <1> QED
    BY <1>2, <1>3 DEF ReceivePrepareEffect

(* A promise counted by its proposer; a refusal or a timeout. *)
LEMMA ReceivePromiseIdle ==
  ASSUME TypeOK, NEW n \in Node, NEW m, ReceivePromiseEffect(n, m)
  PROVE  Idle
  <1>i. PICK i : i = m.instance
    OBVIOUS
  <1>p. PICK p : p = pending[n][i]
    BY Zenon
  <1>1. /\ m \in PromiseMsg /\ m \in msgs /\ i \in Slot /\ m.type = "Promise"
        /\ mem' = mem /\ disk' = disk /\ votes' = votes /\ msgs' = msgs
    BY Zenon, <1>i DEF ReceivePromiseEffect, PromiseMsg, acceptorVars
  <1>2. PICK q : Becomes(n, i, q) /\ q.promises \subseteq p.promises \cup {m}
    <2>1. NoProposal.promises = {}
      BY DEF NoProposal
    <2>2. \A pc, v, ps, as : With(p, pc, v, ps, as).promises = ps
      BY DEF With
    <2> QED
      BY SMTT(30), <1>i, <1>p, <2>1, <2>2 DEF ReceivePromiseEffect
  <1>3. \A k \in q.promises : IsPromise(k)
    BY Zenon, <1>p, <1>1, <1>2 DEF IsPromise
  <1>4. NoNewPromise
    BY <1>1, <1>2, <1>3, NoneFrom
  <1> QED
    BY <1>1, <1>4 DEF Idle

(* A proposal that ends. *)
LEMMA AbandonIdle ==
  ASSUME TypeOK, NEW n \in Node, NEW i \in Slot, AbandonEffect(n, i)
  PROVE  Idle
  <1>1. NoProposal.promises = {}
    BY DEF NoProposal
  <1>2. Becomes(n, i, NoProposal) /\ mem' = mem /\ disk' = disk /\ votes' = votes /\ msgs' = msgs
    BY DEF AbandonEffect, acceptorVars
  <1>3. NoNewPromise
    BY <1>1, <1>2, NoneFrom
  <1> QED
    BY <1>2, <1>3 DEF Idle

(* runPhase2 up to its loop. *)
LEMMA StartPhase2Kind ==
  ASSUME TypeOK, NEW n \in Node, NEW i \in Slot, StartPhase2Effect(n, i)
  PROVE  Idle \/ \E j \in Instance, b \in Nat, v \in Bytes : Voting(n, j, b, v)
  <1>p. PICK p : p = pending[n][i]
    OBVIOUS
  <1>1. p \in Proposal /\ i \in Instance
    BY <1>p, ProposalTyped DEF StartPhase2Effect
  <1>2. CASE UNCHANGED <<mem, disk, msgs, votes>> /\ Becomes(n, i, NoProposal)
    <2>1. NoProposal.promises = {}
      BY DEF NoProposal
    <2>2. NoNewPromise
      BY <1>2, <2>1, NoneFrom
    <2> QED
      BY <1>2, <2>2 DEF Idle
  <1>3. ASSUME NEW own, GrantAccept(n, i, p.ballot, p.value),
               Becomes(n, i, With(p, "accepteds", p.value, p.promises, {own})),
               votes' = votes \cup {Vote(n, i, p.ballot, p.value)},
               msgs' = msgs \cup {Accept(n, incarnation[n], i, p.ballot, p.value)}
        PROVE  \E j \in Instance, b \in Nat, v \in Bytes : Voting(n, j, b, v)
    <2>q. PICK q : q = With(p, "accepteds", p.value, p.promises, {own})
      OBVIOUS
    <2>1. q.promises = p.promises
      BY <2>q DEF With
    <2>2. Becomes(n, i, q)
      BY <1>3, <2>q
    <2>3. \A m \in msgs' : m.type = "Promise" => m \in msgs
      BY <1>3 DEF Accept
    <2>4. \A m \in q.promises : IsPromise(m)
      BY <1>p, <2>1 DEF IsPromise
    <2>5. NoNewPromise
      BY <2>2, <2>3, <2>4, NoneFrom
    <2>6. \E k \in msgs' : /\ k.type = "Accept" /\ k.instance = i
                           /\ k.ballot = p.ballot /\ k.value = Wire(p.value)
      <3>k. PICK k : k = Accept(n, incarnation[n], i, p.ballot, p.value)
        OBVIOUS
      <3>1. k \in msgs'
        BY <1>3, <3>k
      <3>2. /\ k.type = "Accept" /\ k.instance = i
            /\ k.ballot = p.ballot /\ k.value = Wire(p.value)
        BY <3>k DEF Accept
      <3> QED
        BY <3>1, <3>2
    <2>7. p.ballot \in Nat /\ p.value \in Bytes
      BY Zenon, <1>1 DEF Proposal
    <2>8. Voting(n, i, p.ballot, p.value)
      BY Zenon, <1>3, <2>5, <2>6 DEF Voting
    <2> QED
      BY <1>1, <2>7, <2>8
  <1> QED
    BY Zenon, <1>p, <1>2, <1>3 DEF StartPhase2Effect

(* A peer's Accept. *)
LEMMA ReceiveAcceptKind ==
  ASSUME TypeOK, NEW n \in Node, NEW m, ReceiveAcceptEffect(n, m)
  PROVE  Idle \/ \E j \in Instance, b \in Nat, v \in Bytes : Voting(n, j, b, v)
  <1>0. pending' = pending /\ m \in AcceptMsg /\ m \in msgs
    BY DEF ReceiveAcceptEffect
  <1>1. /\ m.instance \in Instance /\ m.ballot \in Nat /\ m.value \in Value \cup {Nil}
        /\ m.type = "Accept"
    BY <1>0 DEF AcceptMsg
  <1>2. CASE /\ UNCHANGED <<mem, disk, votes>>
             /\ msgs' = msgs \cup {RefusalOf("Nack", n, m.from, m.inc, m.instance, m.ballot)}
    <2>1. \A k \in msgs' : k.type = "Promise" => k \in msgs
      BY <1>2 DEF RefusalOf
    <2>2. NoNewPromise
      BY <1>0, <2>1, NoneSent
    <2> QED
      BY <1>2, <2>2 DEF Idle
  <1>3. CASE /\ GrantAccept(n, m.instance, m.ballot, m.value)
             /\ votes' = votes \cup {Vote(n, m.instance, m.ballot, m.value)}
             /\ msgs' = msgs \cup {AcceptedOf(n, m.from, m.inc, m.instance, m.ballot)}
    <2>1. \A k \in msgs' : k.type = "Promise" => k \in msgs
      BY <1>3 DEF AcceptedOf
    <2>2. NoNewPromise
      BY <1>0, <2>1, NoneSent
    <2>3. m.value = Wire(m.value) /\ m.value \in Bytes /\ m \in msgs'
      BY Zenon, <1>0, <1>1, <1>3, ValueAssumption DEF Wire, Bytes
    <2>4. Voting(n, m.instance, m.ballot, m.value)
      BY <1>1, <1>3, <2>2, <2>3 DEF Voting
    <2> QED
      BY Zenon, <1>1, <2>3, <2>4
  <1> QED
    BY <1>2, <1>3 DEF ReceiveAcceptEffect

(* An accepted counted by its proposer. *)
LEMMA ReceiveAcceptedIdle ==
  ASSUME TypeOK, NEW n \in Node, NEW m, ReceiveAcceptedEffect(n, m)
  PROVE  Idle
  <1>i. PICK i : i = m.instance
    OBVIOUS
  <1>p. PICK p : p = pending[n][i]
    OBVIOUS
  <1>1. /\ i \in Slot
        /\ mem' = mem /\ disk' = disk /\ votes' = votes /\ msgs' = msgs
    BY Zenon, <1>i, Constants DEF ReceiveAcceptedEffect, AcceptedMsg, acceptorVars
  <1>2. PICK q : Becomes(n, i, q) /\ q.promises = p.promises
    <2>1. \A pc, v, ps, as : With(p, pc, v, ps, as).promises = ps
      BY DEF With
    <2> QED
      BY <1>i, <1>p, <2>1 DEF ReceiveAcceptedEffect
  <1>3. \A k \in q.promises : IsPromise(k)
    BY Zenon, <1>p, <1>1, <1>2 DEF IsPromise
  <1>4. NoNewPromise
    BY <1>1, <1>2, <1>3, NoneFrom
  <1> QED
    BY <1>1, <1>4 DEF Idle

(* A commit, of the proposer's own or of a peer, forgets the instance. *)
LEMMA CommitForgetting ==
  ASSUME TypeOK, NEW n \in Node, NEW saved
  PROVE  /\ \A i \in Instance : BroadcastCommitEffect(n, i, saved) => Forgetting(n, i)
         /\ \A m \in msgs : ReceiveCommitEffect(n, m, saved) =>
              m.instance \in Instance /\ Forgetting(n, m.instance)
  <1>1. ASSUME NEW i \in Instance, BroadcastCommitEffect(n, i, saved) PROVE Forgetting(n, i)
    <2>p. PICK p : p = pending[n][i]
      OBVIOUS
    <2>k. PICK k : k = Commit(n, i, p.ballot, p.value)
      BY Zenon
    <2>1. /\ Forget(n, i) /\ Becomes(n, i, NoProposal) /\ votes' = votes
          /\ msgs' = msgs \cup {k}
      BY Zenon, <1>1, <2>p, <2>k DEF BroadcastCommitEffect, BroadcastCommit
    <2>2. k.type = "Commit" /\ k.instance = i
      BY <2>k DEF Commit
    <2>3. i \in Slot
      BY Zenon, Constants
    <2>4. \A m \in msgs' : m.type = "Promise" => m \in msgs
      BY <2>1, <2>2
    <2>5. NoProposal.promises = {}
      BY Zenon DEF NoProposal
    <2>6. NoNewPromise
      BY <2>1, <2>3, <2>4, <2>5, NoneFrom
    <2> QED
      BY Zenon, <2>1, <2>2, <2>6 DEF Forgetting
  <1>2. ASSUME NEW m \in msgs, ReceiveCommitEffect(n, m, saved)
        PROVE  m.instance \in Instance /\ Forgetting(n, m.instance)
    <2>1. /\ Forget(n, m.instance) /\ votes' = votes /\ msgs' = msgs /\ pending' = pending
          /\ m.type = "Commit" /\ m \in CommitMsg
      BY <1>2 DEF ReceiveCommitEffect, ReceiveCommit
    <2>2. m.instance \in Instance
      BY <2>1 DEF CommitMsg
    <2>3. NoNewPromise
      BY <2>1, NoneSent
    <2> QED
      BY Zenon, <2>1, <2>2, <2>3 DEF Forgetting
  <1> QED
    BY Zenon, <1>1, <1>2

(* A process restarted. *)
LEMMA RestartReloading ==
  ASSUME TypeOK, NEW n \in Node, RestartEffect(n)
  PROVE  Reloading(n)
  <1>1. Reload(n) /\ votes' = votes /\ msgs' = msgs
    BY Zenon DEF RestartEffect, Restart
  <1>2. pending' = [pending EXCEPT ![n] = [i \in Slot |-> NoProposal]]
    BY Zenon DEF RestartEffect, Restart
  <1>3. NoProposal.promises = {}
    BY Zenon DEF NoProposal
  <1>4. \A c \in Node, j \in Slot :
          \/ pending'[c][j].promises = {}
          \/ pending'[c][j] = pending[c][j]
    BY <1>2, <1>3 DEF TypeOK
  <1>5. NoNewPromise
    BY Zenon, <1>1, <1>4 DEF NoNewPromise, IsPromise
  <1> QED
    BY Zenon, <1>1, <1>5 DEF Reloading

(* Every step is one of the five. *)
LEMMA StepKinds ==
  ASSUME TypeOK, StepEffect
  PROVE  AcceptorStep
  <1>1. ASSUME mem' = mem, disk' = disk, votes' = votes, msgs' = msgs, pending' = pending
        PROVE  AcceptorStep
    BY <1>1, NoneSent DEF AcceptorStep, Idle
  <1>2. CASE UNCHANGED vars
    BY Zenon, <1>1, <1>2 DEF vars
  <1>3. ASSUME NEW n \in Node, NEW v \in Bytes, ProposeEffect(n, v)
        PROVE  AcceptorStep
    <2>1. StartEffect(n, nextInstance[n], v) /\ nextInstance[n] \in Slot
      BY Zenon, <1>3, Constants DEF ProposeEffect
    <2> QED
      BY Zenon, <2>1, StartIdle DEF AcceptorStep
  <1>4. ASSUME NEW n \in Node, ElectEffect(n)
        PROVE  AcceptorStep
    <2>1. StartEffect(n, 0, Nil) /\ 0 \in Slot
      BY Zenon, <1>4, Constants DEF ElectEffect
    <2> QED
      BY Zenon, <2>1, StartIdle DEF AcceptorStep
  <1>5. ASSUME NEW n \in Node, StepDown(n) \/ ReadCommitCh(n)
        PROVE  AcceptorStep
    BY Zenon, <1>1, <1>5 DEF StepDown, ReadCommitCh, acceptorVars
  <1>6. ASSUME NEW n \in Node, NEW i \in Slot, StartPhase1Effect(n, i)
        PROVE  AcceptorStep
    BY Zenon, <1>6, StartPhase1Kind DEF AcceptorStep
  <1>7. ASSUME NEW n \in Node, NEW m \in msgs, ReceivePrepareEffect(n, m)
        PROVE  AcceptorStep
    BY Zenon, <1>7, ReceivePrepareKind DEF AcceptorStep
  <1>8. ASSUME NEW n \in Node, NEW m \in msgs, ReceivePromiseEffect(n, m)
        PROVE  AcceptorStep
    BY Zenon, <1>8, ReceivePromiseIdle DEF AcceptorStep
  <1>9. ASSUME NEW n \in Node, NEW i \in Slot, AbandonEffect(n, i)
        PROVE  AcceptorStep
    BY Zenon, <1>9, AbandonIdle DEF AcceptorStep
  <1>10. ASSUME NEW n \in Node, NEW i \in Slot, StartPhase2Effect(n, i)
         PROVE  AcceptorStep
    BY Zenon, <1>10, StartPhase2Kind DEF AcceptorStep
  <1>11. ASSUME NEW n \in Node, NEW m \in msgs, ReceiveAcceptEffect(n, m)
         PROVE  AcceptorStep
    BY Zenon, <1>11, ReceiveAcceptKind DEF AcceptorStep
  <1>12. ASSUME NEW n \in Node, NEW m \in msgs, ReceiveAcceptedEffect(n, m)
         PROVE  AcceptorStep
    BY Zenon, <1>12, ReceiveAcceptedIdle DEF AcceptorStep
  <1>13. ASSUME NEW n \in Node, NEW i \in Instance, NEW saved, BroadcastCommitEffect(n, i, saved)
         PROVE  AcceptorStep
    BY Zenon, <1>13, CommitForgetting DEF AcceptorStep
  <1>14. ASSUME NEW n \in Node, NEW m \in msgs, NEW saved, ReceiveCommitEffect(n, m, saved)
         PROVE  AcceptorStep
    BY Zenon, <1>14, CommitForgetting DEF AcceptorStep
  <1>15. ASSUME NEW n \in Node, RestartEffect(n)
         PROVE  AcceptorStep
    BY Zenon, <1>15, RestartReloading DEF AcceptorStep
  <1> QED
    BY Zenon, <1>2, <1>3, <1>4, <1>5, <1>6, <1>7, <1>8, <1>9, <1>10, <1>11, <1>12, <1>13, <1>14,
       <1>15 DEF StepEffect

(* And no message is taken back. *)
LEMMA MessagesStay ==
  ASSUME StepEffect
  PROVE  msgs \subseteq msgs'
  <1>1. ASSUME NEW n \in Node, NEW i, NEW v, StartEffect(n, i, v) PROVE msgs' = msgs
    BY Zenon, <1>1 DEF StartEffect
  <1>2. ASSUME NEW n \in Node, StepDown(n) \/ ReadCommitCh(n) \/ RestartEffect(n)
        PROVE  msgs' = msgs
    BY SMTT(20), <1>2 DEF StepDown, ReadCommitCh, RestartEffect, Restart
  <1>3. ASSUME NEW n \in Node, NEW i,
               StartPhase1Effect(n, i) \/ StartPhase2Effect(n, i) \/ AbandonEffect(n, i)
        PROVE  msgs \subseteq msgs'
    BY ZenonT(30), <1>3 DEF StartPhase1Effect, StartPhase2Effect, AbandonEffect
  <1>4. ASSUME NEW n \in Node, NEW m,
               \/ ReceivePrepareEffect(n, m) \/ ReceivePromiseEffect(n, m)
               \/ ReceiveAcceptEffect(n, m) \/ ReceiveAcceptedEffect(n, m)
        PROVE  msgs \subseteq msgs'
    BY ZenonT(30), <1>4 DEF ReceivePrepareEffect, ReceivePromiseEffect, ReceiveAcceptEffect,
           ReceiveAcceptedEffect
  <1>5. ASSUME NEW n \in Node, NEW i, NEW m, NEW saved,
               BroadcastCommitEffect(n, i, saved) \/ ReceiveCommitEffect(n, m, saved)
        PROVE  msgs \subseteq msgs'
    BY Zenon, <1>5 DEF BroadcastCommitEffect, BroadcastCommit, ReceiveCommitEffect, ReceiveCommit
  <1> QED
    BY Zenon, <1>1, <1>2, <1>3, <1>4, <1>5 DEF StepEffect, vars, ProposeEffect, ElectEffect
-----------------------------------------------------------------------------
(* The acceptors' part of the invariant is inductive on its own. *)
LEMMA StepAcceptorInv ==
  ASSUME TypeOK, AcceptorStep, NEW i \in Instance, ~CommitIssued(i)', AcceptorInv(i)
  PROVE  AcceptorInv(i)'
  <1>0. i \in Slot
    BY Zenon, Constants
  <1>1. \A a \in Node : Steady(a, i)
    BY Zenon, StepSteady
  <1>2. \A a \in Node : mem[a][i].promised \in Nat /\ mem[a][i].acceptedBallot \in Nat
    BY <1>0, EntryTyped
  <1>t. \A a \in Node : mem'[a][i].promised \in Nat /\ mem'[a][i].acceptedBallot \in Nat
    <2>1. mem' \in [Node -> [Slot -> Entry]]
      BY ZenonT(30) DEF AcceptorStep, Idle, Promising, Voting, Forgetting, Reloading, GrantPrepare,
             GrantAccept, Saved, Forget, Reload, TypeOK
    <2> QED
      BY <1>0, <2>1 DEF Entry
  <1>3. ASSUME NEW u \in votes', u.instance = i
        PROVE  /\ u.node \in Node /\ u.ballot \in Nat
               /\ u.ballot <= mem'[u.node][i].acceptedBallot
    <2>1. CASE u \in votes
      <3>1. u.node \in Node /\ u.ballot \in Nat /\ u.ballot <= mem[u.node][i].acceptedBallot
        <4>1. u.node \in Node /\ u.ballot \in Nat
          BY <2>1, VoteTyped
        <4>2. u.ballot <= mem[u.node][i].acceptedBallot
          BY Zenon, <1>3, <2>1, <4>1 DEF AcceptorInv
        <4> QED
          BY <4>1, <4>2
      <3>2. mem'[u.node][i].acceptedBallot >= mem[u.node][i].acceptedBallot
        BY Zenon, <1>1, <3>1 DEF Steady
      <3>3. /\ mem[u.node][i].acceptedBallot \in Nat
            /\ mem'[u.node][i].acceptedBallot \in Nat
        BY Zenon, <1>2, <1>t, <3>1
      <3> QED
        BY Zenon, <3>1, <3>2, <3>3, AtMostThrough
    <2>2. CASE u \notin votes
      BY <1>3, <2>2, NewVoteAbove
    <2> QED
      BY Zenon, <2>1, <2>2
  <1>4. ASSUME NEW m \in PromiseMsg, IsPromise(m)', m.instance = i
        PROVE  /\ m.ballot <= mem'[m.from][i].promised
               /\ \A u \in votes' : (u.node = m.from /\ u.instance = i) =>
                    u.ballot <= m.acceptedBallot \/ u.ballot >= m.ballot
    <2>0. m.from \in Node /\ m.ballot \in Nat /\ m.acceptedBallot \in Nat
      BY DEF PromiseMsg
    <2>1. CASE IsPromise(m)
      <3>1. m.ballot <= mem[m.from][i].promised
        BY Zenon, <1>4, <2>1 DEF AcceptorInv
      <3>2. m.ballot <= mem'[m.from][i].promised
        BY <1>1, <1>2, <1>t, <2>0, <3>1 DEF Steady
      <3>3. ASSUME NEW u \in votes', u.node = m.from, u.instance = i
            PROVE  u.ballot <= m.acceptedBallot \/ u.ballot >= m.ballot
        <4>1. CASE u \in votes
          BY Zenon, <1>4, <2>1, <3>3, <4>1 DEF AcceptorInv
        <4>2. CASE u \notin votes
          <5>1. u.ballot \in Nat /\ u.ballot >= mem[m.from][i].promised
            BY Zenon, <3>3, <4>2, NewVoteAbove
          <5> QED
            BY <1>2, <2>0, <3>1, <5>1
        <4> QED
          BY <4>1, <4>2
      <3> QED
        BY Zenon, <3>2, <3>3
    <2>2. CASE ~IsPromise(m)
      <3>1. PICK a \in Node, j \in Slot, b \in Nat : Promising(a, j, b) /\ Reports(m, a, j, b)
        BY Zenon, <1>4, <2>2, NewPromise
      <3>2. /\ a = m.from /\ j = i /\ b = m.ballot
            /\ m.acceptedBallot = mem[m.from][i].acceptedBallot
        BY <1>4, <3>1 DEF Reports
      <3>3. mem'[m.from][i].promised = m.ballot /\ votes' = votes
        BY Zenon, <3>1, <3>2 DEF Promising, GrantPrepare
      <3>4. \A u \in votes' : (u.node = m.from /\ u.instance = i) => u.ballot <= m.acceptedBallot
        BY Zenon, <3>2, <3>3 DEF AcceptorInv
      <3> QED
        BY <2>0, <3>3, <3>4
    <2> QED
      BY <2>1, <2>2
  <1>5. \A a \in Node : /\ mem'[a][i].promised = disk'[a][i].promised
                        /\ mem'[a][i].acceptedBallot = disk'[a][i].acceptedBallot
                        /\ mem'[a][i].acceptedBallot <= mem'[a][i].promised
    BY Zenon, <1>1 DEF Steady
  <1> QED
    BY Zenon, <1>3, <1>4, <1>5 DEF AcceptorInv

(* No acceptor has promised anything in a fresh cluster. *)
LEMMA InitPromiseInv == Init => PromiseInv
  <1> SUFFICES ASSUME Init, NEW i \in Instance PROVE AcceptorInv(i)
    BY Zenon DEF PromiseInv
  <1>1. \A a \in Node : mem[a][i] = Unset /\ disk[a][i] = Unset
    BY Constants DEF Init
  <1>2. Unset.promised = 0 /\ Unset.acceptedBallot = 0
    BY DEF Unset
  <1>3. NoProposal.promises = {}
    BY DEF NoProposal
  <1>4. \A m : ~IsPromise(m)
    BY Zenon, <1>3 DEF Init, IsPromise
  <1>5. votes = {}
    BY DEF Init
  <1> QED
    BY <1>1, <1>2, <1>4, <1>5 DEF AcceptorInv

(* Every step keeps it, because no Commit is ever taken back. *)
LEMMA StepPromiseInv ==
  ASSUME TypeOK, PromiseInv, StepEffect
  PROVE  PromiseInv'
  <1> SUFFICES ASSUME NEW i \in Instance, ~CommitIssued(i)'
               PROVE  AcceptorInv(i)'
    BY DEF PromiseInv
  <1>1. AcceptorStep /\ msgs \subseteq msgs'
    BY Zenon, StepKinds, MessagesStay
  <1>2. ~CommitIssued(i)
    BY <1>1 DEF CommitIssued
  <1> QED
    BY <1>1, <1>2, StepAcceptorInv DEF PromiseInv

(* It says that promises are kept. *)
LEMMA PromiseInvKeeps == TypeOK /\ PromiseInv => PromisesKept
  <1> SUFFICES ASSUME TypeOK, PromiseInv,
                      NEW m \in msgs, m.type = "Promise",
                      NEW u \in votes, u.node = m.from, u.instance = m.instance,
                      ~CommitIssued(m.instance)
               PROVE  u.ballot <= m.acceptedBallot \/ u.ballot >= m.ballot
    BY DEF PromisesKept
  <1>1. m \in PromiseMsg /\ IsPromise(m)
    BY Zenon, MessageKinds DEF IsPromise
  <1>2. m.instance \in Instance
    BY VoteTyped
  <1>3. AcceptorInv(m.instance)
    BY Zenon, <1>2 DEF PromiseInv
  <1> QED
    BY Zenon, <1>1, <1>3 DEF AcceptorInv
-----------------------------------------------------------------------------
(* Slot 0 is never forgotten: its promise is the same in memory and on disk,  *)
(* and never goes down.                                                       *)
LEMMA LeaderDisks ==
  ASSUME TypeOK, AcceptorStep, \A a \in Node : mem[a][0].promised = disk[a][0].promised,
         NEW a \in Node
  PROVE  /\ mem'[a][0].promised = disk'[a][0].promised
         /\ disk'[a][0].promised \in Nat
         /\ disk'[a][0].promised >= disk[a][0].promised
  <1>0. 0 \in Slot /\ 0 \notin Instance
    BY Zenon, Constants
  <1>1. /\ mem[a][0].promised \in Nat /\ mem[a][0].promised = disk[a][0].promised
    BY Zenon, <1>0, EntryTyped
  <1>2. ASSUME mem'[a][0] = mem[a][0], disk'[a][0] = disk[a][0]
        PROVE  /\ mem'[a][0].promised = disk'[a][0].promised
               /\ disk'[a][0].promised \in Nat
               /\ disk'[a][0].promised >= disk[a][0].promised
    BY <1>1, <1>2
  <1>3. ASSUME NEW c \in Node, Saved(c), mem'[c][0].promised \in Nat,
               mem'[c][0].promised >= mem[c][0].promised
        PROVE  /\ mem'[a][0].promised = disk'[a][0].promised
               /\ disk'[a][0].promised \in Nat
               /\ disk'[a][0].promised >= disk[a][0].promised
    <2>1. CASE a # c
      BY Zenon, <1>2, <1>3, <2>1 DEF Saved
    <2>2. CASE a = c
      <3>1. mem'[a][0].promised = disk'[a][0].promised
        BY Zenon, <1>0, <1>3, <2>2 DEF Saved, Copy
      <3> QED
        BY Zenon, <1>1, <1>3, <2>2, <3>1
    <2> QED
      BY Zenon, <2>1, <2>2
  <1>4. CASE Idle
    BY Zenon, <1>2, <1>4 DEF Idle
  <1>5. ASSUME NEW c \in Node, NEW j \in Slot, NEW b \in Nat, GrantPrepare(c, j, b)
        PROVE  /\ Saved(c) /\ mem'[c][0].promised \in Nat
               /\ mem'[c][0].promised >= mem[c][0].promised
    <2>1. CASE j = 0
      BY Zenon, <1>5, <2>1 DEF GrantPrepare
    <2>2. CASE j # 0
      <3>1. mem'[c][0] = mem[c][0] /\ Saved(c)
        BY Zenon, <1>0, <1>5, <2>2 DEF GrantPrepare
      <3>2. mem[c][0].promised \in Nat
        BY <1>0, EntryTyped
      <3> QED
        BY <3>1, <3>2
    <2> QED
      BY Zenon, <2>1, <2>2
  <1>6. ASSUME NEW c \in Node, NEW j \in Instance, NEW b \in Nat, NEW v, GrantAccept(c, j, b, v)
        PROVE  /\ Saved(c) /\ mem'[c][0].promised \in Nat
               /\ mem'[c][0].promised >= mem[c][0].promised
    <2>1. mem'[c][0] = mem[c][0] /\ Saved(c)
      BY Zenon, <1>0, <1>6 DEF GrantAccept
    <2>2. mem[c][0].promised \in Nat
      BY Zenon, <1>0, EntryTyped
    <2> QED
      BY <2>1, <2>2
  <1>7. ASSUME NEW c \in Node, NEW j \in Instance, Forget(c, j)
        PROVE  mem'[a][0] = mem[a][0] /\ disk'[a][0] = disk[a][0]
    BY Zenon, <1>0, <1>7 DEF Forget
  <1>8. ASSUME NEW c \in Node, Reload(c)
        PROVE  /\ mem'[a][0].promised = disk'[a][0].promised
               /\ disk'[a][0].promised \in Nat
               /\ disk'[a][0].promised >= disk[a][0].promised
    <2>1. CASE a # c
      BY Zenon, <1>2, <1>8, <2>1 DEF Reload
    <2>2. CASE a = c
      BY <1>0, <1>1, <1>8, <2>2 DEF Reload, Copy
    <2> QED
      BY <2>1, <2>2
  <1> QED
    BY Zenon, <1>2, <1>3, <1>4, <1>5, <1>6, <1>7, <1>8
       DEF AcceptorStep, Promising, Voting, Forgetting, Reloading

(* The own promise of a campaign is kept with it until the campaign ends. *)
LEMMA CandidatePromise ==
  ASSUME TypeOK, StepEffect, NEW n \in Node,
         pending[n][0].pc = "promises" => \E m \in pending[n][0].promises : m.from = n,
         pending'[n][0].pc = "promises"
  PROVE  \E m \in pending'[n][0].promises : m.from = n
  <1>0. 0 \in Slot /\ 0 \notin Instance
    BY Constants
  <1>p. PICK p : p = pending[n][0]
    BY Zenon
  <1>1. \A pc, v, ps, as : With(p, pc, v, ps, as).pc = pc /\ With(p, pc, v, ps, as).promises = ps
    BY Zenon DEF With
  <1>2. NoProposal.pc = "none"
    BY DEF NoProposal
  <1>3. CASE StartPhase1Effect(n, 0)
    <2>o. PICK own : own = PromiseOf(n, n, incarnation[n], 0, p.ballot, mem[n][0].acceptedValue)
      BY Zenon
    <2>1. own.from = n
      BY <2>o DEF PromiseOf
    <2>2. CASE Becomes(n, 0, NoProposal)
      BY Zenon, <1>2, <2>2 DEF Becomes
    <2>3. CASE Becomes(n, 0, With(p, "promises", p.value, {own}, p.accepteds))
      BY <1>1, <2>1, <2>3 DEF Becomes
    <2> QED
      BY Zenon, <1>p, <1>3, <2>o, <2>2, <2>3 DEF StartPhase1Effect
  <1>4. ASSUME NEW m \in msgs, m.instance = 0, ReceivePromiseEffect(n, m)
        PROVE  \E k \in pending'[n][0].promises : k.from = n
    <2>1. p.pc = "promises"
      BY Zenon, <1>p, <1>4 DEF ReceivePromiseEffect
    <2>2. CASE Becomes(n, 0, NoProposal)
      BY Zenon, <1>2, <2>2 DEF Becomes
    <2>3. CASE Becomes(n, 0, With(p, "promises", p.value, p.promises \cup {m}, p.accepteds))
      BY <1>1, <1>p, <2>1, <2>3 DEF Becomes
    <2> QED
      BY Zenon, <1>0, <1>p, <1>4, <2>2, <2>3 DEF ReceivePromiseEffect
  <1>5. ~StartPhase2Effect(n, 0)
    BY Zenon, <1>0 DEF StartPhase2Effect
  <1>6. \A m \in msgs : m.instance = 0 => ~ReceiveAcceptedEffect(n, m)
    BY <1>0 DEF ReceiveAcceptedEffect, AcceptedMsg
  <1>7. CASE pending'[n][0] = pending[n][0]
    BY <1>7
  <1> QED
    BY Zenon, <1>0, <1>3, <1>4, <1>5, <1>6, <1>7, ProposalChange

(* Message m makes node n a leader. *)
Wins(n, m) ==
  /\ m \in PromiseMsg /\ m \in msgs /\ m.instance = 0 /\ m.to = n
  /\ pending[n][0].pc = "promises" /\ pending[n][0].ballot = m.ballot
  /\ Cardinality(pending[n][0].promises \cup {m}) >= QuorumSize
  /\ leaderBallot'[n] = m.ballot
  /\ disk' = disk /\ msgs' = msgs

(* A node's leader ballot changes when it wins and when it restarts           *)
(* (proposer.go:389-396, 46-57).                                              *)
LEMMA LeaderBallots ==
  ASSUME TypeOK, StepEffect, NEW n \in Node
  PROVE  \/ leaderBallot'[n] = leaderBallot[n]
         \/ leaderBallot'[n] = 0
         \/ \E m \in msgs : Wins(n, m)
  <1>1. ASSUME NEW c \in Node, NEW m \in msgs, ReceivePromiseEffect(c, m)
        PROVE  leaderBallot'[n] = leaderBallot[n] \/ Wins(n, m)
    <2>1. /\ m \in PromiseMsg /\ m.to = c /\ pending[c][m.instance].pc = "promises"
          /\ pending[c][m.instance].ballot = m.ballot /\ disk' = disk /\ msgs' = msgs
      BY <1>1 DEF ReceivePromiseEffect, acceptorVars
    <2>2. CASE leaderBallot' = leaderBallot
      BY <2>2
    <2>3. CASE /\ Cardinality(pending[c][m.instance].promises \cup {m}) >= QuorumSize
               /\ m.instance = 0 /\ leaderBallot' = [leaderBallot EXCEPT ![c] = m.ballot]
      <3>1. CASE c # n
        BY <2>3, <3>1 DEF TypeOK
      <3>2. CASE c = n
        <4>1. leaderBallot'[n] = m.ballot
          BY Zenon, <2>3, <3>2 DEF TypeOK
        <4> QED
          BY Zenon, <2>1, <2>3, <3>2, <4>1 DEF Wins
      <3> QED
        BY Zenon, <3>1, <3>2
    <2> QED
      BY Zenon, <1>1, <2>2, <2>3 DEF ReceivePromiseEffect
  <1>2. ASSUME NEW c \in Node, RestartEffect(c)
        PROVE  leaderBallot'[n] = leaderBallot[n] \/ leaderBallot'[n] = 0
    <2>1. leaderBallot' = [leaderBallot EXCEPT ![c] = 0]
      BY Zenon, <1>2 DEF RestartEffect, Restart
    <2> QED
      BY <2>1 DEF TypeOK
  <1>3. ASSUME NEW c \in Node, NEW i, NEW v,
               \/ StartEffect(c, i, v) \/ StepDown(c) \/ ReadCommitCh(c)
               \/ StartPhase1Effect(c, i) \/ StartPhase2Effect(c, i) \/ AbandonEffect(c, i)
        PROVE  leaderBallot'[n] = leaderBallot[n]
    BY ZenonT(30), <1>3 DEF StartEffect, StepDown, ReadCommitCh, StartPhase1Effect,
           StartPhase2Effect, AbandonEffect, proposerVars
  <1>4. ASSUME NEW c \in Node, NEW i, NEW m, NEW saved,
               \/ ReceivePrepareEffect(c, m) \/ ReceiveAcceptEffect(c, m)
               \/ ReceiveAcceptedEffect(c, m) \/ BroadcastCommitEffect(c, i, saved)
               \/ ReceiveCommitEffect(c, m, saved)
        PROVE  leaderBallot'[n] = leaderBallot[n]
    BY ZenonT(30), <1>4 DEF ReceivePrepareEffect, ReceiveAcceptEffect, ReceiveAcceptedEffect,
           BroadcastCommitEffect, BroadcastCommit, ReceiveCommitEffect, ReceiveCommit, proposerVars
  <1> QED
    BY ZenonT(30), <1>1, <1>2, <1>3, <1>4 DEF StepEffect, vars, ProposeEffect, ElectEffect

(* The promises that elect a leader back it: they are of different nodes when *)
(* the ballot was campaigned for once, and two of them, its own and another,  *)
(* are of a majority of three.                                                *)
LEMMA WinnerBacked ==
  ASSUME TypeOK, QuorumFacts, ReplyInv, ProposalInv, LeaderInv,
         NEW n \in Node, NEW m \in msgs, Wins(n, m), CountsNodes(m.ballot)
  PROVE  Backed(m.ballot)
  <1>p. PICK p : p = pending[n][0]
    OBVIOUS
  <1>T. PICK T : T = p.promises \cup {m}
    BY Zenon
  <1>0. 0 \in Slot
    BY Constants
  <1>1. p \in Proposal /\ Fits(p, n, 0, incarnation[n], nextInstance[n], msgs)
    BY Zenon, <1>p, <1>0, ProposalTyped DEF ProposalInv
  <1>2. /\ m \in PromiseMsg /\ m.type = "Promise" /\ m.instance = 0 /\ m.to = n
        /\ p.pc = "promises" /\ p.ballot = m.ballot /\ Cardinality(T) >= QuorumSize
    BY <1>p, <1>T DEF Wins, PromiseMsg
  <1>3. m.from # n
    BY Zenon, <1>2 DEF ReplyInv
  <1>4. ASSUME NEW x \in T
        PROVE  /\ x \in PromiseMsg /\ x.from \in Node /\ x.type = "Promise" /\ x.to = n
               /\ x.instance = 0 /\ x.ballot = m.ballot
               /\ x \in msgs \/ (x \in p.promises /\ x.from = n)
               /\ m.ballot <= disk[x.from][0].promised
    <2>1. /\ x \in PromiseMsg
          /\ x.to = n /\ x.instance = 0 /\ x.ballot = m.ballot
          /\ x \in msgs \/ (x \in p.promises /\ x.from = n)
      BY Zenon, <1>T, <1>1, <1>2, <1>4 DEF Fits, Tallied, Proposal
    <2>2. x.from \in Node /\ x.type = "Promise"
      BY <2>1 DEF PromiseMsg
    <2>3. IsPromise(x)
      BY Zenon, <1>p, <1>0, <2>1, <2>2 DEF IsPromise
    <2>4. m.ballot <= disk[x.from][0].promised
      BY Zenon, <2>1, <2>3 DEF LeaderInv
    <2> QED
      BY Zenon, <2>1, <2>2, <2>4
  <1>5. PICK B : B = {a \in Node : disk[a][0].promised >= m.ballot}
    BY Zenon
  <1>6. \A x \in T : x.from \in B
    <2>1. \A a \in Node : disk[a][0].promised \in Nat
      BY <1>0, EntryTyped
    <2>2. m.ballot \in Nat
      BY Zenon, <1>2 DEF PromiseMsg
    <2> QED
      BY <1>4, <1>5, <2>1, <2>2
  <1>7. B \in SUBSET Node
    BY Zenon, <1>5
  <1>8. CASE Cardinality(Node) <= 3
    <2>1. PICK own \in p.promises : own.from = n
      BY Zenon, <1>p, <1>2 DEF LeaderInv
    <2>2. n \in B /\ m.from \in B /\ m.from \in Node
      BY Zenon, <1>T, <1>4, <1>6, <2>1
    <2>3. {n, m.from} \in Quorum
      BY Zenon, <1>3, <1>8, <2>2 DEF QuorumFacts
    <2>4. {n, m.from} \subseteq B
      BY <2>2
    <2>5. B \in Quorum
      BY Zenon, <1>7, <2>3, <2>4, QuorumGrows
    <2> QED
      BY Zenon, <1>5, <2>5 DEF Backed
  <1>9. CASE CampaignedOnce(m.ballot)
    <2>1. ASSUME NEW x \in T, NEW y \in T, x.from = y.from
          PROVE  x = y
      <3>1. CASE x.from = n
        <4>1. x \in p.promises /\ y \in p.promises
          BY Zenon, <1>T, <1>3, <2>1, <3>1
        <4> QED
          BY Zenon, <1>1, <2>1, <3>1, <4>1 DEF Fits
      <3>2. CASE x.from # n
        <4>1. x \in msgs /\ y \in msgs
          BY <1>4, <2>1, <3>2
        <4>2. /\ Prepare(n, x.inc, 0, m.ballot) \in msgs
              /\ Prepare(n, y.inc, 0, m.ballot) \in msgs
          BY Zenon, <1>4, <4>1 DEF ReplyInv
        <4>3. /\ Prepare(n, x.inc, 0, m.ballot).type = "Prepare"
              /\ Prepare(n, x.inc, 0, m.ballot).instance = 0
              /\ Prepare(n, x.inc, 0, m.ballot).ballot = m.ballot
              /\ Prepare(n, y.inc, 0, m.ballot).type = "Prepare"
              /\ Prepare(n, y.inc, 0, m.ballot).instance = 0
              /\ Prepare(n, y.inc, 0, m.ballot).ballot = m.ballot
              /\ Prepare(n, x.inc, 0, m.ballot).inc = x.inc
              /\ Prepare(n, y.inc, 0, m.ballot).inc = y.inc
          BY DEF Prepare
        <4>4. Prepare(n, x.inc, 0, m.ballot) = Prepare(n, y.inc, 0, m.ballot)
          BY Zenon, <1>9, <4>2, <4>3 DEF CampaignedOnce
        <4>5. x.inc = y.inc
          BY Zenon, <4>3, <4>4
        <4>6. /\ x.type = "Promise" /\ y.type = "Promise" /\ x.to = y.to
              /\ x.instance = y.instance /\ x.ballot = y.ballot
          BY Zenon, <1>4
        <4> QED
          BY Zenon, <2>1, <4>1, <4>5, <4>6 DEF ReplyInv
      <3> QED
        BY <3>1, <3>2
    <2>2. \A x \in T : x.from \in Node
      BY <1>4
    <2>3. Senders(T) \in Quorum
      BY Zenon, <1>2, <2>1, <2>2, TallyIsQuorum
    <2>4. Senders(T) \subseteq B
      BY <1>6 DEF Senders
    <2>5. B \in Quorum
      BY Zenon, <1>7, <2>3, <2>4, QuorumGrows
    <2> QED
      BY Zenon, <1>5, <2>5 DEF Backed
  <1> QED
    BY Zenon, <1>8, <1>9 DEF CountsNodes

(* Backing is for good, and so is a second campaign for the same ballot. *)
LEMMA BackingStays ==
  ASSUME TypeOK, TypeOK', QuorumFacts, LeaderInv, StepEffect, NEW b \in Nat
  PROVE  /\ Backed(b) => Backed(b)'
         /\ CountsNodes(b)' => CountsNodes(b)
  <1>1. ASSUME Backed(b) PROVE Backed(b)'
    <2>B. PICK B : B = {a \in Node : disk[a][0].promised >= b}
      BY Zenon
    <2>C. PICK C : C = {a \in Node : disk'[a][0].promised >= b}
      BY Zenon
    <2>1. AcceptorStep
      BY Zenon, StepKinds
    <2>2. \A a \in Node : /\ disk'[a][0].promised \in Nat
                          /\ disk'[a][0].promised >= disk[a][0].promised
      BY Zenon, <2>1, LeaderDisks DEF LeaderInv
    <2>3. \A a \in Node : disk[a][0].promised \in Nat
      BY Zenon, EntryTyped, Constants
    <2>4. B \subseteq C /\ C \in SUBSET Node
      BY <2>B, <2>C, <2>2, <2>3
    <2>5. B \in Quorum
      BY <1>1, <2>B DEF Backed
    <2>6. C \in Quorum
      BY Zenon, <2>4, <2>5, QuorumGrows
    <2> QED
      BY <2>C, <2>6 DEF Backed
  <1>2. CountsNodes(b)' => CountsNodes(b)
    BY Zenon, MessagesStay DEF CountsNodes, CampaignedOnce
  <1> QED
    BY Zenon, <1>1, <1>2

(* A fresh cluster has no leader. *)
LEMMA InitLeaderInv == Init => LeaderInv
  <1> SUFFICES ASSUME Init PROVE LeaderInv
    OBVIOUS
  <1>0. 0 \in Slot
    BY Zenon, Constants
  <1>1. \A a \in Node : mem[a][0] = Unset /\ disk[a][0] = Unset
    BY Zenon, <1>0 DEF Init
  <1>2. NoProposal.promises = {} /\ NoProposal.pc = "none"
    BY DEF NoProposal
  <1>3. \A m : ~IsPromise(m)
    BY Zenon, <1>2 DEF Init, IsPromise
  <1>4. \A n \in Node : leaderBallot[n] = 0 /\ pending[n][0] = NoProposal
    BY <1>0 DEF Init
  <1> QED
    BY <1>1, <1>2, <1>3, <1>4 DEF LeaderInv

(* Every step keeps what is known of leaders. *)
LEMMA StepLeaderInv ==
  ASSUME TypeOK, TypeOK', QuorumFacts, ReplyInv, ProposalInv, LeaderInv, StepEffect
  PROVE  LeaderInv'
  <1>0. 0 \in Slot /\ AcceptorStep
    BY Zenon, Constants, StepKinds
  <1>1. \A a \in Node : /\ mem'[a][0].promised = disk'[a][0].promised
                        /\ disk'[a][0].promised \in Nat
                        /\ disk'[a][0].promised >= disk[a][0].promised
    BY Zenon, <1>0, LeaderDisks DEF LeaderInv
  <1>2. ASSUME NEW m \in PromiseMsg, IsPromise(m)', m.instance = 0
        PROVE  m.ballot <= disk'[m.from][0].promised
    <2>0. m.from \in Node /\ m.ballot \in Nat
      BY Zenon DEF PromiseMsg
    <2>1. CASE IsPromise(m)
      <3>1. m.ballot <= disk[m.from][0].promised /\ disk[m.from][0].promised \in Nat
        BY Zenon, <1>0, <1>2, <2>0, <2>1, EntryTyped DEF LeaderInv
      <3> QED
        BY <1>1, <2>0, <3>1
    <2>2. CASE ~IsPromise(m)
      <3>1. PICK a \in Node, j \in Slot, b \in Nat : Promising(a, j, b) /\ Reports(m, a, j, b)
        BY Zenon, <1>0, <1>2, <2>2, NewPromise
      <3>2. a = m.from /\ j = 0 /\ b = m.ballot
        BY <1>2, <3>1 DEF Reports
      <3>3. mem'[m.from][0].promised = m.ballot
        BY Zenon, <3>1, <3>2 DEF Promising, GrantPrepare
      <3> QED
        BY <1>1, <2>0, <3>3
    <2> QED
      BY <2>1, <2>2
  <1>3. ASSUME NEW n \in Node, pending'[n][0].pc = "promises"
        PROVE  \E m \in pending'[n][0].promises : m.from = n
    <2>1. pending[n][0].pc = "promises" => \E m \in pending[n][0].promises : m.from = n
      BY Zenon DEF LeaderInv
    <2> QED
      BY Zenon, <1>3, <2>1, CandidatePromise
  <1>4. ASSUME NEW n \in Node, leaderBallot'[n] # 0
        PROVE  (/\ OwnBallot(leaderBallot[n], n)
                /\ CountsNodes(leaderBallot[n]) => Backed(leaderBallot[n]))'
    <2>b. PICK b \in Nat : b = leaderBallot'[n]
      BY DEF TypeOK
    <2>1. CASE leaderBallot'[n] = leaderBallot[n]
      <3>1. OwnBallot(b, n) /\ (CountsNodes(b) => Backed(b))
        BY Zenon, <1>4, <2>b, <2>1 DEF LeaderInv
      <3>2. CountsNodes(b)' => Backed(b)'
        BY Zenon, <3>1, BackingStays
      <3> QED
        BY Zenon, <2>b, <3>1, <3>2 DEF OwnBallot, CountsNodes, CampaignedOnce, Backed
    <2>2. ASSUME NEW m \in msgs, Wins(n, m)
          PROVE  (/\ OwnBallot(leaderBallot[n], n)
                  /\ CountsNodes(leaderBallot[n]) => Backed(leaderBallot[n]))'
      <3>1. b = m.ballot /\ pending[n][0].ballot = b /\ pending[n][0].pc = "promises"
        BY Zenon, <2>b, <2>2 DEF Wins
      <3>2. OwnBallot(b, n)
        <4>1. Fits(pending[n][0], n, 0, incarnation[n], nextInstance[n], msgs)
          BY Zenon, <1>0 DEF ProposalInv
        <4> QED
          BY <3>1, <4>1 DEF Fits
      <3>3. CountsNodes(b) => Backed(b)
        BY Zenon, <2>2, <3>1, WinnerBacked
      <3>4. CountsNodes(b)' => Backed(b)'
        BY Zenon, <3>3, BackingStays
      <3> QED
        BY Zenon, <2>b, <3>2, <3>4 DEF OwnBallot, CountsNodes, CampaignedOnce, Backed
    <2> QED
      BY Zenon, <1>4, <2>1, <2>2, LeaderBallots
  <1> QED
    BY Zenon, <1>1, <1>2, <1>3, <1>4 DEF LeaderInv
-----------------------------------------------------------------------------
(* A value that a Commit, sent or about to be sent, carries for i. *)
Learnt(i, w) ==
  \/ \E c \in Node : pending[c][i].pc = "commit" /\ w = pending[c][i].value
  \/ \E m \in msgs : m.type = "Commit" /\ m.instance = i /\ w = m.value

(* What handleCommit does to an entry of the learner and of the log. *)
LEMMA HandlingEntry ==
  ASSUME TypeOK, NEW c \in Node, NEW j \in Instance, NEW b, NEW v, NEW saved,
         HandleCommit(c, j, b, v, saved), NEW n \in Node, NEW i \in Instance
  PROVE  /\ committed'[n][i] = committed[n][i] \/ (j = i /\ committed'[n][i].value = v)
         /\ log'[n][i] = log[n][i] \/ (j = i /\ log'[n][i].value = Stored(v))
  <1>t. /\ committed \in [Node -> [Instance -> LogEntry]]
        /\ log \in [Node -> [Instance -> LogEntry]]
    BY Zenon DEF TypeOK
  <1>1. CASE UNCHANGED learnerVars
    BY Zenon, <1>1 DEF learnerVars
  <1>2. ASSUME committed' = [committed EXCEPT ![c][j] = [ballot |-> b, value |-> v]]
        PROVE  committed'[n][i] = committed[n][i] \/ (j = i /\ committed'[n][i].value = v)
    BY Zenon, <1>t, <1>2
  <1>3. ASSUME log' = [log EXCEPT ![c][j] = [ballot |-> b, value |-> Stored(v)]]
        PROVE  log'[n][i] = log[n][i] \/ (j = i /\ log'[n][i].value = Stored(v))
    BY <1>t, <1>3
  <1> QED
    BY Zenon, <1>1, <1>2, <1>3 DEF HandleCommit, AppendLog

(* A learner's entry comes from a Commit or, after a restart, from the log;   *)
(* an entry of the log from a Commit (node.go:277-324, 104-141).              *)
LEMMA LearntFrom ==
  ASSUME TypeOK, StepEffect, NEW n \in Node, NEW i \in Instance
  PROVE  /\ \/ committed'[n][i] = committed[n][i]
            \/ committed'[n][i] = NoEntry
            \/ committed'[n][i] = log[n][i]
            \/ \E w : Learnt(i, w) /\ committed'[n][i].value = w
         /\ \/ log'[n][i] = log[n][i]
            \/ \E w : Learnt(i, w) /\ log'[n][i].value = Stored(w)
  <1> DEFINE Goal == /\ \/ committed'[n][i] = committed[n][i]
                        \/ committed'[n][i] = NoEntry
                        \/ committed'[n][i] = log[n][i]
                        \/ \E w : Learnt(i, w) /\ committed'[n][i].value = w
                     /\ \/ log'[n][i] = log[n][i]
                        \/ \E w : Learnt(i, w) /\ log'[n][i].value = Stored(w)
  <1>1. ASSUME committed' = committed, log' = log PROVE Goal
    BY <1>1
  <1>2. ASSUME NEW c \in Node, NEW j \in Instance, NEW saved, BroadcastCommitEffect(c, j, saved)
        PROVE  Goal
    <2>p. PICK p : p = pending[c][j]
      OBVIOUS
    <2>1. HandleCommit(c, j, p.ballot, p.value, saved) /\ p.pc = "commit"
      BY Zenon, <1>2, <2>p DEF BroadcastCommitEffect, BroadcastCommit
    <2>2. /\ committed'[n][i] = committed[n][i] \/ (j = i /\ committed'[n][i].value = p.value)
          /\ log'[n][i] = log[n][i] \/ (j = i /\ log'[n][i].value = Stored(p.value))
      BY <2>1, HandlingEntry
    <2>3. j = i => Learnt(i, p.value)
      BY Zenon, <2>p, <2>1 DEF Learnt
    <2> QED
      BY Zenon, <2>2, <2>3
  <1>3. ASSUME NEW c \in Node, NEW m \in msgs, NEW saved, ReceiveCommitEffect(c, m, saved)
        PROVE  Goal
    <2>1. /\ HandleCommit(c, m.instance, m.ballot, m.value, saved)
          /\ m.type = "Commit" /\ m \in CommitMsg
      BY Zenon, <1>3 DEF ReceiveCommitEffect, ReceiveCommit
    <2>0. m.instance \in Instance
      BY Zenon, <2>1 DEF CommitMsg
    <2>2. /\ \/ committed'[n][i] = committed[n][i]
             \/ m.instance = i /\ committed'[n][i].value = m.value
          /\ log'[n][i] = log[n][i] \/ (m.instance = i /\ log'[n][i].value = Stored(m.value))
      BY <2>0, <2>1, HandlingEntry
    <2>3. m.instance = i => Learnt(i, m.value)
      BY Zenon, <2>1 DEF Learnt
    <2> QED
      BY Zenon, <2>2, <2>3
  <1>4. ASSUME NEW c \in Node, RestartEffect(c) PROVE Goal
    <2>1. /\ committed' = [committed EXCEPT ![c] = GetLogRange(c, 1, lastInstance[c] + 1)]
          /\ log' = log
      BY Zenon, <1>4 DEF RestartEffect, Restart
    <2>2. /\ GetLogRange(n, 1, lastInstance[n] + 1)[i] = log[n][i]
             \/ GetLogRange(n, 1, lastInstance[n] + 1)[i] = NoEntry
      BY Zenon DEF GetLogRange
    <2>3. \/ committed'[n][i] = committed[n][i]
          \/ committed'[n][i] = GetLogRange(n, 1, lastInstance[n] + 1)[i]
      BY <2>1 DEF TypeOK
    <2> QED
      BY Zenon, <2>1, <2>2, <2>3
  <1>5. ASSUME NEW c \in Node, NEW j, NEW v,
               \/ StartEffect(c, j, v) \/ StepDown(c) \/ ReadCommitCh(c)
               \/ StartPhase1Effect(c, j) \/ StartPhase2Effect(c, j) \/ AbandonEffect(c, j)
        PROVE  committed' = committed /\ log' = log
    BY ZenonT(30), <1>5 DEF StartEffect, StepDown, ReadCommitCh, StartPhase1Effect,
           StartPhase2Effect, AbandonEffect, learnerVars
  <1>6. ASSUME NEW c \in Node, NEW m,
               \/ ReceivePrepareEffect(c, m) \/ ReceiveAcceptEffect(c, m)
               \/ ReceivePromiseEffect(c, m) \/ ReceiveAcceptedEffect(c, m)
        PROVE  committed' = committed /\ log' = log
    BY ZenonT(30), <1>6 DEF ReceivePrepareEffect, ReceiveAcceptEffect, ReceiveAcceptedEffect,
           ReceivePromiseEffect, learnerVars
  <1> HIDE DEF Goal
  <1>7. Goal
    BY ZenonT(30), <1>1, <1>2, <1>3, <1>4, <1>5, <1>6
       DEF StepEffect, vars, ProposeEffect, ElectEffect
  <1> QED
    BY Zenon, <1>7 DEF Goal

(* Only broadcastCommit lets Propose return an instance (proposer.go:317-336). *)
LEMMA NewAck ==
  ASSUME StepEffect, NEW k \in acks', k \notin acks
  PROVE  \E n \in Node, i \in Instance :
           /\ pending[n][i].pc = "commit"
           /\ k = [node |-> n, instance |-> i, asked |-> pending[n][i].asked]
  <1>1. ASSUME NEW c \in Node, NEW j, NEW v,
               \/ StartEffect(c, j, v) \/ StepDown(c) \/ ReadCommitCh(c) \/ RestartEffect(c)
               \/ StartPhase1Effect(c, j) \/ StartPhase2Effect(c, j) \/ AbandonEffect(c, j)
        PROVE  acks' = acks
    BY ZenonT(30), <1>1 DEF StartEffect, StepDown, ReadCommitCh, RestartEffect, Restart,
           StartPhase1Effect, StartPhase2Effect, AbandonEffect
  <1>2. ASSUME NEW c \in Node, NEW m, NEW saved,
               \/ ReceivePrepareEffect(c, m) \/ ReceiveAcceptEffect(c, m)
               \/ ReceivePromiseEffect(c, m) \/ ReceiveAcceptedEffect(c, m)
               \/ ReceiveCommitEffect(c, m, saved)
        PROVE  acks' = acks
    BY ZenonT(30), <1>2 DEF ReceivePrepareEffect, ReceiveAcceptEffect, ReceiveAcceptedEffect,
           ReceivePromiseEffect, ReceiveCommitEffect, ReceiveCommit
  <1>3. ASSUME NEW n \in Node, NEW i \in Instance, NEW saved, BroadcastCommitEffect(n, i, saved)
        PROVE  /\ pending[n][i].pc = "commit"
               /\ k = [node |-> n, instance |-> i, asked |-> pending[n][i].asked]
    BY Zenon, <1>3 DEF BroadcastCommitEffect, BroadcastCommit
  <1> QED
    BY ZenonT(30), <1>1, <1>2, <1>3 DEF StepEffect, vars, ProposeEffect, ElectEffect

(* Encoding twice, and storing, changes nothing that Encode does not change. *)
LEMMA WireFacts ==
  \A v : Wire(Wire(v)) = Wire(v) /\ Wire(Stored(v)) = Wire(v)
  BY DEF Wire, Stored

(* What was sent stays sent. *)
LEMMA SentStays ==
  ASSUME StepEffect, NEW i
  PROVE  /\ AcceptSent(i) => AcceptSent(i)'
         /\ \A v : AcceptSentFor(i, v) => AcceptSentFor(i, v)'
         /\ Sole(i)' => Sole(i)
  <1>1. msgs \subseteq msgs'
    BY Zenon, MessagesStay
  <1> QED
    BY Zenon, <1>1 DEF AcceptSent, AcceptSentFor, Sole

(* What a Commit carries was asked for in an Accept. *)
LEMMA LearntSent ==
  ASSUME ProposalInv, NEW i \in Instance, TraceInv(i), NEW w, Learnt(i, w)
  PROVE  AcceptSentFor(i, w)
  <1>1. ASSUME NEW c \in Node, pending[c][i].pc = "commit", w = pending[c][i].value
        PROVE  AcceptSentFor(i, w)
    <2>1. Fits(pending[c][i], c, i, incarnation[c], nextInstance[c], msgs)
      BY Zenon, Constants DEF ProposalInv
    <2>2. Accept(c, incarnation[c], i, pending[c][i].ballot, w) \in msgs
      BY Zenon, <1>1, <2>1 DEF Fits
    <2> QED
      BY <2>2 DEF AcceptSentFor, AcceptOf, Accept
  <1> QED
    BY Zenon, <1>1 DEF Learnt, TraceInv

(* So it was for the Commits after a step. *)
LEMMA TraceCommits ==
  ASSUME ProposalInv, StepEffect, NEW i \in Instance, TraceInv(i),
         NEW m \in msgs', m.type = "Commit", m.instance = i
  PROVE  AcceptSentFor(i, m.value)'
  <1>1. CASE m \in msgs
    BY Zenon, <1>1, SentStays DEF TraceInv
  <1>2. CASE m \notin msgs
    <2>1. PICK n \in Node, j \in Instance :
            /\ pending[n][j].pc = "commit"
            /\ m = Commit(n, j, pending[n][j].ballot, pending[n][j].value)
      BY Zenon, <1>2, NewCommit
    <2>2. j = i /\ m.value = Wire(pending[n][i].value)
      BY <2>1 DEF Commit
    <2>3. AcceptSentFor(i, pending[n][i].value)
      BY Zenon, <2>1, <2>2, LearntSent DEF Learnt
    <2>4. AcceptSentFor(i, m.value)
      BY Zenon, <2>2, <2>3, WireFacts DEF AcceptSentFor
    <2> QED
      BY Zenon, <2>4, SentStays
  <1> QED
    BY Zenon, <1>1, <1>2

(* An acceptor has accepted something only if an Accept was sent; forgetting  *)
(* follows a Commit (acceptor.go:155-172, 212-214).                           *)
LEMMA TraceEntries ==
  ASSUME TypeOK, ProposalInv, StepEffect, NEW i \in Instance, TraceInv(i), NEW a \in Node,
         mem'[a][i].acceptedBallot # 0 \/ disk'[a][i].acceptedBallot # 0
  PROVE  AcceptSent(i)'
  <1>0. i \in Slot
    BY Zenon, Constants
  <1>1. mem[a][i].acceptedBallot # 0 \/ disk[a][i].acceptedBallot # 0 => AcceptSent(i)'
    BY Zenon, SentStays DEF TraceInv
  <1>2. CASE Idle
    BY Zenon, <1>1, <1>2 DEF Idle
  <1>3. ASSUME NEW c \in Node, NEW j \in Slot, NEW b \in Nat, Promising(c, j, b)
        PROVE  AcceptSent(i)'
    <2>1. mem'[a][i].acceptedBallot = mem[a][i].acceptedBallot
      BY Zenon, <1>0, <1>3 DEF Promising, GrantPrepare, Saved
    <2>2. \/ disk'[a][i].acceptedBallot = disk[a][i].acceptedBallot
          \/ disk'[a][i].acceptedBallot = mem'[a][i].acceptedBallot
      BY Zenon, <1>0, <1>3 DEF Promising, GrantPrepare, Saved, Copy
    <2> QED
      BY Zenon, <1>1, <2>1, <2>2
  <1>4. ASSUME NEW c \in Node, NEW j \in Instance, NEW b \in Nat, NEW v \in Bytes,
               Voting(c, j, b, v)
        PROVE  AcceptSent(i)'
    <2>1. j = i => AcceptSent(i)'
      BY Zenon, <1>4 DEF Voting, AcceptSent, AcceptOf
    <2>2. j # i => mem'[a][i].acceptedBallot = mem[a][i].acceptedBallot
      BY Zenon, <1>0, <1>4 DEF Voting, GrantAccept, Saved
    <2>3. \/ disk'[a][i].acceptedBallot = disk[a][i].acceptedBallot
          \/ disk'[a][i].acceptedBallot = mem'[a][i].acceptedBallot
      BY <1>0, <1>4 DEF Voting, GrantAccept, Saved, Copy
    <2> QED
      BY Zenon, <1>1, <2>1, <2>2, <2>3
  <1>5. ASSUME NEW c \in Node, NEW j \in Instance, Forgetting(c, j)
        PROVE  AcceptSent(i)'
    <2>1. ASSUME j = i PROVE AcceptSent(i)'
      <3>1. PICK k \in msgs' : k.type = "Commit" /\ k.instance = i
        BY Zenon, <1>5, <2>1 DEF Forgetting
      <3>2. AcceptSentFor(i, k.value)'
        BY Zenon, <3>1, TraceCommits
      <3> QED
        BY Zenon, <3>2 DEF AcceptSentFor, AcceptSent
    <2>2. ASSUME j # i PROVE mem'[a][i] = mem[a][i] /\ disk' = disk
      BY Zenon, <1>0, <1>5, <2>2 DEF Forgetting, Forget
    <2> QED
      BY Zenon, <1>1, <2>1, <2>2
  <1>6. ASSUME NEW c \in Node, Reloading(c)
        PROVE  AcceptSent(i)'
    <2>1. /\ disk' = disk
          /\ \/ mem'[a][i].acceptedBallot = mem[a][i].acceptedBallot
             \/ mem'[a][i].acceptedBallot = disk[a][i].acceptedBallot
      BY <1>0, <1>6 DEF Reloading, Reload, Copy
    <2> QED
      BY Zenon, <1>1, <2>1
  <1>7. AcceptorStep
    BY Zenon, StepKinds
  <1> QED
    BY Zenon, <1>2, <1>3, <1>4, <1>5, <1>6, <1>7 DEF AcceptorStep

(* A promise reports what its acceptor has accepted. *)
LEMMA TracePromises ==
  ASSUME TypeOK, StepEffect, NEW i \in Instance, TraceInv(i),
         NEW m \in PromiseMsg, IsPromise(m)', m.instance = i, m.acceptedBallot # 0
  PROVE  AcceptSent(i)'
  <1>1. CASE IsPromise(m)
    BY Zenon, <1>1, SentStays DEF TraceInv
  <1>2. CASE ~IsPromise(m)
    <2>1. AcceptorStep
      BY Zenon, StepKinds
    <2>2. PICK a \in Node, j \in Slot, b \in Nat : Promising(a, j, b) /\ Reports(m, a, j, b)
      BY Zenon, <1>2, <2>1, NewPromise
    <2>3. mem[a][i].acceptedBallot # 0
      BY Zenon, <2>2 DEF Reports
    <2> QED
      BY Zenon, <2>3, SentStays DEF TraceInv
  <1> QED
    BY Zenon, <1>1, <1>2

(* What a learner or a log holds was asked for in an Accept. *)
LEMMA TraceLearner ==
  ASSUME TypeOK, ProposalInv, StepEffect, NEW i \in Instance, TraceInv(i), NEW n \in Node
  PROVE  /\ (committed[n][i] # NoEntry => AcceptSentFor(i, committed[n][i].value))'
         /\ (log[n][i] # NoEntry => AcceptSentFor(i, log[n][i].value))'
  <1>c. PICK e : e = committed'[n][i]
    OBVIOUS
  <1>l. PICK f : f = log'[n][i]
    OBVIOUS
  <1>1. /\ committed[n][i] # NoEntry => AcceptSentFor(i, committed[n][i].value)
        /\ log[n][i] # NoEntry => AcceptSentFor(i, log[n][i].value)
    BY Zenon DEF TraceInv
  <1>2. ASSUME NEW w, Learnt(i, w)
        PROVE  AcceptSentFor(i, w) /\ AcceptSentFor(i, Stored(w))
    <2>1. AcceptSentFor(i, w)
      BY Zenon, <1>2, LearntSent
    <2> QED
      BY Zenon, <2>1, WireFacts DEF AcceptSentFor
  <1>3. /\ \/ e = committed[n][i] \/ e = NoEntry \/ e = log[n][i]
           \/ \E w : Learnt(i, w) /\ e.value = w
        /\ f = log[n][i] \/ \E w : Learnt(i, w) /\ f.value = Stored(w)
    BY Zenon, <1>c, <1>l, LearntFrom
  <1>4. /\ e # NoEntry => AcceptSentFor(i, e.value)
        /\ f # NoEntry => AcceptSentFor(i, f.value)
    BY Zenon, <1>1, <1>2, <1>3
  <1>5. /\ e # NoEntry => AcceptSentFor(i, e.value)'
        /\ f # NoEntry => AcceptSentFor(i, f.value)'
    BY Zenon, <1>4, SentStays
  <1> QED
    BY Zenon, <1>c, <1>l, <1>5 DEF AcceptSentFor

(* While the only Prepare for i is its own, a proposal in phase 1 finds       *)
(* nothing accepted (proposer.go:219-237).                                    *)
LEMMA FreshTally ==
  ASSUME RequestInv, ProposalInv, NEW i \in Instance, Sole(i), NEW n \in Node,
         pending[n][i].pc = "promises"
  PROVE  ~AcceptSent(i)
  <1> SUFFICES ASSUME NEW k \in msgs, AcceptOf(k, i) PROVE FALSE
    BY Zenon DEF AcceptSent
  <1>1. Fits(pending[n][i], n, i, incarnation[n], nextInstance[n], msgs)
    BY Zenon, Constants DEF ProposalInv
  <1>2. /\ Prepare(n, incarnation[n], i, pending[n][i].ballot) \in msgs
        /\ ~(k.type = "Accept" /\ k.from = n /\ k.instance = i /\ k.inc = incarnation[n])
    BY Zenon, <1>1 DEF Fits
  <1>3. Prepare(k.from, k.inc, i, k.ballot) \in msgs
    BY Zenon DEF RequestInv, AcceptOf
  <1>4. Prepare(k.from, k.inc, i, k.ballot) = Prepare(n, incarnation[n], i, pending[n][i].ballot)
    BY Zenon, <1>2, <1>3 DEF Sole, Prepare
  <1>5. k.from = n /\ k.inc = incarnation[n]
    BY Zenon, <1>4 DEF Prepare
  <1> QED
    BY Zenon, <1>2, <1>5 DEF AcceptOf

LEMMA FreshValue ==
  ASSUME TypeOK, RequestInv, ProposalInv, NEW i \in Instance, TraceInv(i), Sole(i),
         NEW n \in Node, NEW m \in PromiseMsg, m \in msgs, m.instance = i,
         pending[n][i].pc = "promises"
  PROVE  HighestAccepted(pending[n][i].promises \cup {m}) = {Nil}
  <1>0. i \in Slot
    BY Zenon, Constants
  <1>1. ASSUME NEW x \in pending[n][i].promises \cup {m} PROVE x.acceptedBallot = 0
    <2>1. x \in PromiseMsg
      BY Zenon, <1>0, ProposalTyped DEF Proposal
    <2>2. x.instance = i
      <3>1. Fits(pending[n][i], n, i, incarnation[n], nextInstance[n], msgs)
        BY Zenon, <1>0 DEF ProposalInv
      <3> QED
        BY Zenon, <3>1 DEF Fits, Tallied
    <2>3. IsPromise(x)
      BY <1>0 DEF IsPromise, PromiseMsg
    <2>4. ~AcceptSent(i)
      BY Zenon, FreshTally
    <2> QED
      BY Zenon, <2>1, <2>2, <2>3, <2>4 DEF TraceInv
  <1> QED
    BY <1>1 DEF HighestAccepted

(* A proposal asks for its caller's value as long as it is the only one. *)
LEMMA TraceFaithful ==
  ASSUME TypeOK, RequestInv, ProposalInv, StepEffect, NEW i \in Instance, TraceInv(i),
         NEW n \in Node
  PROVE  (Faithful(pending[n][i], i))'
  <1>0. i \in Slot
    BY Zenon, Constants
  <1>p. PICK p : p = pending[n][i]
    OBVIOUS
  <1>q. PICK q : q = pending'[n][i]
    OBVIOUS
  <1>1. /\ p.pc \in {"prepare", "promises"} => p.value = p.asked
        /\ (Sole(i)' /\ p.pc \in {"accept", "accepteds", "commit"}) => Wire(p.value) = Wire(p.asked)
    BY Zenon, <1>p, SentStays DEF TraceInv, Faithful
  <1> DEFINE Goal == /\ q.pc \in {"prepare", "promises"} => q.value = q.asked
                     /\ (Sole(i)' /\ q.pc \in {"accept", "accepteds", "commit"}) =>
                          Wire(q.value) = Wire(q.asked)
  <1>2. ASSUME q = NoProposal \/ q.pc = "none" PROVE Goal
    BY <1>2 DEF NoProposal
  <1>3. ASSUME q.pc = "prepare", q.value = q.asked PROVE Goal
    BY Zenon, <1>3
  <1>4. ASSUME NEW ps, NEW as, q = With(p, "promises", p.value, ps, as),
               p.pc \in {"prepare", "promises"}
        PROVE  Goal
    BY Zenon, <1>1, <1>4 DEF With
  <1>5. ASSUME NEW ps, NEW as, NEW pc \in {"accepteds", "commit"}, q = With(p, pc, p.value, ps, as),
               p.pc \in {"accept", "accepteds"}
        PROVE  Goal
    BY Zenon, <1>1, <1>5 DEF With
  <1>6. ASSUME NEW m \in PromiseMsg, m \in msgs, m.instance = i, p.pc = "promises",
               NEW v \in HighestAccepted(p.promises \cup {m}),
               q = With(p, "accept", IF v # Nil THEN v ELSE p.value, {}, p.accepteds)
        PROVE  Goal
    <2>1. ASSUME Sole(i)' PROVE q.value = p.value
      <3>1. Sole(i)
        BY Zenon, <2>1, SentStays
      <3>2. HighestAccepted(p.promises \cup {m}) = {Nil}
        BY Zenon, <1>p, <1>6, <3>1, FreshValue
      <3> QED
        BY Zenon, <1>6, <3>2 DEF With
    <2>2. q.pc = "accept" /\ q.asked = p.asked
      BY Zenon, <1>6 DEF With
    <2> QED
      BY Zenon, <1>1, <1>6, <2>1, <2>2
  <1> HIDE DEF Goal
  <1>7. ASSUME q = p PROVE Goal
    BY <1>1, <1>7 DEF Goal
  <1>8. ASSUME StartPhase1Effect(n, i) PROVE Goal
    BY Zenon, <1>p, <1>q, <1>2, <1>4, <1>8 DEF StartPhase1Effect, Becomes
  <1>9. ASSUME StartPhase2Effect(n, i) PROVE Goal
    BY Zenon, <1>p, <1>q, <1>2, <1>5, <1>9 DEF StartPhase2Effect, Becomes
  <1>10. ASSUME NEW m \in msgs, m.instance = i, ReceivePromiseEffect(n, m) PROVE Goal
    <2>1. /\ m \in PromiseMsg /\ p.pc = "promises"
          /\ \/ q = With(p, "promises", p.value, p.promises \cup {m}, p.accepteds)
             \/ \E v \in HighestAccepted(p.promises \cup {m}) :
                  q = With(p, "accept", IF v # Nil THEN v ELSE p.value, {}, p.accepteds)
             \/ q = NoProposal
      BY Zenon, <1>p, <1>q, <1>10 DEF ReceivePromiseEffect, Becomes
    <2> QED
      BY Zenon, <1>2, <1>4, <1>6, <1>10, <2>1
  <1>11. ASSUME NEW m \in msgs, m.instance = i, ReceiveAcceptedEffect(n, m) PROVE Goal
    <2>1. /\ p.pc = "accepteds"
          /\ \/ q = With(p, "accepteds", p.value, p.promises, p.accepteds \cup {m})
             \/ q = With(p, "commit", p.value, p.promises, {})
      BY Zenon, <1>p, <1>q, <1>11 DEF ReceiveAcceptedEffect, Becomes
    <2> QED
      BY Zenon, <1>5, <2>1
  <1>12. Goal
    BY Zenon, <1>0, <1>p, <1>q, <1>2, <1>3, <1>7, <1>8, <1>9, <1>10, <1>11, ProposalChange
  <1> QED
    BY Zenon, <1>q, <1>12 DEF Goal, Faithful, Sole

(* What a caller of Propose is told of was asked for in an Accept, and in its *)
(* own if that was the only one (proposer.go:317-336).                        *)
LEMMA TraceAcks ==
  ASSUME TypeOK, ProposalInv, StepEffect, NEW i \in Instance, TraceInv(i),
         NEW k \in acks', k.instance = i
  PROVE  AcceptSent(i)' /\ (Sole(i)' => AcceptSentFor(i, k.asked)')
  <1>1. CASE k \in acks
    BY Zenon, <1>1, SentStays DEF TraceInv
  <1>2. CASE k \notin acks
    <2>1. PICK n \in Node, j \in Instance :
            /\ pending[n][j].pc = "commit"
            /\ k = [node |-> n, instance |-> j, asked |-> pending[n][j].asked]
      BY Zenon, <1>2, NewAck
    <2>2. j = i /\ k.asked = pending[n][i].asked
      BY Zenon, <2>1
    <2>3. AcceptSentFor(i, pending[n][i].value)
      BY Zenon, <2>1, <2>2, LearntSent DEF Learnt
    <2>4. Sole(i) => Wire(pending[n][i].value) = Wire(k.asked)
      BY Zenon, <2>1, <2>2 DEF TraceInv, Faithful
    <2>5. AcceptSent(i) /\ (Sole(i) => AcceptSentFor(i, k.asked))
      BY Zenon, <2>3, <2>4 DEF AcceptSent, AcceptSentFor
    <2> QED
      BY Zenon, <2>5, SentStays
  <1> QED
    BY Zenon, <1>1, <1>2

LEMMA InitTraceInv == Init => \A i \in Instance : TraceInv(i)
  <1> SUFFICES ASSUME Init, NEW i \in Instance PROVE TraceInv(i)
    OBVIOUS
  <1>0. i \in Slot
    BY Zenon, Constants
  <1>1. ASSUME NEW a \in Node PROVE mem[a][i].acceptedBallot = 0 /\ disk[a][i].acceptedBallot = 0
    BY Zenon, <1>0 DEF Init, Unset
  <1>2. ASSUME NEW m \in PromiseMsg PROVE ~IsPromise(m)
    BY Zenon DEF Init, IsPromise, NoProposal
  <1>3. ASSUME NEW n \in Node PROVE committed[n][i] = NoEntry /\ log[n][i] = NoEntry
    BY Zenon DEF Init
  <1>4. ASSUME NEW n \in Node PROVE Faithful(pending[n][i], i)
    BY <1>0 DEF Init, NoProposal, Faithful
  <1>5. msgs = {} /\ acks = {}
    BY Zenon DEF Init
  <1> QED
    BY Zenon, <1>1, <1>2, <1>3, <1>4, <1>5 DEF TraceInv

LEMMA StepTraceInv ==
  ASSUME TypeOK, RequestInv, ProposalInv, StepEffect, NEW i \in Instance, TraceInv(i)
  PROVE  TraceInv(i)'
  <1>1. \A a \in Node :
          (mem'[a][i].acceptedBallot # 0 \/ disk'[a][i].acceptedBallot # 0) => AcceptSent(i)'
    BY Zenon, TraceEntries
  <1>2. \A m \in PromiseMsg :
          (IsPromise(m)' /\ m.instance = i /\ m.acceptedBallot # 0) => AcceptSent(i)'
    BY Zenon, TracePromises
  <1>3. \A n \in Node :
          /\ (committed[n][i] # NoEntry => AcceptSentFor(i, committed[n][i].value))'
          /\ (log[n][i] # NoEntry => AcceptSentFor(i, log[n][i].value))'
          /\ (Faithful(pending[n][i], i))'
    BY Zenon, TraceLearner, TraceFaithful
  <1>4. \A m \in msgs' : (m.type = "Commit" /\ m.instance = i) => AcceptSentFor(i, m.value)'
    BY Zenon, TraceCommits
  <1>5. \A k \in acks' : k.instance = i =>
          AcceptSent(i)' /\ (Sole(i)' => AcceptSentFor(i, k.asked)')
    BY Zenon, TraceAcks
  <1> QED
    BY Zenon, <1>1, <1>2, <1>3, <1>4, <1>5 DEF TraceInv

(* The only Accept for an instance with one Prepare. *)
LEMMA SoleAccept ==
  ASSUME RequestInv, NEW i, Sole(i), NEW k1 \in msgs, NEW k2 \in msgs,
         AcceptOf(k1, i), AcceptOf(k2, i)
  PROVE  k1 = k2
  <1>1. /\ Prepare(k1.from, k1.inc, i, k1.ballot) \in msgs
        /\ Prepare(k2.from, k2.inc, i, k2.ballot) \in msgs
    BY Zenon DEF RequestInv, AcceptOf
  <1>2. Prepare(k1.from, k1.inc, i, k1.ballot) = Prepare(k2.from, k2.inc, i, k2.ballot)
    BY Zenon, <1>1 DEF Sole, Prepare
  <1>3. k1.from = k2.from /\ k1.inc = k2.inc
    BY <1>2 DEF Prepare
  <1> QED
    BY Zenon, <1>3 DEF RequestInv, AcceptOf

(* What is learnt, logged or acknowledged has one encoding. *)
LEMMA TraceInvLearned ==
  ASSUME TypeOK, RequestInv, \A i \in Instance : TraceInv(i)
  PROVE  SoleProposalLearned
  <1> DEFINE Learned(i) ==
               {Wire(e.value) : e \in {committed[n][i] : n \in Node} \ {NoEntry}}
                 \cup {Wire(e.value) : e \in {log[n][i] : n \in Node} \ {NoEntry}}
                 \cup {Wire(k.asked) : k \in {a \in acks : a.instance = i}}
  <1>1. ASSUME NEW i \in Instance, Sole(i), NEW x \in Learned(i)
        PROVE  \E k \in msgs : AcceptOf(k, i) /\ k.value = x
    <2>0. TraceInv(i)
      BY Zenon
    <2>1. ASSUME NEW n \in Node, committed[n][i] # NoEntry, x = Wire(committed[n][i].value)
          PROVE  \E k \in msgs : AcceptOf(k, i) /\ k.value = x
      BY Zenon, <2>0, <2>1 DEF TraceInv, AcceptSentFor
    <2>2. ASSUME NEW n \in Node, log[n][i] # NoEntry, x = Wire(log[n][i].value)
          PROVE  \E k \in msgs : AcceptOf(k, i) /\ k.value = x
      BY Zenon, <2>0, <2>2 DEF TraceInv, AcceptSentFor
    <2>3. ASSUME NEW a \in acks, a.instance = i, x = Wire(a.asked)
          PROVE  \E k \in msgs : AcceptOf(k, i) /\ k.value = x
      BY Zenon, <1>1, <2>0, <2>3 DEF TraceInv, AcceptSentFor
    <2> QED
      BY <1>1, <2>1, <2>2, <2>3
  <1> HIDE DEF Learned
  <1>2. ASSUME NEW i \in Instance, Sole(i), NEW v \in Learned(i), NEW w \in Learned(i)
        PROVE  v = w
    <2>1. PICK k1 \in msgs : AcceptOf(k1, i) /\ k1.value = v
      BY Zenon, <1>1, <1>2
    <2>2. PICK k2 \in msgs : AcceptOf(k2, i) /\ k2.value = w
      BY Zenon, <1>1, <1>2
    <2>3. k1 = k2
      BY Zenon, <1>2, <2>1, <2>2, SoleAccept
    <2> QED
      BY Zenon, <2>1, <2>2, <2>3
  <1>3. ASSUME NEW m \in msgs, m.type = "Prepare", m.instance # 0,
               \A k \in msgs : (k.type = "Prepare" /\ k.instance = m.instance) => k = m
        PROVE  \A v, w \in Learned(m.instance) : v = w
    <2>1. m.instance \in Instance
      BY <1>3, MessageKinds DEF PrepareMsg, Slot
    <2>2. Sole(m.instance)
      BY Zenon, <1>3 DEF Sole
    <2> QED
      BY Zenon, <1>2, <2>1, <2>2
  <1> QED
    BY Zenon, <1>3 DEF SoleProposalLearned, Learned
=============================================================================
