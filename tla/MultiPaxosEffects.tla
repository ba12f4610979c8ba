------------------------- MODULE MultiPaxosEffects --------------------------
(***************************************************************************)
(* What the steps of MultiPaxos do, entry by entry.  MultiPaxosSteps proves *)
(* that every step has one of these effects; the proofs of the invariants  *)
(* start from the effects and no longer look into the handlers.            *)
(***************************************************************************)
EXTENDS MultiPaxosInv

(* An entry and its copy by the storage. *)
Copy(e, f) ==
  /\ f.promised = e.promised
  /\ f.acceptedBallot = e.acceptedBallot
  /\ e.acceptedValue \in Value => f.acceptedValue = e.acceptedValue

(* Only the acceptor of node a changes; its disk is a copy of its memory. *)
Saved(a) ==
  /\ mem' \in [Node -> [Slot -> Entry]]
  /\ disk' \in [Node -> [Slot -> Entry]]
  /\ \A c \in Node \ {a} : mem'[c] = mem[c] /\ disk'[c] = disk[c]
  /\ \A j \in Slot : Copy(mem'[a][j], disk'[a][j])

(* Acceptor a promises b in slot i. *)
GrantPrepare(a, i, b) ==
  /\ b >= mem[a][i].promised
  /\ Saved(a)
  /\ mem'[a][i].promised = b
  /\ mem'[a][i].acceptedBallot = mem[a][i].acceptedBallot
  /\ mem'[a][i].acceptedValue = mem[a][i].acceptedValue
  /\ \A j \in Slot \ {i} : mem'[a][j] = mem[a][j]

(* Acceptor a votes for v in ballot b of instance i. *)
GrantAccept(a, i, b, v) ==
  /\ b >= mem[a][i].promised
  /\ Saved(a)
  /\ mem'[a][i].promised = b
  /\ mem'[a][i].acceptedBallot = b
  /\ mem'[a][i].acceptedValue = v
  /\ \A j \in Slot \ {i} : mem'[a][j] = mem[a][j]

(* Node a forgets instance i. *)
Forget(a, i) ==
  /\ mem' \in [Node -> [Slot -> Entry]]
  /\ \A c \in Node, j \in Slot : (c # a \/ j # i) => mem'[c][j] = mem[c][j]
  /\ disk' = disk

(* Node a loads its acceptor state again. *)
Reload(a) ==
  /\ mem' \in [Node -> [Slot -> Entry]]
  /\ \A c \in Node \ {a} : mem'[c] = mem[c]
  /\ \A j \in Slot : Copy(disk[a][j], mem'[a][j])
  /\ disk' = disk

PromiseOf(a, to, inc, i, b, v) ==
  [type |-> "Promise", from |-> a, to |-> to, inc |-> inc, instance |-> i, ballot |-> b,
   acceptedBallot |-> mem[a][i].acceptedBallot, acceptedValue |-> v]

AcceptedOf(a, to, inc, i, b) ==
  [type |-> "Accepted", from |-> a, to |-> to, inc |-> inc, instance |-> i, ballot |-> b]

RefusalOf(kind, a, to, inc, i, b) ==
  [type |-> kind, from |-> a, to |-> to, inc |-> inc, instance |-> i, ballot |-> b]

(* The proposal of node n in slot i becomes q; the others stay. *)
Becomes(n, i, q) ==
  /\ pending' = [pending EXCEPT ![n][i] = q]
  /\ pending'[n][i] = q
  /\ \A c \in Node, j \in Slot : (c # n \/ j # i) => pending'[c][j] = pending[c][j]

(* A proposal of the fields of p but for the program counter, the value and  *)
(* the tallies.                                                              *)
With(p, pc, v, promises, accepteds) ==
  [pc |-> pc, ballot |-> p.ballot, asked |-> p.asked, value |-> v,
   promises |-> promises, accepteds |-> accepteds]

StartPhase1Effect(n, i) ==
  LET p == pending[n][i]
      own == PromiseOf(n, n, incarnation[n], i, p.ballot, mem[n][i].acceptedValue)
  IN  /\ p.pc = "prepare"
      /\ UNCHANGED <<learnerVars, proposerVars, incarnation, votes, acks>>
      /\ \/ UNCHANGED <<mem, disk, msgs>> /\ Becomes(n, i, NoProposal)
         \/ /\ GrantPrepare(n, i, p.ballot)
            /\ Becomes(n, i, With(p, "promises", p.value, {own}, p.accepteds))
            /\ msgs' = msgs \cup {Prepare(n, incarnation[n], i, p.ballot)}

ReceivePrepareEffect(n, m) ==
  /\ m \in PrepareMsg /\ m \in msgs /\ n # m.from
  /\ ~Answered(n, m, {"Promise", "Reject"})
  /\ UNCHANGED <<learnerVars, proposerVars, pending, incarnation, votes, acks>>
  /\ \/ /\ UNCHANGED <<mem, disk>>
        /\ msgs' = msgs \cup {RefusalOf("Reject", n, m.from, m.inc, m.instance, m.ballot)}
     \/ /\ GrantPrepare(n, m.instance, m.ballot)
        /\ msgs' = msgs \cup {PromiseOf(n, m.from, m.inc, m.instance, m.ballot,
                                        Wire(mem[n][m.instance].acceptedValue))}

ReceiveAcceptEffect(n, m) ==
  /\ m \in AcceptMsg /\ m \in msgs /\ n # m.from
  /\ ~Answered(n, m, {"Accepted", "Nack"})
  /\ UNCHANGED <<learnerVars, proposerVars, pending, incarnation, acks>>
  /\ \/ /\ UNCHANGED <<mem, disk, votes>>
        /\ msgs' = msgs \cup {RefusalOf("Nack", n, m.from, m.inc, m.instance, m.ballot)}
     \/ /\ GrantAccept(n, m.instance, m.ballot, m.value)
        /\ votes' = votes \cup {Vote(n, m.instance, m.ballot, m.value)}
        /\ msgs' = msgs \cup {AcceptedOf(n, m.from, m.inc, m.instance, m.ballot)}

StartPhase2Effect(n, i) ==
  LET p == pending[n][i]
      own == AcceptedOf(n, n, incarnation[n], i, p.ballot)
  IN  /\ p.pc = "accept" /\ i \in Instance
      /\ UNCHANGED <<learnerVars, proposerVars, incarnation, acks>>
      /\ \/ UNCHANGED <<mem, disk, msgs, votes>> /\ Becomes(n, i, NoProposal)
         \/ /\ GrantAccept(n, i, p.ballot, p.value)
            /\ Becomes(n, i, With(p, "accepteds", p.value, p.promises, {own}))
            /\ votes' = votes \cup {Vote(n, i, p.ballot, p.value)}
            /\ msgs' = msgs \cup {Accept(n, incarnation[n], i, p.ballot, p.value)}

ReceivePromiseEffect(n, m) ==
  LET i == m.instance
      p == pending[n][i]
      ps == p.promises \cup {m}
  IN  /\ m \in PromiseMsg /\ m \in msgs /\ m.to = n
      /\ p.pc = "promises" /\ p.ballot = m.ballot /\ m \notin p.promises
      /\ UNCHANGED <<acceptorVars, learnerVars, currentRound, nextInstance, incarnation,
                     msgs, votes, acks>>
      /\ \/ /\ UNCHANGED <<isLeader, leaderBallot>>
            /\ Becomes(n, i, With(p, "promises", p.value, ps, p.accepteds))
         \/ /\ UNCHANGED <<isLeader, leaderBallot>>
            /\ Cardinality(ps) >= QuorumSize
            /\ i \in Instance
            /\ \E v \in HighestAccepted(ps) :
                 Becomes(n, i, With(p, "accept", IF v # Nil THEN v ELSE p.value, {}, p.accepteds))
         \/ /\ Cardinality(ps) >= QuorumSize
            /\ i = 0
            /\ isLeader' = [isLeader EXCEPT ![n] = TRUE]
            /\ leaderBallot' = [leaderBallot EXCEPT ![n] = m.ballot]
            /\ Becomes(n, i, NoProposal)

ReceiveAcceptedEffect(n, m) ==
  LET i == m.instance
      p == pending[n][i]
      as == p.accepteds \cup {m}
  IN  /\ m \in AcceptedMsg /\ m \in msgs /\ m.to = n
      /\ p.pc = "accepteds" /\ p.ballot = m.ballot /\ m \notin p.accepteds
      /\ UNCHANGED <<acceptorVars, learnerVars, proposerVars, incarnation, msgs, votes, acks>>
      /\ \/ Becomes(n, i, With(p, "accepteds", p.value, p.promises, as))
         \/ /\ Cardinality(as) >= QuorumSize
            /\ Becomes(n, i, With(p, "commit", p.value, p.promises, {}))

(* A call of the proposer that ends with an error. *)
AbandonEffect(n, i) ==
  /\ UNCHANGED <<acceptorVars, learnerVars, proposerVars, incarnation, msgs, votes, acks>>
  /\ Becomes(n, i, NoProposal)

(* Starting a proposal with the next round. *)
StartEffect(n, i, v) ==
  LET r == NextRound(currentRound[n])
  IN  /\ r \in 0 .. RoundSpan - 1
      /\ currentRound' = [currentRound EXCEPT ![n] = r]
      /\ Becomes(n, i, [pc |-> "prepare", ballot |-> MakeBallot(r, n), asked |-> v,
                        value |-> v, promises |-> {}, accepteds |-> {}])
      /\ UNCHANGED <<acceptorVars, learnerVars, isLeader, leaderBallot, incarnation, msgs,
                     votes, acks>>

ProposeEffect(n, v) ==
  /\ nextInstance[n] \in Instance
  /\ nextInstance' = [nextInstance EXCEPT ![n] = @ + 1]
  /\ StartEffect(n, nextInstance[n], v)

(* A commit, its own or a peer's, and a restart, with what they do to the     *)
(* acceptor and to the proposals.                                             *)
BroadcastCommitEffect(n, i, saved) ==
  BroadcastCommit(n, i, saved) /\ Forget(n, i) /\ Becomes(n, i, NoProposal)

ReceiveCommitEffect(n, m, saved) ==
  m \in CommitMsg /\ ReceiveCommit(n, m, saved) /\ Forget(n, m.instance)

RestartEffect(n) == Restart(n) /\ Reload(n)

(* BecomeLeader starts a proposal of no value in slot 0. *)
ElectEffect(n) == StartEffect(n, 0, Nil) /\ UNCHANGED nextInstance

(* Every step of MultiPaxos, by its effect. *)
StepEffect ==
  \/ UNCHANGED vars
  \/ \E n \in Node, v \in Bytes : ProposeEffect(n, v)
  \/ \E n \in Node : ElectEffect(n) \/ StepDown(n) \/ ReadCommitCh(n) \/ RestartEffect(n)
  \/ \E n \in Node, i \in Slot :
       StartPhase1Effect(n, i) \/ StartPhase2Effect(n, i) \/ AbandonEffect(n, i)
  \/ \E n \in Node, m \in msgs :
       \/ ReceivePrepareEffect(n, m) \/ ReceivePromiseEffect(n, m)
       \/ ReceiveAcceptEffect(n, m) \/ ReceiveAcceptedEffect(n, m)
  \/ \E n \in Node, i \in Instance, saved \in SaveOutcomes : BroadcastCommitEffect(n, i, saved)
  \/ \E n \in Node, m \in msgs, saved \in SaveOutcomes : ReceiveCommitEffect(n, m, saved)
-----------------------------------------------------------------------------
(* Every step of MultiPaxos is one of five things to the acceptors. *)
NoNewPromise == \A m \in PromiseMsg : IsPromise(m)' => IsPromise(m)

(* m promises ballot b and reports the vote that acceptor a holds. *)
Reports(m, a, j, b) ==
  /\ m.from = a /\ m.instance = j /\ m.ballot = b
  /\ m.acceptedBallot = mem[a][j].acceptedBallot
  /\ Wire(m.acceptedValue) = Wire(mem[a][j].acceptedValue)

Idle == mem' = mem /\ disk' = disk /\ votes' = votes /\ NoNewPromise

Promising(a, j, b) ==
  /\ GrantPrepare(a, j, b) /\ votes' = votes
  /\ \A m \in PromiseMsg : IsPromise(m)' => IsPromise(m) \/ Reports(m, a, j, b)

Voting(a, j, b, v) ==
  /\ GrantAccept(a, j, b, v) /\ votes' = votes \cup {Vote(a, j, b, v)} /\ NoNewPromise
  /\ \E k \in msgs' : /\ k.type = "Accept" /\ k.instance = j
                      /\ k.ballot = b /\ k.value = Wire(v)

Forgetting(a, j) ==
  /\ Forget(a, j) /\ votes' = votes /\ NoNewPromise
  /\ \E k \in msgs' : k.type = "Commit" /\ k.instance = j

Reloading(a) == Reload(a) /\ votes' = votes /\ NoNewPromise

AcceptorStep ==
  \/ Idle
  \/ \E a \in Node, j \in Slot, b \in Nat : Promising(a, j, b)
  \/ \E a \in Node, j \in Instance, b \in Nat, v \in Bytes : Voting(a, j, b, v)
  \/ \E a \in Node, j \in Instance : Forgetting(a, j)
  \/ \E a \in Node : Reloading(a)

(* The entry of one acceptor in one slot, before a Commit: what is promised   *)
(* never goes down, and neither does the ballot of the vote.                  *)
Steady(a, i) ==
  /\ mem'[a][i].promised >= mem[a][i].promised
  /\ mem'[a][i].promised = disk'[a][i].promised
  /\ mem'[a][i].acceptedBallot = disk'[a][i].acceptedBallot
  /\ mem'[a][i].acceptedBallot <= mem'[a][i].promised
  /\ mem'[a][i].acceptedBallot >= mem[a][i].acceptedBallot
=============================================================================
