-------------------------- MODULE MultiPaxosBasics --------------------------
(* Small facts that the proofs about MultiPaxos share. *)
EXTENDS MultiPaxosEffects, TLAPS

(* Node IDs have room for at least one value (types.go:19). *)
LEMMA Span == NodeIDSpan \in Nat /\ NodeIDSpan > 0
  BY SMT DEF NodeIDSpan

(* MakeBallot (types.go:19): a higher round gives a higher ballot, whatever  *)
(* the node IDs.                                                             *)
LEMMA HigherRound ==
  ASSUME NEW r \in Nat, NEW s \in Nat, r < s,
         NEW n \in 0 .. NodeIDSpan - 1, NEW k \in 0 .. NodeIDSpan - 1
  PROVE  MakeBallot(r, n) < MakeBallot(s, k)
  <1> DEFINE d == s - r - 1
  <1>1. d \in Nat /\ s = (r + 1) + d
    OBVIOUS
  <1>2. s * NodeIDSpan = r * NodeIDSpan + NodeIDSpan + d * NodeIDSpan
    BY <1>1, Span, SMT
  <1>3. r * NodeIDSpan \in Nat /\ d * NodeIDSpan \in Nat
    BY <1>1, Span, SMT
  <1> HIDE DEF d
  <1> QED
    BY <1>2, <1>3, Span, SMT DEF MakeBallot

(* Ballots order first by round, then by node ID, and a ballot names its     *)
(* round and its node, so two nodes never share one (types.go:19).           *)
THEOREM BallotOrder ==
  ASSUME NEW r \in Nat, NEW s \in Nat,
         NEW n \in 0 .. NodeIDSpan - 1, NEW k \in 0 .. NodeIDSpan - 1
  PROVE  /\ MakeBallot(r, n) < MakeBallot(s, k) <=> (r < s \/ (r = s /\ n < k))
         /\ MakeBallot(r, n) = MakeBallot(s, k) => (r = s /\ n = k)
  <1>1. /\ MakeBallot(r, n) \in Nat /\ MakeBallot(s, k) \in Nat
        /\ r = s => MakeBallot(s, k) = MakeBallot(r, n) + k - n
    BY Span, SMT DEF MakeBallot
  <1>2. CASE r < s
    BY <1>1, <1>2, HigherRound, SMT
  <1>3. CASE s < r
    BY <1>1, <1>3, HigherRound, SMT
  <1>4. CASE r = s
    BY <1>1, <1>4, Span, SMT
  <1> QED
    BY <1>2, <1>3, <1>4, SMT

(* The nodes and instances are numbers, and slot 0 is no instance. *)
LEMMA Constants ==
  /\ Node \subseteq Nat /\ Slot \subseteq Nat /\ Instance \subseteq Slot
  /\ 0 \in Slot /\ 0 \notin Instance
  /\ SaveOutcomes \subseteq BOOLEAN
  /\ \A n \in Node : n \in 1 .. NodeIDSpan - 1 /\ Clients[n] \subseteq Bytes
  /\ MayRestart \subseteq Node
  BY NodeAssumption, ConfigAssumption, Span, SMT DEF Slot

(* A slot holds a proposal. *)
LEMMA ProposalTyped ==
  ASSUME TypeOK, NEW n \in Node, NEW i \in Slot
  PROVE  pending[n][i] \in Proposal
  BY DEF TypeOK

(* Replacing one proposal. *)
LEMMA BecomesIntro ==
  ASSUME TypeOK, NEW n \in Node, NEW i \in Slot, NEW q,
         pending' = [pending EXCEPT ![n][i] = q]
  PROVE  Becomes(n, i, q)
  BY DEF Becomes, TypeOK

(* A message of a given type has the fields of that type. *)
LEMMA MessageKinds ==
  ASSUME TypeOK, NEW m \in msgs
  PROVE  /\ m.type = "Prepare" => m \in PrepareMsg
         /\ m.type = "Promise" => m \in PromiseMsg
         /\ m.type = "Reject" => m \in RejectMsg
         /\ m.type = "Accept" => m \in AcceptMsg
         /\ m.type = "Accepted" => m \in AcceptedMsg
         /\ m.type = "Nack" => m \in NackMsg
         /\ m.type = "Commit" => m \in CommitMsg
  BY DEF TypeOK, Message, PrepareMsg, PromiseMsg, RejectMsg, AcceptMsg, AcceptedMsg,
         NackMsg, CommitMsg

(* An acceptor's entries are typed. *)
LEMMA EntryTyped ==
  ASSUME TypeOK, NEW a \in Node, NEW i \in Slot
  PROVE  /\ mem[a][i].promised \in Nat /\ mem[a][i].acceptedBallot \in Nat
         /\ mem[a][i].acceptedValue \in Bytes
         /\ disk[a][i].promised \in Nat /\ disk[a][i].acceptedBallot \in Nat
         /\ disk[a][i].acceptedValue \in Bytes
  <1>1. mem[a][i] \in Entry /\ disk[a][i] \in Entry
    BY DEF TypeOK
  <1> QED
    BY <1>1 DEF Entry

(* So are the votes. *)
LEMMA VoteTyped ==
  ASSUME TypeOK, NEW u \in votes
  PROVE  u.node \in Node /\ u.instance \in Instance /\ u.ballot \in Nat
  BY DEF TypeOK

(* A ballot belongs to one node (types.go:17-21), and is never zero. *)
LEMMA OneOwner ==
  ASSUME NEW n1 \in Node, NEW n2 \in Node, NEW b, OwnBallot(b, n1), OwnBallot(b, n2)
  PROVE  n1 = n2
  <1>1. PICK r1 \in Nat : b = MakeBallot(r1, n1)
    BY Zenon DEF OwnBallot
  <1>2. PICK r2 \in Nat : b = MakeBallot(r2, n2)
    BY Zenon DEF OwnBallot
  <1>3. n1 \in 1 .. NodeIDSpan - 1 /\ n2 \in 1 .. NodeIDSpan - 1
    BY Zenon, Constants
  <1>4. n1 \in 0 .. NodeIDSpan - 1 /\ n2 \in 0 .. NodeIDSpan - 1
    BY <1>3, Span, SMT
  <1>5. \A r, s \in Nat : MakeBallot(r, n1) = MakeBallot(s, n2) => n1 = n2
    BY <1>4, BallotOrder
  <1> QED
    BY Zenon, <1>1, <1>2, <1>5

(* Likewise. *)
LEMMA OwnPositive ==
  ASSUME NEW n \in Node, NEW b, OwnBallot(b, n)
  PROVE  b \in Nat /\ b > 0
  <1>1. PICK r \in Nat : b = MakeBallot(r, n)
    BY DEF OwnBallot
  <1>2. n \in Nat /\ n > 0
    BY SMT, Constants
  <1> QED
    BY <1>1, <1>2, Span, SMT DEF MakeBallot

(* A ballot tells its node (types.go:17-29). *)
LEMMA BallotNode ==
  ASSUME NEW n \in Node, NEW b, OwnBallot(b, n)
  PROVE  NodeID(b) = n
  <1>1. PICK r \in Nat : b = r * NodeIDSpan + n
    BY Zenon DEF OwnBallot, MakeBallot
  <1>2. n \in Nat /\ n < NodeIDSpan
    BY Constants, Span, SMT
  <1>3. (r * NodeIDSpan + n) % NodeIDSpan = n
    BY <1>2, Span, SMT
  <1> QED
    BY Zenon, <1>1, <1>3 DEF NodeID

(* What NewNode's quorum, half of the nodes and one, amounts to (node.go:73-75). *)
LEMMA Majorities ==
  ASSUME Cardinality(Node) \in Nat
  PROVE  /\ \A c, d \in Nat : c >= QuorumSize /\ d >= QuorumSize => c + d > Cardinality(Node)
         /\ \A c, d \in Nat : c >= QuorumSize /\ c <= d => d >= QuorumSize
         /\ Cardinality(Node) <= 3 => 2 >= QuorumSize
         /\ Cardinality(Node) >= QuorumSize
  BY SMT, NodeAssumption DEF QuorumSize

(* Every promise is at least the one a node starts with. *)
LEMMA NoneBelowZero == \A b \in Nat : b >= 0
  BY SMT

(* The order of what an acceptor accepted over two steps. *)
LEMMA AtMostThrough ==
  ASSUME NEW a \in Nat, NEW b \in Nat, NEW c \in Nat, a <= b, c >= b
  PROVE  a <= c
  BY SMT

(* A save, whatever caused it, and a restart keep memory and disk together;   *)
(* nothing lowers a promise of an instance without a Commit.                  *)
LEMMA StepSteady ==
  ASSUME TypeOK, AcceptorStep, NEW i \in Instance, ~CommitIssued(i)', AcceptorInv(i),
         NEW a \in Node
  PROVE  Steady(a, i)
  <1>0. i \in Slot
    BY Constants
  <1>1. /\ mem[a][i].promised \in Nat /\ mem[a][i].acceptedBallot \in Nat
        /\ mem[a][i].promised = disk[a][i].promised
        /\ mem[a][i].acceptedBallot = disk[a][i].acceptedBallot
        /\ mem[a][i].acceptedBallot <= mem[a][i].promised
    BY Zenon, <1>0, EntryTyped DEF AcceptorInv
  <1>2. ASSUME mem'[a][i] = mem[a][i], disk'[a][i] = disk[a][i] PROVE Steady(a, i)
    BY <1>1, <1>2 DEF Steady
  <1>3. CASE Idle
    BY <1>2, <1>3 DEF Idle
  <1>4. ASSUME NEW c \in Node, Saved(c),
               mem'[c][i].promised \in Nat, mem'[c][i].promised >= mem[c][i].promised,
               \/ mem'[c][i].acceptedBallot = mem[c][i].acceptedBallot
               \/ mem'[c][i].acceptedBallot = mem'[c][i].promised
        PROVE  Steady(a, i)
    <2>1. CASE a # c
      BY <1>2, <1>4, <2>1 DEF Saved
    <2>2. CASE a = c
      <3>1. /\ mem'[a][i].promised = disk'[a][i].promised
            /\ mem'[a][i].acceptedBallot = disk'[a][i].acceptedBallot
        BY <1>0, <1>4, <2>2 DEF Saved, Copy
      <3> QED
        BY SMTT(30), <1>1, <1>4, <2>2, <3>1 DEF Steady
    <2> QED
      BY <2>1, <2>2
  <1>5. ASSUME NEW c \in Node, NEW j \in Slot, NEW b \in Nat, Promising(c, j, b)
        PROVE  Steady(a, i)
    <2>1. GrantPrepare(c, j, b)
      BY <1>5 DEF Promising
    <2>2. CASE i = j
      BY <1>4, <2>1, <2>2 DEF GrantPrepare
    <2>3. CASE i # j
      <3>1. mem'[c][i] = mem[c][i] /\ Saved(c)
        BY <1>0, <2>1, <2>3 DEF GrantPrepare
      <3>2. mem[c][i].promised \in Nat
        BY <1>0, EntryTyped
      <3> QED
        BY <1>4, <3>1, <3>2
    <2> QED
      BY <2>2, <2>3
  <1>6. ASSUME NEW c \in Node, NEW j \in Instance, NEW b \in Nat, NEW v \in Bytes, Voting(c, j, b, v)
        PROVE  Steady(a, i)
    <2>1. GrantAccept(c, j, b, v)
      BY <1>6 DEF Voting
    <2>2. CASE i = j
      BY <1>4, <2>1, <2>2 DEF GrantAccept
    <2>3. CASE i # j
      <3>1. mem'[c][i] = mem[c][i] /\ Saved(c)
        BY <1>0, <2>1, <2>3 DEF GrantAccept
      <3>2. mem[c][i].promised \in Nat
        BY <1>0, EntryTyped
      <3> QED
        BY <1>4, <3>1, <3>2
    <2> QED
      BY <2>2, <2>3
  <1>7. ASSUME NEW c \in Node, NEW j \in Instance, Forgetting(c, j)
        PROVE  Steady(a, i)
    <2>1. i # j
      BY <1>7 DEF Forgetting, CommitIssued
    <2> QED
      BY <1>0, <1>2, <1>7, <2>1 DEF Forgetting, Forget
  <1>8. ASSUME NEW c \in Node, Reloading(c)
        PROVE  Steady(a, i)
    <2>1. CASE a # c
      BY <1>2, <1>8, <2>1 DEF Reloading, Reload
    <2>2. CASE a = c
      BY SMTT(30), <1>0, <1>1, <1>8, <2>2 DEF Reloading, Reload, Copy, Steady
    <2> QED
      BY <2>1, <2>2
  <1> QED
    BY <1>3, <1>5, <1>6, <1>7, <1>8 DEF AcceptorStep

(* A vote is new only when an acceptor has just granted it. *)
LEMMA NewVote ==
  ASSUME AcceptorStep, NEW u \in votes', u \notin votes
  PROVE  \E a \in Node, j \in Instance, b \in Nat, v \in Bytes :
           Voting(a, j, b, v) /\ u = Vote(a, j, b, v)
  BY DEF AcceptorStep, Idle, Promising, Voting, Forgetting, Reloading

(* A promise is new only when an acceptor has just given it. *)
LEMMA NewPromise ==
  ASSUME AcceptorStep, NEW m \in PromiseMsg, IsPromise(m)', ~IsPromise(m)
  PROVE  \E a \in Node, j \in Slot, b \in Nat : Promising(a, j, b) /\ Reports(m, a, j, b)
  BY DEF AcceptorStep, Idle, Promising, Voting, Forgetting, Reloading, NoNewPromise

(* A new vote is not below the promise that its acceptor had given. *)
LEMMA NewVoteAbove ==
  ASSUME TypeOK, AcceptorStep, NEW u \in votes', u \notin votes
  PROVE  /\ u.node \in Node /\ u.instance \in Instance /\ u.ballot \in Nat
         /\ u.ballot >= mem[u.node][u.instance].promised
         /\ mem'[u.node][u.instance].acceptedBallot = u.ballot
         /\ mem'[u.node][u.instance].promised = u.ballot
  <1>1. PICK a \in Node, j \in Instance, b \in Nat, v \in Bytes :
          Voting(a, j, b, v) /\ u = Vote(a, j, b, v)
    BY NewVote
  <1>2. u.node = a /\ u.instance = j /\ u.ballot = b
    BY <1>1 DEF Vote
  <1> QED
    BY Zenon, <1>1, <1>2 DEF Voting, GrantAccept
-----------------------------------------------------------------------------
Senders(T) == {m.from : m \in T}

(* Majorities meet, a set that includes one is one, a tally that counts no    *)
(* node twice is one, and so are two nodes of three.  MultiPaxosAgreement     *)
(* proves these facts of cardinality.                                         *)
QuorumFacts ==
  /\ \A Q1, Q2 \in Quorum : \E a \in Q1 : a \in Q2 /\ a \in Node
  /\ \A Q \in Quorum, S \in SUBSET Node : Q \subseteq S => S \in Quorum
  /\ \A T : (/\ \A m \in T : m.from \in Node
            /\ Cardinality(T) >= QuorumSize
            /\ \A m1, m2 \in T : m1.from = m2.from => m1 = m2) => Senders(T) \in Quorum
  /\ Cardinality(Node) <= 3 => \A a, c \in Node : a # c => {a, c} \in Quorum

(* Two majorities (NewNode's quorum) share a node. *)
LEMMA QuorumsMeet ==
  ASSUME QuorumFacts, NEW Q1 \in Quorum, NEW Q2 \in Quorum
  PROVE  \E a \in Q1 : a \in Q2 /\ a \in Node
  BY Zenon DEF QuorumFacts

(* A set of nodes that includes a quorum. *)
LEMMA QuorumGrows ==
  ASSUME QuorumFacts, NEW Q \in Quorum, NEW S \in SUBSET Node, Q \subseteq S
  PROVE  S \in Quorum
  BY Zenon DEF QuorumFacts

(* The code counts messages (proposer.go:225, 298); the count is one of nodes *)
(* when no node is counted twice.                                             *)
LEMMA TallyIsQuorum ==
  ASSUME QuorumFacts, NEW T, \A m \in T : m.from \in Node, Cardinality(T) >= QuorumSize,
         \A m1, m2 \in T : m1.from = m2.from => m1 = m2
  PROVE  Senders(T) \in Quorum
  BY Zenon DEF QuorumFacts
-----------------------------------------------------------------------------
(* Only broadcastCommit issues a Commit. *)
LEMMA NewCommit ==
  ASSUME StepEffect, NEW m \in msgs', m \notin msgs, m.type = "Commit"
  PROVE  \E n \in Node, i \in Instance :
           /\ pending[n][i].pc = "commit"
           /\ m = Commit(n, i, pending[n][i].ballot, pending[n][i].value)
  <1>1. CASE UNCHANGED vars
    BY Zenon, <1>1 DEF vars
  <1>2. ASSUME NEW n \in Node
        PROVE  /\ \A v : ~ProposeEffect(n, v)
               /\ ~ElectEffect(n) /\ ~StepDown(n) /\ ~ReadCommitCh(n) /\ ~RestartEffect(n)
               /\ \A k : ~ReceivePromiseEffect(n, k) /\ ~ReceiveAcceptedEffect(n, k)
               /\ \A j : ~AbandonEffect(n, j)
               /\ \A k, saved : ~ReceiveCommitEffect(n, k, saved)
    BY Zenon DEF ProposeEffect, StartEffect, ElectEffect, StepDown, ReadCommitCh, RestartEffect,
       Restart, ReceivePromiseEffect, ReceiveAcceptedEffect, AbandonEffect, ReceiveCommitEffect,
       ReceiveCommit
  <1>3. ASSUME NEW n \in Node, NEW j \in Slot, StartPhase1Effect(n, j)
        PROVE  FALSE
    <2>k. PICK k : k = Prepare(n, incarnation[n], j, pending[n][j].ballot)
      OBVIOUS
    <2>1. m = k
      BY Zenon, <1>3, <2>k DEF StartPhase1Effect
    <2>2. k.type = "Prepare"
      BY <2>k DEF Prepare
    <2> QED
      BY <2>1, <2>2
  <1>4. ASSUME NEW n \in Node, NEW j \in Slot, StartPhase2Effect(n, j)
        PROVE  FALSE
    <2>k. PICK k : k = Accept(n, incarnation[n], j, pending[n][j].ballot, pending[n][j].value)
      OBVIOUS
    <2>1. m = k
      BY Zenon, <1>4, <2>k DEF StartPhase2Effect
    <2>2. k.type = "Accept"
      BY <2>k DEF Accept
    <2> QED
      BY <2>1, <2>2
  <1>5. ASSUME NEW n \in Node, NEW k \in msgs, ReceivePrepareEffect(n, k)
        PROVE  FALSE
    BY <1>5 DEF ReceivePrepareEffect, RefusalOf, PromiseOf
  <1>6. ASSUME NEW n \in Node, NEW k \in msgs, ReceiveAcceptEffect(n, k)
        PROVE  FALSE
    BY <1>6 DEF ReceiveAcceptEffect, RefusalOf, AcceptedOf
  <1>7. ASSUME NEW n \in Node, NEW i \in Instance, NEW saved, BroadcastCommitEffect(n, i, saved)
        PROVE  /\ pending[n][i].pc = "commit"
               /\ m = Commit(n, i, pending[n][i].ballot, pending[n][i].value)
    BY Zenon, <1>7 DEF BroadcastCommitEffect, BroadcastCommit
  <1> QED
    BY ZenonT(40), <1>1, <1>2, <1>3, <1>4, <1>5, <1>6, <1>7 DEF StepEffect

(* Only runPhase2 sends an Accept. *)
LEMMA NewAccept ==
  ASSUME StepEffect, NEW m \in msgs', m \notin msgs, m.type = "Accept"
  PROVE  \E n \in Node, i \in Instance :
           /\ pending[n][i].pc = "accept"
           /\ StartPhase2Effect(n, i)
           /\ votes' = votes \cup {Vote(n, i, pending[n][i].ballot, pending[n][i].value)}
           /\ pending'[n][i].pc = "accepteds"
           /\ m = Accept(n, incarnation[n], i, pending[n][i].ballot, pending[n][i].value)
  <1>1. CASE UNCHANGED vars
    BY Zenon, <1>1 DEF vars
  <1>2. ASSUME NEW n \in Node
        PROVE  /\ \A v : ~ProposeEffect(n, v)
               /\ ~ElectEffect(n) /\ ~StepDown(n) /\ ~ReadCommitCh(n) /\ ~RestartEffect(n)
               /\ \A k : ~ReceivePromiseEffect(n, k) /\ ~ReceiveAcceptedEffect(n, k)
               /\ \A j : ~AbandonEffect(n, j)
               /\ \A k, saved : ~ReceiveCommitEffect(n, k, saved)
    BY Zenon DEF ProposeEffect, StartEffect, ElectEffect, StepDown, ReadCommitCh, RestartEffect,
       Restart, ReceivePromiseEffect, ReceiveAcceptedEffect, AbandonEffect, ReceiveCommitEffect,
       ReceiveCommit
  <1>3. ASSUME NEW n \in Node, NEW j \in Slot, StartPhase1Effect(n, j)
        PROVE  FALSE
    <2>k. PICK k : k = Prepare(n, incarnation[n], j, pending[n][j].ballot)
      OBVIOUS
    <2>1. m = k
      BY Zenon, <1>3, <2>k DEF StartPhase1Effect
    <2>2. k.type = "Prepare"
      BY <2>k DEF Prepare
    <2> QED
      BY <2>1, <2>2
  <1>4. ASSUME NEW n \in Node, NEW i \in Slot, StartPhase2Effect(n, i)
        PROVE  /\ pending[n][i].pc = "accept" /\ i \in Instance
               /\ votes' = votes \cup {Vote(n, i, pending[n][i].ballot, pending[n][i].value)}
               /\ pending'[n][i].pc = "accepteds"
               /\ m = Accept(n, incarnation[n], i, pending[n][i].ballot, pending[n][i].value)
    <2>p. PICK p : p = pending[n][i]
      OBVIOUS
    <2>o. PICK own : own = AcceptedOf(n, n, incarnation[n], i, p.ballot)
      OBVIOUS
    <2>q. PICK q : q = With(p, "accepteds", p.value, p.promises, {own})
      OBVIOUS
    <2>1. /\ p.pc = "accept" /\ i \in Instance
          /\ votes' = votes \cup {Vote(n, i, p.ballot, p.value)}
          /\ Becomes(n, i, q)
          /\ m = Accept(n, incarnation[n], i, p.ballot, p.value)
      BY Zenon, <1>4, <2>p, <2>o, <2>q DEF StartPhase2Effect
    <2>2. q.pc = "accepteds" /\ pending'[n][i] = q
      BY <2>q, <2>1 DEF With, Becomes
    <2> QED
      BY Zenon, <2>p, <2>1, <2>2
  <1>5. ASSUME NEW n \in Node, NEW k \in msgs, ReceivePrepareEffect(n, k)
        PROVE  FALSE
    BY <1>5 DEF ReceivePrepareEffect, RefusalOf, PromiseOf
  <1>6. ASSUME NEW n \in Node, NEW k \in msgs, ReceiveAcceptEffect(n, k)
        PROVE  FALSE
    BY <1>6 DEF ReceiveAcceptEffect, RefusalOf, AcceptedOf
  <1>7. ASSUME NEW n \in Node, NEW i \in Instance, NEW saved, BroadcastCommitEffect(n, i, saved)
        PROVE  FALSE
    <2>k. PICK k : k = Commit(n, i, pending[n][i].ballot, pending[n][i].value)
      OBVIOUS
    <2>1. m = k
      BY Zenon, <1>7, <2>k DEF BroadcastCommitEffect, BroadcastCommit
    <2>2. k.type = "Commit"
      BY <2>k DEF Commit
    <2> QED
      BY <2>1, <2>2
  <1> QED
    BY ZenonT(40), <1>1, <1>2, <1>3, <1>4, <1>5, <1>6, <1>7 DEF StepEffect

(* What becomes of a proposal in a step. *)
LEMMA ProposalChange ==
  ASSUME TypeOK, StepEffect, NEW n \in Node, NEW i \in Slot
  PROVE  \/ pending'[n][i] = pending[n][i]
         \/ pending'[n][i].pc = "none"
         \/ pending'[n][i].pc = "prepare" /\ pending'[n][i].value = pending'[n][i].asked
         \/ StartPhase1Effect(n, i)
         \/ StartPhase2Effect(n, i)
         \/ \E m \in msgs : /\ m.instance = i
                            /\ ReceivePromiseEffect(n, m) \/ ReceiveAcceptedEffect(n, m)
  <1> DEFINE Goal == \/ pending'[n][i] = pending[n][i]
                     \/ pending'[n][i].pc = "none"
                     \/ pending'[n][i].pc = "prepare" /\ pending'[n][i].value = pending'[n][i].asked
                     \/ StartPhase1Effect(n, i)
                     \/ StartPhase2Effect(n, i)
                     \/ \E m \in msgs : /\ m.instance = i
                                        /\ ReceivePromiseEffect(n, m) \/ ReceiveAcceptedEffect(n, m)
  <1>0. NoProposal.pc = "none" /\ 0 \in Slot /\ Instance \subseteq Slot
    BY Constants DEF NoProposal
  <1>1. ASSUME NEW c \in Node, NEW j \in Slot, NEW q, Becomes(c, j, q)
        PROVE  pending'[n][i] = pending[n][i] \/ (c = n /\ j = i /\ pending'[n][i] = q)
    BY <1>1 DEF Becomes
  <1>2. ASSUME NEW c \in Node, NEW j \in Slot, NEW v, StartEffect(c, j, v)
        PROVE  Goal
    <2>q. PICK q : q = [pc |-> "prepare", ballot |-> MakeBallot(NextRound(currentRound[c]), c),
                        asked |-> v, value |-> v, promises |-> {}, accepteds |-> {}]
      BY Zenon
    <2>1. Becomes(c, j, q)
      BY Zenon, <1>2, <2>q DEF StartEffect
    <2>2. q.pc = "prepare" /\ q.value = q.asked
      BY <2>q
    <2> QED
      BY Zenon, <1>1, <2>1, <2>2
  <1>3. ASSUME NEW c \in Node, NEW j \in Slot, Becomes(c, j, NoProposal)
        PROVE  Goal
    BY Zenon, <1>0, <1>1, <1>3
  <1>4. ASSUME NEW c \in Node, NEW j \in Slot, StartPhase1Effect(c, j)
        PROVE  Goal
    <2>1. PICK q : Becomes(c, j, q)
      BY Zenon, <1>4 DEF StartPhase1Effect
    <2> QED
      BY Zenon, <1>1, <1>4, <2>1
  <1>5. ASSUME NEW c \in Node, NEW j \in Slot, StartPhase2Effect(c, j)
        PROVE  Goal
    <2>1. PICK q : Becomes(c, j, q)
      BY Zenon, <1>5 DEF StartPhase2Effect
    <2> QED
      BY Zenon, <1>1, <1>5, <2>1
  <1>6. ASSUME NEW c \in Node, NEW m \in msgs, ReceivePromiseEffect(c, m)
        PROVE  Goal
    <2>1. PICK q : Becomes(c, m.instance, q)
      BY Zenon, <1>6 DEF ReceivePromiseEffect
    <2>2. m.instance \in Slot
      BY <1>6 DEF ReceivePromiseEffect, PromiseMsg
    <2> QED
      BY Zenon, <1>1, <1>6, <2>1, <2>2
  <1>7. ASSUME NEW c \in Node, NEW m \in msgs, ReceiveAcceptedEffect(c, m)
        PROVE  Goal
    <2>1. PICK q : Becomes(c, m.instance, q)
      BY Zenon, <1>7 DEF ReceiveAcceptedEffect
    <2>2. m.instance \in Slot
      BY <1>0, <1>7 DEF ReceiveAcceptedEffect, AcceptedMsg
    <2> QED
      BY Zenon, <1>1, <1>7, <2>1, <2>2
  <1>8. ASSUME NEW c \in Node, RestartEffect(c)
        PROVE  Goal
    <2>1. pending' = [pending EXCEPT ![c] = [j \in Slot |-> NoProposal]]
      BY Zenon, <1>8 DEF RestartEffect, Restart
    <2>2. pending'[n][i] = NoProposal \/ pending'[n][i] = pending[n][i]
      BY <2>1 DEF TypeOK
    <2> QED
      BY Zenon, <1>0, <2>2
  <1>9. ASSUME pending' = pending
        PROVE  Goal
    BY <1>9
  <1>10. ASSUME NEW c \in Node,
                \/ StepDown(c) \/ ReadCommitCh(c)
                \/ \E m : ReceivePrepareEffect(c, m) \/ ReceiveAcceptEffect(c, m)
                \/ \E m, saved : ReceiveCommitEffect(c, m, saved)
         PROVE  pending' = pending
    BY ZenonT(30), <1>10 DEF StepDown, ReadCommitCh, ReceivePrepareEffect, ReceiveAcceptEffect,
           ReceiveCommitEffect, ReceiveCommit
  <1>11. ASSUME NEW c \in Node,
                \/ \E v : ProposeEffect(c, v)
                \/ ElectEffect(c)
         PROVE  Goal
    BY Zenon, <1>0, <1>2, <1>11 DEF ProposeEffect, ElectEffect
  <1>12. ASSUME NEW c \in Node,
                \/ \E j \in Slot : AbandonEffect(c, j)
                \/ \E j \in Instance : \E saved : BroadcastCommitEffect(c, j, saved)
         PROVE  Goal
    BY Zenon, <1>0, <1>3, <1>12 DEF AbandonEffect, BroadcastCommitEffect
  <1>13. UNCHANGED vars => pending' = pending
    BY Zenon DEF vars
  <1> HIDE DEF Goal
  <1>14. Goal
    BY ZenonT(30), <1>4, <1>5, <1>6, <1>7, <1>8, <1>9, <1>10, <1>11, <1>12, <1>13 DEF StepEffect
  <1> QED
    BY Zenon, <1>14 DEF Goal
=============================================================================
