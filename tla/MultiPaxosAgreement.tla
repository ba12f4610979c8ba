------------------------ MODULE MultiPaxosAgreement -------------------------
(***************************************************************************)
(* The theorems about clusters of any size: the counting of quorums, the   *)
(* whole inductive invariant from the parts that MultiPaxosSteps,          *)
(* MultiPaxosPromises and MultiPaxosVotes have proved of the effects of a  *)
(* step, and what follows from it for every behaviour, elections included. *)
(***************************************************************************)
EXTENDS Election, MultiPaxosSteps, MultiPaxosPromises, MultiPaxosVotes,
        FiniteSetTheorems

(* A set of nodes is finite and its size a number. *)
LEMMA NodesCount ==
  ASSUME NEW S \in SUBSET Node
  PROVE  IsFiniteSet(S) /\ Cardinality(S) \in Nat /\ IsFiniteSet(Node) /\ Cardinality(Node) \in Nat
  <1>1. IsFiniteSet(Node)
    BY Zenon, NodeAssumption
  <1>2. IsFiniteSet(S)
    BY Zenon, <1>1, FS_Subset
  <1>3. Cardinality(S) \in Nat
    BY Zenon, <1>2, FS_CardinalityType
  <1>4. Cardinality(Node) \in Nat
    BY Zenon, <1>1, FS_CardinalityType
  <1> QED
    BY Zenon, <1>1, <1>2, <1>3, <1>4

(* Two majorities (NewNode's quorum) share a node. *)
LEMMA MajoritiesMeet ==
  ASSUME NEW Q1 \in Quorum, NEW Q2 \in Quorum
  PROVE  \E a \in Q1 : a \in Q2 /\ a \in Node
  <1>1. /\ Q1 \in SUBSET Node /\ Cardinality(Q1) >= QuorumSize
        /\ Q2 \in SUBSET Node /\ Cardinality(Q2) >= QuorumSize
    BY Zenon DEF Quorum
  <1>2. Cardinality(Q1) \in Nat /\ IsFiniteSet(Node) /\ Cardinality(Node) \in Nat
    BY Zenon, <1>1, NodesCount
  <1>3. Cardinality(Q2) \in Nat
    BY Zenon, <1>1, NodesCount
  <1>4. Cardinality(Q1) + Cardinality(Q2) > Cardinality(Node)
    BY Zenon, <1>1, <1>2, <1>3, Majorities
  <1>5. Q1 \cap Q2 # {}
    BY ZenonT(30), <1>1, <1>2, <1>4, FS_MajoritiesIntersect
  <1> QED
    BY ZenonT(30), <1>1, <1>5

(* A set of nodes that includes a quorum. *)
LEMMA MajorityGrows ==
  ASSUME NEW Q \in Quorum, NEW S \in SUBSET Node, Q \subseteq S
  PROVE  S \in Quorum
  <1>1. Q \in SUBSET Node /\ Cardinality(Q) >= QuorumSize
    BY ZenonT(30) DEF Quorum
  <1>2. Cardinality(Q) \in Nat /\ Cardinality(Node) \in Nat
    BY Zenon, <1>1, NodesCount
  <1>3. Cardinality(S) \in Nat /\ IsFiniteSet(S)
    BY Zenon, NodesCount
  <1>4. Cardinality(Q) <= Cardinality(S)
    BY ZenonT(30), <1>3, FS_Subset
  <1>5. Cardinality(S) >= QuorumSize
    BY Zenon, <1>1, <1>2, <1>3, <1>4, Majorities
  <1> QED
    BY Zenon, <1>5 DEF Quorum

(* The code counts messages (proposer.go:225, 298); the count is one of nodes *)
(* when no node is counted twice.                                             *)
LEMMA TallyCounts ==
  ASSUME NEW T, \A m \in T : m.from \in Node, Cardinality(T) >= QuorumSize,
         \A m1, m2 \in T : m1.from = m2.from => m1 = m2
  PROVE  Senders(T) \in Quorum
  <1>f. PICK f : f = [m \in T |-> m.from]
    BY Zenon
  <1>1. Senders(T) \in SUBSET Node
    BY Zenon DEF Senders
  <1>2. /\ IsFiniteSet(Senders(T)) /\ Cardinality(Senders(T)) \in Nat
        /\ Cardinality(Node) \in Nat
    BY Zenon, <1>1, NodesCount
  <1>3. f \in [T -> Senders(T)] /\ \A m1, m2 \in T : f[m1] = f[m2] => m1 = m2
    BY Zenon, <1>f DEF Senders
  <1>4. f \in Injection(T, Senders(T))
    BY Zenon, <1>3 DEF Injection, IsInjective
  <1>5. IsFiniteSet(T) /\ Cardinality(T) <= Cardinality(Senders(T))
    BY ZenonT(30), <1>2, <1>4, FS_Injection
  <1>6. Cardinality(T) \in Nat
    BY Zenon, <1>5, FS_CardinalityType
  <1>7. Cardinality(Senders(T)) >= QuorumSize
    BY Zenon, <1>2, <1>5, <1>6, Majorities
  <1> QED
    BY ZenonT(30), <1>1, <1>7 DEF Quorum

(* Two nodes of three are a majority. *)
LEMMA TwoOfThree ==
  ASSUME Cardinality(Node) <= 3, NEW a \in Node, NEW c \in Node, a # c
  PROVE  {a, c} \in Quorum
  <1>1. {a, c} \in SUBSET Node
    BY Zenon
  <1>2. Cardinality({a, c}) \in Nat /\ Cardinality(Node) \in Nat
    BY Zenon, <1>1, NodesCount
  <1>3. Cardinality({a}) = 1 /\ IsFiniteSet({a})
    BY Zenon, FS_Singleton
  <1>4. Cardinality({a} \cup {c}) = Cardinality({a}) + 1
    BY ZenonT(30), <1>3, FS_AddElement
  <1>5. {a, c} = {a} \cup {c}
    BY Zenon
  <1>6. Cardinality({a, c}) = 2
    BY <1>3, <1>4, <1>5
  <1>7. Cardinality({a, c}) >= QuorumSize
    BY Zenon, <1>2, <1>6, Majorities
  <1> QED
    BY ZenonT(30), <1>1, <1>7 DEF Quorum

(* The facts that MultiPaxosPromises and MultiPaxosVotes start from. *)
LEMMA QuorumsCount == QuorumFacts
  BY Zenon, MajoritiesMeet, MajorityGrows, TallyCounts, TwoOfThree DEF QuorumFacts
-----------------------------------------------------------------------------
(* A fresh cluster satisfies the whole invariant. *)
LEMMA InitIInv == Init => IInv
  <1> SUFFICES ASSUME Init PROVE IInv
    BY Zenon
  <1>1. TypeOK
    BY Zenon, InitTypeOK
  <1>2. RequestInv /\ ReplyInv /\ ProposalInv
    BY Zenon, InitBooks
  <1>3. LearnerInv
    BY Zenon, InitLearnerInv
  <1>4. PromiseInv
    BY Zenon, InitPromiseInv
  <1>5. \A i \in Instance : ValueInv(i)
    BY Zenon, InitValueInv
  <1>6. LeaderInv
    BY Zenon, InitLeaderInv
  <1>7. \A i \in Instance : BallotInv(i) /\ TraceInv(i)
    BY Zenon, InitBallotInv, InitTraceInv
  <1> QED
    BY Zenon, <1>1, <1>2, <1>3, <1>4, <1>5, <1>6, <1>7 DEF IInv

(* A step of the cluster has one of the effects, and keeps the types. *)
LEMMA StepShape ==
  ASSUME IInv, [Next]_vars
  PROVE  StepEffect /\ TypeOK' /\ BookInv
  <1>1. TypeOK /\ BookInv
    BY Zenon DEF IInv, BookInv
  <1>2. StepEffect
    BY Zenon, <1>1, StepDoes
  <1>3. TypeOK'
    BY Zenon, <1>1, <1>2, EffectTypeOK
  <1> QED
    BY Zenon, <1>1, <1>2, <1>3

(* Every step keeps the whole invariant. *)
LEMMA StepIInv ==
  ASSUME IInv, [Next]_vars
  PROVE  IInv'
  <1>1. StepEffect /\ TypeOK' /\ BookInv
    BY Zenon, StepShape
  <1>2. /\ TypeOK /\ RequestInv /\ ReplyInv /\ ProposalInv /\ LearnerInv /\ PromiseInv
        /\ LeaderInv /\ QuorumFacts
    BY Zenon, QuorumsCount DEF IInv
  <1>3. BookInv'
    BY Zenon, <1>1, StepBookInv
  <1>4. LearnerInv'
    BY Zenon, <1>1, <1>2, StepLearnerInv
  <1>5. PromiseInv'
    BY Zenon, <1>1, <1>2, StepPromiseInv
  <1>6. AcceptorStep
    BY Zenon, <1>1, <1>2, StepKinds
  <1>7. msgs \subseteq msgs'
    BY Zenon, <1>1, MessagesStay
  <1>8. ASSUME NEW i \in Instance, Undisturbed(i)' PROVE ValueInv(i)'
    BY Zenon, <1>1, <1>2, <1>6, <1>7, <1>8, StepValueInv
  <1>9. LeaderInv'
    BY Zenon, <1>1, <1>2, StepLeaderInv
  <1>10. ASSUME NEW i \in Instance, ~CommitIssued(i)', NonEmpty(i)' PROVE BallotInv(i)'
    BY Zenon, <1>1, <1>6, <1>7, <1>10, StepBallots
  <1>11. ASSUME NEW i \in Instance PROVE TraceInv(i)'
    <2>1. TraceInv(i)
      BY Zenon DEF IInv
    <2> QED
      BY Zenon, <1>1, <1>2, <2>1, StepTraceInv
  <1> QED
    BY Zenon, <1>3, <1>4, <1>5, <1>8, <1>9, <1>10, <1>11 DEF IInv, BookInv

(* So the whole invariant holds in every state of every behaviour. *)
LEMMA InvariantHolds == Spec => []IInv
  <1>1. IInv /\ [Next]_vars => IInv'
    BY Zenon, StepIInv
  <1> QED
    BY <1>1, InitIInv, PTL DEF Spec
-----------------------------------------------------------------------------
(* In a cluster of any size at most one value of an instance is chosen before *)
(* its first Commit, whatever proposers compete and whatever acceptors crash  *)
(* or fail to save, provided that no client value is empty and no node        *)
(* proposes for the instance a second time (docs/ALGORITHM.md:90).            *)
THEOREM AtMostOneChosen == Spec => []AgreementUntilCommit
  <1>1. IInv => AgreementUntilCommit
    BY Zenon, QuorumsCount, ChosenOnce
  <1> QED
    BY <1>1, InvariantHolds, PTL

(* The Commit that ends the period carries a chosen value, in the ballot it   *)
(* was chosen in: the count of runPhase2 (proposer.go:298-300) is a count of  *)
(* voters, and the value it commits is the one they voted for.                *)
THEOREM FirstCommitIsChosen == Spec => FirstCommitChosen
  <1>1. IInv /\ [Next]_vars =>
          [\A m \in msgs' \ msgs :
             (m.type = "Commit" /\ Undisturbed(m.instance)) =>
                ChosenAt(m.instance, m.ballot, m.value)]_vars
    <2> SUFFICES ASSUME IInv, [Next]_vars, NEW m \in msgs' \ msgs,
                        m.type = "Commit", Undisturbed(m.instance)
                 PROVE  ChosenAt(m.instance, m.ballot, m.value)
      BY Zenon
    <2>1. StepEffect
      BY Zenon, StepShape
    <2>2. QuorumFacts
      BY Zenon, QuorumsCount
    <2> QED
      BY Zenon, <2>1, <2>2, CommitChosen
  <1> QED
    BY <1>1, InvariantHolds, PTL DEF Spec, FirstCommitChosen

(* In a cluster of any size, before the first Commit of an instance, no       *)
(* acceptor votes between the ballot it reported and the ballot it promised,  *)
(* across failed saves and restarts (acceptor.go:131-138, 167, 36-68).        *)
THEOREM PromisesAreKept == Spec => []PromisesKept
  <1>1. IInv => PromisesKept
    BY Zenon, PromiseInvKeeps DEF IInv
  <1> QED
    BY <1>1, InvariantHolds, PTL

(* In a cluster of any size one ballot of an instance stands for one value    *)
(* until the first Commit, although a node that restarts counts its rounds    *)
(* from zero and uses its ballots again: its own acceptor, asked first        *)
(* (proposer.go:190-199), reports the earlier vote and findHighestAccepted    *)
(* takes it (proposer.go:343-355).  No client value is empty.                 *)
THEOREM BallotsHaveOneValue == Spec => []OneValuePerBallot
  <1>1. IInv => OneValuePerBallot
    BY Zenon, BallotsAgree
  <1> QED
    BY <1>1, InvariantHolds, PTL

(* In a cluster of any size, when a single Propose call is all that ever      *)
(* happened to an instance, all that is learnt, logged or acknowledged for it *)
(* is that call's value (proposer.go:127-160, 317-336; node.go:277-324),      *)
(* whatever is lost, forgotten, not saved or restarted.                       *)
THEOREM SoleProposalIsLearned == Spec => []SoleProposalLearned
  <1>1. IInv => SoleProposalLearned
    BY Zenon, TraceInvLearned DEF IInv
  <1> QED
    BY <1>1, InvariantHolds, PTL

(* The log on disk is write-once for every cluster, whatever restarts and     *)
(* failed appends there are: AppendLog overwrites (storage.go), but           *)
(* handleCommit asks for it only where the learner has no entry, and after a  *)
(* restart recoverLog has filled the learner from the log.                    *)
THEOREM LogIsWriteOnce == Spec => LogWriteOnce
  <1>1. IInv /\ [Next]_vars =>
          [\A n \in Node, i \in Instance : log[n][i] # NoEntry => log'[n][i] = log[n][i]]_vars
    <2> SUFFICES ASSUME IInv, [Next]_vars PROVE LogKept
      BY Zenon DEF LogKept
    <2>1. StepEffect /\ BookInv
      BY Zenon, StepShape
    <2>2. LearnerInv
      BY Zenon DEF IInv
    <2> QED
      BY Zenon, <2>1, <2>2, StepLearnerInv
  <1> QED
    BY <1>1, InvariantHolds, PTL DEF Spec, LogWriteOnce

(* In every cluster the notifications that wait for a subscriber are of what  *)
(* the node has committed, with the value it committed, one per instance:     *)
(* handleCommit looks for an earlier commit before it sends                   *)
(* (node.go:277-324).                                                         *)
THEOREM NotificationsAreGenuine == Spec => []NotificationsGenuine
  <1>1. IInv /\ NotificationsGenuine /\ [Next]_vars => NotificationsGenuine'
    <2> SUFFICES ASSUME IInv, NotificationsGenuine, [Next]_vars PROVE NotificationsGenuine'
      BY ZenonT(30)
    <2>1. StepEffect /\ BookInv
      BY Zenon, StepShape
    <2> QED
      BY Zenon, <2>1, StepNotifications
  <1> QED
    BY <1>1, InvariantHolds, InitNotifications, PTL DEF Spec

(* In a cluster of any size, for as long as a node leads, a majority of disks *)
(* holds a promise at or above its ballot, whatever crashed since             *)
(* (BecomeLeader, proposer.go:389-396), provided that its ballot was          *)
(* campaigned for once or the cluster has no more than three nodes.           *)
THEOREM LeaderIsBacked == Spec => []LeaderBacked
  <1>1. IInv => LeaderBacked
    <2> SUFFICES ASSUME IInv, NEW n \in Node, CountsNodes(leaderBallot[n])
                 PROVE  Backed(leaderBallot[n])
      BY Zenon DEF LeaderBacked
    <2>1. CASE leaderBallot[n] # 0
      BY Zenon, <2>1 DEF IInv, LeaderInv
    <2>2. CASE leaderBallot[n] = 0
      <3>1. \A a \in Node : disk[a][0].promised \in Nat
        BY EntryTyped, Constants DEF IInv
      <3>2. {a \in Node : disk[a][0].promised >= 0} = Node
        BY Zenon, <3>1, NoneBelowZero
      <3>3. Node \in Quorum
        <4>1. Cardinality(Node) \in Nat
          BY Zenon, NodesCount
        <4> QED
          BY Zenon, <4>1, Majorities DEF Quorum
      <3> QED
        BY ZenonT(30), <2>2, <3>2, <3>3 DEF Backed
    <2> QED
      BY ZenonT(30), <2>1, <2>2
  <1> QED
    BY <1>1, InvariantHolds, PTL
-----------------------------------------------------------------------------
(* Elections implement MultiPaxos: what is proved of proposers, acceptors and *)
(* learners holds whoever leads, however many nodes believe they lead, and    *)
(* whenever elections happen.                                                 *)

(* Only nodes that may campaign ever have a deadline that passed. *)
DeadlineInv ==
  /\ expired \in [Node -> BOOLEAN]
  /\ \A n \in Node : expired[n] => n \in MayElect

(* Node.electing tells whether BecomeLeader runs: outside a campaign the      *)
(* leadership instance has no proposal.                                       *)
CampaignInv ==
  /\ electing \in [Node -> {"no", "campaign", "won"}]
  /\ \A n \in Node : electing[n] # "campaign" => pending[n][0] = NoProposal

(* No deadline has passed when a node starts (node.go:85-102). *)
LEMMA InitDeadlines == ElectionInit => DeadlineInv
  BY Zenon DEF ElectionInit, DeadlineInv

(* Nobody campaigns when a cluster starts (node.go:85-102). *)
LEMMA InitCampaigns == ElectionInit => CampaignInv
  <1> SUFFICES ASSUME ElectionInit PROVE CampaignInv
    OBVIOUS
  <1>1. 0 \in Slot
    BY Zenon, Constants
  <1>2. electing = [n \in Node |-> "no"]
        /\ pending = [n \in Node |-> [i \in Slot |-> NoProposal]]
    BY Zenon DEF ElectionInit, Init
  <1> QED
    BY <1>1, <1>2 DEF CampaignInv

(* One slot of one node changes. *)
LEMMA SlotsKept ==
  ASSUME TypeOK, NEW n \in Node, NEW i, NEW q, pending' = [pending EXCEPT ![n][i] = q]
  PROVE  /\ \A c \in Node : c # n => pending'[c] = pending[c]
         /\ i # 0 => \A c \in Node : pending'[c][0] = pending[c][0]
  <1>1. pending \in [Node -> [Slot -> Proposal]] /\ 0 \in Slot
    BY Zenon, Constants DEF TypeOK
  <1> QED
    BY SMTT(20), <1>1

(* Proposals of clients, acceptors and learners stay clear of the leadership  *)
(* instance and of who leads (proposer.go:108-141, 365-387).                  *)
LEMMA ServeKeeps ==
  ASSUME TypeOK, NEW n \in Node, Serve(n)
  PROVE  /\ \A c \in Node : pending'[c][0] = pending[c][0]
         /\ UNCHANGED <<isLeader, leaderBallot>>
  <1>0. 0 \notin Instance
    BY Zenon, Constants
  <1>1. ASSUME NEW i, i # 0, NEW q, pending' = [pending EXCEPT ![n][i] = q]
        PROVE  \A c \in Node : pending'[c][0] = pending[c][0]
    BY Zenon, <1>1, SlotsKept
  <1>2. ASSUME NEW m \in msgs, NEW saved, ReceivePrepare(n, m, saved) \/ ReceiveAccept(n, m, saved)
        PROVE  UNCHANGED <<pending, isLeader, leaderBallot>>
    BY Zenon, <1>2 DEF ReceivePrepare, ReceiveAccept, proposerVars
  <1>3. ASSUME NEW v, Propose(n, v)
        PROVE  /\ \A c \in Node : pending'[c][0] = pending[c][0]
               /\ UNCHANGED <<isLeader, leaderBallot>>
    BY Zenon, <1>0, <1>1, <1>3 DEF Propose, Start
  <1>4. ASSUME NEW i \in Instance, NEW saved,
               StartPhase1(n, i, saved) \/ StartPhase2(n, i, saved)
        PROVE  /\ \A c \in Node : pending'[c][0] = pending[c][0]
               /\ UNCHANGED <<isLeader, leaderBallot>>
    <2>1. i # 0
      BY Zenon, <1>0
    <2>2. \E q : pending' = [pending EXCEPT ![n][i] = q]
      BY Zenon, <1>4 DEF StartPhase1, StartPhase2, Abandon
    <2> QED
      BY Zenon, <1>1, <1>4, <2>1, <2>2 DEF StartPhase1, StartPhase2, proposerVars
  <1>5. ASSUME NEW m \in msgs, m.instance # 0, ReceivePromise(n, m)
        PROVE  /\ \A c \in Node : pending'[c][0] = pending[c][0]
               /\ UNCHANGED <<isLeader, leaderBallot>>
    <2>1. \E q : pending' = [pending EXCEPT ![n][m.instance] = q]
      BY Zenon, <1>5 DEF ReceivePromise, Abandon
    <2> QED
      BY Zenon, <1>1, <1>5, <2>1 DEF ReceivePromise
  <1>6. ASSUME NEW m \in msgs, m.instance # 0, ReceiveRefusal(n, m)
        PROVE  /\ \A c \in Node : pending'[c][0] = pending[c][0]
               /\ UNCHANGED <<isLeader, leaderBallot>>
    BY Zenon, <1>1, <1>6 DEF ReceiveRefusal, Abandon, proposerVars
  <1>7. ASSUME NEW i \in Instance, Timeout(n, i)
        PROVE  /\ \A c \in Node : pending'[c][0] = pending[c][0]
               /\ UNCHANGED <<isLeader, leaderBallot>>
    BY Zenon, <1>0, <1>1, <1>7 DEF Timeout, Abandon, proposerVars
  <1>8. ASSUME NEW m \in msgs, ReceiveAccepted(n, m)
        PROVE  /\ \A c \in Node : pending'[c][0] = pending[c][0]
               /\ UNCHANGED <<isLeader, leaderBallot>>
    <2>1. m \in AcceptedMsg
      BY Zenon, <1>8, MessageKinds DEF ReceiveAccepted
    <2>2. m.instance # 0
      BY <1>0, <2>1 DEF AcceptedMsg
    <2>3. \E q : pending' = [pending EXCEPT ![n][m.instance] = q]
      BY Zenon, <1>8 DEF ReceiveAccepted
    <2> QED
      BY Zenon, <1>1, <1>8, <2>2, <2>3 DEF ReceiveAccepted, proposerVars
  <1>9. ASSUME NEW i \in Instance, NEW saved, BroadcastCommit(n, i, saved)
        PROVE  /\ \A c \in Node : pending'[c][0] = pending[c][0]
               /\ UNCHANGED <<isLeader, leaderBallot>>
    BY Zenon, <1>0, <1>1, <1>9 DEF BroadcastCommit, Abandon, proposerVars
  <1>10. ASSUME NEW m \in msgs, NEW saved, ReceiveCommit(n, m, saved) \/ ReadCommitCh(n)
         PROVE  UNCHANGED <<pending, isLeader, leaderBallot>>
    BY Zenon, <1>10 DEF ReceiveCommit, ReadCommitCh, proposerVars
  <1>11. ASSUME ReadCommitCh(n)
         PROVE  UNCHANGED <<pending, isLeader, leaderBallot>>
    BY Zenon, <1>11 DEF ReadCommitCh, proposerVars
  <1> QED
    BY Zenon, <1>2, <1>3, <1>4, <1>5, <1>6, <1>7, <1>8, <1>9, <1>10, <1>11 DEF Serve

(* Phase 1 of BecomeLeader runs only when a campaign does, and concerns its   *)
(* own node; it either leaves who leads alone or ends in a win                *)
(* (proposer.go:365-410).                                                     *)
LEMMA SeekingIsACampaign ==
  ASSUME TypeOK, NEW n \in Node, SeekPromises(n)
  PROVE  /\ pending[n][0] # NoProposal
         /\ \A c \in Node : c # n => /\ pending'[c] = pending[c]
                                     /\ isLeader'[c] = isLeader[c]
                                     /\ leaderBallot'[c] = leaderBallot[c]
         /\ \/ UNCHANGED <<isLeader, leaderBallot>>
            \/ isLeader'[n] /\ pending'[n][0] = NoProposal
  <1>0. /\ isLeader \in [Node -> BOOLEAN] /\ leaderBallot \in [Node -> Nat]
        /\ pending \in [Node -> [Slot -> Proposal]] /\ 0 \in Slot /\ NoProposal.pc = "none"
    BY Constants DEF TypeOK, NoProposal
  <1>1. pending[n][0].pc \in {"prepare", "promises", "accepteds"}
    BY Zenon DEF SeekPromises, StartPhase1, ReceivePromise, ReceiveRefusal, Timeout, Matches
  <1>2. pending[n][0] # NoProposal
    BY <1>0, <1>1
  <1>3. PICK q : pending' = [pending EXCEPT ![n][0] = q]
    BY Zenon DEF SeekPromises, StartPhase1, ReceivePromise, ReceiveRefusal, Timeout, Abandon
  <1>4. \A c \in Node : c # n => pending'[c] = pending[c]
    BY <1>3, SlotsKept
  <1>5. \/ UNCHANGED <<isLeader, leaderBallot>>
        \/ \E b : /\ isLeader' = [isLeader EXCEPT ![n] = TRUE]
                  /\ leaderBallot' = [leaderBallot EXCEPT ![n] = b]
                  /\ pending' = [pending EXCEPT ![n][0] = NoProposal]
    BY Zenon DEF SeekPromises, StartPhase1, ReceivePromise, ReceiveRefusal, Timeout, Abandon,
                 proposerVars
  <1>6. CASE UNCHANGED <<isLeader, leaderBallot>>
    BY Zenon, <1>2, <1>4, <1>6
  <1>7. ASSUME NEW b, isLeader' = [isLeader EXCEPT ![n] = TRUE],
               leaderBallot' = [leaderBallot EXCEPT ![n] = b],
               pending' = [pending EXCEPT ![n][0] = NoProposal]
        PROVE  /\ \A c \in Node : c # n => isLeader'[c] = isLeader[c]
                                           /\ leaderBallot'[c] = leaderBallot[c]
               /\ isLeader'[n] /\ pending'[n][0] = NoProposal
    BY SMTT(20), <1>0, <1>7
  <1> QED
    BY Zenon, <1>2, <1>4, <1>5, <1>6, <1>7

(* Node.electing and the proposal of BecomeLeader change together             *)
(* (node.go:373-438).                                                         *)
LEMMA CampaignStep ==
  ASSUME TypeOK, CampaignInv, [ElectionNext]_electionVars
  PROVE  CampaignInv'
  <1>0. /\ electing \in [Node -> {"no", "campaign", "won"}]
        /\ \A n \in Node : electing[n] # "campaign" => pending[n][0] = NoProposal
    BY Zenon DEF CampaignInv
  <1>1. CASE UNCHANGED <<electing, pending>>
    BY Zenon, <1>1 DEF CampaignInv
  <1>2. ASSUME NEW n \in Node, NEW e \in {"no", "campaign", "won"},
               electing' = [electing EXCEPT ![n] = e],
               e # "campaign" => pending'[n][0] = NoProposal,
               \A c \in Node : c # n => pending'[c] = pending[c]
        PROVE  CampaignInv'
    <2>1. electing' \in [Node -> {"no", "campaign", "won"}]
      BY Zenon, <1>0, <1>2
    <2>2. electing'[n] = e /\ \A c \in Node : c # n => electing'[c] = electing[c]
      BY Zenon, <1>0, <1>2
    <2>3. \A c \in Node : electing'[c] # "campaign" => pending'[c][0] = NoProposal
      BY Zenon, <1>0, <1>2, <2>2
    <2> QED
      BY Zenon, <2>1, <2>3 DEF CampaignInv
  <1>3. ASSUME NEW n \in Node, startElection(n)
        PROVE  CampaignInv'
    <2>1. PICK q : pending' = [pending EXCEPT ![n][0] = q]
      BY Zenon, <1>3 DEF startElection, BecomeLeader, Start
    <2>2. \A c \in Node : c # n => pending'[c] = pending[c]
      BY <2>1, SlotsKept
    <2>3. electing' = [electing EXCEPT ![n] = "campaign"]
      BY Zenon, <1>3 DEF startElection
    <2> QED
      BY Zenon, <1>2, <2>2, <2>3
  <1>4. ASSUME NEW n \in Node, Campaign(n)
        PROVE  CampaignInv'
    <2>1. PICK e : e = IF pending'[n][0] # NoProposal THEN "campaign"
                       ELSE IF isLeader'[n] THEN "won" ELSE "no"
      BY Zenon
    <2>2. electing' = [electing EXCEPT ![n] = e]
      BY Zenon, <1>4, <2>1 DEF Campaign
    <2>3. e \in {"no", "campaign", "won"} /\ (e # "campaign" => pending'[n][0] = NoProposal)
      BY Zenon, <2>1
    <2>4. \A c \in Node : c # n => pending'[c] = pending[c]
      BY Zenon, <1>4, SeekingIsACampaign DEF Campaign
    <2> QED
      BY Zenon, <1>2, <2>2, <2>3, <2>4
  <1>5. ASSUME NEW n \in Node, AssertLeadership(n)
        PROVE  CampaignInv'
    <2>1. electing[n] = "won" /\ electing' = [electing EXCEPT ![n] = "no"] /\ pending' = pending
      BY Zenon, <1>5 DEF AssertLeadership, vars
    <2>2. pending'[n][0] = NoProposal
      BY <1>0, <2>1
    <2> QED
      BY Zenon, <1>2, <2>1, <2>2
  <1>6. ASSUME NEW n \in Node, RestartNode(n)
        PROVE  CampaignInv'
    <2>1. /\ pending' = [pending EXCEPT ![n] = [i \in Slot |-> NoProposal]]
          /\ electing' = [electing EXCEPT ![n] = "no"]
      BY Zenon, <1>6 DEF RestartNode, Restart
    <2>2. pending \in [Node -> [Slot -> Proposal]] /\ 0 \in Slot
      BY Zenon, Constants DEF TypeOK
    <2>3. pending'[n][0] = NoProposal /\ \A c \in Node : c # n => pending'[c] = pending[c]
      BY <2>1, <2>2
    <2> QED
      BY Zenon, <1>2, <2>1, <2>3
  <1>7. ASSUME NEW n \in Node, ServeAll(n)
        PROVE  CampaignInv'
    <2>1. electing' = electing /\ \A c \in Node : pending'[c][0] = pending[c][0]
      BY Zenon, <1>7, ServeKeeps DEF ServeAll, nodeVars
    <2> QED
      BY Zenon, <1>0, <2>1 DEF CampaignInv
  <1>8. ASSUME NEW n \in Node, NEW l \in Node, handleHeartbeat(n, l)
        PROVE  UNCHANGED <<electing, pending>>
    BY Zenon, <1>8 DEF handleHeartbeat, StepDown, vars
  <1>9. ASSUME NEW n \in Node,
               \/ DeadlinePasses(n) \/ Heartbeat(n) \/ \E l \in Node : LoseHeartbeat(n, l)
        PROVE  UNCHANGED <<electing, pending>>
    BY Zenon, <1>9 DEF DeadlinePasses, Heartbeat, LoseHeartbeat, vars
  <1>10. UNCHANGED electionVars => UNCHANGED <<electing, pending>>
    BY Zenon DEF electionVars, nodeVars, vars
  <1> QED
    BY Zenon, <1>1, <1>3, <1>4, <1>5, <1>6, <1>7, <1>8, <1>9, <1>10 DEF ElectionNext

(* Deadlines pass, are reset by heartbeats, elections and restarts, and       *)
(* concern one node at a time (node.go:335, 381, 424, 434).                   *)
LEMMA DeadlineStep ==
  ASSUME DeadlineInv, [ElectionNext]_electionVars
  PROVE  DeadlineInv'
  <1>1. CASE UNCHANGED electionVars
    BY Zenon, <1>1 DEF electionVars, nodeVars, DeadlineInv
  <1>2. ASSUME NEW n \in Node, NEW b \in BOOLEAN, expired' = [expired EXCEPT ![n] = b],
               b => n \in MayElect \/ expired[n]
        PROVE  DeadlineInv'
    BY Zenon, <1>2 DEF DeadlineInv
  <1>3. ASSUME expired' = expired
        PROVE  DeadlineInv'
    BY Zenon, <1>3 DEF DeadlineInv
  <1>4. ASSUME NEW n \in Node, DeadlinePasses(n)
        PROVE  DeadlineInv'
    BY ZenonT(30), <1>2, <1>4 DEF DeadlinePasses
  <1>5. ASSUME NEW n \in Node, startElection(n) \/ AssertLeadership(n) \/ RestartNode(n)
        PROVE  DeadlineInv'
    BY ZenonT(30), <1>2, <1>5 DEF startElection, AssertLeadership, RestartNode
  <1>6. ASSUME NEW n \in Node, Campaign(n)
        PROVE  DeadlineInv'
    <2>1. PICK b : b = (expired[n] /\ electing'[n] # "no")
      BY Zenon
    <2>2. b \in BOOLEAN /\ (b => expired[n])
      BY Zenon, <2>1
    <2>3. expired' = [expired EXCEPT ![n] = b]
      BY Zenon, <2>1, <1>6 DEF Campaign
    <2> QED
      BY Zenon, <1>2, <2>2, <2>3
  <1>7. ASSUME NEW n \in Node, NEW l \in Node, handleHeartbeat(n, l)
        PROVE  DeadlineInv'
    BY ZenonT(30), <1>2, <1>3, <1>7 DEF handleHeartbeat
  <1>8. ASSUME NEW n \in Node, NEW l \in Node, LoseHeartbeat(n, l)
        PROVE  DeadlineInv'
    BY <1>3, <1>8 DEF LoseHeartbeat
  <1>9. ASSUME NEW n \in Node, Heartbeat(n) \/ ServeAll(n)
        PROVE  DeadlineInv'
    BY Zenon, <1>3, <1>9 DEF Heartbeat, ServeAll, nodeVars
  <1> QED
    BY Zenon, <1>1, <1>4, <1>5, <1>6, <1>7, <1>8, <1>9 DEF ElectionNext

(* Whatever the election goroutine, the ticks and the heartbeats do           *)
(* (node.go:327-438), proposers and acceptors take a step of MultiPaxos or    *)
(* none.  Node.electing is all that keeps a second BecomeLeader from taking   *)
(* the slot of the first.                                                     *)
LEMMA ElectionStep ==
  ASSUME DeadlineInv, CampaignInv, [ElectionNext]_electionVars
  PROVE  [Next]_vars
  <1>1. CASE UNCHANGED electionVars
    BY Zenon, <1>1 DEF electionVars
  <1>2. ASSUME NEW n \in Node, startElection(n)
        PROVE  Next
    <2>1. n \in MayElect
      BY Zenon, <1>2 DEF startElection, DeadlineInv
    <2>2. pending[n][0] = NoProposal
      BY <1>2 DEF startElection, CampaignInv
    <2>3. Elect(n)
      BY Zenon, <1>2, <2>1, <2>2 DEF startElection, Elect
    <2> QED
      BY Zenon, <2>3 DEF Next
  <1>3. ASSUME NEW n \in Node, Campaign(n)
        PROVE  Next
    BY Zenon, <1>3 DEF Campaign, Next
  <1>4. ASSUME NEW n \in Node, ServeAll(n)
        PROVE  Next
    BY Zenon, <1>4 DEF ServeAll, Next
  <1>5. ASSUME NEW n \in Node, RestartNode(n)
        PROVE  Next
    BY Zenon, <1>5 DEF RestartNode, Next
  <1>6. ASSUME NEW n \in Node, NEW l \in Node, handleHeartbeat(n, l)
        PROVE  [Next]_vars
    BY Zenon, <1>6 DEF handleHeartbeat, Next
  <1>7. ASSUME NEW n \in Node,
               \/ DeadlinePasses(n) \/ Heartbeat(n) \/ AssertLeadership(n)
               \/ \E l \in Node : LoseHeartbeat(n, l)
        PROVE  UNCHANGED vars
    BY Zenon, <1>7 DEF DeadlinePasses, Heartbeat, AssertLeadership, LoseHeartbeat
  <1> QED
    BY Zenon, <1>1, <1>2, <1>3, <1>4, <1>5, <1>6, <1>7 DEF ElectionNext

(* All three invariants at once: that a step of an election is one of         *)
(* MultiPaxos needs CampaignInv, which needs the types, which are an          *)
(* invariant of the steps of MultiPaxos.                                      *)
LEMMA ElectionInvariants == ElectionSpec => [](IInv /\ DeadlineInv /\ CampaignInv)
  <1>1. ElectionInit => IInv /\ DeadlineInv /\ CampaignInv
    BY Zenon, InitIInv, InitDeadlines, InitCampaigns DEF ElectionInit
  <1>2. ASSUME IInv, DeadlineInv, CampaignInv, [ElectionNext]_electionVars
        PROVE  IInv' /\ DeadlineInv' /\ CampaignInv'
    <2>1. TypeOK
      BY Zenon, <1>2 DEF IInv
    <2>2. [Next]_vars
      BY Zenon, <1>2, ElectionStep
    <2>3. IInv'
      BY Zenon, <1>2, <2>2, StepIInv
    <2>4. DeadlineInv' /\ CampaignInv'
      BY Zenon, <1>2, <2>1, DeadlineStep, CampaignStep
    <2> QED
      BY Zenon, <2>3, <2>4
  <1> QED
    BY <1>1, <1>2, PTL DEF ElectionSpec

(* Elections are an implementation of the proposers, acceptors and learners,  *)
(* for every cluster, whatever clients propose meanwhile and however          *)
(* deadlines, heartbeats and restarts fall: a node has one BecomeLeader at a  *)
(* time, in a slot nobody else uses, though proposer and node each take only  *)
(* their own lock, and heartbeats call StepDown on leaders only               *)
(* (node.go:327-438, proposer.go:365-410).                                    *)
THEOREM ElectionRefines == ElectionSpec => ImplementsMultiPaxos
  <1>1. ElectionInit => Init
    BY Zenon DEF ElectionInit
  <1> QED
    BY <1>1, ElectionInvariants, ElectionStep, PTL
       DEF ElectionSpec, ImplementsMultiPaxos, Spec

(* Node l won ballot b. *)
Elected(b, l) ==
  /\ OwnBallot(b, l)
  /\ CountsNodes(b) => Backed(b)

(* Whoever is announced or followed has won the ballot it is announced with. *)
FollowInv ==
  /\ currentLeader \in [Node -> Nat]
  /\ followedBallot \in [Node -> Nat]
  /\ beats \in [Node -> [Node -> Nat]]
  /\ \A n \in Node : followedBallot[n] # 0 =>
       currentLeader[n] \in Node /\ Elected(followedBallot[n], currentLeader[n])
  /\ \A l, n \in Node : beats[l][n] # 0 => Elected(beats[l][n], l)

(* Nobody is followed when a cluster starts (node.go:85-102). *)
LEMMA InitFollow == ElectionInit => FollowInv
  BY DEF ElectionInit, FollowInv

(* A won ballot stays won, and what a leader announces is what it won. *)
LEMMA ElectedStays ==
  ASSUME IInv, [Next]_vars, NEW b \in Nat, NEW l \in Node, Elected(b, l)
  PROVE  Elected(b, l)'
  <1>1. StepEffect /\ TypeOK' /\ TypeOK /\ LeaderInv /\ QuorumFacts
    BY Zenon, StepShape, QuorumsCount DEF IInv
  <1>2. /\ Backed(b) => Backed(b)'
        /\ CountsNodes(b)' => CountsNodes(b)
    BY Zenon, <1>1, BackingStays
  <1> QED
    BY Zenon, <1>2 DEF Elected, OwnBallot

(* So it is enough that whatever is followed or announced after a step was    *)
(* won before it.                                                             *)
LEMMA FollowShape ==
  ASSUME IInv, [Next]_vars,
         currentLeader' \in [Node -> Nat], followedBallot' \in [Node -> Nat],
         beats' \in [Node -> [Node -> Nat]],
         \A n \in Node : followedBallot'[n] # 0 =>
           currentLeader'[n] \in Node /\ Elected(followedBallot'[n], currentLeader'[n]),
         \A l, n \in Node : beats'[l][n] # 0 => Elected(beats'[l][n], l)
  PROVE  FollowInv'
  <1>1. ASSUME NEW b \in Nat, NEW l \in Node, Elected(b, l) PROVE Elected(b, l)'
    BY Zenon, <1>1, ElectedStays
  <1>2. ASSUME NEW n \in Node, followedBallot'[n] # 0
        PROVE  (currentLeader[n] \in Node /\ Elected(followedBallot[n], currentLeader[n]))'
    <2>b. PICK b \in Nat : b = followedBallot'[n]
      BY Zenon
    <2>l. PICK l \in Node : l = currentLeader'[n]
      BY Zenon, <1>2
    <2>1. Elected(b, l)'
      BY Zenon, <1>1, <1>2, <2>b, <2>l
    <2> QED
      BY Zenon, <2>b, <2>l, <2>1
         DEF Elected, OwnBallot, CountsNodes, CampaignedOnce, Backed
  <1>3. ASSUME NEW l \in Node, NEW n \in Node, beats'[l][n] # 0
        PROVE  Elected(beats[l][n], l)'
    <2>b. PICK b \in Nat : b = beats'[l][n]
      BY Zenon
    <2>1. Elected(b, l)'
      BY Zenon, <1>1, <1>3, <2>b
    <2> QED
      BY Zenon, <2>b, <2>1 DEF Elected, OwnBallot, CountsNodes, CampaignedOnce, Backed
  <1> QED
    BY Zenon, <1>2, <1>3 DEF FollowInv

(* What is followed and announced changes with a win, a heartbeat taken and a *)
(* restart (node.go:327-343, 373-390, 428-437).                               *)
LEMMA StepFollow ==
  ASSUME IInv, FollowInv, [Next]_vars, [ElectionNext]_electionVars
  PROVE  FollowInv'
  <1>1. /\ leaderBallot \in [Node -> Nat]
        /\ \A n \in Node : leaderBallot[n] # 0 => Elected(leaderBallot[n], n)
        /\ Node \subseteq Nat
    BY Zenon, Constants DEF IInv, TypeOK, LeaderInv, Elected
  <1>2. /\ currentLeader \in [Node -> Nat] /\ followedBallot \in [Node -> Nat]
        /\ beats \in [Node -> [Node -> Nat]]
        /\ \A n \in Node : followedBallot[n] # 0 =>
             currentLeader[n] \in Node /\ Elected(followedBallot[n], currentLeader[n])
        /\ \A l, n \in Node : beats[l][n] # 0 => Elected(beats[l][n], l)
    BY Zenon DEF FollowInv
  <1>3. CASE UNCHANGED <<currentLeader, followedBallot, beats>>
    BY ZenonT(30), <1>2, <1>3, FollowShape
  <1>4. ASSUME NEW n \in Node, sendHeartbeat(n, leaderBallot[n])
        PROVE  /\ beats' \in [Node -> [Node -> Nat]]
               /\ \A l, c \in Node : beats'[l][c] # 0 => Elected(beats'[l][c], l)
    <2>1. beats' \in [Node -> [Node -> Nat]]
      BY ZenonT(30), <1>1, <1>2, <1>4 DEF sendHeartbeat
    <2>2. \A l, c \in Node : \/ beats'[l][c] = beats[l][c]
                             \/ beats'[l][c] = 0
                             \/ l = n /\ beats'[l][c] = leaderBallot[l]
      BY Zenon, <1>2, <1>4 DEF sendHeartbeat
    <2>3. ASSUME NEW l \in Node, NEW c \in Node, beats'[l][c] # 0
          PROVE  Elected(beats'[l][c], l)
      <3>1. CASE beats'[l][c] = beats[l][c]
        BY Zenon, <1>2, <2>3, <3>1
      <3>2. CASE l = n /\ beats'[l][c] = leaderBallot[l]
        BY Zenon, <1>1, <2>3, <3>2
      <3> QED
        BY Zenon, <2>2, <2>3, <3>1, <3>2
    <2> QED
      BY Zenon, <2>1, <2>3
  <1>5. ASSUME NEW n \in Node, Heartbeat(n)
        PROVE  FollowInv'
    BY ZenonT(30), <1>2, <1>4, <1>5, FollowShape DEF Heartbeat
  <1>6. ASSUME NEW n \in Node, NEW l \in Node, NEW b \in Nat, Elected(b, l) \/ b = 0,
               currentLeader' = [currentLeader EXCEPT ![n] = l],
               followedBallot' = [followedBallot EXCEPT ![n] = b]
        PROVE  /\ currentLeader' \in [Node -> Nat] /\ followedBallot' \in [Node -> Nat]
               /\ \A c \in Node : followedBallot'[c] # 0 =>
                    currentLeader'[c] \in Node /\ Elected(followedBallot'[c], currentLeader'[c])
    <2>1. currentLeader' \in [Node -> Nat] /\ followedBallot' \in [Node -> Nat]
      BY ZenonT(30), <1>1, <1>2, <1>6
    <2>2. \A c \in Node :
            \/ currentLeader'[c] = currentLeader[c] /\ followedBallot'[c] = followedBallot[c]
            \/ currentLeader'[c] = l /\ followedBallot'[c] = b
      BY Zenon, <1>2, <1>6
    <2>3. ASSUME NEW c \in Node, followedBallot'[c] # 0
          PROVE  currentLeader'[c] \in Node /\ Elected(followedBallot'[c], currentLeader'[c])
      <3>1. CASE currentLeader'[c] = currentLeader[c] /\ followedBallot'[c] = followedBallot[c]
        BY Zenon, <1>2, <2>3, <3>1
      <3>2. CASE currentLeader'[c] = l /\ followedBallot'[c] = b
        BY Zenon, <1>6, <2>3, <3>2
      <3> QED
        BY Zenon, <2>2, <3>1, <3>2
    <2> QED
      BY Zenon, <2>1, <2>3
  <1>7. ASSUME NEW n \in Node, AssertLeadership(n)
        PROVE  FollowInv'
    <2>1. leaderBallot[n] \in Nat /\ (Elected(leaderBallot[n], n) \/ leaderBallot[n] = 0)
      BY Zenon, <1>1
    <2>2. /\ currentLeader' \in [Node -> Nat] /\ followedBallot' \in [Node -> Nat]
          /\ \A c \in Node : followedBallot'[c] # 0 =>
               currentLeader'[c] \in Node /\ Elected(followedBallot'[c], currentLeader'[c])
      BY Zenon, <1>6, <1>7, <2>1 DEF AssertLeadership
    <2> QED
      BY ZenonT(30), <1>4, <1>7, <2>2, FollowShape DEF AssertLeadership
  <1>8. ASSUME NEW n \in Node, NEW l \in Node, beats' = [beats EXCEPT ![l][n] = 0]
        PROVE  /\ beats' \in [Node -> [Node -> Nat]]
               /\ \A d, c \in Node : beats'[d][c] # 0 => Elected(beats'[d][c], d)
    <2>1. beats' \in [Node -> [Node -> Nat]]
      BY ZenonT(30), <1>2, <1>8
    <2>2. \A d, c \in Node : beats'[d][c] = beats[d][c] \/ beats'[d][c] = 0
      BY Zenon, <1>2, <1>8
    <2> QED
      BY Zenon, <1>2, <2>1, <2>2
  <1>9. ASSUME NEW n \in Node, NEW l \in Node, LoseHeartbeat(n, l)
        PROVE  FollowInv'
    BY ZenonT(30), <1>2, <1>8, <1>9, FollowShape DEF LoseHeartbeat
  <1>10. ASSUME NEW n \in Node, NEW l \in Node, handleHeartbeat(n, l)
         PROVE  FollowInv'
    <2>1. /\ beats' \in [Node -> [Node -> Nat]]
          /\ \A d, c \in Node : beats'[d][c] # 0 => Elected(beats'[d][c], d)
      BY Zenon, <1>8, <1>10 DEF handleHeartbeat
    <2>2. beats[l][n] \in Nat /\ Elected(beats[l][n], l)
      BY ZenonT(30), <1>2, <1>10 DEF handleHeartbeat
    <2>3. CASE UNCHANGED <<currentLeader, followedBallot>>
      BY ZenonT(30), <1>2, <2>1, <2>3, FollowShape
    <2>4. CASE /\ currentLeader' = [currentLeader EXCEPT ![n] = l]
               /\ followedBallot' = [followedBallot EXCEPT ![n] = beats[l][n]]
      <3>1. /\ currentLeader' \in [Node -> Nat] /\ followedBallot' \in [Node -> Nat]
            /\ \A c \in Node : followedBallot'[c] # 0 =>
                 currentLeader'[c] \in Node /\ Elected(followedBallot'[c], currentLeader'[c])
        BY Zenon, <1>6, <2>2, <2>4
      <3> QED
        BY Zenon, <2>1, <3>1, FollowShape
    <2> QED
      BY Zenon, <1>10, <2>3, <2>4 DEF handleHeartbeat
  <1>11. ASSUME NEW n \in Node, RestartNode(n)
         PROVE  FollowInv'
    <2>1. /\ currentLeader' = [currentLeader EXCEPT ![n] = 0]
          /\ followedBallot' = [followedBallot EXCEPT ![n] = 0]
          /\ beats' = [l \in Node |-> [beats[l] EXCEPT ![n] = 0]]
      BY Zenon, <1>11 DEF RestartNode
    <2>2. /\ currentLeader' \in [Node -> Nat] /\ followedBallot' \in [Node -> Nat]
          /\ beats' \in [Node -> [Node -> Nat]]
      BY Zenon, <1>2, <2>1
    <2>3. \A c \in Node :
            \/ followedBallot'[c] = 0
            \/ currentLeader'[c] = currentLeader[c] /\ followedBallot'[c] = followedBallot[c]
      BY ZenonT(30), <1>2, <2>1
    <2>4. \A d, c \in Node : beats'[d][c] = beats[d][c] \/ beats'[d][c] = 0
      BY Zenon, <1>2, <2>1
    <2>5. /\ \A c \in Node : followedBallot'[c] # 0 =>
               currentLeader'[c] \in Node /\ Elected(followedBallot'[c], currentLeader'[c])
          /\ \A d, c \in Node : beats'[d][c] # 0 => Elected(beats'[d][c], d)
      BY Zenon, <1>2, <2>3, <2>4
    <2> QED
      BY Zenon, <2>2, <2>5, FollowShape
  <1> QED
    BY Zenon, <1>3, <1>5, <1>7, <1>9, <1>10, <1>11
       DEF ElectionNext, electionVars, nodeVars, DeadlinePasses, startElection, Campaign,
           ServeAll

(* In every cluster whoever a node follows won the ballot it is followed for, *)
(* through crashes, late heartbeats and winners that announce themselves      *)
(* after they were deposed (node.go:327-343, 428-437).                        *)
THEOREM FollowedIsElected == ElectionSpec => []FollowedWasElected
  <1>1. FollowInv => FollowedWasElected
    BY Zenon, BallotNode DEF FollowInv, Elected, FollowedWasElected
  <1>2. IInv /\ FollowInv /\ [Next]_vars /\ [ElectionNext]_electionVars => FollowInv'
    BY Zenon, StepFollow
  <1>3. ElectionSpec => [][Next]_vars /\ []IInv
    BY ElectionRefines, InvariantHolds, PTL DEF ImplementsMultiPaxos, Spec
  <1> QED
    BY <1>1, <1>2, <1>3, InitFollow, PTL DEF ElectionSpec

(* A leader that has announced itself follows nobody below its own ballot,    *)
(* and nobody sends itself heartbeats.                                        *)
AnnounceInv ==
  /\ \A n \in Node : isLeader[n] /\ electing[n] # "won" => followedBallot[n] >= leaderBallot[n]
  /\ \A n \in Node : beats[n][n] = 0

(* Nobody leads when a cluster starts (node.go:85-102). *)
LEMMA InitAnnounce == ElectionInit => AnnounceInv
  BY DEF ElectionInit, Init, AnnounceInv

(* Heartbeats go to the peers (node.go:392-399). *)
LEMMA NoOwnBeats ==
  ASSUME FollowInv, AnnounceInv, [ElectionNext]_electionVars
  PROVE  \A n \in Node : beats'[n][n] = 0
  <1>0. beats \in [Node -> [Node -> Nat]] /\ \A n \in Node : beats[n][n] = 0
    BY Zenon DEF FollowInv, AnnounceInv
  <1>1. CASE UNCHANGED beats
    BY Zenon, <1>0, <1>1
  <1>2. ASSUME NEW n \in Node, NEW b, sendHeartbeat(n, b)
        PROVE  \A c \in Node : beats'[c][c] = 0
    BY Zenon, <1>0, <1>2 DEF sendHeartbeat
  <1>3. ASSUME NEW n \in Node, NEW l \in Node, beats' = [beats EXCEPT ![l][n] = 0]
        PROVE  \A c \in Node : beats'[c][c] = 0
    BY Zenon, <1>0, <1>3
  <1>4. ASSUME NEW n \in Node, beats' = [l \in Node |-> [beats[l] EXCEPT ![n] = 0]]
        PROVE  \A c \in Node : beats'[c][c] = 0
    BY Zenon, <1>0, <1>4
  <1> QED
    BY Zenon, <1>1, <1>2, <1>3, <1>4
       DEF ElectionNext, electionVars, nodeVars, DeadlinePasses, Heartbeat, startElection,
           Campaign, AssertLeadership, ServeAll, RestartNode, handleHeartbeat, LoseHeartbeat

(* A node's ballot and the one it follows change with a win, its              *)
(* announcement, a heartbeat taken and a restart (node.go:327-343, 428-437).  *)
LEMMA AnnounceStep ==
  ASSUME TypeOK, CampaignInv, FollowInv, FollowInv', AnnounceInv, [ElectionNext]_electionVars,
         NEW n \in Node, isLeader'[n], electing'[n] # "won"
  PROVE  followedBallot'[n] >= leaderBallot'[n]
  <1>0. /\ isLeader \in [Node -> BOOLEAN] /\ leaderBallot \in [Node -> Nat]
        /\ electing \in [Node -> {"no", "campaign", "won"}]
        /\ followedBallot \in [Node -> Nat] /\ beats \in [Node -> [Node -> Nat]]
    BY Zenon DEF TypeOK, CampaignInv, FollowInv
  <1>1. isLeader[n] /\ electing[n] # "won" => followedBallot[n] >= leaderBallot[n]
    BY Zenon DEF AnnounceInv
  <1>2. CASE /\ isLeader'[n] = isLeader[n] /\ leaderBallot'[n] = leaderBallot[n]
             /\ electing'[n] = electing[n] /\ followedBallot'[n] = followedBallot[n]
    BY Zenon, <1>1, <1>2
  <1>3. ASSUME NEW c \in Node, startElection(c)
        PROVE  followedBallot'[n] >= leaderBallot'[n]
    <2>1. /\ ~isLeader[c] /\ UNCHANGED <<isLeader, leaderBallot, followedBallot>>
          /\ electing' = [electing EXCEPT ![c] = "campaign"]
      BY Zenon, <1>3 DEF startElection, BecomeLeader
    <2>2. n # c
      BY Zenon, <2>1
    <2>3. electing'[n] = electing[n]
      BY Zenon, <1>0, <2>1, <2>2
    <2> QED
      BY Zenon, <1>2, <2>1, <2>3
  <1>4. ASSUME NEW c \in Node, Campaign(c)
        PROVE  followedBallot'[n] >= leaderBallot'[n]
    <2>0. /\ pending[c][0] # NoProposal
          /\ \A d \in Node : d # c => isLeader'[d] = isLeader[d] /\ leaderBallot'[d] = leaderBallot[d]
          /\ \/ UNCHANGED <<isLeader, leaderBallot>>
             \/ isLeader'[c] /\ pending'[c][0] = NoProposal
      BY Zenon, <1>4, SeekingIsACampaign DEF Campaign
    <2>1. /\ electing' = [electing EXCEPT ![c] =
               IF pending'[c][0] # NoProposal THEN "campaign"
               ELSE IF isLeader'[c] THEN "won" ELSE "no"]
          /\ followedBallot' = followedBallot
      BY Zenon, <1>4 DEF Campaign
    <2>2. CASE n # c
      <3>1. electing'[n] = electing[n]
        BY Zenon, <1>0, <2>1, <2>2
      <3> QED
        BY Zenon, <1>2, <2>0, <2>1, <2>2, <3>1
    <2>3. CASE n = c
      <3>1. pending'[c][0] # NoProposal
        BY Zenon, <1>0, <2>1, <2>3
      <3>2. isLeader[n] /\ leaderBallot'[n] = leaderBallot[n]
        BY Zenon, <2>0, <2>3, <3>1
      <3>3. electing[n] # "won"
        BY <2>0, <2>3 DEF CampaignInv
      <3> QED
        BY Zenon, <1>1, <2>1, <3>2, <3>3
    <2> QED
      BY Zenon, <2>2, <2>3
  <1>5. ASSUME NEW c \in Node, AssertLeadership(c)
        PROVE  followedBallot'[n] >= leaderBallot'[n]
    <2>1. /\ followedBallot' = [followedBallot EXCEPT ![c] = leaderBallot[c]]
          /\ electing' = [electing EXCEPT ![c] = "no"]
          /\ UNCHANGED <<isLeader, leaderBallot>>
      BY Zenon, <1>5 DEF AssertLeadership, vars, proposerVars
    <2>2. CASE n # c
      <3>1. electing'[n] = electing[n] /\ followedBallot'[n] = followedBallot[n]
        BY Zenon, <1>0, <2>1, <2>2
      <3> QED
        BY Zenon, <1>2, <2>1, <3>1
    <2>3. CASE n = c
      BY <1>0, <2>1, <2>3
    <2> QED
      BY Zenon, <2>2, <2>3
  <1>6. ASSUME NEW c \in Node, RestartNode(c)
        PROVE  followedBallot'[n] >= leaderBallot'[n]
    <2>1. /\ followedBallot' = [followedBallot EXCEPT ![c] = 0]
          /\ electing' = [electing EXCEPT ![c] = "no"]
          /\ isLeader' = [isLeader EXCEPT ![c] = FALSE]
          /\ leaderBallot' = [leaderBallot EXCEPT ![c] = 0]
      BY Zenon, <1>6 DEF RestartNode, Restart
    <2>2. n # c
      BY Zenon, <1>0, <2>1
    <2>3. /\ electing'[n] = electing[n] /\ followedBallot'[n] = followedBallot[n]
          /\ isLeader'[n] = isLeader[n] /\ leaderBallot'[n] = leaderBallot[n]
      BY Zenon, <1>0, <2>1, <2>2
    <2> QED
      BY Zenon, <1>2, <2>3
  <1>7. ASSUME NEW c \in Node, ServeAll(c)
        PROVE  followedBallot'[n] >= leaderBallot'[n]
    <2>1. UNCHANGED <<isLeader, leaderBallot, electing, followedBallot>>
      BY Zenon, <1>7, ServeKeeps DEF ServeAll, nodeVars
    <2> QED
      BY Zenon, <1>2, <2>1
  <1>8. ASSUME NEW c \in Node, NEW l \in Node, handleHeartbeat(c, l)
        PROVE  followedBallot'[n] >= leaderBallot'[n]
    <2>1. /\ UNCHANGED <<electing, leaderBallot>>
          /\ isLeader' = isLeader \/ isLeader' = [isLeader EXCEPT ![c] = FALSE]
      BY Zenon, <1>8 DEF handleHeartbeat, StepDown, vars, proposerVars
    <2>2. isLeader[n] /\ electing[n] # "won"
      BY ZenonT(30), <1>0, <2>1
    <2>3. \/ followedBallot' = followedBallot
          \/ /\ followedBallot' = [followedBallot EXCEPT ![c] = beats[l][c]]
             /\ beats[l][c] >= followedBallot[c]
      BY Zenon, <1>8 DEF handleHeartbeat
    <2>4. followedBallot'[n] >= followedBallot[n]
      BY <1>0, <2>3
    <2>5. leaderBallot'[n] \in Nat /\ followedBallot[n] \in Nat /\ followedBallot'[n] \in Nat
      BY Zenon, <1>0, <2>1 DEF FollowInv
    <2> QED
      BY <1>1, <2>1, <2>2, <2>4, <2>5
  <1>9. ASSUME NEW c \in Node,
               \/ DeadlinePasses(c) \/ Heartbeat(c) \/ \E l \in Node : LoseHeartbeat(c, l)
        PROVE  followedBallot'[n] >= leaderBallot'[n]
    BY Zenon, <1>2, <1>9 DEF DeadlinePasses, Heartbeat, LoseHeartbeat, vars, proposerVars
  <1>10. CASE UNCHANGED electionVars
    BY Zenon, <1>2, <1>10 DEF electionVars, nodeVars, vars, proposerVars
  <1> QED
    BY Zenon, <1>3, <1>4, <1>5, <1>6, <1>7, <1>8, <1>9, <1>10 DEF ElectionNext

(* A leader steps down for a heartbeat of a ballot no lower than the one it   *)
(* follows, which is no lower than its own; and another node's ballot is not  *)
(* its own (node.go:332-340, types.go ballots carry the node's ID).           *)
LEMMA DeposedStep ==
  ASSUME IInv, FollowInv, AnnounceInv, [ElectionNext]_electionVars,
         NEW n \in Node, isLeader[n], ~isLeader'[n], electing[n] # "won",
         incarnation'[n] = incarnation[n]
  PROVE  followedBallot'[n] > leaderBallot[n]
  <1>0. /\ isLeader \in [Node -> BOOLEAN] /\ leaderBallot \in [Node -> Nat]
        /\ incarnation \in [Node -> Nat]
        /\ followedBallot \in [Node -> Nat] /\ beats \in [Node -> [Node -> Nat]]
        /\ TypeOK
    BY Zenon DEF IInv, TypeOK, FollowInv
  <1>1. ASSUME NEW c \in Node, startElection(c) \/ ServeAll(c) \/ Heartbeat(c)
                 \/ DeadlinePasses(c) \/ AssertLeadership(c) \/ \E l \in Node : LoseHeartbeat(c, l)
        PROVE  FALSE
    <2>1. ServeAll(c) => isLeader' = isLeader
      BY Zenon, <1>0, ServeKeeps DEF ServeAll
    <2> QED
      BY Zenon, <1>1, <2>1 DEF startElection, BecomeLeader, Heartbeat, DeadlinePasses,
         AssertLeadership, LoseHeartbeat, vars, proposerVars
  <1>2. ASSUME NEW c \in Node, Campaign(c)
        PROVE  FALSE
    BY Zenon, <1>0, <1>2, SeekingIsACampaign DEF Campaign
  <1>3. ASSUME NEW c \in Node, RestartNode(c)
        PROVE  FALSE
    <2>1. /\ isLeader' = [isLeader EXCEPT ![c] = FALSE]
          /\ incarnation' = [incarnation EXCEPT ![c] = incarnation[c] + 1]
      BY Zenon, <1>3 DEF RestartNode, Restart
    <2>2. n = c
      BY Zenon, <1>0, <2>1
    <2> QED
      BY <1>0, <2>1, <2>2
  <1>4. ASSUME NEW c \in Node, NEW l \in Node, handleHeartbeat(c, l)
        PROVE  followedBallot'[n] > leaderBallot[n]
    <2>1. /\ isLeader' = [isLeader EXCEPT ![c] = FALSE]
          /\ followedBallot' = [followedBallot EXCEPT ![c] = beats[l][c]]
          /\ beats[l][c] >= followedBallot[c] /\ beats[l][c] # 0
      BY ZenonT(30), <1>4 DEF handleHeartbeat, StepDown, vars, proposerVars
    <2>2. n = c
      BY Zenon, <1>0, <2>1
    <2>3. followedBallot'[n] = beats[l][n] /\ followedBallot[n] >= leaderBallot[n]
      BY Zenon, <1>0, <2>1, <2>2 DEF AnnounceInv
    <2>4. l # n
      BY Zenon, <2>1, <2>2 DEF AnnounceInv
    <2>5. leaderBallot[n] # beats[l][n]
      <3>1. OwnBallot(beats[l][n], l)
        BY Zenon, <2>1, <2>2 DEF FollowInv, Elected
      <3>2. NodeID(beats[l][n]) = l
        BY Zenon, <3>1, BallotNode
      <3>3. CASE leaderBallot[n] = 0
        BY Zenon, <2>1, <2>2, <3>3
      <3>4. CASE leaderBallot[n] # 0
        <4>1. NodeID(leaderBallot[n]) = n
          BY Zenon, <3>4, BallotNode DEF IInv, LeaderInv
        <4> QED
          BY Zenon, <2>4, <3>2, <4>1
      <3> QED
        BY Zenon, <3>3, <3>4
    <2>6. leaderBallot[n] \in Nat /\ followedBallot[n] \in Nat /\ beats[l][n] \in Nat
      BY Zenon, <1>0
    <2> QED
      BY <2>1, <2>2, <2>3, <2>5, <2>6
  <1>5. CASE UNCHANGED electionVars
    BY Zenon, <1>5 DEF electionVars, vars, proposerVars
  <1> QED
    BY Zenon, <1>1, <1>2, <1>3, <1>4, <1>5 DEF ElectionNext

(* In every cluster a leader that has announced itself is deposed only by a   *)
(* node that leads in a ballot above its own: late heartbeats of older        *)
(* leaders, and those of a winner that announces itself after it was deposed, *)
(* bring nobody down (node.go:332-340).                                       *)
THEOREM LeadersAreDeposedByHigher == ElectionSpec => DeposedByHigher
  <1>1. ElectionSpec => [](IInv /\ CampaignInv) /\ [][Next]_vars
    BY ElectionRefines, ElectionInvariants, PTL DEF ImplementsMultiPaxos, Spec
  <1>2. IInv /\ FollowInv /\ [Next]_vars /\ [ElectionNext]_electionVars => FollowInv'
    BY Zenon, StepFollow
  <1>3. ASSUME IInv, CampaignInv, FollowInv, FollowInv', AnnounceInv,
               [ElectionNext]_electionVars
        PROVE  AnnounceInv'
    <2>1. TypeOK
      BY Zenon, <1>3 DEF IInv
    <2> QED
      BY Zenon, <1>3, <2>1, AnnounceStep, NoOwnBeats DEF AnnounceInv
  <1>4. IInv /\ FollowInv /\ AnnounceInv /\ [ElectionNext]_electionVars =>
          [\A n \in Node :
             (/\ isLeader[n] /\ ~isLeader'[n]
              /\ electing[n] # "won"
              /\ incarnation'[n] = incarnation[n]) =>
                followedBallot'[n] > leaderBallot[n]]_electionVars
    BY Zenon, DeposedStep
  <1> QED
    BY <1>1, <1>2, <1>3, <1>4, InitFollow, InitAnnounce, PTL DEF ElectionSpec, DeposedByHigher
=============================================================================
