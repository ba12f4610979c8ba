-------------------------- MODULE MultiPaxosVotes ---------------------------
(***************************************************************************)
(* Votes of an undisturbed instance.  The argument is the classical one: a *)
(* proposer asks only for a value that is SafeAt its ballot, and what is   *)
(* safe stays safe.  What is particular to the code is that a proposer     *)
(* counts messages; the count is one of nodes while no node proposes twice *)
(* (TallyIsQuorum, PromisesDistinct, AcceptedsDistinct).  A node that does *)
(* propose twice, after a restart, still has one value per ballot: its own *)
(* acceptor gives back what it voted for (OwnReport, ReportWins).          *)
(***************************************************************************)
EXTENDS MultiPaxosBasics

(* A Prepare tells its sender and its run. *)
LEMMA PrepareFields ==
  ASSUME NEW n, NEW inc, NEW i, NEW b
  PROVE  /\ Prepare(n, inc, i, b).type = "Prepare" /\ Prepare(n, inc, i, b).from = n
         /\ Prepare(n, inc, i, b).inc = inc /\ Prepare(n, inc, i, b).instance = i
         /\ Prepare(n, inc, i, b).ballot = b
  BY DEF Prepare

(* While no node proposes twice, its Prepares for i are of one run. *)
LEMMA OneRun ==
  ASSUME NEW i, ProposedOnce(i), NEW n, NEW x, NEW y, NEW b, NEW c,
         Prepare(n, x, i, b) \in msgs, Prepare(n, y, i, c) \in msgs
  PROVE  x = y /\ b = c
  <1>1. PICK k1 \in msgs : k1 = Prepare(n, x, i, b)
    OBVIOUS
  <1>2. PICK k2 \in msgs : k2 = Prepare(n, y, i, c)
    OBVIOUS
  <1>3. /\ k1.type = "Prepare" /\ k1.from = n /\ k1.instance = i /\ k1.inc = x /\ k1.ballot = b
        /\ k2.type = "Prepare" /\ k2.from = n /\ k2.instance = i /\ k2.inc = y /\ k2.ballot = c
    BY <1>1, <1>2, PrepareFields
  <1>4. k1 = k2
    BY <1>3 DEF ProposedOnce
  <1> QED
    BY <1>3, <1>4

(* A ballot of an instance asks for one value (Propose takes a new round and  *)
(* a new instance per call, proposer.go:108-141).                             *)
LEMMA OneAccept ==
  ASSUME TypeOK, RequestInv, NEW i \in Instance, ProposedOnce(i),
         NEW m1 \in msgs, NEW m2 \in msgs, m1.type = "Accept", m2.type = "Accept",
         m1.instance = i, m2.instance = i, m1.ballot = m2.ballot
  PROVE  m1 = m2
  <1>1. m1.from \in Node /\ m2.from \in Node
    BY MessageKinds DEF AcceptMsg
  <1>2. OwnBallot(m1.ballot, m1.from) /\ OwnBallot(m2.ballot, m2.from)
    BY DEF RequestInv
  <1>3. m1.from = m2.from
    BY <1>1, <1>2, OneOwner
  <1>4. Prepare(m1.from, m1.inc, i, m1.ballot) \in msgs /\ Prepare(m1.from, m2.inc, i, m1.ballot) \in msgs
    BY <1>3 DEF RequestInv
  <1>5. m1.inc = m2.inc
    BY <1>4, OneRun
  <1> QED
    BY <1>3, <1>5 DEF RequestInv

(* So a ballot has one voted value, and it is a real ballot. *)
LEMMA OneVote ==
  ASSUME TypeOK, RequestInv, NEW i \in Instance, ProposedOnce(i), VoteInv(i),
         NEW u \in votes, NEW w \in votes, u.instance = i, w.instance = i, u.ballot = w.ballot
  PROVE  u.value = w.value /\ u.ballot > 0
  <1>1. PICK k1 \in msgs : /\ k1.type = "Accept" /\ k1.instance = i
                           /\ k1.ballot = u.ballot /\ k1.value = u.value
    BY DEF VoteInv
  <1>2. PICK k2 \in msgs : /\ k2.type = "Accept" /\ k2.instance = i
                           /\ k2.ballot = w.ballot /\ k2.value = w.value
    BY DEF VoteInv
  <1>3. k1 = k2
    BY <1>1, <1>2, OneAccept
  <1>4. k1.from \in Node /\ OwnBallot(k1.ballot, k1.from)
    BY <1>1, MessageKinds DEF AcceptMsg, RequestInv
  <1> QED
    BY <1>1, <1>2, <1>3, <1>4, OwnPositive
-----------------------------------------------------------------------------
(* What a tally holds, or takes in next. *)
Counted(S, m, n, i, b) == m \in S \/ (m \in msgs /\ m.to = n /\ m.instance = i /\ m.ballot = b)

(* The promises a proposal counts come from different nodes: its own acceptor *)
(* answered once, and every peer once (HandleResponse, proposer.go:434-469).  *)
LEMMA PromisesDistinct ==
  ASSUME TypeOK, ReplyInv, NEW i \in Instance, ProposedOnce(i), NEW n \in Node,
         NEW p, NEW inc, NEW next, Fits(p, n, i, inc, next, msgs),
         NEW m1 \in PromiseMsg, NEW m2 \in PromiseMsg, m1.from = m2.from,
         Counted(p.promises, m1, n, i, p.ballot), Counted(p.promises, m2, n, i, p.ballot)
  PROVE  m1 = m2
  <1>0. m1.type = "Promise" /\ m2.type = "Promise"
    BY DEF PromiseMsg
  <1>1. /\ m1.to = n /\ m1.instance = i /\ m1.ballot = p.ballot /\ (m1 \in msgs \/ m1.from = n)
        /\ m2.to = n /\ m2.instance = i /\ m2.ballot = p.ballot /\ (m2 \in msgs \/ m2.from = n)
    BY Zenon DEF Fits, Tallied, Counted
  <1>2. CASE m1.from = n
    <2>1. m1 \notin msgs /\ m2 \notin msgs
      BY ZenonT(30), <1>0, <1>1, <1>2 DEF ReplyInv
    <2> QED
      BY Zenon, <1>2, <2>1 DEF Fits, Counted
  <1>3. CASE m1.from # n
    <2>1. m1 \in msgs /\ m2 \in msgs
      BY <1>1, <1>3
    <2>2. Prepare(n, m1.inc, i, p.ballot) \in msgs /\ Prepare(n, m2.inc, i, p.ballot) \in msgs
      BY Zenon, <1>0, <1>1, <2>1 DEF ReplyInv
    <2>3. m1.inc = m2.inc
      BY <2>2, OneRun
    <2> QED
      BY <1>0, <1>1, <2>1, <2>3 DEF ReplyInv
  <1> QED
    BY Zenon, <1>2, <1>3

(* Likewise for the accepteds. *)
LEMMA AcceptedsDistinct ==
  ASSUME TypeOK, RequestInv, ReplyInv, NEW i \in Instance, ProposedOnce(i), NEW n \in Node,
         NEW p, NEW inc, NEW next, Fits(p, n, i, inc, next, msgs),
         NEW m1 \in AcceptedMsg, NEW m2 \in AcceptedMsg, m1.from = m2.from,
         Counted(p.accepteds, m1, n, i, p.ballot), Counted(p.accepteds, m2, n, i, p.ballot)
  PROVE  m1 = m2
  <1>0. m1 \in AcceptedMsg /\ m2 \in AcceptedMsg /\ m1.type = "Accepted" /\ m2.type = "Accepted"
    BY DEF AcceptedMsg
  <1>1. /\ m1.to = n /\ m1.instance = i /\ m1.ballot = p.ballot /\ (m1 \in msgs \/ m1.from = n)
        /\ m2.to = n /\ m2.instance = i /\ m2.ballot = p.ballot /\ (m2 \in msgs \/ m2.from = n)
    BY Zenon DEF Fits, Tallied, Counted
  <1>2. CASE m1.from = n
    <2>1. m1 \notin msgs /\ m2 \notin msgs
      BY ZenonT(30), <1>0, <1>1, <1>2 DEF ReplyInv
    <2> QED
      BY Zenon, <1>2, <2>1 DEF Fits, Counted
  <1>3. CASE m1.from # n
    <2>1. m1 \in msgs /\ m2 \in msgs
      BY Zenon, <1>1, <1>3
    <2>2. PICK k1 \in msgs : /\ k1.type = "Accept" /\ k1.inc = m1.inc
                             /\ k1.instance = i /\ k1.ballot = p.ballot
      BY <1>0, <1>1, <2>1 DEF ReplyInv
    <2>3. PICK k2 \in msgs : /\ k2.type = "Accept" /\ k2.inc = m2.inc
                             /\ k2.instance = i /\ k2.ballot = p.ballot
      BY <1>0, <1>1, <2>1 DEF ReplyInv
    <2>4. k1 = k2
      BY Zenon, <2>2, <2>3, OneAccept
    <2>5. m1.inc = m2.inc
      BY Zenon, <2>2, <2>3, <2>4
    <2> QED
      BY <1>0, <1>1, <2>5 DEF AcceptedMsg
  <1> QED
    BY <1>2, <1>3
-----------------------------------------------------------------------------
(* A sender of a promise for ballot b has no vote, and will have none, in a   *)
(* ballot between the one it reports and b.                                   *)
LEMMA PromiserWontVote ==
  ASSUME TypeOK, NEW i \in Instance, AcceptorInv(i), NEW m \in PromiseMsg, IsPromise(m),
         m.instance = i, NEW c \in Nat, c < m.ballot,
         c > m.acceptedBallot \/ \A u \in votes : ~(u.node = m.from /\ u.instance = i /\ u.ballot = c)
  PROVE  WontVote(m.from, i, c)
  <1>0. m.from \in Node /\ m.ballot \in Nat /\ m.acceptedBallot \in Nat /\ i \in Slot
    BY Constants DEF PromiseMsg
  <1>1. mem[m.from][i].promised \in Nat
    BY <1>0, EntryTyped
  <1>2. mem[m.from][i].promised > c
    BY <1>0, <1>1 DEF AcceptorInv
  <1>3. ASSUME NEW u \in votes, u.node = m.from, u.instance = i, u.ballot = c PROVE FALSE
    <2>1. u.ballot <= m.acceptedBallot \/ u.ballot >= m.ballot
      BY <1>3 DEF AcceptorInv
    <2> QED
      BY <1>0, <1>3, <2>1
  <1> QED
    BY <1>2, <1>3 DEF WontVote

(* A vote is known by its parts. *)
LEMMA VoteIs ==
  ASSUME TypeOK, NEW u \in votes
  PROVE  Voted(u.node, u.instance, u.ballot, u.value)
  <1>1. u \in [node : Node, instance : Instance, ballot : Nat, value : Value \cup {Nil}]
    BY DEF TypeOK
  <1>2. u = [node |-> u.node, instance |-> u.instance, ballot |-> u.ballot, value |-> u.value]
    BY <1>1
  <1> QED
    BY <1>2 DEF Voted
-----------------------------------------------------------------------------
(* The state of an instance that is still undisturbed. *)
Sound(i) ==
  /\ QuorumFacts /\ TypeOK /\ RequestInv /\ ReplyInv /\ ProposalInv
  /\ Undisturbed(i) /\ AcceptorInv(i) /\ ValueInv(i)

(* A quorum of promises for ballot b that report no vote: any value is safe. *)
LEMMA FreeChoice ==
  ASSUME NEW i \in Instance, Sound(i), NEW T \in SUBSET PromiseMsg, NEW b \in Nat,
         \A m \in T : IsPromise(m) /\ m.instance = i /\ m.ballot = b /\ m.acceptedBallot = 0,
         Senders(T) \in Quorum, NEW v
  PROVE  SafeAt(i, b, v)
  <1>1. ASSUME NEW c \in Nat, c < b, NEW a \in Senders(T)
        PROVE  WontVote(a, i, c)
    <2>1. PICK m \in T : m.from = a
      BY DEF Senders
    <2>2. CASE c > 0
      BY <1>1, <2>1, <2>2, PromiserWontVote DEF Sound
    <2>3. CASE c = 0
      <3>1. \A u \in votes : u.instance = i => u.ballot # 0
        BY OneVote DEF Sound, Undisturbed, ValueInv
      <3> QED
        BY Zenon, <1>1, <2>1, <2>3, <3>1, PromiserWontVote DEF Sound
    <2> QED
      BY <1>1, <2>2, <2>3
  <1> QED
    BY <1>1 DEF SafeAt

(* A quorum of promises of which h reports the highest vote: its value is     *)
(* safe (findHighestAccepted, proposer.go:343-355).                           *)
LEMMA BoundChoice ==
  ASSUME NEW i \in Instance, Sound(i), NEW T \in SUBSET PromiseMsg, NEW b \in Nat,
         \A m \in T : IsPromise(m) /\ m.instance = i /\ m.ballot = b,
         Senders(T) \in Quorum, NEW h \in T, h.acceptedBallot > 0,
         \A m \in T : m.acceptedBallot <= h.acceptedBallot
  PROVE  h.acceptedValue \in Value /\ SafeAt(i, b, h.acceptedValue)
  <1>k. PICK k : k = h.acceptedBallot
    OBVIOUS
  <1>v. PICK v : v = h.acceptedValue
    OBVIOUS
  <1>0. k \in Nat /\ k > 0
    BY Zenon, <1>k DEF PromiseMsg
  <1>1. v \in Value /\ Voted(h.from, i, k, v)
    BY <1>k, <1>v, <1>0 DEF Sound, ValueInv, VoteInv
  <1>2. PICK w \in votes : w.node = h.from /\ w.instance = i /\ w.ballot = k /\ w.value = v
    BY <1>1 DEF Voted
  <1>3. PICK x \in msgs : /\ x.type = "Accept" /\ x.instance = i
                          /\ x.ballot = k /\ x.value = v
    BY Zenon, <1>2 DEF Sound, ValueInv, VoteInv
  <1>4. SafeAt(i, k, v)
    BY <1>3 DEF Sound, ValueInv, MessageSafe
  <1>5. ASSUME NEW c \in Nat, c < b
        PROVE  \E Q \in Quorum : \A a \in Q : Voted(a, i, c, v) \/ WontVote(a, i, c)
    <2>1. CASE c < k
      BY Zenon, <1>4, <2>1 DEF SafeAt
    <2>2. CASE c >= k
      <3>1. ASSUME NEW a \in Senders(T)
            PROVE  Voted(a, i, c, v) \/ WontVote(a, i, c)
        <4>1. PICK m \in T : m.from = a
          BY <3>1 DEF Senders
        <4>2. m.acceptedBallot \in Nat /\ m.acceptedBallot <= k /\ m.ballot = b
          BY <1>k DEF PromiseMsg
        <4>3. CASE c > k
          <5>1. c > m.acceptedBallot
            BY <1>0, <4>2, <4>3
          <5> QED
            BY Zenon, <1>5, <4>1, <4>2, <5>1, PromiserWontVote DEF Sound
        <4>4. CASE c = k /\ \E u \in votes : u.node = a /\ u.instance = i /\ u.ballot = c
          <5>1. PICK u \in votes : u.node = a /\ u.instance = i /\ u.ballot = c
            BY Zenon, <4>4
          <5>2. u.value = v
            BY Zenon, <1>2, <4>4, <5>1, OneVote DEF Sound, Undisturbed, ValueInv
          <5>3. Voted(u.node, u.instance, u.ballot, u.value)
            BY VoteIs DEF Sound
          <5> QED
            BY Zenon, <5>1, <5>2, <5>3
        <4>5. CASE c = k /\ \A u \in votes : ~(u.node = a /\ u.instance = i /\ u.ballot = c)
          BY Zenon, <1>5, <4>1, <4>2, <4>5, PromiserWontVote DEF Sound
        <4> QED
          BY <1>0, <1>5, <2>2, <4>3, <4>4, <4>5
      <3> QED
        BY Zenon, <3>1
    <2> QED
      BY <1>0, <1>5, <2>1, <2>2
  <1> QED
    BY <1>v, <1>1, <1>5 DEF SafeAt

(* Two chosen values of an undisturbed instance are the same. *)
LEMMA ChosenOrdered ==
  ASSUME NEW i \in Instance, Sound(i), NEW u \in votes, NEW w \in votes,
         u.instance = i, w.instance = i, u.ballot < w.ballot,
         ChosenAt(i, u.ballot, u.value)
  PROVE  u.value = w.value
  <1>1. PICK x \in msgs : /\ x.type = "Accept" /\ x.instance = i
                          /\ x.ballot = w.ballot /\ x.value = w.value
    BY Zenon DEF Sound, ValueInv, VoteInv
  <1>2. SafeAt(i, w.ballot, w.value)
    BY Zenon, <1>1 DEF Sound, ValueInv, MessageSafe
  <1>3. u.ballot \in Nat
    BY VoteTyped DEF Sound
  <1>4. PICK Q \in Quorum : \A a \in Q : Voted(a, i, u.ballot, w.value) \/ WontVote(a, i, u.ballot)
    BY <1>2, <1>3 DEF SafeAt
  <1>5. Voters(i, u.ballot, u.value) \in Quorum
    BY DEF ChosenAt
  <1>6. PICK a \in Q : a \in Voters(i, u.ballot, u.value)
    <2>1. QuorumFacts
      BY Zenon DEF Sound
    <2> QED
      BY Zenon, <1>4, <1>5, <2>1, QuorumsMeet
  <1>7. PICK x1 \in votes : x1.node = a /\ x1.instance = i /\ x1.ballot = u.ballot /\ x1.value = u.value
    BY <1>6 DEF Voters
  <1>8. ~WontVote(a, i, u.ballot)
    BY <1>7 DEF WontVote
  <1>9. Voted(a, i, u.ballot, w.value)
    BY Zenon, <1>4, <1>6, <1>8
  <1>10. PICK x2 \in votes : x2.instance = i /\ x2.ballot = u.ballot /\ x2.value = w.value
    BY <1>9 DEF Voted
  <1> QED
    BY Zenon, <1>7, <1>10, OneVote DEF Sound, Undisturbed, ValueInv
-----------------------------------------------------------------------------
(* What was so of an instance before a step that leaves it undisturbed. *)
LEMMA UndisturbedBefore ==
  ASSUME NEW i, Undisturbed(i)', msgs \subseteq msgs'
  PROVE  Undisturbed(i)
  BY DEF Undisturbed, CommitIssued, NonEmpty, ProposedOnce

(* Votes are never taken back. *)
LEMMA VotesGrow ==
  ASSUME AcceptorStep
  PROVE  votes \subseteq votes'
  BY DEF AcceptorStep, Idle, Promising, Voting, Forgetting, Reloading

(* An acceptor that will not vote in a ballot never does. *)
LEMMA WontVoteStable ==
  ASSUME TypeOK, TypeOK', AcceptorStep, NEW i \in Instance, ~CommitIssued(i)', AcceptorInv(i),
         NEW a \in Node, NEW c \in Nat, WontVote(a, i, c)
  PROVE  WontVote(a, i, c)'
  <1>0. i \in Slot
    BY Zenon, Constants
  <1>1. mem[a][i].promised \in Nat /\ mem'[a][i].promised \in Nat
    <2>1. mem[a][i] \in Entry /\ mem'[a][i] \in Entry
      BY <1>0 DEF TypeOK
    <2> QED
      BY Zenon, <2>1 DEF Entry
  <1>2. mem'[a][i].promised >= mem[a][i].promised
    BY Zenon, StepSteady DEF Steady
  <1>3. mem[a][i].promised > c
    BY DEF WontVote
  <1>4. ASSUME NEW u \in votes', u.node = a, u.instance = i, u.ballot = c
        PROVE  FALSE
    <2>1. CASE u \in votes
      BY <1>4, <2>1 DEF WontVote
    <2>2. CASE u \notin votes
      <3>1. u.ballot >= mem[a][i].promised
        BY Zenon, <1>4, <2>2, NewVoteAbove
      <3> QED
        BY <1>1, <1>3, <1>4, <3>1
    <2> QED
      BY <2>1, <2>2
  <1>5. mem'[a][i].promised > c
    BY <1>1, <1>2, <1>3
  <1> QED
    BY Zenon, <1>4, <1>5 DEF WontVote

(* A safe value stays safe. *)
LEMMA SafeAtStable ==
  ASSUME TypeOK, TypeOK', AcceptorStep, NEW i \in Instance, ~CommitIssued(i)', AcceptorInv(i),
         NEW b, NEW v, SafeAt(i, b, v)
  PROVE  SafeAt(i, b, v)'
  <1>1. ASSUME NEW c \in Nat, c < b
        PROVE  \E Q \in Quorum : \A a \in Q : Voted(a, i, c, v)' \/ WontVote(a, i, c)'
    <2>1. PICK Q \in Quorum : \A a \in Q : Voted(a, i, c, v) \/ WontVote(a, i, c)
      BY <1>1 DEF SafeAt
    <2>2. ASSUME NEW a \in Q PROVE Voted(a, i, c, v)' \/ WontVote(a, i, c)'
      <3>1. a \in Node
        BY DEF Quorum
      <3>2. CASE Voted(a, i, c, v)
        BY <3>2, VotesGrow DEF Voted
      <3>3. CASE WontVote(a, i, c)
        BY <3>1, <3>3, WontVoteStable
      <3> QED
        BY <2>1, <3>2, <3>3
    <2> QED
      BY <2>2
  <1> QED
    BY <1>1 DEF SafeAt

(* A chosen value stays chosen. *)
LEMMA ChosenStable ==
  ASSUME QuorumFacts, AcceptorStep, NEW i, NEW b, NEW v, ChosenAt(i, b, v)
  PROVE  ChosenAt(i, b, v)'
  <1>1. Voters(i, b, v) \subseteq Voters(i, b, v)'
    BY VotesGrow DEF Voters
  <1>2. Voters(i, b, v)' \in SUBSET Node /\ Voters(i, b, v) \in Quorum
    BY DEF Voters, ChosenAt
  <1>3. Voters(i, b, v)' \in Quorum
    BY <1>1, <1>2, QuorumGrows
  <1> QED
    BY <1>3 DEF ChosenAt, Quorum, QuorumSize

(* Hence what was right of a proposal or a message stays right. *)
LEMMA SafeStable ==
  ASSUME QuorumFacts, TypeOK, TypeOK', AcceptorStep, NEW i \in Instance, ~CommitIssued(i)',
         AcceptorInv(i)
  PROVE  /\ \A p : ProposalSafe(p, i) => ProposalSafe(p, i)'
         /\ \A m : MessageSafe(m, i) => MessageSafe(m, i)'
  <1>0. votes \subseteq votes'
    BY VotesGrow
  <1>1. ASSUME NEW p, ProposalSafe(p, i) PROVE ProposalSafe(p, i)'
    <2>1. p.pc = "accept" => SafeAt(i, p.ballot, Wire(p.value))'
      BY Zenon, <1>1, SafeAtStable DEF ProposalSafe
    <2>2. p.pc = "accepteds" => \A m \in p.accepteds : Voted(m.from, i, m.ballot, Wire(p.value))'
      BY Zenon, <1>0, <1>1 DEF ProposalSafe, Voted
    <2>3. p.pc = "commit" => ChosenAt(i, p.ballot, Wire(p.value))'
      BY Zenon, <1>1, ChosenStable DEF ProposalSafe
    <2> QED
      BY Zenon, <2>1, <2>2, <2>3 DEF ProposalSafe
  <1>2. ASSUME NEW m, MessageSafe(m, i) PROVE MessageSafe(m, i)'
    <2>1. (m.type = "Accept" /\ m.instance = i) => SafeAt(i, m.ballot, m.value)'
      BY <1>2, SafeAtStable DEF MessageSafe
    <2> QED
      BY Zenon, <1>0, <1>2, <2>1 DEF MessageSafe
  <1> QED
    BY <1>1, <1>2
-----------------------------------------------------------------------------
(* A step that leaves instance i undisturbed. *)
SoundStep(i) ==
  /\ Sound(i) /\ TypeOK' /\ AcceptorStep /\ msgs \subseteq msgs' /\ Undisturbed(i)'

(* No bytes never count as a value. *)
LEMMA WireValue ==
  ASSUME NEW v \in Bytes, Wire(v) # Nil
  PROVE  v \in Value /\ Wire(v) = v
  BY DEF Wire, Bytes

(* A value is its own wire form. *)
LEMMA ValueWire ==
  ASSUME NEW v \in Value
  PROVE  Wire(v) = v /\ v # Nil
  BY ValueAssumption DEF Wire

(* A step with which instance i has no Commit and no empty value yet. *)
QuietStep(i) ==
  /\ TypeOK /\ TypeOK' /\ AcceptorInv(i) /\ VoteInv(i) /\ AcceptorStep
  /\ msgs \subseteq msgs' /\ ~CommitIssued(i)' /\ NonEmpty(i)'

LEMMA SoundIsQuiet ==
  ASSUME NEW i, SoundStep(i)
  PROVE  QuietStep(i)
  BY Zenon DEF SoundStep, Sound, Undisturbed, ValueInv, QuietStep

(* A vote granted for i is for a real value, and is recorded. *)
LEMMA VotingValue ==
  ASSUME NEW i \in Instance, QuietStep(i), NEW a \in Node, NEW b \in Nat, NEW v \in Bytes,
         Voting(a, i, b, v)
  PROVE  v \in Value /\ Voted(a, i, b, v)'
  <1>1. PICK k \in msgs' : /\ k.type = "Accept" /\ k.instance = i
                           /\ k.ballot = b /\ k.value = Wire(v)
    BY DEF Voting
  <1>2. Wire(v) # Nil
    BY <1>1 DEF QuietStep, NonEmpty
  <1>3. v \in Value /\ Wire(v) = v
    BY <1>2, WireValue
  <1>4. Vote(a, i, b, v) \in votes'
    BY DEF Voting
  <1> QED
    BY <1>3, <1>4 DEF Vote, Voted

(* What an acceptor holds is what it voted for, in memory and on disk. *)
Held(a, i) ==
  mem[a][i].acceptedBallot # 0 =>
    /\ mem[a][i].acceptedValue \in Value
    /\ disk[a][i].acceptedValue = mem[a][i].acceptedValue
    /\ Voted(a, i, mem[a][i].acceptedBallot, mem[a][i].acceptedValue)

(* Every step keeps it so: a save copies the value, a restart loads the copy. *)
LEMMA StepHeld ==
  ASSUME NEW i \in Instance, QuietStep(i), NEW a \in Node
  PROVE  Held(a, i)'
  <1>0. i \in Slot /\ votes \subseteq votes'
    BY Constants, VotesGrow DEF QuietStep
  <1>1. Held(a, i)
    BY Zenon DEF QuietStep, VoteInv, Held
  <1>2. ASSUME mem'[a][i].acceptedBallot = mem[a][i].acceptedBallot,
               mem'[a][i].acceptedValue = mem[a][i].acceptedValue,
               Copy(mem'[a][i], disk'[a][i])
        PROVE  Held(a, i)'
    BY Zenon, <1>0, <1>1, <1>2 DEF Held, Voted, Copy
  <1>3. ASSUME mem'[a][i] = mem[a][i], disk'[a][i] = disk[a][i] PROVE Held(a, i)'
    BY Zenon, <1>0, <1>1, <1>3 DEF Held, Voted
  <1>4. CASE Idle
    BY <1>3, <1>4 DEF Idle
  <1>5. ASSUME NEW c \in Node, NEW j \in Slot, NEW b \in Nat, Promising(c, j, b)
        PROVE  Held(a, i)'
    <2>1. GrantPrepare(c, j, b) /\ Saved(c)
      BY Zenon, <1>5 DEF Promising, GrantPrepare
    <2>2. CASE a # c
      BY Zenon, <1>3, <2>1, <2>2 DEF Saved
    <2>3. CASE a = c
      BY Zenon, <1>0, <1>2, <2>1, <2>3 DEF Saved, GrantPrepare
    <2> QED
      BY <2>2, <2>3
  <1>6. ASSUME NEW c \in Node, NEW j \in Instance, NEW b \in Nat, NEW v \in Bytes, Voting(c, j, b, v)
        PROVE  Held(a, i)'
    <2>1. GrantAccept(c, j, b, v) /\ Saved(c)
      BY Zenon, <1>6 DEF Voting, GrantAccept
    <2>2. CASE a # c
      BY Zenon, <1>3, <2>1, <2>2 DEF Saved
    <2>3. CASE a = c /\ i # j
      BY Zenon, <1>0, <1>2, <2>1, <2>3 DEF Saved, GrantAccept
    <2>4. CASE a = c /\ i = j
      <3>1. v \in Value /\ Voted(a, i, b, v)'
        BY Zenon, <1>6, <2>4, VotingValue
      <3>2. mem'[a][i].acceptedBallot = b /\ mem'[a][i].acceptedValue = v
        BY <2>1, <2>4 DEF GrantAccept
      <3>3. disk'[a][i].acceptedValue = v
        BY Zenon, <1>0, <2>1, <2>4, <3>1, <3>2 DEF Saved, Copy
      <3> QED
        BY Zenon, <3>1, <3>2, <3>3 DEF Held
    <2> QED
      BY <2>2, <2>3, <2>4
  <1>7. ASSUME NEW c \in Node, NEW j \in Instance, Forgetting(c, j)
        PROVE  Held(a, i)'
    <2>1. i # j
      BY <1>7 DEF Forgetting, QuietStep, CommitIssued
    <2> QED
      BY Zenon, <1>0, <1>3, <1>7, <2>1 DEF Forgetting, Forget
  <1>8. ASSUME NEW c \in Node, Reloading(c)
        PROVE  Held(a, i)'
    <2>1. CASE a # c
      BY Zenon, <1>3, <1>8, <2>1 DEF Reloading, Reload
    <2>2. CASE a = c
      <3>1. /\ Copy(disk[a][i], mem'[a][i]) /\ disk' = disk
            /\ disk[a][i].acceptedBallot = mem[a][i].acceptedBallot
        BY Zenon, <1>0, <1>8, <2>2 DEF Reloading, Reload, QuietStep, AcceptorInv
      <3>2. mem'[a][i].acceptedBallot = mem[a][i].acceptedBallot
        BY Zenon, <3>1 DEF Copy
      <3> QED
        BY Zenon, <1>0, <1>1, <3>1, <3>2 DEF Held, Voted, Copy
    <2> QED
      BY <2>1, <2>2
  <1> QED
    BY Zenon, <1>4, <1>5, <1>6, <1>7, <1>8 DEF QuietStep, AcceptorStep

(* A promise, new or old, reports a vote that was cast. *)
LEMMA StepReports ==
  ASSUME NEW i \in Instance, QuietStep(i), NEW m \in PromiseMsg, IsPromise(m)', m.instance = i,
         m.acceptedBallot # 0
  PROVE  m.acceptedValue \in Value /\ Voted(m.from, i, m.acceptedBallot, m.acceptedValue)'
  <1>0. votes \subseteq votes'
    BY VotesGrow DEF QuietStep
  <1>1. CASE IsPromise(m)
    BY Zenon, <1>0, <1>1 DEF QuietStep, VoteInv, Voted
  <1>2. CASE ~IsPromise(m)
    <2>1. PICK a \in Node, j \in Slot, b \in Nat : Promising(a, j, b) /\ Reports(m, a, j, b)
      BY <1>2, NewPromise DEF QuietStep
    <2>2. /\ a = m.from /\ m.acceptedBallot = mem[a][i].acceptedBallot
          /\ Wire(m.acceptedValue) = Wire(mem[a][i].acceptedValue)
      BY Zenon, <2>1 DEF Reports
    <2>3. /\ mem[a][i].acceptedValue \in Value
          /\ Voted(a, i, m.acceptedBallot, mem[a][i].acceptedValue)
      BY Zenon, <2>2 DEF QuietStep, VoteInv
    <2>4. m.acceptedValue \in Bytes
      BY DEF PromiseMsg
    <2>5. m.acceptedValue = mem[a][i].acceptedValue
      BY Zenon, <2>2, <2>3, <2>4, ValueWire, WireValue
    <2> QED
      BY Zenon, <1>0, <2>2, <2>3, <2>5 DEF Voted
  <1> QED
    BY Zenon, <1>1, <1>2

(* Votes and reports of them. *)
LEMMA StepVoteInv ==
  ASSUME NEW i \in Instance, QuietStep(i)
  PROVE  VoteInv(i)'
  <1>1. \A a \in Node : Held(a, i)'
    BY Zenon, StepHeld
  <1>2. ASSUME NEW u \in votes', u.instance = i
        PROVE  \E m \in msgs' : /\ m.type = "Accept" /\ m.instance = i
                                 /\ m.ballot = u.ballot /\ m.value = u.value
    <2>1. CASE u \in votes
      BY Zenon, <1>2, <2>1 DEF QuietStep, VoteInv
    <2>2. CASE u \notin votes
      <3>1. PICK a \in Node, j \in Instance, b \in Nat, v \in Bytes :
              Voting(a, j, b, v) /\ u = Vote(a, j, b, v)
        BY Zenon, <2>2, NewVote DEF QuietStep
      <3>2. u.instance = j /\ u.ballot = b /\ u.value = Wire(v)
        BY <3>1 DEF Vote
      <3> QED
        BY Zenon, <1>2, <3>1, <3>2 DEF Voting
    <2> QED
      BY <2>1, <2>2
  <1>3. \A m \in PromiseMsg : (IsPromise(m)' /\ m.instance = i /\ m.acceptedBallot # 0) =>
          m.acceptedValue \in Value /\ Voted(m.from, i, m.acceptedBallot, m.acceptedValue)'
    BY StepReports
  <1> QED
    BY Zenon, <1>1, <1>2, <1>3 DEF VoteInv, Held
-----------------------------------------------------------------------------
(* One value per ballot.  A promise reports a ballot not above its own. *)
LEMMA StepBounds ==
  ASSUME NEW i \in Instance, QuietStep(i), BallotInv(i),
         NEW m \in PromiseMsg, IsPromise(m)', m.instance = i
  PROVE  m.acceptedBallot <= m.ballot
  <1>1. CASE IsPromise(m)
    BY Zenon, <1>1 DEF BallotInv
  <1>2. CASE ~IsPromise(m)
    <2>1. PICK a \in Node, j \in Slot, b \in Nat : Promising(a, j, b) /\ Reports(m, a, j, b)
      BY <1>2, NewPromise DEF QuietStep
    <2>2. j = i /\ m.ballot = b /\ m.acceptedBallot = mem[a][i].acceptedBallot
      BY Zenon, <2>1 DEF Reports
    <2>3. b >= mem[a][i].promised
      BY Zenon, <2>1, <2>2 DEF Promising, GrantPrepare
    <2>4. mem[a][i].acceptedBallot <= mem[a][i].promised
      BY Zenon DEF QuietStep, AcceptorInv
    <2>5. mem[a][i].promised \in Nat /\ mem[a][i].acceptedBallot \in Nat
      BY Zenon, Constants, EntryTyped DEF QuietStep
    <2> QED
      BY <2>2, <2>3, <2>4, <2>5
  <1> QED
    BY <1>1, <1>2

(* The node of an Accept has voted for it: what its acceptor holds is not      *)
(* below (runPhase2 asks the own acceptor first, proposer.go:265-274).         *)
LEMMA OwnVote ==
  ASSUME TypeOK, NEW i \in Instance, AcceptorInv(i), BallotInv(i), NEW k \in msgs, AcceptOf(k, i)
  PROVE  /\ k.from \in Node /\ k.ballot \in Nat
         /\ k.ballot <= mem[k.from][i].acceptedBallot
         /\ mem[k.from][i].acceptedBallot <= mem[k.from][i].promised
  <1>1. k \in AcceptMsg
    BY Zenon, MessageKinds DEF AcceptOf
  <1>2. k.from \in Node /\ k.ballot \in Nat
    BY <1>1 DEF AcceptMsg
  <1>3. PICK u : u = [node |-> k.from, instance |-> i, ballot |-> k.ballot, value |-> k.value]
    BY Zenon
  <1>4. u \in votes
    BY Zenon, <1>3 DEF BallotInv, Voted
  <1>5. u.node = k.from /\ u.instance = i /\ u.ballot = k.ballot
    BY <1>3
  <1> QED
    BY Zenon, <1>2, <1>4, <1>5 DEF AcceptorInv

(* Only the node that sent an Accept proposes in its ballot (types.go:17-21). *)
LEMMA SameOwner ==
  ASSUME TypeOK, RequestInv, ProposalInv, NEW i \in Instance, NEW k \in msgs, AcceptOf(k, i),
         NEW n \in Node, pending[n][i].pc # "none", k.ballot = pending[n][i].ballot
  PROVE  k.from = n /\ k.ballot > 0
  <1>1. k \in AcceptMsg
    BY Zenon, MessageKinds DEF AcceptOf
  <1>2. k.from \in Node
    BY Zenon, <1>1 DEF AcceptMsg
  <1>3. OwnBallot(k.ballot, k.from)
    BY DEF RequestInv, AcceptOf
  <1>4. Fits(pending[n][i], n, i, incarnation[n], nextInstance[n], msgs)
    BY Zenon, Constants DEF ProposalInv
  <1>5. OwnBallot(k.ballot, n)
    BY Zenon, <1>4 DEF Fits
  <1> QED
    BY Zenon, <1>2, <1>3, <1>5, OneOwner, OwnPositive

(* The own acceptor gives the earlier vote back (proposer.go:190-199). *)
LEMMA OwnReport ==
  ASSUME TypeOK, RequestInv, ProposalInv, NEW i \in Instance, AcceptorInv(i), BallotInv(i),
         NEW k \in msgs, AcceptOf(k, i), NEW n \in Node, pending[n][i].pc = "prepare",
         GrantPrepare(n, i, pending[n][i].ballot), k.ballot = pending[n][i].ballot
  PROVE  mem[n][i].acceptedBallot = pending[n][i].ballot
  <1>1. k.from = n
    BY SameOwner
  <1>2. /\ k.ballot \in Nat /\ k.ballot <= mem[n][i].acceptedBallot
        /\ mem[n][i].acceptedBallot <= mem[n][i].promised
    BY Zenon, <1>1, OwnVote
  <1>3. k.ballot >= mem[n][i].promised
    BY Zenon DEF GrantPrepare
  <1>4. mem[n][i].promised \in Nat /\ mem[n][i].acceptedBallot \in Nat
    BY Zenon, Constants, EntryTyped
  <1> QED
    BY <1>2, <1>3, <1>4

(* findHighestAccepted then finds the earlier value (proposer.go:343-355).    *)
LEMMA ReportWins ==
  ASSUME TypeOK, RequestInv, ProposalInv, NEW i \in Instance, BallotInv(i),
         NEW k \in msgs, AcceptOf(k, i), NEW n \in Node, pending[n][i].pc = "promises",
         k.ballot = pending[n][i].ballot, NEW m \in PromiseMsg, m \in msgs, m.instance = i,
         m.ballot = pending[n][i].ballot,
         NEW v \in HighestAccepted(pending[n][i].promises \cup {m})
  PROVE  v # Nil /\ Wire(v) = k.value
  <1>p. PICK p : p = pending[n][i]
    OBVIOUS
  <1>T. PICK T : T = p.promises \cup {m}
    BY Zenon
  <1>0. i \in Slot /\ p.pc = "promises" /\ p.ballot = k.ballot /\ k.ballot > 0
    <2>1. pending[n][i].pc # "none"
      OBVIOUS
    <2> QED
      BY Zenon, <1>p, <2>1, Constants, SameOwner
  <1>1. p \in Proposal /\ Fits(p, n, i, incarnation[n], nextInstance[n], msgs)
    BY Zenon, <1>p, <1>0, ProposalTyped DEF ProposalInv
  <1>2. T \in SUBSET PromiseMsg
    BY Zenon, <1>T, <1>1 DEF Proposal
  <1>3. \A x \in T : IsPromise(x) /\ x.instance = i /\ x.ballot = k.ballot
    <2>1. \A x \in p.promises : IsPromise(x) /\ x.instance = i /\ x.ballot = k.ballot
      BY Zenon, <1>p, <1>0, <1>1 DEF IsPromise, Fits, Tallied
    <2>2. IsPromise(m)
      BY Zenon DEF IsPromise, PromiseMsg
    <2> QED
      BY Zenon, <1>p, <1>T, <1>0, <2>1, <2>2
  <1>4. \A x \in T : x.acceptedBallot \in Nat /\ x.acceptedBallot <= k.ballot
    <2>1. \A x \in T : x.acceptedBallot <= k.ballot
      BY Zenon, <1>2, <1>3 DEF BallotInv
    <2> QED
      BY <1>2, <2>1 DEF PromiseMsg
  <1>5. PICK x \in T : x.acceptedBallot = k.ballot
    BY Zenon, <1>p, <1>T, <1>0 DEF BallotInv, Repeats
  <1>6. v \in HighestAccepted(T)
    BY Zenon, <1>p, <1>T
  <1>7. PICK h \in T : /\ v = h.acceptedValue
                       /\ \A y \in T : y.acceptedBallot > 0 => y.acceptedBallot <= h.acceptedBallot
    BY Zenon, <1>0, <1>5, <1>6 DEF HighestAccepted
  <1>8. h.acceptedBallot = k.ballot /\ h.acceptedBallot # 0
    BY <1>0, <1>4, <1>5, <1>7
  <1>9. v \in Value /\ Voted(h.from, i, k.ballot, v)
    BY Zenon, <1>2, <1>3, <1>7, <1>8 DEF BallotInv, VoteInv
  <1>10. PICK u : u = [node |-> h.from, instance |-> i, ballot |-> k.ballot, value |-> v]
    BY Zenon
  <1>11. u \in votes /\ u.instance = i /\ u.ballot = k.ballot /\ u.value = v
    BY <1>9, <1>10 DEF Voted
  <1>12. \E a \in msgs : AcceptOf(a, i) /\ a.ballot = k.ballot /\ a.value = v
    <2>1. VoteInv(i)
      BY Zenon DEF BallotInv
    <2>2. PICK a \in msgs : /\ a.type = "Accept" /\ a.instance = i
                            /\ a.ballot = u.ballot /\ a.value = u.value
      BY Zenon, <1>11, <2>1 DEF VoteInv
    <2> QED
      BY Zenon, <1>11, <2>2 DEF AcceptOf
  <1>13. k.value = v
    BY Zenon, <1>12 DEF BallotInv
  <1> QED
    BY Zenon, <1>9, <1>13, ValueWire

(* A proposal in a ballot used before keeps the earlier value in sight. *)
LEMMA StepRepeats ==
  ASSUME TypeOK, RequestInv, ProposalInv, StepEffect, NEW i \in Instance, AcceptorInv(i),
         BallotInv(i), NEW k \in msgs, AcceptOf(k, i), NEW n \in Node
  PROVE  Repeats(pending'[n][i], k)
  <1>0. i \in Slot
    BY Zenon, Constants
  <1>p. PICK p : p = pending[n][i]
    OBVIOUS
  <1>q. PICK q : q = pending'[n][i]
    OBVIOUS
  <1>1. Repeats(p, k)
    BY Zenon, <1>p DEF BallotInv
  <1>2. ASSUME q.pc \notin {"promises", "accept"} PROVE Repeats(q, k)
    BY Zenon, <1>2 DEF Repeats
  <1>3. ASSUME q = NoProposal PROVE Repeats(q, k)
    BY Zenon, <1>3 DEF NoProposal, Repeats
  <1>4. ASSUME NEW pc \in {"accepteds", "commit"}, NEW ps, NEW as, q = With(p, pc, p.value, ps, as)
        PROVE  Repeats(q, k)
    BY <1>4 DEF With, Repeats
  <1>5. ASSUME StartPhase1Effect(n, i) PROVE Repeats(q, k)
    <2>o. PICK own : own = PromiseOf(n, n, incarnation[n], i, p.ballot, mem[n][i].acceptedValue)
      BY Zenon
    <2>1. ASSUME p.pc = "prepare", GrantPrepare(n, i, p.ballot),
                 q = With(p, "promises", p.value, {own}, p.accepteds)
          PROVE  Repeats(q, k)
      <3>1. q.ballot = p.ballot /\ q.pc = "promises" /\ q.promises = {own}
        BY Zenon, <2>1 DEF With
      <3>2. own.acceptedBallot = mem[n][i].acceptedBallot
        BY <2>o DEF PromiseOf
      <3>3. k.ballot = p.ballot => mem[n][i].acceptedBallot = p.ballot
        BY Zenon, <1>p, <2>1, OwnReport
      <3> QED
        BY Zenon, <3>1, <3>2, <3>3 DEF Repeats
    <2> QED
      BY Zenon, <1>p, <1>q, <1>3, <1>5, <2>o, <2>1 DEF StartPhase1Effect, Becomes
  <1>6. ASSUME StartPhase2Effect(n, i) PROVE Repeats(q, k)
    BY Zenon, <1>p, <1>q, <1>3, <1>4, <1>6 DEF StartPhase2Effect, Becomes
  <1>7. ASSUME NEW m \in msgs, m.instance = i, ReceiveAcceptedEffect(n, m) PROVE Repeats(q, k)
    <2>1. \/ q = With(p, "accepteds", p.value, p.promises, p.accepteds \cup {m})
          \/ q = With(p, "commit", p.value, p.promises, {})
      BY <1>p, <1>q, <1>7 DEF ReceiveAcceptedEffect, Becomes
    <2> QED
      BY Zenon, <1>4, <2>1
  <1>8. ASSUME NEW m \in msgs, m.instance = i, ReceivePromiseEffect(n, m) PROVE Repeats(q, k)
    <2>1. /\ m \in PromiseMsg /\ p.pc = "promises" /\ p.ballot = m.ballot
          /\ \/ q = With(p, "promises", p.value, p.promises \cup {m}, p.accepteds)
             \/ \E v \in HighestAccepted(p.promises \cup {m}) :
                  q = With(p, "accept", IF v # Nil THEN v ELSE p.value, {}, p.accepteds)
             \/ q = NoProposal
      BY Zenon, <1>p, <1>q, <1>8 DEF ReceivePromiseEffect, Becomes
    <2>2. ASSUME q = With(p, "promises", p.value, p.promises \cup {m}, p.accepteds)
          PROVE  Repeats(q, k)
      <3>1. q.ballot = p.ballot /\ q.pc = "promises" /\ q.promises = p.promises \cup {m}
        BY Zenon, <2>2 DEF With
      <3> QED
        BY Zenon, <1>1, <2>1, <3>1 DEF Repeats
    <2>3. ASSUME NEW v \in HighestAccepted(p.promises \cup {m}),
                 q = With(p, "accept", IF v # Nil THEN v ELSE p.value, {}, p.accepteds)
          PROVE  Repeats(q, k)
      <3>1. ASSUME k.ballot = p.ballot PROVE v # Nil /\ Wire(v) = k.value
        <4>1. /\ pending[n][i].pc = "promises" /\ k.ballot = pending[n][i].ballot
              /\ m.ballot = pending[n][i].ballot /\ m.instance = i /\ m \in PromiseMsg
          BY Zenon, <1>p, <1>8, <2>1, <3>1
        <4>2. v \in HighestAccepted(pending[n][i].promises \cup {m})
          BY Zenon, <1>p, <2>3
        <4> QED
          BY <4>1, <4>2, ReportWins
      <3>2. q.ballot = p.ballot /\ q.pc = "accept" /\ q.value = IF v # Nil THEN v ELSE p.value
        BY <2>3 DEF With
      <3> QED
        BY Zenon, <3>1, <3>2 DEF Repeats
    <2> QED
      BY Zenon, <1>3, <2>1, <2>2, <2>3
  <1>9. ASSUME q.pc = "none" \/ q.pc = "prepare" PROVE Repeats(q, k)
    BY <1>2, <1>9
  <1>10. Repeats(q, k)
    BY Zenon, <1>0, <1>p, <1>q, <1>1, <1>5, <1>6, <1>7, <1>8, <1>9, ProposalChange
  <1> QED
    BY Zenon, <1>q, <1>10

(* An Accept sent by this step. *)
LEMMA FreshAccept ==
  ASSUME TypeOK, RequestInv, ProposalInv, StepEffect, NEW i \in Instance, BallotInv(i),
         NEW k \in msgs', k \notin msgs, AcceptOf(k, i)
  PROVE  /\ Voted(k.from, i, k.ballot, k.value)'
         /\ \A m \in msgs' : (AcceptOf(m, i) /\ m.ballot = k.ballot) => m.value = k.value
         /\ \A n \in Node : Repeats(pending'[n][i], k)
  <1>1. PICK n \in Node, j \in Instance :
          /\ pending[n][j].pc = "accept"
          /\ StartPhase2Effect(n, j)
          /\ votes' = votes \cup {Vote(n, j, pending[n][j].ballot, pending[n][j].value)}
          /\ pending'[n][j].pc = "accepteds"
          /\ k = Accept(n, incarnation[n], j, pending[n][j].ballot, pending[n][j].value)
    BY Zenon, NewAccept DEF AcceptOf
  <1>p. PICK p : p = pending[n][j]
    BY Zenon
  <1>2. j = i /\ k.from = n /\ k.ballot = p.ballot /\ k.value = Wire(p.value)
    BY <1>p, <1>1 DEF Accept, AcceptOf
  <1>3. Voted(k.from, i, k.ballot, k.value)'
    BY Zenon, <1>p, <1>1, <1>2 DEF Vote, Voted
  <1>4. ASSUME NEW m \in msgs', AcceptOf(m, i), m.ballot = k.ballot
        PROVE  m.value = k.value
    <2>1. m \in msgs \/ m = k
      BY Zenon, <1>1 DEF StartPhase2Effect
    <2>2. ASSUME m \in msgs PROVE Wire(p.value) = m.value
      BY Zenon, <1>p, <1>1, <1>2, <1>4, <2>2 DEF BallotInv, Repeats
    <2> QED
      BY Zenon, <1>2, <2>1, <2>2
  <1>5. ASSUME NEW c \in Node PROVE Repeats(pending'[c][i], k)
    <2>1. CASE c = n
      BY ZenonT(30), <1>1, <1>2, <2>1 DEF Repeats
    <2>2. CASE c # n
      <3>0. i \in Slot
        BY Zenon, Constants
      <3>1. pending'[c][i] = pending[c][i]
        BY Zenon, <1>1, <1>2, <2>2, <3>0 DEF StartPhase2Effect, Becomes
      <3>2. /\ Fits(pending[c][i], c, i, incarnation[c], nextInstance[c], msgs)
            /\ Fits(pending[n][i], n, i, incarnation[n], nextInstance[n], msgs)
        BY Zenon, <3>0 DEF ProposalInv
      <3>3. OwnBallot(k.ballot, n)
        BY Zenon, <1>p, <1>1, <1>2, <3>2 DEF Fits
      <3>4. pending[c][i].pc # "none" => OwnBallot(pending[c][i].ballot, c)
        BY Zenon, <3>2 DEF Fits
      <3>5. pending[c][i].pc # "none" => k.ballot # pending[c][i].ballot
        BY Zenon, <2>2, <3>3, <3>4, OneOwner
      <3> QED
        BY Zenon, <3>1, <3>5 DEF Repeats
    <2> QED
      BY Zenon, <2>1, <2>2
  <1> QED
    BY Zenon, <1>3, <1>4, <1>5

(* Every step keeps one value per ballot, restarts included. *)
LEMMA StepBallotInv ==
  ASSUME TypeOK, RequestInv, ProposalInv, StepEffect, NEW i \in Instance, QuietStep(i),
         BallotInv(i)
  PROVE  BallotInv(i)'
  <1>0. votes \subseteq votes' /\ AcceptorInv(i)
    BY VotesGrow DEF QuietStep
  <1>1. VoteInv(i)'
    BY Zenon, StepVoteInv
  <1>2. ASSUME NEW k \in msgs', AcceptOf(k, i)
        PROVE  /\ Voted(k.from, i, k.ballot, k.value)'
               /\ \A m \in msgs' : (AcceptOf(m, i) /\ m.ballot = k.ballot) => m.value = k.value
               /\ \A n \in Node : Repeats(pending'[n][i], k)
    <2>1. CASE k \notin msgs
      BY Zenon, <1>2, <2>1, FreshAccept
    <2>2. CASE k \in msgs
      <3>1. Voted(k.from, i, k.ballot, k.value)'
        BY Zenon, <1>0, <1>2, <2>2 DEF BallotInv, Voted
      <3>2. ASSUME NEW m \in msgs', AcceptOf(m, i), m.ballot = k.ballot
            PROVE  m.value = k.value
        <4>1. CASE m \in msgs
          BY Zenon, <1>2, <2>2, <3>2, <4>1 DEF BallotInv
        <4>2. CASE m \notin msgs
          BY Zenon, <1>2, <3>2, <4>2, FreshAccept
        <4> QED
          BY <4>1, <4>2
      <3>3. \A n \in Node : Repeats(pending'[n][i], k)
        BY Zenon, <1>0, <1>2, <2>2, StepRepeats
      <3> QED
        BY Zenon, <3>1, <3>2, <3>3
    <2> QED
      BY <2>1, <2>2
  <1>3. \A m \in PromiseMsg : (IsPromise(m)' /\ m.instance = i) => m.acceptedBallot <= m.ballot
    BY Zenon, StepBounds
  <1> QED
    BY Zenon, <1>1, <1>2, <1>3 DEF BallotInv, Repeats
-----------------------------------------------------------------------------
Parts(i) ==
  /\ \A n \in Node : ProposalSafe(pending[n][i], i)
  /\ \A m \in msgs : MessageSafe(m, i)

(* A step that changes one proposal has that and the new messages to answer   *)
(* for.                                                                       *)
LEMMA OnePart ==
  ASSUME NEW i \in Instance, SoundStep(i), NEW n \in Node, NEW j \in Slot, NEW q,
         Becomes(n, j, q), j = i => ProposalSafe(q, i)',
         \A m \in msgs' : m \in msgs \/ MessageSafe(m, i)'
  PROVE  Parts(i)'
  <1>1. /\ \A p : ProposalSafe(p, i) => ProposalSafe(p, i)'
        /\ \A m : MessageSafe(m, i) => MessageSafe(m, i)'
    BY Zenon, SafeStable DEF SoundStep, Sound, Undisturbed
  <1>2. i \in Slot
    BY Zenon, Constants
  <1>3. ASSUME NEW c \in Node PROVE ProposalSafe(pending[c][i], i)'
    <2>1. CASE c = n /\ j = i
      BY Zenon, <2>1 DEF Becomes
    <2>2. CASE c # n \/ j # i
      <3>1. pending'[c][i] = pending[c][i]
        BY Zenon, <1>2, <2>2 DEF Becomes
      <3>p. PICK p : p = pending[c][i]
        BY Zenon
      <3>2. ProposalSafe(p, i)
        BY Zenon, <3>p DEF SoundStep, Sound, ValueInv
      <3>3. ProposalSafe(p, i)'
        BY Zenon, <1>1, <3>2
      <3> QED
        BY Zenon, <3>p, <3>1, <3>3
    <2> QED
      BY Zenon, <2>1, <2>2
  <1>4. \A m \in msgs' : MessageSafe(m, i)'
    BY Zenon, <1>1 DEF SoundStep, Sound, ValueInv
  <1> QED
    BY Zenon, <1>3, <1>4 DEF Parts

(* Likewise when every proposal is left alone or ends. *)
LEMMA NoPart ==
  ASSUME NEW i \in Instance, SoundStep(i),
         \A n \in Node : pending'[n][i] = pending[n][i] \/ pending'[n][i].pc = "none",
         \A m \in msgs' : m \in msgs \/ MessageSafe(m, i)'
  PROVE  Parts(i)'
  <1>1. /\ \A p : ProposalSafe(p, i) => ProposalSafe(p, i)'
        /\ \A m : MessageSafe(m, i) => MessageSafe(m, i)'
    BY Zenon, SafeStable DEF SoundStep, Sound, Undisturbed
  <1>2. ASSUME NEW c \in Node PROVE ProposalSafe(pending[c][i], i)'
    <2>p. PICK p : p = pending'[c][i]
      OBVIOUS
    <2>1. CASE p = pending[c][i]
      BY Zenon, <1>1, <2>p, <2>1 DEF SoundStep, Sound, ValueInv
    <2>2. CASE p.pc = "none"
      BY Zenon, <2>p, <2>2 DEF ProposalSafe
    <2> QED
      BY Zenon, <2>p, <2>1, <2>2
  <1>3. \A m \in msgs' : MessageSafe(m, i)'
    BY Zenon, <1>1 DEF SoundStep, Sound, ValueInv
  <1> QED
    BY <1>2, <1>3 DEF Parts

(* A proposal outside phase 2 has nothing to answer for. *)
LEMMA EarlyProposal ==
  ASSUME NEW q, q.pc \in {"none", "prepare", "promises"}, NEW i
  PROVE  ProposalSafe(q, i)'
  BY Zenon DEF ProposalSafe

(* Nor has a message outside phase 2. *)
LEMMA OtherMessage ==
  ASSUME NEW m, m.type \notin {"Accept", "Accepted"}, NEW i
  PROVE  MessageSafe(m, i)'
  BY DEF MessageSafe

(* A proposal starts or ends. *)
LEMMA EarlyParts ==
  ASSUME NEW i \in Instance, SoundStep(i), NEW n \in Node, NEW j \in Slot, NEW q,
         Becomes(n, j, q), q.pc \in {"none", "prepare", "promises"},
         \A m \in msgs' : m \in msgs \/ m.type \notin {"Accept", "Accepted"}
  PROVE  Parts(i)'
  <1>1. ProposalSafe(q, i)'
    BY EarlyProposal
  <1>2. \A m \in msgs' : m \in msgs \/ MessageSafe(m, i)'
    BY Zenon, OtherMessage
  <1> QED
    BY Zenon, <1>1, <1>2, OnePart
-----------------------------------------------------------------------------
(* The quorum of promises that ends runPhase1 makes the value safe that the   *)
(* proposal goes on with (proposer.go:143-151, 225-231, 343-355).             *)
LEMMA Phase1Safe ==
  ASSUME NEW i \in Instance, Sound(i), NEW n \in Node, NEW m \in msgs, m \in PromiseMsg,
         m.to = n, m.instance = i, NEW p, p = pending[n][i], p.ballot = m.ballot,
         Cardinality(p.promises \cup {m}) >= QuorumSize,
         NEW v \in HighestAccepted(p.promises \cup {m}), NEW w \in Bytes
  PROVE  SafeAt(i, p.ballot, Wire(IF v # Nil THEN v ELSE w))
  <1>T. PICK T : T = p.promises \cup {m}
    BY Zenon
  <1>0. i \in Slot /\ m.type = "Promise" /\ p.ballot \in Nat /\ TypeOK
    BY Zenon, Constants DEF PromiseMsg, Sound
  <1>1. Fits(p, n, i, incarnation[n], nextInstance[n], msgs) /\ p \in Proposal
    BY Zenon, <1>0, ProposalTyped DEF Sound, ProposalInv
  <1>2. T \in SUBSET PromiseMsg
    BY Zenon, <1>T, <1>1 DEF Proposal
  <1>3. \A x \in T : IsPromise(x) /\ x.instance = i /\ x.ballot = p.ballot
    <2>1. \A x \in p.promises : IsPromise(x) /\ x.instance = i /\ x.ballot = p.ballot
      BY Zenon, <1>0, <1>1 DEF IsPromise, Fits, Tallied
    <2>2. IsPromise(m)
      BY Zenon, <1>0 DEF IsPromise
    <2> QED
      BY <1>T, <2>1, <2>2
  <1>4. \A x \in T : x \in PromiseMsg /\ Counted(p.promises, x, n, i, p.ballot)
    BY Zenon, <1>T, <1>2 DEF Counted
  <1>s. TypeOK /\ ReplyInv /\ ProposedOnce(i)
    BY Zenon DEF Sound, Undisturbed
  <1>5. \A m1, m2 \in T : m1.from = m2.from => m1 = m2
    BY Zenon, <1>1, <1>s, <1>4, PromisesDistinct
  <1>6. \A x \in T : x.from \in Node /\ x.acceptedBallot \in Nat
    BY <1>2 DEF PromiseMsg
  <1>7. Senders(T) \in Quorum
    <2>1. QuorumFacts
      BY Zenon DEF Sound
    <2>2. Cardinality(T) >= QuorumSize /\ \A x \in T : x.from \in Node
      BY Zenon, <1>T, <1>6
    <2> QED
      BY Zenon, <1>5, <2>1, <2>2, TallyIsQuorum
  <1>8. CASE \A x \in T : ~(x.acceptedBallot > 0)
    <2>1. \A x \in T : x.acceptedBallot = 0
      BY <1>6, <1>8
    <2> QED
      BY Zenon, <1>0, <1>2, <1>3, <1>7, <2>1, FreeChoice
  <1>9. CASE \E x \in T : x.acceptedBallot > 0
    <2>1. PICK h \in T : /\ h.acceptedBallot > 0 /\ v = h.acceptedValue
                         /\ \A x \in T : x.acceptedBallot > 0 => x.acceptedBallot <= h.acceptedBallot
      BY Zenon, <1>T, <1>9 DEF HighestAccepted
    <2>2. \A x \in T : x.acceptedBallot <= h.acceptedBallot
      BY <1>6, <2>1
    <2>3. v \in Value /\ SafeAt(i, p.ballot, v)
      BY Zenon, <1>0, <1>2, <1>3, <1>7, <2>1, <2>2, BoundChoice
    <2>4. Wire(v) = v /\ v # Nil
      BY Zenon, <2>3, ValueWire
    <2> QED
      BY Zenon, <2>3, <2>4
  <1> QED
    BY Zenon, <1>8, <1>9

(* A promise counted. *)
LEMMA ReceivePromiseParts ==
  ASSUME NEW i \in Instance, SoundStep(i), NEW n \in Node, NEW m, ReceivePromiseEffect(n, m)
  PROVE  Parts(i)'
  <1>j. PICK j : j = m.instance
    OBVIOUS
  <1>p. PICK p : p = pending[n][j]
    BY Zenon
  <1>0. /\ m \in PromiseMsg /\ m \in msgs /\ m.to = n /\ p.ballot = m.ballot /\ msgs' = msgs
        /\ j \in Slot
    BY Zenon, <1>j, <1>p DEF ReceivePromiseEffect, PromiseMsg
  <1>1. \A pc, v, ps, as : /\ With(p, pc, v, ps, as).pc = pc
                           /\ With(p, pc, v, ps, as).ballot = p.ballot
                           /\ With(p, pc, v, ps, as).value = v
    BY Zenon DEF With
  <1>2. NoProposal.pc = "none"
    BY Zenon DEF NoProposal
  <1>3. ASSUME NEW q, Becomes(n, j, q), q.pc \in {"none", "prepare", "promises"}
        PROVE  Parts(i)'
    BY Zenon, <1>0, <1>3, EarlyParts
  <1>4. ASSUME NEW v \in HighestAccepted(p.promises \cup {m}), j \in Instance,
               Cardinality(p.promises \cup {m}) >= QuorumSize, NEW q,
               q = With(p, "accept", IF v # Nil THEN v ELSE p.value, {}, p.accepteds),
               Becomes(n, j, q)
        PROVE  Parts(i)'
    <2>1. q.pc = "accept" /\ q.ballot = p.ballot /\ q.value = IF v # Nil THEN v ELSE p.value
      BY Zenon, <1>4 DEF With
    <2>2. ASSUME j = i PROVE ProposalSafe(q, i)'
      <3>1. p.value \in Bytes /\ Sound(i)
        BY Zenon, <1>p, <1>0, ProposalTyped DEF SoundStep, Sound, Proposal
      <3>2. SafeAt(i, p.ballot, Wire(IF v # Nil THEN v ELSE p.value))
        BY Zenon, <1>j, <1>p, <1>0, <1>4, <2>2, <3>1, Phase1Safe
      <3>3. ProposalSafe(q, i)
        BY Zenon, <2>1, <3>2 DEF ProposalSafe
      <3> QED
        BY ZenonT(30), <3>3, SafeStable DEF SoundStep, Sound, Undisturbed
    <2>3. Becomes(n, j, q)
      BY Zenon, <1>4
    <2>4. j \in Slot /\ \A x \in msgs' : x \in msgs
      BY Zenon, <1>0
    <2> QED
      BY ZenonT(30), <2>2, <2>3, <2>4, OnePart
  <1>5. CASE \E v \in HighestAccepted(p.promises \cup {m}) :
               /\ j \in Instance /\ Cardinality(p.promises \cup {m}) >= QuorumSize
               /\ Becomes(n, j, With(p, "accept", IF v # Nil THEN v ELSE p.value, {}, p.accepteds))
    BY Zenon, <1>4, <1>5
  <1>6. CASE \/ Becomes(n, j, With(p, "promises", p.value, p.promises \cup {m}, p.accepteds))
             \/ Becomes(n, j, NoProposal)
    <2>1. CASE Becomes(n, j, With(p, "promises", p.value, p.promises \cup {m}, p.accepteds))
      <3>1. PICK q : q = With(p, "promises", p.value, p.promises \cup {m}, p.accepteds)
        BY Zenon
      <3>2. Becomes(n, j, q)
        BY Zenon, <2>1, <3>1
      <3>3. q.pc = "promises"
        BY <3>1 DEF With
      <3> QED
        BY Zenon, <1>3, <3>2, <3>3
    <2>2. CASE Becomes(n, j, NoProposal)
      BY Zenon, <1>2, <1>3, <2>2
    <2> QED
      BY Zenon, <1>6, <2>1, <2>2
  <1> QED
    BY Zenon, <1>j, <1>p, <1>5, <1>6 DEF ReceivePromiseEffect

(* runPhase2 up to its loop: the own vote is counted, and the Accept asks for *)
(* the safe value.                                                            *)
LEMMA StartPhase2Parts ==
  ASSUME NEW i \in Instance, SoundStep(i), NEW n \in Node, NEW j \in Slot,
         StartPhase2Effect(n, j)
  PROVE  Parts(i)'
  <1>p. PICK p : p = pending[n][j]
    OBVIOUS
  <1>o. PICK own : own = AcceptedOf(n, n, incarnation[n], j, p.ballot)
    OBVIOUS
  <1>k. PICK k : k = Accept(n, incarnation[n], j, p.ballot, p.value)
    OBVIOUS
  <1>q. PICK q : q = With(p, "accepteds", p.value, p.promises, {own})
    OBVIOUS
  <1>1. CASE msgs' = msgs /\ Becomes(n, j, NoProposal)
    <2>1. NoProposal.pc = "none"
      BY Zenon DEF NoProposal
    <2> QED
      BY <1>1, <2>1, EarlyParts
  <1>2. CASE /\ Becomes(n, j, q) /\ votes' = votes \cup {Vote(n, j, p.ballot, p.value)}
             /\ msgs' = msgs \cup {k}
    <2>1. /\ q.pc = "accepteds" /\ q.accepteds = {own} /\ q.value = p.value
          /\ own.from = n /\ own.ballot = p.ballot
      BY Zenon, <1>q, <1>o DEF With, AcceptedOf
    <2>2. Voted(n, j, p.ballot, Wire(p.value))'
      BY Zenon, <1>2 DEF Voted, Vote
    <2>3. j = i => ProposalSafe(q, i)'
      BY Zenon, <2>1, <2>2 DEF ProposalSafe
    <2>4. /\ k.type = "Accept" /\ k.instance = j /\ k.ballot = p.ballot
          /\ k.value = Wire(p.value)
      BY Zenon, <1>k DEF Accept
    <2>5. ASSUME j = i PROVE SafeAt(i, p.ballot, Wire(p.value))'
      <3>1. p.pc = "accept"
        BY Zenon, <1>p DEF StartPhase2Effect
      <3>2. ProposalSafe(p, i)
        BY Zenon, <1>p, <2>5 DEF SoundStep, Sound, ValueInv
      <3>3. SafeAt(i, p.ballot, Wire(p.value))
        BY Zenon, <3>1, <3>2 DEF ProposalSafe
      <3> QED
        BY <3>3, SafeAtStable DEF SoundStep, Sound, Undisturbed
    <2>6. MessageSafe(k, i)'
      BY Zenon, <2>4, <2>5 DEF MessageSafe
    <2> QED
      BY Zenon, <1>2, <2>3, <2>6, OnePart
  <1> QED
    BY Zenon, <1>p, <1>o, <1>k, <1>q, <1>1, <1>2 DEF StartPhase2Effect

(* A peer's Accept: an Accepted stands for a vote. *)
LEMMA ReceiveAcceptParts ==
  ASSUME NEW i \in Instance, SoundStep(i), NEW n \in Node, NEW m, ReceiveAcceptEffect(n, m)
  PROVE  Parts(i)'
  <1>0. pending' = pending
    BY DEF ReceiveAcceptEffect
  <1>1. CASE msgs' = msgs \cup {RefusalOf("Nack", n, m.from, m.inc, m.instance, m.ballot)}
    <2>1. \A x \in msgs' : x \in msgs \/ x.type \notin {"Accept", "Accepted"}
      BY <1>1 DEF RefusalOf
    <2>2. \A x \in msgs' : x \in msgs \/ MessageSafe(x, i)'
      BY Zenon, <2>1, OtherMessage
    <2> QED
      BY Zenon, <1>0, <2>2, NoPart
  <1>2. CASE /\ votes' = votes \cup {Vote(n, m.instance, m.ballot, m.value)}
             /\ msgs' = msgs \cup {AcceptedOf(n, m.from, m.inc, m.instance, m.ballot)}
    <2>k. PICK k : k = AcceptedOf(n, m.from, m.inc, m.instance, m.ballot)
      OBVIOUS
    <2>u. PICK u : u = Vote(n, m.instance, m.ballot, m.value)
      BY Zenon
    <2>1. k.type = "Accepted" /\ k.from = n /\ k.instance = m.instance /\ k.ballot = m.ballot
      BY Zenon, <2>k DEF AcceptedOf
    <2>2. u \in votes' /\ u.node = n /\ u.instance = m.instance /\ u.ballot = m.ballot
      BY Zenon, <1>2, <2>u DEF Vote
    <2>3. MessageSafe(k, i)'
      BY Zenon, <2>1, <2>2 DEF MessageSafe
    <2>4. \A x \in msgs' : x \in msgs \/ MessageSafe(x, i)'
      BY Zenon, <1>2, <2>k, <2>3
    <2> QED
      BY Zenon, <1>0, <2>4, NoPart
  <1> QED
    BY Zenon, <1>1, <1>2 DEF ReceiveAcceptEffect

(* What the loop of runPhase2 has counted are votes for its value, and a      *)
(* quorum of them chooses it (proposer.go:278-300).                           *)
LEMMA Phase2Counts ==
  ASSUME NEW i \in Instance, Sound(i), NEW n \in Node, NEW m \in msgs, m \in AcceptedMsg,
         m.to = n, m.instance = i, NEW p, p = pending[n][i], p.pc = "accepteds",
         p.ballot = m.ballot
  PROVE  /\ \A x \in p.accepteds \cup {m} : Voted(x.from, i, x.ballot, Wire(p.value))
         /\ Cardinality(p.accepteds \cup {m}) >= QuorumSize => ChosenAt(i, p.ballot, Wire(p.value))
  <1>T. PICK T : T = p.accepteds \cup {m}
    BY Zenon
  <1>0. i \in Slot /\ m.type = "Accepted" /\ TypeOK
    BY Zenon, Constants DEF AcceptedMsg, Sound
  <1>1. Fits(p, n, i, incarnation[n], nextInstance[n], msgs) /\ p \in Proposal
    BY Zenon, <1>0, ProposalTyped DEF Sound, ProposalInv
  <1>2. Voted(m.from, i, m.ballot, Wire(p.value))
    <2>0. MessageSafe(m, i)
      BY Zenon DEF Sound, ValueInv
    <2>1. PICK u \in votes : u.node = m.from /\ u.instance = i /\ u.ballot = m.ballot
      BY Zenon, <1>0, <2>0 DEF MessageSafe
    <2>2. PICK x \in msgs : /\ x.type = "Accept" /\ x.instance = i
                            /\ x.ballot = u.ballot /\ x.value = u.value
      BY Zenon, <2>1 DEF Sound, ValueInv, VoteInv
    <2>3. PICK y \in msgs : y = Accept(n, incarnation[n], i, p.ballot, p.value)
      BY Zenon, <1>1 DEF Fits
    <2>4. y.type = "Accept" /\ y.instance = i /\ y.ballot = p.ballot /\ y.value = Wire(p.value)
      BY <2>3 DEF Accept
    <2>5. x = y
      BY Zenon, <2>1, <2>2, <2>4, OneAccept DEF Sound, Undisturbed
    <2>6. Voted(u.node, u.instance, u.ballot, u.value)
      BY Zenon, <1>0, VoteIs
    <2> QED
      BY Zenon, <2>1, <2>2, <2>4, <2>5, <2>6
  <1>3. \A x \in p.accepteds : Voted(x.from, i, x.ballot, Wire(p.value))
    BY Zenon DEF Sound, ValueInv, ProposalSafe
  <1>4. \A x \in T : Voted(x.from, i, x.ballot, Wire(p.value))
    BY Zenon, <1>T, <1>2, <1>3
  <1>5. ASSUME Cardinality(T) >= QuorumSize PROVE ChosenAt(i, p.ballot, Wire(p.value))
    <2>1. T \in SUBSET AcceptedMsg
      BY Zenon, <1>T, <1>1 DEF Proposal
    <2>2. \A x \in T : x \in AcceptedMsg /\ Counted(p.accepteds, x, n, i, p.ballot)
      BY Zenon, <1>T, <2>1 DEF Counted
    <2>f. Fits(p, n, i, incarnation[n], nextInstance[n], msgs)
      BY Zenon, <1>1
    <2>s. TypeOK /\ ReplyInv /\ RequestInv /\ ProposedOnce(i)
      BY Zenon DEF Sound, Undisturbed
    <2>3. \A m1, m2 \in T : m1.from = m2.from => m1 = m2
      BY Zenon, <2>2, <2>f, <2>s, AcceptedsDistinct
    <2>4. \A x \in T : x.from \in Node
      BY <2>1 DEF AcceptedMsg
    <2>q. QuorumFacts
      BY Zenon DEF Sound
    <2>5. Senders(T) \in Quorum
      BY Zenon, <1>5, <2>3, <2>4, <2>q, TallyIsQuorum
    <2>6. \A x \in T : x.ballot = p.ballot
      BY Zenon, <1>T, <1>1 DEF Fits, Tallied
    <2>7. Senders(T) \subseteq Voters(i, p.ballot, Wire(p.value))
      BY ZenonT(30), <1>4, <2>4, <2>6 DEF Senders, Voters, Voted
    <2>8. Voters(i, p.ballot, Wire(p.value)) \in SUBSET Node
      BY ZenonT(30) DEF Voters
    <2> QED
      BY ZenonT(30), <2>5, <2>7, <2>8, <2>q, QuorumGrows DEF ChosenAt
  <1> QED
    BY Zenon, <1>T, <1>4, <1>5

(* An accepted counted. *)
LEMMA ReceiveAcceptedParts ==
  ASSUME NEW i \in Instance, SoundStep(i), NEW n \in Node, NEW m, ReceiveAcceptedEffect(n, m)
  PROVE  Parts(i)'
  <1>j. PICK j : j = m.instance
    OBVIOUS
  <1>p. PICK p : p = pending[n][j]
    OBVIOUS
  <1>0. /\ m \in AcceptedMsg /\ m \in msgs /\ m.to = n /\ p.ballot = m.ballot /\ msgs' = msgs
        /\ j \in Slot /\ p.pc = "accepteds"
    BY Zenon, <1>j, <1>p, Constants DEF ReceiveAcceptedEffect, AcceptedMsg
  <1>2. ASSUME NEW q, Becomes(n, j, q), q.ballot = p.ballot, q.value = p.value,
               \/ q.pc = "accepteds" /\ q.accepteds = p.accepteds \cup {m}
               \/ q.pc = "commit" /\ Cardinality(p.accepteds \cup {m}) >= QuorumSize
        PROVE  Parts(i)'
    <2>1. ASSUME j = i PROVE ProposalSafe(q, i)'
      <3>1. /\ \A x \in p.accepteds \cup {m} : Voted(x.from, i, x.ballot, Wire(p.value))
            /\ Cardinality(p.accepteds \cup {m}) >= QuorumSize =>
                 ChosenAt(i, p.ballot, Wire(p.value))
        BY Zenon, <1>j, <1>p, <1>0, <2>1, Phase2Counts DEF SoundStep
      <3>2. ProposalSafe(q, i)
        BY Zenon, <1>2, <3>1 DEF ProposalSafe
      <3> QED
        BY <3>2, SafeStable DEF SoundStep, Sound, Undisturbed
    <2> QED
      BY Zenon, <1>0, <1>2, <2>1, OnePart
  <1>3. ASSUME Becomes(n, j, With(p, "accepteds", p.value, p.promises, p.accepteds \cup {m}))
        PROVE  Parts(i)'
    <2>q. PICK q : q = With(p, "accepteds", p.value, p.promises, p.accepteds \cup {m})
      BY ZenonT(30)
    <2>1. /\ q.ballot = p.ballot /\ q.value = p.value
          /\ q.pc = "accepteds" /\ q.accepteds = p.accepteds \cup {m}
      BY Zenon, <2>q DEF With
    <2> QED
      BY Zenon, <1>2, <1>3, <2>q, <2>1
  <1>4. ASSUME Becomes(n, j, With(p, "commit", p.value, p.promises, {})),
               Cardinality(p.accepteds \cup {m}) >= QuorumSize
        PROVE  Parts(i)'
    <2>q. PICK q : q = With(p, "commit", p.value, p.promises, {})
      BY Zenon
    <2>1. q.ballot = p.ballot /\ q.value = p.value /\ q.pc = "commit"
      BY <2>q DEF With
    <2> QED
      BY Zenon, <1>2, <1>4, <2>q, <2>1
  <1> QED
    BY ZenonT(30), <1>j, <1>p, <1>3, <1>4 DEF ReceiveAcceptedEffect

(* runPhase1 up to its loop, and a peer's Prepare. *)
LEMMA PrepareParts ==
  ASSUME NEW i \in Instance, SoundStep(i), NEW n \in Node
  PROVE  /\ \A j \in Slot : StartPhase1Effect(n, j) => Parts(i)'
         /\ \A m : ReceivePrepareEffect(n, m) => Parts(i)'
  <1>1. ASSUME NEW j \in Slot, StartPhase1Effect(n, j) PROVE Parts(i)'
    <2>p. PICK p : p = pending[n][j]
      OBVIOUS
    <2>k. PICK k : k = Prepare(n, incarnation[n], j, p.ballot)
      BY Zenon
    <2>t. k.type = "Prepare" /\ NoProposal.pc = "none"
      BY <2>k DEF Prepare, NoProposal
    <2>1. \/ Becomes(n, j, NoProposal) /\ msgs' = msgs
          \/ /\ \E ps : Becomes(n, j, With(p, "promises", p.value, ps, p.accepteds))
             /\ msgs' = msgs \cup {k}
      BY Zenon, <1>1, <2>p, <2>k DEF StartPhase1Effect
    <2>2. \A m \in msgs' : m \in msgs \/ m.type \notin {"Accept", "Accepted"}
      BY Zenon, <2>t, <2>1
    <2>3. \A ps : With(p, "promises", p.value, ps, p.accepteds).pc = "promises"
      BY DEF With
    <2>4. PICK q : Becomes(n, j, q) /\ q.pc \in {"none", "promises"}
      BY Zenon, <2>t, <2>1, <2>3
    <2> QED
      BY Zenon, <2>2, <2>4, EarlyParts
  <1>2. ASSUME NEW m, ReceivePrepareEffect(n, m) PROVE Parts(i)'
    <2>1. pending' = pending
      BY ZenonT(30), <1>2 DEF ReceivePrepareEffect
    <2>2. \A x \in msgs' : x \in msgs \/ x.type \notin {"Accept", "Accepted"}
      BY <1>2 DEF ReceivePrepareEffect, RefusalOf, PromiseOf
    <2>3. \A x \in msgs' : x \in msgs \/ MessageSafe(x, i)'
      BY <2>2, OtherMessage
    <2> QED
      BY Zenon, <2>1, <2>3, NoPart
  <1> QED
    BY Zenon, <1>1, <1>2

(* The broadcast of a Commit ends a proposal, a restart all of a node's. *)
LEMMA EndParts ==
  ASSUME NEW i \in Instance, SoundStep(i), NEW n \in Node
  PROVE  /\ \A j \in Instance : \A saved : BroadcastCommitEffect(n, j, saved) => Parts(i)'
         /\ RestartEffect(n) => Parts(i)'
  <1>n. NoProposal.pc = "none"
    BY Zenon DEF NoProposal
  <1>1. ASSUME NEW j \in Instance, NEW saved, BroadcastCommitEffect(n, j, saved)
        PROVE  Parts(i)'
    <2>1. /\ Becomes(n, j, NoProposal)
          /\ msgs' = msgs \cup {Commit(n, j, pending[n][j].ballot, pending[n][j].value)}
      BY Zenon, <1>1 DEF BroadcastCommitEffect, BroadcastCommit
    <2>2. \A m \in msgs' : m \in msgs \/ m.type \notin {"Accept", "Accepted"}
      BY <2>1 DEF Commit
    <2>3. j \in Slot
      BY Zenon, Constants
    <2> QED
      BY Zenon, <1>n, <2>1, <2>2, <2>3, EarlyParts
  <1>2. ASSUME RestartEffect(n) PROVE Parts(i)'
    <2>1. pending' = [pending EXCEPT ![n] = [j \in Slot |-> NoProposal]] /\ msgs' = msgs
      BY ZenonT(30), <1>2 DEF RestartEffect, Restart
    <2>2. pending \in [Node -> [Slot -> Proposal]] /\ i \in Slot
      BY Zenon, Constants DEF SoundStep, Sound, TypeOK
    <2>3. \A c \in Node : pending'[c][i] = pending[c][i] \/ pending'[c][i].pc = "none"
      BY Zenon, <1>n, <2>1, <2>2
    <2> QED
      BY Zenon, <2>1, <2>3, NoPart
  <1> QED
    BY Zenon, <1>1, <1>2

(* Every step, for the proposals and messages of one instance. *)
LEMMA StepParts ==
  ASSUME NEW i \in Instance, SoundStep(i), StepEffect
  PROVE  Parts(i)'
  <1>1. ASSUME pending' = pending, msgs' = msgs PROVE Parts(i)'
    BY Zenon, <1>1, NoPart
  <1>2. CASE UNCHANGED vars
    BY Zenon, <1>1, <1>2 DEF vars
  <1>3. ASSUME NEW n \in Node, NEW j \in Slot, NEW v, StartEffect(n, j, v)
        PROVE  Parts(i)'
    <2>q. PICK q : q = [pc |-> "prepare", ballot |-> MakeBallot(NextRound(currentRound[n]), n),
                        asked |-> v, value |-> v, promises |-> {}, accepteds |-> {}]
      BY Zenon
    <2>1. Becomes(n, j, q) /\ msgs' = msgs
      BY Zenon, <1>3, <2>q DEF StartEffect
    <2>2. q.pc = "prepare"
      BY <2>q
    <2> QED
      BY Zenon, <2>1, <2>2, EarlyParts
  <1>4. ASSUME NEW n \in Node, NEW v \in Bytes, ProposeEffect(n, v)
        PROVE  Parts(i)'
    <2>1. StartEffect(n, nextInstance[n], v) /\ nextInstance[n] \in Instance
      BY Zenon, <1>4 DEF ProposeEffect
    <2>2. nextInstance[n] \in Slot
      BY Zenon, <2>1, Constants
    <2> QED
      BY Zenon, <1>3, <2>1, <2>2
  <1>5. ASSUME NEW n \in Node, ElectEffect(n)
        PROVE  Parts(i)'
    <2>1. StartEffect(n, 0, Nil)
      BY Zenon, <1>5 DEF ElectEffect
    <2> QED
      BY Zenon, <1>3, <2>1, Constants
  <1>6. ASSUME NEW n \in Node, StepDown(n) \/ ReadCommitCh(n)
        PROVE  Parts(i)'
    BY Zenon, <1>1, <1>6 DEF StepDown, ReadCommitCh
  <1>7. ASSUME NEW n \in Node, NEW j \in Slot, AbandonEffect(n, j)
        PROVE  Parts(i)'
    <2>1. Becomes(n, j, NoProposal) /\ msgs' = msgs
      BY Zenon, <1>7 DEF AbandonEffect
    <2>2. NoProposal.pc = "none"
      BY Zenon DEF NoProposal
    <2> QED
      BY Zenon, <2>1, <2>2, EarlyParts
  <1>8. ASSUME NEW n \in Node, NEW m \in msgs, NEW saved, ReceiveCommitEffect(n, m, saved)
        PROVE  Parts(i)'
    BY <1>1, <1>8 DEF ReceiveCommitEffect, ReceiveCommit
  <1>9. ASSUME NEW n \in Node, NEW j \in Slot, StartPhase1Effect(n, j) \/ StartPhase2Effect(n, j)
        PROVE  Parts(i)'
    BY Zenon, <1>9, PrepareParts, StartPhase2Parts
  <1>10. ASSUME NEW n \in Node, NEW m, ReceivePrepareEffect(n, m) \/ ReceivePromiseEffect(n, m)
         PROVE  Parts(i)'
    BY Zenon, <1>10, PrepareParts, ReceivePromiseParts
  <1>11. ASSUME NEW n \in Node, NEW m, ReceiveAcceptEffect(n, m) \/ ReceiveAcceptedEffect(n, m)
         PROVE  Parts(i)'
    BY Zenon, <1>11, ReceiveAcceptParts, ReceiveAcceptedParts
  <1>12. ASSUME NEW n \in Node,
                \/ RestartEffect(n)
                \/ \E j \in Instance, saved \in SaveOutcomes : BroadcastCommitEffect(n, j, saved)
         PROVE  Parts(i)'
    BY Zenon, <1>12, EndParts
  <1> QED
    BY Zenon, <1>2, <1>4, <1>5, <1>6, <1>7, <1>8, <1>9, <1>10, <1>11, <1>12 DEF StepEffect
-----------------------------------------------------------------------------
(* The conclusions for MultiPaxosAgreement.  A fresh cluster: *)
LEMMA InitValueInv ==
  ASSUME Init, NEW i \in Instance
  PROVE  ValueInv(i)
  <1>0. i \in Slot
    BY Zenon, Constants
  <1>1. votes = {} /\ msgs = {} /\ \A n \in Node : pending[n][i] = NoProposal
    BY Zenon, <1>0 DEF Init
  <1>2. \A n \in Node : mem[n][i] = Unset
    BY Zenon, <1>0 DEF Init
  <1>3. Unset.acceptedBallot = 0
    BY Zenon DEF Unset
  <1>4. NoProposal.pc = "none" /\ NoProposal.promises = {}
    BY Zenon DEF NoProposal
  <1>5. \A m : ~IsPromise(m)
    BY Zenon, <1>4 DEF IsPromise, Init
  <1>6. VoteInv(i)
    BY Zenon, <1>1, <1>2, <1>3, <1>5 DEF VoteInv
  <1>7. \A n \in Node : ProposalSafe(pending[n][i], i)
    BY Zenon, <1>1, <1>4 DEF ProposalSafe
  <1> QED
    BY Zenon, <1>1, <1>6, <1>7 DEF ValueInv

(* An instance that is undisturbed is sound. *)
LEMMA IsSound ==
  ASSUME QuorumFacts, IInv, NEW i \in Instance, Undisturbed(i)
  PROVE  Sound(i)
  BY Zenon DEF IInv, PromiseInv, Sound, Undisturbed

(* Every step keeps the values of an instance sound while it is undisturbed. *)
LEMMA StepValueInv ==
  ASSUME QuorumFacts, IInv, StepEffect, TypeOK', AcceptorStep, msgs \subseteq msgs',
         NEW i \in Instance, Undisturbed(i)'
  PROVE  ValueInv(i)'
  <1>1. Undisturbed(i)
    BY Zenon, UndisturbedBefore
  <1>2. SoundStep(i)
    BY Zenon, <1>1, IsSound DEF SoundStep
  <1>3. VoteInv(i)'
    BY Zenon, <1>2, SoundIsQuiet, StepVoteInv
  <1>4. Parts(i)'
    BY Zenon, <1>2, StepParts
  <1> QED
    BY Zenon, <1>3, <1>4 DEF ValueInv, Parts

(* And one value per ballot while it has no Commit and no empty value. *)
LEMMA InitBallotInv ==
  ASSUME Init, NEW i \in Instance
  PROVE  BallotInv(i)
  <1>1. VoteInv(i) /\ msgs = {}
    BY Zenon, InitValueInv DEF ValueInv, Init
  <1>2. NoProposal.promises = {}
    BY Zenon DEF NoProposal
  <1>3. \A m : ~IsPromise(m)
    BY <1>2 DEF IsPromise, Init
  <1> QED
    BY Zenon, <1>1, <1>3 DEF BallotInv

LEMMA StepBallots ==
  ASSUME IInv, StepEffect, TypeOK', AcceptorStep, msgs \subseteq msgs',
         NEW i \in Instance, ~CommitIssued(i)', NonEmpty(i)'
  PROVE  BallotInv(i)'
  <1>1. ~CommitIssued(i) /\ NonEmpty(i)
    BY Zenon DEF CommitIssued, NonEmpty
  <1>2. TypeOK /\ RequestInv /\ ProposalInv /\ AcceptorInv(i) /\ BallotInv(i)
    BY Zenon, <1>1 DEF IInv, PromiseInv
  <1>3. QuietStep(i)
    BY Zenon, <1>2 DEF QuietStep, BallotInv
  <1> QED
    BY Zenon, <1>2, <1>3, StepBallotInv

LEMMA BallotsAgree ==
  ASSUME IInv
  PROVE  OneValuePerBallot
  <1> SUFFICES ASSUME NEW m1 \in msgs, NEW m2 \in msgs, m1.type = "Accept", m2.type = "Accept",
                      m1.instance = m2.instance, m1.ballot = m2.ballot,
                      ~CommitIssued(m1.instance), NonEmpty(m1.instance)
               PROVE  m1.value = m2.value
    BY Zenon DEF OneValuePerBallot
  <1>1. m1 \in AcceptMsg
    BY Zenon, MessageKinds DEF IInv
  <1>2. m1.instance \in Instance
    BY <1>1 DEF AcceptMsg
  <1>3. BallotInv(m1.instance)
    BY Zenon, <1>2 DEF IInv
  <1> QED
    BY Zenon, <1>3 DEF BallotInv, AcceptOf

(* The invariant gives agreement. *)
LEMMA ChosenOnce ==
  ASSUME QuorumFacts, IInv
  PROVE  AgreementUntilCommit
  <1> SUFFICES ASSUME NEW u \in votes, NEW w \in votes, u.instance = w.instance,
                      ChosenAt(u.instance, u.ballot, u.value),
                      ChosenAt(w.instance, w.ballot, w.value), Undisturbed(u.instance)
               PROVE  u.value = w.value
    BY Zenon DEF AgreementUntilCommit
  <1>i. PICK i : i = u.instance
    OBVIOUS
  <1>1. TypeOK
    BY Zenon DEF IInv
  <1>2. i \in Instance /\ w.instance = i /\ u.ballot \in Nat /\ w.ballot \in Nat
    BY <1>i, <1>1, VoteTyped
  <1>3. Sound(i)
    BY Zenon, <1>i, <1>2, IsSound
  <1>4. CASE u.ballot < w.ballot
    BY Zenon, <1>i, <1>2, <1>3, <1>4, ChosenOrdered
  <1>5. CASE w.ballot < u.ballot
    <2>1. w.value = u.value
      BY ZenonT(30), <1>i, <1>2, <1>3, <1>5, ChosenOrdered
    <2> QED
      BY Zenon, <2>1
  <1>6. CASE u.ballot = w.ballot
    BY Zenon, <1>i, <1>2, <1>3, <1>6, OneVote DEF Sound, Undisturbed, ValueInv
  <1> QED
    BY <1>2, <1>4, <1>5, <1>6

(* The first Commit carries what is chosen. *)
LEMMA CommitChosen ==
  ASSUME QuorumFacts, IInv, StepEffect, NEW m \in msgs', m \notin msgs, m.type = "Commit",
         Undisturbed(m.instance)
  PROVE  ChosenAt(m.instance, m.ballot, m.value)
  <1>1. PICK n \in Node, i \in Instance :
          /\ pending[n][i].pc = "commit"
          /\ m = Commit(n, i, pending[n][i].ballot, pending[n][i].value)
    BY Zenon, NewCommit
  <1>p. PICK p : p = pending[n][i]
    BY Zenon
  <1>2. m.instance = i /\ m.ballot = p.ballot /\ m.value = Wire(p.value) /\ p.pc = "commit"
    BY Zenon, <1>p, <1>1 DEF Commit
  <1>3. Sound(i)
    BY Zenon, <1>2, IsSound
  <1>4. ProposalSafe(p, i)
    BY Zenon, <1>p, <1>3 DEF Sound, ValueInv
  <1> QED
    BY Zenon, <1>2, <1>4 DEF ProposalSafe
=============================================================================
