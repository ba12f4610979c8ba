--------------------------- MODULE MultiPaxosInv ----------------------------
(***************************************************************************)
(* The inductive invariant behind the safety properties of MultiPaxos.     *)
(* The bookkeeping conjuncts hold always.  The acceptor conjuncts hold for *)
(* an instance until its first Commit, because that is when acceptors      *)
(* begin to forget it.  The value conjuncts hold while the instance is     *)
(* Undisturbed.                                                            *)
(***************************************************************************)
EXTENDS MultiPaxos

(* A ballot that MakeBallot gives node n. *)
OwnBallot(b, n) == \E r \in Nat : b = MakeBallot(r, n)

(* Requests: ballots belong to their sender, one incarnation asks once per   *)
(* instance, and an Accept follows its Prepare.                              *)
RequestInv ==
  /\ \A m \in msgs : m.type \in {"Prepare", "Accept", "Commit"} => OwnBallot(m.ballot, m.from)
  /\ \A m \in msgs : m.type = "Prepare" =>
       /\ m.inc <= incarnation[m.from]
       /\ (m.inc = incarnation[m.from] /\ m.instance # 0) => m.instance < nextInstance[m.from]
  /\ \A m \in msgs : m.type = "Accept" =>
       Prepare(m.from, m.inc, m.instance, m.ballot) \in msgs
  /\ \A m1, m2 \in msgs :
       (/\ m1.type = "Accept" /\ m2.type = "Accept" /\ m1.from = m2.from
        /\ m1.inc = m2.inc /\ m1.instance = m2.instance) => m1 = m2

(* Replies answer a request that was sent, come from a peer, and are unique. *)
ReplyInv ==
  /\ \A m \in msgs : m.type = "Promise" =>
       m.from # m.to /\ Prepare(m.to, m.inc, m.instance, m.ballot) \in msgs
  /\ \A m \in msgs : m.type = "Accepted" =>
       /\ m.from # m.to
       /\ \E k \in msgs : /\ k.type = "Accept" /\ k.from = m.to /\ k.inc = m.inc
                          /\ k.instance = m.instance /\ k.ballot = m.ballot
  /\ \A m1, m2 \in msgs :
       (/\ m1.type = "Promise" /\ m2.type = "Promise" /\ m1.from = m2.from
        /\ m1.to = m2.to /\ m1.inc = m2.inc /\ m1.instance = m2.instance
        /\ m1.ballot = m2.ballot) => m1 = m2

(* A proposal p of node n in slot i, in incarnation inc of the node, with     *)
(* "next" the node's next instance and M the messages: it has sent what its  *)
(* program counter says, and tallies replies to its own ballot, its own      *)
(* acceptor's or ones received.                                              *)
Tallied(m, p, n, i, M) ==
  /\ m.to = n /\ m.instance = i /\ m.ballot = p.ballot
  /\ m \in M \/ m.from = n

Fits(p, n, i, inc, next, M) ==
  /\ p.pc # "none" => OwnBallot(p.ballot, n) /\ (i # 0 => i < next)
  /\ p.pc \in {"promises", "accept", "accepteds", "commit"} => Prepare(n, inc, i, p.ballot) \in M
  /\ p.pc \in {"prepare", "promises", "accept"} =>
       \A m \in M : ~(m.type = "Accept" /\ m.from = n /\ m.instance = i /\ m.inc = inc)
  /\ p.pc \in {"accepteds", "commit"} => Accept(n, inc, i, p.ballot, p.value) \in M
  /\ \A m \in p.promises : Tallied(m, p, n, i, M)
  /\ \A m1, m2 \in p.promises : m1.from = n /\ m2.from = n => m1 = m2
  /\ \A m \in p.accepteds : Tallied(m, p, n, i, M)
  /\ \A m1, m2 \in p.accepteds : m1.from = n /\ m2.from = n => m1 = m2

ProposalInv ==
  \A n \in Node, i \in Slot :
    Fits(pending[n][i], n, i, incarnation[n], nextInstance[n], msgs)

(* The learner holds what the log holds. *)
LearnerInv ==
  \A n \in Node, i \in Instance :
    log[n][i] # NoEntry => i <= lastInstance[n] /\ committed[n][i] # NoEntry
-----------------------------------------------------------------------------
(* A promise held by a proposer or on the network. *)
IsPromise(m) ==
  \/ m \in msgs /\ m.type = "Promise"
  \/ \E n \in Node, i \in Slot : m \in pending[n][i].promises

(* Acceptors before the first Commit of i: memory and disk agree, votes stay *)
(* below the last one recorded and the last one below the promise, and       *)
(* promises bind.                                                            *)
AcceptorInv(i) ==
  /\ \A a \in Node :
       /\ mem[a][i].promised = disk[a][i].promised
       /\ mem[a][i].acceptedBallot = disk[a][i].acceptedBallot
       /\ mem[a][i].acceptedBallot <= mem[a][i].promised
  /\ \A u \in votes : u.instance = i => u.ballot <= mem[u.node][i].acceptedBallot
  /\ \A m \in PromiseMsg : (IsPromise(m) /\ m.instance = i) =>
       /\ m.ballot <= mem[m.from][i].promised
       /\ \A u \in votes : (u.node = m.from /\ u.instance = i) =>
            u.ballot <= m.acceptedBallot \/ u.ballot >= m.ballot

Voted(a, i, c, v) == [node |-> a, instance |-> i, ballot |-> c, value |-> v] \in votes

(* Acceptor a has no vote in ballot c and never will have one. *)
WontVote(a, i, c) ==
  /\ mem[a][i].promised > c
  /\ \A u \in votes : ~(u.node = a /\ u.instance = i /\ u.ballot = c)

(* No value but v can be chosen in a ballot below b. *)
SafeAt(i, b, v) ==
  \A c \in Nat : c < b =>
    \E Q \in Quorum : \A a \in Q : Voted(a, i, c, v) \/ WontVote(a, i, c)

(* The votes of i, and the reports of them, while i is Undisturbed. *)
VoteInv(i) ==
  /\ \A a \in Node : mem[a][i].acceptedBallot # 0 =>
       /\ mem[a][i].acceptedValue \in Value
       /\ disk[a][i].acceptedValue = mem[a][i].acceptedValue
       /\ Voted(a, i, mem[a][i].acceptedBallot, mem[a][i].acceptedValue)
  /\ \A u \in votes : u.instance = i =>
       \E m \in msgs : /\ m.type = "Accept" /\ m.instance = i
                       /\ m.ballot = u.ballot /\ m.value = u.value
  /\ \A m \in PromiseMsg : (IsPromise(m) /\ m.instance = i /\ m.acceptedBallot # 0) =>
       m.acceptedValue \in Value /\ Voted(m.from, i, m.acceptedBallot, m.acceptedValue)

(* A proposal p for i: what it is about to ask for is safe, what it counted   *)
(* are votes, and what it is about to commit is chosen.                       *)
ProposalSafe(p, i) ==
  /\ p.pc = "accept" => SafeAt(i, p.ballot, Wire(p.value))
  /\ p.pc = "accepteds" => \A m \in p.accepteds : Voted(m.from, i, m.ballot, Wire(p.value))
  /\ p.pc = "commit" => ChosenAt(i, p.ballot, Wire(p.value))

(* The same of the messages of phase 2. *)
MessageSafe(m, i) ==
  /\ (m.type = "Accept" /\ m.instance = i) => SafeAt(i, m.ballot, m.value)
  /\ (m.type = "Accepted" /\ m.instance = i) =>
       \E u \in votes : u.node = m.from /\ u.instance = i /\ u.ballot = m.ballot

ValueInv(i) ==
  /\ VoteInv(i)
  /\ \A n \in Node : ProposalSafe(pending[n][i], i)
  /\ \A m \in msgs : MessageSafe(m, i)

PromiseInv == \A i \in Instance : ~CommitIssued(i) => AcceptorInv(i)
-----------------------------------------------------------------------------
(* Leadership.  Slot 0 is never forgotten, so promises for it bind for good, *)
(* and a node campaigns with the promise of its own acceptor in hand.        *)
LeaderInv ==
  /\ \A a \in Node : mem[a][0].promised = disk[a][0].promised
  /\ \A m \in PromiseMsg : (IsPromise(m) /\ m.instance = 0) =>
       m.ballot <= disk[m.from][0].promised
  /\ \A n \in Node : pending[n][0].pc = "promises" =>
       \E m \in pending[n][0].promises : m.from = n
  /\ \A n \in Node : leaderBallot[n] # 0 =>
       /\ OwnBallot(leaderBallot[n], n)
       /\ CountsNodes(leaderBallot[n]) => Backed(leaderBallot[n])
-----------------------------------------------------------------------------
(* One value per ballot.  A proposal in a ballot that its node has used       *)
(* before has the earlier value among its promises, then as its own.          *)
AcceptOf(k, i) == k.type = "Accept" /\ k.instance = i

Repeats(p, k) ==
  k.ballot = p.ballot =>
    /\ p.pc = "promises" => \E m \in p.promises : m.acceptedBallot = p.ballot
    /\ p.pc = "accept" => Wire(p.value) = k.value

BallotInv(i) ==
  /\ VoteInv(i)
  /\ \A k \in msgs : AcceptOf(k, i) =>
       /\ Voted(k.from, i, k.ballot, k.value)
       /\ \A m \in msgs : (AcceptOf(m, i) /\ m.ballot = k.ballot) => m.value = k.value
       /\ \A n \in Node : Repeats(pending[n][i], k)
  /\ \A m \in PromiseMsg : (IsPromise(m) /\ m.instance = i) => m.acceptedBallot <= m.ballot
-----------------------------------------------------------------------------
(* A single proposal for i.  What is accepted, learnt or acknowledged was     *)
(* asked for in an Accept, and the only Accept carries the caller's value.    *)
Sole(i) ==
  \A m1, m2 \in msgs :
    (/\ m1.type = "Prepare" /\ m1.instance = i
     /\ m2.type = "Prepare" /\ m2.instance = i) => m1 = m2

AcceptSent(i) == \E k \in msgs : AcceptOf(k, i)

AcceptSentFor(i, v) == \E k \in msgs : AcceptOf(k, i) /\ k.value = Wire(v)

Faithful(p, i) ==
  /\ p.pc \in {"prepare", "promises"} => p.value = p.asked
  /\ (Sole(i) /\ p.pc \in {"accept", "accepteds", "commit"}) => Wire(p.value) = Wire(p.asked)

TraceInv(i) ==
  /\ \A a \in Node : (mem[a][i].acceptedBallot # 0 \/ disk[a][i].acceptedBallot # 0) => AcceptSent(i)
  /\ \A m \in PromiseMsg : (IsPromise(m) /\ m.instance = i /\ m.acceptedBallot # 0) => AcceptSent(i)
  /\ \A n \in Node :
       /\ committed[n][i] # NoEntry => AcceptSentFor(i, committed[n][i].value)
       /\ log[n][i] # NoEntry => AcceptSentFor(i, log[n][i].value)
       /\ Faithful(pending[n][i], i)
  /\ \A m \in msgs : (m.type = "Commit" /\ m.instance = i) => AcceptSentFor(i, m.value)
  /\ \A k \in acks : k.instance = i => AcceptSent(i) /\ (Sole(i) => AcceptSentFor(i, k.asked))
-----------------------------------------------------------------------------
IInv ==
  /\ TypeOK
  /\ RequestInv
  /\ ReplyInv
  /\ ProposalInv
  /\ LearnerInv
  /\ PromiseInv
  /\ LeaderInv
  /\ \A i \in Instance : Undisturbed(i) => ValueInv(i)
  /\ \A i \in Instance : (~CommitIssued(i) /\ NonEmpty(i)) => BallotInv(i)
  /\ \A i \in Instance : TraceInv(i)
=============================================================================
