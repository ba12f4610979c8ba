----------------------------- MODULE MultiPaxos -----------------------------
(***************************************************************************)
(* A cluster of go-paxos nodes: the proposer (paxos/proposer.go), the      *)
(* acceptor (paxos/acceptor.go), the learner and log recovery of the node  *)
(* (paxos/node.go) and the storage under them, over a network that loses,  *)
(* delays and reorders messages.                                           *)
(*                                                                         *)
(* Messages are never removed from msgs: an undelivered message is a lost  *)
(* or a slow one.  The transport hands a message over at most once, so a   *)
(* request is answered at most once and a reply counted at most once.      *)
(* "inc" is the incarnation of the process that sent the request (the reply *)
(* repeats it): the code has no such field and never reads it here either; *)
(* it only keeps apart messages of two runs of one node that are otherwise *)
(* equal.  The proposer's channel of responses is part of the network: a   *)
(* response waiting in it is a message not yet received.                   *)
(***************************************************************************)
EXTENDS Acceptor, FiniteSets, Sequences

CONSTANTS
  Node,             \* the node IDs of the cluster
  Instance,         \* the instances that may be proposed for (bound)
  Clients,          \* node -> the byte strings its clients propose
  Subscribers,      \* the nodes whose application reads Subscribe()
  CommitChCap,      \* the capacity of commitCh (100 in NewNode)
  SaveOutcomes,     \* may a storage write fail, succeed, or either
  MaxRound,         \* bound on currentRound
  MaxIncarnation,   \* bound on the restarts of a node
  MayRestart,       \* the nodes that may crash and restart (bound)
  MayTimeout,       \* the nodes whose proposals may time out (bound)
  MayElect          \* the nodes that run elections (bound)

ASSUME NodeAssumption ==
  /\ Node \subseteq 1 .. NodeIDSpan - 1
  /\ IsFiniteSet(Node)
  /\ Cardinality(Node) > 1          \* Validate: ErrNoPeers

ASSUME ConfigAssumption ==
  /\ Instance \subseteq Nat \ {0}
  /\ MayRestart \subseteq Node
  /\ MayTimeout \subseteq Node
  /\ MayElect \subseteq Node
  /\ Subscribers \subseteq Node
  /\ Clients \in [Node -> SUBSET Bytes]
  /\ SaveOutcomes \subseteq BOOLEAN
  /\ CommitChCap \in Nat
  /\ MaxRound \in Nat
  /\ MaxIncarnation \in Nat

VARIABLES
  mem,            \* node -> slot -> the acceptor's entry in memory
  disk,           \* node -> slot -> the entry in the storage
  log,            \* node -> instance -> the log entry in the storage
  lastInstance,   \* node -> the storage's highest log instance
  committed,      \* node -> instance -> Node.committed
  lastCommitted,  \* node -> Node.lastCommitted
  commitCh,       \* node -> the commit notifications not yet read
  currentRound,   \* node -> Proposer.currentRound
  nextInstance,   \* node -> Proposer.nextInstance
  isLeader,       \* node -> Proposer.isLeader
  leaderBallot,   \* node -> Proposer.leaderBallot
  pending,        \* node -> slot -> the proposal in flight
  incarnation,    \* node -> how often the process was restarted
  msgs,           \* every message sent
  votes,          \* history: every vote recorded by an acceptor
  acks            \* history: every Propose call that returned an instance

acceptorVars == <<mem, disk>>
learnerVars  == <<log, lastInstance, committed, lastCommitted, commitCh>>
proposerVars == <<currentRound, nextInstance, isLeader, leaderBallot>>

vars == <<mem, disk, log, lastInstance, committed, lastCommitted, commitCh, currentRound,
          nextInstance, isLeader, leaderBallot, pending, incarnation, msgs, votes, acks>>

(* Instance 0 is the "leadership" instance of BecomeLeader. *)
Slot == Instance \cup {0}

(* NewNode: a majority of all nodes, this one included. *)
QuorumSize == Cardinality(Node) \div 2 + 1

Quorum == {Q \in SUBSET Node : Cardinality(Q) >= QuorumSize}

NoProposal == [pc |-> "none", ballot |-> 0, asked |-> Nil, value |-> Nil,
               promises |-> {}, accepteds |-> {}]
NoEntry == [ballot |-> 0, value |-> Nil]

Init ==
  /\ mem = [n \in Node |-> [i \in Slot |-> Unset]]
  /\ disk = [n \in Node |-> [i \in Slot |-> Unset]]
  /\ log = [n \in Node |-> [i \in Instance |-> NoEntry]]
  /\ lastInstance = [n \in Node |-> 0]
  /\ committed = [n \in Node |-> [i \in Instance |-> NoEntry]]
  /\ lastCommitted = [n \in Node |-> 0]
  /\ commitCh = [n \in Node |-> <<>>]
  /\ currentRound = [n \in Node |-> 0]
  /\ nextInstance = [n \in Node |-> 1]
  /\ isLeader = [n \in Node |-> FALSE]
  /\ leaderBallot = [n \in Node |-> 0]
  /\ pending = [n \in Node |-> [i \in Slot |-> NoProposal]]
  /\ incarnation = [n \in Node |-> 0]
  /\ msgs = {}
  /\ votes = {}
  /\ acks = {}
-----------------------------------------------------------------------------
(* Messages.  A value crosses the wire through Encode and decode. *)

Prepare(n, inc, i, b) ==
  [type |-> "Prepare", from |-> n, inc |-> inc, instance |-> i, ballot |-> b]

Accept(n, inc, i, b, v) ==
  [type |-> "Accept", from |-> n, inc |-> inc, instance |-> i, ballot |-> b,
   value |-> Wire(v)]

Commit(n, i, b, v) ==
  [type |-> "Commit", from |-> n, instance |-> i, ballot |-> b, value |-> Wire(v)]

(* An acceptor's reply as the proposer's loop sees it; "to" and inc identify *)
(* the request.  HigherBallot is only logged and is left out.                *)
Reply(r, to, inc) ==
  IF r.type = "Promise"
  THEN [type |-> "Promise", from |-> r.from, to |-> to, inc |-> inc,
        instance |-> r.instance, ballot |-> r.ballot,
        acceptedBallot |-> r.acceptedBallot, acceptedValue |-> r.acceptedValue]
  ELSE [type |-> r.type, from |-> r.from, to |-> to, inc |-> inc,
        instance |-> r.instance, ballot |-> r.ballot]

(* The same reply after Encode and decode. *)
OnWire(m) ==
  IF m.type = "Promise" THEN [m EXCEPT !.acceptedValue = Wire(@)] ELSE m

(* Has node n already answered the request m? *)
Answered(n, m, kinds) ==
  \E r \in msgs : /\ r.type \in kinds
                  /\ r.from = n
                  /\ r.to = m.from
                  /\ r.inc = m.inc
                  /\ r.instance = m.instance
                  /\ r.ballot = m.ballot

(* The messages as sets of records. *)
PrepareMsg == [type : {"Prepare"}, from : Node, inc : Nat, instance : Slot, ballot : Nat]

PromiseMsg == [type : {"Promise"}, from : Node, to : Node, inc : Nat, instance : Slot,
               ballot : Nat, acceptedBallot : Nat, acceptedValue : Bytes]

RejectMsg == [type : {"Reject"}, from : Node, to : Node, inc : Nat, instance : Slot,
              ballot : Nat]

AcceptMsg == [type : {"Accept"}, from : Node, inc : Nat, instance : Instance,
              ballot : Nat, value : Value \cup {Nil}]

AcceptedMsg == [type : {"Accepted"}, from : Node, to : Node, inc : Nat,
                instance : Instance, ballot : Nat]

NackMsg == [type : {"Nack"}, from : Node, to : Node, inc : Nat, instance : Instance,
            ballot : Nat]

CommitMsg == [type : {"Commit"}, from : Node, instance : Instance, ballot : Nat,
              value : Value \cup {Nil}]
-----------------------------------------------------------------------------
(* The learner: handleCommit under Node.mu. *)

CommittedAt(n, i) == committed[n][i] # NoEntry

(* Slip: the log's slice is made but the bytes are not copied into it. *)
AppendUncopied(n, i, b, v) ==
  /\ log' = [log EXCEPT ![n][i] = [ballot |-> b, value |-> Empty]]
  /\ lastInstance' = [lastInstance EXCEPT ![n] = IF i > @ THEN i ELSE @]

AppendLog(n, i, b, v) ==
  /\ log' = [log EXCEPT ![n][i] = [ballot |-> b, value |-> Stored(v)]]
  /\ lastInstance' = [lastInstance EXCEPT ![n] = IF i > @ THEN i ELSE @]

(* Slip: no look whether the instance is committed already. *)
HandleEveryCommit(n, i, b, v, saved) ==
  /\ committed' = [committed EXCEPT ![n][i] = [ballot |-> b, value |-> v]]
  /\ lastCommitted' = [lastCommitted EXCEPT ![n] = IF i > @ THEN i ELSE @]
  /\ AppendLog(n, i, b, v)
  /\ mem' = [mem EXCEPT ![n] = ForgetInstance(@, i)]
  /\ commitCh' = IF Len(commitCh[n]) < CommitChCap
                 THEN [commitCh EXCEPT ![n] = Append(@, [instance |-> i, value |-> v])]
                 ELSE commitCh

(* Node n applies a Commit; "saved" tells whether AppendLog succeeds.  An    *)
(* instance already committed is left alone.                                 *)
HandleCommit(n, i, b, v, saved) ==
  \/ /\ CommittedAt(n, i)
     /\ UNCHANGED <<learnerVars, mem>>
  \/ /\ ~CommittedAt(n, i)
     /\ committed' = [committed EXCEPT ![n][i] = [ballot |-> b, value |-> v]]
     /\ lastCommitted' = [lastCommitted EXCEPT ![n] = IF i > @ THEN i ELSE @]
     /\ \/ saved /\ AppendLog(n, i, b, v)
        \/ ~saved /\ UNCHANGED <<log, lastInstance>>
     /\ mem' = [mem EXCEPT ![n] = ForgetInstance(@, i)]
     /\ commitCh' = IF Len(commitCh[n]) < CommitChCap
                    THEN [commitCh EXCEPT ![n] = Append(@, [instance |-> i, value |-> v])]
                    ELSE commitCh

ReceiveCommit(n, m, saved) ==
  /\ m.type = "Commit"
  /\ n # m.from
  /\ HandleCommit(n, m.instance, m.ballot, m.value, saved)
  /\ UNCHANGED <<disk, proposerVars, pending, incarnation, msgs, votes, acks>>

(* The application takes the next notification from Subscribe(). *)
ReadCommitCh(n) ==
  /\ commitCh[n] # <<>>
  /\ commitCh' = [commitCh EXCEPT ![n] = Tail(@)]
  /\ UNCHANGED <<mem, disk, log, lastInstance, committed, lastCommitted, proposerVars,
                 pending, incarnation, msgs, votes, acks>>
-----------------------------------------------------------------------------
(* The acceptor: Node.handleMessage on Prepare and Accept. *)

ReceivePrepare(n, m, saved) ==
  LET r == HandlePrepare(n, mem[n], disk[n], m.instance, m.ballot, saved)
  IN  /\ m.type = "Prepare"
      /\ n # m.from
      /\ ~Answered(n, m, {"Promise", "Reject"})
      /\ mem' = [mem EXCEPT ![n] = r.mem]
      /\ disk' = [disk EXCEPT ![n] = r.disk]
      /\ msgs' = msgs \cup {OnWire(Reply(r.reply, m.from, m.inc))}
      /\ UNCHANGED <<learnerVars, proposerVars, pending, incarnation, votes, acks>>

(* The vote that an accepting reply stands for. *)
Vote(n, i, b, v) == [node |-> n, instance |-> i, ballot |-> b, value |-> Wire(v)]

VotesOf(r, v) ==
  IF r.type = "Accepted" THEN {Vote(r.from, r.instance, r.ballot, v)} ELSE {}

ReceiveAccept(n, m, saved) ==
  LET r == HandleAccept(n, mem[n], disk[n], m.instance, m.ballot, m.value, saved)
  IN  /\ m.type = "Accept"
      /\ n # m.from
      /\ ~Answered(n, m, {"Accepted", "Nack"})
      /\ mem' = [mem EXCEPT ![n] = r.mem]
      /\ disk' = [disk EXCEPT ![n] = r.disk]
      /\ msgs' = msgs \cup {OnWire(Reply(r.reply, m.from, m.inc))}
      /\ votes' = votes \cup VotesOf(r.reply, m.value)
      /\ UNCHANGED <<learnerVars, proposerVars, pending, incarnation, acks>>
-----------------------------------------------------------------------------
(* The proposer.  A proposal goes through the program counters               *)
(*   "prepare"   registered in pending, own acceptor not yet asked           *)
(*   "promises"  Prepare broadcast, waiting in runPhase1                     *)
(*   "accept"    quorum of promises, own acceptor not yet asked to accept    *)
(*   "accepteds" Accept broadcast, waiting in runPhase2                      *)
(*   "commit"    quorum of accepteds, broadcastCommit not yet run            *)
(* and leaves pending when Propose or BecomeLeader returns.                  *)

Start(n, i, v) ==
  pending' = [pending EXCEPT ![n][i] =
                [pc |-> "prepare", ballot |-> MakeBallot(currentRound'[n], n), asked |-> v,
                 value |-> v, promises |-> {}, accepteds |-> {}]]

Propose(n, v) ==
  LET i == nextInstance[n]
  IN  /\ i \in Instance
      /\ currentRound[n] < MaxRound
      /\ nextInstance' = [nextInstance EXCEPT ![n] = @ + 1]
      /\ currentRound' = [currentRound EXCEPT ![n] = NextRound(@)]
      /\ Start(n, i, v)
      /\ UNCHANGED <<acceptorVars, learnerVars, isLeader, leaderBallot, incarnation, msgs,
                     votes, acks>>

(* BecomeLeader up to its phase 1. *)
BecomeLeader(n) ==
  /\ currentRound[n] < MaxRound
  /\ currentRound' = [currentRound EXCEPT ![n] = NextRound(@)]
  /\ Start(n, 0, Nil)
  /\ UNCHANGED <<acceptorVars, learnerVars, nextInstance, isLeader, leaderBallot,
                 incarnation, msgs, votes, acks>>

(* What the proposer sees of the node's election loop: BecomeLeader is       *)
(* called when the node does not lead, one call at a time (Node.electing),   *)
(* so that a call has the slot of the leadership instance to itself.         *)
Elect(n) ==
  /\ n \in MayElect
  /\ ~isLeader[n]
  /\ pending[n][0] = NoProposal
  /\ BecomeLeader(n)

(* A heartbeat that the node follows reached it (handleHeartbeat). *)
StepDown(n) ==
  /\ isLeader[n]
  /\ isLeader' = [isLeader EXCEPT ![n] = FALSE]
  /\ UNCHANGED <<acceptorVars, learnerVars, currentRound, nextInstance, leaderBallot,
                 pending, incarnation, msgs, votes, acks>>

(* The call returns and the deferred delete runs; the instance is not tried   *)
(* again.                                                                     *)
Abandon(n, i) == pending' = [pending EXCEPT ![n][i] = NoProposal]

(* The first half of runPhase1: the own acceptor, then the broadcast.  With  *)
(* at least one peer the own promise alone is never a quorum.                *)
StartPhase1(n, i, saved) ==
  LET b == pending[n][i].ballot
      r == HandlePrepare(n, mem[n], disk[n], i, b, saved)
      own == Reply(r.reply, n, incarnation[n])
  IN  /\ pending[n][i].pc = "prepare"
      /\ mem' = [mem EXCEPT ![n] = r.mem]
      /\ disk' = [disk EXCEPT ![n] = r.disk]
      /\ \/ /\ own.type = "Reject"
            /\ Abandon(n, i)
            /\ UNCHANGED msgs
         \/ /\ own.type = "Promise"
            /\ pending' = [pending EXCEPT ![n][i] =
                             [@ EXCEPT !.pc = "promises", !.promises = {own}]]
            /\ msgs' = msgs \cup {Prepare(n, incarnation[n], i, b)}
      /\ UNCHANGED <<learnerVars, proposerVars, incarnation, votes, acks>>

(* HandleResponse finds the proposal by instance and ballot, and the loop of *)
(* the phase it is in takes the message.                                     *)
Matches(n, m, pc) ==
  /\ m.to = n
  /\ pending[n][m.instance].pc = pc
  /\ pending[n][m.instance].ballot = m.ballot

(* Slip: the accepted values that promises report are ignored. *)
IgnoreAccepted(promises) == {Nil}

(* findHighestAccepted: the values the scan may return, which is one unless  *)
(* two promises report the same highest ballot.                              *)
HighestAccepted(promises) ==
  LET voted == {p \in promises : p.acceptedBallot > 0}
  IN  IF voted = {} THEN {Nil}
      ELSE {p.acceptedValue : p \in {q \in voted :
              \A r \in voted : r.acceptedBallot <= q.acceptedBallot}}

ReceivePromise(n, m) ==
  LET i  == m.instance
      p  == pending[n][i]
      ps == p.promises \cup {m}
  IN  /\ m.type = "Promise"
      /\ Matches(n, m, "promises")
      /\ m \notin p.promises
      /\ \/ /\ Cardinality(ps) < QuorumSize
            /\ pending' = [pending EXCEPT ![n][i] = [p EXCEPT !.promises = ps]]
            /\ UNCHANGED <<isLeader, leaderBallot>>
         \/ /\ Cardinality(ps) >= QuorumSize
            /\ i # 0
            /\ \E v \in HighestAccepted(ps) :
                 pending' = [pending EXCEPT ![n][i] =
                               [p EXCEPT !.pc = "accept", !.promises = {},
                                         !.value = IF v # Nil THEN v ELSE p.value]]
            /\ UNCHANGED <<isLeader, leaderBallot>>
         \/ /\ Cardinality(ps) >= QuorumSize
            /\ i = 0
            /\ isLeader' = [isLeader EXCEPT ![n] = TRUE]
            /\ leaderBallot' = [leaderBallot EXCEPT ![n] = m.ballot]
            /\ Abandon(n, 0)
      /\ UNCHANGED <<acceptorVars, learnerVars, currentRound, nextInstance, incarnation,
                     msgs, votes, acks>>

(* ErrPreempted, in the phase the refusal belongs to. *)
ReceiveRefusal(n, m) ==
  /\ \/ m.type = "Reject" /\ Matches(n, m, "promises")
     \/ m.type = "Nack" /\ Matches(n, m, "accepteds")
  /\ Abandon(n, m.instance)
  /\ UNCHANGED <<acceptorVars, learnerVars, proposerVars, incarnation, msgs, votes, acks>>

(* ErrTimeout, or the caller's context is done. *)
Timeout(n, i) ==
  /\ pending[n][i].pc \in {"promises", "accepteds"}
  /\ Abandon(n, i)
  /\ UNCHANGED <<acceptorVars, learnerVars, proposerVars, incarnation, msgs, votes, acks>>

(* The first half of runPhase2. *)
StartPhase2(n, i, saved) ==
  LET b == pending[n][i].ballot
      v == pending[n][i].value
      r == HandleAccept(n, mem[n], disk[n], i, b, v, saved)
      own == Reply(r.reply, n, incarnation[n])
  IN  /\ pending[n][i].pc = "accept"
      /\ mem' = [mem EXCEPT ![n] = r.mem]
      /\ disk' = [disk EXCEPT ![n] = r.disk]
      /\ votes' = votes \cup VotesOf(r.reply, v)
      /\ \/ /\ own.type = "Nack"
            /\ Abandon(n, i)
            /\ UNCHANGED msgs
         \/ /\ own.type = "Accepted"
            /\ pending' = [pending EXCEPT ![n][i] =
                             [@ EXCEPT !.pc = "accepteds", !.accepteds = {own}]]
            /\ msgs' = msgs \cup {Accept(n, incarnation[n], i, b, v)}
      /\ UNCHANGED <<learnerVars, proposerVars, incarnation, acks>>

ReceiveAccepted(n, m) ==
  LET i  == m.instance
      p  == pending[n][i]
      as == p.accepteds \cup {m}
  IN  /\ m.type = "Accepted"
      /\ Matches(n, m, "accepteds")
      /\ m \notin p.accepteds
      /\ \/ /\ Cardinality(as) < QuorumSize
            /\ pending' = [pending EXCEPT ![n][i] = [p EXCEPT !.accepteds = as]]
         \/ /\ Cardinality(as) >= QuorumSize
            /\ pending' = [pending EXCEPT ![n][i] =
                             [p EXCEPT !.pc = "commit", !.accepteds = {}]]
      /\ UNCHANGED <<acceptorVars, learnerVars, proposerVars, incarnation, msgs, votes, acks>>

(* Slip: the caller's value is committed, not the one phase 1 settled on. *)
CommitAsked(n, i, saved) ==
  LET p == pending[n][i]
  IN  /\ p.pc = "commit"
      /\ HandleCommit(n, i, p.ballot, p.asked, saved)
      /\ msgs' = msgs \cup {Commit(n, i, p.ballot, p.asked)}
      /\ acks' = acks \cup {[node |-> n, instance |-> i, asked |-> p.asked]}
      /\ Abandon(n, i)
      /\ UNCHANGED <<disk, proposerVars, incarnation, votes>>

(* broadcastCommit: the own learner first (onCommit), then the peers; then   *)
(* Propose returns the instance to its caller.                               *)
BroadcastCommit(n, i, saved) ==
  LET p == pending[n][i]
  IN  /\ p.pc = "commit"
      /\ HandleCommit(n, i, p.ballot, p.value, saved)
      /\ msgs' = msgs \cup {Commit(n, i, p.ballot, p.value)}
      /\ acks' = acks \cup {[node |-> n, instance |-> i, asked |-> p.asked]}
      /\ Abandon(n, i)
      /\ UNCHANGED <<disk, proposerVars, incarnation, votes>>
-----------------------------------------------------------------------------
(* The process dies and NewNode runs on the same storage: NewAcceptor loads  *)
(* the acceptor state and recoverLog the log; the proposer starts afresh.    *)

(* Slip: the last entry of the log is not recovered. *)
GetLogRangeShort(n, from, to) ==
  [i \in Instance |-> IF from <= i /\ i < to - 1 THEN log[n][i] ELSE NoEntry]

(* The entries of a range of the log, gaps left out. *)
GetLogRange(n, from, to) ==
  [i \in Instance |-> IF from <= i /\ i < to THEN log[n][i] ELSE NoEntry]

Restart(n) ==
  /\ incarnation[n] < MaxIncarnation
  /\ incarnation' = [incarnation EXCEPT ![n] = @ + 1]
  /\ mem' = [mem EXCEPT ![n] = LoadAcceptorState(disk[n])]
  /\ committed' = [committed EXCEPT ![n] = GetLogRange(n, 1, lastInstance[n] + 1)]
  /\ lastCommitted' = [lastCommitted EXCEPT ![n] = lastInstance[n]]
  /\ commitCh' = [commitCh EXCEPT ![n] = <<>>]
  /\ currentRound' = [currentRound EXCEPT ![n] = 0]
  /\ nextInstance' = [nextInstance EXCEPT ![n] = 1]
  /\ isLeader' = [isLeader EXCEPT ![n] = FALSE]
  /\ leaderBallot' = [leaderBallot EXCEPT ![n] = 0]
  /\ pending' = [pending EXCEPT ![n] = [i \in Slot |-> NoProposal]]
  /\ UNCHANGED <<disk, log, lastInstance, msgs, votes, acks>>

(* What node n does for its clients, and as an acceptor and a learner. *)
Serve(n) ==
  \/ \E m \in msgs, saved \in SaveOutcomes : ReceivePrepare(n, m, saved)
  \/ \E v \in Clients[n] : Propose(n, v)
  \/ \E i \in Instance, saved \in SaveOutcomes : StartPhase1(n, i, saved)
  \/ \E m \in msgs : m.instance # 0 /\ ReceivePromise(n, m)
  \/ \E m \in msgs : m.instance # 0 /\ ReceiveRefusal(n, m)
  \/ n \in MayTimeout /\ \E i \in Instance : Timeout(n, i)
  \/ \E i \in Instance, saved \in SaveOutcomes : StartPhase2(n, i, saved)
  \/ \E m \in msgs, saved \in SaveOutcomes : ReceiveAccept(n, m, saved)
  \/ \E m \in msgs : ReceiveAccepted(n, m)
  \/ \E i \in Instance, saved \in SaveOutcomes : BroadcastCommit(n, i, saved)
  \/ \E m \in msgs, saved \in SaveOutcomes : ReceiveCommit(n, m, saved)
  \/ n \in Subscribers /\ ReadCommitCh(n)

(* Phase 1 of BecomeLeader, on the leadership instance. *)
SeekPromises(n) ==
  \/ \E saved \in SaveOutcomes : StartPhase1(n, 0, saved)
  \/ \E m \in msgs : m.instance = 0 /\ ReceivePromise(n, m)
  \/ \E m \in msgs : m.instance = 0 /\ ReceiveRefusal(n, m)
  \/ n \in MayTimeout /\ Timeout(n, 0)

Next ==
  \E n \in Node :
    \/ Serve(n)
    \/ Elect(n)
    \/ SeekPromises(n)
    \/ StepDown(n)
    \/ n \in MayRestart /\ Restart(n)

Spec == Init /\ [][Next]_vars
-----------------------------------------------------------------------------
(* Types *)

Proposal ==
  [pc : {"none", "prepare", "promises", "accept", "accepteds", "commit"},
   ballot : Nat, asked : Bytes, value : Bytes, promises : SUBSET PromiseMsg,
   accepteds : SUBSET AcceptedMsg]

LogEntry == [ballot : Nat, value : Bytes]

Message == PrepareMsg \cup PromiseMsg \cup RejectMsg \cup AcceptMsg \cup AcceptedMsg
             \cup NackMsg \cup CommitMsg

(* Every piece of state holds what its Go type allows: rounds fit their       *)
(* width, instances start at 1, what crosses the wire is a value or nil, and  *)
(* an election has no second phase.                                           *)
TypeOK ==
  /\ mem \in [Node -> [Slot -> Entry]]
  /\ disk \in [Node -> [Slot -> Entry]]
  /\ log \in [Node -> [Instance -> LogEntry]]
  /\ committed \in [Node -> [Instance -> LogEntry]]
  /\ lastInstance \in [Node -> Slot]
  /\ lastCommitted \in [Node -> Slot]
  /\ commitCh \in [Node -> Seq([instance : Instance, value : Bytes])]
  /\ currentRound \in [Node -> 0 .. RoundSpan - 1]
  /\ nextInstance \in [Node -> Nat \ {0}]
  /\ isLeader \in [Node -> BOOLEAN]
  /\ leaderBallot \in [Node -> Nat]
  /\ pending \in [Node -> [Slot -> Proposal]]
  /\ \A n \in Node : pending[n][0].pc \in {"none", "prepare", "promises"}
  /\ incarnation \in [Node -> Nat]
  /\ msgs \subseteq Message
  /\ votes \subseteq [node : Node, instance : Instance, ballot : Nat,
                      value : Value \cup {Nil}]
  /\ acks \subseteq [node : Node, instance : Instance, asked : Bytes]
-----------------------------------------------------------------------------
(* Safety *)

Voters(i, b, v) ==
  {a \in Node : [node |-> a, instance |-> i, ballot |-> b, value |-> v] \in votes}

(* A quorum of acceptors voted for v in ballot b. *)
ChosenAt(i, b, v) == Voters(i, b, v) \in Quorum

(* Some node has issued a Commit for i, so acceptors have begun to forget it. *)
CommitIssued(i) == \E m \in msgs : m.type = "Commit" /\ m.instance = i

(* No client value of i was empty: nobody was asked to accept no bytes. *)
NonEmpty(i) == \A m \in msgs : (m.type = "Accept" /\ m.instance = i) => m.value # Nil

(* No node was restarted and went through the same instance again. *)
ProposedOnce(i) ==
  \A m1, m2 \in msgs :
    (/\ m1.type = "Prepare"
     /\ m2.type = "Prepare"
     /\ m1.instance = i
     /\ m2.instance = i
     /\ m1.from = m2.from) => m1 = m2

Undisturbed(i) == ~CommitIssued(i) /\ NonEmpty(i) /\ ProposedOnce(i)

(* Agreement (docs/ALGORITHM.md:90) up to the first Commit of an instance:   *)
(* competing proposers, refusals, failed saves and crashed acceptors never   *)
(* get two values chosen.                                                    *)
AgreementUntilCommit ==
  \A u, w \in votes :
    (/\ u.instance = w.instance
     /\ ChosenAt(u.instance, u.ballot, u.value)
     /\ ChosenAt(w.instance, w.ballot, w.value)
     /\ Undisturbed(u.instance)) => u.value = w.value

(* The Commit that ends this period carries a value that really was chosen,  *)
(* in the ballot it names (runPhase2, proposer.go:298-300).                  *)
FirstCommitChosen ==
  [][\A m \in msgs' \ msgs :
       (m.type = "Commit" /\ Undisturbed(m.instance)) =>
          ChosenAt(m.instance, m.ballot, m.value)]_vars

(* A promise out on the network is never broken, across refusals, failed     *)
(* saves and restarts of the acceptor: between the ballot it reports and the *)
(* ballot it promises, that acceptor has no vote.                            *)
PromisesKept ==
  \A m \in msgs : m.type = "Promise" =>
    \A u \in votes :
      (/\ u.node = m.from
       /\ u.instance = m.instance
       /\ ~CommitIssued(m.instance)) =>
         u.ballot <= m.acceptedBallot \/ u.ballot >= m.ballot

(* One ballot of one instance never stands for two values, even when a node  *)
(* restarts, counts its rounds from zero again and reuses its ballots: its   *)
(* own acceptor, asked first, gives the earlier value back.                  *)
OneValuePerBallot ==
  \A m1, m2 \in msgs :
    (/\ m1.type = "Accept"
     /\ m2.type = "Accept"
     /\ m1.instance = m2.instance
     /\ m1.ballot = m2.ballot
     /\ ~CommitIssued(m1.instance)
     /\ NonEmpty(m1.instance)) => m1.value = m2.value

(* When one Propose call is all that ever happened to an instance, every     *)
(* learner and every log that has the instance has that call's value, and so *)
(* has the caller who was told it is committed.                              *)
SoleProposalLearned ==
  \A m \in msgs :
    (/\ m.type = "Prepare"
     /\ \A k \in msgs : (k.type = "Prepare" /\ k.instance = m.instance) => k = m) =>
       LET learned == {Wire(e.value) : e \in {committed[n][m.instance] : n \in Node} \ {NoEntry}}
                        \cup {Wire(e.value) : e \in {log[n][m.instance] : n \in Node} \ {NoEntry}}
                        \cup {Wire(k.asked) : k \in {a \in acks : a.instance = m.instance}}
       IN  m.instance # 0 => \A v, w \in learned : v = w

(* No two of the campaigns for ballot b were of different lives of a node. *)
CampaignedOnce(b) ==
  \A m1, m2 \in msgs :
    (/\ m1.type = "Prepare" /\ m1.instance = 0 /\ m1.ballot = b
     /\ m2.type = "Prepare" /\ m2.instance = 0 /\ m2.ballot = b) => m1 = m2

(* A majority of disks holds a promise at or above ballot b for the leadership *)
(* instance.                                                                   *)
Backed(b) == {a \in Node : disk[a][0].promised >= b} \in Quorum

(* Are the promises counted for b promises of different nodes?  runPhase1     *)
(* counts messages (proposer.go:224), and a node that restarts campaigns in a *)
(* ballot it had before: it may count two promises of one voter.  Its own and *)
(* one other are enough in a cluster of three.                                *)
CountsNodes(b) == Cardinality(Node) <= 3 \/ CampaignedOnce(b)

(* A leader is backed by a quorum: for as long as it leads, a majority of     *)
(* disks holds a promise at or above its ballot for the leadership instance,  *)
(* whatever crashed since (BecomeLeader, proposer.go:389-396).                *)
LeaderBacked ==
  \A n \in Node :
    isLeader[n] /\ CountsNodes(leaderBallot[n]) => Backed(leaderBallot[n])

(* A subscriber is told only what the node has committed, each instance once. *)
NotificationsGenuine ==
  \A n \in Node : \A j, k \in 1 .. Len(commitCh[n]) :
    /\ committed[n][commitCh[n][j].instance] # NoEntry
    /\ committed[n][commitCh[n][j].instance].value = commitCh[n][j].value
    /\ commitCh[n][j].instance = commitCh[n][k].instance => j = k

(* The log on disk is write-once: an entry is never replaced, although       *)
(* AppendLog overwrites, because recoverLog gives handleCommit back what the *)
(* log holds.                                                                *)
LogWriteOnce ==
  [][\A n \in Node, i \in Instance :
       log[n][i] # NoEntry => log'[n][i] = log[n][i]]_vars
-----------------------------------------------------------------------------
(* What the documentation says of the program and the program does not do. *)

(* "Agreement: At most one value can be chosen per instance"                 *)
(* (docs/ALGORITHM.md:90), without the proviso of AgreementUntilCommit.      *)
Agreement ==
  \A u, w \in votes :
    (/\ u.instance = w.instance
     /\ ChosenAt(u.instance, u.ballot, u.value)
     /\ ChosenAt(w.instance, w.ballot, w.value)) => u.value = w.value

(* Agreement before any Commit when clients may propose empty values too.    *)
AgreementOfBytes ==
  \A u, w \in votes :
    (/\ u.instance = w.instance
     /\ ChosenAt(u.instance, u.ballot, u.value)
     /\ ChosenAt(w.instance, w.ballot, w.value)
     /\ ~CommitIssued(u.instance)
     /\ ProposedOnce(u.instance)) => u.value = w.value

(* "Blocks until the value is committed or an error occurs." (node.go:171):  *)
(* the instance a successful Propose returns holds the caller's value.       *)
AckedValueCommitted ==
  \A a \in acks : Wire(committed[a.node][a.instance].value) = Wire(a.asked)

(* "Values are delivered in instance order." (node.go:184).                  *)
DeliveredInOrder ==
  \A n \in Node : \A j, k \in 1 .. Len(commitCh[n]) :
    j < k => commitCh[n][j].instance < commitCh[n][k].instance
=============================================================================
