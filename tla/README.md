# go-paxos in TLA+

A verification development for the Multi-Paxos library under `src/paxos`. The
modules model the protocol core (ballots, acceptor, proposer, learner, log and
their storage), leader election, the TCP transport, and the life of a node under
the two example applications, all from the Go source. TLC checks them on small
clusters; TLAPS proves the safety of the protocol core, of elections and of the
transport for clusters of any size.

## The system

A `Node` (`node.go`) is proposer, acceptor and learner in one process.

| Part | Source | State | Operations | Talks to |
|------|--------|-------|------------|----------|
| Ballots, values | `types.go` | none | `MakeBallot`, `Round`, `NodeID`, `Validate` | everything |
| Acceptor | `acceptor.go` | `promised`, `acceptedBallot`, `acceptedValue` per instance, under `mu` | `HandlePrepare`, `HandleAccept`, `ForgetInstance`, `persist` | storage; replies to the node |
| Proposer | `proposer.go` | `currentRound`, `nextInstance`, `isLeader`, `leaderBallot`, `pending` | `Propose`, `runPhase1`, `runPhase2`, `broadcastCommit`, `BecomeLeader`, `StepDown`, `HandleResponse` | own acceptor (direct call), peers (transport), own learner (`onCommit`) |
| Learner | `node.go` | `committed`, `lastCommitted`, `commitCh` | `handleCommit`, `Subscribe`, `recoverLog` | storage, acceptor (`ForgetInstance`) |
| Election | `node.go` | `currentLeader`, `leaderBallot`, `electionDeadline`, `electing` | `checkLeaderAndHeartbeat`, `startElection`, `handleHeartbeat` | proposer |
| Lifecycle | `node.go` | `started`, `ctx`, `wg` | `NewNode`, `Start`, `Close` | all |
| Storage | `storage.go` | acceptor state, log, snapshot, `closed` | save, load, append, range, last | acceptor, learner |
| Wire format | `message.go` | none | `Encode`, `decode…` | transport |
| TCP transport | `transport_tcp.go` | connections, listener, incoming queue | handshake, `registerLocked`, `Send`, `Broadcast`, reconnect | nodes |
| Examples | `examples/` | counter, map | `Apply` | `Propose`, `Subscribe` |

What makes it hard: several proposers work on the same instance at once (every
node counts `nextInstance` for itself); each handler runs between network
events of others; a save may fail half way through a handler; a process may
stop anywhere and start again on the same storage with its proposer counters at
zero; a committed instance is erased from the acceptors; and a value can be
"no bytes" in two ways (nil and empty) that the code tells apart.

## Modules

* `PaxosTypes`: ballots (`MakeBallot`, `Round`, `NodeID`), the round counter
  with its width, and the two conversions of a value: `Wire` (encode, then
  decode: no bytes become nil) and `Stored` (the copy `MemoryStorage` makes: nil
  becomes empty).
* `Acceptor`: the handlers of `acceptor.go` as functions from memory, disk,
  request and the fate of the save to the new memory, new disk and reply. The
  three Go maps are one function to entries; a missing key is the zero entry.
* `AcceptorNode`: one acceptor over its storage as a state machine, asked
  anything in any order. `Voter` is its abstract specification: no disk, no
  crash, no failed save. `MCAcceptorNode` is the instance for TLC.
* `MultiPaxos`: a cluster. State per node: the acceptor's memory and disk, the
  log on disk, the learner, the proposer with its pending proposals; plus the
  messages sent and two histories (`votes`, `acks`). `MCMultiPaxos` has the
  small instances.
* `Election`: `MultiPaxos` with the node's ticks, election deadlines, `electing`
  flag and heartbeats (`node.go:327-452`). Every step is a step of `MultiPaxos`
  on slot 0 or leaves its state alone, which the run checks and a theorem states.
  `MCElection` is the instance.
* `TcpTransport`: `transport_tcp.go`, the transports of all nodes and the
  connections between them. `Network` is its abstract specification, what the
  `Transport` interface promises and `MultiPaxos` assumes: a message arrives at
  most once, as its sender's, and only if sent. `MCTcpTransport` is the instance.
* `Replica`: `Start`, `Propose`, `Subscribe` and `Close` of a node as the two
  programs of `examples/` use them, with their state machines. Consensus is
  taken at its word there (one value per instance). `MCReplica` is the instance.
* `MultiPaxosInv`: the inductive invariant behind the properties of
  `MultiPaxos`; `MultiPaxosEffects`: what steps do, entry by entry.
* `AcceptorProofs`, `TransportProofs`, `ReplicaProofs`, `MultiPaxosBasics`,
  `MultiPaxosSteps`, `MultiPaxosPromises`, `MultiPaxosVotes`,
  `MultiPaxosAgreement`: the proofs (see below); those about `Election` are in
  the last.

How the parts fit: `TcpTransport` implements `Network`, the network of
`MultiPaxos`; `Election` implements `MultiPaxos`; `AcceptorNode`, built from the
same handlers as the acceptors of `MultiPaxos`, implements `Voter`.

Correspondence of `MultiPaxos` actions and code:

| Action | Code |
|--------|------|
| `Propose` | `Proposer.Propose` up to `runPhase1` (instance, round, `pending`) |
| `StartPhase1`, `StartPhase2` | a phase up to its loop: own acceptor, then the broadcast; a refusal by the own acceptor ends the call |
| `ReceivePrepare`, `ReceiveAccept` | `handleMessage` and the acceptor's handler at a peer, and the reply |
| `ReceivePromise`, `ReceiveAccepted` | one turn of the loop of a phase; the turn that completes the quorum ends the phase (`findHighestAccepted`, the leader flags of `BecomeLeader`) |
| `ReceiveRefusal`, `Timeout` | the turns that end the call with `ErrPreempted` or `ErrTimeout` |
| `BroadcastCommit` | `broadcastCommit`: own learner, then the peers; then `Propose` returns |
| `ReceiveCommit` | `handleCommit` at a peer: committed map, log, `ForgetInstance`, notification |
| `ReadCommitCh` | the application takes a notification |
| `BecomeLeader`, `StepDown` | the election's phase 1 on slot 0, and giving up leadership |
| `Restart` | the process dies; `NewNode` on the same storage (`NewAcceptor`, `NewProposer`, `recoverLog`) |

Each pending proposal carries the program counter of its goroutine, so the
steps of concurrent `Propose` calls, of the message loop and of other nodes
interleave freely between the points where the code holds no lock.

The network is the set of all messages sent. A message may be received at any
later time or never: that covers loss, delay and reordering, a response channel
that is full or still holds the message, and a sender that crashes between its
own acceptor or learner and the broadcast. A request is answered, and a reply
counted, at most once, as over the transport's one connection per peer. The
field `inc` only tells apart equal messages of two runs of one node; no guard
compares it with anything a Go program would have to know. The own acceptor's
reply does not cross the wire and is kept apart from the messages.
`TCPTransport.Broadcast` returns no error, so there is no such exit. With at
least one peer (`Validate`), the own reply alone is never a quorum. A `Commit`
may be received again; `handleCommit` ignores what is committed.

In `MultiPaxos` itself `BecomeLeader` and `StepDown` may happen at any time;
`Election` says when they do:

| Action of `Election` | Code |
|--------|------|
| `DeadlinePasses`, `startElection` | time passes; the tick of a follower that finds its deadline passed and no election running |
| `Campaign` | phase 1 inside `BecomeLeader`; when it fails, the back-off |
| `AssertLeadership` | the end of `startElection`, after `BecomeLeader` has released its lock: heartbeats may be handled in between |
| `Heartbeat`, `handleHeartbeat`, `LoseHeartbeat` | the tick of a leader; its arrival, which may depose the receiver; its loss |
| `RestartNode` | `Restart`, and the node's own leader fields start from zero |

Of `TcpTransport`, an end of a connection is greeting (in `setupConn`), up
(registered, its `readLoop` running), closing (socket closed, `readLoop` yet to
notice) or shut:

| Action | Code |
|--------|------|
| `Listen`, `Connect` | the same; `Connect` dials in the calling goroutine |
| `ReconnectTick`, `Redial` | `reconnectLoop`: the list taken under the lock, then one dial after the other without it |
| `setupConn`, `handshakeFails` | the code after the peer's handshake was read, `registerLocked` included, or its error return |
| `readMessage`, `readLoopEnds` | a turn of `readLoop`, dropping what `incoming` has no room for; its end |
| `Send`, `Broadcast`, `Receive` | the same; without a connection the message is lost |
| `Close`, `LoopExits`, `CloseReturns` | `Close` up to `wg.Wait`, the loops it waits for, and its return |
| `Crash` | the process dies and starts with a new transport |

Of `Replica`: `Propose`, `Accepted`, `broadcastCommit` and `ProposeFails` are a
call of `Node.Propose` by the command loop; `ReceiveCommit` and
`MessageLoopExits` are `messageLoop`; `ApplyNext` is the goroutine that ranges
over `Subscribe()`; `Quit`, `CloseStorage`, `CloseChannel` and `Exit` are `quit`
and `Node.Close` in their order; `EndOfInput` is the end of `main` without it.
`Marshal` is what JSON does to a key that is not UTF-8, `Wrap` is `int64`
addition.

Mutated definitions ("slips") stand before the definition they vary; no run
uses them as they are.

## Runs

| Run | Instance | Properties |
|-----|----------|------------|
| `acceptor` | two instances, two ballots, values with nil and empty, any save may fail, crash anywhere | `TypeOK`, `Lockstep`, `AnswersDurable`, `AnswersConsistent`, `ImplementsVoter` |
| `contend` | 3 nodes, 2 dueling proposers, failing saves, a timeout, an acceptor restarts, node 1 may campaign for leadership instead; up to the first Commit | `AgreementUntilCommit`, `PromisesKept`, `FirstCommitChosen` |
| `restart` | 3 nodes; the proposer and an acceptor restart once each; clients propose two values | `OneValuePerBallot`, `SoleProposalLearned` |
| `learn` | 3 nodes, 2 proposers, a learner restarts, past the Commit | `NotificationsGenuine`, `LogWriteOnce` |
| `election` | 2 nodes, both candidates, rounds that wrap, lost heartbeats, a timeout, a restart | `TypeOK`, `LeaderBacked`, `FollowedWasElected`, `ImplementsMultiPaxos`, `LeaderSettles` |
| `transport` | 2 nodes that dial each other, two faults, node 2 may close | `TableExact`, `NoSendOnClosed`, `Converges`, `CloseTerminates` |
| `wire` | 2 nodes, two calls of `Send` or `Broadcast`, a fault, a full `incoming`; node 2 advertises another address than node 1 dials, so node 1 keeps replacing the connection | `TypeOK`, `ImplementsNetwork` |
| `replica` | 2 processes, two instances, additions that overflow, a set and a delete, a channel for one notification, lost Commits, one process quits | `TypeOK`, `NotifiedOnce`, `NoPanic`, `ReplicasAgree`, `CommittedIsApplied`, `CloseTerminates`, `TotalsConverge` |

The bounds. Three nodes are the smallest cluster with a quorum that is neither
everything nor one node; two ballots of two nodes are enough for a duel, and a
restart adds the reuse of a ballot. Properties about one instance need one
instance: instances interact only through the acceptor's save, which writes
all of them, and the `acceptor` run has two. `MaxRound` stops proposals,
`MaxIncarnation` restarts; `MayRestart`, `MayTimeout`, `MayElect` and `Clients`
say which nodes do what. In `election` the round counter has two values instead
of 2^32, so that its wrap is reached; two nodes suffice, since a quorum of two
needs the other's promise as one of three does. The same properties held on
the instance with three rounds and no timeout (300,960 states), which takes longer. In `transport` and `wire`
`MaxConn` connections exist at a time: two is what simultaneous dials produce,
and a third waits. In `replica` numbers have four values, so that two additions
overflow. `contend` stops at the first Commit, as
its properties do. Runs end when the bounded work is done or everyone waits for
a lost message, so deadlock is not checked there; `acceptor` checks it.

Fairness. `election`, `transport` and `replica` check liveness, under
assumptions about goroutines that can run and no others:

* `Election`: weak fairness of the ticks, of each node's own phase 1 and of the
  acceptors' answers; strong fairness of handling a heartbeat, because a leader
  repeats it on every tick and a message that is sent for ever gets through now
  and then. Nothing makes elections end: two candidates can duel for ever, and
  the code relies on random deadlines to part them (`node.go:448-451`). Hence
  `LeaderSettles` says: elections are started for ever, or one leader remains
  and all follow it.
* `TcpTransport`: weak fairness of `Start`'s calls, the loops, handshakes and
  the noticing of a closed socket; strong fairness of `reconnectLoop` taking the
  cancelled context, as Go's `select` chooses at random between the ready cases.
  Nobody has to send, close, crash or break.
* `Replica`: weak fairness of `Start`, `messageLoop`, the return of `Propose`
  (both examples pass a timeout), the applying goroutine and `Close`'s steps.
  Users type what they like. `messageLoop` has finitely many messages here, so
  weak fairness is enough for it to take the cancelled context.

### What the code does not do

Four runs show that the code departs from its documentation.

* `agreement_doc`: `docs/ALGORITHM.md:90` promises "At most one value can be
  chosen per instance". `handleCommit` erases the acceptor's promise and vote
  for the committed instance (`ForgetInstance`), and nothing else in the
  acceptor remembers. A second proposer whose own counter is still at that
  instance gets its own value chosen and committed. Nodes that have learned the
  first value keep it; others learn the second.
* `empty_value`: the same sentence, before any Commit: an empty value arrives as
  nil, and `Propose` takes a nil accepted value for "none accepted".
* `propose_doc`: `node.go:171` says `Propose` "Blocks until the value is
  committed or an error occurs"; it also returns without error when another
  node's value was committed in the instance it returns.
* `order_doc`: `node.go:184` says "Values are delivered in instance order";
  commits are delivered as they arrive.

Hence the provisos of the positive properties: agreement is stated up to the
first Commit of the instance, for non-empty values, and as long as no node
proposes twice for it (`Undisturbed`).

## Proofs

`PROJECT.json` lists the theorems. All are proved from the assumptions named in
the modules: node IDs are 1 to 65535 and at least two, instances are positive,
rounds have some width of at least two values, nil and empty are no proper
values; in `Replica`, integers have some positive even number of values, and the
mark of an absent value is no command. Nothing depends on the bounds of the runs.

The proofs about `MultiPaxos` have two stages. `MultiPaxosSteps` looks into the
handlers once and shows that every step has one of the effects listed in
`MultiPaxosEffects` (an acceptor promises or votes and saves, forgets an
instance or reloads; messages sent; a proposal moves on; a learner learns). The
other modules argue from the effects alone.

* `AcceptorProofs`: all properties of `AcceptorNode`, the refinement of `Voter`
  included. The inductive invariant joins `TypeOK`, `Lockstep`,
  `AnswersDurable` and the ordering vote <= promise; the last is what lets
  the handler's comparison with the promise protect the earlier votes.
* `MultiPaxosBasics`: a ballot determines its round and node, and the order of
  ballots is that of rounds, then nodes (`BallotOrder`); where a vote, a promise,
  an Accept, a Commit or a change of a proposal can come from; other facts the
  modules share.
* `MultiPaxosSteps`: what the acceptor's handlers return, case by case, the
  effect of every action, and type correctness; then the bookkeeping that holds
  whatever the proposers do. Requests carry their sender's ballots, replies answer requests, a pending
  proposal has sent what its program counter says (`RequestInv`, `ReplyInv`,
  `ProposalInv`), and the learner holds what the log holds (`LearnerInv`).
* `MultiPaxosPromises`: the acceptors. `AcceptorInv` (memory agrees with disk,
  votes <= last vote <= promise, promises bind) survives promising, voting and
  reloading; forgetting needs a Commit. Nobody commits slot 0, so promises for
  leadership bind for good, and the quorum a winner counted stays on the disks
  (`LeaderInv`). `TraceInv` follows a value from the Accept that asked for it to
  the learners, the logs and the callers of `Propose`.
* `MultiPaxosVotes`: the values of an instance. The code counts replies by
  number; `TallyIsQuorum` shows that while nobody proposes twice the replies come
  from distinct nodes, so the number means a quorum. The heart is `SafeAt`: for
  every lower ballot some quorum has voted for the value in it or never will vote
  in it. Phase 1 establishes it, both when no vote is reported and when the
  highest one is adopted, and every step keeps it. `BallotInv` is about a node
  that does propose twice, after a restart, in a ballot it had before: its own
  acceptor voted before the earlier Accept went out, so the promise it gives
  first reports that vote (`OwnReport`); no other promise can report a higher
  ballot, so `findHighestAccepted` takes the earlier value (`ReportWins`).
* `MultiPaxosAgreement`: majorities meet (from the cardinality theorems of the
  library); the parts give `IInv` (`InvariantHolds`); and from it
  `AtMostOneChosen`, `FirstCommitIsChosen`, `PromisesAreKept`,
  `BallotsHaveOneValue`, `SoleProposalIsLearned`, `LeaderIsBacked`, and, with no
  proviso, `LogIsWriteOnce` and `NotificationsAreGenuine`. `ElectionRefines`
  shows that `Election` implements `MultiPaxos`, so that all of these hold of
  clusters with elections; it needs one small invariant (`DeadlineInv`), that
  only nodes with an election loop see a deadline pass. `FollowedIsElected` needs
  `FollowInv`: a heartbeat on its way and a leader that is followed name a ballot
  that this leader won, and a ballot once won stays won.
* `TransportProofs`: `TcpTransport`. `Sockets` says that a connection joins two
  different nodes, that a node's table holds exactly its ends that are up, and
  that a closed node has no `readLoop`. From it come `TypesHold`, `TableIsExact`
  and `NothingSentOnClosed`. `NetInv` says that a message under way was sent by
  the node at the other end (`Genuine`) and is in one place only, a socket
  (`OnWire`), `incoming` (`Waits`) or delivered (`Came`); so the transport refines
  `Network` (`TransportRefines`), which delivers nothing twice and under no other
  name.
* `ReplicaProofs`: all safety properties of `Replica`. `LifeInv` says that whoever
  can still call `handleCommit` belongs to a node whose channel is open, which is
  `CloseNeverPanics`; `CommitInv` that a Commit on its way or handled is of a settled
  instance; `ToldInv` that what was applied and what waits in `commitCh` are
  distinct committed instances, which gives `EveryCommitToldOnce`. `Shown` says
  what a replica shows after applying a set of instances in any order: the
  wrapped sum of their amounts, and for each key the value some writer of it
  leaves. Replicas that applied the same set then show the same
  (`ReplicasShowTheSame`). A sum over a set would be a recursive definition, which
  the provers cannot reason about for every input; `Sum` is a difference of two
  cardinalities instead, which the library's theorems about finite sets cover.

Agreement alone is not inductive: nothing in it says that a value about to be
asked for is compatible with what a quorum may already have chosen, nor that a
counted reply stands for a vote. `IInv` adds both. TLC checked it as an
invariant of the instances of all four `MultiPaxos` runs before it was proved,
in a copy with finite sets in place of `Nat` and of all promise messages.

Every safety property of a passing run has a theorem. Model-checked only are the
liveness properties (`LeaderSettles`, `Converges`, `CloseTerminates`,
`CommittedIsApplied`, `TotalsConverge`): liveness under fairness and `ENABLED` are
out of the prover's reach.

`LeaderBacked` and `FollowedWasElected` are not claimed for every cluster
(`CountsNodes`): in one of four nodes or more, a candidate that restarts and
campaigns in the same ballot may count two promises of one voter, one for each of
its runs. Two campaigns of one run in one ballot, 2^32 rounds apart, are the same
messages to the model. For the same reason agreement carries the proviso that no
node proposes twice in the instance.

## Limits of the models

* `NoPanic` holds for applications that call `Close` with no `Propose` running,
  as both examples do. `Close` waits for `messageLoop` and `electionLoop` only,
  so a concurrent `Propose` that commits after it would send on a closed
  channel; the code leaves this to its caller.
* `Converges` is checked for nodes that listen on the address their peers dial.
  Where these differ as strings, `connectedTo` never recognises the connection
  and the node dials again on each tick of `reconnectLoop`; the `wire` run has
  this case (`Alias`) and claims only at-most-once delivery.
* `TotalsConverge` is about nodes to which no Commit was lost and whose channel
  was never full. Nothing sends a Commit again: `CatchupReq` and `CatchupRes`
  are declared and not implemented.
* `Election` keeps one heartbeat on its way between two nodes: a newer one takes
  the place of an older, as on one ordered connection with losses.

## Not modelled

The byte layout of frames and messages, and decoding errors: decoding is pure,
and a frame that cannot be decoded ends its connection, which `readLoopEnds` may
do at any time within the bound on faults. The exact times of deadlines and tickers, and with them
how likely an election is to end.
Also left out: logging, `WithDefaults`, snapshots (`SaveSnapshot` and
`LoadSnapshot` have no caller), `CatchupReq`/`CatchupRes` (declared only),
`MaxInFlightInstances` (never read), and the command-line parts of the examples.
