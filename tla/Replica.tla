------------------------------- MODULE Replica -------------------------------
(***************************************************************************)
(* The life of a node as an application sees it (Start, Propose, Subscribe *)
(* and Close of paxos/node.go), and the two applications of examples/: a   *)
(* replicated counter and a replicated key-value store.                    *)
(*                                                                         *)
(* Of consensus it keeps the votes, and that an acceptor forgets its own   *)
(* when its node commits the instance: the two phases of a proposal are    *)
(* one step here, MultiPaxos has them in full.  The two examples have the  *)
(* same command loop and differ in the state they keep; the model keeps    *)
(* both, and a log of additions only is a run of the counter.  A process   *)
(* that ends is not started again: its storage is in memory.               *)
(***************************************************************************)
EXTENDS Integers, Sequences, FiniteSets, Functions

CONSTANTS
  Node,          \* the processes
  Typed,         \* node -> the commands its user types, in order
  Key,           \* the keys of the store
  Garbled,       \* the keys that are not UTF-8
  Repaired,      \* what they become
  Absent,        \* what the store holds for no value
  IntSpan,       \* 2^64: the counter is an int64 and wraps
  CommitChCap,   \* the capacity of commitCh (100 in NewNode)
  MaxInstance,   \* bound on the instances
  MayQuit,       \* the nodes whose user quits (bound)
  MayLose        \* the nodes that Commits on their way to may be lost (bound)

ASSUME ReplicaAssumption ==
  /\ IntSpan \in Nat \ {0} /\ IntSpan % 2 = 0
  /\ {CommitChCap, MaxInstance} \subseteq Nat
  /\ Garbled \subseteq Key /\ Repaired \in Key \ Garbled
  /\ MayQuit \cup MayLose \subseteq Node
  /\ \A n \in Node : Typed[n] \in Seq(Range(Typed[n])) /\ Len(Typed[n]) <= MaxInstance
  /\ \A n \in Node : \A c \in Range(Typed[n]) :
        \/ c.type = "ADD" /\ c \in [type : {"ADD"}, amount : Int]
        \/ c.type = "SET" /\ c \in [type : {"SET"}, key : Key, value : {c.value}]
        \/ c.type = "DEL" /\ c \in [type : {"DEL"}, key : Key]

VARIABLES
  life,           \* node -> NewNode ("new") and the stages up to the process's end
  messageLoop,    \* node -> does messageLoop run
  call,           \* node -> the Propose its command loop waits for
  nextInstance,   \* node -> Proposer.nextInstance
  vote,           \* node -> instance -> the value its acceptor holds, or Absent
  commits,        \* node -> the Commits on their way to it
  committed,      \* node -> Node.committed: instance -> value, or Absent
  log,            \* node -> the instances in the storage
  commitCh,       \* node -> the notifications not yet read
  dropped,        \* history: node -> the instances whose notification was dropped
  lost,           \* history: node -> has a Commit not reached the node
  applied,        \* history: node -> the instances applied, in order
  counter,        \* node -> Counter.value
  store,          \* node -> KVStore.data
  panicked        \* node -> has a send met a closed channel

vars == <<life, messageLoop, call, nextInstance, vote, commits, committed, log, commitCh,
          dropped, lost, applied, counter, store, panicked>>
learnerVars == <<vote, committed, log, commitCh, dropped, panicked>>
appVars == <<applied, counter, store>>
nodeVars == <<life, messageLoop, call, nextInstance>>

Instance == 1 .. MaxInstance
Quorum == {Q \in SUBSET Node : 2 * Cardinality(Q) > Cardinality(Node)}
NoCall == [pc |-> "none", instance |-> 0, value |-> Absent]

Init ==
  /\ life = [n \in Node |-> "new"]
  /\ messageLoop = [n \in Node |-> FALSE]
  /\ call = [n \in Node |-> NoCall]
  /\ nextInstance = [n \in Node |-> 1]
  /\ vote = [n \in Node |-> [i \in Instance |-> Absent]]
  /\ commits = [n \in Node |-> {}]
  /\ committed = [n \in Node |-> [i \in Instance |-> Absent]]
  /\ log = [n \in Node |-> {}]
  /\ commitCh = [n \in Node |-> <<>>]
  /\ dropped = [n \in Node |-> {}]
  /\ lost = [n \in Node |-> FALSE]
  /\ applied = [n \in Node |-> <<>>]
  /\ counter = [n \in Node |-> 0]
  /\ store = [n \in Node |-> [k \in Key |-> Absent]]
  /\ panicked = [n \in Node |-> FALSE]

Start(n) ==
  /\ life[n] = "new"
  /\ life' = [life EXCEPT ![n] = "started"]
  /\ messageLoop' = [messageLoop EXCEPT ![n] = TRUE]
  /\ UNCHANGED <<call, nextInstance, commits, learnerVars, lost, appVars>>
-----------------------------------------------------------------------------
(* The learner. *)

(* Slip: a Commit of a known instance is taken for a new one. *)
HandleEveryCommit(n, i, v) ==
  /\ committed' = [committed EXCEPT ![n][i] = v]
  /\ vote' = [vote EXCEPT ![n][i] = Absent]
  /\ log' = [log EXCEPT ![n] = @ \cup {i}]
  /\ UNCHANGED panicked
  /\ IF Len(commitCh[n]) < CommitChCap
     THEN commitCh' = [commitCh EXCEPT ![n] = Append(@, i)] /\ UNCHANGED dropped
     ELSE dropped' = [dropped EXCEPT ![n] = @ \cup {i}] /\ UNCHANGED commitCh

(* ForgetInstance leaves the acceptor free to vote for any other value.      *)
handleCommit(n, i, v) ==
  IF committed[n][i] # Absent THEN UNCHANGED learnerVars
  ELSE /\ committed' = [committed EXCEPT ![n][i] = v]
       /\ vote' = [vote EXCEPT ![n][i] = Absent]
       /\ log' = IF life[n] \in {"started", "stopping"}     \* ErrStorageClosed
                 THEN [log EXCEPT ![n] = @ \cup {i}] ELSE log
       /\ panicked' = [panicked EXCEPT ![n] = @ \/ life[n] = "closed"]
       /\ IF Len(commitCh[n]) < CommitChCap
          THEN commitCh' = [commitCh EXCEPT ![n] = Append(@, i)] /\ UNCHANGED dropped
          ELSE dropped' = [dropped EXCEPT ![n] = @ \cup {i}] /\ UNCHANGED commitCh

(* messageLoop takes a Commit.  Its select may do so after cancel, too. *)
ReceiveCommit(n, m) ==
  /\ messageLoop[n]
  /\ commits' = [commits EXCEPT ![n] = @ \ {m}]
  /\ handleCommit(n, m.instance, m.value)
  /\ UNCHANGED <<nodeVars, lost, appVars>>

LoseCommit(n, m) ==
  /\ n \in MayLose
  /\ commits' = [commits EXCEPT ![n] = @ \ {m}]
  /\ lost' = [lost EXCEPT ![n] = TRUE]
  /\ UNCHANGED <<nodeVars, learnerVars, appVars>>
-----------------------------------------------------------------------------
(* The command loop: one Propose at a time, and quit in between. *)

(* json.Marshal puts U+FFFD for bytes that are no UTF-8; Unmarshal, and the   *)
(* omission of an empty value, lose nothing more.                            *)
Marshal(c) == IF c.type # "ADD" /\ c.key \in Garbled THEN [c EXCEPT !.key = Repaired] ELSE c
Encoded == {Marshal(c) : c \in UNION {Range(Typed[n]) : n \in Node}}

ASSUME AbsentAssumption == Absent \notin Encoded

(* Every call takes an instance, so the next one is for the next command. *)
Propose(n) ==
  LET i == nextInstance[n]
  IN  /\ life[n] = "started"
      /\ call[n] = NoCall
      /\ i <= Len(Typed[n])
      /\ nextInstance' = [nextInstance EXCEPT ![n] = @ + 1]
      /\ call' = [call EXCEPT ![n] =
                   [pc |-> "proposed", instance |-> i, value |-> Marshal(Typed[n][i])]]
      /\ UNCHANGED <<life, messageLoop, commits, learnerVars, lost, appVars>>

(* Phases 1 and 2 with the acceptors of Q, which the proposer may never hear *)
(* of.  A value that one of them reports is kept.  They report two only when *)
(* an acceptor between them has forgotten; the ballots may then stand in     *)
(* either order.  Votes of less than a quorum matter when a later proposer   *)
(* finds them, which is as if the quorum of that proposer had cast them.     *)
Accepted(n, Q) ==
  LET i == call[n].instance
      reported == {vote[p][i] : p \in Q} \ {Absent}
  IN  /\ call[n].pc = "proposed"
      /\ n \in Q /\ \A p \in Q \ {n} : messageLoop[p]
      /\ \E v \in IF reported = {} THEN {call[n].value} ELSE reported :
           /\ vote' = [p \in Node |-> IF p \in Q THEN [vote[p] EXCEPT ![i] = v] ELSE vote[p]]
           /\ call' = [call EXCEPT ![n].pc = "accepted", ![n].value = v]
      /\ UNCHANGED <<life, messageLoop, nextInstance, commits, committed, log, commitCh,
                     dropped, panicked, lost, appVars>>

(* Slip: the node's own learner is not told. *)
CommitToPeers(n) ==
  LET m == [instance |-> call[n].instance, value |-> call[n].value]
  IN  /\ call[n].pc = "accepted"
      /\ commits' = [p \in Node |->
           IF p # n /\ life[p] \in {"started", "stopping"} THEN commits[p] \cup {m}
           ELSE commits[p]]
      /\ lost' = [p \in Node |->
           lost[p] \/ (p # n /\ life[p] \notin {"started", "stopping"})]
      /\ call' = [call EXCEPT ![n] = NoCall]
      /\ UNCHANGED <<life, messageLoop, nextInstance, learnerVars, appVars>>

(* broadcastCommit: the own learner, then the peers; Propose returns. *)
broadcastCommit(n) ==
  LET m == [instance |-> call[n].instance, value |-> call[n].value]
  IN  /\ call[n].pc = "accepted"
      /\ handleCommit(n, m.instance, m.value)
      /\ commits' = [p \in Node |->
           IF p # n /\ life[p] \in {"started", "stopping"} THEN commits[p] \cup {m}
           ELSE commits[p]]
      /\ lost' = [p \in Node |->
           lost[p] \/ (p # n /\ life[p] \notin {"started", "stopping"})]
      /\ call' = [call EXCEPT ![n] = NoCall]
      /\ UNCHANGED <<life, messageLoop, nextInstance, appVars>>

(* ErrTimeout or ErrPreempted. *)
ProposeFails(n) ==
  /\ call[n].pc \in {"proposed", "accepted"}
  /\ call' = [call EXCEPT ![n] = NoCall]
  /\ UNCHANGED <<life, messageLoop, nextInstance, commits, learnerVars, lost, appVars>>
-----------------------------------------------------------------------------
(* The goroutine that ranges over Subscribe(). *)

(* int64 addition. *)
Wrap(x) == ((x + IntSpan \div 2) % IntSpan) - IntSpan \div 2

(* Slip: the amount replaces the total. *)
CounterSet(value, c) == IF c.type = "ADD" THEN c.amount ELSE value

CounterApply(value, c) == IF c.type = "ADD" THEN Wrap(value + c.amount) ELSE value

(* What a command leaves under its key. *)
Written(c) == IF c.type = "SET" THEN c.value ELSE Absent

(* Slip: a deleted key keeps an entry, with no value in it. *)
KVStoreEmpties(data, c) ==
  IF c.type = "SET" THEN [data EXCEPT ![c.key] = c.value]
  ELSE IF c.type = "DEL" THEN [data EXCEPT ![c.key] = ""] ELSE data

KVStoreApply(data, c) ==
  IF c.type \in {"SET", "DEL"} THEN [data EXCEPT ![c.key] = Written(c)] ELSE data

(* Slip: one notification is read, and no more. *)
ApplyOne(n) ==
  LET i == Head(commitCh[n])
  IN  /\ life[n] # "exited"
      /\ commitCh[n] # <<>>
      /\ applied[n] = <<>>
      /\ commitCh' = [commitCh EXCEPT ![n] = Tail(@)]
      /\ applied' = [applied EXCEPT ![n] = Append(@, i)]
      /\ counter' = [counter EXCEPT ![n] = CounterApply(@, committed[n][i])]
      /\ store' = [store EXCEPT ![n] = KVStoreApply(@, committed[n][i])]
      /\ UNCHANGED <<nodeVars, vote, commits, committed, log, dropped, lost, panicked>>

ApplyNext(n) ==
  LET i == Head(commitCh[n])
  IN  /\ life[n] # "exited"
      /\ commitCh[n] # <<>>
      /\ commitCh' = [commitCh EXCEPT ![n] = Tail(@)]
      /\ applied' = [applied EXCEPT ![n] = Append(@, i)]
      /\ counter' = [counter EXCEPT ![n] = CounterApply(@, committed[n][i])]
      /\ store' = [store EXCEPT ![n] = KVStoreApply(@, committed[n][i])]
      /\ UNCHANGED <<nodeVars, vote, commits, committed, log, dropped, lost, panicked>>
-----------------------------------------------------------------------------
(* Close. *)

Quit(n) ==
  /\ n \in MayQuit
  /\ life[n] = "started"
  /\ call[n] = NoCall
  /\ life' = [life EXCEPT ![n] = "stopping"]
  /\ UNCHANGED <<messageLoop, call, nextInstance, commits, learnerVars, lost, appVars>>

(* Slip: messageLoop ranges over the messages until the transport ends them. *)
MessageLoopDrains(n) ==
  /\ messageLoop[n]
  /\ life[n] = "storage closed"
  /\ messageLoop' = [messageLoop EXCEPT ![n] = FALSE]
  /\ UNCHANGED <<life, call, nextInstance, commits, learnerVars, lost, appVars>>

MessageLoopExits(n) ==
  /\ messageLoop[n]
  /\ life[n] = "stopping"
  /\ messageLoop' = [messageLoop EXCEPT ![n] = FALSE]
  /\ UNCHANGED <<life, call, nextInstance, commits, learnerVars, lost, appVars>>

(* Slip: nobody waits for messageLoop. *)
CloseWithoutWait(n) ==
  /\ life[n] = "stopping"
  /\ life' = [life EXCEPT ![n] = "storage closed"]
  /\ UNCHANGED <<messageLoop, call, nextInstance, commits, learnerVars, lost, appVars>>

(* wg.Wait is over: the transport and the storage are closed. *)
CloseStorage(n) ==
  /\ life[n] = "stopping"
  /\ ~messageLoop[n]
  /\ life' = [life EXCEPT ![n] = "storage closed"]
  /\ commits' = [commits EXCEPT ![n] = {}]
  /\ lost' = [lost EXCEPT ![n] = @ \/ commits[n] # {}]
  /\ UNCHANGED <<messageLoop, call, nextInstance, learnerVars, appVars>>

CloseChannel(n) ==
  /\ life[n] = "storage closed"
  /\ life' = [life EXCEPT ![n] = "closed"]
  /\ UNCHANGED <<messageLoop, call, nextInstance, commits, learnerVars, lost, appVars>>

(* The end of the input ends main, without Close. *)
EndOfInput(n) ==
  /\ n \in MayQuit
  /\ life[n] = "started"
  /\ call[n] = NoCall
  /\ life' = [life EXCEPT ![n] = "exited"]
  /\ messageLoop' = [messageLoop EXCEPT ![n] = FALSE]
  /\ UNCHANGED <<call, nextInstance, commits, learnerVars, lost, appVars>>

(* main returns, and takes the goroutine that applies with it. *)
Exit(n) ==
  /\ life[n] = "closed"
  /\ life' = [life EXCEPT ![n] = "exited"]
  /\ UNCHANGED <<messageLoop, call, nextInstance, commits, learnerVars, lost, appVars>>

Next ==
  \E n \in Node :
    \/ Start(n)
    \/ \E m \in commits[n] : ReceiveCommit(n, m) \/ LoseCommit(n, m)
    \/ Propose(n)
    \/ \E Q \in Quorum : Accepted(n, Q)
    \/ broadcastCommit(n)
    \/ ProposeFails(n)
    \/ ApplyNext(n)
    \/ Quit(n)
    \/ EndOfInput(n)
    \/ MessageLoopExits(n)
    \/ CloseStorage(n)
    \/ CloseChannel(n)
    \/ Exit(n)

Spec == Init /\ [][Next]_vars

(* The goroutines run.  messageLoop's select takes the cancelled context     *)
(* sooner or later, however many messages wait.  Users type what they like.  *)
Fairness ==
  \A n \in Node :
    /\ WF_vars(Start(n))
    /\ WF_vars(\E m \in commits[n] : ReceiveCommit(n, m))
    /\ WF_vars(ProposeFails(n) \/ broadcastCommit(n))
    /\ WF_vars(ApplyNext(n))
    /\ WF_vars(MessageLoopExits(n))
    /\ WF_vars(CloseStorage(n) \/ CloseChannel(n) \/ Exit(n))

FairSpec == Spec /\ Fairness
-----------------------------------------------------------------------------
CommitMsg == [instance : Instance, value : Encoded]

TypeOK ==
  /\ life \in [Node -> {"new", "started", "stopping", "storage closed", "closed", "exited"}]
  /\ messageLoop \in [Node -> BOOLEAN]
  /\ call \in [Node -> [pc : {"none", "proposed", "accepted"}, instance : 0 .. MaxInstance,
                        value : Encoded \cup {Absent}]]
  /\ nextInstance \in [Node -> 1 .. MaxInstance + 1]
  /\ vote \in [Node -> [Instance -> Encoded \cup {Absent}]]
  /\ commits \in [Node -> SUBSET CommitMsg]
  /\ committed \in [Node -> [Instance -> Encoded \cup {Absent}]]
  /\ log \in [Node -> SUBSET Instance]
  /\ commitCh \in [Node -> Seq(Instance)]
  /\ dropped \in [Node -> SUBSET Instance]
  /\ lost \in [Node -> BOOLEAN]
  /\ applied \in [Node -> Seq(Instance)]
  /\ counter \in [Node -> - (IntSpan \div 2) .. IntSpan \div 2 - 1]
  /\ store \in [Node -> [Key -> {Written(c) : c \in Encoded} \cup {Absent}]]
  /\ panicked \in [Node -> BOOLEAN]

Committed(n) == {i \in Instance : committed[n][i] # Absent}

(* No notification goes missing between learner and application: what a      *)
(* node has committed is applied once, waits in the channel once, or was     *)
(* dropped because the channel was full (node.go:282-284, 310-317).          *)
NotifiedOnce ==
  \A n \in Node :
    LET told == applied[n] \o commitCh[n]
    IN  /\ Committed(n) = Range(told) \cup dropped[n]
        /\ Range(told) \cap dropped[n] = {}
        /\ Len(told) = Cardinality(Range(told))

(* Close closes the channel only when nobody is left to send on it, as long  *)
(* as the application waits for its Propose calls before it quits            *)
(* (node.go:212-223, counter/main.go:207-210).                               *)
NoPanic == \A n \in Node : ~panicked[n]

(* Order does not matter where it cannot: replicas that have applied the     *)
(* same instances, with the same values, show the same total, however often  *)
(* it overflows, and the same value of every key that at most one of these   *)
(* instances writes (counter/main.go:51-56, kv-store/main.go:60-72).         *)
ReplicasAgree ==
  \A n, p \in Node :
    LET done == Range(applied[n])
        Writers(k) == {i \in done : committed[n][i].type # "ADD" /\ committed[n][i].key = k}
    IN  (/\ done = Range(applied[p])
         /\ \A i \in done : committed[n][i] = committed[p][i]) =>
          /\ counter[n] = counter[p]
          /\ \A k \in Key : Cardinality(Writers(k)) <= 1 => store[n][k] = store[p][k]

(* What a node commits its application applies, unless the notification was  *)
(* dropped or the process ends first: nothing between the learner and the    *)
(* range over Subscribe() waits for ever (node.go:310-317).                  *)
CommittedIsApplied ==
  []<>(\A n \in Node : Committed(n) \subseteq Range(applied[n]) \cup dropped[n]
                         \/ life[n] = "exited")

(* A node whose user quits ends, whatever is still on its way to it          *)
(* (node.go:211-227).                                                        *)
CloseTerminates ==
  []<>(\A n \in Node : life[n] \in {"new", "started", "exited"})

(* A node that stays, to which no Commit was lost on its way and none of its *)
(* notifications dropped: nothing in the code sends a Commit again.          *)
Spared(n) == life[n] = "started" /\ ~lost[n] /\ dropped[n] = {}

(* Spared nodes end up with the same total unless they committed different   *)
(* values of an instance (counter/main.go:3-5): every Commit reaches them,   *)
(* whichever of them proposed, timed out or was told first, and is applied.  *)
(* The proviso is needed: two of three acceptors forget a vote when they     *)
(* commit, a second proposer gets its own value past them, and the third     *)
(* node may be told that value first (Agreement in MultiPaxos).              *)
TotalsConverge ==
  LET Alike(n, p) == \A i \in Committed(n) \cap Committed(p) :
                       committed[n][i] = committed[p][i]
  IN  <>[](\A n, p \in Node :
             Spared(n) /\ Spared(p) /\ Alike(n, p) => counter[n] = counter[p])
=============================================================================
