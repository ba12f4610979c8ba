------------------------------ MODULE Election -------------------------------
(***************************************************************************)
(* Leader election and heartbeats of the node (paxos/node.go) over the     *)
(* proposers, acceptors and learners of MultiPaxos, which go on serving    *)
(* clients meanwhile.                                                      *)
(*                                                                         *)
(* Time is one bit: whether the election deadline has passed.  A deadline  *)
(* that passes while the node leads is always reset before it is looked at *)
(* again, so it is left out; for the same reason a tick reads "not the     *)
(* leader" and "deadline passed" in one step.  The heartbeats of a tick    *)
(* and of a won election are sent within the step that reads the leader's  *)
(* ballot: nothing changes it before the node's next election.  Heartbeats *)
(* arrive in the order they were sent; at most one is on its way between   *)
(* two nodes (bound), a newer one takes the place of an older.             *)
(***************************************************************************)
EXTENDS MultiPaxos

VARIABLES
  currentLeader,   \* node -> Node.currentLeader
  followedBallot,  \* node -> Node.leaderBallot
  electing,        \* node -> where startElection is, "no" when none runs
  expired,         \* node -> has electionDeadline passed
  beats            \* from -> to -> the ballot of the heartbeat on its way, or 0

nodeVars == <<currentLeader, followedBallot, electing, expired, beats>>
electionVars == <<vars, nodeVars>>

ElectionInit ==
  /\ Init
  /\ currentLeader = [n \in Node |-> 0]
  /\ followedBallot = [n \in Node |-> 0]
  /\ electing = [n \in Node |-> "no"]
  /\ expired = [n \in Node |-> FALSE]
  /\ beats = [n \in Node |-> [p \in Node |-> 0]]

sendHeartbeat(n, b) ==
  beats' = [beats EXCEPT ![n] = [p \in Node |-> IF p = n THEN 0 ELSE b]]

(* Time passes and no leader was heard of. *)
DeadlinePasses(n) ==
  /\ n \in MayElect
  /\ ~isLeader[n] /\ ~expired[n]
  /\ expired' = [expired EXCEPT ![n] = TRUE]
  /\ UNCHANGED <<vars, currentLeader, followedBallot, electing, beats>>

(* A tick of a leader. *)
Heartbeat(n) ==
  /\ isLeader[n]
  /\ sendHeartbeat(n, leaderBallot[n])
  /\ UNCHANGED <<vars, currentLeader, followedBallot, electing, expired>>

(* Slip: a tick does not look whether an election is running. *)
startAnother(n) ==
  /\ ~isLeader[n]
  /\ expired[n]
  /\ BecomeLeader(n)
  /\ electing' = [electing EXCEPT ![n] = "campaign"]
  /\ expired' = [expired EXCEPT ![n] = FALSE]
  /\ UNCHANGED <<currentLeader, followedBallot, beats>>

(* A tick of a follower, and BecomeLeader up to its phase 1. *)
startElection(n) ==
  /\ ~isLeader[n]
  /\ electing[n] = "no"
  /\ expired[n]
  /\ BecomeLeader(n)
  /\ electing' = [electing EXCEPT ![n] = "campaign"]
  /\ expired' = [expired EXCEPT ![n] = FALSE]
  /\ UNCHANGED <<currentLeader, followedBallot, beats>>

(* Phase 1 of BecomeLeader.  When it fails, startElection backs off. *)
Campaign(n) ==
  /\ SeekPromises(n)
  /\ electing' = [electing EXCEPT ![n] =
       IF pending'[n][0] # NoProposal THEN "campaign"
       ELSE IF isLeader'[n] THEN "won" ELSE "no"]
  /\ expired' = [expired EXCEPT ![n] = @ /\ electing'[n] # "no"]
  /\ UNCHANGED <<currentLeader, followedBallot, beats>>

(* BecomeLeader has returned; the node takes its own lock only now. *)
AssertLeadership(n) ==
  /\ electing[n] = "won"
  /\ currentLeader' = [currentLeader EXCEPT ![n] = n]
  /\ followedBallot' = [followedBallot EXCEPT ![n] = leaderBallot[n]]
  /\ sendHeartbeat(n, leaderBallot[n])
  /\ electing' = [electing EXCEPT ![n] = "no"]
  /\ expired' = [expired EXCEPT ![n] = FALSE]
  /\ UNCHANGED vars

(* Slip: a heartbeat of a lower ballot is followed too. *)
handleAnyHeartbeat(n, l) ==
  /\ beats[l][n] # 0
  /\ beats' = [beats EXCEPT ![l][n] = 0]
  /\ currentLeader' = [currentLeader EXCEPT ![n] = l]
  /\ followedBallot' = [followedBallot EXCEPT ![n] = beats[l][n]]
  /\ expired' = [expired EXCEPT ![n] = FALSE]
  /\ IF isLeader[n] THEN StepDown(n) ELSE UNCHANGED vars
  /\ UNCHANGED electing

(* Slip: a heartbeat of a lower ballot changes the leader too. *)
handleEveryHeartbeat(n, l) ==
  /\ beats[l][n] # 0
  /\ beats' = [beats EXCEPT ![l][n] = 0]
  /\ currentLeader' = [currentLeader EXCEPT ![n] = l]
  /\ followedBallot' = [followedBallot EXCEPT ![n] = IF beats[l][n] > @ THEN beats[l][n] ELSE @]
  /\ expired' = [expired EXCEPT ![n] = FALSE]
  /\ IF isLeader[n] THEN StepDown(n) ELSE UNCHANGED vars
  /\ UNCHANGED electing

(* Slip: a leader does not step down. *)
handleHeartbeatLeading(n, l) ==
  /\ beats[l][n] # 0
  /\ beats' = [beats EXCEPT ![l][n] = 0]
  /\ \/ /\ beats[l][n] >= followedBallot[n]
        /\ currentLeader' = [currentLeader EXCEPT ![n] = l]
        /\ followedBallot' = [followedBallot EXCEPT ![n] = beats[l][n]]
        /\ expired' = [expired EXCEPT ![n] = FALSE]
     \/ /\ beats[l][n] < followedBallot[n]
        /\ UNCHANGED <<currentLeader, followedBallot, expired>>
  /\ UNCHANGED <<vars, electing>>

(* Node n takes the heartbeat of node l. *)
handleHeartbeat(n, l) ==
  /\ beats[l][n] # 0
  /\ beats' = [beats EXCEPT ![l][n] = 0]
  /\ \/ /\ beats[l][n] >= followedBallot[n]
        /\ currentLeader' = [currentLeader EXCEPT ![n] = l]
        /\ followedBallot' = [followedBallot EXCEPT ![n] = beats[l][n]]
        /\ expired' = [expired EXCEPT ![n] = FALSE]
        /\ IF isLeader[n] THEN StepDown(n) ELSE UNCHANGED vars
     \/ /\ beats[l][n] < followedBallot[n]
        /\ UNCHANGED <<vars, currentLeader, followedBallot, expired>>
  /\ UNCHANGED electing

LoseHeartbeat(n, l) ==
  /\ beats[l][n] # 0
  /\ beats' = [beats EXCEPT ![l][n] = 0]
  /\ UNCHANGED <<vars, currentLeader, followedBallot, electing, expired>>

(* The proposals of clients, the acceptors and the learners go on meanwhile. *)
ServeAll(n) ==
  /\ Serve(n)
  /\ UNCHANGED nodeVars

(* The part of it that an election waits for. *)
AnswerPrepare(n) ==
  /\ \E m \in msgs, saved \in SaveOutcomes : ReceivePrepare(n, m, saved)
  /\ UNCHANGED nodeVars

RestartNode(n) ==
  /\ n \in MayRestart
  /\ Restart(n)
  /\ currentLeader' = [currentLeader EXCEPT ![n] = 0]
  /\ followedBallot' = [followedBallot EXCEPT ![n] = 0]
  /\ electing' = [electing EXCEPT ![n] = "no"]
  /\ expired' = [expired EXCEPT ![n] = FALSE]
  /\ beats' = [l \in Node |-> [beats[l] EXCEPT ![n] = 0]]

ElectionNext ==
  \E n \in Node :
    \/ DeadlinePasses(n)
    \/ Heartbeat(n)
    \/ startElection(n)
    \/ Campaign(n)
    \/ AssertLeadership(n)
    \/ ServeAll(n)
    \/ RestartNode(n)
    \/ \E l \in Node : handleHeartbeat(n, l) \/ LoseHeartbeat(n, l)

ElectionSpec == ElectionInit /\ [][ElectionNext]_electionVars

(* The loops of a node keep running and time passes; acceptors answer; a     *)
(* heartbeat that is repeated for ever gets through now and then.            *)
Fairness ==
  \A n \in Node :
    /\ WF_electionVars(DeadlinePasses(n))
    /\ WF_electionVars(Heartbeat(n))
    /\ WF_electionVars(startElection(n))
    /\ WF_electionVars(Campaign(n))
    /\ WF_electionVars(AssertLeadership(n))
    /\ WF_electionVars(AnswerPrepare(n))
    /\ \A l \in MayElect : SF_electionVars(handleHeartbeat(n, l))

FairElectionSpec == ElectionSpec /\ Fairness
-----------------------------------------------------------------------------
(* Whoever a node follows did win the ballot it is followed for: a majority  *)
(* of disks promised it, through crashes, late heartbeats and the step in    *)
(* which a deposed winner still announces itself (node.go:327-343, 428-437). *)
FollowedWasElected ==
  \A n \in Node : followedBallot[n] # 0 =>
    /\ currentLeader[n] = NodeID(followedBallot[n])
    /\ CountsNodes(followedBallot[n]) => Backed(followedBallot[n])

(* A leader that has announced itself is deposed by nobody it outranks: when *)
(* it steps down, and does not crash, it follows another node in a ballot    *)
(* above its own (node.go:332-340).  A late heartbeat of a deposed leader,   *)
(* or one sent before the election it lost, brings nobody down.              *)
DeposedByHigher ==
  [][\A n \in Node :
       (/\ isLeader[n] /\ ~isLeader'[n]
        /\ electing[n] # "won"
        /\ incarnation'[n] = incarnation[n]) =>
          followedBallot'[n] > leaderBallot[n]]_electionVars

(* Elections change the proposers and acceptors only as MultiPaxos allows:   *)
(* what is proved of it holds with elections running.                        *)
ImplementsMultiPaxos == Spec

(* One node leads and everybody follows it in the ballot it leads in. *)
Settled ==
  \E l \in Node :
    /\ isLeader[l]
    /\ \A n \in Node : /\ currentLeader[n] = l
                       /\ followedBallot[n] = leaderBallot[l]
                       /\ isLeader[n] => n = l

(* The cluster settles on a leader unless elections go on for ever: duelling *)
(* candidates, a restarted candidate whose rounds start from zero, two       *)
(* leaders at a time, and a winner that overwrites the ballot of a newer     *)
(* leader it already followed (node.go:428-433) are all resolved by the      *)
(* heartbeats that follow.  That elections end is left to their random       *)
(* timing (node.go:448-451).                                                 *)
LeaderSettles ==
  <>[]Settled \/ []<><<\E n \in Node : startElection(n)>>_electionVars
=============================================================================
