---------------------------- MODULE AcceptorNode ----------------------------
(***************************************************************************)
(* One acceptor over its storage, asked anything in any order: Prepare and *)
(* Accept messages of every ballot, saves that fail, commits that make the *)
(* node forget an instance, and crashes followed by NewAcceptor on the     *)
(* same storage.  Acceptor.mu makes each handler one step.                 *)
(***************************************************************************)
EXTENDS Acceptor

CONSTANTS
  Self,       \* the node ID
  Instance,   \* the consensus instances
  Ballot      \* the ballots of the messages it receives

ASSUME BallotAssumption == Ballot \subseteq Nat \ {0}

VARIABLES
  mem,        \* the maps of the Acceptor struct
  disk,       \* the acceptorState of the storage
  reply,      \* the last reply sent, NoReply at the start
  owed,       \* history: instance -> the highest ballot promised or accepted in a reply
  voted,      \* history: instance -> the highest ballot accepted in a reply
  released    \* history: the instances ForgetInstance was called for

vars == <<mem, disk, reply, owed, voted, released>>

NoReply == [type |-> "None"]

Init ==
  /\ mem = [i \in Instance |-> Unset]
  /\ disk = [i \in Instance |-> Unset]
  /\ reply = NoReply
  /\ owed = [i \in Instance |-> 0]
  /\ voted = [i \in Instance |-> 0]
  /\ released = {}

Higher(m, n) == IF m > n THEN m ELSE n

(* The handler's result r is stored and its reply sent. *)
Answer(i, b, r) ==
  /\ mem' = r.mem
  /\ disk' = r.disk
  /\ reply' = r.reply
  /\ owed' = IF r.reply.type \in {"Promise", "Accepted"}
             THEN [owed EXCEPT ![i] = Higher(@, b)] ELSE owed
  /\ voted' = IF r.reply.type = "Accepted"
              THEN [voted EXCEPT ![i] = Higher(@, b)] ELSE voted
  /\ UNCHANGED released

OnPrepare(i, b, saved) == Answer(i, b, HandlePrepare(Self, mem, disk, i, b, saved))

OnAccept(i, b, v, saved) == Answer(i, b, HandleAccept(Self, mem, disk, i, b, v, saved))

(* handleCommit's call of ForgetInstance. *)
OnCommit(i) ==
  /\ mem' = ForgetInstance(mem, i)
  /\ released' = released \cup {i}
  /\ UNCHANGED <<disk, reply, owed, voted>>

(* A crash, then NewAcceptor on the same storage. *)
Restart ==
  /\ mem' = LoadAcceptorState(disk)
  /\ UNCHANGED <<disk, reply, owed, voted, released>>

Next ==
  \/ \E i \in Instance, b \in Ballot, saved \in BOOLEAN : OnPrepare(i, b, saved)
  \/ \E i \in Instance, b \in Ballot, v \in Bytes, saved \in BOOLEAN :
       OnAccept(i, b, v, saved)
  \/ \E i \in Instance : OnCommit(i)
  \/ Restart

Spec == Init /\ [][Next]_vars
-----------------------------------------------------------------------------
Reply ==
  [type : {"Promise"}, from : {Self}, instance : Instance, ballot : Ballot,
   acceptedBallot : Ballot \cup {0}, acceptedValue : Bytes]
  \cup [type : {"Accepted"}, from : {Self}, instance : Instance, ballot : Ballot]
  \cup [type : {"Reject", "Nack"}, from : {Self}, instance : Instance, ballot : Ballot,
        higherBallot : Ballot]
  \cup {NoReply}

EntryOK == [promised : Ballot \cup {0}, acceptedBallot : Ballot \cup {0},
            acceptedValue : Bytes]

(* The maps hold ballots and values; a reply names the ballot asked about and, *)
(* when it refuses, a ballot it refuses for.                                  *)
TypeOK ==
  /\ mem \in [Instance -> EntryOK]
  /\ disk \in [Instance -> EntryOK]
  /\ reply \in Reply
  /\ owed \in [Instance -> Ballot \cup {0}]
  /\ voted \in [Instance -> Ballot \cup {0}]
  /\ released \subseteq Instance

(* Two entries that a restart cannot tell apart: nil and empty have the same *)
(* bytes.                                                                    *)
SameEntry(e, f) ==
  /\ e.promised = f.promised
  /\ e.acceptedBallot = f.acceptedBallot
  /\ Wire(e.acceptedValue) = Wire(f.acceptedValue)

(* Memory stays "in lockstep with disk" (acceptor.go:110-111): after every    *)
(* handler, a failed save included, the two hold the same promise and vote,   *)
(* except for instances a commit cleared from memory.                         *)
Lockstep == \A i \in Instance \ released : SameEntry(mem[i], disk[i])

(* A positive answer is a durable obligation: the disk still holds a promise  *)
(* at or above every ballot promised or accepted, and a vote at or above      *)
(* every ballot accepted, so a crash cannot take the answer back.             *)
AnswersDurable ==
  \A i \in Instance \ released :
    /\ disk[i].promised >= owed[i]
    /\ disk[i].acceptedBallot >= voted[i]

(* A vote never falls below an answer already given, and a promise reports    *)
(* the last vote, whatever crashes and failed saves came between the two      *)
(* (acceptor.go:131-138, 167).                                                *)
AnswersConsistent ==
  [][\A i \in Instance \ released :
       (reply' # reply /\ reply'.type # "None" /\ reply'.instance = i) =>
         /\ reply'.type \in {"Promise", "Accepted"} => reply'.ballot >= owed[i]
         /\ reply'.type = "Promise" => reply'.acceptedBallot = voted[i]]_vars

(* The acceptor over its storage implements the crash-free voter: a failed    *)
(* save, a refusal and a restart are all invisible until the instance is      *)
(* released.                                                                  *)
V == INSTANCE Voter WITH
       Instance <- Instance,
       Ballot <- Ballot,
       VoteValue <- Value \cup {Nil},
       NoValue <- Nil,
       promised <- [i \in Instance |-> IF i \in released THEN 0 ELSE mem[i].promised],
       vote <- [i \in Instance |->
                  IF i \in released THEN [ballot |-> 0, value |-> Nil]
                  ELSE [ballot |-> mem[i].acceptedBallot,
                        value |-> Wire(mem[i].acceptedValue)]],
       released <- released

ImplementsVoter == V!Spec
=============================================================================
