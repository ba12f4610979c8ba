--------------------------- MODULE AcceptorProofs ---------------------------
(***************************************************************************)
(* Proofs about one acceptor over its storage, for every set of instances, *)
(* ballots and values: the properties of AcceptorNode and that it          *)
(* implements Voter.                                                       *)
(***************************************************************************)
EXTENDS AcceptorNode, TLAPS

(* Memory's entry of a kept instance carries every answer given about it.    *)
Carries(i) ==
  /\ mem[i].promised >= owed[i]
  /\ mem[i].acceptedBallot = voted[i]
  /\ mem[i].acceptedBallot <= mem[i].promised

(* The inductive invariant: the run's invariants, and what memory carries.   *)
IInv ==
  /\ TypeOK
  /\ Lockstep
  /\ \A i \in Instance \ released : Carries(i)
-----------------------------------------------------------------------------
(* Saving (storage.go:32-59) and loading (62-95) keep the ballots inside     *)
(* Ballot and give back the same entries.                                    *)
LEMMA CopiedOK ==
  ASSUME NEW state \in [Instance -> EntryOK]
  PROVE  /\ Copied(state) \in [Instance -> EntryOK]
         /\ \A i \in Instance : SameEntry(state[i], Copied(state)[i])
  <1> DEFINE e(i) == [promised |-> state[i].promised, acceptedBallot |-> state[i].acceptedBallot,
                      acceptedValue |-> Stored(state[i].acceptedValue)]
  <1>1. ASSUME NEW i \in Instance
        PROVE  /\ [state[i] EXCEPT !.acceptedValue = Stored(@)] = e(i)
               /\ e(i) \in EntryOK
               /\ SameEntry(state[i], e(i))
    BY ValueAssumption DEF EntryOK, SameEntry, Stored, Bytes, Wire
  <1>2. \A i \in Instance : Copied(state)[i] = IF state[i].acceptedBallot = 0 THEN state[i] ELSE e(i)
    BY <1>1 DEF Copied
  <1>3. Copied(state) \in [Instance -> EntryOK]
    BY Zenon, <1>1 DEF Copied
  <1> QED
    BY <1>1, <1>2, <1>3 DEF SameEntry

(* What a handler's answer does: it refuses and changes nothing, it promises, *)
(* or it votes; the last two are saved (acceptor.go:79-139, 150-222).         *)
Refused ==
  /\ UNCHANGED <<mem, disk, owed, voted, released>>
  /\ reply' \in Reply
  /\ reply'.type \in {"Reject", "Nack"}

Promised(i, b) ==
  /\ b >= mem[i].promised
  /\ mem' = [mem EXCEPT ![i].promised = b]
  /\ disk' = Copied(mem')
  /\ reply' = Promise(Self, i, b, mem[i].acceptedBallot, mem[i].acceptedValue)
  /\ owed' = [owed EXCEPT ![i] = Higher(@, b)]
  /\ UNCHANGED <<voted, released>>

Voted(i, b, v) ==
  /\ b >= mem[i].promised
  /\ mem' = [mem EXCEPT ![i] = [promised |-> b, acceptedBallot |-> b, acceptedValue |-> v]]
  /\ disk' = Copied(mem')
  /\ reply' = Accepted(Self, i, b)
  /\ owed' = [owed EXCEPT ![i] = Higher(@, b)]
  /\ voted' = [voted EXCEPT ![i] = Higher(@, b)]
  /\ UNCHANGED released

(* Every step of the acceptor is one of five effects. *)
LEMMA Effects ==
  ASSUME TypeOK, Next
  PROVE  \/ \E i \in Instance, b \in Ballot : Refused \/ Promised(i, b)
         \/ \E i \in Instance, b \in Ballot, v \in Bytes : Voted(i, b, v)
         \/ \E i \in Instance : OnCommit(i)
         \/ Restart
  <1>1. mem \in [Instance -> EntryOK] /\ Ballot \subseteq Nat \ {0} /\ Ballot \cup {0} \subseteq Nat
    BY BallotAssumption DEF TypeOK
  <1>2. ASSUME NEW i \in Instance, NEW b \in Ballot, NEW saved \in BOOLEAN,
               OnPrepare(i, b, saved)
        PROVE  Refused \/ Promised(i, b)
    <2>1. mem[i].promised \in Ballot \cup {0} /\ mem[i].promised \in Nat /\ b \in Nat \ {0}
      BY Zenon, <1>1 DEF EntryOK
    <2>2. CASE b < mem[i].promised
      <3>1. mem[i].promised \in Ballot
        BY <2>1, <2>2
      <3>2. HandlePrepare(Self, mem, disk, i, b, saved) =
              [mem |-> mem, disk |-> disk, reply |-> Reject(Self, i, b, mem[i].promised)]
        BY <2>2 DEF HandlePrepare
      <3>3. Reject(Self, i, b, mem[i].promised) \in Reply
        BY <3>1 DEF Reject, Reply
      <3> QED
        BY <1>2, <3>2, <3>3 DEF OnPrepare, Answer, Refused, Reject
    <2>3. CASE ~(b < mem[i].promised) /\ ~saved
      <3>2. HandlePrepare(Self, mem, disk, i, b, saved) =
              [mem |-> mem, disk |-> disk, reply |-> Reject(Self, i, b, b)]
        BY <2>3 DEF HandlePrepare
      <3>3. Reject(Self, i, b, b) \in Reply
        BY DEF Reject, Reply
      <3> QED
        BY <1>2, <3>2, <3>3 DEF OnPrepare, Answer, Refused, Reject
    <2>4. CASE ~(b < mem[i].promised) /\ saved
      <3> DEFINE next == [mem EXCEPT ![i].promised = b]
      <3>1. b >= mem[i].promised
        BY <2>1, <2>4
      <3>2. HandlePrepare(Self, mem, disk, i, b, saved) =
              [mem |-> next, disk |-> Copied(next),
               reply |-> Promise(Self, i, b, mem[i].acceptedBallot, mem[i].acceptedValue)]
        BY <2>4 DEF HandlePrepare, SaveAcceptorState
      <3> QED
        BY <1>2, <3>1, <3>2 DEF OnPrepare, Answer, Promised, Promise
    <2> QED
      BY <2>2, <2>3, <2>4
  <1>3. ASSUME NEW i \in Instance, NEW b \in Ballot, NEW v \in Bytes, NEW saved \in BOOLEAN,
               OnAccept(i, b, v, saved)
        PROVE  Refused \/ Voted(i, b, v)
    <2>1. mem[i].promised \in Ballot \cup {0} /\ mem[i].promised \in Nat /\ b \in Nat \ {0}
      BY Zenon, <1>1 DEF EntryOK
    <2>2. CASE b < mem[i].promised
      <3>1. mem[i].promised \in Ballot
        BY <2>1, <2>2
      <3>2. HandleAccept(Self, mem, disk, i, b, v, saved) =
              [mem |-> mem, disk |-> disk, reply |-> Nack(Self, i, b, mem[i].promised)]
        BY <2>2 DEF HandleAccept
      <3>3. Nack(Self, i, b, mem[i].promised) \in Reply
        BY <3>1 DEF Nack, Reply
      <3> QED
        BY <1>3, <3>2, <3>3 DEF OnAccept, Answer, Refused, Nack
    <2>3. CASE ~(b < mem[i].promised) /\ ~saved
      <3>2. HandleAccept(Self, mem, disk, i, b, v, saved) =
              [mem |-> mem, disk |-> disk, reply |-> Nack(Self, i, b, b)]
        BY <2>3 DEF HandleAccept
      <3>3. Nack(Self, i, b, b) \in Reply
        BY DEF Nack, Reply
      <3> QED
        BY <1>3, <3>2, <3>3 DEF OnAccept, Answer, Refused, Nack
    <2>4. CASE ~(b < mem[i].promised) /\ saved
      <3> DEFINE next == [mem EXCEPT ![i] = [promised |-> b, acceptedBallot |-> b,
                                             acceptedValue |-> v]]
      <3>1. b >= mem[i].promised
        BY <2>1, <2>4
      <3>2. HandleAccept(Self, mem, disk, i, b, v, saved) =
              [mem |-> next, disk |-> Copied(next), reply |-> Accepted(Self, i, b)]
        BY <2>4 DEF HandleAccept, SaveAcceptorState
      <3> QED
        BY <1>3, <3>1, <3>2 DEF OnAccept, Answer, Voted, Accepted
    <2> QED
      BY <2>2, <2>3, <2>4
  <1> QED
    BY <1>2, <1>3 DEF Next

(* The initial state: empty maps and no answers (acceptor.go:36-68). *)
LEMMA InitIInv == Init => IInv
  <1> SUFFICES ASSUME Init PROVE IInv
    OBVIOUS
  <1>1. Unset \in EntryOK /\ SameEntry(Unset, Unset)
    BY DEF Unset, EntryOK, Bytes, SameEntry
  <1>2. TypeOK
    BY <1>1 DEF Init, TypeOK, Reply
  <1>3. Lockstep
    BY <1>1 DEF Init, Lockstep
  <1>4. \A i \in Instance \ released : Carries(i)
    BY DEF Init, Carries, Unset
  <1> QED
    BY <1>2, <1>3, <1>4 DEF IInv

(* Every step keeps the invariant: a refusal and a failed save change nothing, *)
(* a promise or a vote is written to memory and disk together, a commit only   *)
(* touches an instance it releases, and a restart reads back the disk.         *)
LEMMA StepIInv == IInv /\ [Next]_vars => IInv'
  <1> SUFFICES ASSUME IInv, [Next]_vars PROVE IInv'
    OBVIOUS
  <1>T. /\ TypeOK /\ Lockstep /\ \A i \in Instance \ released : Carries(i)
        /\ mem \in [Instance -> EntryOK] /\ disk \in [Instance -> EntryOK]
        /\ owed \in [Instance -> Ballot \cup {0}] /\ voted \in [Instance -> Ballot \cup {0}]
        /\ released \subseteq Instance
        /\ Ballot \cup {0} \subseteq Nat
    BY BallotAssumption DEF IInv, TypeOK
  <1>1. CASE UNCHANGED vars
    BY <1>1, <1>T DEF vars, IInv, TypeOK, Lockstep, Carries
  <1>2. CASE Refused
    BY <1>2, <1>T DEF Refused, IInv, TypeOK, Lockstep, Carries
  <1>3. ASSUME NEW i \in Instance, NEW b \in Ballot, Promised(i, b)
        PROVE  IInv'
    <2>1. /\ mem' \in [Instance -> EntryOK]
          /\ mem'[i].promised = b
          /\ mem'[i].acceptedBallot = mem[i].acceptedBallot
          /\ \A j \in Instance \ {i} : mem'[j] = mem[j]
      BY <1>3, <1>T DEF Promised, EntryOK
    <2>2. disk' \in [Instance -> EntryOK] /\ Lockstep'
      BY Zenon, <1>3, <2>1, CopiedOK DEF Promised, Lockstep
    <2>3. /\ owed' \in [Instance -> Ballot \cup {0}]
          /\ \A j \in Instance \ {i} : owed'[j] = owed[j]
          /\ owed'[i] = Higher(owed[i], b)
      BY <1>3, <1>T DEF Promised, Higher
    <2>4. reply' \in Reply
      BY <1>3, <1>T DEF Promised, Promise, Reply, EntryOK
    <2>5. ASSUME NEW j \in Instance \ released' PROVE Carries(j)'
      <3>1. /\ j \in Instance \ released /\ voted' = voted
            /\ b \in Nat /\ mem[j].promised \in Nat /\ mem[j].acceptedBallot \in Nat
            /\ owed[j] \in Nat
            /\ b >= mem[i].promised
        BY <1>3, <1>T, <2>5 DEF Promised, EntryOK
      <3> QED
        BY <3>1, <1>T, <2>1, <2>3 DEF Carries, Higher
    <2> QED
      BY Zenon, <1>3, <1>T, <2>1, <2>2, <2>3, <2>4, <2>5 DEF IInv, TypeOK, Promised
  <1>4. ASSUME NEW i \in Instance, NEW b \in Ballot, NEW v \in Bytes, Voted(i, b, v)
        PROVE  IInv'
    <2>1. /\ mem' \in [Instance -> EntryOK]
          /\ mem'[i].promised = b
          /\ mem'[i].acceptedBallot = b
          /\ \A j \in Instance \ {i} : mem'[j] = mem[j]
      BY <1>4, <1>T DEF Voted, EntryOK
    <2>2. disk' \in [Instance -> EntryOK] /\ Lockstep'
      BY Zenon, <1>4, <2>1, CopiedOK DEF Voted, Lockstep
    <2>3. /\ owed' \in [Instance -> Ballot \cup {0}] /\ voted' \in [Instance -> Ballot \cup {0}]
          /\ \A j \in Instance \ {i} : owed'[j] = owed[j] /\ voted'[j] = voted[j]
          /\ owed'[i] = Higher(owed[i], b) /\ voted'[i] = Higher(voted[i], b)
      BY <1>4, <1>T DEF Voted, Higher
    <2>4. reply' \in Reply
      BY <1>4, <1>T DEF Voted, Accepted, Reply
    <2>5. ASSUME NEW j \in Instance \ released' PROVE Carries(j)'
      <3>1. /\ j \in Instance \ released
            /\ b \in Nat /\ mem[j].promised \in Nat /\ mem[j].acceptedBallot \in Nat
            /\ owed[j] \in Nat /\ voted[j] \in Nat
            /\ b >= mem[i].promised
        BY <1>4, <1>T, <2>5 DEF Voted, EntryOK
      <3> QED
        BY <3>1, <1>T, <2>1, <2>3 DEF Carries, Higher
    <2> QED
      BY Zenon, <1>4, <1>T, <2>1, <2>2, <2>3, <2>4, <2>5 DEF IInv, TypeOK, Voted
  <1>5. ASSUME NEW i \in Instance, OnCommit(i)
        PROVE  IInv'
    <2>1. /\ mem' \in [Instance -> EntryOK]
          /\ \A j \in Instance \ {i} : mem'[j] = mem[j]
      BY <1>5, <1>T DEF OnCommit, ForgetInstance, Unset, EntryOK, Bytes
    <2> QED
      BY <1>5, <1>T, <2>1 DEF OnCommit, IInv, TypeOK, Lockstep, Carries
  <1>6. CASE Restart
    <2>1. /\ mem' \in [Instance -> EntryOK]
          /\ \A j \in Instance : SameEntry(disk[j], mem'[j])
      BY <1>6, <1>T, CopiedOK DEF Restart, LoadAcceptorState
    <2> QED
      BY <1>6, <1>T, <2>1 DEF Restart, IInv, TypeOK, Lockstep, Carries, SameEntry
  <1> QED
    BY <1>T, <1>1, <1>2, <1>3, <1>4, <1>5, <1>6, Effects

(* The invariant holds in every reachable state. *)
THEOREM Invariance == Spec => []IInv
  BY InitIInv, StepIInv, PTL DEF Spec

(* The maps, the disk and the replies are well formed: a refusal names a real *)
(* ballot (acceptor.go:84-91, 155-162).                                       *)
THEOREM TypeCorrect == Spec => []TypeOK
  <1>1. IInv => TypeOK
    BY DEF IInv
  <1> QED
    BY <1>1, Invariance, PTL

(* Memory and disk stay in lockstep (acceptor.go:110-111) through failed      *)
(* saves and restarts.                                                        *)
THEOREM LockstepHolds == Spec => []Lockstep
  <1>1. IInv => Lockstep
    BY DEF IInv
  <1> QED
    BY <1>1, Invariance, PTL

(* No crash takes an answer back: the disk holds every promise and vote the   *)
(* acceptor has replied with (acceptor.go:118-126, 195-208).                  *)
THEOREM AnswersAreDurable == Spec => []AnswersDurable
  <1>1. ASSUME IInv, NEW i \in Instance \ released
        PROVE  disk[i].promised >= owed[i] /\ disk[i].acceptedBallot >= voted[i]
    <2>1. Ballot \cup {0} \subseteq Nat
      BY BallotAssumption
    <2>2. voted[i] \in Nat
      BY <1>1, <2>1 DEF IInv, TypeOK
    <2> QED
      BY <1>1, <2>2 DEF IInv, Lockstep, Carries, SameEntry
  <1>2. IInv => AnswersDurable
    BY <1>1 DEF AnswersDurable
  <1> QED
    BY <1>2, Invariance, PTL

(* A vote never falls below an answer already given, and a promise reports    *)
(* the last vote (acceptor.go:131-138, 167), in every execution.              *)
THEOREM AnswersAreConsistent == Spec => AnswersConsistent
  <1> DEFINE Answers(i) ==
        (reply' # reply /\ reply'.type # "None" /\ reply'.instance = i) =>
          /\ reply'.type \in {"Promise", "Accepted"} => reply'.ballot >= owed[i]
          /\ reply'.type = "Promise" => reply'.acceptedBallot = voted[i]
  <1>1. ASSUME IInv, Next, NEW i \in Instance \ released
        PROVE  Answers(i)
    <2>1. /\ Carries(i) /\ TypeOK
          /\ mem[i].promised \in Nat /\ owed[i] \in Nat /\ Ballot \subseteq Nat
      <3>1. Ballot \cup {0} \subseteq Nat
        BY BallotAssumption
      <3> QED
        BY <1>1, <3>1 DEF IInv, TypeOK, EntryOK
    <2>2. CASE Refused
      BY <2>2 DEF Refused
    <2>3. ASSUME NEW j \in Instance, NEW b \in Ballot, Promised(j, b)
          PROVE  Answers(i)
      BY <2>1, <2>3 DEF Promised, Promise, Carries
    <2>4. ASSUME NEW j \in Instance, NEW b \in Ballot, NEW v \in Bytes, Voted(j, b, v)
          PROVE  Answers(i)
      BY <2>1, <2>4 DEF Voted, Accepted, Carries
    <2>5. ASSUME NEW j \in Instance, OnCommit(j)
          PROVE  Answers(i)
      BY <2>5 DEF OnCommit
    <2>6. CASE Restart
      BY <2>6 DEF Restart
    <2> QED
      BY <1>1, <2>1, <2>2, <2>3, <2>4, <2>5, <2>6, Effects
  <1>2. IInv /\ [Next]_vars => [\A i \in Instance \ released : Answers(i)]_vars
    BY <1>1
  <1> QED
    BY <1>2, Invariance, PTL DEF Spec, AnswersConsistent

(* What the abstract voter sees of an entry of memory. *)
AbsPromised == [i \in Instance |-> IF i \in released THEN 0 ELSE mem[i].promised]

AbsVote == [i \in Instance |->
              IF i \in released THEN [ballot |-> 0, value |-> Nil]
              ELSE [ballot |-> mem[i].acceptedBallot, value |-> Wire(mem[i].acceptedValue)]]

(* The acceptor over its storage implements the crash-free voter: failed      *)
(* saves, refusals and restarts are stutters, promises, votes and commits are *)
(* the voter's own steps (acceptor.go:36-68, 79-222, 260-267).                *)
THEOREM Refinement == Spec => ImplementsVoter
  <1>1. Init => V!Init
    BY DEF Init, V!Init, V!NoVote, Unset, Wire
  <1>2. ASSUME IInv, [Next]_vars
        PROVE  [V!Next]_V!vars
    <2>T. TypeOK /\ mem \in [Instance -> EntryOK] /\ released \subseteq Instance
      BY <1>2 DEF IInv, TypeOK
    <2>1. CASE /\ released' = released
               /\ \A j \in Instance \ released : SameEntry(mem[j], mem'[j])
      <3>1. AbsPromised' = AbsPromised /\ AbsVote' = AbsVote
        BY <2>1 DEF SameEntry, AbsPromised, AbsVote
      <3> QED
        BY <2>1, <3>1 DEF V!vars, AbsPromised, AbsVote
    <2>2. CASE UNCHANGED vars \/ Refused
      BY <2>1, <2>2 DEF vars, Refused, SameEntry
    <2>3. CASE Restart
      <3>1. \A j \in Instance : SameEntry(disk[j], mem'[j])
        BY <1>2, <2>3, CopiedOK DEF Restart, LoadAcceptorState, IInv, TypeOK
      <3>2. \A j \in Instance \ released : SameEntry(mem[j], mem'[j])
        BY <1>2, <3>1 DEF IInv, Lockstep, SameEntry
      <3> QED
        BY <2>1, <2>3, <3>2 DEF Restart
    <2>4. ASSUME NEW i \in Instance, NEW b \in Ballot, Promised(i, b)
          PROVE  [V!Next]_V!vars
      <3>1. /\ released' = released
            /\ mem'[i].promised = b
            /\ mem'[i].acceptedBallot = mem[i].acceptedBallot
            /\ mem'[i].acceptedValue = mem[i].acceptedValue
            /\ \A j \in Instance \ {i} : mem'[j] = mem[j]
        BY <2>4, <2>T DEF Promised, EntryOK
      <3>2. CASE i \in released
        BY <2>1, <3>1, <3>2 DEF SameEntry
      <3>3. CASE i \notin released
        <4>1. AbsPromised' = [AbsPromised EXCEPT ![i] = b] /\ AbsVote' = AbsVote
          BY Zenon, <3>1, <3>3 DEF AbsPromised, AbsVote
        <4>2. b >= AbsPromised[i]
          BY <2>4, <3>3 DEF Promised, AbsPromised
        <4>3. V!Promise(i, b)
          BY <3>1, <3>3, <4>1, <4>2 DEF V!Promise, AbsPromised, AbsVote
        <4> QED
          BY <4>3 DEF V!Next
      <3> QED
        BY <3>2, <3>3
    <2>5. ASSUME NEW i \in Instance, NEW b \in Ballot, NEW v \in Bytes, Voted(i, b, v)
          PROVE  [V!Next]_V!vars
      <3>1. /\ released' = released
            /\ mem'[i] = [promised |-> b, acceptedBallot |-> b, acceptedValue |-> v]
            /\ \A j \in Instance \ {i} : mem'[j] = mem[j]
        BY <2>5, <2>T DEF Voted
      <3>2. CASE i \in released
        BY <2>1, <3>1, <3>2 DEF SameEntry
      <3>3. CASE i \notin released
        <4>0. /\ mem'[i].promised = b
              /\ mem'[i].acceptedBallot = b
              /\ mem'[i].acceptedValue = v
          BY <3>1
        <4>1. /\ AbsPromised' = [AbsPromised EXCEPT ![i] = b]
              /\ AbsVote' = [AbsVote EXCEPT ![i] = [ballot |-> b, value |-> Wire(v)]]
          <5>1. AbsPromised' = [AbsPromised EXCEPT ![i] = b]
            BY Zenon, <4>0, <3>1, <3>3 DEF AbsPromised
          <5>2. AbsVote' = [AbsVote EXCEPT ![i] = [ballot |-> b, value |-> Wire(v)]]
            BY Zenon, <4>0, <3>1, <3>3 DEF AbsVote
          <5> QED
            BY <5>1, <5>2
        <4>2. b >= AbsPromised[i]
          BY <2>5, <3>3 DEF Voted, AbsPromised
        <4>3. V!Vote(i, b, Wire(v))
          BY <3>1, <3>3, <4>1, <4>2 DEF V!Vote, AbsPromised, AbsVote
        <4>4. Wire(v) \in Value \cup {Nil}
          BY DEF Wire, Bytes
        <4> QED
          BY <4>3, <4>4 DEF V!Next
      <3> QED
        BY <3>2, <3>3
    <2>6. ASSUME NEW i \in Instance, OnCommit(i)
          PROVE  [V!Next]_V!vars
      <3>1. /\ released' = released \cup {i}
            /\ \A j \in Instance \ {i} : mem'[j] = mem[j]
        BY <2>6, <2>T DEF OnCommit, ForgetInstance
      <3>2. /\ AbsPromised' = [AbsPromised EXCEPT ![i] = 0]
            /\ AbsVote' = [AbsVote EXCEPT ![i] = [ballot |-> 0, value |-> Nil]]
        BY Zenon, <3>1 DEF AbsPromised, AbsVote
      <3>3. V!Release(i)
        BY <3>1, <3>2 DEF V!Release, V!NoVote, AbsPromised, AbsVote
      <3> QED
        BY <3>3 DEF V!Next
    <2> QED
      BY <1>2, <2>T, <2>2, <2>3, <2>4, <2>5, <2>6, Effects
  <1>3. IInv /\ [Next]_vars => [V!Next]_V!vars
    BY <1>2
  <1> QED
    BY <1>1, <1>3, Invariance, PTL DEF Spec, ImplementsVoter, V!Spec
=============================================================================
