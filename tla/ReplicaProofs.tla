---------------------------- MODULE ReplicaProofs ----------------------------
(***************************************************************************)
(* Proofs about the life of a node and the two applications, for any       *)
(* number of processes, commands and instances, any capacity of commitCh   *)
(* and any width of the counter.                                           *)
(*                                                                         *)
(* That replicas agree on the total needs what a sum over a set of         *)
(* instances is.  Here it is a difference of two cardinalities: one unit   *)
(* for each one that is added, and one for each that is taken away.        *)
(***************************************************************************)
EXTENDS Replica, FiniteSetTheorems, TLAPS

Units(a, S) == UNION {{i} \X (1 .. a[i]) : i \in S}
Negated(a) == [i \in DOMAIN a |-> -a[i]]
Sum(a, S) == Cardinality(Units(a, S)) - Cardinality(Units(Negated(a), S))

(* The amounts of the instances with the values v, and what a replica that    *)
(* has applied "done" of them shows: the total, and for every key the value   *)
(* of some instance that writes it.                                           *)
Amounts(v) == [i \in Instance |-> IF v[i] # Absent /\ v[i].type = "ADD" THEN v[i].amount ELSE 0]
WritersOf(v, k, done) == {i \in done : v[i].type # "ADD" /\ v[i].key = k}
Shown(v, total, data, done) ==
  /\ total = Wrap(Sum(Amounts(v), done))
  /\ \A k \in Key :
       \/ WritersOf(v, k, done) = {} /\ data[k] = Absent
       \/ \E i \in WritersOf(v, k, done) : data[k] = Written(v[i])

Told(n) == applied[n] \o commitCh[n]

(* Whoever can still call handleCommit belongs to a node that is not closed. *)
LifeInv(n) ==
  /\ life[n] \in {"storage closed", "closed", "exited"} => ~messageLoop[n]
  /\ life[n] # "started" => call[n] = NoCall
  /\ ~panicked[n]

(* A call is for an instance and has a value to commit. *)
CallInv(n) ==
  call[n].pc # "none" => call[n].instance \in Instance /\ call[n].value \in Encoded

(* Every committed instance is told once or was dropped. *)
ToldInv(n) ==
  /\ Committed(n) = Range(Told(n)) \cup dropped[n]
  /\ Range(Told(n)) \cap dropped[n] = {}
  /\ IsInjective(Told(n))

IInv ==
  /\ TypeOK
  /\ \A n \in Node : /\ LifeInv(n) /\ CallInv(n) /\ ToldInv(n)
                     /\ Shown(committed[n], counter[n], store[n], Range(applied[n]))
-----------------------------------------------------------------------------
(* Quotient and remainder are unique. *)
LEMMA Remainder ==
  ASSUME NEW s \in Nat, s > 0, NEW q \in Int, NEW r \in 0 .. s - 1
  PROVE  (s * q + r) % s = r
  OBVIOUS

(* A remainder can be taken before an addition. *)
LEMMA RemainderFirst ==
  ASSUME NEW s \in Nat, s > 0, NEW x \in Int, NEW y \in Int
  PROVE  ((x % s) + y) % s = (x + y) % s
  <1>1. PICK q \in Int, r \in 0 .. s - 1 : x = s * q + r /\ x % s = r
    <2> WITNESS x \div s \in Int, x % s \in 0 .. s - 1
    <2> QED OBVIOUS
  <1>2. PICK p \in Int, t \in 0 .. s - 1 : r + y = s * p + t /\ (r + y) % s = t
    <2> WITNESS (r + y) \div s \in Int, (r + y) % s \in 0 .. s - 1
    <2> QED OBVIOUS
  <1>3. x + y = s * (q + p) + t
    BY <1>1, <1>2
  <1>4. (s * (q + p) + t) % s = t
    BY Remainder
  <1> QED
    BY <1>1, <1>2, <1>3, <1>4

(* An int64 that wraps at every addition wraps once at the end. *)
LEMMA WrapOnce ==
  ASSUME NEW x \in Int, NEW y \in Int
  PROVE  Wrap(Wrap(x) + y) = Wrap(x + y)
  <1> DEFINE h == IntSpan \div 2
  <1>1. IntSpan \in Nat /\ IntSpan > 0 /\ h \in Int
    BY ReplicaAssumption
  <1> HIDE DEF h
  <1>2. (((x + h) % IntSpan) + y) % IntSpan = ((x + h) + y) % IntSpan
    <2>1. x + h \in Int
      BY <1>1
    <2> QED
      BY Zenon, <1>1, <2>1, RemainderFirst
  <1>3. ((((x + h) % IntSpan) - h + y) + h) % IntSpan = ((x + y) + h) % IntSpan
    <2>1. (x + h) % IntSpan \in Int
      BY <1>1
    <2>2. (((x + h) % IntSpan) - h + y) + h = ((x + h) % IntSpan) + y
      BY <1>1, <2>1
    <2> QED
      BY <1>1, <1>2, <2>2
  <1> QED
    BY <1>3 DEF Wrap, h

(* The units of one instance. *)
LEMMA UnitsOfOne ==
  ASSUME NEW i, NEW k \in Int
  PROVE  /\ IsFiniteSet({i} \X (1 .. k))
         /\ Cardinality({i} \X (1 .. k)) = IF k > 0 THEN k ELSE 0
  <1>1. IsFiniteSet(1 .. k) /\ Cardinality(1 .. k) = IF 1 > k THEN 0 ELSE k - 1 + 1
    BY FS_Interval
  <1>2. IsFiniteSet({i}) /\ Cardinality({i}) = 1
    BY Zenon, FS_Singleton
  <1>3. /\ IsFiniteSet({i} \X (1 .. k))
        /\ Cardinality({i} \X (1 .. k)) = Cardinality({i}) * Cardinality(1 .. k)
    BY <1>1, <1>2, FS_Product
  <1> QED
    BY <1>1, <1>2, <1>3

LEMMA UnitsFinite ==
  ASSUME NEW a \in [Instance -> Int], NEW S \in SUBSET Instance
  PROVE  IsFiniteSet(Units(a, S)) /\ Cardinality(Units(a, S)) \in Nat
  <1> DEFINE f == [i \in S |-> {i} \X (1 .. a[i])]
             T == {{i} \X (1 .. a[i]) : i \in S}
  <1>1. IsFiniteSet(S)
    <2>0. 1 \in Int /\ MaxInstance \in Int
      BY ReplicaAssumption
    <2>1. IsFiniteSet(Instance)
      BY <2>0, FS_Interval DEF Instance
    <2> QED
      BY <2>1, FS_Subset
  <1>2. f \in Surjection(S, T)
    BY Zenon DEF Surjection
  <1>3. IsFiniteSet(T)
    BY <1>1, <1>2, FS_Surjection
  <1>4. \A X \in T : IsFiniteSet(X)
    <2> TAKE X \in T
    <2>1. PICK i \in S : X = {i} \X (1 .. a[i])
      OBVIOUS
    <2>2. a[i] \in Int
      OBVIOUS
    <2> QED
      BY Zenon, <2>1, <2>2, UnitsOfOne
  <1>5. IsFiniteSet(UNION T)
    BY Zenon, <1>3, <1>4, FS_UNION
  <1> QED
    BY <1>5, FS_CardinalityType DEF Units

LEMMA UnitsGrow ==
  ASSUME NEW a \in [Instance -> Int], NEW S \in SUBSET Instance, NEW i \in Instance, i \notin S
  PROVE  Cardinality(Units(a, S \cup {i}))
           = Cardinality(Units(a, S)) + (IF a[i] > 0 THEN a[i] ELSE 0)
  <1> DEFINE U == Units(a, S)
             V == {i} \X (1 .. a[i])
  <1>1. IsFiniteSet(U) /\ Cardinality(U) \in Nat
    BY UnitsFinite
  <1>2. IsFiniteSet(V) /\ Cardinality(V) = IF a[i] > 0 THEN a[i] ELSE 0
    BY Zenon, UnitsOfOne
  <1>3. Units(a, S \cup {i}) = U \cup V
    BY DEF Units
  <1>4. U \cap V = {}
    BY DEF Units
  <1>5. Cardinality(U \cup V) = Cardinality(U) + Cardinality(V) - Cardinality(U \cap V)
    BY <1>1, <1>2, FS_Union
  <1>6. Cardinality({}) = 0
    BY FS_EmptySet
  <1> HIDE DEF U, V
  <1>7. Cardinality(U \cup V) = Cardinality(U) + Cardinality(V)
    BY <1>1, <1>2, <1>4, <1>5, <1>6
  <1> QED
    BY Zenon, <1>2, <1>3, <1>7 DEF U

(* An instance more adds its amount. *)
LEMMA SumGrow ==
  ASSUME NEW a \in [Instance -> Int], NEW S \in SUBSET Instance, NEW i \in Instance, i \notin S
  PROVE  Sum(a, S) \in Int /\ Sum(a, S \cup {i}) = Sum(a, S) + a[i]
  <1> DEFINE b == Negated(a)
  <1>1. b \in [Instance -> Int] /\ b[i] = -a[i] /\ a[i] \in Int
    BY DEF Negated
  <1>2. Cardinality(Units(a, S)) \in Nat /\ Cardinality(Units(b, S)) \in Nat
    BY <1>1, UnitsFinite
  <1>3. Cardinality(Units(a, S \cup {i}))
           = Cardinality(Units(a, S)) + (IF a[i] > 0 THEN a[i] ELSE 0)
    BY UnitsGrow
  <1>4. Cardinality(Units(b, S \cup {i}))
           = Cardinality(Units(b, S)) + (IF b[i] > 0 THEN b[i] ELSE 0)
    BY <1>1, UnitsGrow
  <1> QED
    BY <1>1, <1>2, <1>3, <1>4 DEF Sum

(* Only the amounts of the instances in question count. *)
LEMMA SumSame ==
  ASSUME NEW a \in [Instance -> Int], NEW b \in [Instance -> Int], NEW S \in SUBSET Instance,
         \A i \in S : a[i] = b[i]
  PROVE  Sum(a, S) = Sum(b, S)
  <1>1. Units(a, S) = Units(b, S)
    BY DEF Units
  <1>2. Units(Negated(a), S) = Units(Negated(b), S)
    BY Zenon DEF Units, Negated
  <1> QED
    BY <1>1, <1>2 DEF Sum

LEMMA SumEmpty ==
  ASSUME NEW a PROVE Sum(a, {}) = 0
  <1>1. Units(a, {}) = {} /\ Units(Negated(a), {}) = {}
    BY DEF Units
  <1> QED
    BY <1>1, FS_EmptySet DEF Sum
-----------------------------------------------------------------------------
(* What a command is when it arrives (counter/main.go:40-42, kv-store's       *)
(* Operation).                                                                *)
LEMMA EncodedIs ==
  ASSUME NEW c \in Encoded
  PROVE  \/ c.type = "ADD" /\ c.amount \in Int
         \/ c.type \in {"SET", "DEL"} /\ c.key \in Key
  <1>0. PICK n \in Node : \E d \in Range(Typed[n]) : c = Marshal(d)
    BY Zenon DEF Encoded
  <1>1. PICK d \in Range(Typed[n]) : c = Marshal(d)
    BY <1>0
  <1>2. CASE d \in [type : {"ADD"}, amount : Int]
    BY <1>1, <1>2 DEF Marshal
  <1>3. CASE d \in [type : {"SET"}, key : Key, value : {d.value}]
    BY <1>1, <1>3, ReplicaAssumption DEF Marshal
  <1>4. CASE d \in [type : {"DEL"}, key : Key]
    BY <1>1, <1>4, ReplicaAssumption DEF Marshal
  <1> QED
    BY <1>2, <1>3, <1>4, ReplicaAssumption

(* A notification that enters the channel comes after all others. *)
LEMMA AppendTold ==
  ASSUME NEW s \in Seq(Instance), NEW t \in Seq(Instance), NEW i \in Instance
  PROVE  s \o Append(t, i) = Append(s \o t, i)
  OBVIOUS

(* One that is read was told before. *)
LEMMA MoveTold ==
  ASSUME NEW s \in Seq(Instance), NEW t \in Seq(Instance), t # <<>>
  PROVE  Append(s, Head(t)) \o Tail(t) = s \o t
  OBVIOUS

LEMMA AppendSet ==
  ASSUME NEW s \in Seq(Instance), NEW i \in Instance
  PROVE  /\ Range(Append(s, i)) = Range(s) \cup {i}
         /\ IsInjective(s) /\ i \notin Range(s) => IsInjective(Append(s, i))
  <1> DEFINE u == Append(s, i)
  <1>1. /\ Len(s) \in Nat /\ DOMAIN s = 1 .. Len(s) /\ DOMAIN u = 1 .. Len(s) + 1
        /\ u[Len(s) + 1] = i /\ \A j \in 1 .. Len(s) : u[j] = s[j]
    OBVIOUS
  <1>2. 1 .. Len(s) + 1 = (1 .. Len(s)) \cup {Len(s) + 1}
    BY <1>1
  <1> HIDE DEF u
  <1>3. Range(u) = Range(s) \cup {i}
    BY <1>1, <1>2 DEF Range
  <1>4. ASSUME IsInjective(s), i \notin Range(s) PROVE IsInjective(u)
    BY <1>1, <1>2, <1>4 DEF Range, IsInjective
  <1> QED
    BY <1>3, <1>4 DEF u

LEMMA ConcatSet ==
  ASSUME NEW s \in Seq(Instance), NEW t \in Seq(Instance)
  PROVE  /\ Range(s) \subseteq Range(s \o t) /\ Range(s) \in SUBSET Instance
         /\ t # <<>> => Head(t) \in Instance /\ Head(t) \in Range(s \o t)
         /\ t # <<>> /\ IsInjective(s \o t) => Head(t) \notin Range(s)
  <1> DEFINE u == s \o t
  <1>1. /\ Len(s) \in Nat /\ Len(t) \in Nat
        /\ DOMAIN s = 1 .. Len(s) /\ DOMAIN u = 1 .. Len(s) + Len(t)
        /\ \A j \in 1 .. Len(s) : u[j] = s[j] /\ s[j] \in Instance
    OBVIOUS
  <1>2. ASSUME t # <<>>
        PROVE  Len(t) > 0 /\ Head(t) \in Instance /\ u[Len(s) + 1] = Head(t)
    BY <1>2
  <1> HIDE DEF u
  <1>3. Range(s) \subseteq Range(u) /\ Range(s) \in SUBSET Instance
    BY <1>1 DEF Range
  <1>4. ASSUME t # <<>> PROVE Len(s) + 1 \in DOMAIN u /\ Len(s) + 1 \notin DOMAIN s
    BY <1>1, <1>2, <1>4
  <1>5. ASSUME t # <<>> PROVE Head(t) \in Instance /\ Head(t) \in Range(u)
    BY <1>2, <1>4, <1>5 DEF Range
  <1>6. ASSUME t # <<>>, IsInjective(u), Head(t) \in Range(s) PROVE FALSE
    <2>1. PICK j \in DOMAIN s : s[j] = Head(t)
      BY <1>6 DEF Range
    <2>2. j \in DOMAIN u /\ u[j] = u[Len(s) + 1]
      BY <1>1, <1>2, <1>6, <2>1
    <2>3. j = Len(s) + 1
      BY <1>4, <1>6, <2>2 DEF IsInjective
    <2> QED
      BY <1>4, <1>6, <2>3
  <1> QED
    BY <1>3, <1>5, <1>6 DEF u

(* A sequence that repeats nothing is as long as its set is large. *)
LEMMA DistinctCount ==
  ASSUME NEW s \in Seq(Instance), IsInjective(s)
  PROVE  Cardinality(Range(s)) = Len(s)
  <1>1. s \in Bijection(1 .. Len(s), Range(s))
    BY DEF Bijection, Injection, Surjection, Range
  <1> QED
    BY <1>1, FS_CountingElements DEF ExistsBijection
-----------------------------------------------------------------------------
Int64 == - (IntSpan \div 2) .. IntSpan \div 2 - 1
Values == [Instance -> Encoded \cup {Absent}]
Data == [Key -> {Written(c) : c \in Encoded} \cup {Absent}]

LEMMA AmountsTyped ==
  ASSUME NEW v \in Values PROVE Amounts(v) \in [Instance -> Int]
  <1>1. \A i \in Instance : v[i] # Absent => v[i] \in Encoded
    BY DEF Values
  <1>2. \A i \in Instance : v[i] # Absent /\ v[i].type = "ADD" => v[i].amount \in Int
    BY <1>1, EncodedIs
  <1> QED
    BY <1>2 DEF Amounts

(* An int64 stays one. *)
LEMMA WrapRange ==
  ASSUME NEW x \in Int
  PROVE  Wrap(x) \in Int64
  BY ReplicaAssumption DEF Wrap, Int64

(* Nothing is shown before the first value is applied. *)
LEMMA ShownFirst ==
  ASSUME NEW v PROVE Shown(v, 0, [k \in Key |-> Absent], {})
  <1>1. Wrap(0) = 0
    BY ReplicaAssumption DEF Wrap
  <1> QED
    BY <1>1, SumEmpty DEF Shown, WritersOf

(* Values of other instances change nothing. *)
LEMMA ShownStays ==
  ASSUME NEW v \in Values, NEW w \in Values, NEW done \in SUBSET Instance,
         \A i \in done : v[i] = w[i],
         NEW total, NEW data, Shown(v, total, data, done)
  PROVE  Shown(w, total, data, done)
  <1>1. Sum(Amounts(v), done) = Sum(Amounts(w), done)
    <2>1. \A i \in done : Amounts(v)[i] = Amounts(w)[i]
      BY DEF Amounts
    <2> QED
      BY <2>1, AmountsTyped, SumSame
  <1>2. \A k \in Key : WritersOf(v, k, done) = WritersOf(w, k, done)
    BY DEF WritersOf
  <1>3. \A k \in Key : \A i \in WritersOf(v, k, done) : v[i] = w[i]
    BY DEF WritersOf
  <1> QED
    BY <1>1, <1>2, <1>3 DEF Shown

(* Apply adds one instance to what is shown (counter/main.go:51-56,           *)
(* kv-store/main.go:60-72).                                                   *)
LEMMA ShownGrows ==
  ASSUME NEW v \in Values, NEW done \in SUBSET Instance, NEW i \in Instance, i \notin done,
         v[i] # Absent, NEW total, NEW data \in Data, Shown(v, total, data, done)
  PROVE  /\ Shown(v, CounterApply(total, v[i]), KVStoreApply(data, v[i]), done \cup {i})
         /\ CounterApply(total, v[i]) \in Int64
         /\ KVStoreApply(data, v[i]) \in Data
  <1> DEFINE c == v[i]
             x == Sum(Amounts(v), done)
             y == Amounts(v)[i]
             new == KVStoreApply(data, c)
  <1>1. c \in Encoded
    BY DEF Values
  <1>2. \/ c.type = "ADD" /\ c.amount \in Int
        \/ c.type \in {"SET", "DEL"} /\ c.key \in Key
    BY <1>1, EncodedIs
  <1>3. y = IF c.type = "ADD" THEN c.amount ELSE 0
    BY DEF Amounts
  <1>4. x \in Int /\ y \in Int /\ Sum(Amounts(v), done \cup {i}) = x + y
    BY Zenon, AmountsTyped, SumGrow
  <1>5. CounterApply(total, c) = Wrap(x + y)
    <2>1. total = Wrap(x)
      BY DEF Shown
    <2>2. CASE c.type = "ADD"
      BY <1>3, <1>4, <2>1, <2>2, WrapOnce DEF CounterApply
    <2>3. CASE c.type # "ADD"
      BY <1>3, <1>4, <2>1, <2>3 DEF CounterApply
    <2> QED
      BY <2>2, <2>3
  <1>6. CounterApply(total, c) \in Int64
    BY <1>4, <1>5, WrapRange
  <1>7. new \in Data
    BY <1>1, <1>2 DEF KVStoreApply, Data
  <1>8. ASSUME NEW k \in Key
        PROVE  \/ WritersOf(v, k, done \cup {i}) = {} /\ new[k] = Absent
               \/ \E j \in WritersOf(v, k, done \cup {i}) : new[k] = Written(v[j])
    <2>1. CASE c.type # "ADD" /\ c.key = k
      <3>1. i \in WritersOf(v, k, done \cup {i})
        BY <2>1 DEF WritersOf
      <3>2. new[k] = Written(c)
        BY <1>2, <2>1 DEF KVStoreApply, Data
      <3> QED
        BY <3>1, <3>2
    <2>2. CASE ~(c.type # "ADD" /\ c.key = k)
      <3>1. WritersOf(v, k, done \cup {i}) = WritersOf(v, k, done)
        BY <2>2 DEF WritersOf
      <3>2. new[k] = data[k]
        BY <1>2, <2>2 DEF KVStoreApply, Data
      <3> QED
        BY Zenon, <3>1, <3>2 DEF Shown
    <2> QED
      BY <2>1, <2>2
  <1> QED
    BY Zenon, <1>4, <1>5, <1>6, <1>7, <1>8 DEF Shown

(* Replicas that have applied the same show the same. *)
LEMMA ShownAlike ==
  ASSUME NEW v, NEW done \in SUBSET Instance, NEW total, NEW data, NEW total2, NEW data2,
         Shown(v, total, data, done), Shown(v, total2, data2, done)
  PROVE  /\ total = total2
         /\ \A k \in Key : Cardinality(WritersOf(v, k, done)) <= 1 => data[k] = data2[k]
  <1>1. total = total2
    BY DEF Shown
  <1>2. ASSUME NEW k \in Key, Cardinality(WritersOf(v, k, done)) <= 1
        PROVE  data[k] = data2[k]
    <2> DEFINE W == WritersOf(v, k, done)
    <2>1. IsFiniteSet(W) /\ Cardinality(W) \in Nat
      <3>1. IsFiniteSet(Instance)
        <4>1. 1 \in Int /\ MaxInstance \in Int
          BY ReplicaAssumption
        <4> QED
          BY <4>1, FS_Interval DEF Instance
      <3>2. W \in SUBSET Instance
        BY DEF WritersOf
      <3> QED
        BY <3>1, <3>2, FS_Subset, FS_CardinalityType
    <2> HIDE DEF W
    <2>2. \A i, j \in W : i = j
      <3>1. Cardinality(W) = 0 \/ Cardinality(W) = 1
        BY <1>2, <2>1 DEF W
      <3>2. Cardinality(W) = 0 => W = {}
        BY <2>1, FS_EmptySet
      <3>3. Cardinality(W) = 1 => \E x : W = {x}
        BY Zenon, <2>1, FS_Singleton
      <3> QED
        BY <3>1, <3>2, <3>3
    <2>3. /\ (W = {} /\ data[k] = Absent) \/ \E i \in W : data[k] = Written(v[i])
          /\ (W = {} /\ data2[k] = Absent) \/ \E i \in W : data2[k] = Written(v[i])
      BY DEF Shown, W
    <2> QED
      BY <2>2, <2>3
  <1> QED
    BY <1>1, <1>2
-----------------------------------------------------------------------------
(* handleCommit, of a node that is not closed: the instance is new to the     *)
(* node and told or dropped, or it was known (node.go:282-317).  What a node  *)
(* has committed stays.                                                       *)
LEMMA Handled ==
  ASSUME TypeOK, NEW n \in Node, NEW i \in Instance, NEW v \in Encoded,
         life[n] # "closed", ~panicked[n],
         \A m \in Node : ToldInv(m), handleCommit(n, i, v), applied' = applied
  PROVE  /\ committed' \in [Node -> Values] /\ vote' \in [Node -> Values]
         /\ log' \in [Node -> SUBSET Instance]
         /\ commitCh' \in [Node -> Seq(Instance)]
         /\ dropped' \in [Node -> SUBSET Instance]
         /\ panicked' = panicked
         /\ \A m \in Node, j \in Instance :
              committed[m][j] # Absent => committed'[m][j] = committed[m][j]
         /\ \A m \in Node : ToldInv(m)'
  <1>t. /\ committed \in [Node -> Values] /\ vote \in [Node -> Values]
        /\ log \in [Node -> SUBSET Instance]
        /\ commitCh \in [Node -> Seq(Instance)] /\ dropped \in [Node -> SUBSET Instance]
        /\ applied \in [Node -> Seq(Instance)]
    BY Zenon DEF TypeOK, Values
  <1>1. CASE committed[n][i] # Absent
    <2>1. UNCHANGED <<vote, committed, log, commitCh, dropped, panicked>>
      BY Zenon, <1>1 DEF handleCommit, learnerVars
    <2>2. \A m \in Node : ToldInv(m)'
      BY Zenon, <2>1 DEF ToldInv, Told, Committed
    <2> QED
      BY Zenon, <1>t, <2>1, <2>2
  <1>2. CASE committed[n][i] = Absent
    <2>1. /\ committed' = [committed EXCEPT ![n][i] = v]
          /\ vote' = [vote EXCEPT ![n][i] = Absent]
          /\ log' \in {log, [log EXCEPT ![n] = @ \cup {i}]}
          /\ panicked' = [panicked EXCEPT ![n] = @ \/ life[n] = "closed"]
          /\ \/ commitCh' = [commitCh EXCEPT ![n] = Append(@, i)] /\ dropped' = dropped
             \/ dropped' = [dropped EXCEPT ![n] = @ \cup {i}] /\ commitCh' = commitCh
      BY <1>2 DEF handleCommit
    <2>2. panicked' = panicked
      <3>1. (panicked[n] \/ life[n] = "closed") = panicked[n]
        BY Zenon DEF TypeOK
      <3> QED
        BY Zenon, <2>1, <3>1 DEF TypeOK
    <2>3. /\ log' \in [Node -> SUBSET Instance]
          /\ commitCh' \in [Node -> Seq(Instance)]
          /\ dropped' \in [Node -> SUBSET Instance]
      <3>0. /\ log[n] \cup {i} \in SUBSET Instance
            /\ dropped[n] \cup {i} \in SUBSET Instance
            /\ Append(commitCh[n], i) \in Seq(Instance)
        BY <1>t
      <3>1. log' \in [Node -> SUBSET Instance]
        BY Zenon, <2>1, <1>t, <3>0
      <3>2. commitCh' \in [Node -> Seq(Instance)] /\ dropped' \in [Node -> SUBSET Instance]
        BY Zenon, <2>1, <1>t, <3>0
      <3> QED
        BY <3>1, <3>2
    <2>v. /\ committed' \in [Node -> Values] /\ vote' \in [Node -> Values]
          /\ committed'[n][i] = v /\ v # Absent
          /\ \A j \in Instance : j # i => committed'[n][j] = committed[n][j]
          /\ \A m \in Node : m # n => committed'[m] = committed[m]
      <3>1. [committed[n] EXCEPT ![i] = v] \in Values /\ [vote[n] EXCEPT ![i] = Absent] \in Values
        BY <1>t DEF Values
      <3>2. committed' \in [Node -> Values] /\ vote' \in [Node -> Values]
        BY Zenon, <1>t, <2>1, <3>1
      <3>3. /\ committed'[n] = [committed[n] EXCEPT ![i] = v]
            /\ \A m \in Node : m # n => committed'[m] = committed[m]
        BY Zenon, <1>t, <2>1
      <3>4. committed'[n][i] = v /\ \A j \in Instance : j # i => committed'[n][j] = committed[n][j]
        BY <1>t, <3>3 DEF Values
      <3> QED
        BY Zenon, <3>2, <3>3, <3>4, AbsentAssumption
    <2>4. ASSUME NEW m \in Node, m # n PROVE ToldInv(m)'
      <3>1. committed'[m] = committed[m] /\ dropped'[m] = dropped[m] /\ commitCh'[m] = commitCh[m]
        BY Zenon, <1>t, <2>1, <2>4, <2>v
      <3> QED
        BY Zenon, <3>1 DEF ToldInv, Told, Committed
    <2>5. ToldInv(n)'
      <3> DEFINE s == Told(n)
      <3>0. /\ applied[n] \in Seq(Instance) /\ commitCh[n] \in Seq(Instance)
            /\ s \in Seq(Instance)
        BY <1>t DEF Told
      <3>1. /\ Committed(n) = Range(s) \cup dropped[n] /\ Range(s) \cap dropped[n] = {}
            /\ IsInjective(s) /\ i \notin Range(s) /\ i \notin dropped[n]
        BY Zenon, <1>2 DEF ToldInv, Committed
      <3>2. Committed(n)' = Committed(n) \cup {i}
        BY <2>v DEF Committed
      <3>3. CASE commitCh' = [commitCh EXCEPT ![n] = Append(@, i)] /\ dropped' = dropped
        <4>1. Told(n)' = Append(s, i)
          <5>1. commitCh'[n] = Append(commitCh[n], i)
            BY <3>3, <1>t
          <5>2. applied[n] \o Append(commitCh[n], i) = Append(s, i)
            BY Zenon, <3>0, AppendTold DEF Told
          <5> QED
            BY <5>1, <5>2 DEF Told
        <4>2. Range(Append(s, i)) = Range(s) \cup {i} /\ IsInjective(Append(s, i))
          BY <3>0, <3>1, AppendSet
        <4> QED
          BY <3>1, <3>2, <3>3, <4>1, <4>2 DEF ToldInv
      <3>4. CASE dropped' = [dropped EXCEPT ![n] = @ \cup {i}] /\ commitCh' = commitCh
        <4>1. Told(n)' = s /\ dropped'[n] = dropped[n] \cup {i}
          BY <3>4, <1>t DEF Told
        <4> QED
          BY <3>1, <3>2, <4>1 DEF ToldInv
      <3> QED
        BY <2>1, <3>3, <3>4
    <2>6. \A m \in Node, j \in Instance :
            committed[m][j] # Absent => committed'[m][j] = committed[m][j]
      BY Zenon, <1>2, <2>v
    <2> QED
      BY Zenon, <2>2, <2>3, <2>4, <2>5, <2>6, <2>v
  <1> QED
    BY <1>1, <1>2

(* What a step does not touch. *)
LEMMA Untouched ==
  ASSUME IInv, UNCHANGED <<committed, commitCh, dropped, panicked, appVars>>
  PROVE  /\ \A m \in Node : ToldInv(m)' /\ Shown(committed[m], counter[m], store[m], Range(applied[m]))'
         /\ panicked' = panicked
  BY DEF IInv, ToldInv, Told, Committed, appVars

(* What is applied is committed. *)
LEMMA AppliedCommitted ==
  ASSUME IInv, NEW m \in Node
  PROVE  /\ Range(applied[m]) \in SUBSET Instance
         /\ \A i \in Range(applied[m]) : committed[m][i] # Absent
  <1>1. applied[m] \in Seq(Instance) /\ commitCh[m] \in Seq(Instance)
    BY Zenon DEF IInv, TypeOK
  <1>2. Range(applied[m]) \subseteq Range(Told(m)) /\ Range(applied[m]) \in SUBSET Instance
    BY <1>1, ConcatSet DEF Told
  <1>3. Range(Told(m)) \subseteq Committed(m)
    BY Zenon DEF IInv, ToldInv
  <1> QED
    BY Zenon, <1>2, <1>3 DEF Committed

(* What is shown does not depend on the values of instances that are not      *)
(* applied.                                                                   *)
LEMMA ShownKept ==
  ASSUME IInv, committed' \in [Node -> Values],
         \A m \in Node, j \in Instance :
           committed[m][j] # Absent => committed'[m][j] = committed[m][j],
         UNCHANGED <<applied, counter, store>>
  PROVE  \A m \in Node : Shown(committed[m], counter[m], store[m], Range(applied[m]))'
  <1> SUFFICES ASSUME NEW m \in Node
               PROVE  Shown(committed[m], counter[m], store[m], Range(applied[m]))'
    OBVIOUS
  <1>1. /\ committed[m] \in Values /\ committed'[m] \in Values
        /\ Shown(committed[m], counter[m], store[m], Range(applied[m]))
    BY Zenon DEF IInv, TypeOK, Values
  <1>2. /\ Range(applied[m]) \in SUBSET Instance
        /\ \A j \in Range(applied[m]) : committed[m][j] = committed'[m][j]
    BY Zenon, AppliedCommitted
  <1>3. Shown(committed'[m], counter[m], store[m], Range(applied[m]))
    BY Zenon, <1>1, <1>2, ShownStays
  <1> QED
    BY Zenon, <1>3

Stages == {"new", "started", "stopping", "storage closed", "closed", "exited"}
Calls == [pc : {"none", "proposed", "accepted"}, instance : 0 .. MaxInstance,
          value : Encoded \cup {Absent}]

LEMMA Constants ==
  /\ NoCall \in Calls /\ NoCall.pc = "none"
  /\ Instance \subseteq 0 .. MaxInstance
  /\ MaxInstance \in Nat
  BY ReplicaAssumption DEF NoCall, Calls, Instance

(* Start, Close and the ways a process ends (node.go:122-169, 211-227).       *)
LEMMA LifeStep ==
  ASSUME IInv, NEW n \in Node,
         \/ Start(n) \/ Quit(n) \/ EndOfInput(n) \/ MessageLoopExits(n)
         \/ CloseStorage(n) \/ CloseChannel(n) \/ Exit(n)
  PROVE  IInv'
  <1> DEFINE Moves(s, b) ==
               /\ life' = [life EXCEPT ![n] = s] /\ messageLoop' = [messageLoop EXCEPT ![n] = b]
               /\ s \in {"storage closed", "closed", "exited"} => ~b
               /\ s # "started" => call[n] = NoCall
  <1>0. /\ life \in [Node -> Stages] /\ messageLoop \in [Node -> BOOLEAN] /\ LifeInv(n)
        /\ commits \in [Node -> SUBSET CommitMsg] /\ lost \in [Node -> BOOLEAN]
        /\ life = [life EXCEPT ![n] = life[n]]
        /\ messageLoop = [messageLoop EXCEPT ![n] = messageLoop[n]]
    BY Zenon DEF IInv, TypeOK, Stages
  <1>1. PICK s \in Stages, b \in BOOLEAN : Moves(s, b)
    <2>1. CASE Start(n)
      <3>1. Moves("started", TRUE)
        BY <2>1 DEF Start
      <3> QED
        BY Zenon, <3>1 DEF Stages
    <2>2. CASE Quit(n)
      <3>1. Moves("stopping", messageLoop[n])
        BY <1>0, <2>2 DEF Quit
      <3> QED
        BY Zenon, <1>0, <3>1 DEF Stages
    <2>3. CASE EndOfInput(n)
      <3>1. Moves("exited", FALSE)
        BY <2>3 DEF EndOfInput
      <3> QED
        BY Zenon, <3>1 DEF Stages
    <2>4. CASE MessageLoopExits(n)
      <3>1. Moves("stopping", FALSE)
        BY <1>0, <2>4 DEF MessageLoopExits, LifeInv
      <3> QED
        BY Zenon, <3>1 DEF Stages
    <2>5. CASE CloseStorage(n)
      <3>1. Moves("storage closed", messageLoop[n])
        BY Zenon, <1>0, <2>5 DEF CloseStorage, LifeInv
      <3> QED
        BY ZenonT(30), <1>0, <3>1 DEF Stages
    <2>6. CASE CloseChannel(n)
      <3>1. Moves("closed", messageLoop[n])
        BY Zenon, <1>0, <2>6 DEF CloseChannel, LifeInv
      <3> QED
        BY Zenon, <1>0, <3>1 DEF Stages
    <2>7. CASE Exit(n)
      <3>1. Moves("exited", messageLoop[n])
        BY <1>0, <2>7 DEF Exit, LifeInv
      <3> QED
        BY Zenon, <1>0, <3>1 DEF Stages
    <2> QED
      BY Zenon, <2>1, <2>2, <2>3, <2>4, <2>5, <2>6, <2>7
  <1>2. /\ UNCHANGED <<learnerVars, appVars, call, nextInstance>>
        /\ commits' \in [Node -> SUBSET CommitMsg] /\ lost' \in [Node -> BOOLEAN]
    <2>1. CASE CloseStorage(n)
      BY Zenon, <1>0, <2>1 DEF CloseStorage
    <2>2. CASE UNCHANGED <<learnerVars, appVars, call, nextInstance, commits, lost>>
      BY Zenon, <1>0, <2>2
    <2> QED
      BY Zenon, <2>1, <2>2 DEF Start, Quit, EndOfInput, MessageLoopExits, CloseChannel, Exit
  <1>3. TypeOK'
    BY Zenon, <1>1, <1>2 DEF IInv, TypeOK, Stages, learnerVars, appVars
  <1>4. \A m \in Node : LifeInv(m)'
    BY ZenonT(30), <1>1, <1>2 DEF IInv, TypeOK, LifeInv, learnerVars
  <1>5. \A m \in Node : CallInv(m)'
    BY Zenon, <1>2 DEF IInv, CallInv
  <1>6. UNCHANGED <<committed, commitCh, dropped, panicked, appVars>>
    BY Zenon, <1>2 DEF learnerVars
  <1> QED
    BY Zenon, <1>3, <1>4, <1>5, <1>6, Untouched DEF IInv

(* A call of Propose begins or fails, and a Commit is lost. *)
LEMMA ProposeStep ==
  ASSUME IInv, NEW n \in Node, Propose(n)
  PROVE  IInv'
  <1> DEFINE i == nextInstance[n]
             c == Typed[n][i]
             p == [pc |-> "proposed", instance |-> i, value |-> Marshal(c)]
  <1>1. /\ life[n] = "started" /\ i <= Len(Typed[n])
        /\ nextInstance' = [nextInstance EXCEPT ![n] = i + 1]
        /\ call' = [call EXCEPT ![n] = p]
        /\ UNCHANGED <<life, messageLoop, commits, lost>>
        /\ UNCHANGED <<learnerVars, appVars>>
    BY Zenon DEF Propose
  <1>2. i \in Instance /\ c \in Range(Typed[n])
    <2>1. /\ i \in 1 .. MaxInstance + 1 /\ MaxInstance \in Nat
          /\ Len(Typed[n]) <= MaxInstance /\ Typed[n] \in Seq(Range(Typed[n]))
      BY Constants, ReplicaAssumption DEF IInv, TypeOK
    <2>2. Len(Typed[n]) \in Nat /\ DOMAIN Typed[n] = 1 .. Len(Typed[n])
      BY <2>1
    <2> HIDE DEF i
    <2>3. i \in Instance /\ i \in DOMAIN Typed[n]
      BY <1>1, <2>1, <2>2 DEF Instance
    <2> QED
      BY <2>3 DEF Range
  <1>3. Marshal(c) \in Encoded
    BY Zenon, <1>2 DEF Encoded
  <1>4. i + 1 \in 1 .. MaxInstance + 1
    BY <1>2, Constants DEF Instance
  <1> HIDE DEF c
  <1>5. p \in Calls
    BY ZenonT(30), <1>2, <1>3, Constants DEF Calls
  <1>6. /\ call \in [Node -> Calls] /\ nextInstance \in [Node -> 1 .. MaxInstance + 1]
        /\ \A m \in Node : LifeInv(m) /\ CallInv(m)
    BY Zenon DEF IInv, TypeOK, Calls
  <1>7. call' \in [Node -> Calls] /\ nextInstance' \in [Node -> 1 .. MaxInstance + 1]
    BY <1>1, <1>4, <1>5, <1>6
  <1>8. TypeOK'
    BY ZenonT(30), <1>1, <1>7 DEF IInv, TypeOK, Calls, learnerVars, appVars
  <1>9. \A m \in Node : call'[m] = IF m = n THEN p ELSE call[m]
    BY ZenonT(30), <1>1, <1>6
  <1>10. UNCHANGED <<committed, commitCh, dropped, panicked, appVars>>
    BY Zenon, <1>1 DEF learnerVars
  <1>11. \A m \in Node : LifeInv(m)'
    BY Zenon, <1>1, <1>6, <1>9, <1>10 DEF LifeInv
  <1>12. \A m \in Node : CallInv(m)'
    BY <1>2, <1>3, <1>6, <1>9 DEF CallInv
  <1> QED
    BY ZenonT(30), <1>8, <1>10, <1>11, <1>12, Untouched DEF IInv

LEMMA FailStep ==
  ASSUME IInv, NEW n \in Node, ProposeFails(n)
  PROVE  IInv'
  <1>1. /\ call' = [call EXCEPT ![n] = NoCall]
        /\ UNCHANGED <<life, messageLoop, nextInstance, commits, lost>>
        /\ UNCHANGED <<learnerVars, appVars>>
    BY DEF ProposeFails
  <1>2. call \in [Node -> Calls] /\ \A m \in Node : LifeInv(m) /\ CallInv(m)
    BY Zenon DEF IInv, TypeOK, Calls
  <1>3. call' \in [Node -> Calls] /\ \A m \in Node : call'[m] = IF m = n THEN NoCall ELSE call[m]
    BY <1>1, <1>2, Constants
  <1>4. TypeOK'
    BY Zenon, <1>1, <1>3 DEF IInv, TypeOK, Calls, learnerVars, appVars
  <1>5. UNCHANGED <<committed, commitCh, dropped, panicked, appVars>>
    BY Zenon, <1>1 DEF learnerVars
  <1>6. \A m \in Node : LifeInv(m)'
    BY Zenon, <1>1, <1>2, <1>3, <1>5 DEF LifeInv
  <1>7. \A m \in Node : CallInv(m)'
    BY Zenon, <1>2, <1>3, Constants DEF CallInv
  <1> QED
    BY Zenon, <1>4, <1>5, <1>6, <1>7, Untouched DEF IInv

LEMMA LoseStep ==
  ASSUME IInv, NEW n \in Node, NEW c \in commits[n], LoseCommit(n, c)
  PROVE  IInv'
  <1>1. /\ commits' = [commits EXCEPT ![n] = @ \ {c}]
        /\ lost' = [lost EXCEPT ![n] = TRUE]
        /\ UNCHANGED <<life, messageLoop, call, nextInstance>>
        /\ UNCHANGED <<learnerVars, appVars>>
    BY DEF LoseCommit, nodeVars
  <1>2. /\ commits \in [Node -> SUBSET CommitMsg] /\ lost \in [Node -> BOOLEAN]
        /\ \A m \in Node : LifeInv(m) /\ CallInv(m)
    BY Zenon DEF IInv, TypeOK
  <1>3. commits' \in [Node -> SUBSET CommitMsg] /\ lost' \in [Node -> BOOLEAN]
    BY Zenon, <1>1, <1>2
  <1>4. TypeOK'
    BY ZenonT(30), <1>1, <1>3 DEF IInv, TypeOK, learnerVars, appVars
  <1>5. UNCHANGED <<committed, commitCh, dropped, panicked, appVars>>
    BY Zenon, <1>1 DEF learnerVars
  <1>6. \A m \in Node : LifeInv(m)' /\ CallInv(m)'
    BY Zenon, <1>1, <1>2, <1>5 DEF LifeInv, CallInv
  <1> QED
    BY Zenon, <1>4, <1>5, <1>6, Untouched DEF IInv

(* A quorum accepts a value, its own or one that it already holds. *)
LEMMA AcceptedStep ==
  ASSUME IInv, NEW n \in Node, NEW Q \in Quorum, Accepted(n, Q)
  PROVE  IInv'
  <1> DEFINE i == call[n].instance
             reported == {vote[q][i] : q \in Q} \ {Absent}
  <1>1. /\ call \in [Node -> Calls] /\ vote \in [Node -> Values]
        /\ \A m \in Node : LifeInv(m) /\ CallInv(m)
    BY Zenon DEF IInv, TypeOK, Calls, Values
  <1>2. call[n].pc = "proposed" /\ i \in Instance /\ call[n].value \in Encoded
    <2>1. call[n].pc = "proposed"
      BY Zenon DEF Accepted
    <2> QED
      BY <1>1, <2>1 DEF CallInv
  <1>3. PICK v \in IF reported = {} THEN {call[n].value} ELSE reported :
          /\ vote' = [q \in Node |-> IF q \in Q THEN [vote[q] EXCEPT ![i] = v] ELSE vote[q]]
          /\ call' = [call EXCEPT ![n].pc = "accepted", ![n].value = v]
    BY Zenon DEF Accepted
  <1>4. v \in Encoded
    <2>1. Q \subseteq Node
      BY Zenon DEF Quorum
    <2>2. \A q \in Node : vote[q][i] \in Encoded \cup {Absent}
      BY <1>1, <1>2 DEF Values
    <2> QED
      BY Zenon, <1>2, <1>3, <2>1, <2>2
  <1> DEFINE p == [call[n] EXCEPT !.pc = "accepted", !.value = v]
  <1>5. p \in Calls /\ p.pc = "accepted" /\ p.instance = i /\ p.value = v
    BY <1>1, <1>4 DEF Calls
  <1>6. call' \in [Node -> Calls] /\ \A m \in Node : call'[m] = IF m = n THEN p ELSE call[m]
    <2>1. call' = [call EXCEPT ![n] = p]
      BY <1>1, <1>3
    <2> HIDE DEF p
    <2> QED
      BY <1>1, <1>5, <2>1
  <1>7. vote' \in [Node -> Values]
    <2>1. \A q \in Node : [vote[q] EXCEPT ![i] = v] \in Values
      BY <1>1, <1>2, <1>4 DEF Values
    <2> QED
      BY Zenon, <1>1, <1>3, <2>1
  <1>8. /\ UNCHANGED <<life, messageLoop, nextInstance, commits, lost, log>>
        /\ UNCHANGED <<committed, commitCh, dropped, panicked, appVars>>
    BY Zenon DEF Accepted
  <1> HIDE DEF p, i
  <1>9. TypeOK'
    BY Zenon, <1>6, <1>7, <1>8 DEF IInv, TypeOK, Calls, Values, appVars
  <1>10. \A m \in Node : LifeInv(m)'
    <2>1. life[n] = "started"
      BY Zenon, <1>1, <1>2, Constants DEF LifeInv
    <2> QED
      BY Zenon, <1>1, <1>6, <1>8, <2>1 DEF LifeInv
  <1>11. \A m \in Node : CallInv(m)'
    BY Zenon, <1>1, <1>2, <1>4, <1>5, <1>6 DEF CallInv
  <1> QED
    BY Zenon, <1>8, <1>9, <1>10, <1>11, Untouched DEF IInv

(* messageLoop takes a Commit (node.go:230-317). *)
LEMMA ReceiveStep ==
  ASSUME IInv, NEW n \in Node, NEW c \in commits[n], ReceiveCommit(n, c)
  PROVE  IInv'
  <1>1. /\ messageLoop[n] /\ handleCommit(n, c.instance, c.value)
        /\ commits' = [commits EXCEPT ![n] = @ \ {c}]
        /\ UNCHANGED <<life, messageLoop, call, nextInstance, lost, applied, counter, store>>
    BY Zenon DEF ReceiveCommit, nodeVars, appVars
  <1>2. /\ TypeOK /\ commits \in [Node -> SUBSET CommitMsg]
        /\ \A m \in Node : LifeInv(m) /\ CallInv(m) /\ ToldInv(m)
    BY ZenonT(30) DEF IInv, TypeOK
  <1>3. life[n] # "closed" /\ ~panicked[n]
    BY ZenonT(30), <1>1, <1>2 DEF LifeInv
  <1>4. c.instance \in Instance /\ c.value \in Encoded
    BY <1>2 DEF CommitMsg
  <1>5. /\ committed' \in [Node -> Values] /\ vote' \in [Node -> Values]
        /\ log' \in [Node -> SUBSET Instance]
        /\ commitCh' \in [Node -> Seq(Instance)] /\ dropped' \in [Node -> SUBSET Instance]
        /\ panicked' = panicked
        /\ \A m \in Node, j \in Instance :
             committed[m][j] # Absent => committed'[m][j] = committed[m][j]
        /\ \A m \in Node : ToldInv(m)'
    BY <1>1, <1>2, <1>3, <1>4, Handled
  <1>6. commits' \in [Node -> SUBSET CommitMsg]
    BY Zenon, <1>1, <1>2
  <1>7. TypeOK'
    BY ZenonT(30), <1>1, <1>2, <1>5, <1>6 DEF TypeOK, Values
  <1>8. \A m \in Node : LifeInv(m)' /\ CallInv(m)'
    BY ZenonT(30), <1>1, <1>2, <1>5 DEF LifeInv, CallInv
  <1>9. \A m \in Node : Shown(committed[m], counter[m], store[m], Range(applied[m]))'
    BY Zenon, <1>1, <1>5, ShownKept
  <1> QED
    BY Zenon, <1>5, <1>7, <1>8, <1>9 DEF IInv

(* broadcastCommit tells the node's own learner, then the peers               *)
(* (proposer.go:314-336).                                                     *)
LEMMA BroadcastStep ==
  ASSUME IInv, NEW n \in Node, broadcastCommit(n)
  PROVE  IInv'
  <1> DEFINE i == call[n].instance
             v == call[n].value
             c == [instance |-> i, value |-> v]
  <1>1. /\ call[n].pc = "accepted" /\ handleCommit(n, i, v)
        /\ \A q \in Node : commits'[q] \in {commits[q], commits[q] \cup {c}}
        /\ lost' \in [Node -> BOOLEAN]
        /\ commits' = [q \in Node |-> commits'[q]]
        /\ call' = [call EXCEPT ![n] = NoCall]
        /\ UNCHANGED <<life, messageLoop, nextInstance, applied, counter, store>>
    BY Zenon DEF broadcastCommit, appVars
  <1>2. /\ TypeOK /\ commits \in [Node -> SUBSET CommitMsg] /\ call \in [Node -> Calls]
        /\ \A m \in Node : LifeInv(m) /\ CallInv(m) /\ ToldInv(m)
    BY Zenon DEF IInv, TypeOK, Calls
  <1>3. life[n] # "closed" /\ ~panicked[n] /\ i \in Instance /\ v \in Encoded
    BY Zenon, <1>1, <1>2, Constants DEF LifeInv, CallInv
  <1>4. /\ committed' \in [Node -> Values] /\ vote' \in [Node -> Values]
        /\ log' \in [Node -> SUBSET Instance]
        /\ commitCh' \in [Node -> Seq(Instance)] /\ dropped' \in [Node -> SUBSET Instance]
        /\ panicked' = panicked
        /\ \A m \in Node, j \in Instance :
             committed[m][j] # Absent => committed'[m][j] = committed[m][j]
        /\ \A m \in Node : ToldInv(m)'
    BY <1>1, <1>2, <1>3, Handled
  <1>5. commits' \in [Node -> SUBSET CommitMsg]
    <2>1. c \in CommitMsg
      BY Zenon, <1>3 DEF CommitMsg
    <2> HIDE DEF c
    <2>2. \A q \in Node : commits'[q] \in SUBSET CommitMsg
      BY <1>1, <1>2, <2>1
    <2> QED
      BY Zenon, <1>1, <2>2
  <1>6. call' \in [Node -> Calls] /\ \A m \in Node : call'[m] = IF m = n THEN NoCall ELSE call[m]
    BY <1>1, <1>2, Constants
  <1>7. TypeOK'
    BY Zenon, <1>1, <1>2, <1>4, <1>5, <1>6 DEF TypeOK, Calls, Values
  <1>8. \A m \in Node : LifeInv(m)' /\ CallInv(m)'
    BY ZenonT(30), <1>1, <1>2, <1>4, <1>6, Constants DEF LifeInv, CallInv
  <1>9. \A m \in Node : Shown(committed[m], counter[m], store[m], Range(applied[m]))'
    BY Zenon, <1>1, <1>4, ShownKept
  <1> QED
    BY ZenonT(30), <1>4, <1>7, <1>8, <1>9 DEF IInv

(* The application reads a notification and applies its value. *)
LEMMA ApplyStep ==
  ASSUME IInv, NEW n \in Node, ApplyNext(n)
  PROVE  IInv'
  <1> DEFINE i == Head(commitCh[n])
             done == Range(applied[n])
             w == committed[n]
  <1>1. /\ commitCh[n] # <<>>
        /\ commitCh' = [commitCh EXCEPT ![n] = Tail(@)]
        /\ applied' = [applied EXCEPT ![n] = Append(@, i)]
        /\ counter' = [counter EXCEPT ![n] = CounterApply(@, w[i])]
        /\ store' = [store EXCEPT ![n] = KVStoreApply(@, w[i])]
        /\ UNCHANGED <<life, messageLoop, call, nextInstance, vote, commits, committed, log,
                       dropped, lost, panicked>>
    BY DEF ApplyNext, nodeVars
  <1>2. /\ TypeOK /\ w \in Values /\ counter \in [Node -> Int64] /\ store \in [Node -> Data]
        /\ applied \in [Node -> Seq(Instance)] /\ commitCh \in [Node -> Seq(Instance)]
        /\ \A m \in Node : LifeInv(m) /\ CallInv(m) /\ ToldInv(m)
    BY ZenonT(30) DEF IInv, TypeOK, Values, Int64, Data
  <1>3. /\ i \in Instance /\ i \in Range(Told(n)) /\ i \notin done /\ done \in SUBSET Instance
    BY Zenon, <1>1, <1>2, ConcatSet DEF ToldInv, Told
  <1>4. w[i] # Absent
    <2>1. i \in Committed(n)
      BY Zenon, <1>2, <1>3 DEF ToldInv
    <2> QED
      BY Zenon, <2>1 DEF Committed
  <1>5. /\ Shown(w, CounterApply(counter[n], w[i]), KVStoreApply(store[n], w[i]), done \cup {i})
        /\ CounterApply(counter[n], w[i]) \in Int64
        /\ KVStoreApply(store[n], w[i]) \in Data
    <2>1. Shown(w, counter[n], store[n], done)
      BY DEF IInv
    <2>2. store[n] \in Data
      BY <1>2
    <2> QED
      BY Zenon, <1>2, <1>3, <1>4, <2>1, <2>2, ShownGrows
  <1>6. /\ commitCh' \in [Node -> Seq(Instance)] /\ applied' \in [Node -> Seq(Instance)]
        /\ commitCh'[n] = Tail(commitCh[n]) /\ applied'[n] = Append(applied[n], i)
        /\ \A m \in Node \ {n} : commitCh'[m] = commitCh[m] /\ applied'[m] = applied[m]
    <2>1. Tail(commitCh[n]) \in Seq(Instance) /\ Append(applied[n], i) \in Seq(Instance)
      BY <1>1, <1>2, <1>3
    <2> HIDE DEF i
    <2> QED
      BY <1>1, <1>2, <2>1
  <1>7. /\ counter' \in [Node -> Int64] /\ store' \in [Node -> Data]
        /\ counter'[n] = CounterApply(counter[n], w[i])
        /\ store'[n] = KVStoreApply(store[n], w[i])
        /\ \A m \in Node \ {n} : counter'[m] = counter[m] /\ store'[m] = store[m]
    <2> HIDE DEF i
    <2> QED
      BY Zenon, <1>1, <1>2, <1>5
  <1>8. TypeOK'
    BY ZenonT(30), <1>1, <1>2, <1>6, <1>7 DEF TypeOK, Int64, Data
  <1>9. \A m \in Node : LifeInv(m)' /\ CallInv(m)'
    BY Zenon, <1>1, <1>2 DEF LifeInv, CallInv
  <1>10. \A m \in Node : Told(m)' = Told(m)
    <2>1. Append(applied[n], i) \o Tail(commitCh[n]) = applied[n] \o commitCh[n]
      BY <1>1, <1>2, MoveTold
    <2> QED
      BY ZenonT(30), <1>6, <2>1 DEF Told
  <1>11. \A m \in Node : ToldInv(m)'
    BY Zenon, <1>1, <1>2, <1>10 DEF ToldInv, Committed
  <1>12. ASSUME NEW m \in Node PROVE Shown(committed[m], counter[m], store[m], Range(applied[m]))'
    <2>1. CASE m = n
      <3>1. Range(Append(applied[n], i)) = done \cup {i}
        BY <1>2, <1>3, AppendSet
      <3> QED
        BY Zenon, <1>1, <1>5, <1>6, <1>7, <2>1, <3>1
    <2>2. CASE m # n
      BY <1>1, <1>6, <1>7, <2>2 DEF IInv
    <2> QED
      BY <2>1, <2>2
  <1> QED
    BY Zenon, <1>8, <1>9, <1>11, <1>12 DEF IInv

LEMMA InitIInv == Init => IInv
  <1> SUFFICES ASSUME Init PROVE IInv
    OBVIOUS
  <1>1. TypeOK
    <2>1. 0 \in Int64 /\ 1 \in 1 .. MaxInstance + 1 /\ NoCall \in Calls
      BY ReplicaAssumption, Constants DEF Int64
    <2>2. [k \in Key |-> Absent] \in Data
      BY DEF Data
    <2>3. <<>> \in Seq(Instance) /\ [j \in Instance |-> Absent] \in Values
      BY DEF Values
    <2> QED
      BY <2>1, <2>2, <2>3 DEF Init, TypeOK, Int64, Data, Calls, Values
  <1>2. ASSUME NEW n \in Node
        PROVE  /\ LifeInv(n) /\ CallInv(n)
               /\ applied[n] = <<>> /\ commitCh[n] = <<>> /\ Committed(n) = {} /\ dropped[n] = {}
               /\ counter[n] = 0 /\ store[n] = [k \in Key |-> Absent]
    BY Constants DEF Init, LifeInv, CallInv, Committed
  <1>3. Range(<<>>) = {} /\ IsInjective(<<>>) /\ <<>> \o <<>> = <<>>
    BY DEF Range, IsInjective
  <1>4. ASSUME NEW n \in Node
        PROVE  ToldInv(n) /\ Shown(committed[n], counter[n], store[n], Range(applied[n]))
    BY Zenon, <1>2, <1>3, ShownFirst DEF ToldInv, Told
  <1> QED
    BY <1>1, <1>2, <1>4 DEF IInv

LEMMA StepIInv == IInv /\ [Next]_vars => IInv'
  <1> SUFFICES ASSUME IInv, [Next]_vars PROVE IInv'
    OBVIOUS
  <1>1. CASE UNCHANGED vars
    <2>1. /\ TypeOK' /\ \A m \in Node : LifeInv(m)' /\ CallInv(m)'
      BY Zenon, <1>1 DEF vars, IInv, TypeOK, LifeInv, CallInv
    <2>2. UNCHANGED <<committed, commitCh, dropped, panicked, appVars>>
      BY <1>1 DEF vars, appVars
    <2> QED
      BY ZenonT(30), <2>1, <2>2, Untouched DEF IInv
  <1>2. ASSUME NEW n \in Node, NEW m \in commits[n], ReceiveCommit(n, m) \/ LoseCommit(n, m)
        PROVE  IInv'
    BY <1>2, ReceiveStep, LoseStep
  <1>3. ASSUME NEW n \in Node, NEW Q \in Quorum, Accepted(n, Q) PROVE IInv'
    BY <1>3, AcceptedStep
  <1>4. ASSUME NEW n \in Node,
               Propose(n) \/ broadcastCommit(n) \/ ProposeFails(n) \/ ApplyNext(n)
        PROVE  IInv'
    BY <1>4, ProposeStep, BroadcastStep, FailStep, ApplyStep
  <1>5. ASSUME NEW n \in Node,
               \/ Start(n) \/ Quit(n) \/ EndOfInput(n) \/ MessageLoopExits(n)
               \/ CloseStorage(n) \/ CloseChannel(n) \/ Exit(n)
        PROVE  IInv'
    BY <1>5, LifeStep
  <1> QED
    BY Zenon, <1>1, <1>2, <1>3, <1>4, <1>5 DEF Next

LEMMA Invariance == Spec => []IInv
  BY InitIInv, StepIInv, PTL DEF Spec
-----------------------------------------------------------------------------
(* The state of every node, channel, counter and store stays in its type,     *)
(* and the counter an int64, whatever commands are typed (node.go,            *)
(* counter/main.go:45-56, kv-store/main.go:46-72).                            *)
THEOREM StateIsTyped == Spec => []TypeOK
  <1>1. IInv => TypeOK
    BY DEF IInv
  <1> QED
    BY <1>1, Invariance, PTL

(* The application hears of every committed instance exactly once, or it was  *)
(* dropped at a full channel, for any capacity (node.go:282-317).             *)
THEOREM EveryCommitToldOnce == Spec => []NotifiedOnce
  <1>1. IInv => NotifiedOnce
    <2> SUFFICES ASSUME IInv, NEW n \in Node
                 PROVE  LET told == applied[n] \o commitCh[n]
                        IN  /\ Committed(n) = Range(told) \cup dropped[n]
                            /\ Range(told) \cap dropped[n] = {}
                            /\ Len(told) = Cardinality(Range(told))
      BY Zenon DEF NotifiedOnce
    <2>1. Told(n) \in Seq(Instance)
      <3>1. applied[n] \in Seq(Instance) /\ commitCh[n] \in Seq(Instance)
        BY Zenon DEF IInv, TypeOK
      <3> QED
        BY <3>1 DEF Told
    <2>2. ToldInv(n)
      BY DEF IInv
    <2>3. Len(Told(n)) = Cardinality(Range(Told(n)))
      BY <2>1, <2>2, DistinctCount DEF ToldInv
    <2> QED
      BY <2>2, <2>3 DEF ToldInv, Told
  <1> QED
    BY <1>1, Invariance, PTL

(* No goroutine of a node sends on commitCh once Close has closed it          *)
(* (node.go:212-223).                                                         *)
THEOREM CloseNeverPanics == Spec => []NoPanic
  <1>1. IInv => NoPanic
    BY ZenonT(30) DEF IInv, LifeInv, NoPanic
  <1> QED
    BY <1>1, Invariance, PTL

(* Two replicas that have applied the same instances with the same values, in *)
(* whatever order, show the same total, overflows included, and the same      *)
(* value of every key that at most one of these instances writes              *)
(* (counter/main.go:51-56, kv-store/main.go:60-72).  No agreement between the *)
(* replicas is assumed of the other instances, nor of the order.              *)
THEOREM ReplicasShowTheSame == Spec => []ReplicasAgree
  <1>1. IInv => ReplicasAgree
    <2> SUFFICES ASSUME IInv, NEW n \in Node, NEW p \in Node,
                        Range(applied[n]) = Range(applied[p]),
                        \A i \in Range(applied[n]) : committed[n][i] = committed[p][i]
                 PROVE  /\ counter[n] = counter[p]
                        /\ \A k \in Key :
                             Cardinality(WritersOf(committed[n], k, Range(applied[n]))) <= 1
                               => store[n][k] = store[p][k]
      BY DEF ReplicasAgree, WritersOf
    <2>1. /\ Range(applied[n]) \in SUBSET Instance
          /\ committed[n] \in Values /\ committed[p] \in Values
      BY Zenon, AppliedCommitted DEF IInv, TypeOK, Values
    <2>2. /\ Shown(committed[n], counter[n], store[n], Range(applied[n]))
          /\ Shown(committed[p], counter[p], store[p], Range(applied[n]))
      BY Zenon DEF IInv
    <2>3. Shown(committed[n], counter[p], store[p], Range(applied[n]))
      BY Zenon, <2>1, <2>2, ShownStays
    <2> QED
      BY <2>1, <2>2, <2>3, ShownAlike
  <1> QED
    BY <1>1, Invariance, PTL
=============================================================================
