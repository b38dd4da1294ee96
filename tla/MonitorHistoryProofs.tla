------------------------ MODULE MonitorHistoryProofs ------------------------
(***************************************************************************)
(* What the telemetry monitor reports is a prefix of what was pushed, for  *)
(* every set of events, queue capacity and counter width, and every        *)
(* history of fewer events than a counter has values.                      *)
(***************************************************************************)
EXTENDS MonitorHistory, FiniteSetTheorems, WellFoundedInduction, TLAPS

-----------------------------------------------------------------------------
(* Sums of sequences.                                                      *)

(* Every nonempty set of natural numbers has a least element: induction as *)
(* a statement about sets.                                                 *)
LEMMA LeastNumber ==
  ASSUME NEW T, T \subseteq Nat, T # {}
  PROVE  \E x \in T : \A y \in T : x <= y
<1>1. IsWellFoundedOn(OpToRel(<, Nat), Nat)
  BY NatLessThanWellFounded
<1>2. PICK x \in T : \A y \in T : ~ (<<y, x>> \in OpToRel(<, Nat))
  BY <1>1, WFMin
<1>3. ASSUME NEW y \in T PROVE x <= y
  <2>1. ~ (y < x)
    BY <1>2, <1>3 DEF OpToRel
  <2> QED
    BY <2>1
<1> QED
  BY <1>3

\* The partial sums of s up to n.
PartialSums(s, n, sum) ==
  sum = [i \in 0..n |-> IF i = 0 THEN 0 ELSE sum[i-1] + s[i]]

(* The partial sums of a sequence exist ...                                *)
LEMMA PartialSumsExist ==
  ASSUME NEW s
  PROVE  \A n \in Nat : \E sum : PartialSums(s, n, sum)
<1> DEFINE T == {n \in Nat : ~ \E sum : PartialSums(s, n, sum)}
<1> SUFFICES ASSUME T # {} PROVE FALSE
  OBVIOUS
<1>1. PICK n \in T : \A m \in T : n <= m
  <2>1. T \subseteq Nat
    OBVIOUS
  <2> HIDE DEF T
  <2> QED
    BY <2>1, LeastNumber
<1>2. CASE n = 0
  <2>1. PartialSums(s, 0, [i \in 0..0 |-> 0])
    BY DEF PartialSums
  <2> QED
    BY <1>2, <2>1
<1>3. CASE n # 0
  <2>1. n-1 \in Nat /\ n-1 \notin T
    BY <1>1, <1>3
  <2>2. PICK sum : PartialSums(s, n-1, sum)
    BY <2>1
  <2> DEFINE next == [i \in 0..n |-> IF i = 0 THEN 0 ELSE sum[i-1] + s[i]]
  <2>3. \A i \in 0..n-1 : next[i] = sum[i]
    BY <2>2 DEF PartialSums
  <2>4. next = [i \in 0..n |-> IF i = 0 THEN 0 ELSE next[i-1] + s[i]]
    <3>1. \A i \in 0..n : i # 0 => i-1 \in 0..n-1
      BY <2>1
    <3>2. \A i \in 0..n : i # 0 => next[i-1] = sum[i-1]
      BY <2>3, <3>1
    <3> QED
      BY <3>2
  <2>5. PartialSums(s, n, next)
    BY <2>4 DEF PartialSums
  <2> QED
    BY <2>5
<1> QED
  BY <1>2, <1>3

\* s and t agree up to n.
SameUpTo(s, t, n) == \A i \in 1..n : s[i] = t[i]

(* ... and two of them agree as far as both go, when the sequences do.     *)
LEMMA PartialSumsAgree ==
  ASSUME NEW s, NEW t, NEW m \in Nat, NEW n \in Nat, m <= n,
         NEW f, NEW g, PartialSums(s, m, f), PartialSums(t, n, g),
         SameUpTo(s, t, m)
  PROVE  \A i \in 0..m : f[i] = g[i]
<1> DEFINE T == {i \in 0..m : f[i] # g[i]}
<1> SUFFICES ASSUME T # {} PROVE FALSE
  OBVIOUS
<1>1. PICK i \in T : \A j \in T : i <= j
  <2>1. T \subseteq Nat
    OBVIOUS
  <2> HIDE DEF T
  <2> QED
    BY <2>1, LeastNumber
<1>2. CASE i = 0
  BY <1>2, 0 \in 0..m, 0 \in 0..n DEF PartialSums
<1>3. CASE i # 0
  <2>1. i \in 0..m /\ i \in 0..n /\ i \in 1..m /\ i-1 \in 0..m /\ i-1 \notin T
    BY <1>1, <1>3
  <2>2. f[i-1] = g[i-1]
    BY <2>1
  <2>3. f[i] = f[i-1] + s[i] /\ g[i] = g[i-1] + t[i]
    BY <2>1, <1>3 DEF PartialSums
  <2>4. s[i] = t[i]
    BY <2>1 DEF SameUpTo
  <2> QED
    BY <2>1, <2>2, <2>3, <2>4
<1> QED
  BY <1>2, <1>3

(* SumOf is the last of the partial sums.                                  *)
LEMMA SumOfPartial ==
  ASSUME NEW s \in Seq(Nat)
  PROVE  \E sum : PartialSums(s, Len(s), sum) /\ SumOf(s) = sum[Len(s)]
<1>1. Len(s) \in Nat
  OBVIOUS
<1>2. \E sum : PartialSums(s, Len(s), sum)
  BY <1>1, PartialSumsExist
<1> DEFINE sum == CHOOSE f : PartialSums(s, Len(s), f)
<1>3. PartialSums(s, Len(s), sum)
  BY <1>2
<1>4. SumOf(s) = sum[Len(s)]
  BY DEF SumOf, PartialSums
<1> QED
  BY <1>3, <1>4

(* The sum of the empty sequence.                                          *)
LEMMA SumOfEmpty == SumOf(<<>>) = 0
<1>1. <<>> \in Seq(Nat) /\ Len(<<>>) = 0
  OBVIOUS
<1>2. PICK sum : PartialSums(<<>>, 0, sum) /\ SumOf(<<>>) = sum[0]
  BY <1>1, SumOfPartial
<1> QED
  BY <1>2 DEF PartialSums

(* A partial sum of natural numbers is a natural number.                   *)
LEMMA PartialSumsType ==
  ASSUME NEW s \in Seq(Nat), NEW sum, PartialSums(s, Len(s), sum)
  PROVE  \A i \in 0..Len(s) : sum[i] \in Nat
<1> DEFINE T == {i \in 0..Len(s) : sum[i] \notin Nat}
<1> SUFFICES ASSUME T # {} PROVE FALSE
  OBVIOUS
<1>1. PICK i \in T : \A j \in T : i <= j
  <2>1. T \subseteq Nat
    OBVIOUS
  <2> HIDE DEF T
  <2> QED
    BY <2>1, LeastNumber
<1>2. CASE i = 0
  BY <1>2, 0 \in 0..Len(s) DEF PartialSums
<1>3. CASE i # 0
  <2>1. i \in 1..Len(s) /\ i-1 \in 0..Len(s) /\ i-1 \notin T
    BY <1>1, <1>3
  <2>2. sum[i-1] \in Nat /\ s[i] \in Nat
    BY <2>1
  <2>3. sum[i] = sum[i-1] + s[i]
    BY <2>1, <1>3 DEF PartialSums
  <2> QED
    BY <2>2, <2>3
<1> QED
  BY <1>2, <1>3

(* The sum of a sequence of natural numbers.                               *)
LEMMA SumOfType == \A s \in Seq(Nat) : SumOf(s) \in Nat
<1> SUFFICES ASSUME NEW s \in Seq(Nat) PROVE SumOf(s) \in Nat
  OBVIOUS
<1>1. PICK sum : PartialSums(s, Len(s), sum) /\ SumOf(s) = sum[Len(s)]
  BY SumOfPartial
<1>2. Len(s) \in 0..Len(s)
  OBVIOUS
<1> QED
  BY <1>1, <1>2, PartialSumsType

(* One more number adds to the sum.                                        *)
LEMMA SumOfAppend ==
  ASSUME NEW s \in Seq(Nat), NEW t \in Seq(Nat), Len(t) = Len(s) + 1,
         \A i \in 1..Len(s) : t[i] = s[i]
  PROVE  SumOf(t) = SumOf(s) + t[Len(t)]
<1>1. PICK f : PartialSums(s, Len(s), f) /\ SumOf(s) = f[Len(s)]
  BY SumOfPartial
<1>2. PICK g : PartialSums(t, Len(t), g) /\ SumOf(t) = g[Len(t)]
  BY SumOfPartial
<1>3. /\ Len(s) \in Nat /\ Len(t) \in Nat /\ Len(s) <= Len(t)
      /\ Len(s) \in 0..Len(s) /\ Len(t) \in 0..Len(t) /\ Len(t) # 0 /\ Len(t) - 1 = Len(s)
  OBVIOUS
<1>4. f[Len(s)] = g[Len(s)]
  <2>1. \A i \in 1..Len(s) : s[i] = t[i]
    OBVIOUS
  <2>2. PartialSums(s, Len(s), f) /\ PartialSums(t, Len(t), g)
    BY <1>1, <1>2
  <2>3. SameUpTo(s, t, Len(s))
    BY <2>1 DEF SameUpTo
  <2>4. \A i \in 0..Len(s) : f[i] = g[i]
    BY <1>3, <2>2, <2>3, PartialSumsAgree
  <2> QED
    BY <1>3, <2>4
<1>5. g[Len(t)] = g[Len(s)] + t[Len(t)]
  BY <1>2, <1>3 DEF PartialSums
<1> QED
  BY <1>1, <1>2, <1>4, <1>5

-----------------------------------------------------------------------------
(* Counters.                                                               *)

(* A remainder is determined by its equation.                              *)
LEMMA ModUnique ==
  ASSUME NEW x \in Nat, NEW q \in Int, NEW r \in 0..CounterMod-1,
         x = CounterMod * q + r
  PROVE  x % CounterMod = r
  BY MonitorAssumption, SMTT(30)

(* Adding to a counter that has wrapped is adding to the total it stands   *)
(* for.                                                                    *)
LEMMA ModAdd ==
  ASSUME NEW a \in Nat, NEW b \in Nat
  PROVE  ((a % CounterMod) + b) % CounterMod = (a + b) % CounterMod
<1> DEFINE q == a \div CounterMod
           r == a % CounterMod
           x == r + b
           p == x \div CounterMod
           y == x % CounterMod
<1>1. q \in Int /\ r \in 0..CounterMod-1 /\ a = CounterMod * q + r
  BY MonitorAssumption, SMTT(30)
<1> HIDE DEF q, r
<1>2. x \in Nat
  BY <1>1, MonitorAssumption
<1> HIDE DEF x
<1>3. p \in Int /\ y \in 0..CounterMod-1 /\ x = CounterMod * p + y
  BY <1>2, MonitorAssumption, SMTT(30)
<1> HIDE DEF p, y
<1>4. a + b = CounterMod * q + x
  BY <1>1, MonitorAssumption, SMTT(30) DEF x
<1>5. CounterMod * q + x = CounterMod * (q + p) + y
  BY <1>1, <1>3, MonitorAssumption, SMTT(30)
<1>6. a + b \in Nat /\ q + p \in Int
  BY <1>1, <1>3
<1>7. (a + b) % CounterMod = y
  BY <1>3, <1>4, <1>5, <1>6, ModUnique
<1> QED
  BY <1>7 DEF x, y, r

(* A counter is a counter after an addition.                               *)
LEMMA ModType == \A a \in Nat : a % CounterMod \in Counter
  BY MonitorAssumption DEF Counter

(* Counters below the width are not wrapped.                               *)
LEMMA ModSmall == \A a \in Counter : a % CounterMod = a
  BY MonitorAssumption, ModUnique DEF Counter

-----------------------------------------------------------------------------
(* What one more event adds to the aggregate.                              *)

(* The fields of an event.                                                 *)
LEMMA EventType ==
  \A e \in Events : e.size \in Nat /\ e.latency \in Nat /\ e.dropped \in BOOLEAN
  BY MonitorAssumption

(* A function on 1..n is a sequence of length n.                           *)
LEMMA FunctionIsSeq ==
  ASSUME NEW n \in Nat, NEW f \in [1..n -> Nat]
  PROVE  f \in Seq(Nat) /\ Len(f) = n
<1>1. f \in Seq(Nat)
  OBVIOUS
<1> QED
  BY <1>1

(* The contributions of the events are natural numbers.                    *)
LEMMA ContributionsType ==
  ASSUME NEW s \in Seq(Events)
  PROVE  /\ Sizes(s) \in Seq(Nat) /\ Len(Sizes(s)) = Len(s)
         /\ Latencies(s) \in Seq(Nat) /\ Len(Latencies(s)) = Len(s)
<1>1. /\ DOMAIN s = 1..Len(s) /\ Len(s) \in Nat
      /\ \A i \in 1..Len(s) : s[i] \in Events
  OBVIOUS
<1>2. /\ Sizes(s) \in [1..Len(s) -> Nat]
      /\ Latencies(s) \in [1..Len(s) -> Nat]
  BY <1>1, EventType DEF Sizes, Latencies
<1> QED
  BY <1>1, <1>2, FunctionIsSeq

(* The totals of a sequence of events are natural numbers, and no more     *)
(* events were delivered than there are.                                   *)
LEMMA TotalsType ==
  ASSUME NEW s \in Seq(Events)
  PROVE  /\ Bytes(s) \in Nat
         /\ Nanoseconds(s) \in Nat
         /\ IsFiniteSet(Delivered(s))
         /\ Successes(s) \in 0..Len(s)
<1>1. Bytes(s) \in Nat /\ Nanoseconds(s) \in Nat
  BY ContributionsType, SumOfType DEF Bytes, Nanoseconds
<1>2. DOMAIN s = 1..Len(s) /\ Len(s) \in Nat
  OBVIOUS
<1>3. IsFiniteSet(1..Len(s)) /\ Cardinality(1..Len(s)) = Len(s)
  <2>1. 1 \in Int /\ Len(s) \in Int
    BY <1>2
  <2> QED
    BY <1>2, <2>1, FS_Interval
<1>4. Delivered(s) \subseteq 1..Len(s)
  BY <1>2 DEF Delivered
<1>5. /\ IsFiniteSet(Delivered(s))
      /\ Cardinality(Delivered(s)) <= Len(s)
  BY <1>3, <1>4, FS_Subset
<1>6. Cardinality(Delivered(s)) \in Nat
  BY <1>5, FS_CardinalityType
<1> QED
  BY <1>1, <1>2, <1>5, <1>6 DEF Successes

(* The aggregate of one more event.                                        *)
LEMMA TotalsAppend ==
  ASSUME NEW s \in Seq(Events), NEW e \in Events
  PROVE  LET t == Append(s, e) IN
         /\ Len(t) = Len(s) + 1
         /\ e.dropped => /\ Bytes(t) = Bytes(s)
                         /\ Nanoseconds(t) = Nanoseconds(s)
                         /\ Successes(t) = Successes(s)
         /\ ~e.dropped => /\ Bytes(t) = Bytes(s) + e.size
                          /\ Nanoseconds(t) = Nanoseconds(s) + e.latency
                          /\ Successes(t) = Successes(s) + 1
<1> DEFINE t == Append(s, e)
           n == Len(s)
<1>1. /\ t \in Seq(Events) /\ Len(t) = n + 1 /\ n \in Nat
      /\ DOMAIN t = 1..n+1 /\ DOMAIN s = 1..n
      /\ t[n+1] = e /\ \A i \in 1..n : t[i] = s[i]
  OBVIOUS
<1> HIDE DEF t, n
<1>2. Sizes(t)[n+1] = IF e.dropped THEN 0 ELSE e.size
  BY <1>1 DEF Sizes
<1>3. Latencies(t)[n+1] = IF e.dropped THEN 0 ELSE e.latency
  BY <1>1 DEF Latencies
<1>4. \A i \in 1..n : Sizes(t)[i] = Sizes(s)[i] /\ Latencies(t)[i] = Latencies(s)[i]
  BY <1>1 DEF Sizes, Latencies
<1>5. Bytes(t) = Bytes(s) + Sizes(t)[n+1]
  <2>1. /\ Sizes(s) \in Seq(Nat) /\ Len(Sizes(s)) = n
        /\ Sizes(t) \in Seq(Nat) /\ Len(Sizes(t)) = n + 1
    BY <1>1, ContributionsType DEF n
  <2> QED
    BY <1>4, <2>1, SumOfAppend DEF Bytes
<1>6. Nanoseconds(t) = Nanoseconds(s) + Latencies(t)[n+1]
  <2>1. /\ Latencies(s) \in Seq(Nat) /\ Len(Latencies(s)) = n
        /\ Latencies(t) \in Seq(Nat) /\ Len(Latencies(t)) = n + 1
    BY <1>1, ContributionsType DEF n
  <2> QED
    BY <1>4, <2>1, SumOfAppend DEF Nanoseconds
<1>7. Bytes(s) \in Nat /\ Nanoseconds(s) \in Nat
  BY TotalsType
<1>8. CASE e.dropped
  <2>1. Delivered(t) = Delivered(s)
    BY <1>1, <1>8 DEF Delivered
  <2> QED
    BY <1>1, <1>2, <1>3, <1>5, <1>6, <1>7, <1>8, <2>1 DEF Successes, t, n
<1>9. CASE ~e.dropped
  <2>1. Delivered(t) = Delivered(s) \cup {n+1} /\ n+1 \notin Delivered(s)
    BY <1>1, <1>9 DEF Delivered
  <2>2. IsFiniteSet(Delivered(s))
    BY TotalsType
  <2>3. Cardinality(Delivered(t)) = Cardinality(Delivered(s)) + 1
    BY <2>1, <2>2, FS_AddElement
  <2> QED
    BY <1>1, <1>2, <1>3, <1>5, <1>6, <1>9, <2>3 DEF Successes, t, n
<1> QED
  BY <1>8, <1>9

-----------------------------------------------------------------------------
(* The popped events.                                                      *)

(* A prefix of the history stays one when an event is accepted, ...        *)
LEMMA PrefixAppend ==
  ASSUME NEW s \in Seq(Events), NEW e \in Events, NEW n \in 0..Len(s)
  PROVE  SubSeq(Append(s, e), 1, n) = SubSeq(s, 1, n)
  OBVIOUS

(* ... and a prefix grows by the next event.                               *)
LEMMA PrefixNext ==
  ASSUME NEW s \in Seq(Events), NEW n \in Nat, n < Len(s)
  PROVE  /\ SubSeq(s, 1, n+1) = Append(SubSeq(s, 1, n), s[n+1])
         /\ s[n+1] \in Events
  OBVIOUS

(* A prefix has the length asked for.                                      *)
LEMMA PrefixType ==
  ASSUME NEW s \in Seq(Events), NEW n \in 0..Len(s)
  PROVE  SubSeq(s, 1, n) \in Seq(Events) /\ Len(SubSeq(s, 1, n)) = n
  OBVIOUS

(* The popped events are as many as were accepted and are not queued.      *)
LEMMA PoppedType ==
  ASSUME TypeOK, Queued
  PROVE  /\ Popped \in Seq(Events)
         /\ Len(Popped) = Len(log) - Len(queue)
         /\ Len(Popped) \in 0..MaxEvents
<1> DEFINE n == Len(log) - Len(queue)
<1>1. log \in Seq(Events) /\ queue \in Seq(Events) /\ Len(log) <= MaxEvents
  BY DEF TypeOK, Queued
<1>2. n \in 0..Len(log) /\ n \in 0..MaxEvents
  BY <1>1, MaxEventsAssumption DEF Queued
<1> HIDE DEF n
<1>3. SubSeq(log, 1, n) \in Seq(Events) /\ Len(SubSeq(log, 1, n)) = n
  BY <1>1, <1>2, PrefixType
<1> QED
  BY <1>2, <1>3 DEF Popped, n

-----------------------------------------------------------------------------
(* The inductive invariant holds initially.                                *)
LEMMA InitIInv == HInit => IInv
<1> SUFFICES ASSUME HInit PROVE IInv
  OBVIOUS
<1> USE DEF HInit, Init, Queue!Init
<1>1. 0 \in Counter
  BY MonitorAssumption DEF Counter
<1>2. TypeOK
  <2>1. queue \in Seq(Events) /\ Len(queue) = 0
    OBVIOUS
  <2>2. ZeroStats \in AggregatedMetrics
    BY <1>1 DEF ZeroStats, AggregatedMetrics
  <2>3. cum \in Counters
    BY <1>1 DEF Counters
  <2> QED
    <3>1. stats \in AggregatedMetrics /\ seen \in AggregatedMetrics
      BY <2>2
    <3>2. Len(queue) <= Capacity
      BY <2>1, MonitorAssumption
    <3>3. running \in BOOLEAN /\ due \in BOOLEAN /\ mutex \in BOOLEAN
      BY Zenon
    <3>4. opc \in {"out", "join"}
          /\ wpc \in {"none", "loop", "drain", "check", "update", "exited"}
      OBVIOUS
    <3> QED
      BY <2>1, <2>3, <3>1, <3>2, <3>3, <3>4, Zenon DEF TypeOK
<1>3. Queued
  BY MaxEventsAssumption DEF Queued
<1>4. Threads
  BY DEF Threads
<1>5. SubSeq(log, 1, 0) = <<>> /\ Popped = <<>> /\ Len(<<>>) = 0
  BY DEF Popped
<1>6. Successes(<<>>) = 0
  <2>1. <<>> \in Seq(Events)
    OBVIOUS
  <2>2. Successes(<<>>) \in 0..0
    BY <1>5, <2>1, TotalsType
  <2> QED
    BY <2>2
<1>7. Bytes(<<>>) = 0 /\ Nanoseconds(<<>>) = 0
  <2>1. Sizes(<<>>) = <<>> /\ Latencies(<<>>) = <<>>
    BY DEF Sizes, Latencies
  <2> QED
    BY <2>1, SumOfEmpty DEF Bytes, Nanoseconds
<1>8. 0 % CounterMod = 0
  BY <1>1, ModSmall
<1>9. Accounted
  BY <1>5, <1>6, <1>7, <1>8 DEF Accounted, ZeroStats
<1>10. Reported
  <2>1. Report(ZeroStats) = Aggregate(<<>>)
    BY <1>5, <1>6, <1>7, <1>8 DEF Report, Aggregate, ZeroStats
  <2>2. /\ stats = ZeroStats /\ seen = ZeroStats
        /\ stats.packets <= Len(Popped) /\ seen.packets <= stats.packets
        /\ SubSeq(log, 1, stats.packets) = <<>> /\ SubSeq(log, 1, seen.packets) = <<>>
    BY <1>5 DEF ZeroStats
  <2> QED
    BY <1>5, <2>1, <2>2, Zenon DEF Reported
<1> QED
  BY <1>2, <1>3, <1>4, <1>9, <1>10 DEF IInv

-----------------------------------------------------------------------------
(* Steps that leave the counters, stats_ and what was read alone, and pop  *)
(* nothing, keep what is said of them.                                     *)
LEMMA Frame ==
  ASSUME IInv, Popped' = Popped, UNCHANGED <<cum, stats>>,
         (wpc' = "update") <=> (wpc = "update"),
         \A n \in 0..Len(Popped) : SubSeq(log', 1, n) = SubSeq(log, 1, n),
         seen' = seen \/ (seen' = stats /\ wpc # "update")
  PROVE  Accounted' /\ Reported'
<1>1. Len(Popped) \in Nat
  BY PoppedType DEF IInv
<1>2. Accounted'
  BY Zenon DEF IInv, Accounted
<1>3. stats.packets \in 0..Len(Popped) /\ seen.packets \in 0..Len(Popped)
  <2>1. stats.packets \in Nat /\ seen.packets \in Nat
    BY DEF IInv, TypeOK, Counter, AggregatedMetrics
  <2>2. stats.packets <= Len(Popped) /\ seen.packets <= stats.packets
    BY Zenon DEF IInv, Reported
  <2> QED
    BY <1>1, <2>1, <2>2
<1>4. Reported'
  <2>1. /\ SubSeq(log', 1, stats.packets) = SubSeq(log, 1, stats.packets)
        /\ SubSeq(log', 1, seen.packets) = SubSeq(log, 1, seen.packets)
    BY <1>3
  <2>2. CASE seen' = seen
    BY <2>1, <2>2 DEF IInv, Reported
  <2>3. CASE seen' = stats /\ wpc # "update"
    <3>1. /\ stats' = stats /\ wpc' # "update"
          /\ Report(stats) = Aggregate(SubSeq(log, 1, stats.packets))
          /\ stats.packets <= Len(Popped)
      BY <2>3 DEF IInv, Reported
    <3>2. /\ stats'.packets <= Len(Popped)' /\ seen'.packets <= stats'.packets
      BY <1>1, <1>3, <2>3, <3>1
    <3>3. /\ Report(stats') = Aggregate(SubSeq(log', 1, stats'.packets))
          /\ Report(seen') = Aggregate(SubSeq(log', 1, seen'.packets))
      BY <2>1, <2>3, <3>1
    <3> QED
      BY <3>2, <3>3 DEF Reported
  <2> QED
    BY <2>2, <2>3
<1> QED
  BY <1>2, <1>4

(* In particular steps that change neither the queue nor the history.      *)
LEMMA Quiet ==
  ASSUME IInv, UNCHANGED <<queue, log, cum, stats>>,
         unacked' \in Nat, unseen' \in Nat,
         (wpc' = "update") <=> (wpc = "update"),
         seen' = seen \/ (seen' = stats /\ wpc # "update")
  PROVE  Queued' /\ Accounted' /\ Reported'
<1>1. Popped' = Popped /\ \A n \in 0..Len(Popped) : SubSeq(log', 1, n) = SubSeq(log, 1, n)
  BY DEF Popped
<1>2. Queued'
  BY DEF IInv, Queued
<1> QED
  BY <1>1, <1>2, Frame

(* An accepted event is the last of the history and of the queue.          *)
LEMMA PushIInv ==
  ASSUME IInv, Len(log) < MaxEvents,
         NEW event \in Events, Push(event), log' = Append(log, event)
  PROVE  IInv'
<1> USE DEF Push, Queue!Push
<1>1. /\ log \in Seq(Events) /\ queue \in Seq(Events)
      /\ Len(queue) \in Nat /\ Len(log) \in Nat /\ Len(queue) <= Len(log)
      /\ unacked \in Nat /\ unseen \in Nat
  BY DEF IInv, TypeOK, Queued
<1>2. /\ queue' \in Seq(Events) /\ Len(queue') = Len(queue) + 1
      /\ log' \in Seq(Events) /\ Len(log') = Len(log) + 1
      /\ \A i \in 1..Len(queue) : queue'[i] = queue[i]
      /\ \A i \in 1..Len(log) : log'[i] = log[i]
      /\ queue'[Len(queue) + 1] = event /\ log'[Len(log) + 1] = event
  BY <1>1
<1>3. TypeOK'
  <2>1. Len(queue') <= Capacity
    BY <1>1, <1>2, MonitorAssumption
  <2> QED
    BY <1>2, <2>1, Zenon DEF IInv, TypeOK
<1>4. Queued'
  <2>1. ASSUME NEW i \in 1..Len(queue')
        PROVE  queue'[i] = log'[Len(log') - Len(queue') + i]
    <3>1. CASE i = Len(queue')
      BY <1>1, <1>2, <3>1
    <3>2. CASE i # Len(queue')
      <4>1. /\ i \in 1..Len(queue) /\ Len(log) - Len(queue) + i \in 1..Len(log)
            /\ Len(log') - Len(queue') + i = Len(log) - Len(queue) + i
        BY <1>1, <1>2, <3>2
      <4>2. queue[i] = log[Len(log) - Len(queue) + i]
        BY <4>1 DEF IInv, Queued
      <4> QED
        BY <1>2, <4>1, <4>2
    <3> QED
      BY <3>1, <3>2
  <2>2. Len(log') <= MaxEvents /\ Len(queue') <= Len(log') /\ unacked' \in Nat /\ unseen' \in Nat
    BY <1>1, <1>2, MaxEventsAssumption
  <2> QED
    BY <1>2, <2>1, <2>2 DEF Queued
<1>5. Threads'
  BY DEF IInv, Threads
<1>6. \A n \in 0..Len(log) : SubSeq(log', 1, n) = SubSeq(log, 1, n)
  BY <1>1, PrefixAppend
<1>7. Popped' = Popped
  <2>1. /\ Len(log) - Len(queue) \in 0..Len(log)
        /\ Len(log') - Len(queue') = Len(log) - Len(queue)
    BY <1>1, <1>2
  <2> QED
    BY <1>6, <2>1 DEF Popped
<1>8. \A n \in 0..Len(Popped) : SubSeq(log', 1, n) = SubSeq(log, 1, n)
  <2>1. Len(Popped) = Len(log) - Len(queue)
    BY PoppedType DEF IInv
  <2> QED
    BY <1>1, <1>6, <2>1
<1>9. Accounted' /\ Reported'
  BY <1>7, <1>8, Frame
<1> QED
  BY <1>3, <1>4, <1>5, <1>9 DEF IInv

(* Refused pushes and the visibility of stores.                            *)
LEMMA QueueIInv ==
  ASSUME IInv, PushRefused \/ Visibility, UNCHANGED log
  PROVE  IInv'
<1> USE DEF PushRefused, Visibility, Queue!PushRefused, Queue!ObservePops, Queue!ObservePushes
<1>1. UNCHANGED <<queue, running, opc, wpc, due, cum, stats, mutex, seen>>
  OBVIOUS
<1>2. unacked' \in Nat /\ unseen' \in Nat
  BY DEF IInv, Queued
<1>3. TypeOK'
  BY <1>1 DEF IInv, TypeOK
<1>4. Threads'
  BY <1>1 DEF IInv, Threads
<1>5. Queued' /\ Accounted' /\ Reported'
  BY <1>1, <1>2, Quiet
<1> QED
  BY <1>3, <1>4, <1>5 DEF IInv

(* The owner's steps.                                                      *)
LEMMA OwnerIInv ==
  ASSUME IInv, Start \/ Stop \/ Join, UNCHANGED log
  PROVE  IInv'
<1>1. UNCHANGED <<queue, unacked, unseen, cum, stats, mutex, seen>>
  BY DEF Start, Stop, Join, qvars
<1>2. TypeOK'
  <2>1. running' \in BOOLEAN /\ due' \in BOOLEAN
    BY Zenon DEF Start, Stop, Join, IInv, TypeOK
  <2>2. /\ opc' \in {"out", "join"}
        /\ wpc' \in {"none", "loop", "drain", "check", "update", "exited"}
    BY DEF Start, Stop, Join, IInv, TypeOK
  <2> QED
    BY <1>1, <2>1, <2>2, Zenon DEF IInv, TypeOK
<1>3. Threads' /\ ((wpc' = "update") <=> (wpc = "update"))
  BY DEF Start, Stop, Join, IInv, Threads
<1>4. Queued' /\ Accounted' /\ Reported'
  <2>1. unacked' \in Nat /\ unseen' \in Nat
    BY <1>1 DEF IInv, Queued
  <2> QED
    BY <1>1, <1>3, <2>1, Quiet
<1> QED
  BY <1>2, <1>3, <1>4 DEF IInv

(* A read under the lock, and the passing of time.                         *)
LEMMA ReadIInv ==
  ASSUME IInv, GetLatestMetrics \/ Elapse, UNCHANGED log
  PROVE  IInv'
<1>1. /\ UNCHANGED <<queue, unacked, unseen, running, opc, wpc, cum, stats, mutex>>
      /\ seen' = seen \/ (seen' = stats /\ wpc # "update")
  BY Zenon DEF GetLatestMetrics, Elapse, qvars, IInv, Threads
<1>2. due' \in BOOLEAN
  BY Zenon DEF GetLatestMetrics, Elapse, IInv, TypeOK
<1>3. seen' \in AggregatedMetrics
  BY <1>1 DEF IInv, TypeOK
<1>4. TypeOK'
  BY <1>1, <1>2, <1>3, Zenon DEF IInv, TypeOK
<1>5. Threads'
  BY <1>1 DEF IInv, Threads
<1>6. Queued' /\ Accounted' /\ Reported'
  <2>1. unacked' \in Nat /\ unseen' \in Nat
    BY <1>1 DEF IInv, Queued
  <2> QED
    BY <1>1, <2>1, Quiet
<1> QED
  BY <1>4, <1>5, <1>6 DEF IInv

(* The worker's steps outside the lock that count nothing.                 *)
LEMMA LoopIInv ==
  ASSUME IInv, LoopTest \/ DrainEnd \/ NotDue, UNCHANGED log
  PROVE  IInv'
<1> USE DEF LoopTest, DrainEnd, NotDue, Queue!PopNothing
<1>1. /\ UNCHANGED <<queue, running, opc, due, cum, stats, mutex, seen>>
      /\ unacked' = unacked /\ unseen' \in 0..unseen \cup {unseen}
  BY DEF qvars
<1>2. /\ wpc' \in {"none", "loop", "drain", "check", "update", "exited"}
      /\ wpc # "update" /\ wpc' # "update"
  BY DEF IInv, TypeOK
<1>3. TypeOK'
  BY <1>1, <1>2, Zenon DEF IInv, TypeOK
<1>4. Threads'
  BY <1>1, <1>2 DEF IInv, Threads
<1>5. Queued' /\ Accounted' /\ Reported'
  <2>1. unacked' \in Nat /\ unseen' \in Nat
    BY <1>1 DEF IInv, Queued
  <2> QED
    BY <1>1, <1>2, <2>1, Quiet
<1> QED
  BY <1>3, <1>4, <1>5 DEF IInv

(* The event popped is the next one of the history.                        *)
LEMMA PopNext ==
  ASSUME IInv, Queue!Pop, UNCHANGED log
  PROVE  /\ popRet' \in Events
         /\ Popped' = Append(Popped, popRet')
         /\ Len(Popped)' = Len(Popped) + 1
         /\ Len(Popped)' \in 0..MaxEvents
         /\ queue' \in Seq(Events) /\ Len(queue') <= Capacity
         /\ Queued'
<1> USE DEF Queue!Pop
<1>1. /\ log \in Seq(Events) /\ queue \in Seq(Events)
      /\ Len(queue) \in Nat /\ Len(log) \in Nat /\ Len(queue) <= Len(log)
      /\ unacked \in Nat /\ unseen \in Nat /\ Len(queue) > unseen
      /\ Len(log) <= MaxEvents /\ Len(queue) <= Capacity
  BY DEF IInv, TypeOK, Queued
<1>2. /\ queue # <<>> /\ Len(queue) >= 1 /\ popRet' = queue[1]
      /\ queue' \in Seq(Events) /\ Len(queue') = Len(queue) - 1
      /\ \A i \in 1..Len(queue) - 1 : queue'[i] = queue[i+1]
  BY <1>1
<1> DEFINE n == Len(log) - Len(queue)
<1>3. /\ n \in Nat /\ n < Len(log) /\ n + 1 <= MaxEvents
      /\ n + 1 = Len(log) - Len(queue')
  BY <1>1, <1>2, MaxEventsAssumption
<1>4. popRet' = log[n + 1]
  <2>1. 1 \in 1..Len(queue)
    BY <1>1, <1>2
  <2> QED
    BY <1>2, <2>1 DEF IInv, Queued
<1>5. Popped = SubSeq(log, 1, n) /\ Popped' = SubSeq(log, 1, n + 1)
  BY <1>3 DEF Popped
<1> HIDE DEF n
<1>6. SubSeq(log, 1, n + 1) = Append(SubSeq(log, 1, n), log[n + 1]) /\ log[n + 1] \in Events
  BY <1>1, <1>3, PrefixNext
<1>7. Len(Popped) = n /\ Len(Popped)' = n + 1
  <2>1. n \in 0..Len(log) /\ n + 1 \in 0..Len(log)
    BY <1>1, <1>3
  <2>2. Len(SubSeq(log, 1, n)) = n /\ Len(SubSeq(log, 1, n + 1)) = n + 1
    BY <1>1, <2>1, PrefixType
  <2> QED
    BY <1>5, <2>2
<1>8. Queued'
  <2>1. ASSUME NEW i \in 1..Len(queue')
        PROVE  queue'[i] = log[Len(log) - Len(queue') + i]
    <3>1. i + 1 \in 1..Len(queue) /\ Len(log) - Len(queue') + i = Len(log) - Len(queue) + (i + 1)
      BY <1>1, <1>2
    <3>2. queue[i + 1] = log[Len(log) - Len(queue) + (i + 1)]
      BY <3>1 DEF IInv, Queued
    <3>3. queue'[i] = queue[i + 1]
      BY <1>2
    <3> QED
      BY <3>1, <3>2, <3>3
  <2>2. unacked' \in Nat /\ unseen' \in Nat /\ Len(queue') <= Len(log')
    BY <1>1, <1>2
  <2> QED
    BY <1>1, <2>1, <2>2 DEF Queued
<1> QED
  <2>1. Len(queue') <= Capacity /\ n + 1 \in 0..MaxEvents
    BY <1>1, <1>2, <1>3, MonitorAssumption, MaxEventsAssumption
  <2> QED
    BY <1>2, <1>4, <1>5, <1>6, <1>7, <1>8, <2>1

(* The counters after one more event, in the width of the counters.        *)
LEMMA CountType ==
  ASSUME NEW c \in Counters, NEW e \in Events
  PROVE  Count(c, e) \in Counters
<1>1. /\ c.packets \in Nat /\ c.dropped \in Nat /\ c.bytes \in Nat /\ c.latency \in Nat
      /\ e.size \in Nat /\ e.latency \in Nat
  BY EventType DEF Counters, Counter
<1>2. /\ (c.packets + 1) % CounterMod \in Counter
      /\ (c.dropped + 1) % CounterMod \in Counter
      /\ (c.bytes + e.size) % CounterMod \in Counter
      /\ (c.latency + e.latency) % CounterMod \in Counter
  BY <1>1, ModType
<1> QED
  BY <1>2 DEF Count, Counters

(* The fields of the counters after one more event.                        *)
LEMMA CountFields ==
  ASSUME NEW c \in Counters, NEW e \in Events
  PROVE  /\ Count(c, e).packets = (c.packets + 1) % CounterMod
         /\ e.dropped => /\ Count(c, e).dropped = (c.dropped + 1) % CounterMod
                         /\ Count(c, e).bytes = c.bytes
                         /\ Count(c, e).latency = c.latency
         /\ ~e.dropped => /\ Count(c, e).dropped = c.dropped
                          /\ Count(c, e).bytes = (c.bytes + e.size) % CounterMod
                          /\ Count(c, e).latency = (c.latency + e.latency) % CounterMod
  BY DEF Count, Counters

(* The dropped events of a history with room for one more are a counter's  *)
(* value.                                                                  *)
LEMMA DroppedType ==
  ASSUME NEW n \in Nat, NEW s \in 0..n, n + 1 \in 0..MaxEvents
  PROVE  (n - s) + 1 \in Counter
  BY MaxEventsAssumption, MonitorAssumption DEF Counter

\* The counters a and b together stand for the total t.
Stand(a, b, t) == (a + b) % CounterMod = t % CounterMod

(* A sum of two counters, when one of them grows.                          *)
LEMMA SplitAdd ==
  ASSUME NEW a \in Nat, NEW b \in Nat, NEW d \in Nat, NEW t \in Nat,
         Stand(a, b, t)
  PROVE  Stand(a, (b + d) % CounterMod, t + d)
<1>1. (((b + d) % CounterMod) + a) % CounterMod = ((b + d) + a) % CounterMod
  <2>1. b + d \in Nat
    OBVIOUS
  <2> QED
    BY <2>1, ModAdd
<1>2. (((a + b) % CounterMod) + d) % CounterMod = ((a + b) + d) % CounterMod
  <2>1. a + b \in Nat
    OBVIOUS
  <2> QED
    BY <2>1, ModAdd
<1>3. ((t % CounterMod) + d) % CounterMod = (t + d) % CounterMod
  BY ModAdd
<1>4. (b + d) % CounterMod \in Nat
  BY ModType, b + d \in Nat DEF Counter
<1>5. /\ ((b + d) % CounterMod) + a = a + ((b + d) % CounterMod)
      /\ (b + d) + a = (a + b) + d
  BY <1>4
<1> QED
  BY <1>1, <1>2, <1>3, <1>5 DEF Stand

(* A popped event is counted: the counters stand for one event more.       *)
LEMMA DrainIInv ==
  ASSUME IInv, DrainOne, UNCHANGED log
  PROVE  IInv'
<1> DEFINE e == popRet'
           n == Len(Popped)
<1>1. /\ wpc = "drain" /\ UNCHANGED <<running, opc, wpc, due, stats, mutex, seen>>
      /\ cum' = Count(cum, e) /\ Queue!Pop
  BY DEF DrainOne
<1>2. /\ e \in Events /\ Popped' = Append(Popped, e)
      /\ Len(Popped)' = n + 1 /\ n + 1 \in 0..MaxEvents
      /\ queue' \in Seq(Events) /\ Len(queue') <= Capacity /\ Queued'
  BY <1>1, PopNext
<1>3. Popped \in Seq(Events) /\ n \in Nat /\ cum \in Counters /\ stats \in AggregatedMetrics
  BY PoppedType DEF IInv, TypeOK
<1> HIDE DEF e, n
<1>4. TypeOK'
  <2>1. cum' \in Counters
    BY <1>1, <1>2, <1>3, CountType
  <2> QED
    BY <1>1, <1>2, <2>1, Zenon DEF IInv, TypeOK
<1>5. Threads'
  BY <1>1 DEF IInv, Threads
<1>6. /\ Bytes(Popped) \in Nat /\ Nanoseconds(Popped) \in Nat /\ Successes(Popped) \in 0..n
      /\ e.size \in Nat /\ e.latency \in Nat /\ e.dropped \in BOOLEAN
      /\ stats.bytes \in Nat /\ cum.bytes \in Nat
  BY <1>2, <1>3, TotalsType, EventType DEF n, Counters, AggregatedMetrics, Counter
<1>7. /\ cum.packets = n /\ cum.dropped = n - Successes(Popped)
      /\ cum.latency = Nanoseconds(Popped) % CounterMod
      /\ (stats.bytes + cum.bytes) % CounterMod = Bytes(Popped) % CounterMod
  BY <1>1 DEF IInv, Accounted, n
<1>8. (n + 1) % CounterMod = n + 1
  <2>1. n + 1 \in Counter
    BY <1>2, MaxEventsAssumption, MonitorAssumption DEF Counter
  <2> QED
    BY <2>1, ModSmall
<1>9. cum'.packets = n + 1
  BY <1>1, <1>2, <1>3, <1>7, <1>8, CountFields
<1>10. /\ cum'.dropped = (n + 1) - Successes(Popped')
       /\ cum'.latency = Nanoseconds(Popped') % CounterMod
       /\ (stats.bytes + cum'.bytes) % CounterMod = Bytes(Popped') % CounterMod
  <2>1. CASE e.dropped
    <3>1. /\ Bytes(Popped') = Bytes(Popped) /\ Nanoseconds(Popped') = Nanoseconds(Popped)
          /\ Successes(Popped') = Successes(Popped)
      BY <1>2, <1>3, <2>1, TotalsAppend
    <3>2. /\ cum'.dropped = (cum.dropped + 1) % CounterMod
          /\ cum'.bytes = cum.bytes /\ cum'.latency = cum.latency
      BY <1>1, <1>2, <1>3, <2>1, CountFields
    <3>3. (cum.dropped + 1) % CounterMod = cum.dropped + 1
      <4>1. cum.dropped + 1 \in Counter
        BY <1>2, <1>3, <1>6, <1>7, DroppedType
      <4> QED
        BY <4>1, ModSmall
    <3>4. (n - Successes(Popped)) + 1 = (n + 1) - Successes(Popped)
      BY <1>3, <1>6
    <3> QED
      BY <1>7, <3>1, <3>2, <3>3, <3>4
  <2>2. CASE ~e.dropped
    <3>1. /\ Bytes(Popped') = Bytes(Popped) + e.size
          /\ Nanoseconds(Popped') = Nanoseconds(Popped) + e.latency
          /\ Successes(Popped') = Successes(Popped) + 1
      BY <1>2, <1>3, <2>2, TotalsAppend
    <3>2. /\ cum'.dropped = cum.dropped
          /\ cum'.bytes = (cum.bytes + e.size) % CounterMod
          /\ cum'.latency = (cum.latency + e.latency) % CounterMod
      BY <1>1, <1>2, <1>3, <2>2, CountFields
    <3>3. n - Successes(Popped) = (n + 1) - (Successes(Popped) + 1)
      BY <1>3, <1>6
    <3>4. ((Nanoseconds(Popped) % CounterMod) + e.latency) % CounterMod
             = (Nanoseconds(Popped) + e.latency) % CounterMod
      BY <1>6, ModAdd
    <3>5. (stats.bytes + ((cum.bytes + e.size) % CounterMod)) % CounterMod
             = (Bytes(Popped) + e.size) % CounterMod
      <4> DEFINE a == stats.bytes
                 b == cum.bytes
                 d == e.size
                 t == Bytes(Popped)
      <4>1. /\ a \in Nat /\ b \in Nat /\ d \in Nat /\ t \in Nat
            /\ Stand(a, b, t)
        BY <1>6, <1>7 DEF Stand
      <4> HIDE DEF a, b, d, t
      <4>2. Stand(a, (b + d) % CounterMod, t + d)
        BY <4>1, SplitAdd
      <4> QED
        BY <4>2 DEF a, b, d, t, Stand
    <3> QED
      BY <1>7, <3>1, <3>2, <3>3, <3>4, <3>5
  <2> QED
    BY <1>6, <2>1, <2>2
<1>11. Accounted'
  BY <1>1, <1>2, <1>9, <1>10 DEF Accounted
<1>12. Reported'
  <2>1. stats.packets <= n /\ stats.packets \in Nat
    BY <1>3 DEF IInv, Reported, n, AggregatedMetrics, Counter
  <2>2. stats'.packets <= Len(Popped)'
    BY <1>1, <1>2, <1>3, <2>1
  <2>3. /\ wpc' # "update" => Report(stats') = Aggregate(SubSeq(log', 1, stats'.packets))
        /\ seen'.packets <= stats'.packets
        /\ Report(seen') = Aggregate(SubSeq(log', 1, seen'.packets))
    BY <1>1 DEF IInv, Reported
  <2> QED
    BY <2>2, <2>3 DEF Reported
<1> QED
  BY <1>2, <1>4, <1>5, <1>11, <1>12 DEF IInv

(* The first half of an update: stats_ has the totals, under the lock.     *)
LEMMA LockIInv ==
  ASSUME IInv, LockAndTotal, UNCHANGED log
  PROVE  IInv'
<1>1. /\ wpc = "check" /\ wpc' = "update" /\ mutex' = TRUE
      /\ UNCHANGED <<queue, unacked, unseen, running, opc, due, cum, seen>>
      /\ stats' = [stats EXCEPT !.packets = cum.packets, !.dropped = cum.dropped,
                                !.bytes = (@ + cum.bytes) % CounterMod]
  BY DEF LockAndTotal, qvars
<1>2. cum \in Counters /\ stats \in AggregatedMetrics
  BY DEF IInv, TypeOK
<1>3. /\ stats'.packets = cum.packets /\ stats'.dropped = cum.dropped
      /\ stats'.bytes = (stats.bytes + cum.bytes) % CounterMod
  BY <1>1, <1>2 DEF AggregatedMetrics
<1>4. stats' \in AggregatedMetrics
  <2>1. (stats.bytes + cum.bytes) % CounterMod \in Counter
    <3>1. stats.bytes + cum.bytes \in Nat
      BY <1>2 DEF AggregatedMetrics, Counters, Counter
    <3> QED
      BY <3>1, ModType
  <2> QED
    BY <1>1, <1>2, <2>1 DEF AggregatedMetrics, Counters
<1>5. TypeOK'
  <2>1. mutex' \in BOOLEAN /\ wpc' \in {"none", "loop", "drain", "check", "update", "exited"}
    BY <1>1, Zenon
  <2> QED
    BY <1>1, <1>4, <2>1, Zenon DEF IInv, TypeOK
<1>6. Threads'
  BY <1>1 DEF IInv, Threads
<1>7. Queued'
  BY <1>1 DEF IInv, Queued
<1>8. Popped' = Popped
  BY <1>1 DEF Popped
<1>9. Accounted'
  BY <1>1, <1>3, <1>8 DEF IInv, Accounted
<1>10. Reported'
  <2>1. cum.packets = Len(Popped) /\ Len(Popped) \in Nat
    BY PoppedType DEF IInv, Accounted
  <2>2. /\ seen.packets <= stats.packets /\ stats.packets <= Len(Popped)
        /\ seen.packets \in Nat /\ stats.packets \in Nat
    BY DEF IInv, Reported, TypeOK, AggregatedMetrics, Counter
  <2>3. stats'.packets <= Len(Popped)' /\ seen'.packets <= stats'.packets
    BY <1>1, <1>3, <1>8, <2>1, <2>2
  <2>4. Report(seen') = Aggregate(SubSeq(log', 1, seen'.packets))
    BY <1>1 DEF IInv, Reported
  <2> QED
    BY <1>1, <2>3, <2>4 DEF Reported
<1> QED
  BY <1>5, <1>6, <1>7, <1>9, <1>10 DEF IInv

(* The second half: stats_ stands for everything popped.                   *)
LEMMA UnlockIInv ==
  ASSUME IInv, RatesAndUnlock, UNCHANGED log
  PROVE  IInv'
<1> DEFINE successful == (cum.packets - cum.dropped) % CounterMod
           latency == IF successful > 0 THEN <<cum.latency, successful>> ELSE <<0, 0>>
<1>1. /\ wpc = "update" /\ wpc' = "loop" /\ mutex' = FALSE /\ due' = FALSE
      /\ UNCHANGED <<queue, unacked, unseen, running, opc, seen>>
      /\ stats' = [stats EXCEPT !.latency = latency, !.interval = cum.bytes]
      /\ cum' = [cum EXCEPT !.bytes = 0]
  BY DEF RatesAndUnlock, qvars
<1>2. cum \in Counters /\ stats \in AggregatedMetrics
  BY DEF IInv, TypeOK
<1>3. 0 \in Counter
  BY MonitorAssumption DEF Counter
<1>4. Popped \in Seq(Events) /\ Len(Popped) \in 0..MaxEvents
  BY PoppedType DEF IInv
<1>5. Successes(Popped) \in 0..Len(Popped) /\ Bytes(Popped) \in Nat
  BY <1>4, TotalsType
<1>6. successful = Successes(Popped) /\ successful \in Counter
  <2>1. Successes(Popped) \in Counter
    BY <1>4, <1>5, MaxEventsAssumption, MonitorAssumption DEF Counter
  <2>2. cum.packets - cum.dropped = Successes(Popped)
    BY <1>4, <1>5 DEF IInv, Accounted
  <2> QED
    BY <2>1, <2>2, ModSmall
<1>7. latency \in Counter \X Counter
  BY <1>2, <1>3, <1>6 DEF Counters
<1>8. latency = IF Successes(Popped) = 0 THEN <<0, 0>>
                ELSE <<Nanoseconds(Popped) % CounterMod, Successes(Popped)>>
  BY <1>5, <1>6 DEF IInv, Accounted
<1> HIDE DEF successful, latency
<1>9. /\ stats'.packets = stats.packets /\ stats'.dropped = stats.dropped
      /\ stats'.bytes = stats.bytes /\ stats'.latency = latency
      /\ cum'.packets = cum.packets /\ cum'.dropped = cum.dropped
      /\ cum'.latency = cum.latency /\ cum'.bytes = 0
  BY <1>1, <1>2 DEF AggregatedMetrics, Counters
<1>10. TypeOK'
  <2>1. stats' \in AggregatedMetrics
    BY <1>1, <1>2, <1>7 DEF AggregatedMetrics, Counters
  <2>2. cum' \in Counters
    BY <1>1, <1>2, <1>3 DEF Counters
  <2>3. /\ mutex' \in BOOLEAN /\ due' \in BOOLEAN
        /\ wpc' \in {"none", "loop", "drain", "check", "update", "exited"}
    BY <1>1, Zenon
  <2> QED
    BY <1>1, <2>1, <2>2, <2>3, Zenon DEF IInv, TypeOK
<1>11. Threads'
  BY <1>1 DEF IInv, Threads
<1>12. Queued'
  BY <1>1 DEF IInv, Queued
<1>13. Popped' = Popped
  BY <1>1 DEF Popped
<1>14. /\ stats.packets = Len(Popped) /\ stats.dropped = Len(Popped) - Successes(Popped)
       /\ stats.bytes = Bytes(Popped) % CounterMod
  BY <1>1 DEF IInv, Accounted
<1>15. Accounted'
  <2>1. (stats.bytes + 0) % CounterMod = Bytes(Popped) % CounterMod
    <3>1. stats.bytes \in Counter /\ stats.bytes + 0 = stats.bytes
      BY <1>2 DEF AggregatedMetrics, Counter
    <3> QED
      BY <1>14, <3>1, ModSmall
  <2> QED
    BY <1>1, <1>9, <1>13, <2>1 DEF IInv, Accounted
<1>16. Reported'
  <2>1. SubSeq(log, 1, Len(Popped)) = Popped
    <3>1. Len(Popped) = Len(log) - Len(queue)
      BY PoppedType DEF IInv
    <3> QED
      BY <3>1 DEF Popped
  <2>2. Report(stats') = Aggregate(Popped)
    BY <1>8, <1>9, <1>14 DEF Report, Aggregate
  <2>3. Report(stats') = Aggregate(SubSeq(log', 1, stats'.packets))
    BY <1>9, <1>14, <2>1, <2>2
  <2>4. /\ stats'.packets <= Len(Popped)' /\ seen'.packets <= stats'.packets
        /\ Report(seen') = Aggregate(SubSeq(log', 1, seen'.packets))
    BY <1>1, <1>9, <1>13 DEF IInv, Reported
  <2> QED
    BY <2>3, <2>4 DEF Reported
<1> QED
  BY <1>10, <1>11, <1>12, <1>15, <1>16 DEF IInv

-----------------------------------------------------------------------------
(* Every step keeps the inductive invariant.                               *)
LEMMA NextIInv == IInv /\ [HNext]_hvars => IInv'
<1> SUFFICES ASSUME IInv, [HNext]_hvars PROVE IInv'
  OBVIOUS
<1>1. CASE Len(log) < MaxEvents /\ \E event \in Events : Push(event) /\ log' = Append(log, event)
  BY <1>1, PushIInv
<1>2. CASE (PushRefused \/ Visibility) /\ UNCHANGED log
  BY <1>2, QueueIInv
<1>3. CASE (Start \/ Stop \/ Join) /\ UNCHANGED log
  BY <1>3, OwnerIInv
<1>4. CASE (GetLatestMetrics \/ Elapse) /\ UNCHANGED log
  BY <1>4, ReadIInv
<1>5. CASE Worker /\ UNCHANGED log
  <2>1. CASE LoopTest \/ DrainEnd \/ NotDue
    BY <1>5, <2>1, LoopIInv
  <2>2. CASE DrainOne
    BY <1>5, <2>2, DrainIInv
  <2>3. CASE LockAndTotal
    BY <1>5, <2>3, LockIInv
  <2>4. CASE RatesAndUnlock
    BY <1>5, <2>4, UnlockIInv
  <2> QED
    BY <1>5, <2>1, <2>2, <2>3, <2>4 DEF Worker
<1>6. CASE UNCHANGED hvars
  <2>1. UNCHANGED <<queue, unacked, unseen, pushRet, popRet, running, opc, wpc, due,
                    cum, stats, mutex, seen, log>>
    BY <1>6 DEF hvars, vars, qvars
  <2> QED
    BY <2>1 DEF IInv, TypeOK, Queued, Threads, Accounted, Reported, Popped
<1> QED
  BY <1>1, <1>2, <1>3, <1>4, <1>5, <1>6 DEF HNext

(* The worker thread, the counters and what was reported keep in step with *)
(* the accepted events, whatever the interleaving of producer, owner,      *)
(* worker and readers.                                                     *)
THEOREM IInvariant == HSpec => []IInv
  BY InitIInv, NextIInv, PTL DEF HSpec

(* Nothing popped is forgotten (monitor_loop() resets only the interval's  *)
(* byte count, after it was added to total_bytes).                         *)
THEOREM MonitorConserves == HSpec => []Conservation
<1>1. IInv => Conservation
  BY DEF IInv, Accounted, Conservation, Aggregate
<1> QED
  BY <1>1, IInvariant, PTL

(* What get_latest_metrics() returns is the aggregate of a prefix of the   *)
(* accepted events, in every field.                                        *)
THEOREM ReadsArePrefixes == HSpec => []SeenIsPrefix
<1>1. IInv => SeenIsPrefix
  <2> SUFFICES ASSUME IInv PROVE SeenIsPrefix
    OBVIOUS
  <2>1. seen.packets \in Nat /\ stats.packets \in Nat
    BY DEF IInv, TypeOK, AggregatedMetrics, Counter
  <2>2. Len(Popped) = Len(log) - Len(queue) /\ Len(log) \in Nat /\ Len(queue) \in Nat
    BY PoppedType DEF IInv, TypeOK, Queued
  <2> QED
    BY <2>1, <2>2 DEF IInv, Reported, SeenIsPrefix
<1> QED
  BY <1>1, IInvariant, PTL

(* A read never goes back to a shorter prefix than the one before it.      *)
THEOREM ReadsAreMonotone == HSpec => ReadsMonotone
<1>1. IInv /\ [HNext]_hvars => seen'.packets >= seen.packets
  <2> SUFFICES ASSUME IInv, [HNext]_hvars PROVE seen'.packets >= seen.packets
    OBVIOUS
  <2>1. seen' = seen \/ seen' = stats
    BY DEF HNext, Push, PushRefused, Visibility, Start, Stop, Join, GetLatestMetrics, Elapse,
           Worker, LoopTest, DrainOne, DrainEnd, NotDue, LockAndTotal, RatesAndUnlock,
           hvars, vars
  <2>2. seen.packets \in Nat /\ stats.packets \in Nat /\ stats.packets >= seen.packets
    BY DEF IInv, TypeOK, AggregatedMetrics, Counter, Reported
  <2> QED
    BY <2>1, <2>2
<1> QED
  BY <1>1, IInvariant, PTL DEF HSpec, ReadsMonotone

(* start() assigns worker_thread_ only when there is no thread to join.    *)
THEOREM StartJoinsNothing == HSpec => StartFindsNoThread
<1>1. IInv /\ [HNext]_hvars => [running' /\ ~running => wpc = "none"]_vars
  <2> SUFFICES ASSUME IInv, [HNext]_hvars, running', ~running PROVE wpc = "none"
    OBVIOUS
  <2>1. CASE Start
    BY <2>1 DEF Start, IInv, Threads
  <2>2. CASE ~Start
    BY <2>2 DEF HNext, Push, PushRefused, Visibility, Stop, Join, GetLatestMetrics, Elapse,
           Worker, LoopTest, DrainOne, DrainEnd, NotDue, LockAndTotal, RatesAndUnlock,
           hvars, vars
  <2> QED
    BY <2>1, <2>2
<1> QED
  BY <1>1, IInvariant, PTL DEF HSpec, StartFindsNoThread
=============================================================================
