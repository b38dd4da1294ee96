---------------------------- MODULE RouterProofs ----------------------------
(***************************************************************************)
(* compute_routes() never loses its way: while links are relaxed a node's  *)
(* parent is closer to the source than the node; the table it returns with *)
(* is that of the shortest paths; a lookup answers with a neighbour whose  *)
(* circuit was not open and takes a longest prefix.  All this for every    *)
(* set of nodes, every topology with small positive costs, and every       *)
(* breaker history.  And for every text of an address or a mask, what the  *)
(* parser makes of it is the address or mask that it names.                *)
(***************************************************************************)
EXTENDS Router, FiniteSetTheorems, WellFoundedInduction, TLAPS

-----------------------------------------------------------------------------
(* Numbers.                                                                *)

(* Every nonempty set of natural numbers has a least element: induction as *)
(* a statement about sets.                                                 *)
LEMMA LeastNumber ==
  ASSUME NEW T, T \subseteq Nat, T # {}
  PROVE  \E x \in T : \A y \in T : x <= y
<1>1. IsWellFoundedOn(OpToRel(<, Nat), Nat)
  BY NatLessThanWellFounded
<1>2. PICK x \in T : \A y \in T : ~ (<<y, x>> \in OpToRel(<, Nat))
  BY <1>1, WFMin
<1>3. ASSUME NEW y \in T PROVE x <= y
  <2>1. ~ (y < x)
    BY <1>2, <1>3 DEF OpToRel
  <2> QED
    BY <2>1
<1> QED
  BY <1>3

(* The subsets of a set with one element more are twice as many.           *)
LEMMA Powers ==
  ASSUME NEW n \in Nat
  PROVE  2^n \in Nat \ {0} /\ 2^(n + 1) = 2 * 2^n
<1> DEFINE A == SUBSET (1..n)
           B == {X \union {n + 1} : X \in A}
           f == [X \in A |-> X \union {n + 1}]
<1>1. /\ IsFiniteSet(1..n) /\ Cardinality(1..n) = n
      /\ IsFiniteSet(1..n+1) /\ Cardinality(1..n+1) = n + 1
  BY FS_Interval
<1>2. /\ IsFiniteSet(A) /\ Cardinality(A) = 2^n
      /\ Cardinality(SUBSET (1..n+1)) = 2^(n + 1)
  BY <1>1, FS_SUBSET
<1>3. \A X \in A : n + 1 \notin X
  OBVIOUS
<1>4. ExistsBijection(A, B)
  <2>1. f \in [A -> B] /\ \A y \in B : \E X \in A : f[X] = y
    OBVIOUS
  <2>2. ASSUME NEW X \in A, NEW Y \in A, f[X] = f[Y] PROVE X = Y
    BY <1>3, <2>2
  <2> QED
    BY <2>1, <2>2 DEF ExistsBijection, Bijection, Injection, Surjection, IsInjective
<1>5. IsFiniteSet(B) /\ Cardinality(B) = Cardinality(A)
  BY <1>2, <1>4, FS_Bijection
<1>6. SUBSET (1..n+1) = A \union B
  <2>1. ASSUME NEW X \in SUBSET (1..n+1) PROVE X \in A \union B
    <3>1. 1..n+1 = (1..n) \union {n + 1}
      OBVIOUS
    <3>2. CASE n + 1 \in X
      <4>1. X \ {n + 1} \in A /\ X = (X \ {n + 1}) \union {n + 1}
        BY <3>1, <3>2
      <4> QED
        BY <4>1
    <3>3. CASE n + 1 \notin X
      BY <3>1, <3>3
    <3> QED
      BY <3>2, <3>3
  <2>2. A \union B \subseteq SUBSET (1..n+1)
    <3>1. 1..n \subseteq 1..n+1 /\ n + 1 \in 1..n+1
      OBVIOUS
    <3> QED
      BY <3>1
  <2> QED
    BY <2>1, <2>2
<1>7. A \intersect B = {}
  BY <1>3
<1>8. Cardinality(A \union B) = Cardinality(A) + Cardinality(B)
  <2>1. Cardinality({}) = 0
    BY FS_EmptySet
  <2>2. Cardinality(A) \in Nat
    BY <1>2, FS_CardinalityType
  <2> HIDE DEF A, B
  <2>3. Cardinality(A \union B) = Cardinality(A) + Cardinality(B) - Cardinality(A \intersect B)
    BY <1>2, <1>5, FS_Union
  <2>4. Cardinality(A \intersect B) = 0
    BY <1>7, <2>1
  <2> QED
    BY <1>5, <2>2, <2>3, <2>4
<1>9. Cardinality(A) \in Nat /\ Cardinality(A) # 0
  <2>1. {} \in A
    OBVIOUS
  <2> HIDE DEF A
  <2>2. A # {} /\ IsFiniteSet(A)
    BY <1>2, <2>1
  <2> QED
    BY <2>2, FS_CardinalityType, FS_EmptySet
<1> HIDE DEF A, B
<1>10. 2^(n + 1) = Cardinality(A) + Cardinality(A)
  BY <1>2, <1>5, <1>6, <1>8
<1> QED
  BY <1>2, <1>9, <1>10

(* A number of Width bits.                                                 *)
LEMMA Words == Width \in Nat /\ AllOnes \in Nat /\ 0 \in 0..AllOnes /\ 2^Width = AllOnes + 1
<1>1. Width \in Nat
  BY AddressingAssumption DEF Width
<1>2. 2^Width \in Nat \ {0}
  BY <1>1, Powers
<1> QED
  BY <1>1, <1>2 DEF AllOnes

\* What bit i adds to BitAnd(a, b), and the sums of that up to bit n.
Both(a, b, i) == IF Bit(a, i) = 1 /\ Bit(b, i) = 1 THEN 2^i ELSE 0

LowBits(a, b, n, low) ==
  low = [i \in 0..n |-> IF i = 0 THEN 0 ELSE low[i-1] + Both(a, b, i-1)]

(* The sums exist ...                                                      *)
LEMMA LowBitsExist ==
  ASSUME NEW a, NEW b
  PROVE  \A n \in Nat : \E low : LowBits(a, b, n, low)
<1> DEFINE T == {n \in Nat : ~ \E low : LowBits(a, b, n, low)}
<1> SUFFICES ASSUME T # {} PROVE FALSE
  OBVIOUS
<1>1. PICK n \in T : \A m \in T : n <= m
  <2>1. T \subseteq Nat
    OBVIOUS
  <2> HIDE DEF T
  <2> QED
    BY <2>1, LeastNumber
<1>2. CASE n = 0
  <2>1. LowBits(a, b, 0, [i \in 0..0 |-> 0])
    BY DEF LowBits
  <2> QED
    BY <1>2, <2>1
<1>3. CASE n # 0
  <2>1. n-1 \in Nat /\ n-1 \notin T
    BY <1>1, <1>3
  <2>2. PICK low : LowBits(a, b, n-1, low)
    BY <2>1
  <2> DEFINE next == [i \in 0..n |-> IF i = 0 THEN 0 ELSE low[i-1] + Both(a, b, i-1)]
  <2>3. \A i \in 0..n-1 : next[i] = low[i]
    BY <2>2 DEF LowBits
  <2>4. next = [i \in 0..n |-> IF i = 0 THEN 0 ELSE next[i-1] + Both(a, b, i-1)]
    <3>1. \A i \in 0..n : i # 0 => i-1 \in 0..n-1
      BY <2>1
    <3>2. \A i \in 0..n : i # 0 => next[i-1] = low[i-1]
      BY <2>3, <3>1
    <3> QED
      BY <3>2
  <2>5. LowBits(a, b, n, next)
    BY <2>4 DEF LowBits
  <2> QED
    BY <2>5
<1> QED
  BY <1>2, <1>3

(* ... and the first i bits are a number of i bits.                        *)
LEMMA LowBitsType ==
  ASSUME NEW a, NEW b, NEW n \in Nat, NEW low, LowBits(a, b, n, low)
  PROVE  \A i \in 0..n : low[i] \in Nat /\ low[i] < 2^i
<1> DEFINE T == {i \in 0..n : ~ (low[i] \in Nat /\ low[i] < 2^i)}
<1> SUFFICES ASSUME T # {} PROVE FALSE
  OBVIOUS
<1>1. PICK i \in T : \A j \in T : i <= j
  <2>1. T \subseteq Nat
    OBVIOUS
  <2> HIDE DEF T
  <2> QED
    BY <2>1, LeastNumber
<1>2. CASE i = 0
  <2>1. low[0] = 0
    BY 0 \in 0..n DEF LowBits
  <2>2. 2^0 \in Nat \ {0}
    BY Powers
  <2> QED
    BY <1>1, <1>2, <2>1, <2>2
<1>3. CASE i # 0
  <2>1. i \in 0..n /\ i-1 \in Nat /\ i-1 \in 0..n /\ i-1 \notin T /\ (i-1) + 1 = i
    BY <1>1, <1>3
  <2>2. low[i-1] \in Nat /\ low[i-1] < 2^(i-1)
    BY <2>1
  <2>3. 2^(i-1) \in Nat \ {0} /\ 2^((i-1) + 1) = 2 * 2^(i-1)
    BY <2>1, Powers
  <2>4. 2^i = 2 * 2^(i-1)
    BY <2>1, <2>3
  <2>5. low[i] = low[i-1] + Both(a, b, i-1)
    BY <2>1, <1>3 DEF LowBits
  <2>6. Both(a, b, i-1) \in {0, 2^(i-1)}
    BY DEF Both
  <2>7. low[i] \in Nat /\ low[i] < 2^i
    <3>1. PICK p : p = 2^(i-1)
      OBVIOUS
    <3>2. PICK q : q = Both(a, b, i-1)
      OBVIOUS
    <3> QED
      BY <2>2, <2>3, <2>4, <2>5, <2>6, <3>1, <3>2
  <2> QED
    BY <1>1, <2>7
<1> QED
  BY <1>2, <1>3

(* The bits that two numbers have in common are a number of Width bits.    *)
LEMMA BitAndType ==
  ASSUME NEW a, NEW b
  PROVE  BitAnd(a, b) \in 0..AllOnes
<1> DEFINE low == CHOOSE f : LowBits(a, b, Width, f)
<1>1. LowBits(a, b, Width, low)
  BY Words, LowBitsExist
<1>2. BitAnd(a, b) = low[Width]
  BY DEF BitAnd, LowBits, Both
<1> HIDE DEF low
<1>3. low[Width] \in Nat /\ low[Width] < 2^Width
  <2>1. Width \in 0..Width
    BY Words
  <2> QED
    BY <1>1, <2>1, Words, LowBitsType
<1> QED
  BY <1>2, <1>3, Words

(* So is the mask of a prefix length.                                      *)
LEMMA MaskType ==
  ASSUME NEW n \in 0..Width
  PROVE  MaskOfPrefix(n) \in 0..AllOnes
<1>1. AllOnes * 2^(Width - n) \in Nat
  <2>1. Width - n \in Nat
    BY Words
  <2>2. 2^(Width - n) \in Nat
    BY <2>1, Powers
  <2>3. PICK p \in Nat : p = 2^(Width - n)
    BY <2>2
  <2> QED
    BY <2>3, Words
<1>2. (AllOnes * 2^(Width - n)) % (2^Width) \in 0..AllOnes
  <2>1. PICK p \in Nat : p = AllOnes * 2^(Width - n)
    BY <1>1
  <2>2. p % (AllOnes + 1) \in 0..AllOnes
    BY <2>1, Words
  <2> QED
    BY <2>1, <2>2, Words
<1>3. n \in 0..Width => MaskOfPrefix(n) = IF n = 0 THEN 0 ELSE (AllOnes * 2^(Width - n)) % (2^Width)
  BY DEF MaskOfPrefix
<1> QED
  BY <1>2, <1>3, Words

-----------------------------------------------------------------------------
(* The heap and the breakers.                                              *)

(* A heap that is not empty has a top, and nothing in it costs less.       *)
LEMMA TopInHeap ==
  ASSUME heap \subseteq Nat \X Nat, heap # {}
  PROVE  Top \in heap /\ \A f \in heap : Top[1] <= f[1]
<1> DEFINE Costs == {e[1] : e \in heap}
<1>1. PICK d \in Costs : \A c \in Costs : d <= c
  <2>1. Costs \subseteq Nat /\ Costs # {}
    OBVIOUS
  <2> HIDE DEF Costs
  <2> QED
    BY <2>1, LeastNumber
<1> DEFINE Ids == {e[2] : e \in {f \in heap : f[1] = d}}
<1>2. PICK v \in Ids : \A w \in Ids : v <= w
  <2>1. Ids \subseteq Nat /\ Ids # {}
    OBVIOUS
  <2> HIDE DEF Ids
  <2> QED
    BY <2>1, LeastNumber
<1>3. PICK e \in heap : e[1] = d /\ e[2] = v
  BY <1>2
<1>4. ASSUME NEW f \in heap PROVE e[1] < f[1] \/ (e[1] = f[1] /\ e[2] <= f[2])
  <2>1. f[1] \in Nat /\ f[2] \in Nat /\ e[1] \in Nat /\ e[2] \in Nat
    OBVIOUS
  <2>2. d <= f[1]
    BY <1>1
  <2>3. CASE f[1] = d
    <3>1. f[2] \in Ids
      BY <2>3
    <3> QED
      BY <1>2, <1>3, <2>3, <3>1
  <2>4. CASE f[1] # d
    BY <1>3, <2>1, <2>2, <2>4
  <2> QED
    BY <2>3, <2>4
<1>5. /\ Top \in heap
      /\ \A f \in heap : Top[1] < f[1] \/ (Top[1] = f[1] /\ Top[2] <= f[2])
  BY <1>3, <1>4, Zenon DEF Top
<1>6. \A f \in heap : f[1] \in Nat
  OBVIOUS
<1> QED
  BY <1>5, <1>6

LEMMA HeapPairs ==
  ASSUME heap \subseteq (0..MaxDist) \X Nodes
  PROVE  heap \subseteq Nat \X Nat
<1> SUFFICES ASSUME NEW e \in heap PROVE e \in Nat \X Nat
  OBVIOUS
<1>1. PICK d \in 0..MaxDist, v \in Nodes : e = <<d, v>>
  OBVIOUS
<1>2. d \in Nat /\ v \in Nat
  BY RouterAssumption
<1> QED
  BY <1>1, <1>2

\* What TypeOK says of a breaker.
BreakerType ==
  [state : {"Closed", "Open", "HalfOpen"}, failures : 0..FailureThreshold-1,
   successes : 0..2, ripe : BOOLEAN]

(* A breaker stays one, whatever is reported to it.                        *)
LEMMA BreakerSteps ==
  ASSUME NEW b \in BreakerType
  PROVE  /\ NewBreaker \in BreakerType
         /\ Refresh(b) \in BreakerType
         /\ RecordSuccess(b) \in BreakerType
         /\ RecordFailure(b) \in BreakerType
<1>1. 0 \in 0..FailureThreshold-1 /\ FailureThreshold \in Nat
  BY RouterAssumption
<1>2. NewBreaker \in BreakerType
  BY <1>1 DEF NewBreaker, BreakerType
<1>3. \A s \in {"Closed", "Open", "HalfOpen"} : TransitionTo(s) \in BreakerType
  BY <1>2 DEF TransitionTo, BreakerType
<1>4. \A c \in BreakerType : Refresh(c) \in BreakerType
  BY <1>3 DEF Refresh
<1>5. PICK c \in BreakerType : c = Refresh(b)
  BY <1>4
<1>6. RecordSuccess(b) \in BreakerType
  <2>1. [c EXCEPT !.failures = 0] \in BreakerType
    BY <1>1 DEF BreakerType
  <2>2. c.successes + 1 < 3 => [c EXCEPT !.successes = @ + 1] \in BreakerType
    BY DEF BreakerType
  <2>3. c.successes \in 0..2
    BY DEF BreakerType
  <2> QED
    BY <1>3, <1>5, <2>1, <2>2, <2>3 DEF RecordSuccess
<1>7. RecordFailure(b) \in BreakerType
  <2>1. c.failures \in 0..FailureThreshold-1
    BY DEF BreakerType
  <2>2. c.failures + 1 < FailureThreshold => [c EXCEPT !.failures = @ + 1] \in BreakerType
    BY <1>1, <2>1 DEF BreakerType
  <2> QED
    BY <1>1, <1>3, <1>5, <2>1, <2>2 DEF RecordFailure
<1> QED
  BY <1>2, <1>4, <1>6, <1>7

-----------------------------------------------------------------------------
(* Costs and distances.                                                    *)

(* A path of small costs through all nodes is shorter than MaxDist.        *)
LEMMA NoOverflow ==
  ASSUME SmallCosts
  PROVE  /\ Cardinality(Nodes) \in Nat \ {0} /\ MaxCost \in Nat \ {0}
         /\ MaxCost * Cardinality(Nodes) < MaxDist
<1> DEFINE n == Cardinality(Nodes)
<1>1. n \in Nat \ {0}
  BY RouterAssumption, FS_CardinalityType, FS_EmptySet
<1> HIDE DEF n
<1>2. MaxDist \in Nat /\ OpenCost \in 1..MaxDist
  BY RouterAssumption
<1>3. PICK q \in Int : q = (MaxDist - 1) \div n /\ q * n <= MaxDist - 1
  BY <1>1, <1>2
<1>4. MaxCost = q
  BY <1>3 DEF MaxCost, n
<1>5. q \in Nat \ {0}
  BY <1>2, <1>3, <1>4 DEF SmallCosts
<1> QED
  BY <1>1, <1>2, <1>3, <1>4, <1>5 DEF n

(* A larger factor gives a larger product.                                 *)
LEMMA Product ==
  ASSUME NEW c \in Nat, NEW m \in Nat, NEW n \in Nat, m <= n
  PROVE  c * m \in Nat /\ c * m <= c * n /\ c * (m + 1) = c * m + c
  OBVIOUS

(* The nodes closer than v are fewer than all nodes.                       *)
LEMMA CloserType ==
  ASSUME TypeOK, NEW v \in DOMAIN distances,
         \A u \in DOMAIN distances : distances[u] \in Nat
  PROVE  /\ IsFiniteSet(Closer(v)) /\ Cardinality(Closer(v)) \in Nat
         /\ Cardinality(Closer(v)) + 1 <= Cardinality(Nodes)
<1>1. v \notin Closer(v) /\ Closer(v) \union {v} \subseteq Nodes
  BY DEF Closer, TypeOK
<1>2. IsFiniteSet(Nodes)
  BY RouterAssumption
<1>3. /\ IsFiniteSet(Closer(v))
      /\ Cardinality(Closer(v) \union {v}) <= Cardinality(Nodes)
  BY <1>1, <1>2, FS_Subset
<1>4. Cardinality(Closer(v)) \in Nat
  BY <1>3, FS_CardinalityType
<1>5. Cardinality(Closer(v) \union {v}) = Cardinality(Closer(v)) + 1
  BY <1>1, <1>3, FS_AddElement
<1> QED
  BY <1>3, <1>4, <1>5

(* One more link from a node that was reached does not wrap around.        *)
LEMMA OneMoreLink ==
  ASSUME SmallCosts, TypeOK, DistancesBounded,
         NEW v \in DOMAIN distances, distances[v] # MaxDist
  PROVE  /\ distances[v] \in Nat
         /\ distances[v] + MaxCost <= MaxCost * (Cardinality(Closer(v)) + 1)
         /\ distances[v] + MaxCost < MaxDist
<1>1. \A u \in DOMAIN distances : distances[u] \in Nat
  BY RouterAssumption DEF DistancesBounded
<1>2. PICK k \in Nat : k = Cardinality(Closer(v)) /\ k + 1 <= Cardinality(Nodes)
  BY <1>1, CloserType
<1>3. distances[v] <= MaxCost * k
  BY <1>2 DEF DistancesBounded
<1>4. PICK n \in Nat, c \in Nat : n = Cardinality(Nodes) /\ c = MaxCost
  BY NoOverflow
<1>5. c * n < MaxDist /\ k + 1 <= n /\ distances[v] <= c * k
  BY <1>2, <1>3, <1>4, NoOverflow
<1>6. c * k + c = c * (k + 1) /\ c * (k + 1) <= c * n /\ c * k \in Nat
  BY <1>4, <1>5, Product
<1>7. distances[v] \in Nat /\ MaxDist \in Nat
  BY <1>1, RouterAssumption
<1>8. distances[v] + c <= c * (k + 1) /\ distances[v] + c < MaxDist
  <2>1. PICK x \in Nat, y \in Nat, z \in Nat : x = c * k /\ y = c * (k + 1) /\ z = c * n
    BY <1>5, <1>6
  <2> QED
    BY <1>5, <1>6, <1>7, <2>1
<1> QED
  BY <1>2, <1>4, <1>7, <1>8

\* The second half of ParentsCloser.
ParentsBelow ==
  \A v \in DOMAIN parent :
    /\ parent[v] \in DOMAIN distances
    /\ distances[parent[v]] < distances[v]
    /\ v # Source

(* What the invariant says of types, in one place.                         *)
LEMMA Types ==
  ASSUME IInv
  PROVE  /\ TypeOK /\ ParentsBelow
         /\ MaxDist \in Nat /\ OpenCost \in Nat /\ Source \in Nodes
         /\ \A v \in DOMAIN distances : distances[v] \in Nat /\ distances[v] <= MaxDist /\ v \in Nodes
         /\ \A e \in heap : /\ e[1] \in Nat /\ e[2] \in Nodes /\ e = <<e[1], e[2]>>
                            /\ e[2] \in DOMAIN distances /\ distances[e[2]] <= e[1] /\ e[1] < MaxDist
         /\ DOMAIN parent \subseteq DOMAIN distances
BY RouterAssumption
   DEF IInv, ParentsCloser, ParentsBelow, TypeOK, DistancesBounded, HeapHolds

-----------------------------------------------------------------------------
(* One relaxation.                                                         *)

\* u, the top of the heap, is relaxed: the distances of better nodes drop,
\* nodes without an entry get a zero.
Relaxed(u, better, open) ==
  /\ u \in DOMAIN topo /\ u \in DOMAIN distances /\ distances[u] < MaxDist
  /\ Top \in heap /\ u = Top[2]
  /\ better \subseteq (DOMAIN topo[u] \intersect DOMAIN distances) \ {Source, u}
  /\ DOMAIN distances' = DOMAIN distances \union DOMAIN topo[u]
  /\ \A v \in better : /\ distances'[v] \in Nat
                       /\ distances[u] < distances'[v] /\ distances'[v] < distances[v]
                       /\ distances'[v] <= distances[u] + MaxCost
                       /\ v \in open => distances'[v] >= OpenCost
  /\ \A v \in DOMAIN distances \ better : distances'[v] = distances[v]
  /\ \A v \in DOMAIN topo[u] \ DOMAIN distances : distances'[v] = 0
  /\ DOMAIN parent' = DOMAIN parent \union better
  /\ \A v \in better : parent'[v] = u
  /\ \A v \in DOMAIN parent \ better : parent'[v] = parent[v]
  /\ heap' = Popped \union {<<distances'[v], v>> : v \in better}
  /\ avoid' = avoid \union open /\ open \subseteq DOMAIN topo[u]
  /\ u # Source => open = {}

\* Afterwards no neighbour of u is further than over u, and better ones are
\* exactly as far.
RelaxedExactly(u, better, open) ==
  /\ \A v \in DOMAIN topo[u] : distances'[v] <= distances[u] + LinkCost(u, v, open)
  /\ \A v \in better : distances'[v] = distances[u] + LinkCost(u, v, open)

(* That is what Relax does.                                                *)
LEMMA RelaxEffect ==
  ASSUME SmallCosts, IInv, Relax
  PROVE  \E u, better, open : Relaxed(u, better, open) /\ RelaxedExactly(u, better, open)
<1> DEFINE u == Top[2]
           asked == IF u = Source THEN DOMAIN topo[u] ELSE {}
           open == {v \in asked : Refresh(breaker[v]).state = "Open"}
           NewDist(v) == Extended(Top[1], LinkCost(u, v, open))
           better == {v \in DOMAIN topo[u] : NewDist(v) < Distance(v)}
<1>1. /\ rpc = "dijkstra" /\ heap # {} /\ ~Outdated(Top) /\ u \in DOMAIN topo
      /\ avoid' = avoid \union open
      /\ distances' = [v \in DOMAIN distances \union DOMAIN topo[u] |->
                         IF v \in better THEN NewDist(v) ELSE Distance(v)]
      /\ parent' = [v \in DOMAIN parent \union better |-> IF v \in better THEN u ELSE parent[v]]
      /\ heap' = Popped \union {<<NewDist(v), v>> : v \in better}
  BY DEF Relax
<1>2. Top \in heap
  <2>1. heap \subseteq Nat \X Nat
    BY HeapPairs DEF IInv, ParentsCloser, TypeOK
  <2> QED
    BY <1>1, <2>1, TopInHeap
<1>3. u \in DOMAIN distances /\ distances[u] = Top[1] /\ distances[u] < MaxDist
  <2>1. distances[u] <= Top[1] /\ Top[1] < MaxDist /\ u \in DOMAIN distances
    BY <1>2 DEF IInv, HeapHolds
  <2>2. distances[u] \in Nat /\ Top[1] \in Nat
    BY <1>2, <2>1, RouterAssumption DEF IInv, DistancesBounded, ParentsCloser, TypeOK
  <2> QED
    BY <1>1, <2>1, <2>2 DEF Outdated
<1>4. /\ distances[u] \in Nat /\ distances[u] + MaxCost < MaxDist
      /\ MaxCost \in Nat /\ MaxDist \in Nat
  <2>1. MaxDist \in Nat /\ MaxCost \in Nat
    BY NoOverflow, RouterAssumption
  <2>2. distances[u] # MaxDist
    BY <1>3, <2>1
  <2> QED
    BY <1>3, <2>1, <2>2, OneMoreLink DEF IInv, ParentsCloser
<1>5. ASSUME NEW v \in DOMAIN topo[u]
      PROVE  LinkCost(u, v, open) \in 1..MaxCost /\ (v \in open => LinkCost(u, v, open) = OpenCost)
  <2>1. topo[u][v] \in 1..MaxCost
    <3>1. topo \in Topologies
      BY <1>1 DEF IInv, Locals
    <3> QED
      BY <1>1, <1>5, <3>1 DEF SmallCosts
  <2>2. OpenCost \in 1..MaxCost
    BY <1>4, RouterAssumption DEF SmallCosts
  <2>3. v \in open => u = Source
    OBVIOUS
  <2> HIDE DEF u, open
  <2> QED
    BY <2>1, <2>2, <2>3 DEF LinkCost
<1>6. ASSUME NEW v \in DOMAIN topo[u]
      PROVE  /\ NewDist(v) \in Nat /\ NewDist(v) = distances[u] + LinkCost(u, v, open)
             /\ distances[u] < NewDist(v) /\ NewDist(v) <= distances[u] + MaxCost
             /\ v \in open => NewDist(v) >= OpenCost
  <2>1. PICK c \in 1..MaxCost : c = LinkCost(u, v, open) /\ (v \in open => c = OpenCost)
    BY <1>5, <1>6
  <2>2. NewDist(v) = (distances[u] + c) % (MaxDist + 1)
    BY <1>3, <2>1 DEF Extended
  <2>3. (distances[u] + c) % (MaxDist + 1) = distances[u] + c
    BY <1>4, <2>1
  <2> HIDE DEF NewDist
  <2> QED
    BY <1>4, <2>1, <2>2, <2>3
<1>7. ASSUME NEW v \in better
      PROVE  v \in DOMAIN distances /\ v # Source /\ v # u /\ NewDist(v) < distances[v]
  <2>1. NewDist(v) < Distance(v) /\ NewDist(v) \in Nat /\ NewDist(v) > distances[u]
    BY <1>6, <1>7
  <2>2. v \in DOMAIN distances /\ NewDist(v) < distances[v]
    BY <2>1 DEF Distance
  <2>3. distances[Source] = 0
    BY <1>1 DEF IInv, Locals
  <2> HIDE DEF NewDist
  <2>4. v # u /\ v # Source
    BY <1>3, <1>4, <2>1, <2>2, <2>3
  <2> QED
    BY <2>2, <2>4
<1>8. \A v \in better : distances'[v] = NewDist(v)
  BY <1>1
<1>9. heap' = Popped \union {<<distances'[v], v>> : v \in better}
  BY <1>1, <1>8
<1>10. Relaxed(u, better, open)
  <2>1. \A v \in DOMAIN distances \ better : distances'[v] = distances[v]
    BY <1>1 DEF Distance
  <2>2. \A v \in DOMAIN topo[u] \ DOMAIN distances : distances'[v] = 0
    BY <1>1, <1>7 DEF Distance
  <2>3. /\ DOMAIN parent' = DOMAIN parent \union better
        /\ \A v \in better : parent'[v] = u
        /\ \A v \in DOMAIN parent \ better : parent'[v] = parent[v]
    BY <1>1
  <2>4. better \subseteq (DOMAIN topo[u] \intersect DOMAIN distances) \ {Source, u}
    BY <1>7
  <2>5. open \subseteq DOMAIN topo[u] /\ (u # Source => open = {})
    OBVIOUS
  <2>6. DOMAIN distances' = DOMAIN distances \union DOMAIN topo[u]
    BY <1>1
  <2>7. ASSUME NEW v \in better
        PROVE  /\ distances'[v] \in Nat
               /\ distances[u] < distances'[v] /\ distances'[v] < distances[v]
               /\ distances'[v] <= distances[u] + MaxCost
               /\ v \in open => distances'[v] >= OpenCost
    <3>1. v \in DOMAIN topo[u]
      OBVIOUS
    <3> HIDE DEF NewDist, better, open
    <3> QED
      BY <1>6, <1>7, <1>8, <2>7, <3>1
  <2>8. u = Top[2]
    OBVIOUS
  <2> HIDE DEF u, better, open
  <2> QED
    BY <1>1, <1>2, <1>3, <1>9, <2>1, <2>2, <2>3, <2>4, <2>5, <2>6, <2>7, <2>8 DEF Relaxed
<1>11. RelaxedExactly(u, better, open)
  <2>1. ASSUME NEW v \in DOMAIN topo[u]
        PROVE  distances'[v] <= distances[u] + LinkCost(u, v, open)
    <3>1. NewDist(v) \in Nat /\ NewDist(v) = distances[u] + LinkCost(u, v, open)
      BY <1>6
    <3>2. distances'[v] = IF v \in better THEN NewDist(v) ELSE Distance(v)
      BY <1>1
    <3>3. v \notin better => ~ (NewDist(v) < Distance(v))
      OBVIOUS
    <3>4. Distance(v) \in Nat
      BY Types DEF Distance
    <3> HIDE DEF NewDist, better, open
    <3> QED
      BY <3>1, <3>2, <3>3, <3>4
  <2>2. ASSUME NEW v \in better
        PROVE  distances'[v] = distances[u] + LinkCost(u, v, open)
    <3>1. v \in DOMAIN topo[u]
      OBVIOUS
    <3> HIDE DEF NewDist, better, open
    <3> QED
      BY <1>6, <1>8, <2>2, <3>1
  <2> HIDE DEF u, better, open
  <2> QED
    BY <2>1, <2>2 DEF RelaxedExactly
<1> QED
  BY <1>10, <1>11

(* No distance rises, and no reached node is lost.                         *)
LEMMA RelaxedFalls ==
  ASSUME SmallCosts, IInv, NEW u, NEW better, NEW open, Relaxed(u, better, open)
  PROVE  /\ \A v \in DOMAIN distances : /\ v \in DOMAIN distances'
                                        /\ distances'[v] \in Nat /\ distances'[v] <= distances[v]
         /\ \A v \in DOMAIN distances' : distances'[v] \in Nat /\ distances'[v] <= MaxDist
         /\ distances'[u] = distances[u]
<1>1. ASSUME NEW v \in DOMAIN distances
      PROVE  v \in DOMAIN distances' /\ distances'[v] \in Nat /\ distances'[v] <= distances[v]
  <2>1. distances[v] \in Nat /\ v \in DOMAIN distances'
    BY Types DEF Relaxed
  <2>2. CASE v \in better
    BY <2>1, <2>2 DEF Relaxed
  <2>3. CASE v \notin better
    BY <2>1, <2>3 DEF Relaxed
  <2> QED
    BY <2>1, <2>2, <2>3
<1>2. ASSUME NEW v \in DOMAIN distances'
      PROVE  distances'[v] \in Nat /\ distances'[v] <= MaxDist
  <2>1. CASE v \in DOMAIN distances
    BY <1>1, <2>1, Types
  <2>2. CASE v \notin DOMAIN distances
    BY <2>2, Types DEF Relaxed
  <2> QED
    BY <2>1, <2>2
<1>3. distances'[u] = distances[u]
  BY DEF Relaxed
<1> QED
  BY <1>1, <1>2, <1>3

(* Parents stay closer: a better node follows u, another one's parent can  *)
(* only have come closer.                                                  *)
LEMMA RelaxedParents ==
  ASSUME SmallCosts, IInv, NEW u, NEW better, NEW open, Relaxed(u, better, open)
  PROVE  ParentsBelow'
<1> SUFFICES ASSUME NEW v \in DOMAIN parent'
             PROVE  /\ parent'[v] \in DOMAIN distances'
                    /\ distances'[parent'[v]] < distances'[v]
                    /\ v # Source
  BY DEF ParentsBelow
<1>1. CASE v \in better
  <2>1. parent'[v] = u /\ u \in DOMAIN distances /\ v # Source
    BY <1>1 DEF Relaxed
  <2>2. distances'[u] < distances'[v]
    BY <1>1, RelaxedFalls DEF Relaxed
  <2> QED
    BY <2>1, <2>2, RelaxedFalls
<1>2. CASE v \notin better
  <2>1. v \in DOMAIN parent /\ parent'[v] = parent[v]
    BY <1>2 DEF Relaxed
  <2>2. /\ parent[v] \in DOMAIN distances /\ v \in DOMAIN distances
        /\ distances[parent[v]] < distances[v] /\ v # Source
    BY <2>1, Types DEF ParentsBelow
  <2>3. distances'[v] = distances[v]
    BY <1>2, <2>2 DEF Relaxed
  <2>4. /\ parent[v] \in DOMAIN distances' /\ distances'[parent[v]] \in Nat
        /\ distances'[parent[v]] <= distances[parent[v]]
    BY <2>2, RelaxedFalls
  <2>5. distances[v] \in Nat /\ distances[parent[v]] \in Nat
    BY <2>2, Types
  <2> QED
    BY <2>1, <2>2, <2>3, <2>4, <2>5
<1> QED
  BY <1>1, <1>2

(* What is pushed into the heap is the new distance; the other pairs are   *)
(* at least superseded.                                                    *)
LEMMA RelaxedHeap ==
  ASSUME SmallCosts, IInv, NEW u, NEW better, NEW open, Relaxed(u, better, open)
  PROVE  HeapHolds' /\ heap' \subseteq (0..MaxDist) \X Nodes
<1> SUFFICES ASSUME NEW e \in heap'
             PROVE  /\ e[2] \in DOMAIN distances' /\ distances'[e[2]] <= e[1] /\ e[1] < MaxDist
                    /\ e \in (0..MaxDist) \X Nodes
  BY DEF HeapHolds
<1>1. CASE e \in heap
  <2>1. /\ e[2] \in DOMAIN distances /\ e[1] \in Nat /\ distances[e[2]] \in Nat
        /\ distances[e[2]] <= e[1] /\ e[1] < MaxDist
    BY <1>1, Types
  <2>2. /\ e[2] \in DOMAIN distances' /\ distances'[e[2]] \in Nat
        /\ distances'[e[2]] <= distances[e[2]]
    BY <2>1, RelaxedFalls
  <2>3. e \in (0..MaxDist) \X Nodes
    BY <1>1, Types DEF TypeOK
  <2> QED
    BY <2>1, <2>2, <2>3
<1>2. CASE e \notin heap
  <2>1. PICK v \in better : e = <<distances'[v], v>>
    BY <1>2 DEF Relaxed, Popped
  <2>2. /\ v \in DOMAIN distances /\ distances'[v] \in Nat /\ distances'[v] < distances[v]
    BY DEF Relaxed
  <2>3. /\ v \in DOMAIN distances' /\ v \in Nodes
        /\ distances[v] \in Nat /\ distances[v] <= MaxDist /\ MaxDist \in Nat
    BY <2>2, Types, RelaxedFalls
  <2> QED
    BY <2>1, <2>2, <2>3
<1> QED
  BY <1>1, <1>2

(* A better node is one link from u, and all that is closer than u, and u  *)
(* itself, is closer than it.                                              *)
LEMMA RelaxedBounds ==
  ASSUME SmallCosts, IInv, DOMAIN distances' \subseteq Nodes,
         NEW u, NEW better, NEW open, Relaxed(u, better, open)
  PROVE  DistancesBounded'
<1>0. /\ \A x \in DOMAIN distances : distances[x] \in Nat
      /\ \A x \in DOMAIN distances' : distances'[x] \in Nat
      /\ MaxCost \in Nat /\ MaxDist \in Nat
  BY Types, RelaxedFalls, NoOverflow
<1>1. ASSUME NEW x \in DOMAIN distances'
      PROVE  IsFiniteSet(Closer(x)') /\ Cardinality(Closer(x)') \in Nat
  <2>1. Closer(x)' \subseteq Nodes
    BY DEF Closer
  <2>2. IsFiniteSet(Nodes)
    BY RouterAssumption
  <2>3. IsFiniteSet(Closer(x)')
    BY <2>1, <2>2, FS_Subset
  <2> QED
    BY <2>3, FS_CardinalityType
<1>2. ASSUME NEW v \in better
      PROVE  distances'[v] <= MaxCost * Cardinality(Closer(v)')
  <2>1. /\ v \in DOMAIN distances' /\ u \in DOMAIN distances /\ distances[u] < distances'[v]
        /\ distances'[v] <= distances[u] + MaxCost /\ distances'[v] \in Nat
        /\ distances'[u] = distances[u] /\ distances[u] # MaxDist
    BY <1>0, RelaxedFalls DEF Relaxed
  <2>2. u \notin Closer(u) /\ Closer(u) \union {u} \subseteq Closer(v)'
    <3>1. ASSUME NEW x \in Closer(u) PROVE x \in Closer(v)'
      <4>1. x \in DOMAIN distances /\ distances[x] < distances[u]
        BY DEF Closer
      <4>2. x \in DOMAIN distances' /\ distances'[x] \in Nat /\ distances'[x] <= distances[x]
        BY <4>1, RelaxedFalls
      <4>3. distances'[x] < distances'[v]
        BY <1>0, <2>1, <4>1, <4>2
      <4> QED
        BY <4>2, <4>3 DEF Closer
    <3>2. u \in Closer(v)'
      BY <1>0, <2>1, RelaxedFalls DEF Closer
    <3>3. u \notin Closer(u)
      BY <1>0, <2>1 DEF Closer
    <3> QED
      BY <3>1, <3>2, <3>3
  <2>3. PICK k \in Nat : k = Cardinality(Closer(u)) /\ IsFiniteSet(Closer(u))
    BY <1>0, <2>1, Types, CloserType
  <2>4. Cardinality(Closer(u) \union {u}) = k + 1
    BY <2>2, <2>3, FS_AddElement
  <2>5. k + 1 <= Cardinality(Closer(v)')
    BY <1>1, <2>1, <2>2, <2>4, FS_Subset
  <2>6. distances[u] + MaxCost <= MaxCost * (k + 1)
    BY <2>1, <2>3, Types, OneMoreLink DEF IInv
  <2>7. PICK n \in Nat : n = Cardinality(Closer(v)')
    BY <1>1, <2>1
  <2>8. MaxCost * (k + 1) <= MaxCost * n /\ MaxCost * (k + 1) \in Nat
    BY <1>0, <2>5, <2>7, Product
  <2>9. PICK y \in Nat, z \in Nat : y = MaxCost * (k + 1) /\ z = MaxCost * n
    BY <1>0, <2>8, Product
  <2> QED
    BY <1>0, <2>1, <2>6, <2>7, <2>8, <2>9
<1>3. ASSUME NEW v \in DOMAIN distances, v \notin better, distances'[v] # MaxDist
      PROVE  distances'[v] <= MaxCost * Cardinality(Closer(v)')
  <2>1. distances'[v] = distances[v] /\ v \in DOMAIN distances'
    BY <1>3 DEF Relaxed
  <2>2. distances[v] <= MaxCost * Cardinality(Closer(v))
    BY <1>3, <2>1 DEF IInv, DistancesBounded
  <2>3. Closer(v) \subseteq Closer(v)'
    <3>1. ASSUME NEW x \in Closer(v) PROVE x \in Closer(v)'
      <4>1. x \in DOMAIN distances /\ distances[x] < distances[v]
        BY DEF Closer
      <4>2. x \in DOMAIN distances' /\ distances'[x] \in Nat /\ distances'[x] <= distances[x]
        BY <4>1, RelaxedFalls
      <4>3. distances'[x] < distances'[v]
        BY <1>0, <2>1, <4>1, <4>2
      <4> QED
        BY <4>2, <4>3 DEF Closer
    <3> QED
      BY <3>1
  <2>4. PICK k \in Nat, n \in Nat :
          k = Cardinality(Closer(v)) /\ n = Cardinality(Closer(v)') /\ k <= n
    BY <1>0, <1>1, <2>1, <2>3, Types, CloserType, FS_Subset
  <2>5. MaxCost * k <= MaxCost * n
    BY <1>0, <2>4, Product
  <2>6. PICK y \in Nat, z \in Nat : y = MaxCost * k /\ z = MaxCost * n
    BY <1>0, <2>4, Product
  <2> QED
    BY <1>0, <2>1, <2>2, <2>4, <2>5, <2>6
<1>4. ASSUME NEW v \in DOMAIN distances', v \notin DOMAIN distances
      PROVE  distances'[v] <= MaxCost * Cardinality(Closer(v)')
  <2>1. distances'[v] = 0
    BY <1>4 DEF Relaxed
  <2>2. MaxCost * Cardinality(Closer(v)') \in Nat
    BY <1>0, <1>1, Product
  <2> QED
    BY <2>1, <2>2
<1>5. better \subseteq DOMAIN distances
  BY DEF Relaxed
<1> QED
  BY <1>0, <1>2, <1>3, <1>4, <1>5, RelaxedFalls DEF DistancesBounded

-----------------------------------------------------------------------------
(* Types.                                                                  *)

\* What TypeOK says of the entries of the table.
EntryType ==
  [dest : Nodes, destination_subnet : 0..AllOnes, mask : 0..AllOnes,
   next_hop : Nodes, metric : 0..OpenCost-1]

\* TypeOK of the variables that compute_routes() works on.
Working ==
  /\ rpc \in {"idle", "dijkstra", "build", "walk"}
  /\ DOMAIN distances \subseteq Nodes /\ DOMAIN parent \subseteq DOMAIN distances
  /\ heap \subseteq (0..MaxDist) \X Nodes
  /\ DOMAIN node_to_ip \subseteq Nodes /\ DOMAIN node_to_mask \subseteq Nodes
  /\ avoid \subseteq Nodes /\ todo \subseteq Nodes
  /\ {dest, current} \subseteq Nodes \union {NoNode}

LEMMA TypeParts ==
  TypeOK <=> /\ breaker \in [Nodes -> BreakerType]
             /\ table \subseteq EntryType
             /\ answer \in Nodes \union {NoNode}
             /\ computes \in 0..MaxComputes
             /\ Working
BY DEF TypeOK, BreakerType, EntryType, Working

LEMMA TypePartsNext ==
  TypeOK' <=> /\ breaker' \in [Nodes -> BreakerType]
              /\ table' \subseteq EntryType
              /\ answer' \in Nodes \union {NoNode}
              /\ computes' \in 0..MaxComputes
              /\ Working'
BY DEF TypeOK, BreakerType, EntryType, Working

(* The breakers, the table, the answer and the count stay in their types.  *)
LEMMA BreakerTypes ==
  ASSUME IInv, [Next]_vars
  PROVE  breaker' \in [Nodes -> BreakerType]
<1>1. breaker \in [Nodes -> BreakerType]
  BY Types, TypeParts
<1>2. ASSUME NEW v \in Links, RecordLink(v) PROVE breaker' \in [Nodes -> BreakerType]
  <2>1. v \in Nodes /\ breaker[v] \in BreakerType
    BY <1>1, RouterAssumption
  <2>2. PICK b \in BreakerType : breaker' = [breaker EXCEPT ![v] = b]
    BY <1>2, <2>1, BreakerSteps DEF RecordLink
  <2> QED
    BY <1>1, <2>2
<1>3. ASSUME NEW v \in Links, Ripen(v) PROVE breaker' \in [Nodes -> BreakerType]
  <2>1. v \in Nodes /\ breaker[v] \in BreakerType
    BY <1>1, RouterAssumption
  <2>2. [breaker[v] EXCEPT !.ripe = TRUE] \in BreakerType
    BY <2>1 DEF BreakerType
  <2>3. breaker' = [breaker EXCEPT ![v] = [breaker[v] EXCEPT !.ripe = TRUE]]
    BY <1>3 DEF Ripen
  <2> QED
    BY <1>1, <2>2, <2>3
<1>4. CASE Relax
  <2>1. PICK asked : breaker' = [v \in Nodes |-> IF v \in asked THEN Refresh(breaker[v]) ELSE breaker[v]]
    BY <1>4 DEF Relax
  <2>2. \A v \in Nodes : breaker[v] \in BreakerType /\ Refresh(breaker[v]) \in BreakerType
    BY <1>1, BreakerSteps
  <2> QED
    BY <2>1, <2>2
<1>5. CASE UNCHANGED breaker
  BY <1>1, <1>5
<1> QED
  BY <1>2, <1>3, <1>4, <1>5
     DEF Next, vars, Computing, ComputeRoutes, Skip, HeapEmpty, NextDest, Walk, AddEntry, BuildDone,
         LookupRoute

(* The new entry is one.                                                   *)
LEMMA NewEntryType ==
  ASSUME IInv, rpc = "walk", FirstHop, dest \in DOMAIN node_to_mask
  PROVE  NewEntry \in EntryType
<1>1. PICK plan \in AddressPlans : node_to_mask = plan.mask
  BY DEF IInv, Locals
<1>2. node_to_mask[dest] \in 0..Width
  BY <1>1, RouterAssumption
<1>3. MaskOfPrefix(node_to_mask[dest]) \in 0..AllOnes
  BY <1>2, MaskType
<1>4. /\ dest \in DOMAIN distances /\ current \in DOMAIN distances
      /\ distances[dest] < OpenCost
  BY DEF IInv, Locals
<1>5. distances[dest] \in 0..OpenCost-1 /\ dest \in Nodes /\ current \in Nodes
  BY <1>4, Types
<1> QED
  BY <1>3, <1>5, BitAndType DEF NewEntry, EntryType

LEMMA TableTypes ==
  ASSUME IInv, [Next]_vars
  PROVE  table' \subseteq EntryType
<1>1. table \subseteq EntryType
  BY Types, TypeParts
<1>2. CASE \E g \in Topologies, plan \in AddressPlans : ComputeRoutes(g, plan)
  BY <1>2 DEF ComputeRoutes, ClearedTable
<1>3. CASE AddEntry
  BY <1>1, <1>3, NewEntryType DEF AddEntry
<1>4. CASE UNCHANGED table
  BY <1>1, <1>4
<1> QED
  BY <1>2, <1>3, <1>4
     DEF Next, vars, Computing, RecordLink, Ripen, Relax, Skip, HeapEmpty, NextDest, Walk, BuildDone,
         LookupRoute

LEMMA AnswerTypes ==
  ASSUME IInv, [Next]_vars
  PROVE  answer' \in Nodes \union {NoNode} /\ computes' \in 0..MaxComputes
<1>1. /\ answer \in Nodes \union {NoNode} /\ computes \in 0..MaxComputes
      /\ \A e \in table : e.next_hop \in Nodes
  <2>1. \A e \in EntryType : e.next_hop \in Nodes
    BY DEF EntryType
  <2> QED
    BY <2>1, Types, TypeParts
<1>2. CASE \E a \in Addresses : LookupRoute(a)
  BY <1>1, <1>2 DEF LookupRoute
<1>3. CASE \E g \in Topologies, plan \in AddressPlans : ComputeRoutes(g, plan)
  BY <1>1, <1>3, RouterAssumption DEF ComputeRoutes
<1>4. CASE UNCHANGED <<answer, computes>>
  BY <1>1, <1>4
<1> QED
  BY <1>2, <1>3, <1>4
     DEF Next, vars, Computing, RecordLink, Ripen, Relax, Skip, HeapEmpty, NextDest, Walk, AddEntry,
         BuildDone

-----------------------------------------------------------------------------
(* The steps.                                                              *)

\* The invariant of the computation, apart from the other variables' types.
Inner == Working /\ ParentsBelow /\ Locals /\ HeapHolds /\ DistancesBounded

LEMMA InnerPart == IInv => Inner
BY Types, TypeParts DEF Inner, IInv

(* Outside compute_routes() there is nothing to compute with.              *)
LEMMA Nothing ==
  ASSUME Working, rpc = "idle", Locals
  PROVE  Inner
<1>1. distances = <<>> /\ parent = <<>> /\ heap = {}
  BY DEF Locals
<1>2. DOMAIN distances = {} /\ DOMAIN parent = {}
  BY <1>1
<1> QED
  BY <1>1, <1>2 DEF Inner, ParentsBelow, HeapHolds, DistancesBounded

(* Only the place in compute_routes(), the heap and the walk change.       *)
LEMMA SameDistances ==
  ASSUME Inner, Working', Locals', HeapHolds', UNCHANGED <<distances, parent>>
  PROVE  Inner'
<1>1. ParentsBelow'
  BY DEF Inner, ParentsBelow
<1>2. DistancesBounded'
  BY DEF Inner, DistancesBounded, Closer
<1> QED
  BY <1>1, <1>2 DEF Inner

LEMMA StartsInner ==
  ASSUME SmallCosts, IInv, NEW g \in Topologies, NEW plan \in AddressPlans, ComputeRoutes(g, plan)
  PROVE  Inner'
<1>0. todo' = {}
  BY DEF ComputeRoutes, build, IInv, Locals
<1>1. /\ DOMAIN g \subseteq Nodes /\ Source \in Nodes /\ MaxDist \in Nat \ {0}
      /\ \A v \in DOMAIN plan.ip : v \in Nodes
      /\ \A v \in DOMAIN plan.mask : v \in Nodes
  BY RouterAssumption
<1>2. /\ node_to_ip' = plan.ip /\ node_to_mask' = plan.mask /\ topo' = g
      /\ avoid' = {} /\ parent' = <<>> /\ UNCHANGED <<todo, dest, current>>
  BY DEF ComputeRoutes, build
<1>3. DOMAIN parent' = {}
  BY <1>2
<1>4. Working
  BY InnerPart DEF Inner
<1>5. CASE Source \in DOMAIN g
  <2>1. /\ rpc' = "dijkstra" /\ heap' = {<<0, Source>>}
        /\ distances' = [v \in DOMAIN g |-> IF v = Source THEN 0 ELSE MaxDist]
    BY <1>5 DEF ComputeRoutes
  <2>2. Working'
    BY <1>1, <1>2, <1>3, <1>4, <2>1 DEF Working
  <2>3. Locals'
    <3>1. \E p \in AddressPlans : node_to_ip' = p.ip /\ node_to_mask' = p.mask
      BY <1>2
    <3>2. DOMAIN topo' \union todo' \subseteq DOMAIN distances' /\ distances'[Source] = 0
      BY <1>0, <1>2, <1>5, <2>1
    <3> QED
      BY <1>2, <1>5, <2>1, <3>1, <3>2 DEF Locals
  <2>4. HeapHolds'
    BY <1>1, <1>5, <2>1 DEF HeapHolds
  <2>5. DistancesBounded'
    <3>1. ASSUME NEW v \in DOMAIN g, v = Source
          PROVE  distances'[v] <= MaxCost * Cardinality(Closer(v)')
      <4>1. IsFiniteSet(Closer(v)')
        <5>1. Closer(v)' \subseteq Nodes
          BY <1>1, <2>1 DEF Closer
        <5> QED
          BY <5>1, RouterAssumption, FS_Subset
      <4>2. PICK k \in Nat : k = Cardinality(Closer(v)')
        BY <4>1, FS_CardinalityType
      <4>3. MaxCost * k \in Nat
        BY NoOverflow, Product
      <4> QED
        BY <2>1, <3>1, <4>2, <4>3
    <3> QED
      BY <1>1, <2>1, <3>1 DEF DistancesBounded
  <2>6. ParentsBelow'
    BY <1>3 DEF ParentsBelow
  <2> QED
    BY <2>2, <2>3, <2>4, <2>5, <2>6 DEF Inner
<1>6. CASE Source \notin DOMAIN g
  <2>1. rpc' = "idle" /\ heap' = {} /\ distances' = <<>> /\ DOMAIN distances' = {}
    BY <1>6 DEF ComputeRoutes
  <2>2. Working'
    BY <1>1, <1>2, <1>3, <1>4, <2>1 DEF Working
  <2>3. Locals'
    BY <1>0, <1>2, <2>1 DEF Locals
  <2> QED
    BY <1>3, <2>1, <2>2, <2>3 DEF Inner, ParentsBelow, HeapHolds, DistancesBounded
<1> QED
  BY <1>5, <1>6

LEMMA RelaxInner ==
  ASSUME SmallCosts, IInv, Relax
  PROVE  Inner'
<1>1. PICK u, better, open : Relaxed(u, better, open)
  BY RelaxEffect
<1>2. /\ rpc = "dijkstra"
      /\ UNCHANGED <<rpc, topo, node_to_ip, node_to_mask, todo, dest, current>>
  BY DEF Relax, build
<1>3. Working /\ Locals
  BY InnerPart DEF Inner
<1>4. DOMAIN topo[u] \subseteq Nodes /\ u \in DOMAIN topo
  <2>1. topo \in Topologies
    BY <1>2, <1>3 DEF Locals
  <2> QED
    BY <1>1, <2>1, RouterAssumption DEF Relaxed
<1>5. DOMAIN distances' \subseteq Nodes /\ DOMAIN parent' \subseteq DOMAIN distances'
  BY <1>1, <1>3, <1>4 DEF Relaxed, Working
<1>6. HeapHolds' /\ heap' \subseteq (0..MaxDist) \X Nodes
  BY <1>1, RelaxedHeap
<1>7. avoid' \subseteq Nodes
  BY <1>1, <1>3, <1>4 DEF Relaxed, Working
<1>8. Working'
  BY <1>2, <1>3, <1>5, <1>6, <1>7 DEF Working
<1>9. Locals'
  <2>1. DOMAIN distances \subseteq DOMAIN distances'
    BY <1>1 DEF Relaxed
  <2>2. distances'[Source] = distances[Source] /\ Source \in DOMAIN distances
    BY <1>1, <1>2, <1>3 DEF Relaxed, Locals
  <2> QED
    BY <1>2, <1>3, <2>1, <2>2 DEF Locals
<1> QED
  BY <1>1, <1>5, <1>6, <1>8, <1>9, RelaxedParents, RelaxedBounds DEF Inner

(* A node on the walk that does not follow the source has a parent.        *)
LEMMA WalkDown ==
  ASSUME IInv, rpc = "walk", ~FirstHop
  PROVE  /\ current \in DOMAIN parent /\ parent[current] \in DOMAIN distances
         /\ distances[parent[current]] < distances[current] /\ parent[current] # Source
BY Types DEF FirstHop, ParentsBelow

LEMMA OtherInner ==
  ASSUME IInv, \/ Skip \/ HeapEmpty \/ (\E v \in Nodes : NextDest(v))
               \/ Walk \/ AddEntry \/ BuildDone
  PROVE  Inner'
<1>0. Inner /\ Working /\ Locals /\ HeapHolds
  BY InnerPart DEF Inner
<1>1. CASE Skip
  <2>1. /\ UNCHANGED <<rpc, topo, node_to_ip, node_to_mask, distances, parent, avoid, todo, dest, current>>
        /\ rpc = "dijkstra" /\ heap' \subseteq heap
    BY <1>1 DEF Skip, Popped, build
  <2>2. Working' /\ Locals' /\ HeapHolds'
    BY <1>0, <2>1 DEF Working, Locals, HeapHolds
  <2> QED
    BY <1>0, <2>1, <2>2, SameDistances
<1>2. CASE HeapEmpty
  <2>1. /\ UNCHANGED <<topo, node_to_ip, node_to_mask, distances, parent, heap, avoid, dest, current>>
        /\ rpc = "dijkstra" /\ rpc' = "build" /\ heap = {} /\ todo' = DOMAIN distances
    BY <1>2 DEF HeapEmpty, computation
  <2>2. Working' /\ Locals' /\ HeapHolds'
    BY <1>0, <2>1 DEF Working, Locals, HeapHolds
  <2> QED
    BY <1>0, <2>1, <2>2, SameDistances
<1>3. ASSUME NEW v \in Nodes, NextDest(v) PROVE Inner'
  <2>1. /\ UNCHANGED <<topo, node_to_ip, node_to_mask, distances, parent, heap, avoid>>
        /\ rpc = "build" /\ v \in todo /\ todo' = todo \ {v}
        /\ \/ UNCHANGED <<rpc, dest, current>>
           \/ ~Unreachable(v) /\ rpc' = "walk" /\ dest' = v /\ current' = v
    BY <1>3 DEF NextDest, computation
  <2>2. v \in DOMAIN distances /\ (~Unreachable(v) => distances[v] < OpenCost)
    <3>1. v \in DOMAIN distances
      BY <1>0, <2>1 DEF Locals
    <3>2. distances[v] \in Nat /\ OpenCost \in Nat
      BY <3>1, Types
    <3> QED
      BY <3>1, <3>2 DEF Unreachable
  <2>3. Working'
    BY <1>0, <2>1 DEF Working
  <2>4. Locals'
    BY <1>0, <2>1, <2>2 DEF Locals
  <2>5. HeapHolds'
    BY <1>0, <2>1 DEF HeapHolds
  <2> QED
    BY <1>0, <2>1, <2>3, <2>4, <2>5, SameDistances
<1>4. CASE Walk
  <2>1. /\ UNCHANGED <<rpc, topo, node_to_ip, node_to_mask, distances, parent, heap, avoid, todo, dest>>
        /\ rpc = "walk" /\ ~FirstHop /\ current' = parent[current]
    BY <1>4 DEF Walk, computation
  <2>2. parent[current] \in DOMAIN distances
    BY <2>1, WalkDown
  <2>3. Working' /\ Locals' /\ HeapHolds'
    BY <1>0, <2>1, <2>2 DEF Working, Locals, HeapHolds
  <2> QED
    BY <1>0, <2>1, <2>3, SameDistances
<1>5. CASE AddEntry
  <2>1. /\ UNCHANGED <<topo, node_to_ip, node_to_mask, distances, parent, heap, avoid, todo, dest, current>>
        /\ rpc = "walk" /\ rpc' = "build"
    BY <1>5 DEF AddEntry, computation, build
  <2>2. Working' /\ Locals' /\ HeapHolds'
    BY <1>0, <2>1 DEF Working, Locals, HeapHolds
  <2> QED
    BY <1>0, <2>1, <2>2, SameDistances
<1>6. CASE BuildDone
  <2>1. /\ UNCHANGED <<topo, node_to_ip, node_to_mask, heap, avoid, todo>>
        /\ rpc = "build" /\ rpc' = "idle" /\ todo = {}
        /\ distances' = <<>> /\ parent' = <<>> /\ dest' = NoNode /\ current' = NoNode
    BY <1>6 DEF BuildDone
  <2>2. DOMAIN distances' = {} /\ DOMAIN parent' = {}
    BY <2>1
  <2>3. heap' = {}
    BY <1>0, <2>1 DEF Locals
  <2>4. Working' /\ Locals'
    BY <1>0, <2>1, <2>2, <2>3 DEF Working, Locals
  <2> QED
    BY <2>2, <2>3, <2>4 DEF Inner, ParentsBelow, HeapHolds, DistancesBounded
<1> QED
  BY <1>1, <1>2, <1>3, <1>4, <1>5, <1>6

(* Every step preserves the invariant.                                     *)
LEMMA IInvStep ==
  ASSUME SmallCosts, IInv, [Next]_vars
  PROVE  IInv'
<1>1. Inner'
  <2>1. CASE \E g \in Topologies, plan \in AddressPlans : ComputeRoutes(g, plan)
    BY <2>1, StartsInner
  <2>2. CASE Relax
    BY <2>2, RelaxInner
  <2>3. CASE Skip \/ HeapEmpty \/ (\E v \in Nodes : NextDest(v)) \/ Walk \/ AddEntry \/ BuildDone
    BY <2>3, OtherInner
  <2>4. CASE UNCHANGED <<rpc, computation, build>>
    <3>1. Inner
      BY InnerPart
    <3>2. Working' /\ Locals' /\ HeapHolds'
      BY <2>4, <3>1 DEF Inner, Working, Locals, HeapHolds, computation, build
    <3> QED
      BY <2>4, <3>1, <3>2, SameDistances DEF computation
  <2>5. \/ \E g \in Topologies, plan \in AddressPlans : ComputeRoutes(g, plan)
        \/ Computing
        \/ UNCHANGED <<rpc, computation, build>>
    BY DEF Next, vars, RecordLink, Ripen, LookupRoute
  <2> QED
    BY <2>1, <2>2, <2>3, <2>4, <2>5 DEF Computing
<1>2. TypeOK'
  BY <1>1, BreakerTypes, TableTypes, AnswerTypes, TypePartsNext DEF Inner
<1> QED
  BY <1>1, <1>2 DEF Inner, IInv, ParentsCloser, ParentsBelow

LEMMA IInvInit ==
  ASSUME Init
  PROVE  IInv
<1>1. /\ distances = <<>> /\ parent = <<>> /\ heap = {} /\ todo = {} /\ rpc = "idle"
      /\ node_to_ip = <<>> /\ node_to_mask = <<>> /\ dest = NoNode /\ current = NoNode /\ avoid = {}
  BY DEF Init
<1>2. \A f : f = <<>> => DOMAIN f = {}
  OBVIOUS
<1>3. Working
  BY <1>1, <1>2 DEF Working
<1>4. Locals
  BY <1>1 DEF Locals
<1>5. Inner
  BY <1>1, <1>3, <1>4, Nothing
<1>6. breaker \in [Nodes -> BreakerType]
  <2>1. 0 \in 0..FailureThreshold-1
    BY RouterAssumption
  <2>2. NewBreaker \in BreakerType
    BY <2>1 DEF NewBreaker, BreakerType
  <2> QED
    BY <2>2 DEF Init
<1>7. TypeOK
  BY <1>3, <1>6, TypeParts, RouterAssumption DEF Init
<1> QED
  BY <1>5, <1>7 DEF Inner, IInv, ParentsCloser, ParentsBelow

(* While links cost more than nothing and a path through all nodes costs   *)
(* less than uint32_t holds, parents are closer to the source at every     *)
(* moment of every computation.                                            *)
THEOREM ParentsStayCloser == SmallCosts => (Spec => []ParentsCloser)
<1> SUFFICES ASSUME SmallCosts PROVE Spec => []ParentsCloser
  OBVIOUS
<1>1. Init => IInv
  BY IInvInit
<1>2. IInv /\ [Next]_vars => IInv'
  BY IInvStep
<1>3. IInv => ParentsCloser
  BY DEF IInv
<1> QED
  BY <1>1, <1>2, <1>3, PTL DEF Spec

-----------------------------------------------------------------------------
(* Next hops.                                                              *)

\* The invariant behind AnswerUsable.
HopInv == Reached /\ NextHopsUsable

(* Relaxing keeps what was reached and from where.                         *)
LEMMA RelaxReached ==
  ASSUME SmallCosts, NoStubs, IInv, Reached, Relax
  PROVE  Reached'
<1>1. PICK u, better, open : Relaxed(u, better, open)
  BY RelaxEffect
<1>2. /\ rpc = "dijkstra" /\ UNCHANGED <<rpc, topo>>
      /\ topo \in Topologies /\ DOMAIN topo \subseteq DOMAIN distances /\ distances[Source] = 0
  BY DEF Relax, IInv, Locals
<1>3. /\ u \in DOMAIN topo /\ DOMAIN topo[u] \subseteq DOMAIN distances
      /\ DOMAIN distances' = DOMAIN distances
  BY <1>1, <1>2 DEF Relaxed, NoStubs
<1>4. /\ DOMAIN parent' = DOMAIN parent \union better
      /\ better \subseteq (DOMAIN topo[u] \intersect DOMAIN distances) \ {Source, u}
  BY <1>1 DEF Relaxed
<1>5. ASSUME NEW v \in DOMAIN distances'
      PROVE  v = Source \/ v \in DOMAIN parent' \/ distances'[v] = MaxDist
  <2>1. CASE v \in better
    BY <1>4, <2>1
  <2>2. CASE v \notin better
    <3>1. v \in DOMAIN distances /\ distances'[v] = distances[v]
      BY <1>1, <1>3, <2>2 DEF Relaxed
    <3> QED
      BY <1>4, <3>1 DEF Reached
  <2> QED
    BY <2>1, <2>2
<1>6. \A e \in heap' : e[2] # Source
  <2>1. ASSUME NEW e \in heap', e \in heap, e[2] = Source PROVE FALSE
    <3>1. heap = {<<0, Source>>}
      BY <2>1 DEF Reached
    <3>2. Top = <<0, Source>>
      BY <1>1, <3>1 DEF Relaxed
    <3>3. heap' = {<<distances'[v], v>> : v \in better}
      BY <1>1, <3>1, <3>2 DEF Relaxed, Popped
    <3> QED
      BY <1>4, <2>1, <3>3
  <2>2. ASSUME NEW e \in heap', e \notin heap PROVE e[2] # Source
    <3>1. PICK v \in better : e = <<distances'[v], v>>
      BY <1>1, <2>2 DEF Relaxed, Popped
    <3> QED
      BY <1>4, <3>1
  <2> QED
    BY <2>1, <2>2
<1>7. ASSUME NEW v \in DOMAIN parent', parent'[v] = Source
      PROVE  v \in DOMAIN topo[Source] /\ (v \in avoid' => distances'[v] >= OpenCost)
  <2>1. CASE u = Source
    <3>1. parent = <<>> /\ avoid = {}
      <4>1. Top \in heap /\ Top[2] = Source
        BY <1>1, <2>1 DEF Relaxed
      <4> QED
        BY <4>1 DEF Reached
    <3>2. v \in better
      <4>1. DOMAIN parent = {}
        BY <3>1
      <4> QED
        BY <1>4, <4>1
    <3>3. v \in avoid' => v \in open
      BY <1>1, <3>1 DEF Relaxed
    <3> QED
      BY <1>1, <1>4, <2>1, <3>2, <3>3 DEF Relaxed
  <2>2. CASE u # Source
    <3>1. v \notin better /\ v \in DOMAIN parent /\ parent'[v] = parent[v] /\ avoid' = avoid
      BY <1>1, <1>4, <1>7, <2>2 DEF Relaxed
    <3>2. v \in DOMAIN distances /\ distances'[v] = distances[v]
      BY <1>1, <3>1, Types DEF Relaxed
    <3> QED
      BY <1>7, <3>1, <3>2 DEF Reached
  <2> QED
    BY <2>1, <2>2
<1>8. \A v \in DOMAIN parent' :
        parent'[v] = Source =>
          v \in DOMAIN topo'[Source] /\ (v \in avoid' => distances'[v] >= OpenCost)
  BY <1>2, <1>7
<1>9. rpc' # "walk"
  BY <1>2
<1> QED
  BY <1>5, <1>6, <1>8, <1>9 DEF Reached

(* The walk begins at a reached node and stays nearer than OpenCost.       *)
LEMMA WalkReached ==
  ASSUME IInv, Reached, Walk
  PROVE  Reached'
<1>1. /\ UNCHANGED <<topo, distances, parent, heap, avoid, rpc>>
      /\ rpc = "walk" /\ ~FirstHop /\ current' = parent[current]
  BY DEF Walk, computation
<1>2. distances[parent[current]] < distances[current] /\ parent[current] # Source
  BY <1>1, WalkDown
<1>3. /\ distances[current] \in Nat /\ distances[parent[current]] \in Nat /\ OpenCost \in Nat
      /\ distances[current] < OpenCost
  BY <1>1, WalkDown, Types DEF Reached, IInv, Locals
<1>4. distances[parent[current]] < OpenCost
  BY <1>2, <1>3
<1> QED
  BY <1>1, <1>2, <1>4 DEF Reached

LEMMA OtherReached ==
  ASSUME SmallCosts, IInv, Reached,
         \/ \E g \in Topologies, plan \in AddressPlans : ComputeRoutes(g, plan)
         \/ Skip \/ HeapEmpty \/ (\E v \in Nodes : NextDest(v)) \/ AddEntry \/ BuildDone
         \/ UNCHANGED <<rpc, computation, build>>
  PROVE  Reached'
<1>0. Locals
  BY DEF IInv
<1>1. ASSUME NEW g \in Topologies, NEW plan \in AddressPlans, ComputeRoutes(g, plan)
      PROVE  Reached'
  <2>1. /\ parent' = <<>> /\ avoid' = {} /\ rpc' # "walk"
        /\ \/ /\ heap' = {<<0, Source>>}
              /\ distances' = [v \in DOMAIN g |-> IF v = Source THEN 0 ELSE MaxDist]
           \/ heap' = {} /\ distances' = <<>>
    BY <1>1 DEF ComputeRoutes
  <2>2. DOMAIN parent' = {}
    BY <2>1
  <2>3. \A v \in DOMAIN distances' : v = Source \/ distances'[v] = MaxDist
    <3>1. CASE distances' = <<>>
      <4>1. DOMAIN distances' = {}
        BY <3>1
      <4> QED
        BY <4>1
    <3> QED
      BY <2>1, <3>1
  <2> QED
    BY <2>1, <2>2, <2>3 DEF Reached
<1>2. CASE Skip
  <2>1. /\ UNCHANGED <<topo, distances, parent, avoid>> /\ rpc' # "walk"
        /\ heap' = Popped /\ rpc = "dijkstra" /\ heap # {}
    BY <1>2 DEF Skip
  <2>2. \A e \in heap' : e[2] # Source
    <3> SUFFICES ASSUME NEW e \in heap', e[2] = Source PROVE FALSE
      OBVIOUS
    <3>1. heap = {<<0, Source>>} /\ e \in heap /\ e # Top
      BY <2>1 DEF Reached, Popped
    <3>2. Top \in heap
      <4>1. heap \subseteq Nat \X Nat
        BY Types, HeapPairs DEF TypeOK
      <4> QED
        BY <2>1, <4>1, TopInHeap
    <3> QED
      BY <3>1, <3>2
  <2> QED
    BY <2>1, <2>2 DEF Reached
<1>3. CASE HeapEmpty \/ AddEntry
  <2>1. UNCHANGED <<topo, distances, parent, heap, avoid>> /\ rpc' = "build"
    BY <1>3 DEF HeapEmpty, AddEntry, computation
  <2> QED
    BY <2>1 DEF Reached
<1>4. ASSUME NEW v \in Nodes, NextDest(v) PROVE Reached'
  <2>1. /\ UNCHANGED <<topo, distances, parent, heap, avoid>> /\ rpc = "build" /\ v \in todo
        /\ \/ rpc' = rpc
           \/ ~Unreachable(v) /\ rpc' = "walk" /\ current' = v
    BY <1>4 DEF NextDest, computation
  <2>2. v \in DOMAIN distances
    BY <1>0, <2>1 DEF Locals
  <2>3. ~Unreachable(v) => v # Source /\ distances[v] < OpenCost
    BY <2>2, Types DEF Unreachable
  <2> QED
    BY <2>1, <2>3 DEF Reached
<1>5. CASE BuildDone
  <2>1. /\ distances' = <<>> /\ parent' = <<>> /\ heap' = {} /\ rpc' = "idle"
    BY <1>0, <1>5 DEF BuildDone, Locals
  <2>2. DOMAIN distances' = {} /\ DOMAIN parent' = {}
    BY <2>1
  <2> QED
    BY <2>1, <2>2 DEF Reached
<1>6. CASE UNCHANGED <<rpc, computation, build>>
  BY <1>6 DEF Reached, computation, build
<1> QED
  BY <1>1, <1>2, <1>3, <1>4, <1>5, <1>6

(* A new entry's next hop is a neighbour whose circuit was not open: the   *)
(* walk ends at a node that follows the source, nearer than OpenCost.      *)
LEMMA NewEntryUsable ==
  ASSUME IInv, Reached, rpc = "walk", FirstHop
  PROVE  current \in DOMAIN topo[Source] \ avoid
<1>1. current \in DOMAIN distances /\ current # Source /\ distances[current] < OpenCost
  BY DEF IInv, Locals, Reached
<1>2. OpenCost \in Nat /\ OpenCost <= MaxDist /\ MaxDist \in Nat /\ distances[current] \in Nat
  BY <1>1, Types, RouterAssumption
<1>3. current \in DOMAIN parent
  BY <1>1, <1>2 DEF Reached
<1>4. parent[current] = Source
  BY <1>3 DEF FirstHop
<1> QED
  BY <1>1, <1>2, <1>3, <1>4 DEF Reached

LEMMA HopsStep ==
  ASSUME SmallCosts, NoStubs, IInv, Reached, NextHopsUsable, [Next]_vars
  PROVE  NextHopsUsable'
<1>1. CASE \E g \in Topologies, plan \in AddressPlans : ComputeRoutes(g, plan)
  BY <1>1 DEF ComputeRoutes, ClearedTable, NextHopsUsable
<1>2. CASE Skip \/ Relax
  <2>1. rpc = "dijkstra" /\ UNCHANGED <<rpc, table>>
    BY <1>2 DEF Skip, Relax
  <2> QED
    BY <2>1 DEF NextHopsUsable
<1>3. CASE AddEntry
  <2>1. /\ rpc = "walk" /\ FirstHop /\ rpc' = "build" /\ UNCHANGED <<topo, avoid>>
        /\ table' \subseteq table \union {NewEntry}
    BY <1>3 DEF AddEntry, computation
  <2>2. NewEntry.next_hop = current
    BY DEF NewEntry
  <2>3. current \in DOMAIN topo[Source] \ avoid /\ Source \in DOMAIN topo
    BY <2>1, NewEntryUsable DEF IInv, Locals
  <2> QED
    BY <2>1, <2>2, <2>3 DEF NextHopsUsable
<1>4. CASE UNCHANGED <<table, topo, avoid>> /\ rpc' # "dijkstra"
  BY <1>4 DEF NextHopsUsable
<1>5. CASE UNCHANGED <<table, topo, avoid, rpc>>
  BY <1>5 DEF NextHopsUsable
<1> QED
  BY <1>1, <1>2, <1>3, <1>4, <1>5
     DEF Next, vars, computation, Computing, RecordLink, Ripen, HeapEmpty, NextDest, Walk, BuildDone,
         LookupRoute

LEMMA HopInvStep ==
  ASSUME SmallCosts, NoStubs, IInv, HopInv, [Next]_vars
  PROVE  HopInv'
<1>1. Reached'
  <2>1. \/ \E g \in Topologies, plan \in AddressPlans : ComputeRoutes(g, plan)
        \/ Computing
        \/ UNCHANGED <<rpc, computation, build>>
    BY DEF Next, vars, RecordLink, Ripen, LookupRoute
  <2> QED
    BY <2>1, RelaxReached, WalkReached, OtherReached DEF HopInv, Computing
<1> QED
  BY <1>1, HopsStep DEF HopInv

LEMMA HopInvInit ==
  ASSUME Init
  PROVE  HopInv
<1>1. /\ distances = <<>> /\ parent = <<>> /\ heap = {} /\ rpc = "idle" /\ table = {}
  BY DEF Init
<1>2. DOMAIN distances = {} /\ DOMAIN parent = {}
  BY <1>1
<1> QED
  BY <1>1, <1>2 DEF HopInv, Reached, NextHopsUsable

(* When every neighbour is also a key of the topology, a lookup answers    *)
(* with a neighbour of the router over a link whose circuit was not open.  *)
THEOREM AnswersAreUsable == SmallCosts /\ NoStubs => (Spec => AnswerUsable)
<1> SUFFICES ASSUME SmallCosts, NoStubs PROVE Spec => AnswerUsable
  OBVIOUS
<1>1. Init => IInv /\ HopInv
  BY IInvInit, HopInvInit
<1>2. IInv /\ HopInv /\ [Next]_vars => (IInv /\ HopInv)'
  BY IInvStep, HopInvStep
<1>3. ASSUME HopInv, [Next]_vars, answer' # answer, answer' # NoNode
      PROVE  Source \in DOMAIN topo /\ answer' \in DOMAIN topo[Source] \ avoid
  <2>1. PICK a \in Addresses : LookupRoute(a)
    BY <1>3 DEF Next, vars, Computing, RecordLink, Ripen, ComputeRoutes, Relax, Skip, HeapEmpty,
                NextDest, Walk, AddEntry, BuildDone
  <2>2. \E e \in table : answer' = e.next_hop
    BY <1>3, <2>1 DEF LookupRoute
  <2> QED
    BY <1>3, <2>2 DEF HopInv, NextHopsUsable
<1>4. HopInv /\ [Next]_vars =>
        [answer' # answer /\ answer' # NoNode =>
           Source \in DOMAIN topo /\ answer' \in DOMAIN topo[Source] \ avoid]_vars
  BY <1>3
<1> QED
  BY <1>1, <1>2, <1>4, PTL DEF Spec, AnswerUsable

-----------------------------------------------------------------------------
(* Division, and the bits of a mask.                                       *)

LEMMA Division ==
  ASSUME NEW p \in Nat \ {0}, NEW q \in Nat, NEW r \in 0..p-1
  PROVE  (q * p + r) \div p = q /\ (q * p + r) % p = r
OBVIOUS

LEMMA Remainder ==
  ASSUME NEW p \in Nat \ {0}, NEW a \in Nat
  PROVE  /\ a \div p \in Nat /\ a % p \in 0..p-1 /\ a % p <= a
         /\ a = (a \div p) * p + (a % p)
OBVIOUS

LEMMA Halves ==
  ASSUME NEW q \in Nat
  PROVE  q \div 2 \in Nat /\ q % 2 \in {0, 1} /\ q = 2 * (q \div 2) + (q % 2)
OBVIOUS

LEMMA Parity ==
  ASSUME NEW h \in Nat
  PROVE  (2 * h) % 2 = 0 /\ (2 * h + 1) % 2 = 1
OBVIOUS

(* Powers of two multiply.                                                 *)
LEMMA PowerSum ==
  ASSUME NEW k \in Nat
  PROVE  \A j \in Nat : 2^(k + j) = 2^j * 2^k
<1> DEFINE T == {j \in Nat : 2^(k + j) # 2^j * 2^k}
<1> SUFFICES ASSUME T # {} PROVE FALSE
  OBVIOUS
<1>1. PICK j \in T : \A i \in T : j <= i
  <2>1. T \subseteq Nat
    OBVIOUS
  <2> HIDE DEF T
  <2> QED
    BY <2>1, LeastNumber
<1>2. 2^k \in Nat
  BY Powers
<1>3. CASE j = 0
  <2>1. 2^0 = 1 /\ k + 0 = k
    OBVIOUS
  <2> QED
    BY <1>1, <1>2, <1>3, <2>1
<1>4. CASE j # 0
  <2>1. j-1 \in Nat /\ j-1 \notin T /\ (j-1) + 1 = j /\ (k + (j-1)) + 1 = k + j /\ k + (j-1) \in Nat
    BY <1>1, <1>4
  <2>2. 2^(k + (j-1)) = 2^(j-1) * 2^k
    BY <2>1
  <2>3. 2^((j-1) + 1) = 2 * 2^(j-1) /\ 2^((k + (j-1)) + 1) = 2 * 2^(k + (j-1))
    BY <2>1, Powers
  <2>4. 2^j = 2 * 2^(j-1) /\ 2^(k + j) = 2 * 2^(k + (j-1))
    BY <2>1, <2>3
  <2>5. PICK x \in Nat, y \in Nat : x = 2^(j-1) /\ y = 2^k
    BY <1>2, <2>1, Powers
  <2>6. 2 * (x * y) = (2 * x) * y
    OBVIOUS
  <2> QED
    BY <1>1, <2>2, <2>4, <2>5, <2>6
<1> QED
  BY <1>3, <1>4

(* A higher power is a multiple of a lower one, an even one if it is       *)
(* higher.                                                                 *)
LEMMA PowerMultiple ==
  ASSUME NEW i \in Nat, NEW n \in Nat, i <= n
  PROVE  /\ \E d \in Nat \ {0} : 2^n = d * 2^i
         /\ i < n => \E d \in Nat \ {0} : 2^n = (2 * d) * 2^i
         /\ 2^i <= 2^n
<1>1. n - i \in Nat /\ i + (n - i) = n
  OBVIOUS
<1>2. 2^n = 2^(n - i) * 2^i
  BY <1>1, PowerSum
<1>3. 2^(n - i) \in Nat \ {0} /\ 2^i \in Nat \ {0}
  BY <1>1, Powers
<1>4. ASSUME i < n PROVE \E d \in Nat \ {0} : 2^n = (2 * d) * 2^i
  <2>1. n - i - 1 \in Nat /\ (n - i - 1) + 1 = n - i
    BY <1>4
  <2>2. 2^((n - i - 1) + 1) = 2 * 2^(n - i - 1) /\ 2^(n - i - 1) \in Nat \ {0}
    BY <2>1, Powers
  <2>3. 2^(n - i) = 2 * 2^(n - i - 1)
    BY <2>1, <2>2
  <2> QED
    BY <1>2, <2>2, <2>3
<1>5. 2^i <= 2^n
  <2>1. PICK d \in Nat \ {0}, p \in Nat \ {0} : d = 2^(n - i) /\ p = 2^i
    BY <1>3
  <2>2. p <= d * p
    OBVIOUS
  <2> QED
    BY <1>2, <2>1, <2>2
<1> QED
  BY <1>2, <1>3, <1>4, <1>5

\* The mask whose lowest k bits are zeros.
Mask(k) == 2^Width - 2^k

(* MaskOfPrefix gives it.                                                  *)
LEMMA MaskValue ==
  ASSUME NEW n \in 0..Width
  PROVE  MaskOfPrefix(n) = Mask(Width - n)
<1>1. PICK k \in 0..Width : k = Width - n /\ (n = 0 <=> k = Width)
  BY Words
<1>2. PICK p \in Nat \ {0}, x \in Nat \ {0} : p = 2^Width /\ x = 2^k /\ x <= p
  BY Words, Powers, PowerMultiple
<1>3. CASE n = 0
  BY <1>1, <1>2, <1>3 DEF MaskOfPrefix, Mask
<1>4. CASE n # 0
  <2>1. MaskOfPrefix(n) = ((p - 1) * x) % p
    BY <1>1, <1>2, <1>4 DEF MaskOfPrefix, AllOnes
  <2>2. (p - 1) * x = (x - 1) * p + (p - x)
    OBVIOUS
  <2>3. x - 1 \in Nat /\ p - x \in 0..p-1
    BY <1>2
  <2>4. ((x - 1) * p + (p - x)) % p = p - x
    BY <2>3, Division
  <2> QED
    BY <1>1, <1>2, <2>1, <2>2, <2>4 DEF Mask
<1> QED
  BY <1>3, <1>4

(* Its ones are the bits from k on.                                        *)
LEMMA MaskBits ==
  ASSUME NEW k \in 0..Width, NEW i \in 0..Width-1
  PROVE  Bit(Mask(k), i) = IF i < k THEN 0 ELSE 1
<1>1. Width \in Nat /\ i \in Nat /\ k \in Nat /\ i < Width /\ i <= Width /\ k <= Width
  BY Words
<1>2. PICK p \in Nat \ {0} : p = 2^i
  BY <1>1, Powers
<1>3. PICK d \in Nat \ {0} : 2^Width = (2 * d) * p
  BY <1>1, <1>2, PowerMultiple
<1>4. CASE i < k
  <2>1. PICK e \in Nat \ {0} : 2^k = (2 * e) * p
    BY <1>1, <1>2, <1>4, PowerMultiple
  <2>2. 2^k <= 2^Width
    BY <1>1, PowerMultiple
  <2>3. e <= d
    <3>1. (2 * e) * p <= (2 * d) * p
      BY <1>3, <2>1, <2>2
    <3> QED
      BY <3>1
  <2>4. Mask(k) = (2 * (d - e)) * p + 0
    <3>1. (2 * d) * p - (2 * e) * p = (2 * (d - e)) * p + 0
      OBVIOUS
    <3> QED
      BY <1>3, <2>1, <3>1 DEF Mask
  <2>5. Mask(k) \div p = 2 * (d - e)
    <3>1. 2 * (d - e) \in Nat /\ 0 \in 0..p-1
      BY <2>3
    <3> QED
      BY <2>4, <3>1, Division
  <2> QED
    BY <1>2, <1>4, <2>3, <2>5, Parity DEF Bit
<1>5. CASE ~ (i < k)
  <2>1. 2^k \in Nat \ {0} /\ 2^k <= p
    BY <1>1, <1>2, <1>5, Powers, PowerMultiple
  <2>2. PICK x \in 1..p : x = 2^k
    BY <2>1
  <2>3. Mask(k) = (2 * (d - 1) + 1) * p + (p - x)
    <3>1. (2 * d) * p - x = (2 * (d - 1) + 1) * p + (p - x)
      <4>1. (2 * (d - 1) + 1) * p = (2 * d) * p - p
        OBVIOUS
      <4> QED
        BY <4>1
    <3> QED
      BY <1>3, <2>2, <3>1 DEF Mask
  <2>4. Mask(k) \div p = 2 * (d - 1) + 1
    <3>1. PICK c \in Nat, y \in 0..p-1 : c = 2 * (d - 1) + 1 /\ y = p - x
      OBVIOUS
    <3>2. (c * p + y) \div p = c
      BY Division
    <3>3. Mask(k) = c * p + y
      BY <2>3, <3>1
    <3> QED
      BY <3>1, <3>2, <3>3
  <2> QED
    BY <1>2, <1>5, <2>4, Parity DEF Bit
<1> QED
  BY <1>4, <1>5

(* The prefix length of a mask is the one it was made of.                  *)
LEMMA PrefixLengthOfMask ==
  ASSUME NEW n \in 0..Width
  PROVE  PrefixLength(MaskOfPrefix(n)) = n
<1>1. PICK k \in 0..Width : k = Width - n
  BY Words
<1>2. {i \in 0..Width-1 : Bit(Mask(k), i) = 1} = k..Width-1
  <2>1. \A i \in 0..Width-1 : Bit(Mask(k), i) = 1 <=> k <= i
    <3> SUFFICES ASSUME NEW i \in 0..Width-1 PROVE Bit(Mask(k), i) = 1 <=> k <= i
      OBVIOUS
    <3>1. Bit(Mask(k), i) = IF i < k THEN 0 ELSE 1
      BY MaskBits
    <3> QED
      BY <3>1, Words
  <2> QED
    BY <2>1, Words
<1>3. Cardinality(k..Width-1) = n
  <2>1. k \in Int /\ Width - 1 \in Int
    BY Words
  <2>2. Cardinality(k..Width-1) = IF k > Width-1 THEN 0 ELSE (Width-1) - k + 1
    BY <2>1, FS_Interval
  <2> QED
    BY <1>1, <2>2, Words
<1> QED
  BY <1>1, <1>2, <1>3, MaskValue DEF PrefixLength

(* The low bits that a has in common with a mask.                          *)
LEMMA LowBitsOfMask ==
  ASSUME NEW k \in 0..Width, NEW a \in Nat, NEW low, LowBits(a, Mask(k), Width, low)
  PROVE  \A i \in 0..Width : low[i] = IF i <= k THEN 0 ELSE (a % (2^i)) - (a % (2^k))
<1> DEFINE T == {i \in 0..Width : low[i] # IF i <= k THEN 0 ELSE (a % (2^i)) - (a % (2^k))}
<1> SUFFICES ASSUME T # {} PROVE FALSE
  OBVIOUS
<1>1. PICK i \in T : \A j \in T : i <= j
  <2>1. T \subseteq Nat
    OBVIOUS
  <2> HIDE DEF T
  <2> QED
    BY <2>1, LeastNumber
<1>2. Width \in Nat /\ k \in Nat
  BY Words
<1>3. CASE i = 0
  <2>1. low[0] = 0
    BY <1>2, 0 \in 0..Width DEF LowBits
  <2> QED
    BY <1>1, <1>2, <1>3, <2>1
<1>4. CASE i # 0
  <2>1. /\ i \in 0..Width /\ i-1 \in 0..Width-1 /\ i-1 \in 0..Width /\ i-1 \in Nat
        /\ i-1 \notin T /\ (i-1) + 1 = i
    BY <1>1, <1>2, <1>4
  <2>2. low[i-1] = IF i-1 <= k THEN 0 ELSE (a % (2^(i-1))) - (a % (2^k))
    BY <2>1
  <2>3. low[i] = low[i-1] + Both(a, Mask(k), i-1)
    BY <2>1, <1>4 DEF LowBits
  <2>4. Bit(Mask(k), i-1) = IF i-1 < k THEN 0 ELSE 1
    BY <2>1, MaskBits
  <2>5. CASE i <= k
    BY <1>1, <1>2, <2>1, <2>2, <2>3, <2>4, <2>5 DEF Both
  <2>6. CASE ~ (i <= k)
    <3>1. PICK p \in Nat \ {0} : p = 2^(i-1) /\ 2^i = 2 * p
      BY <2>1, Powers
    <3>2. PICK q \in Nat, r \in 0..p-1 : q = a \div p /\ r = a % p /\ a = q * p + r
      <4>1. a \in Nat /\ p \in Nat \ {0}
        OBVIOUS
      <4>2. a \div p \in Nat /\ a % p \in 0..p-1 /\ a = (a \div p) * p + (a % p)
        BY <4>1, Remainder
      <4> QED
        BY <4>2, Zenon
    <3>3. PICK h \in Nat, b \in {0, 1} : h = q \div 2 /\ b = q % 2 /\ q = 2 * h + b
      BY Halves
    <3>4. a = h * (2 * p) + (b * p + r)
      <4>1. (2 * h + b) * p + r = h * (2 * p) + (b * p + r)
        <5>1. (2 * h + b) * p = (2 * h) * p + b * p
          OBVIOUS
        <5>2. (2 * h) * p = h * (2 * p)
          OBVIOUS
        <5> QED
          BY <5>1, <5>2
      <4> QED
        BY <3>2, <3>3, <4>1
    <3>5. b * p + r \in 0..(2*p)-1
      <4>1. b = 0 \/ b = 1
        OBVIOUS
      <4>2. 0 * p = 0 /\ 1 * p = p
        OBVIOUS
      <4> QED
        BY <4>1, <4>2
    <3>6. a % (2 * p) = b * p + r
      <4>1. 2 * p \in Nat \ {0}
        OBVIOUS
      <4> QED
        BY <3>4, <3>5, <4>1, Division
    <3>7. Both(a, Mask(k), i-1) = b * p
      <4>1. Bit(a, i-1) = b /\ Bit(Mask(k), i-1) = 1
        <5>1. ~ (i-1 < k)
          BY <1>2, <2>1, <2>6
        <5>2. Bit(a, i-1) = b
          BY <3>1, <3>2, <3>3 DEF Bit
        <5> QED
          BY <2>4, <5>1, <5>2
      <4>2. Both(a, Mask(k), i-1) = IF b = 1 THEN p ELSE 0
        BY <3>1, <4>1 DEF Both
      <4>3. 0 * p = 0 /\ 1 * p = p /\ (b = 0 \/ b = 1)
        OBVIOUS
      <4> QED
        BY <4>2, <4>3
    <3>8. low[i-1] = r - (a % (2^k))
      <4>1. CASE i-1 = k
        <5>1. a % (2^k) = r /\ r - r = 0 /\ i-1 <= k
          BY <1>2, <3>1, <3>2, <4>1
        <5> QED
          BY <2>2, <5>1
      <4>2. CASE i-1 # k
        <5>1. ~ (i-1 <= k)
          BY <1>2, <2>1, <2>6, <4>2
        <5> QED
          BY <2>2, <3>1, <3>2, <5>1
      <4> QED
        BY <4>1, <4>2
    <3>9. a % (2^k) \in Nat
      BY <1>2, Powers, Remainder
    <3>10. PICK x \in Nat, y \in Nat : x = a % (2^k) /\ y = b * p
      BY <3>3, <3>9
    <3>11. low[i] = (r - x) + y
      BY <2>3, <3>7, <3>8, <3>10
    <3>12. a % (2^i) = y + r
      BY <3>1, <3>6, <3>10
    <3> QED
      BY <1>1, <2>6, <3>10, <3>11, <3>12
  <2> QED
    BY <2>5, <2>6
<1> QED
  BY <1>3, <1>4

(* An address and a mask have the network part of the address in common.   *)
LEMMA BitAndMask ==
  ASSUME NEW k \in 0..Width, NEW a \in 0..AllOnes
  PROVE  BitAnd(a, Mask(k)) = (a \div (2^k)) * 2^k
<1> DEFINE low == CHOOSE f : LowBits(a, Mask(k), Width, f)
<1>1. LowBits(a, Mask(k), Width, low)
  BY Words, LowBitsExist
<1>2. BitAnd(a, Mask(k)) = low[Width]
  BY DEF BitAnd, LowBits, Both
<1> HIDE DEF low
<1>3. Width \in Nat /\ Width \in 0..Width /\ a \in Nat /\ k \in Nat /\ AllOnes \in Nat
  BY Words
<1>4. low[Width] = IF Width <= k THEN 0 ELSE (a % (2^Width)) - (a % (2^k))
  BY <1>1, <1>3, LowBitsOfMask
<1>5. PICK p \in Nat \ {0} : p = 2^Width /\ a < p
  BY <1>3, Words, Powers
<1>6. a % p = a /\ a \div p = 0
  <2>1. 0 \in Nat /\ a \in 0..p-1 /\ 0 * p + a = a
    BY <1>3, <1>5
  <2> QED
    BY <2>1, Division
<1>7. PICK x \in Nat \ {0} : x = 2^k
  BY <1>3, Powers
<1>8. PICK q \in Nat, r \in Nat : q = a \div x /\ r = a % x /\ a = q * x + r
  <2>1. a \div x \in Nat /\ a % x \in 0..x-1 /\ a = (a \div x) * x + (a % x)
    BY <1>3, Remainder
  <2>2. 0..x-1 \subseteq Nat
    OBVIOUS
  <2> QED
    BY <2>1, <2>2
<1>9. CASE Width <= k
  <2>1. x = p /\ q = 0
    <3>1. k = Width
      BY <1>3, <1>9
    <3>2. x = p
      BY <1>5, <1>7, <3>1
    <3> QED
      BY <1>6, <1>8, <3>2
  <2> QED
    BY <1>2, <1>4, <1>7, <1>8, <1>9, <2>1
<1>10. CASE ~ (Width <= k)
  <2>1. low[Width] = a - r
    BY <1>4, <1>5, <1>6, <1>7, <1>8, <1>10
  <2>2. PICK y \in Nat : y = q * x
    BY <1>8
  <2> QED
    BY <1>2, <1>7, <1>8, <2>1, <2>2
<1> QED
  BY <1>9, <1>10

(* The entry of a subnet matches exactly the addresses in it.              *)
LEMMA MatchIsPrefix ==
  ASSUME NEW n \in 0..Width, NEW a \in 0..AllOnes, NEW ip \in 0..AllOnes
  PROVE  BitAnd(a, MaskOfPrefix(n)) = BitAnd(BitAnd(ip, MaskOfPrefix(n)), MaskOfPrefix(n))
           <=> SamePrefix(a, ip, n)
<1>1. PICK k \in 0..Width : k = Width - n
  BY Words
<1>2. PICK x \in Nat \ {0} : x = 2^k
  BY <1>1, Words, Powers
<1>3. MaskOfPrefix(n) = Mask(k)
  BY <1>1, MaskValue
<1>4. a \in Nat /\ ip \in Nat
  BY Words
<1>5. PICK p \in Nat, q \in Nat : p = a \div x /\ q = ip \div x
  BY <1>4, Remainder
<1>6. BitAnd(a, Mask(k)) = p * x /\ BitAnd(ip, Mask(k)) = q * x
  BY <1>2, <1>5, BitAndMask
<1>7. BitAnd(q * x, Mask(k)) = q * x
  <2>1. q * x \in 0..AllOnes
    BY <1>6, BitAndType
  <2>2. BitAnd(q * x, Mask(k)) = ((q * x) \div x) * x
    BY <1>2, <2>1, BitAndMask
  <2>3. (q * x + 0) \div x = q /\ q * x + 0 = q * x
    <3>1. 0 \in 0..x-1
      OBVIOUS
    <3> QED
      BY <3>1, Division
  <2> QED
    BY <2>2, <2>3
<1>8. p * x = q * x <=> p = q
  OBVIOUS
<1>9. SamePrefix(a, ip, n) <=> p = q
  BY <1>1, <1>2, <1>5 DEF SamePrefix
<1> QED
  BY <1>3, <1>6, <1>7, <1>8, <1>9

-----------------------------------------------------------------------------
(* Lookups.                                                                *)

LEMMA SubnetsStep ==
  ASSUME SubnetsHold, [Next]_vars
  PROVE  SubnetsHold'
<1>1. ASSUME NEW g \in Topologies, NEW plan \in AddressPlans, ComputeRoutes(g, plan)
      PROVE  SubnetsHold'
  <2>1. table' = {} /\ node_to_ip' = plan.ip /\ node_to_mask' = plan.mask
    BY <1>1 DEF ComputeRoutes, ClearedTable
  <2> QED
    BY <2>1, RouterAssumption DEF SubnetsHold
<1>2. CASE AddEntry
  <2>1. /\ UNCHANGED <<node_to_ip, node_to_mask>>
        /\ table' = IF {current, dest} \subseteq DOMAIN node_to_ip /\ dest \in DOMAIN node_to_mask
                    THEN table \union {NewEntry}
                    ELSE table
    BY <1>2 DEF AddEntry, computation
  <2>2. /\ NewEntry.dest = dest /\ NewEntry.mask = MaskOfPrefix(node_to_mask[dest])
        /\ NewEntry.destination_subnet = BitAnd(node_to_ip[dest], NewEntry.mask)
    BY DEF NewEntry
  <2> QED
    BY <2>1, <2>2 DEF SubnetsHold
<1>3. CASE UNCHANGED <<table, node_to_ip, node_to_mask>>
  BY <1>3 DEF SubnetsHold
<1> QED
  BY <1>1, <1>2, <1>3
     DEF Next, vars, computation, Computing, RecordLink, Ripen, Relax, Skip, HeapEmpty, NextDest, Walk,
         BuildDone, LookupRoute

(* The entries that lookup_route() finds matching are those whose          *)
(* destination has the prefix of the address.                              *)
LEMMA Matching ==
  ASSUME SubnetsHold, NEW a \in Addresses
  PROVE  {e \in table : BitAnd(a, e.mask) = BitAnd(e.destination_subnet, e.mask)} = Containing(a)
<1>1. a \in 0..AllOnes
  BY RouterAssumption
<1>2. ASSUME NEW e \in table
      PROVE  BitAnd(a, e.mask) = BitAnd(e.destination_subnet, e.mask)
               <=> SamePrefix(a, node_to_ip[e.dest], node_to_mask[e.dest])
  <2>1. PICK ip \in 0..AllOnes, n \in 0..Width :
          /\ ip = node_to_ip[e.dest] /\ n = node_to_mask[e.dest]
          /\ e.mask = MaskOfPrefix(n) /\ e.destination_subnet = BitAnd(ip, MaskOfPrefix(n))
    BY DEF SubnetsHold
  <2> QED
    BY <1>1, <2>1, MatchIsPrefix
<1> QED
  BY <1>2 DEF Containing

(* A lookup takes the next hop of a longest prefix that contains the       *)
(* address, and finds none exactly when no destination's subnet does.      *)
THEOREM LongestPrefixWins == Spec => LongestPrefix
<1> DEFINE Wins(a) ==
      LookupRoute(a) =>
        IF Containing(a) = {} THEN answer' = NoNode
        ELSE \E e \in Containing(a) :
               /\ answer' = e.next_hop
               /\ \A f \in Containing(a) : node_to_mask[f.dest] <= node_to_mask[e.dest]
<1>1. Init => SubnetsHold
  <2>1. \A f : f = <<>> => DOMAIN f = {}
    OBVIOUS
  <2> QED
    BY <2>1 DEF Init, SubnetsHold
<1>2. SubnetsHold /\ [Next]_vars => SubnetsHold'
  BY SubnetsStep
<1>3. ASSUME SubnetsHold, NEW a \in Addresses PROVE Wins(a)
  <2> SUFFICES ASSUME LookupRoute(a)
               PROVE  IF Containing(a) = {} THEN answer' = NoNode
                      ELSE \E e \in Containing(a) :
                             /\ answer' = e.next_hop
                             /\ \A f \in Containing(a) : node_to_mask[f.dest] <= node_to_mask[e.dest]
    OBVIOUS
  <2>1. \/ Containing(a) = {} /\ answer' = NoNode
        \/ \E e \in Containing(a) : /\ \A f \in Containing(a) : ~Longer(f, e)
                                    /\ answer' = e.next_hop
    BY <1>3, Matching DEF LookupRoute
  <2>2. ASSUME NEW e \in Containing(a), NEW f \in Containing(a), ~Longer(f, e)
        PROVE  node_to_mask[f.dest] <= node_to_mask[e.dest]
    <3>1. e \in table /\ f \in table
      BY DEF Containing
    <3>2. /\ node_to_mask[e.dest] \in 0..Width /\ e.mask = MaskOfPrefix(node_to_mask[e.dest])
          /\ node_to_mask[f.dest] \in 0..Width /\ f.mask = MaskOfPrefix(node_to_mask[f.dest])
      BY <1>3, <3>1 DEF SubnetsHold
    <3>3. /\ PrefixLength(e.mask) = node_to_mask[e.dest]
          /\ PrefixLength(f.mask) = node_to_mask[f.dest]
      BY <3>2, PrefixLengthOfMask
    <3> QED
      BY <2>2, <3>2, <3>3, Words DEF Longer
  <2> QED
    BY <2>1, <2>2
<1>4. SubnetsHold => [\A a \in Addresses : Wins(a)]_vars
  BY <1>3
<1> QED
  BY <1>1, <1>2, <1>4, PTL DEF Spec, LongestPrefix

-----------------------------------------------------------------------------
(* Parsing an address.                                                     *)

\* The parsers after the first n characters.
ParsersTo(p, text, n, after) ==
  after = [i \in 0..n |-> IF i = 0 THEN p ELSE ParseChar(after[i-1], text[i])]

(* They exist ...                                                          *)
LEMMA ParsersExist ==
  ASSUME NEW p, NEW text
  PROVE  \A n \in Nat : \E after : ParsersTo(p, text, n, after)
<1> DEFINE T == {n \in Nat : ~ \E after : ParsersTo(p, text, n, after)}
<1> SUFFICES ASSUME T # {} PROVE FALSE
  OBVIOUS
<1>1. PICK n \in T : \A m \in T : n <= m
  <2>1. T \subseteq Nat
    OBVIOUS
  <2> HIDE DEF T
  <2> QED
    BY <2>1, LeastNumber
<1>2. CASE n = 0
  <2>1. ParsersTo(p, text, 0, [i \in 0..0 |-> p])
    BY DEF ParsersTo
  <2> QED
    BY <1>2, <2>1
<1>3. CASE n # 0
  <2>1. n-1 \in Nat /\ n-1 \notin T
    BY <1>1, <1>3
  <2>2. PICK after : ParsersTo(p, text, n-1, after)
    BY <2>1
  <2> DEFINE next == [i \in 0..n |-> IF i = 0 THEN p ELSE ParseChar(after[i-1], text[i])]
  <2>3. \A i \in 0..n-1 : next[i] = after[i]
    BY <2>2 DEF ParsersTo
  <2>4. \A i \in 0..n : i # 0 => i-1 \in 0..n-1 /\ next[i-1] = after[i-1]
    <3>1. \A i \in 0..n : i # 0 => i-1 \in 0..n-1
      BY <2>1
    <3> HIDE DEF next
    <3> QED
      BY <2>3, <3>1
  <2>5. next = [i \in 0..n |-> IF i = 0 THEN p ELSE ParseChar(next[i-1], text[i])]
    BY <2>4
  <2>6. ParsersTo(p, text, n, next)
    BY <2>5 DEF ParsersTo
  <2> QED
    BY <2>6
<1> QED
  BY <1>2, <1>3

\* after[i] is the parser after i characters, and after[0] is p.
CharRun(p, text, after) ==
  /\ after[0] = p
  /\ \A i \in 1..Len(text) : after[i] = ParseChar(after[i-1], text[i])

(* ... are the same in every account of them ...                           *)
LEMMA CharRunsAgree ==
  ASSUME NEW p, NEW text, NEW a, NEW b, CharRun(p, text, a), CharRun(p, text, b),
         Len(text) \in Nat
  PROVE  a[Len(text)] = b[Len(text)]
<1>1. PICK n \in Nat : n = Len(text)
  OBVIOUS
<1> DEFINE T == {i \in 0..n : a[i] # b[i]}
<1> SUFFICES ASSUME T # {} PROVE FALSE
  BY <1>1
<1>2. PICK i \in T : \A j \in T : i <= j
  <2>1. T \subseteq Nat
    OBVIOUS
  <2> HIDE DEF T
  <2> QED
    BY <2>1, LeastNumber
<1>3. i # 0
  BY <1>2 DEF CharRun
<1>4. i-1 \in 0..n /\ i-1 \notin T /\ i \in 1..n
  BY <1>2, <1>3
<1>5. a[i] = ParseChar(a[i-1], text[i]) /\ b[i] = ParseChar(b[i-1], text[i])
  BY <1>1, <1>4 DEF CharRun
<1> QED
  BY <1>2, <1>4, <1>5

(* ... and the last one is what the loop leaves.                           *)
LEMMA CharsRun ==
  ASSUME NEW p, NEW text, Len(text) \in Nat
  PROVE  \E after : CharRun(p, text, after) /\ ParseChars(p, text) = after[Len(text)]
<1> DEFINE after == CHOOSE a : ParsersTo(p, text, Len(text), a)
<1>1. ParsersTo(p, text, Len(text), after)
  BY ParsersExist
<1>2. ParseChars(p, text) = after[Len(text)]
  BY DEF ParseChars, ParsersTo
<1> HIDE DEF after
<1>3. CharRun(p, text, after)
  BY <1>1 DEF CharRun, ParsersTo
<1> QED
  BY <1>2, <1>3

(* The end of a run is what the loop leaves.                               *)
LEMMA RunEnds ==
  ASSUME NEW p, NEW text, Len(text) \in Nat, NEW after, CharRun(p, text, after)
  PROVE  ParseChars(p, text) = after[Len(text)]
BY CharsRun, CharRunsAgree

(* Joining texts is associative.                                           *)
LEMMA TextsAssociate ==
  ASSUME NEW s \in Seq(0..11), NEW t \in Seq(0..11), NEW u \in Seq(0..11)
  PROVE  (s \o t) \o u = s \o (t \o u)
OBVIOUS

(* Parsing a text in two parts.                                            *)
LEMMA TextsCompose ==
  ASSUME NEW p, NEW S, NEW s \in Seq(S), NEW t \in Seq(S)
  PROVE  ParseChars(p, s \o t) = ParseChars(ParseChars(p, s), t)
<1>1. PICK m \in Nat, n \in Nat : m = Len(s) /\ n = Len(t)
  OBVIOUS
<1>2. PICK a : CharRun(p, s, a) /\ ParseChars(p, s) = a[m]
  BY <1>1, CharsRun
<1>3. PICK b : CharRun(a[m], t, b) /\ ParseChars(a[m], t) = b[n]
  BY <1>1, CharsRun
<1>4. PICK u : u = s \o t
  OBVIOUS
<1>5. Len(u) = m + n /\ \A i \in 1..m+n : u[i] = IF i <= m THEN s[i] ELSE t[i-m]
  BY <1>1, <1>4
<1> DEFINE c == [i \in 0..m+n |-> IF i <= m THEN a[i] ELSE b[i-m]]
<1>6. CharRun(p, u, c)
  <2>1. c[0] = p
    BY <1>2 DEF CharRun
  <2>2. ASSUME NEW i \in 1..m+n PROVE c[i] = ParseChar(c[i-1], u[i])
    <3>1. i-1 \in 0..m+n /\ i \in 0..m+n
      OBVIOUS
    <3>2. ASSUME i <= m PROVE c[i] = ParseChar(c[i-1], u[i])
      <4>1. i \in 1..m /\ i-1 <= m
        BY <3>2
      <4>2. a[i] = ParseChar(a[i-1], s[i])
        BY <1>1, <1>2, <4>1 DEF CharRun
      <4> QED
        BY <1>5, <3>1, <3>2, <4>1, <4>2
    <3>3. ASSUME i > m PROVE c[i] = ParseChar(c[i-1], u[i])
      <4>1. i-m \in 1..n /\ (i-m)-1 = (i-1)-m
        BY <3>3
      <4>2. b[i-m] = ParseChar(b[(i-1)-m], t[i-m])
        BY <1>1, <1>3, <4>1 DEF CharRun
      <4>3. c[i-1] = b[(i-1)-m]
        <5>1. CASE i-1 = m
          <6>1. (i-1)-m = 0 /\ c[i-1] = a[m]
            BY <3>1, <5>1
          <6> QED
            BY <1>3, <6>1 DEF CharRun
        <5>2. CASE i-1 # m
          BY <3>1, <3>3, <5>2
        <5> QED
          BY <5>1, <5>2
      <4>4. ~ (i <= m)
        BY <3>3
      <4> QED
        BY <1>5, <3>1, <4>2, <4>3, <4>4
    <3>4. i <= m \/ i > m
      OBVIOUS
    <3> HIDE DEF c
    <3> QED
      BY <3>2, <3>3, <3>4
  <2> HIDE DEF c
  <2> QED
    BY <1>5, <2>1, <2>2 DEF CharRun
<1>7. c[m+n] = b[n]
  <2>1. CASE n = 0
    BY <1>3, <2>1 DEF CharRun
  <2>2. CASE n # 0
    <3>1. ~ (m+n <= m) /\ (m+n)-m = n /\ m+n \in 0..m+n
      BY <2>2
    <3> QED
      BY <3>1
  <2> QED
    BY <2>1, <2>2
<1> HIDE DEF c
<1>8. ParseChars(p, u) = c[m+n]
  <2>1. Len(u) \in Nat
    BY <1>5
  <2> QED
    BY <1>5, <1>6, <2>1, RunEnds
<1> QED
  BY <1>2, <1>3, <1>4, <1>7, <1>8

(* A text of one character, and the empty text.                            *)
LEMMA OneChar ==
  ASSUME NEW p, NEW ch
  PROVE  ParseChars(p, <<ch>>) = ParseChar(p, ch)
<1>1. PICK text : text = <<ch>>
  OBVIOUS
<1>2. Len(text) = 1 /\ text[1] = ch
  BY <1>1
<1>3. PICK after : CharRun(p, text, after) /\ ParseChars(p, text) = after[Len(text)]
  BY <1>2, CharsRun
<1>4. after[1] = ParseChar(after[0], text[1]) /\ after[0] = p
  <2>1. 1 \in 1..Len(text) /\ 1-1 = 0
    BY <1>2
  <2> QED
    BY <1>3, <2>1 DEF CharRun
<1> QED
  BY <1>1, <1>2, <1>3, <1>4

\* The constructor threw.
Threw(p) == "thrown" \in DOMAIN p /\ p.thrown

\* A parser that did not throw.
At(result, octets, octet, digit) ==
  [result |-> result, octets |-> octets, octet |-> octet, digit |-> digit, thrown |-> FALSE]

(* What a digit and the other characters do ...                            *)
LEMMA DigitStep ==
  ASSUME NEW r, NEW o, NEW x \in Nat, NEW d, NEW ch \in 0..9 \union {Other}
  PROVE  IF ch \in 0..9 /\ 10 * x + ch <= OctetMax
         THEN ParseChar(At(r, o, x, d), ch) = At(r, o, 10 * x + ch, TRUE)
         ELSE Threw(ParseChar(At(r, o, x, d), ch))
<1>1. /\ At(r, o, x, d).thrown = FALSE /\ At(r, o, x, d).octet = x
      /\ ch # Dot
       /\ At(r, o, x, d).result = r /\ At(r, o, x, d).octets = o
  BY DEF At, Dot, Other
<1>2. x * 10 + ch = 10 * x + ch /\ 10 * x + ch \in Nat /\ OctetMax \in Int
  <2>1. 2^OctetBits \in Nat
    BY AddressingAssumption, Powers
  <2> QED
    BY <2>1 DEF OctetMax, Other
<1>3. Extend(At(r, o, x, d), ch) = At(r, o, x * 10 + ch, TRUE)
  BY <1>1 DEF At, Extend
<1>4. Malformed(At(r, o, x, d), ch) <=> ~ (ch \in 0..9 /\ 10 * x + ch <= OctetMax)
  BY <1>1, <1>2 DEF Malformed
<1>5. Threw([At(r, o, x, d) EXCEPT !.thrown = TRUE])
  BY DEF At, Threw
<1> QED
  BY <1>1, <1>2, <1>3, <1>4, <1>5 DEF ParseChar

(* ... and a dot.                                                          *)
LEMMA DotStep ==
  ASSUME NEW r, NEW o \in Nat, NEW x, NEW d \in BOOLEAN
  PROVE  IF d /\ o < 3
         THEN ParseChar(At(r, o, x, d), Dot) = At(r * 2^OctetBits + x, o + 1, 0, FALSE)
         ELSE Threw(ParseChar(At(r, o, x, d), Dot))
<1>1. /\ At(r, o, x, d).thrown = FALSE /\ At(r, o, x, d).octet = x /\ At(r, o, x, d).octets = o
      /\ At(r, o, x, d).digit = d /\ At(r, o, x, d).result = r
  BY DEF At
<1>2. Separate(At(r, o, x, d)) = At(r * 2^OctetBits + x, o + 1, 0, FALSE)
  BY <1>1 DEF At, Separate
<1>3. Malformed(At(r, o, x, d), Dot) <=> ~ (d /\ o < 3)
  BY <1>1 DEF Malformed, Dot
<1>4. Threw([At(r, o, x, d) EXCEPT !.thrown = TRUE])
  BY DEF At, Threw
<1> QED
  BY <1>1, <1>2, <1>3, <1>4 DEF ParseChar

(* A constructor that threw does nothing any more.                         *)
LEMMA ThrownStays ==
  ASSUME NEW p, Threw(p), NEW text, Len(text) \in Nat
  PROVE  Threw(ParseChars(p, text))
<1>1. PICK n \in Nat : n = Len(text)
  OBVIOUS
<1>2. PICK after : CharRun(p, text, after) /\ ParseChars(p, text) = after[n]
  BY <1>1, CharsRun
<1> DEFINE T == {i \in 0..n : ~ Threw(after[i])}
<1> SUFFICES ASSUME T # {} PROVE FALSE
  BY <1>2
<1>3. PICK i \in T : \A j \in T : i <= j
  <2>1. T \subseteq Nat
    OBVIOUS
  <2> HIDE DEF T
  <2> QED
    BY <2>1, LeastNumber
<1>4. i # 0
  BY <1>2, <1>3 DEF CharRun
<1>5. i-1 \in 0..n /\ i-1 \notin T /\ i \in 1..n
  BY <1>3, <1>4
<1>6. PICK q, ch : q = after[i-1] /\ ch = text[i]
  OBVIOUS
<1>7. Threw(q) /\ after[i] = ParseChar(q, ch)
  BY <1>1, <1>2, <1>5, <1>6 DEF CharRun
<1>8. ParseChar(q, ch) = [q EXCEPT !.thrown = TRUE]
  BY <1>7 DEF ParseChar, Threw
<1>9. Threw(after[i])
  BY <1>7, <1>8 DEF Threw
<1> QED
  BY <1>3, <1>9

-----------------------------------------------------------------------------
(* Numerals.                                                               *)

\* The values of the first n digits.
ValuesTo(s, n, value) == value = [i \in 0..n |-> IF i = 0 THEN 0 ELSE 10 * value[i-1] + s[i]]

(* They exist ...                                                          *)
LEMMA ValuesExist ==
  ASSUME NEW s
  PROVE  \A n \in Nat : \E value : ValuesTo(s, n, value)
<1> DEFINE T == {n \in Nat : ~ \E value : ValuesTo(s, n, value)}
<1> SUFFICES ASSUME T # {} PROVE FALSE
  OBVIOUS
<1>1. PICK n \in T : \A m \in T : n <= m
  <2>1. T \subseteq Nat
    OBVIOUS
  <2> HIDE DEF T
  <2> QED
    BY <2>1, LeastNumber
<1>2. CASE n = 0
  <2>1. ValuesTo(s, 0, [i \in 0..0 |-> 0])
    BY DEF ValuesTo
  <2> QED
    BY <1>2, <2>1
<1>3. CASE n # 0
  <2>1. n-1 \in Nat /\ n-1 \notin T
    BY <1>1, <1>3
  <2>2. PICK value : ValuesTo(s, n-1, value)
    BY <2>1
  <2> DEFINE next == [i \in 0..n |-> IF i = 0 THEN 0 ELSE 10 * value[i-1] + s[i]]
  <2>3. \A i \in 0..n-1 : next[i] = value[i]
    BY <2>2 DEF ValuesTo
  <2>4. \A i \in 0..n : i # 0 => i-1 \in 0..n-1 /\ next[i-1] = value[i-1]
    <3>1. \A i \in 0..n : i # 0 => i-1 \in 0..n-1
      BY <2>1
    <3> HIDE DEF next
    <3> QED
      BY <2>3, <3>1
  <2>5. next = [i \in 0..n |-> IF i = 0 THEN 0 ELSE 10 * next[i-1] + s[i]]
    BY <2>4
  <2>6. ValuesTo(s, n, next)
    BY <2>5 DEF ValuesTo
  <2> QED
    BY <2>6
<1> QED
  BY <1>2, <1>3

\* value[i] is the value of the first i digits.
DigitRun(s, value) ==
  /\ value[0] = 0
  /\ \A i \in 1..Len(s) : value[i] = 10 * value[i-1] + s[i]

(* ... and the last one is the value.                                      *)
LEMMA ValueRun ==
  ASSUME NEW s, Len(s) \in Nat
  PROVE  \E value : DigitRun(s, value) /\ Value(s) = value[Len(s)]
<1> DEFINE value == CHOOSE v : ValuesTo(s, Len(s), v)
<1>1. ValuesTo(s, Len(s), value)
  BY ValuesExist
<1>2. Value(s) = value[Len(s)]
  BY DEF Value, ValuesTo
<1> HIDE DEF value
<1>3. DigitRun(s, value)
  BY <1>1 DEF DigitRun, ValuesTo
<1> QED
  BY <1>2, <1>3

\* What is between the dots of a text, and that it is an octet.
Segment == Seq(0..9 \union {Other})
Digits(s) == \A i \in 1..Len(s) : s[i] \in 0..9
Fits(s) == Digits(s) /\ Value(s) <= OctetMax

(* What the parser makes of a segment.                                     *)
LEMMA SegmentParsed ==
  ASSUME NEW r, NEW o, NEW s \in Segment
  PROVE  /\ Value(s) \in Nat
         /\ IF Fits(s) THEN ParseChars(At(r, o, 0, FALSE), s) = At(r, o, Value(s), s # <<>>)
            ELSE Threw(ParseChars(At(r, o, 0, FALSE), s))
<1>1. PICK n \in Nat : n = Len(s)
  BY DEF Segment
<1>2. PICK a : CharRun(At(r, o, 0, FALSE), s, a) /\ ParseChars(At(r, o, 0, FALSE), s) = a[n]
  BY <1>1, CharsRun
<1>3. PICK v : DigitRun(s, v) /\ Value(s) = v[n]
  BY <1>1, ValueRun
<1> DEFINE Fit(i) == (\A j \in 1..i : s[j] \in 0..9) /\ v[i] <= OctetMax
           Good(i) == /\ v[i] \in Nat
                      /\ IF Fit(i) THEN a[i] = At(r, o, v[i], i # 0) ELSE Threw(a[i])
           T == {i \in 0..n : ~ Good(i)}
<1>4. OctetMax \in Nat
  <2>1. 2^OctetBits \in Nat \ {0}
    BY AddressingAssumption, Powers
  <2> QED
    BY <2>1 DEF OctetMax
<1>5. \A i \in 0..n : Good(i)
  <2> SUFFICES ASSUME T # {} PROVE FALSE
    OBVIOUS
  <2>1. PICK i \in T : \A j \in T : i <= j
    <3>1. T \subseteq Nat
      OBVIOUS
    <3> HIDE DEF T
    <3> QED
      BY <3>1, LeastNumber
  <2>2. i # 0
    <3>1. v[0] = 0 /\ a[0] = At(r, o, 0, FALSE)
      BY <1>2, <1>3 DEF CharRun, DigitRun
    <3>2. Fit(0) /\ v[0] \in Nat
      BY <1>4, <3>1
    <3>3. (0 # 0) = FALSE
      OBVIOUS
    <3>4. Good(0)
      BY <3>1, <3>2, <3>3, Zenon
    <3> HIDE DEF Good
    <3> QED
      BY <2>1, <3>4
  <2>3. i-1 \in 0..n /\ i-1 \notin T /\ i \in 1..n /\ i-1 \in Nat
    BY <2>1, <2>2
  <2>4. Good(i-1)
    BY <2>3
  <2>5. PICK x \in Nat, ch \in 0..9 \union {Other} : x = v[i-1] /\ ch = s[i]
    <3>1. s[i] \in 0..9 \union {Other}
      BY <1>1, <2>3 DEF Segment
    <3> QED
      BY <2>4, <3>1
  <2>6. v[i] = 10 * x + ch /\ v[i] \in Nat /\ x <= v[i]
    <3>1. v[i] = 10 * x + ch
      BY <1>1, <1>3, <2>3, <2>5 DEF DigitRun
    <3>2. ch \in Nat
      BY DEF Other
    <3> QED
      BY <3>1, <3>2
  <2>7. a[i] = ParseChar(a[i-1], ch)
    BY <1>1, <1>2, <2>3, <2>5 DEF CharRun
  <2>8. Fit(i) <=> Fit(i-1) /\ ch \in 0..9 /\ v[i] <= OctetMax
    <3>1. v[i] <= OctetMax => v[i-1] <= OctetMax
      BY <1>4, <2>5, <2>6
    <3>2. 1..i = (1..i-1) \union {i}
      BY <2>3
    <3>3. (\A j \in 1..i : s[j] \in 0..9) <=> (\A j \in 1..i-1 : s[j] \in 0..9) /\ ch \in 0..9
      BY <2>5, <3>2
    <3> QED
      BY <3>1, <3>3, Zenon
  <2>9. CASE Fit(i-1)
    <3>1. a[i-1] = At(r, o, x, i-1 # 0)
      BY <2>4, <2>5, <2>9
    <3>2. IF ch \in 0..9 /\ v[i] <= OctetMax THEN a[i] = At(r, o, v[i], TRUE) ELSE Threw(a[i])
      BY <2>6, <2>7, <3>1, DigitStep
    <3>3. Good(i)
      BY <2>2, <2>6, <2>8, <2>9, <3>2
    <3> QED
      BY <2>1, <3>3
  <2>10. CASE ~ Fit(i-1)
    <3>1. Threw(a[i-1])
      BY <2>4, <2>10
    <3>2. PICK one : one = <<ch>>
      OBVIOUS
    <3>6. Len(one) \in Nat
      BY <3>2
    <3>3. Threw(ParseChars(a[i-1], one))
      BY <3>1, <3>6, ThrownStays
    <3>4. Threw(a[i])
      BY <2>7, <3>2, <3>3, OneChar
    <3>5. Good(i)
      BY <2>6, <2>8, <2>10, <3>4
    <3> QED
      BY <2>1, <3>5
  <2> QED
    BY <2>9, <2>10
<1>6. Good(n)
  BY <1>5
<1>7. Fit(n) <=> Fits(s)
  BY <1>1, <1>3 DEF Fits, Digits
<1>8. n # 0 <=> s # <<>>
  BY <1>1 DEF Segment
<1> QED
  BY <1>2, <1>3, <1>6, <1>7, <1>8

\* The texts of the first n segments.
TextsTo(list, n, text) ==
  text = [i \in 1..n |-> IF i = 1 THEN list[1] ELSE text[i-1] \o <<Dot>> \o list[i]]

(* They exist ...                                                          *)
LEMMA TextsExist ==
  ASSUME NEW list
  PROVE  \A n \in Nat : \E text : TextsTo(list, n, text)
<1> DEFINE T == {n \in Nat : ~ \E text : TextsTo(list, n, text)}
<1> SUFFICES ASSUME T # {} PROVE FALSE
  OBVIOUS
<1>1. PICK n \in T : \A m \in T : n <= m
  <2>1. T \subseteq Nat
    OBVIOUS
  <2> HIDE DEF T
  <2> QED
    BY <2>1, LeastNumber
<1>2. CASE n = 0
  <2>1. PICK f : f = [i \in 1..0 |-> list[1]]
    OBVIOUS
  <2>2. f = [i \in 1..0 |-> IF i = 1 THEN list[1] ELSE f[i-1] \o <<Dot>> \o list[i]]
    BY <2>1
  <2> QED
    BY <1>2, <2>2 DEF TextsTo
<1>3. CASE n # 0
  <2>1. n-1 \in Nat /\ n-1 \notin T
    BY <1>1, <1>3
  <2>2. PICK text : TextsTo(list, n-1, text)
    BY <2>1
  <2> DEFINE next == [i \in 1..n |-> IF i = 1 THEN list[1] ELSE text[i-1] \o <<Dot>> \o list[i]]
  <2>3. \A i \in 1..n-1 : next[i] = text[i]
    <3>1. \A i \in 1..n-1 : text[i] = IF i = 1 THEN list[1] ELSE text[i-1] \o <<Dot>> \o list[i]
      BY <2>2 DEF TextsTo
    <3>2. \A i \in 1..n-1 : i \in 1..n
      BY <2>1
    <3> QED
      BY <3>1, <3>2, Zenon
  <2>4. \A i \in 1..n : i # 1 => i-1 \in 1..n-1 /\ next[i-1] = text[i-1]
    <3>1. \A i \in 1..n : i # 1 => i-1 \in 1..n-1
      BY <2>1
    <3> HIDE DEF next
    <3> QED
      BY <2>3, <3>1
  <2>5. next = [i \in 1..n |-> IF i = 1 THEN list[1] ELSE next[i-1] \o <<Dot>> \o list[i]]
    BY <2>4, Zenon
  <2>6. TextsTo(list, n, next)
    BY <2>5 DEF TextsTo
  <2> QED
    BY <2>6
<1> QED
  BY <1>2, <1>3

\* text[i] joins the first i segments.
JoinRun(list, text) ==
  /\ text[1] = list[1]
  /\ \A i \in 2..Len(list) : text[i] = text[i-1] \o <<Dot>> \o list[i]

(* ... and the last one is all of them.                                    *)
LEMMA JoinedRun ==
  ASSUME NEW list, Len(list) \in Nat \ {0}
  PROVE  \E text : JoinRun(list, text) /\ Joined(list) = text[Len(list)]
<1> DEFINE text == CHOOSE t : TextsTo(list, Len(list), t)
<1>1. TextsTo(list, Len(list), text)
  BY TextsExist
<1>2. Joined(list) = text[Len(list)]
  BY DEF Joined, TextsTo
<1> HIDE DEF text
<1>3. \A i \in 1..Len(list) : text[i] = IF i = 1 THEN list[1] ELSE text[i-1] \o <<Dot>> \o list[i]
  BY <1>1 DEF TextsTo
<1>4. 1 \in 1..Len(list) /\ \A i \in 2..Len(list) : i \in 1..Len(list) /\ i # 1
  OBVIOUS
<1>5. JoinRun(list, text)
  BY <1>3, <1>4, Zenon DEF JoinRun
<1> QED
  BY <1>2, <1>5

\* The number that the first n octets make.
NamedBy(list, n) ==
  IF n = 0 THEN 0
  ELSE IF n = 1 THEN Value(list[1])
  ELSE IF n = 2 THEN Value(list[1]) * 2^OctetBits + Value(list[2])
  ELSE (Value(list[1]) * 2^OctetBits + Value(list[2])) * 2^OctetBits + Value(list[3])

\* The first n segments can be the beginning of an address.
Leading(list, n) ==
  /\ n <= 4
  /\ \A j \in 1..n : Fits(list[j])
  /\ \A j \in 1..n-1 : list[j] # <<>>

(* A dot and a segment.                                                    *)
LEMMA NextSegment ==
  ASSUME NEW list \in Seq(Segment), NEW i \in 1..Len(list)-1, NEW p,
         IF Leading(list, i) THEN p = At(NamedBy(list, i-1), i-1, Value(list[i]), list[i] # <<>>)
         ELSE Threw(p)
  PROVE  IF Leading(list, i+1)
         THEN ParseChars(p, <<Dot>> \o list[i+1])
                = At(NamedBy(list, i), i, Value(list[i+1]), list[i+1] # <<>>)
         ELSE Threw(ParseChars(p, <<Dot>> \o list[i+1]))
<1>1. i \in Nat \ {0} /\ i+1 \in Nat /\ i \in 1..Len(list) /\ i+1 \in 1..Len(list)
  OBVIOUS
<1>2. PICK s : s = list[i+1]
  OBVIOUS
<1>3. s \in Segment /\ list[i] \in Segment
  BY <1>1, <1>2
<1>4. PICK dot : dot = <<Dot>>
  OBVIOUS
<1>5. dot \in Seq(0..11) /\ s \in Seq(0..11)
  BY <1>3, <1>4 DEF Dot, Other, Segment
<1>6. ParseChars(p, dot \o s) = ParseChars(ParseChar(p, Dot), s)
  <2>1. ParseChars(p, dot) = ParseChar(p, Dot)
    BY <1>4, OneChar
  <2> QED
    BY <1>5, <2>1, TextsCompose
<1>7. Leading(list, i+1) <=> Leading(list, i) /\ i < 4 /\ list[i] # <<>> /\ Fits(s)
  <2>1. 1..i+1 = (1..i) \union {i+1} /\ 1..(i+1)-1 = (1..i-1) \union {i}
    BY <1>1
  <2>2. i+1 <= 4 <=> i <= 4 /\ i < 4
    BY <1>1
  <2> QED
    BY <1>2, <2>1, <2>2 DEF Leading
<1>8. ASSUME Threw(ParseChar(p, Dot)) PROVE Threw(ParseChars(p, dot \o s))
  <2>1. Len(s) \in Nat
    BY <1>3 DEF Segment
  <2> QED
    BY <1>6, <1>8, <2>1, ThrownStays
<1>9. ASSUME ~ Leading(list, i) PROVE Threw(ParseChars(p, dot \o s))
  <2>1. Threw(ParseChars(p, dot))
    <3>1. Len(dot) \in Nat
      BY <1>4
    <3> QED
      BY <1>9, <3>1, ThrownStays
  <2>2. Threw(ParseChar(p, Dot))
    BY <1>4, <2>1, OneChar
  <2> QED
    BY <1>8, <2>2
<1>10. ASSUME Leading(list, i)
       PROVE  IF list[i] # <<>> /\ i < 4 THEN ParseChar(p, Dot) = At(NamedBy(list, i), i, 0, FALSE)
              ELSE Threw(ParseChar(p, Dot))
  <2>6. PICK d \in BOOLEAN : d = (list[i] # <<>>)
    OBVIOUS
  <2>1. PICK r, x : r = NamedBy(list, i-1) /\ x = Value(list[i])
    OBVIOUS
  <2>2. p = At(r, i-1, x, d)
    BY <1>10, <2>1, <2>6
  <2>3. i-1 \in Nat /\ (i-1) + 1 = i /\ (i-1 < 3 <=> i < 4)
    BY <1>1
  <2>4. IF d /\ i-1 < 3 THEN ParseChar(p, Dot) = At(r * 2^OctetBits + x, i, 0, FALSE)
        ELSE Threw(ParseChar(p, Dot))
    BY <2>2, <2>3, DotStep
  <2>5. ASSUME i < 4 PROVE r * 2^OctetBits + x = NamedBy(list, i)
    <3>3. x \in Nat
      BY <1>3, <2>1, SegmentParsed
    <3>4. OctetBits \in Nat
      BY AddressingAssumption
    <3>1. x \in Nat /\ 2^OctetBits \in Nat
      BY <3>3, <3>4, Powers
    <3>2. i = 1 \/ i = 2 \/ i = 3
      BY <1>1, <2>5
    <3> QED
      BY <2>1, <3>1, <3>2 DEF NamedBy
  <2> QED
    BY <2>1, <2>3, <2>4, <2>5, <2>6
<1>11. ASSUME Leading(list, i), list[i] # <<>>, i < 4
       PROVE  IF Fits(s) THEN ParseChars(p, dot \o s) = At(NamedBy(list, i), i, Value(s), s # <<>>)
              ELSE Threw(ParseChars(p, dot \o s))
  <2>1. ParseChar(p, Dot) = At(NamedBy(list, i), i, 0, FALSE)
    BY <1>10, <1>11
  <2> QED
    BY <1>3, <1>6, <2>1, SegmentParsed
<1> QED
  BY <1>2, <1>4, <1>7, <1>8, <1>9, <1>10, <1>11

(* What the parser makes of segments with dots between them.               *)
LEMMA JoinedParsed ==
  ASSUME NEW list \in Seq(Segment), list # <<>>
  PROVE  IF Leading(list, Len(list))
         THEN ParseChars(Fresh, Joined(list))
                = At(NamedBy(list, Len(list) - 1), Len(list) - 1, Value(list[Len(list)]), list[Len(list)] # <<>>)
         ELSE Threw(ParseChars(Fresh, Joined(list)))
<1>1. PICK n \in Nat \ {0} : n = Len(list)
  OBVIOUS
<1>2. PICK text : JoinRun(list, text) /\ Joined(list) = text[n]
  BY <1>1, JoinedRun
<1> DEFINE Good(i) ==
      /\ text[i] \in Seq(0..11)
      /\ IF Leading(list, i)
         THEN ParseChars(Fresh, text[i]) = At(NamedBy(list, i-1), i-1, Value(list[i]), list[i] # <<>>)
         ELSE Threw(ParseChars(Fresh, text[i]))
           T == {i \in 1..n : ~ Good(i)}
<1>3. Good(1)
  <2>1. PICK s : s = list[1] /\ s = text[1]
    BY <1>2 DEF JoinRun
  <2>2. s \in Segment
    <3>1. 1 \in 1..Len(list)
      BY <1>1
    <3>2. list[1] \in Segment
      BY <3>1
    <3> QED
      BY <2>1, <3>2
  <2>3. Fresh = At(0, 0, 0, FALSE)
    BY DEF Fresh, At
  <2>4. IF Fits(s) THEN ParseChars(Fresh, s) = At(0, 0, Value(s), s # <<>>)
        ELSE Threw(ParseChars(Fresh, s))
    BY <2>2, <2>3, SegmentParsed
  <2>5. Leading(list, 1) <=> Fits(s)
    <3>1. 1..1 = {1} /\ 1..1-1 = {} /\ 1 <= 4
      OBVIOUS
    <3> QED
      BY <2>1, <3>1 DEF Leading
  <2>6. NamedBy(list, 1-1) = 0 /\ 1-1 = 0
    BY DEF NamedBy
  <2>7. s \in Seq(0..11)
    BY <2>2 DEF Segment, Other
  <2> QED
    BY <2>1, <2>4, <2>5, <2>6, <2>7
<1>4. ASSUME NEW i \in 1..n-1, Good(i) PROVE Good(i+1)
  <2>1. PICK p : p = ParseChars(Fresh, text[i])
    OBVIOUS
  <2>2. i \in 1..Len(list)-1 /\ i+1 \in 2..n /\ (i+1)-1 = i /\ i+1 \in 1..Len(list)
    BY <1>1
  <2>3. PICK s, dot, t : s = list[i+1] /\ dot = <<Dot>> /\ t = text[i]
    OBVIOUS
  <2>4. s \in Seq(0..11) /\ dot \in Seq(0..11) /\ t \in Seq(0..11)
    <3>1. s \in Segment
      BY <2>2, <2>3
    <3> QED
      BY <1>4, <2>3, <3>1 DEF Segment, Dot, Other
  <2>5. text[i+1] = t \o dot \o s
    BY <1>1, <1>2, <2>2, <2>3 DEF JoinRun
  <2>6. (t \o dot) \o s = t \o (dot \o s) /\ dot \o s \in Seq(0..11)
    BY <2>4
  <2>7. ParseChars(Fresh, text[i+1]) = ParseChars(p, dot \o s)
    <3>1. PICK u : u = dot \o s
      OBVIOUS
    <3>2. text[i+1] = t \o u /\ u \in Seq(0..11)
      BY <2>5, <2>6, <3>1
    <3>3. ParseChars(Fresh, t \o u) = ParseChars(ParseChars(Fresh, t), u)
      BY <2>4, <3>2, TextsCompose
    <3> QED
      BY <2>1, <2>3, <3>1, <3>2, <3>3
  <2>8. text[i+1] \in Seq(0..11)
    BY <2>4, <2>5
  <2>9. IF Leading(list, i) THEN p = At(NamedBy(list, i-1), i-1, Value(list[i]), list[i] # <<>>)
        ELSE Threw(p)
    BY <1>4, <2>1
  <2>10. IF Leading(list, i+1)
         THEN ParseChars(p, <<Dot>> \o list[i+1])
                = At(NamedBy(list, i), i, Value(list[i+1]), list[i+1] # <<>>)
         ELSE Threw(ParseChars(p, <<Dot>> \o list[i+1]))
    BY <2>2, <2>9, NextSegment
  <2> QED
    BY <2>2, <2>3, <2>7, <2>8, <2>10
<1> HIDE DEF Good
<1>5. Good(n)
  <2> SUFFICES ASSUME T # {} PROVE FALSE
    OBVIOUS
  <2>1. PICK i \in T : \A j \in T : i <= j
    <3>1. T \subseteq Nat
      OBVIOUS
    <3> HIDE DEF T
    <3> QED
      BY <3>1, LeastNumber
  <2>2. i # 1
    BY <1>3, <2>1
  <2>3. i-1 \in 1..n-1 /\ i-1 \in 1..n /\ i-1 \notin T /\ (i-1)+1 = i
    BY <2>1, <2>2
  <2>4. Good(i-1)
    BY <2>3
  <2> QED
    BY <1>4, <2>1, <2>3, <2>4
<1> QED
  BY <1>1, <1>2, <1>5 DEF Good

(* IPv4Address accepts exactly the texts of four numerals up to OctetMax   *)
(* with dots between them, and gives the address they name.                *)
THEOREM AddressesParsed ==
  ASSUME NEW list \in Seq(Segment), list # <<>>
  PROVE  ParseAddress(Joined(list)) = IF WellFormed(list) THEN Named(list) ELSE Rejected
<1>1. PICK n \in Nat \ {0} : n = Len(list)
  OBVIOUS
<1>2. PICK p : p = ParseChars(Fresh, Joined(list))
  OBVIOUS
<1>3. IF Leading(list, n) THEN p = At(NamedBy(list, n-1), n-1, Value(list[n]), list[n] # <<>>)
      ELSE Threw(p)
  BY <1>1, <1>2, JoinedParsed
<1>4. ParseAddress(Joined(list)) = IF Complete(p) THEN p.result * 2^OctetBits + p.octet ELSE Rejected
  BY <1>2 DEF ParseAddress
<1>5. \A i \in 1..n : Numeral(list[i]) <=> list[i] # <<>> /\ Digits(list[i])
  <2> SUFFICES ASSUME NEW i \in 1..n PROVE Numeral(list[i]) <=> list[i] # <<>> /\ Digits(list[i])
    OBVIOUS
  <2>1. PICK s : s = list[i]
    OBVIOUS
  <2>2. s \in Seq(0..9 \union {Other})
    BY <1>1, <2>1 DEF Segment
  <2>3. DOMAIN s = 1..Len(s)
    BY <2>2
  <2> QED
    BY <2>1, <2>3 DEF Numeral, Digits
<1>6. WellFormed(list) <=> Leading(list, n) /\ n = 4 /\ list[n] # <<>>
  <2>1. CASE n = 4
    <3>1. 1..4-1 = {1, 2, 3} /\ 1..4 = {1, 2, 3, 4} /\ 4 <= 4
      OBVIOUS
    <3>2. \A i \in 1..4 : Numeral(list[i]) /\ Value(list[i]) <= OctetMax
                            <=> list[i] # <<>> /\ Fits(list[i])
      BY <1>5, <2>1 DEF Fits
    <3> QED
      BY <1>1, <2>1, <3>1, <3>2 DEF WellFormed, Leading
  <2>2. CASE n # 4
    BY <1>1, <2>2 DEF WellFormed
  <2> QED
    BY <2>1, <2>2
<1>7. CASE Leading(list, n)
  <2>1. /\ p.thrown = FALSE /\ p.octets = n-1 /\ p.digit = (list[n] # <<>>)
        /\ p.result = NamedBy(list, n-1) /\ p.octet = Value(list[n])
    BY <1>3, <1>7 DEF At
  <2>2. Complete(p) <=> WellFormed(list)
    <3>1. n-1 = 3 <=> n = 4
      OBVIOUS
    <3>2. Complete(p) <=> n-1 = 3 /\ list[n] # <<>>
      BY <2>1 DEF Complete
    <3> QED
      BY <1>6, <1>7, <3>1, <3>2
  <2>3. n = 4 => NamedBy(list, n-1) * 2^OctetBits + Value(list[n]) = Named(list)
    BY DEF NamedBy, Named
  <2> QED
    BY <1>4, <1>6, <2>1, <2>2, <2>3
<1>8. CASE ~ Leading(list, n)
  <2>1. ~ Complete(p)
    BY <1>3, <1>8 DEF Threw, Complete
  <2> QED
    BY <1>4, <1>6, <1>8, <2>1
<1> QED
  BY <1>7, <1>8

(* The base of the octets.                                                 *)
LEMMA Base ==
  /\ OctetBits \in Nat /\ 2^OctetBits \in Nat \ {0} /\ 2^OctetBits <= 512
  /\ OctetMax = 2^OctetBits - 1 /\ OctetMax \in 0..511
<1>1. OctetBits \in Nat /\ OctetBits <= 9 /\ 9 \in Nat
  BY AddressingAssumption
<1>2. 2^OctetBits \in Nat \ {0} /\ 2^OctetBits <= 2^9
  BY <1>1, Powers, PowerMultiple
<1>3. 2^9 = 512
  OBVIOUS
<1> QED
  BY <1>1, <1>2, <1>3 DEF OctetMax

(* The value of a numeral of one, two and three digits.                    *)
LEMMA ShortValues ==
  ASSUME NEW s \in Seq(Int)
  PROVE  /\ Len(s) = 1 => Value(s) = s[1]
         /\ Len(s) = 2 => Value(s) = 10 * s[1] + s[2]
         /\ Len(s) = 3 => Value(s) = 10 * (10 * s[1] + s[2]) + s[3]
<1>1. PICK v : DigitRun(s, v) /\ Value(s) = v[Len(s)]
  BY ValueRun
<1>2. \A i \in 1..Len(s) : s[i] \in Int
  OBVIOUS
<1>3. v[0] = 0
  BY <1>1 DEF DigitRun
<1>4. 1 <= Len(s) => v[1] = s[1]
  <2> SUFFICES ASSUME 1 <= Len(s) PROVE v[1] = s[1]
    OBVIOUS
  <2>1. 1 \in 1..Len(s) /\ 1-1 = 0
    OBVIOUS
  <2>2. v[1] = 10 * v[1-1] + s[1]
    BY <1>1, <2>1 DEF DigitRun
  <2>3. s[1] \in Int
    BY <1>2, <2>1
  <2> QED
    BY <1>3, <2>1, <2>2, <2>3
<1>5. 2 <= Len(s) => v[2] = 10 * s[1] + s[2]
  <2> SUFFICES ASSUME 2 <= Len(s) PROVE v[2] = 10 * s[1] + s[2]
    OBVIOUS
  <2>1. 2 \in 1..Len(s) /\ 2-1 = 1
    OBVIOUS
  <2>2. v[2] = 10 * v[2-1] + s[2]
    BY <1>1, <2>1 DEF DigitRun
  <2> QED
    BY <1>4, <2>1, <2>2
<1>6. 3 <= Len(s) => v[3] = 10 * (10 * s[1] + s[2]) + s[3]
  <2> SUFFICES ASSUME 3 <= Len(s) PROVE v[3] = 10 * (10 * s[1] + s[2]) + s[3]
    OBVIOUS
  <2>1. 3 \in 1..Len(s) /\ 3-1 = 2
    OBVIOUS
  <2>2. v[3] = 10 * v[3-1] + s[3]
    BY <1>1, <2>1 DEF DigitRun
  <2> QED
    BY <1>5, <2>1, <2>2
<1>7. PICK k, y : k = Len(s) /\ y = Value(s)
  OBVIOUS
<1>8. y = v[k]
  BY <1>1, <1>7
<1>9. k = 1 => y = s[1]
  BY <1>4, <1>7, <1>8
<1>10. k = 2 => y = 10 * s[1] + s[2]
  BY <1>5, <1>7, <1>8
<1>11. k = 3 => y = 10 * (10 * s[1] + s[2]) + s[3]
  BY <1>6, <1>7, <1>8
<1> QED
  BY <1>7, <1>9, <1>10, <1>11

(* An octet is printed as a numeral of its value.                          *)
LEMMA DecimalValue ==
  ASSUME NEW v \in 0..OctetMax
  PROVE  Decimal(v) \in Segment /\ Numeral(Decimal(v)) /\ Value(Decimal(v)) = v
<1>1. v \in Nat /\ v <= 511
  BY Base
<1>2. ASSUME NEW s, NEW n \in 1..3, s \in Seq(0..9), Len(s) = n
      PROVE  s \in Segment /\ Numeral(s) /\ s \in Seq(Int)
  <2>1. s \in Segment /\ s \in Seq(Int)
    BY <1>2 DEF Segment
  <2>2. DOMAIN s = 1..n /\ s # <<>>
    BY <1>2
  <2>3. \A i \in DOMAIN s : s[i] \in 0..9
    BY <1>2
  <2> QED
    BY <2>1, <2>2, <2>3 DEF Numeral
<1>3. CASE v < 10
  <2>1. PICK s : s = <<v>>
    OBVIOUS
  <2>2. s \in Seq(0..9) /\ Len(s) = 1 /\ s[1] = v
    BY <1>1, <1>3, <2>1
  <2>3. Decimal(v) = s
    BY <1>3, <2>1 DEF Decimal
  <2> QED
    BY <1>2, <2>2, <2>3, ShortValues
<1>4. CASE ~ (v < 10) /\ v < 100
  <2>1. PICK x \in 0..9, y \in 0..9 : x = v \div 10 /\ y = v % 10 /\ v = 10 * x + y
    BY <1>1, <1>4
  <2>2. PICK s : s = <<x, y>>
    OBVIOUS
  <2>3. s \in Seq(0..9) /\ Len(s) = 2 /\ s[1] = x /\ s[2] = y
    BY <2>2
  <2>4. Decimal(v) = s
    BY <1>4, <2>1, <2>2 DEF Decimal
  <2> QED
    <3>1. s \in Segment /\ Numeral(s) /\ s \in Seq(Int)
      BY <1>2, <2>3
    <3>2. Value(s) = 10 * x + y
      BY <2>3, <3>1, ShortValues
    <3> QED
      BY <2>1, <2>4, <3>1, <3>2
<1>5. CASE ~ (v < 10) /\ ~ (v < 100)
  <2>1. PICK w \in 0..99, z \in 0..9 : w = v \div 10 /\ z = v % 10 /\ v = 10 * w + z
    BY <1>1, <1>5
  <2>2. PICK x \in 0..9, y \in 0..9 : x = w \div 10 /\ y = w % 10 /\ w = 10 * x + y
    OBVIOUS
  <2>3. x = v \div 100
    BY <1>1, <2>1, <2>2
  <2>4. PICK s : s = <<x, y, z>>
    OBVIOUS
  <2>5. s \in Seq(0..9) /\ Len(s) = 3 /\ s[1] = x /\ s[2] = y /\ s[3] = z
    BY <2>4
  <2>6. Decimal(v) = s
    BY <1>5, <2>1, <2>2, <2>3, <2>4 DEF Decimal
  <2> QED
    <3>1. s \in Segment /\ Numeral(s) /\ s \in Seq(Int)
      BY <1>2, <2>5
    <3>2. Value(s) = 10 * (10 * x + y) + z
      BY <2>5, <3>1, ShortValues
    <3>3. 10 * (10 * x + y) + z = v
      BY <2>1, <2>2
    <3> QED
      BY <2>6, <3>1, <3>2, <3>3
<1> QED
  BY <1>3, <1>4, <1>5

\* a is made of four digits in base b, the first is x3.
Horner(b, x3, x2, x1, x0) == ((x3 * b + x2) * b + x1) * b + x0

(* Such a number is below the fourth power of the base ...                 *)
LEMMA HornerBound ==
  ASSUME NEW b \in Nat \ {0}, NEW x3 \in 0..b-1, NEW x2 \in 0..b-1, NEW x1 \in 0..b-1, NEW x0 \in 0..b-1
  PROVE  Horner(b, x3, x2, x1, x0) \in 0..((b * b) * b) * b - 1
<1>1. ASSUME NEW B \in Nat \ {0}, NEW x \in 0..B-1, NEW y \in 0..b-1
      PROVE  x * b + y \in 0..B * b - 1 /\ B * b \in Nat \ {0}
  <2>1. (x + 1) * b <= B * b
    OBVIOUS
  <2>2. (x + 1) * b = x * b + b
    OBVIOUS
  <2>3. PICK c \in Nat, d \in Nat : c = x * b /\ d = B * b
    OBVIOUS
  <2>4. d # 0
    BY <2>3
  <2> QED
    BY <2>1, <2>2, <2>3, <2>4
<1>2. PICK y2 : y2 = x3 * b + x2 /\ y2 \in 0..b * b - 1
  BY <1>1
<1>3. PICK B2 \in Nat \ {0} : B2 = b * b
  BY <1>1
<1>4. y2 * b + x1 \in 0..B2 * b - 1 /\ B2 * b \in Nat \ {0}
  BY <1>1, <1>2, <1>3
<1>5. PICK y1 \in Nat, B1 \in Nat \ {0} : y1 = y2 * b + x1 /\ B1 = B2 * b
  BY <1>4
<1>6. y1 * b + x0 \in 0..B1 * b - 1
  BY <1>1, <1>4, <1>5
<1> QED
  BY <1>2, <1>3, <1>5, <1>6 DEF Horner

(* ... and every number below it is made so by division.                   *)
LEMMA HornerDigits ==
  ASSUME NEW b \in Nat \ {0}, NEW a \in 0..((b * b) * b) * b - 1
  PROVE  /\ a = Horner(b, (a \div ((b * b) * b)) % b, (a \div (b * b)) % b, (a \div b) % b, a % b)
         /\ (a \div ((b * b) * b)) % b \in 0..b-1 /\ (a \div (b * b)) % b \in 0..b-1
         /\ (a \div b) % b \in 0..b-1 /\ a % b \in 0..b-1
<1>1. a \in Nat
  OBVIOUS
<1>2. PICK q1 \in Nat, x0 \in 0..b-1 : q1 = a \div b /\ x0 = a % b /\ a = q1 * b + x0
  BY <1>1, Remainder
<1>3. PICK q2 \in Nat, x1 \in 0..b-1 : q2 = q1 \div b /\ x1 = q1 % b /\ q1 = q2 * b + x1
  BY Remainder
<1>4. PICK q3 \in Nat, x2 \in 0..b-1 : q3 = q2 \div b /\ x2 = q2 % b /\ q2 = q3 * b + x2
  BY Remainder
<1>5. ASSUME NEW B \in Nat \ {0}, NEW q \in Nat, NEW r \in 0..B-1, a = q * B + r
      PROVE  a \div B = q
  BY <1>5, Division
<1> DEFINE Parts(B, q, r) == B \in Nat \ {0} /\ r \in 0..B-1 /\ a = q * B + r
<1>6. ASSUME NEW B, NEW q \in Nat, NEW p \in Nat, NEW x \in 0..b-1, NEW r,
             Parts(B, q, r), q = p * b + x
      PROVE  Parts(B * b, p, x * B + r)
  <2>7. B \in Nat \ {0} /\ r \in 0..B-1
    BY <1>6
  <2>1. (x + 1) * B <= b * B /\ (x + 1) * B = x * B + B /\ b * B = B * b
    BY <2>7
  <2>2. PICK c \in Nat, d \in Nat : c = x * B /\ d = B * b
    BY <2>7
  <2>3. d # 0
    BY <2>2, <2>7
  <2>4. (p * b + x) * B = p * (B * b) + x * B
    <3>1. (p * b + x) * B = (p * b) * B + x * B
      BY <2>7
    <3>2. (p * b) * B = p * (B * b)
      BY <2>7
    <3> QED
      BY <3>1, <3>2
  <2>5. c + r \in 0..d-1
    BY <2>1, <2>2, <2>7
  <2>6. p * (B * b) \in Nat
    BY <2>7
  <2> QED
    BY <1>6, <2>2, <2>3, <2>4, <2>5, <2>6, <2>7
<1> HIDE DEF Parts
<1>7. PICK B2, r2 : B2 = b * b /\ Parts(B2, q2, r2)
  <2>1. Parts(b, q1, x0)
    BY <1>2 DEF Parts
  <2>2. Parts(b * b, q2, x1 * b + x0)
    BY <1>3, <1>6, <2>1
  <2> QED
    BY <2>2
<1>8. PICK B3, r3 : B3 = B2 * b /\ Parts(B3, q3, r3)
  <2>1. Parts(B2 * b, q3, x2 * B2 + r2)
    BY <1>4, <1>6, <1>7
  <2> QED
    BY <2>1
<1>9. B3 \in Nat \ {0} /\ r3 \in 0..B3-1 /\ a = q3 * B3 + r3
  BY <1>8 DEF Parts
<1>10. B2 \in Nat \ {0} /\ r2 \in 0..B2-1 /\ a = q2 * B2 + r2
  BY <1>7 DEF Parts
<1>11. a \div B2 = q2 /\ a \div B3 = q3
  BY <1>5, <1>9, <1>10
<1>12. q3 \in 0..b-1
  <2>1. a < B3 * b
    BY <1>7, <1>8
  <2>2. ASSUME q3 >= b PROVE FALSE
    <3>1. q3 * B3 >= b * B3 /\ b * B3 = B3 * b
      BY <2>2, <1>9
    <3>2. PICK c \in Nat, d \in Nat : c = q3 * B3 /\ d = B3 * b
      BY <1>9
    <3> QED
      BY <1>9, <2>1, <3>1, <3>2
  <2> QED
    BY <2>2
<1>13. q3 % b = q3
  <2>1. 0 \in Nat /\ 0 * b + q3 = q3
    OBVIOUS
  <2> QED
    BY <1>12, <2>1, Division
<1>14. a = Horner(b, q3, x2, x1, x0)
  BY <1>2, <1>3, <1>4 DEF Horner
<1>15. (a \div ((b * b) * b)) % b = q3 /\ (a \div (b * b)) % b = x2 /\ (a \div b) % b = x1 /\ a % b = x0
  BY <1>2, <1>3, <1>4, <1>7, <1>8, <1>11, <1>13
<1> QED
  BY <1>12, <1>14, <1>15

(* The number of addresses is the fourth power of the base.                *)
LEMMA OctetPowers ==
  /\ 2^Width = ((2^OctetBits * 2^OctetBits) * 2^OctetBits) * 2^OctetBits
  /\ 2^(0 * OctetBits) = 1 /\ 2^(1 * OctetBits) = 2^OctetBits
  /\ 2^(2 * OctetBits) = 2^OctetBits * 2^OctetBits
  /\ 2^(3 * OctetBits) = (2^OctetBits * 2^OctetBits) * 2^OctetBits
<1>1. PICK k \in Nat : k = OctetBits
  BY Base
<1>2. k \in Nat /\ 2 * k \in Nat /\ 3 * k \in Nat
  OBVIOUS
<1>3. 2^(k + k) = 2^k * 2^k /\ 2^(k + 2 * k) = 2^(2 * k) * 2^k /\ 2^(k + 3 * k) = 2^(3 * k) * 2^k
  BY <1>2, PowerSum
<1>4. k + k = 2 * k /\ k + 2 * k = 3 * k /\ k + 3 * k = 4 * k /\ 0 * k = 0 /\ 1 * k = k
  OBVIOUS
<1>5. 2^0 = 1
  OBVIOUS
<1> QED
  BY <1>1, <1>3, <1>4, <1>5 DEF Width

(* Four segments with dots between them.                                   *)
LEMMA FourJoined ==
  ASSUME NEW list, Len(list) = 4
  PROVE  Joined(list)
           = list[1] \o <<Dot>> \o list[2] \o <<Dot>> \o list[3] \o <<Dot>> \o list[4]
<1>1. PICK text : JoinRun(list, text) /\ Joined(list) = text[4]
  <2>1. Len(list) \in Nat \ {0}
    OBVIOUS
  <2> QED
    BY <2>1, JoinedRun
<1>2. /\ 2 \in 2..Len(list) /\ 3 \in 2..Len(list) /\ 4 \in 2..Len(list)
      /\ 2-1 = 1 /\ 3-1 = 2 /\ 4-1 = 3
  OBVIOUS
<1>3. text[1] = list[1]
  BY <1>1 DEF JoinRun
<1>4. text[2] = text[1] \o <<Dot>> \o list[2]
  BY <1>1, <1>2 DEF JoinRun
<1>5. text[3] = text[2] \o <<Dot>> \o list[3]
  BY <1>1, <1>2 DEF JoinRun
<1>6. text[4] = text[3] \o <<Dot>> \o list[4]
  BY <1>1, <1>2 DEF JoinRun
<1>7. text[3] = list[1] \o <<Dot>> \o list[2] \o <<Dot>> \o list[3]
  BY <1>3, <1>4, <1>5, Zenon
<1>8. text[4] = list[1] \o <<Dot>> \o list[2] \o <<Dot>> \o list[3] \o <<Dot>> \o list[4]
  BY <1>6, <1>7, Zenon
<1> QED
  BY <1>1, <1>8, Zenon

(* Four numerals make an address.                                          *)
LEMMA NamedType ==
  ASSUME NEW list \in Seq(Segment), WellFormed(list)
  PROVE  Named(list) \in 0..AllOnes
<1>1. \A i \in 1..4 : Value(list[i]) \in 0..2^OctetBits - 1
  <2> SUFFICES ASSUME NEW i \in 1..4 PROVE Value(list[i]) \in 0..2^OctetBits - 1
    OBVIOUS
  <2>1. list[i] \in Segment /\ Value(list[i]) <= OctetMax
    <3>1. Len(list) = 4 /\ Value(list[i]) <= OctetMax
      BY DEF WellFormed
    <3>2. i \in 1..Len(list)
      BY <3>1
    <3>3. list[i] \in Segment
      BY <3>2
    <3> QED
      BY <3>1, <3>3
  <2>2. Value(list[i]) \in Nat
    BY <2>1, SegmentParsed
  <2> QED
    BY <2>1, <2>2, Base
<1>2. Named(list) = Horner(2^OctetBits, Value(list[1]), Value(list[2]), Value(list[3]), Value(list[4]))
  BY DEF Named, Horner
<1>3. Named(list) \in 0..2^Width - 1
  <2>1. 1 \in 1..4 /\ 2 \in 1..4 /\ 3 \in 1..4 /\ 4 \in 1..4
    OBVIOUS
  <2>2. PICK b \in Nat \ {0} : b = 2^OctetBits
    BY Base
  <2>3. PICK v1 \in 0..b-1, v2 \in 0..b-1, v3 \in 0..b-1, v4 \in 0..b-1 :
          v1 = Value(list[1]) /\ v2 = Value(list[2]) /\ v3 = Value(list[3]) /\ v4 = Value(list[4])
    BY <1>1, <2>1, <2>2
  <2>4. Horner(b, v1, v2, v3, v4) \in 0..((b * b) * b) * b - 1
    BY HornerBound
  <2> QED
    BY <1>2, <2>2, <2>3, <2>4, OctetPowers
<1> QED
  BY <1>3, Words

(* Parsing what was printed gives the address back.                        *)
THEOREM AddressRoundTrip ==
  ASSUME NEW a \in 0..AllOnes
  PROVE  ParseAddress(AddressText(a)) = a
<1>1. PICK b \in Nat \ {0} : b = 2^OctetBits /\ OctetMax = b - 1
  BY Base
<1>2. a \in 0..((b * b) * b) * b - 1
  BY <1>1, OctetPowers, Words
<1>3. PICK x3 \in 0..b-1, x2 \in 0..b-1, x1 \in 0..b-1, x0 \in 0..b-1 :
        /\ x3 = (a \div ((b * b) * b)) % b /\ x2 = (a \div (b * b)) % b
        /\ x1 = (a \div b) % b /\ x0 = a % b /\ a = Horner(b, x3, x2, x1, x0)
  <2>1. /\ (a \div ((b * b) * b)) % b \in 0..b-1 /\ (a \div (b * b)) % b \in 0..b-1
        /\ (a \div b) % b \in 0..b-1 /\ a % b \in 0..b-1
        /\ a = Horner(b, (a \div ((b * b) * b)) % b, (a \div (b * b)) % b, (a \div b) % b, a % b)
    BY <1>2, HornerDigits
  <2> QED
    BY <2>1, Zenon
<1>4. PICK list : list = <<Decimal(x3), Decimal(x2), Decimal(x1), Decimal(x0)>>
  OBVIOUS
<1>5. \A x \in 0..b-1 : Decimal(x) \in Segment /\ Numeral(Decimal(x)) /\ Value(Decimal(x)) = x
  BY <1>1, DecimalValue
<1>6. /\ list \in Seq(Segment) /\ list # <<>> /\ Len(list) = 4
      /\ list[1] = Decimal(x3) /\ list[2] = Decimal(x2) /\ list[3] = Decimal(x1) /\ list[4] = Decimal(x0)
  BY <1>4, <1>5
<1>7. WellFormed(list)
  <2>1. ASSUME NEW i \in 1..4 PROVE Numeral(list[i]) /\ Value(list[i]) <= OctetMax
    <3>1. \E x \in 0..b-1 : list[i] = Decimal(x)
      <4>1. i = 1 \/ i = 2 \/ i = 3 \/ i = 4
        OBVIOUS
      <4> QED
        BY <1>6, <4>1
    <3> QED
      BY <1>1, <1>5, <3>1
  <2> QED
    BY <1>6, <2>1 DEF WellFormed
<1>8. Named(list) = a
  <2>1. /\ Value(list[1]) = x3 /\ Value(list[2]) = x2
        /\ Value(list[3]) = x1 /\ Value(list[4]) = x0
    BY <1>5, <1>6
  <2>2. Named(list) = ((x3 * b + x2) * b + x1) * b + x0
    BY <1>1, <2>1, Zenon DEF Named
  <2> QED
    BY <1>3, <2>2, Zenon DEF Horner
<1>9. AddressText(a) = Joined(list)
  <2>1. a \div 1 = a
    BY Words
  <2>2. /\ Decimal((a \div 2^(3 * OctetBits)) % 2^OctetBits) = Decimal(x3)
        /\ Decimal((a \div 2^(2 * OctetBits)) % 2^OctetBits) = Decimal(x2)
        /\ Decimal((a \div 2^(1 * OctetBits)) % 2^OctetBits) = Decimal(x1)
        /\ Decimal((a \div 2^(0 * OctetBits)) % 2^OctetBits) = Decimal(x0)
    BY <1>1, <1>3, <2>1, OctetPowers
  <2>3. AddressText(a) = list[1] \o <<Dot>> \o list[2] \o <<Dot>> \o list[3] \o <<Dot>> \o list[4]
    BY <1>6, <2>2, Zenon DEF AddressText
  <2> QED
    BY <1>6, <2>3, FourJoined
<1> QED
  BY <1>6, <1>7, <1>8, <1>9, AddressesParsed

-----------------------------------------------------------------------------
(* Masks as text.                                                          *)

(* BitAnd is the last of the sums, and zero when no bit is common.         *)
LEMMA NoCommonBit ==
  ASSUME NEW a, NEW b, \A i \in 0..Width-1 : Both(a, b, i) = 0
  PROVE  BitAnd(a, b) = 0
<1> DEFINE low == CHOOSE f : LowBits(a, b, Width, f)
<1>1. LowBits(a, b, Width, low)
  BY Words, LowBitsExist
<1>2. BitAnd(a, b) = low[Width]
  BY DEF BitAnd, LowBits, Both
<1> HIDE DEF low
<1> DEFINE T == {i \in 0..Width : low[i] # 0}
<1> SUFFICES ASSUME T # {} PROVE FALSE
  <2>1. Width \in 0..Width
    BY Words
  <2> QED
    BY <1>2, <2>1
<1>3. PICK i \in T : \A j \in T : i <= j
  <2>1. T \subseteq Nat
    BY Words
  <2> HIDE DEF T
  <2> QED
    BY <2>1, LeastNumber
<1>4. low[i] = IF i = 0 THEN 0 ELSE low[i-1] + Both(a, b, i-1)
  BY <1>1, <1>3 DEF LowBits
<1>5. CASE i = 0
  BY <1>3, <1>4, <1>5
<1>6. CASE i # 0
  <2>1. i-1 \in 0..Width-1 /\ i-1 \in 0..Width /\ i-1 \notin T
    BY <1>3, <1>6, Words
  <2>2. low[i-1] = 0 /\ Both(a, b, i-1) = 0
    BY <2>1
  <2> QED
    BY <1>3, <1>4, <1>6, <2>2
<1> QED
  BY <1>5, <1>6

(* Every common bit counts.                                                *)
LEMMA CommonBit ==
  ASSUME NEW a, NEW b, NEW k \in 0..Width-1, Both(a, b, k) # 0
  PROVE  BitAnd(a, b) # 0
<1> DEFINE low == CHOOSE f : LowBits(a, b, Width, f)
<1>1. LowBits(a, b, Width, low)
  BY Words, LowBitsExist
<1>2. BitAnd(a, b) = low[Width]
  BY DEF BitAnd, LowBits, Both
<1> HIDE DEF low
<1>3. Width \in Nat /\ Width \in 0..Width
  BY Words
<1>4. \A i \in 0..Width : low[i] \in Nat
  BY <1>1, <1>3, LowBitsType
<1> DEFINE T == {i \in k+1..Width : low[i] = 0}
<1> SUFFICES ASSUME T # {} PROVE FALSE
  <2>1. Width \in k+1..Width
    BY <1>3
  <2> QED
    BY <1>2, <2>1
<1>5. PICK i \in T : \A j \in T : i <= j
  <2>1. T \subseteq Nat
    BY <1>3
  <2> HIDE DEF T
  <2> QED
    BY <2>1, LeastNumber
<1>6. i \in 0..Width /\ i # 0 /\ i-1 \in 0..Width /\ i-1 \in Nat
  BY <1>3, <1>5
<1>7. low[i] = low[i-1] + Both(a, b, i-1)
  BY <1>1, <1>6 DEF LowBits
<1>8. Both(a, b, i-1) \in Nat /\ low[i-1] \in Nat
  <2>1. 2^(i-1) \in Nat
    BY <1>6, Powers
  <2> QED
    BY <1>4, <1>6, <2>1 DEF Both
<1>9. CASE i = k+1
  <2>1. i-1 = k
    BY <1>9
  <2> QED
    BY <1>5, <1>7, <1>8, <2>1
<1>10. CASE i # k+1
  <2>1. i-1 \in k+1..Width /\ i-1 \notin T
    BY <1>3, <1>5, <1>10
  <2>2. low[i-1] # 0
    BY <2>1
  <2> QED
    BY <1>5, <1>7, <1>8, <2>2
<1> QED
  BY <1>9, <1>10

(* A positive number is a power of two, or it lies strictly between two of *)
(* them.                                                                   *)
LEMMA BetweenPowers ==
  ASSUME NEW n \in Nat, NEW y \in 1..2^n - 1
  PROVE  \E k \in 0..n-1 : 2^k <= y /\ y < 2^(k + 1)
<1> DEFINE T == {i \in Nat : y < 2^i}
<1>1. PICK i \in T : \A j \in T : i <= j
  <2>1. n \in T
    BY Powers
  <2>2. T \subseteq Nat /\ T # {}
    BY <2>1
  <2> HIDE DEF T
  <2> QED
    BY <2>2, LeastNumber
<1>2. i # 0
  <2> SUFFICES ASSUME i = 0 PROVE FALSE
    OBVIOUS
  <2>1. 2^0 = 1 /\ y < 2^0
    BY <1>1
  <2> QED
    BY <2>1
<1>3. i-1 \in Nat /\ (i-1) + 1 = i /\ i-1 \notin T /\ i <= n
  <2>1. n \in T
    BY Powers
  <2> QED
    BY <1>1, <1>2, <2>1
<1>4. 2^(i-1) \in Nat
  BY <1>3, Powers
<1> QED
  BY <1>1, <1>3, <1>4

(* x & (x + 1) is zero only if x + 1 is a power of two ...                 *)
LEMMA CommonUnlessPower ==
  ASSUME NEW y \in 1..AllOnes, \A k \in 0..Width-1 : y # 2^k
  PROVE  BitAnd(y - 1, y) # 0
<1>1. Width \in Nat /\ AllOnes = 2^Width - 1
  BY Words DEF AllOnes
<1>2. PICK k \in 0..Width-1 : 2^k <= y /\ y < 2^(k + 1)
  BY <1>1, BetweenPowers
<1>3. PICK p \in Nat \ {0} : p = 2^k /\ 2^(k + 1) = 2 * p
  BY <1>1, Powers
<1>4. y # p /\ p <= y /\ y < 2 * p /\ y \in Nat
  BY <1>1, <1>2, <1>3
<1>5. ASSUME NEW x \in Nat, p <= x, x < 2 * p PROVE Bit(x, k) = 1
  <2>1. x - p \in 0..p-1 /\ 1 * p + (x - p) = x
    BY <1>5
  <2>2. x \div p = 1
    BY <2>1, Division
  <2> QED
    BY <1>3, <2>2 DEF Bit
<1>6. Bit(y, k) = 1 /\ Bit(y - 1, k) = 1
  <2>1. y - 1 \in Nat /\ p <= y - 1 /\ y - 1 < 2 * p
    BY <1>4
  <2> QED
    BY <1>4, <1>5, <2>1
<1>7. Both(y - 1, y, k) # 0
  BY <1>3, <1>6 DEF Both
<1> QED
  BY <1>7, CommonBit

(* ... and if it is one.                                                   *)
LEMMA PowerHasNone ==
  ASSUME NEW k \in 0..Width-1
  PROVE  BitAnd(2^k - 1, 2^k) = 0
<1>1. k \in Nat /\ Width \in Nat
  BY Words
<1>2. ASSUME NEW i \in 0..Width-1 PROVE Both(2^k - 1, 2^k, i) = 0
  <2>1. PICK p \in Nat \ {0} : p = 2^i
    BY <1>1, Powers
  <2>4. i \in Nat
    OBVIOUS
  <2>2. CASE i < k
    <3>1. PICK d \in Nat \ {0} : 2^k = (2 * d) * p
      <4>1. i <= k
        BY <1>1, <2>2, <2>4
      <4>2. \E d \in Nat \ {0} : 2^k = (2 * d) * 2^i
        BY <1>1, <2>2, <2>4, <4>1, PowerMultiple
      <4> QED
        BY <2>1, <4>2
    <3>2. ((2 * d) * p + 0) \div p = 2 * d /\ (2 * d) * p + 0 = (2 * d) * p
      <4>1. 2 * d \in Nat /\ 0 \in 0..p-1
        OBVIOUS
      <4> QED
        BY <4>1, Division
    <3>3. Bit(2^k, i) = 0
      BY <2>1, <3>1, <3>2, Parity DEF Bit
    <3> QED
      BY <3>3 DEF Both
  <2>3. CASE ~ (i < k)
    <3>1. 2^k \in Nat \ {0} /\ 2^k <= p
      BY <1>1, <2>1, <2>3, Powers, PowerMultiple
    <3>2. 2^k - 1 \in 0..p-1 /\ 0 * p + (2^k - 1) = 2^k - 1
      BY <3>1
    <3>3. (2^k - 1) \div p = 0
      BY <3>2, Division
    <3>4. Bit(2^k - 1, i) = 0
      BY <2>1, <3>3 DEF Bit
    <3> QED
      BY <3>4 DEF Both
  <2> QED
    BY <2>2, <2>3
<1> QED
  BY <1>2, NoCommonBit

(* The masks of the prefix lengths.                                        *)
LEMMA MaskNumbers ==
  /\ \A m : m \in Masks <=> \E k \in 0..Width : m = Mask(k)
  /\ Masks \subseteq 0..AllOnes
<1>1. ASSUME NEW n \in 0..Width PROVE MaskOfPrefix(n) = Mask(Width - n) /\ Width - n \in 0..Width
  BY MaskValue, Words
<1>2. ASSUME NEW k \in 0..Width PROVE Mask(k) \in Masks
  <2>1. Width - k \in 0..Width /\ Width - (Width - k) = k
    BY Words
  <2>2. MaskOfPrefix(Width - k) = Mask(k)
    BY <1>1, <2>1
  <2> QED
    BY <2>1, <2>2 DEF Masks
<1> QED
  BY <1>1, <1>2, MaskType DEF Masks

(* The texts that SubnetMask accepts are those of the masks of a prefix    *)
(* length.                                                                 *)
LEMMA MaskTexts ==
  ASSUME NEW text, NEW a \in 0..AllOnes, ParseAddress(text) = a
  PROVE  MaskOfText(text) = IF a \in Masks THEN a ELSE Rejected
<1>1. Width \in Nat /\ AllOnes \in Nat /\ 2^Width = AllOnes + 1 /\ a \in Nat
  BY Words
<1>2. PICK y \in Nat : y = AllOnes - a + 1
  BY <1>1
<1>3. AllOnes - a = y - 1 /\ (AllOnes - a) + 1 = y
  BY <1>1, <1>2
<1>4. MaskOfText(text) = IF a \notin {0, Rejected} /\ BitAnd(y - 1, y) # 0 THEN Rejected ELSE a
  BY <1>3, Zenon DEF MaskOfText
<1>5. a # Rejected
  BY <1>1 DEF Rejected
<1>6. CASE a = 0
  <2>1. Width \in 0..Width /\ Mask(Width) = 0
    BY <1>1 DEF Mask
  <2>2. a \in Masks
    BY <1>6, <2>1, MaskNumbers
  <2> QED
    BY <1>4, <1>6, <2>2
<1>7. CASE a # 0 /\ \E k \in 0..Width-1 : y = 2^k
  <2>1. PICK k \in 0..Width-1 : y = 2^k
    BY <1>7
  <2>2. BitAnd(y - 1, y) = 0
    BY <2>1, PowerHasNone
  <2>3. k \in 0..Width /\ a = Mask(k)
    BY <1>1, <1>2, <2>1 DEF Mask
  <2>4. a \in Masks
    BY <2>3, MaskNumbers
  <2> QED
    BY <1>4, <2>2, <2>4
<1>8. CASE a # 0 /\ ~ \E k \in 0..Width-1 : y = 2^k
  <2>1. y \in 1..AllOnes
    BY <1>1, <1>2, <1>8
  <2>2. BitAnd(y - 1, y) # 0
    BY <1>8, <2>1, CommonUnlessPower
  <2>3. a \notin Masks
    <3> SUFFICES ASSUME NEW k \in 0..Width, a = Mask(k) PROVE FALSE
      BY MaskNumbers
    <3>1. 2^k \in Nat
      BY <1>1, Powers
    <3>2. y = 2^k
      BY <1>1, <1>2, <3>1 DEF Mask
    <3>3. k # Width
      BY <1>1, <1>8 DEF Mask
    <3>4. k \in 0..Width-1
      BY <1>1, <3>3
    <3> QED
      BY <1>8, <3>2, <3>4
  <2> QED
    BY <1>4, <1>5, <1>8, <2>2, <2>3
<1> QED
  BY <1>6, <1>7, <1>8

(* A node is local to the addresses with its prefix.                       *)
LEMMA LocalIsPrefix ==
  ASSUME NEW n \in 0..Width, NEW a \in 0..AllOnes, NEW c \in 0..AllOnes
  PROVE  IsLocal(a, MaskOfPrefix(n), c) <=> SamePrefix(a, c, n)
<1>1. PICK k \in 0..Width : k = Width - n
  BY Words
<1>2. PICK x \in Nat \ {0} : x = 2^k
  BY <1>1, Words, Powers
<1>3. MaskOfPrefix(n) = Mask(k)
  BY <1>1, MaskValue
<1>4. a \in Nat /\ c \in Nat
  BY Words
<1>5. PICK p \in Nat, q \in Nat : p = a \div x /\ q = c \div x
  BY <1>4, Remainder
<1>6. BitAnd(a, Mask(k)) = p * x /\ BitAnd(c, Mask(k)) = q * x
  BY <1>2, <1>5, BitAndMask
<1>7. p * x = q * x <=> p = q
  OBVIOUS
<1>8. SamePrefix(a, c, n) <=> p = q
  BY <1>1, <1>2, <1>5 DEF SamePrefix
<1> QED
  BY <1>3, <1>6, <1>7, <1>8 DEF IsLocal

(* The texts of up to five segments are segments with dots between them.   *)
LEMMA ListsOfSegments ==
  ASSUME NEW list \in SegmentLists
  PROVE  list \in Seq(Segment) /\ list # <<>>
<1>1. PICK n \in 1..5 : list \in [1..n -> Segments]
  BY DEF SegmentLists
<1>2. Segments \subseteq Segment
  BY AddressingAssumption DEF Segment, Other
<1>3. list \in [1..n -> Segment] /\ n \in Nat
  BY <1>1, <1>2
<1>4. list \in Seq(Segment)
  BY <1>3
<1>5. 1 \in DOMAIN list
  BY <1>3
<1> QED
  BY <1>4, <1>5

(* Parsing, printing, masks and prefix lengths agree with each other.      *)
LEMMA AddressingHolds == AddressingAgrees
<1>1. ASSUME NEW list \in SegmentLists
      PROVE  ParseAddress(Joined(list)) = IF WellFormed(list) THEN Named(list) ELSE Rejected
  BY ListsOfSegments, AddressesParsed
<1>2. SomeAddresses \subseteq 0..AllOnes
  <2>1. ASSUME NEW list \in SegmentLists, WellFormed(list) PROVE Named(list) \in 0..AllOnes
    BY <2>1, ListsOfSegments, NamedType
  <2>2. ASSUME NEW m \in Masks \ {AllOnes} PROVE m + 1 \in 0..AllOnes
    <3>1. m \in 0..AllOnes /\ m # AllOnes
      BY MaskNumbers
    <3> QED
      BY <3>1, Words
  <2>3. Masks \subseteq 0..AllOnes
    BY MaskNumbers
  <2> QED
    BY <2>1, <2>2, <2>3 DEF SomeAddresses
<1>3. ASSUME NEW a \in SomeAddresses
      PROVE  /\ ParseAddress(AddressText(a)) = a
             /\ MaskOfText(AddressText(a)) = IF a \in Masks THEN a ELSE Rejected
  <2>1. a \in 0..AllOnes
    BY <1>2
  <2>2. ParseAddress(AddressText(a)) = a
    BY <2>1, AddressRoundTrip
  <2> QED
    BY <2>1, <2>2, MaskTexts
<1>4. ASSUME NEW n \in 0..Width
      PROVE  /\ PrefixLength(MaskOfPrefix(n)) = n
             /\ \A a, c \in Masks : IsLocal(a, MaskOfPrefix(n), c) <=> SamePrefix(a, c, n)
  <2>1. ASSUME NEW a \in Masks, NEW c \in Masks
        PROVE  IsLocal(a, MaskOfPrefix(n), c) <=> SamePrefix(a, c, n)
    <3>1. a \in 0..AllOnes /\ c \in 0..AllOnes
      BY MaskNumbers
    <3> QED
      BY <3>1, LocalIsPrefix
  <2> QED
    BY <2>1, PrefixLengthOfMask
<1> QED
  BY <1>1, <1>3, <1>4 DEF AddressingAgrees

(* An address is in the subnet that the router makes of it.                *)
LEMMA OwnSubnet ==
  ASSUME NEW n \in 0..Width, NEW ip \in 0..AllOnes
  PROVE  IsLocal(ip, MaskOfPrefix(n), BitAnd(ip, MaskOfPrefix(n)))
<1>1. SamePrefix(ip, ip, n)
  BY DEF SamePrefix
<1> QED
  BY <1>1, MatchIsPrefix DEF IsLocal

(* Parsing, printing, masks and prefix lengths agree, for all addresses    *)
(* and numerals, and the entries of the table have the masks and subnets   *)
(* of their owners.                                                        *)
THEOREM AddressesAgreeHolds == Spec => []AddressesAgree
<1>1. Init => SubnetsHold
  <2>1. \A f : f = <<>> => DOMAIN f = {}
    OBVIOUS
  <2> QED
    BY <2>1 DEF Init, SubnetsHold
<1>2. SubnetsHold /\ [Next]_vars => SubnetsHold'
  BY SubnetsStep
<1>3. SubnetsHold => AddressesAgree
  <2> SUFFICES ASSUME SubnetsHold PROVE AddressesAgree
    OBVIOUS
  <2>1. ASSUME NEW e \in table
        PROVE  /\ MaskOfText(AddressText(e.mask)) = e.mask
               /\ PrefixLength(e.mask) = node_to_mask[e.dest]
               /\ IsLocal(node_to_ip[e.dest], e.mask, e.destination_subnet)
    <3>1. PICK ip \in 0..AllOnes, n \in 0..Width :
            /\ ip = node_to_ip[e.dest] /\ n = node_to_mask[e.dest]
            /\ e.mask = MaskOfPrefix(n) /\ e.destination_subnet = BitAnd(ip, MaskOfPrefix(n))
      BY DEF SubnetsHold
    <3>2. e.mask \in Masks /\ e.mask \in 0..AllOnes
      BY <3>1, MaskType DEF Masks
    <3>3. ParseAddress(AddressText(e.mask)) = e.mask
      BY <3>2, AddressRoundTrip
    <3>4. MaskOfText(AddressText(e.mask)) = e.mask
      BY <3>2, <3>3, MaskTexts
    <3> QED
      BY <3>1, <3>4, PrefixLengthOfMask, OwnSubnet
  <2> QED
    BY <2>1, AddressingHolds DEF AddressesAgree
<1> QED
  BY <1>1, <1>2, <1>3, PTL DEF Spec

\* The lists have the same first n segments.
Alike(list, other, n) ==
  /\ n \in Nat \ {0} /\ Len(list) \in Nat /\ Len(other) \in Nat
  /\ n <= Len(list) /\ n <= Len(other)
  /\ \A i \in 1..n : other[i] = list[i]

(* Lists that begin alike are joined alike so far.                         *)
LEMMA JoinsAgree ==
  ASSUME NEW list, NEW other, NEW s, NEW t, JoinRun(list, s), JoinRun(other, t),
         NEW n, Alike(list, other, n)
  PROVE  s[n] = t[n]
<1> USE DEF Alike
<1> DEFINE T == {i \in 1..n : s[i] # t[i]}
<1> SUFFICES ASSUME T # {} PROVE FALSE
  OBVIOUS
<1>1. PICK i \in T : \A j \in T : i <= j
  <2>1. T \subseteq Nat
    OBVIOUS
  <2> HIDE DEF T
  <2> QED
    BY <2>1, LeastNumber
<1>2. i # 1
  <2>1. s[1] = list[1] /\ t[1] = other[1] /\ 1 \in 1..n
    BY DEF JoinRun
  <2> QED
    BY <1>1, <2>1
<1>3. i \in 1..n /\ i-1 \in 1..n /\ i-1 \notin T /\ i \in 2..Len(list) /\ i \in 2..Len(other)
  BY <1>1, <1>2
<1>4. s[i-1] = t[i-1] /\ other[i] = list[i]
  BY <1>3
<1>5. s[i] = s[i-1] \o <<Dot>> \o list[i] /\ t[i] = t[i-1] \o <<Dot>> \o other[i]
  BY <1>3 DEF JoinRun
<1>6. s[i] = t[i]
  BY <1>4, <1>5, Zenon
<1> QED
  BY <1>1, <1>6

(* Joining is what it is called ...                                        *)
LEMMA JoinedType ==
  ASSUME NEW list \in Seq(Segment), NEW text, JoinRun(list, text), NEW n \in 1..Len(list)
  PROVE  text[n] \in Seq(0..11)
<1>1. \A i \in 1..Len(list) : list[i] \in Seq(0..11)
  <2> SUFFICES ASSUME NEW i \in 1..Len(list) PROVE list[i] \in Seq(0..11)
    OBVIOUS
  <2>1. list[i] \in Segment
    OBVIOUS
  <2> QED
    BY <2>1 DEF Segment, Other
<1> DEFINE T == {i \in 1..Len(list) : text[i] \notin Seq(0..11)}
<1> SUFFICES ASSUME T # {} PROVE FALSE
  OBVIOUS
<1>2. PICK i \in T : \A j \in T : i <= j
  <2>1. T \subseteq Nat
    OBVIOUS
  <2> HIDE DEF T
  <2> QED
    BY <2>1, LeastNumber
<1>3. i # 1
  BY <1>1, <1>2 DEF JoinRun
<1>4. i-1 \in 1..Len(list) /\ i-1 \notin T /\ i \in 2..Len(list) /\ i \in 1..Len(list)
  BY <1>2, <1>3
<1>5. PICK s, t, dot : s = text[i-1] /\ t = list[i] /\ dot = <<Dot>>
  OBVIOUS
<1>6. s \in Seq(0..11) /\ t \in Seq(0..11) /\ dot \in Seq(0..11)
  BY <1>1, <1>4, <1>5 DEF Dot
<1>7. text[i] = s \o dot \o t
  BY <1>4, <1>5 DEF JoinRun
<1>8. text[i] \in Seq(0..11)
  BY <1>6, <1>7
<1> QED
  BY <1>2, <1>8

(* ... a dot begins a new segment ...                                      *)
LEMMA DotJoined ==
  ASSUME NEW list \in Seq(Segment), list # <<>>
  PROVE  \E other \in Seq(Segment) : other # <<>> /\ Joined(other) = Joined(list) \o <<Dot>>
<1>1. PICK n \in Nat \ {0} : n = Len(list)
  OBVIOUS
<1>2. PICK empty : empty = <<>>
  OBVIOUS
<1>3. PICK other : other = Append(list, empty)
  OBVIOUS
<1>4. empty \in Segment /\ empty \in Seq(0..11)
  BY <1>2 DEF Segment
<1>5. /\ other \in Seq(Segment) /\ other # <<>> /\ Len(other) = n + 1 /\ other[n + 1] = empty
      /\ \A i \in 1..n : other[i] = list[i]
  BY <1>1, <1>3, <1>4
<1>6. PICK s : JoinRun(list, s) /\ Joined(list) = s[n]
  BY <1>1, JoinedRun
<1>7. PICK t : JoinRun(other, t) /\ Joined(other) = t[n + 1]
  <2>1. n + 1 \in Nat \ {0}
    OBVIOUS
  <2> QED
    BY <1>5, <2>1, JoinedRun
<1>8. s[n] = t[n]
  <2>1. n <= n + 1 /\ n + 1 \in Nat /\ n <= n
    OBVIOUS
  <2>2. Alike(list, other, n)
    BY <1>1, <1>5, <2>1 DEF Alike
  <2> QED
    BY <1>6, <1>7, <2>2, JoinsAgree
<1>9. t[n + 1] = t[n] \o <<Dot>> \o other[n + 1]
  <2>1. n + 1 \in 2..Len(other) /\ (n + 1) - 1 = n
    BY <1>5
  <2>2. t[n + 1] = t[(n + 1) - 1] \o <<Dot>> \o other[n + 1]
    BY <1>7, <2>1 DEF JoinRun
  <2> QED
    BY <2>1, <2>2, Zenon
<1>10. PICK u, dot : u = s[n] /\ dot = <<Dot>>
  OBVIOUS
<1>11. u \in Seq(0..11) /\ dot \in Seq(0..11)
  <2>1. n \in 1..Len(list)
    BY <1>1
  <2>2. u \in Seq(0..11)
    BY <1>6, <1>10, <2>1, JoinedType
  <2> QED
    BY <1>10, <2>2 DEF Dot
<1>12. u \o dot \o empty = u \o dot
  BY <1>2, <1>11
<1>13. t[n + 1] = u \o dot \o empty
  BY <1>5, <1>8, <1>9, <1>10, Zenon
<1>14. Joined(other) = Joined(list) \o <<Dot>>
  BY <1>6, <1>7, <1>10, <1>12, <1>13
<1> QED
  BY <1>5, <1>14

(* ... and any other character continues the last one.                     *)
LEMMA CharJoined ==
  ASSUME NEW list \in Seq(Segment), list # <<>>, NEW ch \in 0..9 \union {Other}
  PROVE  \E other \in Seq(Segment) : other # <<>> /\ Joined(other) = Joined(list) \o <<ch>>
<1>1. PICK n \in Nat \ {0} : n = Len(list)
  OBVIOUS
<1>2. PICK one, last : one = <<ch>> /\ last = list[n]
  OBVIOUS
<1>3. last \in Segment /\ one \in Segment /\ last \o one \in Segment
  BY <1>1, <1>2 DEF Segment
<1>4. PICK longer \in Segment : longer = last \o one
  BY <1>3
<1>5. PICK other : other = [list EXCEPT ![n] = longer]
  OBVIOUS
<1>6. /\ other \in Seq(Segment) /\ other # <<>> /\ Len(other) = n /\ other[n] = longer
      /\ \A i \in 1..n-1 : other[i] = list[i]
  BY <1>1, <1>5
<1>7. PICK s : JoinRun(list, s) /\ Joined(list) = s[n]
  BY <1>1, JoinedRun
<1>8. PICK t : JoinRun(other, t) /\ Joined(other) = t[n]
  BY <1>6, JoinedRun
<1>9. t[n] = s[n] \o one
  <2>1. CASE n = 1
    BY <1>2, <1>4, <1>6, <1>7, <1>8, <2>1 DEF JoinRun
  <2>2. CASE n # 1
    <3>1. n-1 \in Nat \ {0} /\ n-1 <= n /\ n \in Nat /\ n \in 2..n /\ n-1 \in 1..n
      BY <2>2
    <3>9. Alike(list, other, n-1)
      BY <1>1, <1>6, <3>1 DEF Alike
    <3>2. s[n-1] = t[n-1]
      BY <1>7, <1>8, <3>9, JoinsAgree
    <3>3. s[n] = s[n-1] \o <<Dot>> \o list[n] /\ t[n] = t[n-1] \o <<Dot>> \o other[n]
      BY <1>1, <1>6, <1>7, <1>8, <3>1 DEF JoinRun
    <3>4. PICK u, dot : u = s[n-1] /\ dot = <<Dot>>
      OBVIOUS
    <3>5. u \in Seq(0..11)
      BY <1>1, <1>7, <3>1, <3>4, JoinedType
    <3>6. dot \in Seq(0..11) /\ last \in Seq(0..11) /\ one \in Seq(0..11)
      BY <1>3, <3>4 DEF Dot, Segment, Other
    <3>7. (u \o dot) \o (last \o one) = ((u \o dot) \o last) \o one
      <4>1. PICK w : w = u \o dot
        OBVIOUS
      <4>2. w \in Seq(0..11)
        BY <3>5, <3>6, <4>1
      <4>3. (w \o last) \o one = w \o (last \o one)
        BY <3>6, <4>2, TextsAssociate
      <4> QED
        BY <4>1, <4>3, Zenon
    <3>8. s[n] = u \o dot \o last /\ t[n] = u \o dot \o (last \o one)
      BY <1>2, <1>4, <1>6, <3>2, <3>3, <3>4, Zenon
    <3> QED
      BY <3>7, <3>8
  <2> QED
    BY <2>1, <2>2
<1> QED
  BY <1>2, <1>6, <1>7, <1>8, <1>9

(* Every text is segments with dots between them.                          *)
LEMMA TextsAreJoined ==
  ASSUME NEW text \in Seq(0..11)
  PROVE  \E list \in Seq(Segment) : list # <<>> /\ text = Joined(list)
<1> DEFINE IsJoined(s) == \E list \in Seq(Segment) : list # <<>> /\ s = Joined(list)
           T == {n \in Nat : \E s \in Seq(0..11) : Len(s) = n /\ ~ IsJoined(s)}
<1> SUFFICES ASSUME T # {} PROVE FALSE
  OBVIOUS
<1>1. PICK n \in T : \A j \in T : n <= j
  <2>1. T \subseteq Nat
    OBVIOUS
  <2> HIDE DEF T
  <2> QED
    BY <2>1, LeastNumber
<1>2. PICK s \in Seq(0..11) : Len(s) = n /\ ~ IsJoined(s)
  BY <1>1
<1>3. CASE n = 0
  <2>1. PICK empty : empty = <<>>
    OBVIOUS
  <2>2. empty \in Segment /\ s = empty
    BY <1>2, <1>3, <2>1 DEF Segment
  <2>3. PICK list : list = <<empty>>
    OBVIOUS
  <2>4. list \in Seq(Segment) /\ list # <<>> /\ Len(list) = 1 /\ list[1] = empty
    BY <2>2, <2>3
  <2>5. PICK t : JoinRun(list, t) /\ Joined(list) = t[1]
    <3>1. Len(list) \in Nat \ {0}
      BY <2>4
    <3> QED
      BY <2>4, <3>1, JoinedRun
  <2>6. s = Joined(list)
    BY <2>2, <2>4, <2>5 DEF JoinRun
  <2> QED
    BY <1>2, <2>4, <2>6
<1>4. CASE n # 0
  <2>1. PICK front, ch : front = SubSeq(s, 1, n-1) /\ ch = s[n]
    OBVIOUS
  <2>2. n \in Nat \ {0}
    BY <1>1, <1>4
  <2>3. front \in Seq(0..11) /\ Len(front) = n-1 /\ ch \in 0..11 /\ s = front \o <<ch>>
    BY <1>2, <2>1, <2>2
  <2>4. n-1 \in Nat /\ n-1 \notin T
    BY <1>1, <2>2
  <2>5. IsJoined(front)
    BY <2>3, <2>4
  <2>6. PICK list \in Seq(Segment) : list # <<>> /\ front = Joined(list)
    BY <2>5
  <2>7. IsJoined(front \o <<ch>>)
    <3>1. CASE ch = Dot
      BY <2>6, <3>1, DotJoined
    <3>2. CASE ch # Dot
      <4>1. ch \in 0..9 \union {Other}
        BY <2>3, <3>2 DEF Dot, Other
      <4> QED
        BY <2>6, <4>1, CharJoined
    <3> QED
      BY <3>1, <3>2
  <2> QED
    BY <1>2, <2>3, <2>7
<1> QED
  BY <1>3, <1>4

(* Whatever the text is, IPv4Address either rejects it or gives an address *)
(* of Width bits, and accepts it exactly if it is four numerals up to      *)
(* OctetMax with dots between them; SubnetMask never accepts a text that   *)
(* is not the mask of a prefix length.                                     *)
THEOREM EveryText ==
  ASSUME NEW text \in Seq(0..11)
  PROVE  /\ ParseAddress(text) \in 0..AllOnes \union {Rejected}
         /\ ParseAddress(text) # Rejected
              <=> \E list \in Seq(Segment) : WellFormed(list) /\ text = Joined(list)
         /\ MaskOfText(text) \in Masks \union {Rejected}
<1>1. PICK list \in Seq(Segment) : list # <<>> /\ text = Joined(list)
  BY TextsAreJoined
<1>2. ParseAddress(text) = IF WellFormed(list) THEN Named(list) ELSE Rejected
  BY <1>1, AddressesParsed
<1>3. ASSUME NEW l \in Seq(Segment), WellFormed(l), text = Joined(l)
      PROVE  ParseAddress(text) \in 0..AllOnes
  <2>1. l # <<>>
    <3> SUFFICES ASSUME l = <<>> PROVE FALSE
      OBVIOUS
    <3>1. Len(l) = 4 /\ Len(l) = 0
      BY <1>3 DEF WellFormed
    <3> QED
      BY <3>1
  <2> QED
    BY <1>3, <2>1, AddressesParsed, NamedType
<1>4. Rejected \notin 0..AllOnes
  BY Words DEF Rejected
<1>5. CASE WellFormed(list)
  <2>1. ParseAddress(text) \in 0..AllOnes
    BY <1>1, <1>3, <1>5
  <2>2. MaskOfText(text) \in Masks \union {Rejected}
    BY <2>1, MaskTexts
  <2> QED
    BY <1>1, <1>4, <1>5, <2>1, <2>2
<1>6. CASE ~ WellFormed(list)
  <2>1. ParseAddress(text) = Rejected
    BY <1>2, <1>6
  <2>2. MaskOfText(text) = Rejected
    BY <2>1 DEF MaskOfText
  <2>3. ~ \E l \in Seq(Segment) : WellFormed(l) /\ text = Joined(l)
    BY <1>3, <1>4, <2>1
  <2> QED
    BY <2>1, <2>2, <2>3
<1> QED
  BY <1>5, <1>6

-----------------------------------------------------------------------------
(* Paths and their costs.                                                  *)

\* The cost of the link that ends at p[i].
Hop(g, open, p, i) == IF p[i-1] = Source /\ p[i] \in open THEN OpenCost ELSE g[p[i-1]][p[i]]

\* The costs of the first n nodes of a path.
CostsTo(g, open, p, n, cost) ==
  cost = [i \in 1..n |-> IF i = 1 THEN 0 ELSE cost[i-1] + Hop(g, open, p, i)]

(* The costs of the parts of a path exist ...                              *)
LEMMA CostsExist ==
  ASSUME NEW g, NEW open, NEW p
  PROVE  \A n \in Nat : \E cost : CostsTo(g, open, p, n, cost)
<1> DEFINE T == {n \in Nat : ~ \E cost : CostsTo(g, open, p, n, cost)}
<1> SUFFICES ASSUME T # {} PROVE FALSE
  OBVIOUS
<1>1. PICK n \in T : \A m \in T : n <= m
  <2>1. T \subseteq Nat
    OBVIOUS
  <2> HIDE DEF T
  <2> QED
    BY <2>1, LeastNumber
<1>2. CASE n = 0
  <2>1. CostsTo(g, open, p, 0, [i \in 1..0 |-> 0])
    BY DEF CostsTo
  <2> QED
    BY <1>2, <2>1
<1>3. CASE n # 0
  <2>1. n-1 \in Nat /\ n-1 \notin T
    BY <1>1, <1>3
  <2>2. PICK cost : CostsTo(g, open, p, n-1, cost)
    BY <2>1
  <2> DEFINE next == [i \in 1..n |-> IF i = 1 THEN 0 ELSE cost[i-1] + Hop(g, open, p, i)]
  <2>3. \A i \in 1..n-1 : next[i] = cost[i]
    BY <2>2 DEF CostsTo
  <2>4. next = [i \in 1..n |-> IF i = 1 THEN 0 ELSE next[i-1] + Hop(g, open, p, i)]
    <3>1. \A i \in 1..n : i # 1 => i-1 \in 1..n-1
      BY <2>1
    <3>2. \A i \in 1..n : i # 1 => next[i-1] = cost[i-1]
      BY <2>3, <3>1
    <3> QED
      BY <3>2
  <2>5. CostsTo(g, open, p, n, next)
    BY <2>4 DEF CostsTo
  <2> QED
    BY <2>5
<1> QED
  BY <1>2, <1>3

\* cost[i] is the cost of the part up to p[i].
CostedBy(g, open, p, n, cost) ==
  /\ PathCost(g, open, p) = cost[n]
  /\ cost[1] = 0
  /\ \A i \in 2..n : cost[i] = cost[i-1] + Hop(g, open, p, i)

(* ... and the last of them is the cost of the path.                       *)
LEMMA PathCostIsLast ==
  ASSUME NEW g, NEW open, NEW p, NEW n \in Nat \ {0}, Len(p) = n
  PROVE  \E cost : CostedBy(g, open, p, n, cost)
<1> DEFINE cost == CHOOSE c : CostsTo(g, open, p, n, c)
<1>1. CostsTo(g, open, p, n, cost)
  BY CostsExist
<1>2. PathCost(g, open, p) = cost[n]
  BY DEF PathCost, CostsTo, Hop
<1> HIDE DEF cost
<1>3. cost[1] = 0
  BY <1>1, 1 \in 1..n DEF CostsTo
<1>4. \A i \in 2..n : cost[i] = cost[i-1] + Hop(g, open, p, i)
  BY <1>1, \A i \in 2..n : i \in 1..n /\ i # 1 DEF CostsTo
<1> QED
  BY <1>2, <1>3, <1>4 DEF CostedBy

\* The source is at 0, and no neighbour is further than over the link to it.
LinksRelaxed ==
  /\ Source \in DOMAIN distances /\ distances[Source] = 0
  /\ \A v \in DOMAIN distances : distances[v] \in Nat
  /\ \A u \in DOMAIN topo : \A v \in DOMAIN topo[u] :
       /\ u \in DOMAIN distances /\ v \in DOMAIN distances
       /\ LinkCost(u, v, avoid) \in Nat
       /\ distances[v] <= distances[u] + LinkCost(u, v, avoid)

(* When all links are relaxed, no path is cheaper than the distance.       *)
LEMMA NoPathCheaper ==
  ASSUME NEW p, NEW n \in Nat \ {0}, Len(p) = n, p[1] = Source,
         \A i \in 1..n-1 : p[i] \in DOMAIN topo /\ p[i+1] \in DOMAIN topo[p[i]],
         LinksRelaxed
  PROVE  /\ PathCost(topo, avoid, p) \in Nat
         /\ p[n] \in DOMAIN distances
         /\ distances[p[n]] <= PathCost(topo, avoid, p)
<1>1. PICK cost : CostedBy(topo, avoid, p, n, cost)
  BY PathCostIsLast
<1> DEFINE Good(i) == p[i] \in DOMAIN distances /\ cost[i] \in Nat /\ distances[p[i]] <= cost[i]
<1> DEFINE T == {i \in 1..n : ~ Good(i)}
<1>2. T = {}
  <2> SUFFICES ASSUME T # {} PROVE FALSE
    OBVIOUS
  <2>1. PICK i \in T : \A j \in T : i <= j
    <3>1. T \subseteq Nat
      OBVIOUS
    <3> HIDE DEF T
    <3> QED
      BY <3>1, LeastNumber
  <2>2. CASE i = 1
    BY <1>1, <2>1, <2>2 DEF CostedBy, LinksRelaxed
  <2>3. CASE i # 1
    <3>1. i \in 2..n /\ i-1 \in 1..n-1 /\ i-1 \in 1..n /\ (i-1) + 1 = i /\ i-1 \notin T
      BY <2>1, <2>3
    <3>2. Good(i-1)
      BY <3>1
    <3>3. PICK u, v : u = p[i-1] /\ v = p[i]
      OBVIOUS
    <3>4. u \in DOMAIN topo /\ v \in DOMAIN topo[u]
      BY <3>1, <3>3
    <3>5. cost[i] = cost[i-1] + LinkCost(u, v, avoid)
      BY <1>1, <3>1, <3>3 DEF Hop, LinkCost, CostedBy
    <3>6. PICK c \in Nat : c = LinkCost(u, v, avoid) /\ distances[v] <= distances[u] + c
      BY <3>4 DEF LinksRelaxed
    <3>7. distances[u] \in Nat /\ distances[v] \in Nat /\ v \in DOMAIN distances
      BY <3>4 DEF LinksRelaxed
    <3>8. Good(i)
      BY <3>2, <3>3, <3>5, <3>6, <3>7
    <3> QED
      BY <2>1, <3>8
  <2> QED
    BY <2>2, <2>3
<1>3. n \in 1..n
  OBVIOUS
<1>4. n \notin T
  BY <1>2, Zenon
<1> QED
  BY <1>1, <1>3, <1>4 DEF CostedBy

\* A distance grew from the parent's by exactly the link.
ParentsTight ==
  \A v \in DOMAIN parent :
    /\ v \in DOMAIN topo[parent[v]]
    /\ distances[v] = distances[parent[v]] + LinkCost(parent[v], v, avoid)

(* A path along parents costs the distance.                                *)
LEMMA TrailCost ==
  ASSUME NEW p, NEW n \in Nat \ {0}, Len(p) = n, p[1] = Source,
         Source \in DOMAIN distances, distances[Source] = 0,
         \A i \in 1..n-1 : p[i+1] \in DOMAIN parent /\ parent[p[i+1]] = p[i],
         ParentsTight
  PROVE  PathCost(topo, avoid, p) = distances[p[n]]
<1>1. PICK cost : CostedBy(topo, avoid, p, n, cost)
  BY PathCostIsLast
<1> DEFINE T == {i \in 1..n : cost[i] # distances[p[i]]}
<1>2. T = {}
  <2> SUFFICES ASSUME T # {} PROVE FALSE
    OBVIOUS
  <2>1. PICK i \in T : \A j \in T : i <= j
    <3>1. T \subseteq Nat
      OBVIOUS
    <3> HIDE DEF T
    <3> QED
      BY <3>1, LeastNumber
  <2>2. CASE i = 1
    BY <1>1, <2>1, <2>2 DEF CostedBy
  <2>3. CASE i # 1
    <3>1. i \in 2..n /\ i-1 \in 1..n-1 /\ i-1 \in 1..n /\ (i-1) + 1 = i /\ i-1 \notin T
      BY <2>1, <2>3
    <3>2. cost[i-1] = distances[p[i-1]]
      BY <3>1
    <3>3. PICK u, v : u = p[i-1] /\ v = p[i]
      OBVIOUS
    <3>4. v \in DOMAIN parent /\ parent[v] = u
      BY <3>1, <3>3
    <3>5. cost[i] = cost[i-1] + LinkCost(u, v, avoid)
      BY <1>1, <3>1, <3>3 DEF Hop, LinkCost, CostedBy
    <3>6. distances[v] = distances[u] + LinkCost(u, v, avoid)
      BY <3>4 DEF ParentsTight
    <3> QED
      BY <2>1, <3>2, <3>3, <3>5, <3>6
  <2> QED
    BY <2>2, <2>3
<1>3. n \in 1..n
  OBVIOUS
<1>4. n \notin T
  BY <1>2, Zenon
<1> QED
  BY <1>1, <1>3, <1>4 DEF CostedBy

(* The minimum of a set of numbers.                                        *)
LEMMA MinIsLeast ==
  ASSUME NEW S, S \subseteq Nat, S # {}
  PROVE  Min(S) \in S /\ \A x \in S : Min(S) <= x
BY LeastNumber DEF Min

-----------------------------------------------------------------------------
(* Ways along parents.                                                     *)

\* p leads from u to v along parents in n - 1 steps.
Trail(p, n, u, v) ==
  /\ p \in [1..n -> Nodes] /\ p[1] = u /\ p[n] = v
  /\ \A i \in 1..n-1 : p[i+1] \in DOMAIN parent /\ parent[p[i+1]] = p[i]

(* A sequence is a function on its positions.                              *)
LEMMA FunctionLength ==
  ASSUME NEW n \in Nat, NEW p \in [1..n -> Nodes]
  PROVE  Len(p) = n
OBVIOUS

(* A member of Trails is a Trail of some length that fits.                 *)
LEMMA TrailParts ==
  ASSUME NEW u, NEW v
  PROVE  \A p : p \in Trails(u, v) <=>
           \E n \in 1..Cardinality(Nodes) : Trail(p, n, u, v) /\ Len(p) = n
<1>1. ASSUME NEW n \in 1..Cardinality(Nodes), NEW p \in [1..n -> Nodes] PROVE Len(p) = n
  <2>1. n \in Nat
    BY RouterAssumption, FS_CardinalityType
  <2> QED
    BY <2>1, FunctionLength
<1> QED
  BY <1>1 DEF Trails, Trail

(* Distances grow along a trail, so no node comes twice ...                *)
LEMMA TrailGrows ==
  ASSUME NEW n \in Nat \ {0}, NEW p, NEW u, NEW v, Trail(p, n, u, v),
         ParentsBelow, \A x \in DOMAIN distances : distances[x] \in Nat,
         DOMAIN parent \subseteq DOMAIN distances
  PROVE  \A i, j \in 1..n : i < j => distances[p[i]] < distances[p[j]]
<1> SUFFICES ASSUME NEW i \in 1..n
             PROVE  \A j \in 1..n : i < j => distances[p[i]] < distances[p[j]]
  OBVIOUS
<1> DEFINE T == {j \in 1..n : i < j /\ ~ (distances[p[i]] < distances[p[j]])}
<1> SUFFICES ASSUME T # {} PROVE FALSE
  OBVIOUS
<1>1. PICK j \in T : \A k \in T : j <= k
  <2>1. T \subseteq Nat
    OBVIOUS
  <2> HIDE DEF T
  <2> QED
    BY <2>1, LeastNumber
<1>2. j-1 \in 1..n-1 /\ j-1 \in 1..n /\ (j-1) + 1 = j /\ i <= j-1 /\ j-1 \notin T
  BY <1>1
<1>3. p[j] \in DOMAIN parent /\ parent[p[j]] = p[j-1]
  BY <1>2 DEF Trail
<1>4. /\ p[j] \in DOMAIN distances /\ p[j-1] \in DOMAIN distances
      /\ distances[p[j-1]] < distances[p[j]]
  BY <1>3 DEF ParentsBelow
<1>5. PICK a, b \in Nat : a = distances[p[j-1]] /\ b = distances[p[j]] /\ a < b
  BY <1>4
<1>6. CASE i = j-1
  BY <1>1, <1>5, <1>6
<1>7. CASE i < j-1
  <2>1. distances[p[i]] < a
    BY <1>2, <1>5, <1>7
  <2>2. distances[p[i]] \in Nat
    <3>1. i \in 1..n-1 /\ i + 1 \in 1..n
      BY <1>2, <1>7
    <3>2. p[i+1] \in DOMAIN parent /\ parent[p[i+1]] = p[i]
      BY <3>1 DEF Trail
    <3> QED
      BY <3>2 DEF ParentsBelow
  <2>3. distances[p[i]] < b
    BY <1>5, <2>1, <2>2
  <2> QED
    BY <1>1, <1>5, <2>3
<1> QED
  BY <1>2, <1>6, <1>7

(* ... and a trail is no longer than there are nodes.                      *)
LEMMA TrailFits ==
  ASSUME NEW n \in Nat \ {0}, NEW p, NEW u, NEW v, Trail(p, n, u, v),
         ParentsBelow, \A x \in DOMAIN distances : distances[x] \in Nat,
         DOMAIN parent \subseteq DOMAIN distances
  PROVE  n \in 1..Cardinality(Nodes)
<1>1. Cardinality(Nodes) \in Nat /\ IsFiniteSet(Nodes)
  BY RouterAssumption, FS_CardinalityType
<1>2. IsFiniteSet(1..n) /\ Cardinality(1..n) = n
  BY 1 \in Int, n \in Int, FS_Interval
<1>3. \A i, j \in 1..n : p[i] = p[j] => i = j
  <2> SUFFICES ASSUME NEW i \in 1..n, NEW j \in 1..n, i < j PROVE p[i] # p[j]
    OBVIOUS
  <2>1. distances[p[i]] < distances[p[j]]
    BY TrailGrows
  <2>2. distances[p[j]] \in Nat
    <3>1. j-1 \in 1..n-1 /\ (j-1) + 1 = j
      OBVIOUS
    <3>2. p[j] \in DOMAIN parent
      BY <3>1 DEF Trail
    <3> QED
      BY <3>2
  <2> QED
    BY <2>1, <2>2
<1>4. p \in [1..n -> Nodes]
  BY DEF Trail
<1>5. ~ (Cardinality(Nodes) < n)
  BY <1>1, <1>2, <1>3, <1>4, FS_PigeonHole
<1> QED
  BY <1>1, <1>5

(* The way to the walk's destination grows by a step at its beginning.     *)
LEMMA TrailFromParent ==
  ASSUME NEW v, NEW u \in DOMAIN parent, NEW p \in Trails(u, v),
         ParentsBelow, \A x \in DOMAIN distances : distances[x] \in Nat /\ x \in Nodes,
         DOMAIN parent \subseteq DOMAIN distances
  PROVE  \E q \in Trails(parent[u], v) : q[2] = u
<1>1. PICK n \in 1..Cardinality(Nodes) : Trail(p, n, u, v) /\ Len(p) = n
  BY TrailParts
<1>2. n \in Nat \ {0}
  BY RouterAssumption, FS_CardinalityType
<1> DEFINE q == [i \in 1..n+1 |-> IF i = 1 THEN parent[u] ELSE p[i-1]]
<1>3. parent[u] \in Nodes
  BY DEF ParentsBelow
<1>4. q \in [1..n+1 -> Nodes]
  <2>1. \A i \in 1..n+1 : i # 1 => i-1 \in 1..n
    BY <1>2
  <2> QED
    BY <1>1, <1>3, <2>1 DEF Trail
<1>5. q[1] = parent[u] /\ q[2] = u /\ q[n+1] = v
  <2>1. 1 \in 1..n+1 /\ 2 \in 1..n+1 /\ n+1 \in 1..n+1 /\ n+1 # 1 /\ (n+1)-1 = n /\ 2-1 = 1
    BY <1>2
  <2> QED
    BY <1>1, <2>1 DEF Trail
<1>6. ASSUME NEW i \in 1..(n+1)-1
      PROVE  q[i+1] \in DOMAIN parent /\ parent[q[i+1]] = q[i]
  <2>1. i+1 \in 1..n+1 /\ i+1 # 1 /\ i \in 1..n+1 /\ (i+1)-1 = i
    BY <1>2
  <2>2. q[i+1] = p[i]
    BY <2>1
  <2>3. CASE i = 1
    BY <1>1, <1>5, <2>2, <2>3 DEF Trail
  <2>4. CASE i # 1
    <3>1. i-1 \in 1..n-1 /\ (i-1)+1 = i
      BY <1>2, <2>4
    <3>2. p[i] \in DOMAIN parent /\ parent[p[i]] = p[i-1]
      BY <1>1, <3>1 DEF Trail
    <3>3. q[i] = p[i-1]
      BY <2>1, <2>4
    <3> QED
      BY <2>2, <3>2, <3>3
  <2> QED
    BY <2>3, <2>4
<1> HIDE DEF q
<1>7. n+1 \in Nat \ {0}
  BY <1>2
<1>8. Trail(q, n+1, parent[u], v)
  BY <1>4, <1>5, <1>6 DEF Trail
<1>9. n+1 \in 1..Cardinality(Nodes)
  BY <1>7, <1>8, TrailFits
<1>10. Len(q) = n+1
  BY <1>4, <1>7, FunctionLength
<1>11. q \in Trails(parent[u], v)
  BY <1>8, <1>9, <1>10, TrailParts
<1> QED
  BY <1>5, <1>11

(* A node is a trail to itself.                                            *)
LEMMA TrailOfOne ==
  ASSUME NEW v \in Nodes
  PROVE  Trails(v, v) # {}
<1> DEFINE p == [i \in 1..1 |-> v]
<1>1. Trail(p, 1, v, v)
  BY DEF Trail
<1>2. Len(p) = 1
  BY FunctionLength, p \in [1..1 -> Nodes]
<1>3. 1 \in 1..Cardinality(Nodes)
  BY RouterAssumption, FS_CardinalityType, FS_EmptySet
<1> HIDE DEF p
<1> QED
  BY <1>1, <1>2, <1>3, TrailParts

-----------------------------------------------------------------------------
(* Dijkstra.                                                               *)

\* The parts of Explored; ParentsTight is one of them.
SameNodes == rpc # "idle" => DOMAIN distances = DOMAIN topo

LinksDone(u) ==
  /\ \A v \in DOMAIN topo[u] : distances[v] <= distances[u] + LinkCost(u, v, avoid)
  /\ \A e \in heap : distances[u] <= e[1]

NodesDone ==
  \A u \in DOMAIN distances :
    distances[u] = MaxDist \/ <<distances[u], u>> \in heap \/ LinksDone(u)

ParentsOut == \A v \in DOMAIN parent : <<distances[parent[v]], parent[v]>> \notin heap

(* Explored is the conjunction of the four, before and after a step.       *)
LEMMA ExploredParts ==
  /\ Explored <=> SameNodes /\ NodesDone /\ ParentsTight /\ ParentsOut
  /\ Explored' <=> SameNodes' /\ NodesDone' /\ ParentsTight' /\ ParentsOut'
BY DEF Explored, SameNodes, NodesDone, LinksDone, ParentsTight, ParentsOut

(* The top has its node's distance, which is the least in the heap, and    *)
(* its node is not the source again.                                       *)
LEMMA TopIsNext ==
  ASSUME IInv, Relax, NEW u, u = Top[2]
  PROVE  /\ Top = <<distances[u], u>> /\ Top \in heap /\ u \in DOMAIN distances
         /\ \A e \in heap : distances[u] <= e[1]
<1>1. heap # {} /\ ~Outdated(Top)
  BY DEF Relax
<1>2. Top \in heap /\ \A e \in heap : Top[1] <= e[1]
  <2>1. heap \subseteq Nat \X Nat
    BY HeapPairs DEF IInv, ParentsCloser, TypeOK
  <2> QED
    BY <1>1, <2>1, TopInHeap
<1>3. /\ Top[1] \in Nat /\ Top = <<Top[1], Top[2]>> /\ u \in DOMAIN distances
      /\ distances[u] \in Nat /\ distances[u] <= Top[1]
  BY <1>2, Types
<1>4. Top[1] = distances[u]
  BY <1>1, <1>3 DEF Outdated
<1> QED
  BY <1>2, <1>3, <1>4

\* What a relaxation of u does to costs of links and to nodes that are done.
LEMMA RelaxFrame ==
  ASSUME SmallCosts, NoStubs, IInv, Reached, Relax,
         NEW u, NEW better, NEW open, Relaxed(u, better, open)
  PROVE  /\ topo' = topo /\ rpc' = "dijkstra" /\ rpc = "dijkstra"
         /\ DOMAIN distances' = DOMAIN distances
         /\ DOMAIN topo \subseteq DOMAIN distances
         /\ \A x \in DOMAIN topo : DOMAIN topo[x] \subseteq DOMAIN distances
         /\ \A v : LinkCost(u, v, avoid)' = LinkCost(u, v, open)
         /\ u # Source => \A x, v : LinkCost(x, v, avoid)' = LinkCost(x, v, avoid)
         /\ u = Source => parent = <<>> /\ \A x \in DOMAIN distances \ {u} : distances[x] = MaxDist
<1>1. /\ rpc = "dijkstra" /\ UNCHANGED <<rpc, topo>>
      /\ topo \in Topologies /\ DOMAIN topo \subseteq DOMAIN distances
  BY DEF Relax, IInv, Locals
<1>2. \A x \in DOMAIN topo : DOMAIN topo[x] \subseteq DOMAIN distances
  BY <1>1 DEF NoStubs
<1>3. DOMAIN distances' = DOMAIN distances /\ avoid' = avoid \union open
  BY <1>2 DEF Relaxed
<1>4. CASE u = Source
  <2>1. Top \in heap /\ Top[2] = Source
    BY <1>4 DEF Relaxed
  <2>2. parent = <<>> /\ avoid = {}
    BY <2>1 DEF Reached
  <2>3. DOMAIN parent = {}
    BY <2>2
  <2>4. \A x \in DOMAIN distances \ {u} : distances[x] = MaxDist
    BY <1>4, <2>3 DEF Reached
  <2>5. avoid' = open
    BY <1>3, <2>2
  <2>6. \A v : LinkCost(u, v, avoid)' = LinkCost(u, v, open)
    BY <1>1, <2>5 DEF LinkCost
  <2> QED
    BY <1>1, <1>2, <1>3, <1>4, <2>2, <2>4, <2>6
<1>5. CASE u # Source
  <2>1. open = {} /\ avoid' = avoid
    BY <1>3, <1>5 DEF Relaxed
  <2>2. \A v : LinkCost(u, v, avoid)' = LinkCost(u, v, open)
    BY <1>1, <1>5 DEF LinkCost
  <2>3. \A x, v : LinkCost(x, v, avoid)' = LinkCost(x, v, avoid)
    BY <1>1, <2>1 DEF LinkCost
  <2> QED
    BY <1>1, <1>2, <1>3, <1>5, <2>2, <2>3
<1> QED
  BY <1>4, <1>5

(* Whatever stays in or comes into the heap is no nearer than u.           *)
LEMMA RelaxedLeast ==
  ASSUME SmallCosts, IInv, Relax, NEW u, NEW better, NEW open, Relaxed(u, better, open)
  PROVE  /\ \A e \in heap' : distances[u] <= e[1]
         /\ \A w \in better : <<distances'[w], w>> \in heap'
         /\ \A e \in heap : e[2] # u => e \in heap'
         /\ <<distances'[u], u>> \notin heap'
         /\ \A x \in DOMAIN distances : x \notin better /\ <<distances[x], x>> \notin heap =>
              <<distances[x], x>> \notin heap'
<1>1. /\ heap' = (heap \ {Top}) \union {<<distances'[v], v>> : v \in better}
      /\ u = Top[2] /\ u \notin better
  BY DEF Relaxed, Popped
<1>2. Top = <<distances[u], u>> /\ \A e \in heap : distances[u] <= e[1]
  BY <1>1, TopIsNext
<1>3. distances[u] \in Nat /\ distances'[u] = distances[u]
  BY Types, RelaxedFalls DEF Relaxed
<1>4. \A w \in better : distances[u] <= distances'[w]
  BY <1>3 DEF Relaxed
<1>5. \A e \in heap' : distances[u] <= e[1]
  BY <1>1, <1>2, <1>4
<1>6. \A e \in heap : e[2] # u => e \in heap'
  BY <1>1
<1>7. <<distances'[u], u>> \notin heap'
  BY <1>1, <1>2, <1>3
<1>8. \A x \in DOMAIN distances : x \notin better /\ <<distances[x], x>> \notin heap =>
        <<distances[x], x>> \notin heap'
  BY <1>1
<1> QED
  BY <1>1, <1>5, <1>6, <1>7, <1>8

(* A node that is done keeps its distance.                                 *)
LEMMA DoneStays ==
  ASSUME SmallCosts, IInv, Relax, NEW u, NEW better, NEW open, Relaxed(u, better, open),
         NEW x \in DOMAIN distances, LinksDone(x)
  PROVE  x \notin better /\ distances'[x] = distances[x]
<1>1. Top \in heap /\ Top = <<distances[u], u>> /\ u \in DOMAIN distances
  BY TopIsNext DEF Relaxed
<1>2. distances[x] <= distances[u]
  BY <1>1 DEF LinksDone
<1>3. distances[x] \in Nat /\ distances[u] \in Nat
  BY <1>1, Types
<1>4. x \notin better
  BY <1>2, <1>3 DEF Relaxed
<1> QED
  BY <1>4 DEF Relaxed

(* After a relaxation, what is reached is in the heap or done.             *)
LEMMA RelaxNodesDone ==
  ASSUME SmallCosts, NoStubs, IInv, Reached, Explored, Relax
  PROVE  NodesDone'
<1>1. PICK u, better, open : Relaxed(u, better, open) /\ RelaxedExactly(u, better, open)
  BY RelaxEffect
<1>2. /\ topo' = topo /\ DOMAIN distances' = DOMAIN distances
      /\ \A x \in DOMAIN topo : DOMAIN topo[x] \subseteq DOMAIN distances
      /\ \A v : LinkCost(u, v, avoid)' = LinkCost(u, v, open)
      /\ u # Source => \A x, v : LinkCost(x, v, avoid)' = LinkCost(x, v, avoid)
      /\ u = Source => \A x \in DOMAIN distances \ {u} : distances[x] = MaxDist
      /\ DOMAIN distances = DOMAIN topo
  <2>1. DOMAIN distances = DOMAIN topo
    BY <1>1, RelaxFrame, ExploredParts DEF SameNodes
  <2> QED
    BY <1>1, <2>1, RelaxFrame
<1>3. /\ \A e \in heap' : distances[u] <= e[1]
      /\ \A w \in better : <<distances'[w], w>> \in heap'
      /\ \A e \in heap : e[2] # u => e \in heap'
  BY <1>1, RelaxedLeast
<1> SUFFICES ASSUME NEW x \in DOMAIN distances'
             PROVE  distances'[x] = MaxDist \/ <<distances'[x], x>> \in heap' \/ LinksDone(x)'
  BY DEF NodesDone
<1>4. CASE x \in better
  BY <1>3, <1>4
<1>5. CASE x = u
  <2>1. distances'[u] = distances[u]
    BY <1>1, RelaxedFalls
  <2>2. \A v \in DOMAIN topo'[u] : distances'[v] <= distances'[u] + LinkCost(u, v, avoid)'
    BY <1>1, <1>2, <2>1 DEF RelaxedExactly
  <2>3. \A e \in heap' : distances'[u] <= e[1]
    BY <1>3, <2>1
  <2> QED
    BY <1>5, <2>2, <2>3 DEF LinksDone
<1>6. CASE x \notin better /\ x # u
  <2>1. x \in DOMAIN distances /\ distances'[x] = distances[x]
    BY <1>1, <1>2, <1>6 DEF Relaxed
  <2>2. CASE distances[x] = MaxDist
    BY <2>1, <2>2
  <2>3. CASE <<distances[x], x>> \in heap
    BY <1>3, <1>6, <2>1, <2>3
  <2>4. CASE LinksDone(x) /\ distances[x] # MaxDist
    <3>1. u # Source
      BY <1>2, <1>6, <2>1, <2>4
    <3>2. ASSUME NEW v \in DOMAIN topo'[x]
          PROVE  distances'[v] <= distances'[x] + LinkCost(x, v, avoid)'
      <4>1. v \in DOMAIN topo[x] /\ v \in DOMAIN distances
        BY <1>2, <2>1
      <4>2. PICK c : c = LinkCost(x, v, avoid) /\ LinkCost(x, v, avoid)' = c
        BY <1>2, <3>1
      <4>3. distances[v] <= distances[x] + c
        BY <2>4, <4>1, <4>2 DEF LinksDone
      <4>4. c \in Nat
        <5>1. topo \in Topologies
          BY DEF Relax, IInv, Locals
        <5>2. x \in DOMAIN topo
          BY <1>2, <2>1
        <5>3. topo[x][v] \in Nat
          BY <4>1, <5>1, <5>2, RouterAssumption
        <5> QED
          BY <4>2, <5>3, Types DEF LinkCost
      <4>5. distances'[v] \in Nat /\ distances'[v] <= distances[v] /\ distances[v] \in Nat
        BY <1>1, <4>1, RelaxedFalls, Types
      <4>6. distances[x] \in Nat
        BY <2>1, Types
      <4>7. distances'[v] <= distances[x] + c
        BY <4>3, <4>4, <4>5, <4>6
      <4> QED
        BY <2>1, <4>2, <4>7
    <3>3. ASSUME NEW e \in heap' PROVE distances'[x] <= e[1]
      <4>1. Top \in heap /\ Top = <<distances[u], u>> /\ u \in DOMAIN distances
        BY <1>1, TopIsNext DEF Relaxed
      <4>2. distances[x] <= distances[u] /\ distances[u] <= e[1]
        BY <1>3, <2>4, <4>1 DEF LinksDone
      <4>3. distances[x] \in Nat /\ distances[u] \in Nat /\ e[1] \in Nat
        <5>1. heap' \subseteq (0..MaxDist) \X Nodes
          BY <1>1, RelaxedHeap
        <5>2. e[1] \in Nat
          BY <5>1, RouterAssumption
        <5> QED
          BY <2>1, <4>1, <5>2, Types
      <4> QED
        BY <2>1, <4>2, <4>3
    <3> QED
      BY <3>2, <3>3 DEF LinksDone
  <2> QED
    BY <2>1, <2>2, <2>3, <2>4, ExploredParts DEF NodesDone
<1> QED
  BY <1>4, <1>5, <1>6

(* A relaxation gives each better node a parent that is done.              *)
LEMMA RelaxParents ==
  ASSUME SmallCosts, NoStubs, IInv, Reached, Explored, Relax
  PROVE  ParentsTight' /\ ParentsOut'
<1>1. PICK u, better, open : Relaxed(u, better, open) /\ RelaxedExactly(u, better, open)
  BY RelaxEffect
<1>2. /\ topo' = topo
      /\ \A v : LinkCost(u, v, avoid)' = LinkCost(u, v, open)
      /\ u # Source => \A x, v : LinkCost(x, v, avoid)' = LinkCost(x, v, avoid)
      /\ u = Source => parent = <<>>
  BY <1>1, RelaxFrame
<1>3. /\ <<distances'[u], u>> \notin heap'
      /\ \A x \in DOMAIN distances : x \notin better /\ <<distances[x], x>> \notin heap =>
           <<distances[x], x>> \notin heap'
  BY <1>1, RelaxedLeast
<1>4. distances'[u] = distances[u]
  BY <1>1, RelaxedFalls
<1> SUFFICES ASSUME NEW v \in DOMAIN parent', NEW x, x = parent'[v]
             PROVE  /\ v \in DOMAIN topo'[x]
                    /\ distances'[v] = distances'[x] + LinkCost(x, v, avoid)'
                    /\ <<distances'[x], x>> \notin heap'
  BY DEF ParentsTight, ParentsOut, LinkCost
<1>5. CASE v \in better
  <2>1. x = u /\ v \in DOMAIN topo[u]
    BY <1>1, <1>5 DEF Relaxed
  <2>2. distances'[v] = distances[u] + LinkCost(u, v, open)
    BY <1>1, <1>5 DEF RelaxedExactly
  <2> QED
    BY <1>2, <1>3, <1>4, <2>1, <2>2
<1>6. CASE v \notin better
  <2>1. v \in DOMAIN parent
    BY <1>1, <1>6 DEF Relaxed
  <2>2. x = parent[v]
    BY <1>1, <1>6, <2>1 DEF Relaxed
  <2>3. x \in DOMAIN distances /\ v \in DOMAIN distances /\ distances[x] < distances[v]
    BY <2>1, <2>2, Types DEF ParentsBelow
  <2>4. /\ v \in DOMAIN topo[x] /\ distances[v] = distances[x] + LinkCost(x, v, avoid)
        /\ <<distances[x], x>> \notin heap
    BY <2>1, <2>2, ExploredParts DEF ParentsTight, ParentsOut
  <2>5. distances[x] # MaxDist
    BY <2>3, Types
  <2>6. LinksDone(x)
    BY <2>3, <2>4, <2>5, ExploredParts DEF NodesDone
  <2>7. x \notin better /\ distances'[x] = distances[x]
    BY <1>1, <2>3, <2>6, DoneStays
  <2>8. distances'[v] = distances[v]
    BY <1>1, <1>6, <2>3 DEF Relaxed
  <2>9. LinkCost(x, v, avoid)' = LinkCost(x, v, avoid)
    <3>1. DOMAIN <<>> = {}
      OBVIOUS
    <3> QED
      BY <1>2, <2>1, <3>1
  <2>10. <<distances'[x], x>> \notin heap'
    BY <1>3, <2>3, <2>4, <2>7
  <2> QED
    BY <1>2, <2>1, <2>2, <2>4, <2>7, <2>8, <2>9, <2>10
<1> QED
  BY <1>5, <1>6

(* Every step but a relaxation keeps Explored ...                          *)
LEMMA OtherExplored ==
  ASSUME SmallCosts, NoStubs, IInv, Explored,
         \/ \E g \in Topologies, plan \in AddressPlans : ComputeRoutes(g, plan)
         \/ Skip \/ HeapEmpty \/ (\E v \in Nodes : NextDest(v)) \/ Walk \/ AddEntry \/ BuildDone
         \/ UNCHANGED <<rpc, computation, build>>
  PROVE  Explored'
<1>0. SameNodes /\ NodesDone /\ ParentsTight /\ ParentsOut
  BY ExploredParts
<1>1. ASSUME NEW g \in Topologies, NEW plan \in AddressPlans, ComputeRoutes(g, plan)
      PROVE  Explored'
  <2>1. /\ parent' = <<>> /\ topo' = g
        /\ \/ /\ heap' = {<<0, Source>>} /\ rpc' = "dijkstra"
              /\ distances' = [v \in DOMAIN g |-> IF v = Source THEN 0 ELSE MaxDist]
           \/ heap' = {} /\ distances' = <<>> /\ rpc' = "idle"
    BY <1>1 DEF ComputeRoutes
  <2>2. DOMAIN parent' = {}
    BY <2>1
  <2>3. SameNodes'
    BY <2>1 DEF SameNodes
  <2>4. \A v \in DOMAIN distances' : distances'[v] = MaxDist \/ <<distances'[v], v>> \in heap'
    <3>1. CASE distances' = <<>>
      <4>1. DOMAIN distances' = {}
        BY <3>1
      <4> QED
        BY <4>1
    <3> QED
      BY <2>1, <3>1
  <2>5. NodesDone'
    BY <2>4 DEF NodesDone
  <2>6. ParentsTight' /\ ParentsOut'
    BY <2>2 DEF ParentsTight, ParentsOut
  <2> QED
    BY <2>3, <2>5, <2>6, ExploredParts
<1>2. CASE Skip
  <2>1. /\ UNCHANGED <<topo, distances, parent, avoid, rpc>> /\ rpc = "dijkstra"
        /\ heap # {} /\ heap' = heap \ {Top} /\ (Outdated(Top) \/ Top[2] \notin DOMAIN topo)
    BY <1>2 DEF Skip, Popped
  <2>2. /\ Top \in heap /\ Top[1] \in Nat /\ Top = <<Top[1], Top[2]>> /\ Top[2] \in DOMAIN distances
        /\ distances[Top[2]] \in Nat
    <3>1. heap \subseteq Nat \X Nat
      BY Types, HeapPairs DEF TypeOK
    <3> QED
      BY <2>1, <3>1, Types, TopInHeap
  <2>3. Top[1] > distances[Top[2]]
    BY <1>0, <2>1, <2>2 DEF SameNodes, Outdated
  <2>4. \A x \in DOMAIN distances : <<distances[x], x>> \in heap => <<distances[x], x>> \in heap'
    <3> SUFFICES ASSUME NEW x \in DOMAIN distances PROVE <<distances[x], x>> # Top
      BY <2>1
    <3> QED
      BY <2>2, <2>3
  <2>5. ASSUME NEW x \in DOMAIN distances, LinksDone(x) PROVE LinksDone(x)'
    <3>1. \A v \in DOMAIN topo'[x] : distances'[v] <= distances'[x] + LinkCost(x, v, avoid)'
      BY <2>1, <2>5 DEF LinksDone, LinkCost
    <3>2. \A e \in heap' : distances'[x] <= e[1]
      BY <2>1, <2>5 DEF LinksDone
    <3> QED
      BY <3>1, <3>2 DEF LinksDone
  <2>6. NodesDone'
    BY <1>0, <2>1, <2>4, <2>5 DEF NodesDone
  <2>7. ParentsTight' /\ ParentsOut' /\ SameNodes'
    BY <1>0, <2>1 DEF ParentsTight, ParentsOut, SameNodes, LinkCost
  <2> QED
    BY <2>6, <2>7, ExploredParts
<1>3. CASE UNCHANGED <<topo, distances, parent, heap, avoid>> /\ (rpc # "idle" \/ rpc' = rpc)
  <2>1. NodesDone'
    <3>1. ASSUME NEW x \in DOMAIN distances, LinksDone(x) PROVE LinksDone(x)'
      BY <1>3, <3>1 DEF LinksDone, LinkCost
    <3> QED
      BY <1>0, <1>3, <3>1 DEF NodesDone
  <2>2. ParentsTight' /\ ParentsOut' /\ SameNodes'
    BY <1>0, <1>3 DEF ParentsTight, ParentsOut, SameNodes, LinkCost
  <2> QED
    BY <2>1, <2>2, ExploredParts
<1>4. CASE BuildDone
  <2>1. distances' = <<>> /\ parent' = <<>> /\ rpc' = "idle"
    BY <1>4 DEF BuildDone
  <2>2. DOMAIN distances' = {} /\ DOMAIN parent' = {}
    BY <2>1
  <2>3. SameNodes' /\ NodesDone' /\ ParentsTight' /\ ParentsOut'
    BY <2>1, <2>2 DEF SameNodes, NodesDone, ParentsTight, ParentsOut
  <2> QED
    BY <2>3, ExploredParts
<1>5. \/ \E g \in Topologies, plan \in AddressPlans : ComputeRoutes(g, plan)
      \/ Skip \/ BuildDone
      \/ UNCHANGED <<topo, distances, parent, heap, avoid>> /\ (rpc # "idle" \/ rpc' = rpc)
  BY DEF HeapEmpty, NextDest, Walk, AddEntry, computation
<1> QED
  BY <1>1, <1>2, <1>3, <1>4, <1>5

(* ... and so does a relaxation.                                           *)
LEMMA ExploredStep ==
  ASSUME SmallCosts, NoStubs, IInv, Reached, Explored, [Next]_vars
  PROVE  Explored'
<1>1. CASE Relax
  <2>1. PICK u, better, open : Relaxed(u, better, open)
    BY <1>1, RelaxEffect
  <2>2. SameNodes'
    BY <1>1, <2>1, RelaxFrame, ExploredParts DEF SameNodes
  <2> QED
    BY <1>1, <2>2, RelaxNodesDone, RelaxParents, ExploredParts
<1>2. \/ \E g \in Topologies, plan \in AddressPlans : ComputeRoutes(g, plan)
      \/ Computing
      \/ UNCHANGED <<rpc, computation, build>>
  BY DEF Next, vars, RecordLink, Ripen, LookupRoute
<1> QED
  BY <1>1, <1>2, OtherExplored DEF Computing

-----------------------------------------------------------------------------
(* The table.                                                              *)

(* Nothing that an entry depends on changes.                               *)
LEMMA SameTrails ==
  ASSUME UNCHANGED parent, NEW u, NEW v
  PROVE  Trails(u, v)' = Trails(u, v)
BY DEF Trails

(* An entry stays right while its destination gets no other.               *)
LEMMA SameEntered ==
  ASSUME UNCHANGED <<parent, distances, node_to_ip, node_to_mask>>, NEW v,
         Rows(v)' = Rows(v), table \subseteq table'
  PROVE  Entered(v) => Entered(v)'
<1> SUFFICES ASSUME Entered(v) PROVE Entered(v)'
  OBVIOUS
<1>1. CASE v = Source \/ distances[v] >= OpenCost
  BY <1>1 DEF Entered
<1>2. CASE ~ (v = Source \/ distances[v] >= OpenCost)
  <2>1. PICK p \in Trails(Source, v) :
          IF {p[2], v} \subseteq DOMAIN node_to_ip /\ v \in DOMAIN node_to_mask
          THEN \E e \in table : Rows(v) = {e} /\ e.next_hop = p[2] /\ e.metric = distances[v]
          ELSE Rows(v) = {}
    BY <1>2 DEF Entered
  <2>2. p \in Trails(Source, v)'
    BY SameTrails
  <2>3. IF {p[2], v} \subseteq DOMAIN node_to_ip' /\ v \in DOMAIN node_to_mask'
        THEN \E e \in table' : Rows(v)' = {e} /\ e.next_hop = p[2] /\ e.metric = distances'[v]
        ELSE Rows(v)' = {}
    BY <2>1
  <2>4. ~ (v = Source \/ distances'[v] >= OpenCost)
    BY <1>2
  <2> QED
    BY <2>2, <2>3, <2>4 DEF Entered
<1> QED
  BY <1>1, <1>2

\* The two halves of TableGrows.
WalkLeads == rpc = "walk" => dest \notin todo /\ dest # Source /\ Trails(current, dest) # {}

Pending(v) == v \in todo \/ (rpc = "walk" /\ v = dest)

TableHolds ==
  rpc \in {"build", "walk"} =>
    /\ \A e \in table : e.dest \in DOMAIN distances
    /\ \A v \in DOMAIN distances : IF Pending(v) THEN Rows(v) = {} ELSE Entered(v)

(* TableGrows is the conjunction of the two, before and after a step.      *)
LEMMA TableParts ==
  /\ TableGrows <=> WalkLeads /\ TableHolds
  /\ TableGrows' <=> WalkLeads' /\ TableHolds'
BY DEF TableGrows, WalkLeads, TableHolds, Pending

(* Steps that leave the table alone.                                       *)
LEMMA SameTable ==
  ASSUME UNCHANGED <<parent, distances, node_to_ip, node_to_mask, table>>,
         rpc \in {"build", "walk"}, TableHolds,
         NEW v \in DOMAIN distances, Pending(v)' <=> Pending(v)
  PROVE  IF Pending(v)' THEN Rows(v)' = {} ELSE Entered(v)'
<1>1. Rows(v)' = Rows(v)
  BY DEF Rows
<1>2. Entered(v) => Entered(v)'
  BY <1>1, SameEntered
<1> QED
  BY <1>1, <1>2 DEF TableHolds

(* The next destination has no entry yet.                                  *)
LEMMA NextDestTable ==
  ASSUME IInv, TableGrows, NEW w \in Nodes, NextDest(w)
  PROVE  TableGrows'
<1>1. /\ UNCHANGED <<parent, distances, node_to_ip, node_to_mask, table>>
      /\ rpc = "build" /\ w \in todo /\ todo' = todo \ {w}
      /\ \/ Unreachable(w) /\ UNCHANGED <<rpc, dest, current>>
         \/ ~Unreachable(w) /\ rpc' = "walk" /\ dest' = w /\ current' = w
  BY DEF NextDest, computation
<1>2. w \in DOMAIN distances
  BY <1>1 DEF IInv, Locals
<1>3. TableHolds /\ Rows(w) = {}
  BY <1>1, <1>2, TableParts DEF TableHolds, Pending
<1>4. WalkLeads'
  <2>1. CASE Unreachable(w)
    BY <1>1, <2>1 DEF WalkLeads
  <2>2. CASE ~Unreachable(w)
    <3>1. Trails(w, w)' # {}
      BY <1>1, TrailOfOne, SameTrails
    <3>2. w # Source
      BY <2>2 DEF Unreachable
    <3>3. Trails(current, dest)' # {}
      BY <1>1, <2>2, <3>1 DEF Trails
    <3> QED
      BY <1>1, <2>2, <3>2, <3>3 DEF WalkLeads
  <2> QED
    BY <2>1, <2>2
<1>5. ASSUME NEW v \in DOMAIN distances'
      PROVE  IF Pending(v)' THEN Rows(v)' = {} ELSE Entered(v)'
  <2>1. CASE v # w
    <3>1. Pending(v)' <=> Pending(v)
      BY <1>1, <2>1 DEF Pending
    <3> QED
      BY <1>1, <1>3, <3>1, SameTable
  <2>2. CASE v = w
    <3>1. Rows(v)' = {}
      BY <1>1, <1>3, <2>2 DEF Rows
    <3>2. CASE Unreachable(w)
      BY <1>1, <2>2, <3>1, <3>2 DEF Entered, Unreachable
    <3>3. CASE ~Unreachable(w)
      BY <1>1, <2>2, <3>1, <3>3 DEF Pending
    <3> QED
      BY <3>2, <3>3
  <2> QED
    BY <2>1, <2>2
<1>6. TableHolds'
  BY <1>1, <1>3, <1>5 DEF TableHolds
<1> QED
  BY <1>4, <1>6, TableParts

(* A step of the walk makes the way to the destination longer.             *)
LEMMA WalkTable ==
  ASSUME IInv, TableGrows, Walk
  PROVE  TableGrows'
<1>1. /\ UNCHANGED <<parent, distances, node_to_ip, node_to_mask, table, rpc, todo, dest>>
      /\ rpc = "walk" /\ ~FirstHop /\ current' = parent[current]
  BY DEF Walk, computation
<1>2. WalkLeads'
  <2>1. PICK p \in Trails(current, dest) : TRUE
    BY <1>1, TableParts DEF WalkLeads
  <2>2. \E q \in Trails(parent[current], dest) : q[2] = current
    BY <1>1, <2>1, WalkDown, TrailFromParent, Types
  <2>3. Trails(current, dest)' # {}
    BY <1>1, <2>2 DEF Trails
  <2> QED
    BY <1>1, <2>3, TableParts DEF WalkLeads
<1>3. \A v : Pending(v)' <=> Pending(v)
  BY <1>1 DEF Pending
<1>4. ASSUME NEW v \in DOMAIN distances'
      PROVE  IF Pending(v)' THEN Rows(v)' = {} ELSE Entered(v)'
  BY <1>1, <1>3, TableParts, SameTable
<1>5. TableHolds'
  BY <1>1, <1>4, TableParts DEF TableHolds
<1> QED
  BY <1>2, <1>5, TableParts

(* The entry added leads along the way that was walked.                    *)
LEMMA AddEntryTable ==
  ASSUME IInv, Reached, TableGrows, AddEntry
  PROVE  TableGrows'
<1>1. /\ UNCHANGED <<parent, distances, node_to_ip, node_to_mask, todo, dest, current>>
      /\ rpc = "walk" /\ FirstHop /\ rpc' = "build"
  BY DEF AddEntry, computation, build
<1> DEFINE addressed == {current, dest} \subseteq DOMAIN node_to_ip /\ dest \in DOMAIN node_to_mask
<1>2. table' = IF addressed THEN table \union {NewEntry} ELSE table
  BY DEF AddEntry
<1>3. NewEntry.dest = dest /\ NewEntry.next_hop = current /\ NewEntry.metric = distances[dest]
  BY DEF NewEntry
<1>4. TableHolds /\ dest \notin todo /\ dest # Source /\ dest \in DOMAIN distances
  BY <1>1, TableParts DEF WalkLeads, IInv, Locals
<1>5. Rows(dest) = {}
  BY <1>1, <1>4 DEF TableHolds, Pending
<1>6. \E q \in Trails(Source, dest) : q[2] = current
  <2>1. current \in DOMAIN parent /\ parent[current] = Source
    <3>1. current \in DOMAIN distances /\ current # Source /\ distances[current] < OpenCost
      BY <1>1 DEF IInv, Locals, Reached
    <3>2. OpenCost \in Nat /\ OpenCost <= MaxDist /\ MaxDist \in Nat /\ distances[current] \in Nat
      BY <3>1, Types, RouterAssumption
    <3>3. current \in DOMAIN parent
      BY <3>1, <3>2 DEF Reached
    <3> QED
      BY <1>1, <3>3 DEF FirstHop
  <2>2. PICK p \in Trails(current, dest) : TRUE
    BY <1>1, TableParts DEF WalkLeads
  <2> QED
    BY <2>1, <2>2, TrailFromParent, Types
<1>7. ASSUME NEW v \in DOMAIN distances'
      PROVE  IF Pending(v)' THEN Rows(v)' = {} ELSE Entered(v)'
  <2>1. CASE v # dest
    <3>1. Rows(v)' = Rows(v) /\ table \subseteq table'
      BY <1>2, <1>3, <2>1 DEF Rows
    <3>2. Pending(v)' <=> Pending(v)
      BY <1>1, <2>1 DEF Pending
    <3>3. Entered(v) => Entered(v)'
      BY <1>1, <3>1, SameEntered
    <3> QED
      BY <1>1, <1>4, <3>1, <3>2, <3>3 DEF TableHolds
  <2>2. CASE v = dest
    <3>1. ~ Pending(v)'
      BY <1>1, <1>4, <2>2 DEF Pending
    <3>2. ~ (v = Source \/ distances'[v] >= OpenCost)
      <4>1. distances[dest] < OpenCost /\ distances[dest] \in Nat /\ OpenCost \in Nat
        BY <1>1, <1>4, Types DEF IInv, Locals
      <4> QED
        BY <1>1, <1>4, <2>2, <4>1
    <3>3. PICK q \in Trails(Source, v) : q[2] = current
      BY <1>6, <2>2
    <3>4. q \in Trails(Source, v)'
      BY <1>1, SameTrails
    <3>5. IF {q[2], v} \subseteq DOMAIN node_to_ip' /\ v \in DOMAIN node_to_mask'
          THEN \E e \in table' : Rows(v)' = {e} /\ e.next_hop = q[2] /\ e.metric = distances'[v]
          ELSE Rows(v)' = {}
      <4>1. CASE addressed
        <5>1. Rows(v)' = {NewEntry} /\ NewEntry \in table'
          BY <1>2, <1>3, <1>5, <2>2, <4>1 DEF Rows
        <5>2. NewEntry.next_hop = q[2] /\ NewEntry.metric = distances'[v]
          BY <1>1, <1>3, <2>2, <3>3
        <5>3. {q[2], v} \subseteq DOMAIN node_to_ip' /\ v \in DOMAIN node_to_mask'
          BY <1>1, <2>2, <3>3, <4>1
        <5> QED
          BY <5>1, <5>2, <5>3
      <4>2. CASE ~ addressed
        <5>1. Rows(v)' = {}
          BY <1>2, <1>5, <2>2, <4>2 DEF Rows
        <5>2. ~ ({q[2], v} \subseteq DOMAIN node_to_ip' /\ v \in DOMAIN node_to_mask')
          BY <1>1, <2>2, <3>3, <4>2
        <5> QED
          BY <5>1, <5>2
      <4> QED
        BY <4>1, <4>2
    <3>6. Entered(v)'
      BY <3>2, <3>4, <3>5 DEF Entered
    <3> QED
      BY <3>1, <3>6
  <2> QED
    BY <2>1, <2>2
<1>8. \A e \in table' : e.dest \in DOMAIN distances'
  BY <1>1, <1>2, <1>3, <1>4 DEF TableHolds
<1>9. TableHolds' /\ WalkLeads'
  BY <1>1, <1>7, <1>8 DEF TableHolds, WalkLeads
<1> QED
  BY <1>9, TableParts

(* So every step keeps TableGrows.                                         *)
LEMMA TableStep ==
  ASSUME SmallCosts, NoStubs, IInv, Reached, NextHopsUsable, TableGrows, [Next]_vars
  PROVE  TableGrows'
<1>1. CASE rpc' \in {"idle", "dijkstra"}
  BY <1>1, TableParts DEF WalkLeads, TableHolds
<1>2. CASE HeapEmpty
  <2>1. /\ rpc = "dijkstra" /\ rpc' = "build" /\ todo' = DOMAIN distances
        /\ UNCHANGED <<table, distances>>
    BY <1>2 DEF HeapEmpty, computation
  <2>2. table' = {}
    BY <2>1 DEF NextHopsUsable
  <2>3. \A v \in DOMAIN distances' : Pending(v)' /\ Rows(v)' = {}
    BY <2>1, <2>2 DEF Pending, Rows
  <2>4. TableHolds' /\ WalkLeads'
    BY <2>1, <2>2, <2>3 DEF TableHolds, WalkLeads
  <2> QED
    BY <2>4, TableParts
<1>3. ASSUME NEW w \in Nodes, NextDest(w) PROVE TableGrows'
  BY <1>3, NextDestTable
<1>4. CASE Walk
  BY <1>4, WalkTable
<1>5. CASE AddEntry
  BY <1>5, AddEntryTable
<1>6. CASE UNCHANGED vars
  <2>1. UNCHANGED <<parent, distances, node_to_ip, node_to_mask, table, rpc, todo, dest, current>>
    BY <1>6 DEF vars, computation, build
  <2>2. \A v : Pending(v)' <=> Pending(v)
    BY <2>1 DEF Pending
  <2>3. TableHolds'
    <3>1. ASSUME rpc \in {"build", "walk"}, NEW v \in DOMAIN distances
          PROVE  IF Pending(v)' THEN Rows(v)' = {} ELSE Entered(v)'
      BY <2>1, <2>2, <3>1, TableParts, SameTable
    <3> QED
      BY <2>1, <3>1, TableParts DEF TableHolds
  <2>4. WalkLeads'
    <3>1. Trails(current, dest)' = Trails(current, dest)
      BY <2>1 DEF Trails
    <3> QED
      BY <2>1, <3>1, TableParts DEF WalkLeads
  <2> QED
    BY <2>3, <2>4, TableParts
<1>7. \/ rpc' \in {"idle", "dijkstra"} \/ HeapEmpty \/ (\E w \in Nodes : NextDest(w))
      \/ Walk \/ AddEntry \/ UNCHANGED vars
  BY DEF Next, Computing, RecordLink, Ripen, ComputeRoutes, Skip, Relax, BuildDone, LookupRoute
<1> QED
  BY <1>1, <1>2, <1>3, <1>4, <1>5, <1>6, <1>7

(* A router that has computed nothing yet.                                 *)
LEMMA ShortInit ==
  ASSUME Init
  PROVE  Explored /\ TableGrows
<1>1. rpc = "idle" /\ distances = <<>> /\ parent = <<>>
  BY DEF Init
<1>2. DOMAIN distances = {} /\ DOMAIN parent = {}
  BY <1>1
<1> QED
  BY <1>1, <1>2 DEF Explored, TableGrows

-----------------------------------------------------------------------------
(* The finished table.                                                     *)

\* What the inductive invariants say when the table is complete.
Finished ==
  /\ IInv /\ Explored /\ TableGrows
  /\ rpc = "build" /\ todo = {}

(* When the heap is empty, every link is relaxed.                          *)
LEMMA AllRelaxed ==
  ASSUME NoStubs, Finished
  PROVE  LinksRelaxed /\ ParentsTight
<1>1. /\ topo \in Topologies /\ heap = {} /\ DOMAIN distances = DOMAIN topo
      /\ Source \in DOMAIN topo /\ distances[Source] = 0
  BY DEF Finished, IInv, Locals, Explored
<1>2. NodesDone /\ ParentsTight
  BY ExploredParts DEF Finished
<1>3. ASSUME NEW u \in DOMAIN topo, NEW v \in DOMAIN topo[u]
      PROVE  /\ v \in DOMAIN distances /\ LinkCost(u, v, avoid) \in Nat
             /\ distances[v] <= distances[u] + LinkCost(u, v, avoid)
  <2>1. v \in DOMAIN distances
    BY <1>1 DEF NoStubs
  <2>2. PICK c : c = LinkCost(u, v, avoid)
    OBVIOUS
  <2>3. c \in Nat
    <3>1. topo[u][v] \in Nat
      BY <1>1, RouterAssumption
    <3> QED
      BY <2>2, <3>1, RouterAssumption DEF LinkCost
  <2>4. /\ distances[u] \in Nat /\ distances[v] \in Nat
        /\ distances[v] <= MaxDist /\ MaxDist \in Nat
    BY <1>1, <2>1, Types DEF Finished
  <2>5. distances[v] <= distances[u] + c
    <3>1. CASE distances[u] = MaxDist
      BY <2>3, <2>4, <3>1
    <3>2. CASE LinksDone(u)
      BY <2>2, <3>2 DEF LinksDone
    <3> QED
      BY <1>1, <1>2, <3>1, <3>2 DEF NodesDone
  <2> QED
    BY <2>1, <2>2, <2>3, <2>5
<1>4. \A v \in DOMAIN distances : distances[v] \in Nat
  BY Types DEF Finished
<1> QED
  BY <1>1, <1>2, <1>3, <1>4 DEF LinksRelaxed

\* p is a path to v with n nodes.
Path(p, n, v) ==
  /\ p \in [1..n -> Nodes] /\ p[1] = Source /\ p[n] = v
  /\ \A i \in 1..n-1 : p[i] \in DOMAIN topo /\ p[i+1] \in DOMAIN topo[p[i]]

(* A member of PathsTo is a Path of some length that fits.                 *)
LEMMA PathParts ==
  ASSUME NEW v
  PROVE  \A p : p \in PathsTo(topo, v) <=>
           \E n \in 2..Cardinality(Nodes) : Path(p, n, v) /\ Len(p) = n
<1>1. ASSUME NEW n \in 2..Cardinality(Nodes), NEW p \in [1..n -> Nodes] PROVE Len(p) = n
  <2>1. n \in Nat
    BY RouterAssumption, FS_CardinalityType
  <2> QED
    BY <2>1, FunctionLength
<1> QED
  BY <1>1 DEF PathsTo, Path

(* No path is cheaper than its last node's distance ...                    *)
LEMMA PathsAreNoShorter ==
  ASSUME NoStubs, Finished, NEW v, NEW p \in PathsTo(topo, v)
  PROVE  /\ v \in DOMAIN distances
         /\ PathCost(topo, avoid, p) \in Nat
         /\ distances[v] <= PathCost(topo, avoid, p)
<1>1. PICK n \in 2..Cardinality(Nodes) : Path(p, n, v) /\ Len(p) = n
  BY PathParts
<1>2. n \in Nat \ {0}
  BY RouterAssumption, FS_CardinalityType
<1> QED
  BY <1>1, <1>2, AllRelaxed, NoPathCheaper DEF Path

(* ... and the trails along parents cost just that.                        *)
LEMMA TrailsAreShortest ==
  ASSUME NoStubs, Finished, NEW v, v # Source, NEW p \in Trails(Source, v)
  PROVE  /\ p \in ShortestPaths(topo, avoid, v)
         /\ Shortest(topo, avoid, v) = distances[v]
<1>1. PICK n \in 1..Cardinality(Nodes) : Trail(p, n, Source, v) /\ Len(p) = n
  BY TrailParts
<1>2. n \in Nat /\ n # 1 /\ n \in 2..Cardinality(Nodes) /\ n \in Nat \ {0}
  <2>1. Cardinality(Nodes) \in Nat
    BY RouterAssumption, FS_CardinalityType
  <2>2. n # 1
    BY <1>1 DEF Trail
  <2> QED
    BY <2>1, <2>2
<1>3. LinksRelaxed /\ ParentsTight
  BY AllRelaxed
<1>4. PathCost(topo, avoid, p) = distances[v]
  BY <1>1, <1>2, <1>3, TrailCost DEF Trail, LinksRelaxed
<1>5. Path(p, n, v)
  <2>1. DOMAIN distances = DOMAIN topo
    BY DEF Finished, Explored
  <2>2. ASSUME NEW i \in 1..n-1 PROVE p[i] \in DOMAIN topo /\ p[i+1] \in DOMAIN topo[p[i]]
    <3>1. p[i+1] \in DOMAIN parent /\ parent[p[i+1]] = p[i]
      BY <1>1 DEF Trail
    <3>2. p[i] \in DOMAIN distances
      BY <3>1, Types DEF Finished, ParentsBelow
    <3> QED
      BY <1>3, <2>1, <3>1, <3>2 DEF ParentsTight
  <2> QED
    BY <1>1, <2>2 DEF Trail, Path
<1>6. p \in PathsTo(topo, v)
  BY <1>1, <1>2, <1>5, PathParts
<1> DEFINE costs == {PathCost(topo, avoid, q) : q \in PathsTo(topo, v)}
<1>7. costs \subseteq Nat /\ costs # {} /\ distances[v] \in costs
      /\ \A c \in costs : distances[v] <= c
  BY <1>4, <1>6, PathsAreNoShorter
<1>8. Shortest(topo, avoid, v) = Min(costs)
  BY DEF Shortest
<1> HIDE DEF costs
<1>9. Min(costs) \in Nat /\ Min(costs) = distances[v]
  <2>1. Min(costs) \in costs /\ \A c \in costs : Min(costs) <= c
    BY <1>7, MinIsLeast
  <2>2. Min(costs) <= distances[v] /\ distances[v] <= Min(costs)
    BY <1>7, <2>1
  <2>3. Min(costs) \in Nat /\ distances[v] \in Nat
    BY <1>7, <2>1
  <2> QED
    BY <2>2, <2>3
<1> QED
  BY <1>4, <1>6, <1>8, <1>9 DEF ShortestPaths

\* The entry e is the only one for its destination, and is right.
EntryRight(e) ==
  /\ Rows(e.dest) = {e}
  /\ e.dest \in (DOMAIN node_to_ip \intersect DOMAIN node_to_mask) \ {Source}
  /\ e.metric = Shortest(topo, avoid, e.dest) /\ e.metric < OpenCost
  /\ \E p \in ShortestPaths(topo, avoid, e.dest) : p[2] = e.next_hop

(* Every entry of the finished table is right ...                          *)
LEMMA EntriesAreRight ==
  ASSUME NoStubs, Finished, NEW e \in table
  PROVE  EntryRight(e)
<1>1. PICK v : v = e.dest
  OBVIOUS
<1>2. v \in DOMAIN distances /\ Entered(v) /\ e \in Rows(v)
  BY <1>1, TableParts DEF Finished, TableHolds, Pending, Rows
<1>3. v # Source /\ ~ (distances[v] >= OpenCost)
  BY <1>2 DEF Entered
<1>4. PICK p \in Trails(Source, v) :
        /\ {p[2], v} \subseteq DOMAIN node_to_ip /\ v \in DOMAIN node_to_mask
        /\ Rows(v) = {e} /\ e.next_hop = p[2] /\ e.metric = distances[v]
  BY <1>2, <1>3 DEF Entered
<1>5. p \in ShortestPaths(topo, avoid, v) /\ Shortest(topo, avoid, v) = distances[v]
  BY <1>3, TrailsAreShortest
<1>6. distances[v] < OpenCost
  BY <1>2, <1>3, Types DEF Finished
<1> QED
  BY <1>1, <1>3, <1>4, <1>5, <1>6 DEF EntryRight

(* ... every routable destination has one ...                              *)
LEMMA RoutablesAreListed ==
  ASSUME NoStubs, Finished,
         NEW v \in (DOMAIN node_to_ip \intersect DOMAIN node_to_mask) \ {Source},
         PathsTo(topo, v) # {}, Shortest(topo, avoid, v) < OpenCost,
         \A p \in ShortestPaths(topo, avoid, v) : p[2] \in DOMAIN node_to_ip
  PROVE  \E e \in table : e.dest = v
<1>1. v \in DOMAIN distances /\ distances[v] < OpenCost
  <2> DEFINE costs == {PathCost(topo, avoid, q) : q \in PathsTo(topo, v)}
  <2>1. costs \subseteq Nat /\ costs # {} /\ \A c \in costs : distances[v] <= c
    BY PathsAreNoShorter
  <2>2. Shortest(topo, avoid, v) = Min(costs)
    BY DEF Shortest
  <2>3. v \in DOMAIN distances
    BY PathsAreNoShorter
  <2> HIDE DEF costs
  <2>4. Min(costs) \in costs
    BY <2>1, MinIsLeast
  <2>5. Min(costs) \in Nat /\ distances[v] <= Min(costs)
    BY <2>1, <2>4
  <2>6. distances[v] \in Nat /\ OpenCost \in Nat
    BY <2>3, Types DEF Finished
  <2> QED
    BY <2>2, <2>3, <2>5, <2>6
<1>2. Entered(v)
  BY <1>1, TableParts DEF Finished, TableHolds, Pending
<1>3. ~ (v = Source \/ distances[v] >= OpenCost)
  BY <1>1, Types DEF Finished
<1>4. PICK p \in Trails(Source, v) :
         IF {p[2], v} \subseteq DOMAIN node_to_ip /\ v \in DOMAIN node_to_mask
         THEN \E e \in table : Rows(v) = {e} /\ e.next_hop = p[2] /\ e.metric = distances[v]
         ELSE Rows(v) = {}
  BY <1>2, <1>3 DEF Entered
<1>5. p[2] \in DOMAIN node_to_ip
  BY TrailsAreShortest
<1>6. PICK e \in table : Rows(v) = {e}
  BY <1>4, <1>5
<1> QED
  BY <1>6 DEF Rows

(* ... and so the finished table is correct.                               *)
LEMMA TableIsCorrect ==
  ASSUME NoStubs, Finished
  PROVE  TableCorrect
<1> DEFINE listed == {e.dest : e \in table}
<1>1. \A e \in table : EntryRight(e)
  BY EntriesAreRight
<1>2. Cardinality(table) = Cardinality(listed)
  <2> DEFINE f == [e \in table |-> e.dest]
  <2>1. f \in Bijection(table, listed)
    <3>1. \A a, b \in table : f[a] = f[b] => a = b
      BY <1>1 DEF EntryRight, Rows
    <3> QED
      BY <3>1 DEF Bijection, Injection, Surjection, IsInjective
  <2>2. IsFiniteSet(listed)
    <3>1. IsFiniteSet(Nodes)
      BY RouterAssumption
    <3>2. listed \subseteq Nodes
      BY TableParts, Types DEF Finished, TableHolds
    <3> QED
      BY <3>1, <3>2, FS_Subset
  <2>3. IsFiniteSet(table)
    BY <2>1, <2>2, FS_Injection DEF Bijection
  <2> HIDE DEF f, listed
  <2> QED
    BY <2>1, <2>3, FS_Bijection DEF ExistsBijection
<1>3. \A v \in listed : \E e \in table : e.dest = v
  OBVIOUS
<1>4. ASSUME NEW e \in table
      PROVE  /\ e.dest \in (DOMAIN node_to_ip \intersect DOMAIN node_to_mask) \ {Source}
             /\ PathsTo(topo, e.dest) # {} /\ Shortest(topo, avoid, e.dest) < OpenCost
             /\ e.metric = Shortest(topo, avoid, e.dest)
             /\ \E p \in ShortestPaths(topo, avoid, e.dest) : p[2] = e.next_hop
  BY <1>1 DEF EntryRight, ShortestPaths
<1>5. ASSUME NEW v \in (DOMAIN node_to_ip \intersect DOMAIN node_to_mask) \ {Source},
             PathsTo(topo, v) # {}, Shortest(topo, avoid, v) < OpenCost,
             \A p \in ShortestPaths(topo, avoid, v) : p[2] \in DOMAIN node_to_ip
      PROVE  v \in listed
  BY <1>5, RoutablesAreListed
<1> QED
  BY <1>2, <1>4, <1>5 DEF TableCorrect

(* When every neighbour is also a key of the topology, the table that      *)
(* compute_routes() returns with has exactly one entry for every routable  *)
(* destination: its metric is the cost of a shortest path and its next hop *)
(* starts one, for every topology and every history of the breakers.       *)
THEOREM RoutesAreShortest == SmallCosts /\ NoStubs => (Spec => ShortestRoutes)
<1> SUFFICES ASSUME SmallCosts, NoStubs PROVE Spec => ShortestRoutes
  OBVIOUS
<1> DEFINE Inv == IInv /\ HopInv /\ Explored /\ TableGrows
<1>1. Init => Inv
  BY IInvInit, HopInvInit, ShortInit
<1>2. Inv /\ [Next]_vars => Inv'
  <2> SUFFICES ASSUME Inv, [Next]_vars PROVE Inv'
    OBVIOUS
  <2>1. Reached /\ NextHopsUsable
    BY DEF HopInv
  <2> QED
    BY <2>1, IInvStep, HopInvStep, ExploredStep, TableStep
<1>3. ASSUME Inv, [Next]_vars, rpc # "idle", rpc' = "idle"
      PROVE  TableCorrect'
  <2>1. BuildDone
    BY <1>3 DEF Next, vars, Computing, RecordLink, Ripen, ComputeRoutes, Relax, Skip, HeapEmpty,
                NextDest, Walk, AddEntry, LookupRoute
  <2>2. rpc = "build" /\ todo = {} /\ UNCHANGED <<table, topo, avoid, node_to_ip, node_to_mask>>
    BY <2>1 DEF BuildDone
  <2>3. TableCorrect
    BY <1>3, <2>2, TableIsCorrect DEF Finished
  <2> QED
    BY <2>2, <2>3 DEF TableCorrect
<1>4. Inv /\ [Next]_vars => [rpc # "idle" /\ rpc' = "idle" => TableCorrect']_vars
  BY <1>3
<1> QED
  BY <1>1, <1>2, <1>4, PTL DEF Spec, ShortestRoutes
=============================================================================
