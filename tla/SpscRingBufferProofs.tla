------------------------ MODULE SpscRingBufferProofs ------------------------
(***************************************************************************)
(* Proofs about SpscRingBuffer, for every capacity and counter width that  *)
(* satisfy CapacityAssumption.                                             *)
(***************************************************************************)
EXTENDS SpscRingBuffer, SequenceTheorems, TLAPS

(* Differences of size_t counters, without the modulo.                     *)
LEMMA DistLinear ==
  \A a, b \in Index : Dist(a, b) = IF a <= b THEN b - a ELSE b - a + IndexMod
<1> SUFFICES ASSUME NEW a \in Index, NEW b \in Index
             PROVE  Dist(a, b) = IF a <= b THEN b - a ELSE b - a + IndexMod
  OBVIOUS
<1> QED
  BY CapacityAssumption, SMTT(30) DEF Dist, Index

(* Advancing a size_t counter, without the modulo.                         *)
LEMMA IncLinear ==
  \A a \in Index : /\ Inc(a) \in Index
                   /\ Inc(a) = IF a + 1 = IndexMod THEN 0 ELSE a + 1
  BY CapacityAssumption, SMTT(30) DEF Inc, Index

(* A counter is mapped to a slot of the array.                             *)
LEMMA SlotType == \A a \in Index : Slot(a) \in Slots
  BY CapacityAssumption, SMTT(30) DEF Slot, Slots, Index

(* Division with remainder is unique.                                      *)
LEMMA ModUnique ==
  ASSUME NEW x \in Nat, NEW m \in Int, NEW r \in 0..Capacity-1,
         x = Capacity * m + r
  PROVE  x % Capacity = r
<1> DEFINE q == x \div Capacity
           s == x % Capacity
<1>1. q \in Int /\ s \in 0..Capacity-1 /\ x = Capacity * q + s
  BY CapacityAssumption, SMTT(30)
<1> HIDE DEF q, s
<1>2. Capacity * (q - m) = r - s
  BY <1>1, CapacityAssumption, SMTT(30)
<1>3. CASE q - m <= -1
  BY <1>1, <1>2, <1>3, CapacityAssumption, SMTT(30)
<1>4. CASE q - m >= 1
  BY <1>1, <1>2, <1>4, CapacityAssumption, SMTT(30)
<1>5. CASE q = m
  BY <1>1, <1>5, CapacityAssumption, SMTT(30) DEF s
<1> QED
  BY <1>1, <1>3, <1>4, <1>5, SMTT(30)

(* Two indices less than one lap apart use different slots.                *)
LEMMA ModApart ==
  ASSUME NEW a \in Nat, NEW b \in Nat, a < b, b < a + Capacity
  PROVE  a % Capacity # b % Capacity
<1> DEFINE q == a \div Capacity
           r == a % Capacity
<1>1. q \in Int /\ r \in 0..Capacity-1 /\ a = Capacity * q + r
  BY CapacityAssumption, SMTT(30)
<1> HIDE DEF q, r
<1>2. CASE r + (b - a) < Capacity
  <2> DEFINE r2 == r + (b - a)
  <2>1. r2 \in 0..Capacity-1 /\ b = Capacity * q + r2 /\ r # r2
    BY <1>1, <1>2, CapacityAssumption, SMTT(30)
  <2> HIDE DEF r2
  <2>2. b % Capacity = r2
    BY <1>1, <2>1, ModUnique
  <2> QED
    BY <2>1, <2>2 DEF r
<1>3. CASE r + (b - a) >= Capacity
  <2> DEFINE r2 == r + (b - a) - Capacity
             q2 == q + 1
  <2>1. /\ r2 \in 0..Capacity-1 /\ r # r2
        /\ q2 \in Int /\ b = Capacity * q2 + r2
    BY <1>1, <1>3, CapacityAssumption, SMTT(30)
  <2> HIDE DEF r2, q2
  <2>2. b % Capacity = r2
    BY <2>1, ModUnique
  <2> QED
    BY <2>1, <2>2 DEF r
<1> QED
  BY <1>1, <1>2, <1>3, CapacityAssumption

(* Adding the counter width, a multiple of Capacity, keeps the slot.       *)
LEMMA ModShift ==
  ASSUME NEW a \in Nat
  PROVE  (a + IndexMod) % Capacity = a % Capacity
<1>1. PICK k \in 1..IndexMod : IndexMod = k * Capacity
  BY CapacityAssumption
<1> DEFINE q == a \div Capacity
           r == a % Capacity
<1>2. q \in Int /\ r \in 0..Capacity-1 /\ a = Capacity * q + r
  BY CapacityAssumption, SMTT(30)
<1> HIDE DEF q, r
<1> DEFINE x == a + IndexMod
           q2 == q + k
<1>3. x \in Nat /\ q2 \in Int /\ x = Capacity * q2 + r
  BY <1>1, <1>2, CapacityAssumption, SMTT(30)
<1> HIDE DEF x, q2
<1>4. x % Capacity = r
  BY <1>2, <1>3, ModUnique
<1> QED
  BY <1>4 DEF r, x

(* Two counters less than one lap apart, wrapped or not, use different     *)
(* slots.                                                                  *)
LEMMA SlotsApart ==
  ASSUME NEW a \in Index, NEW b \in Index, 0 < Dist(a, b), Dist(a, b) < Capacity
  PROVE  Slot(a) # Slot(b)
<1>1. CASE a < b
  BY <1>1, ModApart, DistLinear, CapacityAssumption DEF Slot, Index
<1>2. CASE b < a
  <2> DEFINE c == b + IndexMod
  <2>1. c \in Nat /\ a \in Nat /\ b \in Nat /\ a < c /\ c < a + Capacity
    BY <1>2, DistLinear, CapacityAssumption DEF Index
  <2>2. c % Capacity = b % Capacity
    BY <2>1, ModShift
  <2> HIDE DEF c
  <2>3. a % Capacity # c % Capacity
    BY <2>1, ModApart
  <2> QED
    BY <2>2, <2>3 DEF Slot
<1> QED
  BY <1>1, <1>2, DistLinear DEF Index

-----------------------------------------------------------------------------
(* A distance is a counter value.                                          *)
LEMMA DistType == \A a, b \in Index : Dist(a, b) \in Index
  BY DistLinear, CapacityAssumption DEF Index

(* The distance is zero only between equal counters.                       *)
LEMMA DistZero == \A a, b \in Index : Dist(a, b) = 0 <=> a = b
  BY DistLinear, CapacityAssumption DEF Index

(* Points met in the order a, b, c going round the ring.                   *)
LEMMA DistBetween ==
  ASSUME NEW a \in Index, NEW b \in Index, NEW c \in Index,
         Dist(a, b) <= Dist(a, c)
  PROVE  Dist(a, c) = Dist(a, b) + Dist(b, c)
  BY DistLinear, CapacityAssumption DEF Index

(* A point between b and d is between a and d when b is.                   *)
LEMMA DistNested ==
  ASSUME NEW a \in Index, NEW b \in Index, NEW c \in Index, NEW d \in Index,
         Dist(a, b) <= Dist(a, d), Dist(b, c) <= Dist(b, d)
  PROVE  Dist(a, c) <= Dist(a, d)
  BY DistLinear, CapacityAssumption, SMTT(30) DEF Index

(* Advancing the far end of a distance adds one.                           *)
LEMMA DistIncRight ==
  ASSUME NEW a \in Index, NEW b \in Index, Dist(a, b) < IndexMod - 1
  PROVE  Dist(a, Inc(b)) = Dist(a, b) + 1
<1>1. /\ Inc(b) \in Index
      /\ Inc(b) = IF b + 1 = IndexMod THEN 0 ELSE b + 1
  BY IncLinear
<1>2. /\ Dist(a, b) = IF a <= b THEN b - a ELSE b - a + IndexMod
      /\ Dist(a, Inc(b)) = IF a <= Inc(b) THEN Inc(b) - a ELSE Inc(b) - a + IndexMod
  BY <1>1, DistLinear
<1> QED
  BY <1>1, <1>2, CapacityAssumption DEF Index

(* Advancing the near end of a distance takes one away.                    *)
LEMMA DistIncLeft ==
  ASSUME NEW a \in Index, NEW b \in Index, a # b
  PROVE  Dist(Inc(a), b) = Dist(a, b) - 1
<1>1. /\ Inc(a) \in Index
      /\ Inc(a) = IF a + 1 = IndexMod THEN 0 ELSE a + 1
  BY IncLinear
<1>2. /\ Dist(a, b) = IF a <= b THEN b - a ELSE b - a + IndexMod
      /\ Dist(Inc(a), b) = IF Inc(a) <= b THEN b - Inc(a) ELSE b - Inc(a) + IndexMod
  BY <1>1, DistLinear
<1> QED
  BY <1>1, <1>2, CapacityAssumption DEF Index

-----------------------------------------------------------------------------
(* RingInv holds initially.                                                   *)
LEMMA IInvInit == Init => RingInv
<1> SUFFICES ASSUME Init PROVE RingInv
  OBVIOUS
<1>1. 0 \in Index /\ Dist(0, 0) = 0
  BY DistZero, CapacityAssumption DEF Index
<1>2. TypeOK
  BY <1>1 DEF Init, TypeOK
<1>3. RingOrder
  BY <1>1, CapacityAssumption DEF Init, RingOrder
<1>4. ProducerInv /\ ConsumerInv
  BY DEF Init, ProducerInv, ConsumerInv
<1>5. PublishedIntact
  BY <1>1, DistType DEF Init, PublishedIntact, Occupancy, Index
<1> QED
  BY <1>2, <1>3, <1>4, <1>5 DEF RingInv

(* The ring order as sums of distances.                                    *)
LEMMA RingFacts ==
  ASSUME TypeOK, RingOrder
  PROVE  /\ Dist(phead, head) \in Nat /\ Dist(phead, tail) \in Nat
         /\ Dist(head, tail) \in Nat /\ Dist(head, ctail) \in Nat
         /\ Dist(ctail, tail) \in Nat
         /\ Dist(phead, tail) = Dist(phead, head) + Dist(head, tail)
         /\ Dist(head, tail) = Dist(head, ctail) + Dist(ctail, tail)
         /\ Dist(head, tail) <= Capacity
<1>1. /\ head \in Index /\ tail \in Index /\ phead \in Index /\ ctail \in Index
      /\ Dist(phead, head) <= Dist(phead, tail)
      /\ Dist(phead, tail) <= Capacity
      /\ Dist(head, ctail) <= Dist(head, tail)
  BY DEF TypeOK, RingOrder
<1>2. /\ Dist(phead, tail) = Dist(phead, head) + Dist(head, tail)
      /\ Dist(head, tail) = Dist(head, ctail) + Dist(ctail, tail)
  BY <1>1, DistBetween
<1>3. /\ Dist(phead, head) \in Nat /\ Dist(phead, tail) \in Nat
      /\ Dist(head, tail) \in Nat /\ Dist(head, ctail) \in Nat
      /\ Dist(ctail, tail) \in Nat
  BY <1>1, DistType DEF Index
<1> QED
  BY <1>1, <1>2, <1>3, CapacityAssumption

(* What a load returns lies between the value seen before and the current  *)
(* one.                                                                    *)
LEMMA VisibleFacts ==
  ASSUME NEW seen \in Index, NEW cur \in Index, NEW v \in Visible(seen, cur)
  PROVE  /\ v \in Index
         /\ Dist(seen, v) <= Dist(seen, cur)
         /\ Dist(seen, cur) = Dist(seen, v) + Dist(v, cur)
  BY DistBetween DEF Visible

(* While the producer owns the slot at tail_, no published slot is that    *)
(* slot.                                                                   *)
LEMMA TailSlotFree ==
  ASSUME TypeOK, RingOrder, Dist(phead, tail) < Capacity,
         NEW i \in Index, Dist(head, i) < Occupancy
  PROVE  Slot(i) # Slot(tail)
<1>1. Dist(head, tail) = Dist(head, i) + Dist(i, tail)
  BY DistBetween, DistType DEF TypeOK, Occupancy, Index
<1>2. 0 < Dist(i, tail) /\ Dist(i, tail) < Capacity
  <2>1. head \in Index /\ tail \in Index /\ phead \in Index
    BY DEF TypeOK
  <2>2. Dist(head, i) \in Nat /\ Dist(i, tail) \in Nat
    BY <2>1, DistType DEF Index
  <2>3. Dist(head, i) < Dist(head, tail)
    BY DEF Occupancy
  <2> QED
    BY <1>1, <2>2, <2>3, RingFacts, CapacityAssumption
<1> QED
  BY <1>2, SlotsApart DEF TypeOK

-----------------------------------------------------------------------------
(* RingInv is preserved, action by action.                                    *)

(* Entering push() preserves RingInv.                                         *)
LEMMA PushCallStep == ASSUME RingInv, NEW item \in Items, PushCall(item) PROVE RingInv'
  BY DEF RingInv, PushCall, cvars, TypeOK, RingOrder, ProducerInv, ConsumerInv,
         PublishedIntact, Occupancy

(* Entering pop() preserves RingInv.                                          *)
LEMMA PopCallStep == ASSUME RingInv, PopCall PROVE RingInv'
  BY DEF RingInv, PopCall, pvars, TypeOK, RingOrder, ProducerInv, ConsumerInv,
         PublishedIntact, Occupancy

(* The producer's acquire load of head_ preserves RingInv.                    *)
LEMMA PushLoadHeadStep == ASSUME RingInv, PushLoadHead PROVE RingInv'
<1> USE DEF RingInv
<1>1. /\ phead' \in Index
      /\ Dist(phead', head) \in Nat
      /\ Dist(phead, head) = Dist(phead, phead') + Dist(phead', head)
  <2>1. phead \in Index /\ head \in Index /\ phead' \in Visible(phead, head)
    BY DEF PushLoadHead, TypeOK
  <2> QED
    BY <2>1, VisibleFacts, DistType DEF Index
<1>2. TypeOK'
  BY <1>1 DEF PushLoadHead, cvars, TypeOK
<1>3. RingOrder' /\ Dist(phead', tail) \in Nat
  <2>0. /\ phead \in Index /\ head \in Index /\ tail \in Index
        /\ Dist(phead, phead') \in Nat
    BY <1>1, DistType DEF TypeOK, Index
  <2>1. Dist(phead, phead') <= Dist(phead, tail)
    BY <1>1, <2>0, RingFacts
  <2>2. Dist(phead, tail) = Dist(phead, phead') + Dist(phead', tail)
    BY <1>1, <2>0, <2>1, DistBetween
  <2>3. Dist(phead, phead') \in Nat /\ Dist(phead', tail) \in Nat
    BY <1>1, DistType DEF TypeOK, Index
  <2>4. Dist(phead', head) <= Dist(phead', tail) /\ Dist(phead', tail) <= Capacity
    BY <1>1, <2>2, <2>3, RingFacts, CapacityAssumption DEF RingOrder
  <2> QED
    BY <2>3, <2>4 DEF PushLoadHead, cvars, RingOrder
<1>4. ProducerInv'
  BY <1>3, CapacityAssumption DEF PushLoadHead, Saturated, ProducerInv
<1>5. ConsumerInv' /\ PublishedIntact'
  BY DEF PushLoadHead, cvars, ConsumerInv, PublishedIntact, Occupancy
<1> QED
  BY <1>2, <1>3, <1>4, <1>5

(* A step that only changes the slot at tail_ leaves the consumer's view   *)
(* and every published slot alone.                                         *)
LEMMA SlotWrite ==
  ASSUME RingInv, Dist(phead, tail) < Capacity,
         NEW x, buffer' = [buffer EXCEPT ![Slot(tail)] = x],
         UNCHANGED <<head, tail, cvars>>
  PROVE  /\ ConsumerInv'
         /\ PublishedIntact'
         /\ \A i \in Index : Dist(head, i) < Occupancy
                              => buffer'[Slot(i)] = buffer[Slot(i)]
<1> USE DEF RingInv
<1>1. \A i \in Index : Dist(head, i) < Occupancy => buffer'[Slot(i)] = buffer[Slot(i)]
  BY TailSlotFree, SlotType DEF TypeOK
<1>2. PublishedIntact'
  BY <1>1 DEF PublishedIntact, Occupancy
<1>3. cpc \in {"reading", "advance"} => Dist(head, head) < Occupancy
  BY RingFacts, DistZero, DistType DEF ConsumerInv, TypeOK, Occupancy, Index, RingOrder
<1>4. ConsumerInv'
  BY <1>1, <1>3 DEF ConsumerInv, cvars, TypeOK
<1> QED
  BY <1>1, <1>2, <1>4

(* Starting to assign buffer_[tail] preserves RingInv.                        *)
LEMMA PushBeginWriteStep == ASSUME RingInv, PushBeginWrite PROVE RingInv'
<1> USE DEF RingInv
<1>1. TypeOK'
  BY SlotType DEF PushBeginWrite, cvars, TypeOK
<1>2. RingOrder'
  BY DEF PushBeginWrite, cvars, RingOrder
<1>3. ProducerInv'
  BY DEF PushBeginWrite, ProducerInv
<1>4. ConsumerInv' /\ PublishedIntact'
  BY SlotWrite DEF PushBeginWrite, ProducerInv
<1> QED
  BY <1>1, <1>2, <1>3, <1>4

(* Completing the assignment of buffer_[tail] preserves RingInv.              *)
LEMMA PushEndWriteStep == ASSUME RingInv, PushEndWrite PROVE RingInv'
<1> USE DEF RingInv
<1>1. TypeOK'
  BY SlotType DEF PushEndWrite, cvars, TypeOK, ProducerInv
<1>2. RingOrder'
  BY DEF PushEndWrite, cvars, RingOrder
<1>3. ProducerInv'
  BY SlotType DEF PushEndWrite, ProducerInv, TypeOK
<1>4. ConsumerInv' /\ PublishedIntact'
  BY SlotWrite DEF PushEndWrite, ProducerInv
<1> QED
  BY <1>1, <1>2, <1>3, <1>4

(* Publishing tail_ + 1 preserves RingInv.                                    *)
LEMMA PushStoreTailStep == ASSUME RingInv, PushStoreTail PROVE RingInv'
<1> USE DEF RingInv
<1>0. /\ tail' = Inc(tail) /\ tail' \in Index
      /\ Dist(phead, tail) < Capacity
      /\ UNCHANGED <<head, buffer, pitem, phead, cvars>>
  BY IncLinear DEF PushStoreTail, ProducerInv, TypeOK
<1>1. TypeOK'
  BY <1>0 DEF PushStoreTail, cvars, TypeOK
<1>2. /\ Dist(phead, tail') = Dist(phead, tail) + 1
      /\ Dist(head, tail') = Dist(head, tail) + 1
  BY <1>0, DistIncRight, RingFacts, CapacityAssumption DEF TypeOK
<1>3. RingOrder'
  BY <1>0, <1>2, RingFacts, CapacityAssumption DEF cvars, RingOrder
<1>4. ProducerInv' /\ ConsumerInv'
  BY <1>0 DEF PushStoreTail, cvars, ProducerInv, ConsumerInv
<1>5. PublishedIntact'
  <2> SUFFICES ASSUME NEW i \in Index, Dist(head, i) < Dist(head, tail')
               PROVE  buffer[Slot(i)] \in Items
    BY <1>0 DEF PublishedIntact, Occupancy
  <2>1. CASE Dist(head, i) < Dist(head, tail)
    BY <2>1 DEF PublishedIntact, Occupancy
  <2>2. CASE Dist(head, i) = Dist(head, tail)
    <3>1. i = tail
      <4>1. head \in Index /\ tail \in Index
        BY DEF TypeOK
      <4>2. Dist(head, i) \in Nat /\ Dist(head, tail) \in Nat /\ Dist(i, tail) \in Nat
        BY <4>1, DistType DEF Index
      <4>3. Dist(head, tail) = Dist(head, i) + Dist(i, tail)
        BY <2>2, <4>1, <4>2, DistBetween
      <4>4. Dist(i, tail) = 0
        BY <2>2, <4>2, <4>3
      <4> QED
        BY <4>1, <4>4, DistZero
    <3> QED
      BY <3>1 DEF PushStoreTail, ProducerInv
  <2>3. Dist(head, i) \in Nat /\ Dist(head, tail) \in Nat
    BY DistType DEF TypeOK, Index
  <2> QED
    BY <1>2, <2>1, <2>2, <2>3
<1> QED
  BY <1>1, <1>3, <1>4, <1>5

(* The consumer's acquire load of tail_ preserves RingInv.                    *)
LEMMA PopLoadTailStep == ASSUME RingInv, PopLoadTail PROVE RingInv'
<1> USE DEF RingInv
<1>1. /\ ctail' \in Index
      /\ Dist(ctail, ctail') <= Dist(ctail, tail)
      /\ Dist(ctail, tail) = Dist(ctail, ctail') + Dist(ctail', tail)
  <2>1. ctail \in Index /\ tail \in Index /\ ctail' \in Visible(ctail, tail)
    BY DEF PopLoadTail, TypeOK
  <2> QED
    BY <2>1, VisibleFacts
<1>2. TypeOK'
  BY <1>1 DEF PopLoadTail, pvars, TypeOK
<1>3. RingOrder'
  <2>1. Dist(head, ctail') <= Dist(head, tail)
    <3>1. head \in Index /\ tail \in Index /\ ctail \in Index
      BY DEF TypeOK
    <3>2. /\ Dist(head, ctail) <= Dist(head, tail)
          /\ Dist(ctail, ctail') <= Dist(ctail, tail)
      BY <1>1 DEF RingOrder
    <3> QED
      BY <1>1, <3>1, <3>2, DistNested
  <2> QED
    BY <2>1 DEF PopLoadTail, pvars, RingOrder
<1>4. ProducerInv' /\ ConsumerInv' /\ PublishedIntact'
  BY DEF PopLoadTail, Depleted, pvars, ProducerInv, ConsumerInv, PublishedIntact, Occupancy
<1> QED
  BY <1>2, <1>3, <1>4

(* Copying buffer_[head] preserves RingInv.                                   *)
LEMMA PopReadStep == ASSUME RingInv, PopRead PROVE RingInv'
<1> USE DEF RingInv
<1>1. TypeOK'
  BY SlotType DEF PopRead, pvars, TypeOK
<1>2. RingOrder' /\ ProducerInv' /\ ConsumerInv' /\ PublishedIntact'
  BY DEF PopRead, pvars, RingOrder, ProducerInv, ConsumerInv, PublishedIntact, Occupancy
<1> QED
  BY <1>1, <1>2

(* Releasing the slot with head_ + 1 preserves RingInv.                       *)
LEMMA PopStoreHeadStep == ASSUME RingInv, PopStoreHead PROVE RingInv'
<1> USE DEF RingInv
<1>0. /\ head' = Inc(head) /\ head' \in Index
      /\ head # ctail /\ head # tail
      /\ UNCHANGED <<tail, buffer, ctail, citem, pvars>>
  BY IncLinear, RingFacts, DistZero DEF PopStoreHead, ConsumerInv, TypeOK
<1>1. TypeOK'
  BY <1>0 DEF PopStoreHead, pvars, TypeOK
<1>2. /\ Dist(head', tail) = Dist(head, tail) - 1
      /\ Dist(head', ctail) = Dist(head, ctail) - 1
      /\ Dist(phead, head') = Dist(phead, head) + 1
  <2>1. Dist(head, tail) # 0
    BY <1>0, DistZero DEF TypeOK
  <2>2. Dist(phead, head) < IndexMod - 1
    BY <2>1, RingFacts, CapacityAssumption DEF RingOrder
  <2> QED
    BY <1>0, <2>2, DistIncLeft, DistIncRight DEF TypeOK
<1>3. RingOrder'
  <2>1. Dist(head, tail) # 0
    BY <1>0, DistZero DEF TypeOK
  <2> QED
    BY <1>0, <1>2, <2>1, RingFacts DEF pvars, RingOrder
<1>4. ProducerInv' /\ ConsumerInv'
  BY <1>0 DEF PopStoreHead, pvars, ProducerInv, ConsumerInv
<1>5. PublishedIntact'
  <2> SUFFICES ASSUME NEW i \in Index, Dist(head', i) < Dist(head', tail)
               PROVE  Dist(head, i) < Dist(head, tail)
    BY <1>0 DEF PublishedIntact, Occupancy
  <2>1. head \in Index /\ tail \in Index
    BY DEF TypeOK
  <2>2. Dist(head, i) \in Nat /\ Dist(head', i) \in Nat /\ Dist(head, tail) \in Nat
    BY <1>0, <2>1, DistType DEF Index
  <2>3. CASE i = head
    <3>1. Dist(head, i) = 0 /\ Dist(head, tail) # 0
      BY <1>0, <2>1, <2>3, DistZero
    <3> QED
      BY <2>2, <3>1
  <2>4. CASE i # head
    <3>1. Dist(head', i) = Dist(head, i) - 1
      BY <1>0, <2>1, <2>4, DistIncLeft
    <3> QED
      BY <1>2, <2>2, <3>1
  <2> QED
    BY <2>3, <2>4
<1> QED
  BY <1>1, <1>3, <1>4, <1>5

(* RingInv is an inductive invariant.                                         *)
LEMMA IInvNext == RingInv /\ [Next]_vars => RingInv'
<1> SUFFICES ASSUME RingInv, [Next]_vars PROVE RingInv'
  OBVIOUS
<1>1. CASE \E item \in Items : PushCall(item)
  BY <1>1, PushCallStep
<1>2. CASE ProducerInCall
  BY <1>2, PushLoadHeadStep, PushBeginWriteStep, PushEndWriteStep, PushStoreTailStep
     DEF ProducerInCall
<1>3. CASE Consumer
  BY <1>3, PopCallStep, PopLoadTailStep, PopReadStep, PopStoreHeadStep DEF Consumer
<1>4. CASE UNCHANGED vars
  BY <1>4 DEF vars, RingInv, TypeOK, RingOrder, ProducerInv, ConsumerInv,
              PublishedIntact, Occupancy
<1> QED
  BY <1>1, <1>2, <1>3, <1>4 DEF Next

(* Every reachable state of the ring buffer satisfies RingInv: counters in    *)
(* ring order within Capacity, published slots completely written.         *)
THEOREM IInvariant == Spec => []RingInv
<1>1. Init => RingInv
  BY IInvInit
<1>2. RingInv /\ [Next]_vars => RingInv'
  BY IInvNext
<1> QED
  BY <1>1, <1>2, PTL DEF Spec

(* push() and pop() never access the same slot at the same time, whatever  *)
(* the capacity, also when the size_t counters wrap.                       *)
THEOREM DataRaceFreedom == Spec => []NoDataRace
<1>1. RingInv => NoDataRace
  <2> SUFFICES ASSUME RingInv, ppc = "writing", cpc = "reading"
               PROVE  Slot(tail) # Slot(head)
    BY DEF NoDataRace
  <2>1. /\ TypeOK /\ RingOrder /\ head \in Index /\ ctail \in Index
        /\ head # ctail
        /\ Dist(phead, tail) < Capacity
    BY DEF RingInv, TypeOK, ProducerInv, ConsumerInv
  <2>2. Dist(head, head) = 0 /\ Dist(head, ctail) # 0
    BY <2>1, DistZero
  <2>3. Dist(head, head) < Occupancy
    BY <2>1, <2>2, RingFacts DEF Occupancy
  <2> QED
    BY <2>1, <2>3, TailSlotFree
<1> QED
  BY <1>1, IInvariant, PTL

-----------------------------------------------------------------------------
(* The counter k steps after a: its range and its distance from a.         *)
LEMMA AtFacts ==
  ASSUME NEW a \in Index, NEW k \in Index
  PROVE  /\ At(a, k) = IF a + k < IndexMod THEN a + k ELSE a + k - IndexMod
         /\ At(a, k) \in Index
         /\ Dist(a, At(a, k)) = k
<1>1. At(a, k) = IF a + k < IndexMod THEN a + k ELSE a + k - IndexMod
  BY CapacityAssumption, SMTT(30) DEF At, Index
<1>2. At(a, k) \in Index
  BY <1>1, CapacityAssumption DEF Index
<1>3. Dist(a, At(a, k)) = IF a <= At(a, k) THEN At(a, k) - a ELSE At(a, k) - a + IndexMod
  BY <1>2, DistLinear
<1> QED
  BY <1>1, <1>2, <1>3, CapacityAssumption DEF Index

(* Stepping first and then taking k steps is taking k + 1 steps.           *)
LEMMA AtInc ==
  ASSUME NEW a \in Index, NEW k \in Nat, k + 1 \in Index
  PROVE  At(Inc(a), k) = At(a, k + 1)
<1>1. k \in Index
  BY CapacityAssumption DEF Index
<1>2. /\ Inc(a) \in Index
      /\ Inc(a) = IF a + 1 = IndexMod THEN 0 ELSE a + 1
  BY IncLinear
<1>3. /\ At(Inc(a), k) = IF Inc(a) + k < IndexMod THEN Inc(a) + k ELSE Inc(a) + k - IndexMod
      /\ At(a, k + 1) = IF a + (k + 1) < IndexMod THEN a + (k + 1) ELSE a + (k + 1) - IndexMod
  BY <1>1, <1>2, AtFacts
<1> QED
  BY <1>1, <1>2, <1>3, CapacityAssumption DEF Index

(* The counter Dist(a, b) steps after a is b.                              *)
LEMMA AtDist ==
  ASSUME NEW a \in Index, NEW b \in Index
  PROVE  At(a, Dist(a, b)) = b
<1> DEFINE k == Dist(a, b)
<1>1. k \in Index /\ k = IF a <= b THEN b - a ELSE b - a + IndexMod
  BY DistType, DistLinear
<1> HIDE DEF k
<1>2. At(a, k) = IF a + k < IndexMod THEN a + k ELSE a + k - IndexMod
  BY <1>1, AtFacts
<1>3. At(a, k) = b
  BY <1>1, <1>2, CapacityAssumption DEF Index
<1> QED
  BY <1>3 DEF k

(* The abstract queue of a reachable state: a sequence of Occupancy items. *)
LEMMA ContentsFacts ==
  ASSUME RingInv
  PROVE  /\ Occupancy \in Nat /\ Occupancy \in Index /\ Occupancy <= Capacity
         /\ Contents \in Seq(Items)
         /\ Len(Contents) = Occupancy
         /\ \A i \in 1..Occupancy : /\ At(head, i - 1) \in Index
                                    /\ Dist(head, At(head, i - 1)) = i - 1
                                    /\ Contents[i] = buffer[Slot(At(head, i - 1))]
<1>1. Occupancy \in Index /\ Occupancy \in Nat /\ Occupancy <= Capacity
  BY RingFacts, DistType DEF RingInv, TypeOK, Occupancy
<1>2. ASSUME NEW i \in 1..Occupancy
      PROVE  /\ At(head, i - 1) \in Index
             /\ Dist(head, At(head, i - 1)) = i - 1
             /\ Contents[i] = buffer[Slot(At(head, i - 1))]
             /\ Contents[i] \in Items
  <2>1. i - 1 \in Index /\ head \in Index /\ i - 1 < Occupancy
    <3>1. head \in Index
      BY DEF RingInv, TypeOK
    <3>2. Occupancy <= IndexMod - 1 /\ IndexMod \in Nat
      BY <1>1, CapacityAssumption DEF Index
    <3>3. i \in Nat /\ 1 <= i /\ i <= Occupancy
      BY <1>1
    <3> HIDE DEF Occupancy
    <3> QED
      BY <1>1, <3>1, <3>2, <3>3 DEF Index
  <2>2. At(head, i - 1) \in Index /\ Dist(head, At(head, i - 1)) = i - 1
    BY <2>1, AtFacts
  <2>3. Contents[i] = buffer[Slot(At(head, i - 1))]
    BY DEF Contents
  <2> QED
    BY <2>1, <2>2, <2>3 DEF RingInv, PublishedIntact
<1>3. Contents \in [1..Occupancy -> Items]
  BY <1>2 DEF Contents
<1>4. Contents \in Seq(Items) /\ Len(Contents) = Occupancy
  BY <1>1, <1>3
<1> QED
  BY <1>1, <1>2, <1>4

(* Publishing appends the pushed item to the abstract queue.               *)
LEMMA PushAppends ==
  ASSUME RingInv, RingInv', PushStoreTail
  PROVE  Contents' = Append(Contents, pitem)
<1>1. /\ head \in Index /\ tail \in Index /\ tail' = Inc(tail)
      /\ head' = head /\ buffer' = buffer
      /\ Dist(phead, tail) < Capacity
      /\ buffer[Slot(tail)] = pitem
  BY DEF PushStoreTail, RingInv, TypeOK, ProducerInv
<1>2. Dist(head, tail') = Dist(head, tail) + 1
  BY <1>1, DistIncRight, RingFacts, CapacityAssumption DEF RingInv
<1>3. Occupancy' = Occupancy + 1
  BY <1>1, <1>2 DEF Occupancy
<1>4. Occupancy \in Nat /\ Contents \in Seq(Items) /\ Len(Contents) = Occupancy
  BY ContentsFacts
<1>5. Contents' = [i \in 1..Occupancy + 1 |-> buffer[Slot(At(head, i - 1))]]
  BY <1>1, <1>3 DEF Contents
<1>6. At(head, Occupancy) = tail
  BY <1>1, AtDist DEF Occupancy
<1>7. ASSUME NEW i \in 1..Occupancy + 1
      PROVE  buffer[Slot(At(head, i - 1))]
               = IF i = Occupancy + 1 THEN pitem ELSE Contents[i]
  <2>1. CASE i = Occupancy + 1
    <3>1. i - 1 = Occupancy
      BY <1>4, <2>1
    <3> QED
      BY <1>1, <1>6, <2>1, <3>1
  <2>2. CASE i # Occupancy + 1
    <3>1. i \in 1..Occupancy
      BY <1>4, <2>2
    <3> QED
      BY <2>2, <3>1, ContentsFacts
  <2> QED
    BY <2>1, <2>2
<1> DEFINE c == [i \in 1..Occupancy + 1 |-> buffer[Slot(At(head, i - 1))]]
<1>8. /\ Append(Contents, pitem) \in Seq(Items)
      /\ Len(Append(Contents, pitem)) = Occupancy + 1
      /\ \A i \in 1..Occupancy + 1 : Append(Contents, pitem)[i]
                                       = IF i = Occupancy + 1 THEN pitem ELSE Contents[i]
  <2>1. pitem \in Items
    BY DEF RingInv, ProducerInv, PushStoreTail
  <2> QED
    BY <1>4, <2>1, AppendProperties
<1>9. c \in Seq(Items) /\ Len(c) = Occupancy + 1
  <2>1. \A i \in 1..Occupancy + 1 : buffer[Slot(At(head, i - 1))] \in Items
    <3>1. pitem \in Items
      BY DEF RingInv, ProducerInv, PushStoreTail
    <3> SUFFICES ASSUME NEW i \in 1..Occupancy + 1
                 PROVE  (IF i = Occupancy + 1 THEN pitem ELSE Contents[i]) \in Items
      BY <1>7
    <3>2. i # Occupancy + 1 => i \in 1..Len(Contents)
      BY <1>4
    <3> QED
      BY <1>4, <3>1, <3>2
  <2>2. c \in [1..Occupancy + 1 -> Items]
    BY <2>1
  <2> QED
    BY <1>4, <2>2
<1>10. \A i \in 1..Occupancy + 1 : c[i] = Append(Contents, pitem)[i]
  BY <1>7, <1>8
<1> HIDE DEF c
<1>11. c = Append(Contents, pitem)
  BY <1>8, <1>9, <1>10, SeqEqual
<1> QED
  BY <1>5, <1>11 DEF c

(* Releasing a slot removes the head of the abstract queue and returns it. *)
LEMMA PopRemoves ==
  ASSUME RingInv, RingInv', PopStoreHead
  PROVE  /\ Contents' = Tail(Contents)
         /\ popRet' = Head(Contents)
         /\ Contents # <<>>
<1>1. /\ head \in Index /\ tail \in Index /\ ctail \in Index
      /\ head' = Inc(head)
      /\ tail' = tail /\ buffer' = buffer /\ head # ctail
      /\ popRet' = buffer[Slot(head)]
  BY DEF PopStoreHead, RingInv, TypeOK, ConsumerInv
<1>2. Dist(head, tail) # 0 /\ head # tail
  <2>1. Dist(head, ctail) # 0
    BY <1>1, DistZero
  <2>2. Dist(head, tail) # 0
    BY <2>1, RingFacts DEF RingInv
  <2> QED
    BY <1>1, <2>2, DistZero
<1>3. Occupancy' = Occupancy - 1 /\ Occupancy # 0
  BY <1>1, <1>2, DistIncLeft DEF Occupancy
<1>4. /\ Occupancy \in Nat /\ Occupancy \in Index
      /\ Contents \in Seq(Items) /\ Len(Contents) = Occupancy
  BY ContentsFacts
<1>5. Contents' = [i \in 1..Occupancy - 1 |-> buffer[Slot(At(Inc(head), i - 1))]]
  BY <1>1, <1>3 DEF Contents
<1>6. ASSUME NEW i \in 1..Occupancy - 1
      PROVE  buffer[Slot(At(Inc(head), i - 1))] = Contents[i + 1]
  <2>1. i - 1 \in Nat /\ i \in Index /\ i + 1 \in 1..Occupancy /\ (i - 1) + 1 = i
    <3> HIDE DEF Occupancy
    <3> QED
      BY <1>4, CapacityAssumption DEF Index
  <2>2. At(Inc(head), i - 1) = At(head, i)
    BY <1>1, <2>1, AtInc
  <2>3. Contents[i + 1] = buffer[Slot(At(head, (i + 1) - 1))]
    BY <2>1, ContentsFacts
  <2>4. (i + 1) - 1 = i
    OBVIOUS
  <2> QED
    BY <2>2, <2>3, <2>4
<1> DEFINE c == [i \in 1..Occupancy - 1 |-> buffer[Slot(At(Inc(head), i - 1))]]
<1>7. /\ Tail(Contents) \in Seq(Items) /\ Len(Tail(Contents)) = Occupancy - 1
      /\ \A i \in 1..Occupancy - 1 : /\ Tail(Contents)[i] = Contents[i + 1]
                                     /\ Contents[i + 1] \in Items
  BY <1>3, <1>4, HeadTailProperties
<1>8. Contents' = Tail(Contents)
  <2>1. c \in [1..Occupancy - 1 -> Items]
    BY <1>6, <1>7
  <2>2. c \in Seq(Items) /\ Len(c) = Occupancy - 1 /\ Occupancy - 1 \in Nat
    BY <1>3, <1>4, <2>1
  <2>3. \A i \in 1..Occupancy - 1 : c[i] = Tail(Contents)[i]
    BY <1>6, <1>7
  <2> HIDE DEF c
  <2>4. c = Tail(Contents)
    BY <1>7, <2>2, <2>3, SeqEqual
  <2> QED
    BY <1>5, <2>4 DEF c
<1>9. popRet' = Head(Contents)
  <2>1. Contents[1] = buffer[Slot(At(head, 1 - 1))]
    BY <1>3, <1>4, ContentsFacts
  <2>2. At(head, 0) = head
    BY <1>1, AtDist, DistZero
  <2>3. Contents[1] = buffer[Slot(head)]
    BY <2>1, <2>2
  <2> QED
    BY <1>1, <1>3, <1>4, <2>3
<1> QED
  BY <1>3, <1>4, <1>8, <1>9

(* A step that keeps the counters and every published slot keeps the       *)
(* abstract queue.                                                         *)
LEMMA ContentsKept ==
  ASSUME RingInv, UNCHANGED <<head, tail>>,
         \A i \in Index : Dist(head, i) < Occupancy => buffer'[Slot(i)] = buffer[Slot(i)]
  PROVE  Contents' = Contents
<1>1. Occupancy' = Occupancy
  BY DEF Occupancy
<1>2. ASSUME NEW i \in 1..Occupancy
      PROVE  buffer'[Slot(At(head, i - 1))] = buffer[Slot(At(head, i - 1))]
  <2>1. At(head, i - 1) \in Index /\ Dist(head, At(head, i - 1)) = i - 1 /\ Occupancy \in Nat
    BY ContentsFacts
  <2> QED
    BY <2>1
<1> QED
  BY <1>1, <1>2 DEF Contents

(* push() in progress is a step of the bounded FIFO or invisible in it.    *)
LEMMA ProducerRefines ==
  ASSUME RingInv, RingInv', ProducerInCall
  PROVE  [Fifo!Next]_Fifo!vars
<1> USE DEF Fifo!Next, Fifo!vars
<1>0. /\ Unacked \in Nat /\ Unseen \in Nat /\ Occupancy \in Nat
      /\ Len(Contents) = Occupancy /\ Contents \in Seq(Items)
      /\ Dist(phead, tail) = Unacked + Occupancy
  BY RingFacts, ContentsFacts DEF RingInv, Unacked, Unseen, Occupancy
<1>1. CASE PushLoadHead
  <2>1. /\ Contents' = Contents /\ Unseen' = Unseen /\ popRet' = popRet
        /\ Unacked' = Dist(phead', head)
    BY <1>1 DEF PushLoadHead, cvars, Contents, Occupancy, Unseen, Unacked
  <2>2. /\ phead \in Index /\ head \in Index /\ phead' \in Index
        /\ phead' \in Visible(phead, head)
    BY <1>1 DEF PushLoadHead, RingInv, TypeOK
  <2>3. Unacked' \in 0..Unacked
    <3>1. /\ Dist(phead, head) = Dist(phead, phead') + Dist(phead', head)
          /\ Dist(phead, phead') \in Nat /\ Dist(phead', head) \in Nat
      BY <2>2, VisibleFacts, DistType DEF Index
    <3> QED
      BY <1>0, <2>1, <3>1 DEF Unacked
  <2>4. Dist(phead', tail) = Unacked' + Occupancy /\ Dist(phead', tail) <= Capacity
    <3>1. /\ tail \in Index /\ tail' = tail /\ head' = head
          /\ Dist(phead', head) <= Dist(phead', tail)
          /\ Dist(phead', tail) <= Capacity
      BY <1>1 DEF PushLoadHead, RingInv, RingOrder, TypeOK
    <3> QED
      BY <2>1, <2>2, <3>1, DistBetween DEF Occupancy
  <2>5. CASE Saturated(phead')
    <3>1. pushRet' = FALSE
      BY <1>1, <2>5 DEF PushLoadHead
    <3>2. Len(Contents) + Unacked' = Capacity
      <4> DEFINE u == Unacked'
                 o == Occupancy
      <4>1. u \in Nat /\ o \in Nat /\ Capacity \in Nat /\ Len(Contents) = o
        BY <1>0, <2>3, CapacityAssumption
      <4>a. Dist(phead', tail) >= Capacity
        BY <2>5 DEF Saturated
      <4>b. Dist(phead', tail) = u + o /\ Dist(phead', tail) <= Capacity
        BY <2>4
      <4> HIDE DEF u, o
      <4>2. o + u = Capacity
        BY <4>1, <4>a, <4>b
      <4> QED
        BY <4>1, <4>2 DEF u
    <3>3. Fifo!PushRefused
      BY <2>1, <2>3, <3>1, <3>2 DEF Fifo!PushRefused
    <3> QED
      BY <3>3
  <2>6. CASE ~Saturated(phead')
    <3>1. Fifo!ObservePops
      BY <1>1, <2>1, <2>3, <2>6 DEF PushLoadHead, Fifo!ObservePops
    <3> QED
      BY <3>1
  <2> QED
    BY <2>5, <2>6
<1>2. CASE PushBeginWrite \/ PushEndWrite
  <2>1. /\ UNCHANGED <<head, tail, phead, pushRet, cvars>>
        /\ Dist(phead, tail) < Capacity
        /\ \E x : buffer' = [buffer EXCEPT ![Slot(tail)] = x]
    BY <1>2 DEF PushBeginWrite, PushEndWrite, RingInv, ProducerInv
  <2>2. Contents' = Contents
    BY <2>1, SlotWrite, ContentsKept
  <2> QED
    BY <2>1, <2>2 DEF Unacked, Unseen, cvars
<1>3. CASE PushStoreTail
  <2>1. Contents' = Append(Contents, pitem)
    BY <1>3, PushAppends
  <2>2. /\ tail' = Inc(tail) /\ pushRet' = TRUE /\ Unacked' = Unacked /\ popRet' = popRet
        /\ Unseen' = Dist(ctail, tail') /\ ctail \in Index /\ tail \in Index
        /\ Dist(phead, tail) < Capacity /\ pitem \in Items
    BY <1>3 DEF PushStoreTail, cvars, Unacked, Unseen, RingInv, ProducerInv, TypeOK
  <2>3. Unseen' = Unseen + 1
    <3>1. Dist(ctail, tail) < IndexMod - 1
      BY <1>0, <2>2, RingFacts, CapacityAssumption DEF RingInv, Occupancy, Unacked
    <3> QED
      BY <2>2, <3>1, DistIncRight DEF Unseen
  <2>4. Fifo!Push(pitem)
    BY <1>0, <2>1, <2>2, <2>3, CapacityAssumption DEF Fifo!Push
  <2> QED
    BY <2>2, <2>4
<1> QED
  BY <1>1, <1>2, <1>3 DEF ProducerInCall

(* pop() is a step of the bounded FIFO or invisible in it.                 *)
LEMMA ConsumerRefines ==
  ASSUME RingInv, RingInv', Consumer
  PROVE  [Fifo!Next]_Fifo!vars
<1> USE DEF Fifo!Next, Fifo!vars
<1>0. /\ Unacked \in Nat /\ Unseen \in Nat /\ Occupancy \in Nat
      /\ Len(Contents) = Occupancy /\ Contents \in Seq(Items)
      /\ Occupancy = Dist(head, ctail) + Unseen
      /\ Dist(head, ctail) \in Nat
  BY RingFacts, ContentsFacts DEF RingInv, Unacked, Unseen, Occupancy
<1>1. CASE PopCall \/ PopRead
  BY <1>1 DEF PopCall, PopRead, pvars, Contents, Occupancy, Unacked, Unseen
<1>2. CASE PopLoadTail
  <2>1. /\ Contents' = Contents /\ Unacked' = Unacked /\ pushRet' = pushRet
        /\ Unseen' = Dist(ctail', tail) /\ Occupancy' = Occupancy
    BY <1>2 DEF PopLoadTail, pvars, Contents, Occupancy, Unseen, Unacked
  <2>2. /\ ctail \in Index /\ tail \in Index /\ ctail' \in Index
        /\ ctail' \in Visible(ctail, tail)
    BY <1>2 DEF PopLoadTail, RingInv, TypeOK
  <2>3. Unseen' \in 0..Unseen
    <3>1. /\ Dist(ctail, tail) = Dist(ctail, ctail') + Dist(ctail', tail)
          /\ Dist(ctail, ctail') \in Nat /\ Dist(ctail', tail) \in Nat
      BY <2>2, VisibleFacts, DistType DEF Index
    <3> QED
      BY <1>0, <2>1, <3>1 DEF Unseen
  <2>4. CASE Depleted(ctail')
    <3>1. popRet' = NoItem /\ head = ctail'
      BY <1>2, <2>4 DEF PopLoadTail, Depleted
    <3>2. Len(Contents) = Unseen'
      BY <1>0, <2>1, <3>1 DEF Occupancy
    <3>3. Fifo!PopNothing
      BY <2>1, <2>3, <3>1, <3>2 DEF Fifo!PopNothing
    <3> QED
      BY <3>3
  <2>5. CASE ~Depleted(ctail')
    <3>1. Fifo!ObservePushes
      BY <1>2, <2>1, <2>3, <2>5 DEF PopLoadTail, Fifo!ObservePushes
    <3> QED
      BY <3>1
  <2> QED
    BY <2>4, <2>5
<1>3. CASE PopStoreHead
  <2>1. Contents' = Tail(Contents) /\ popRet' = Head(Contents)
    BY <1>3, PopRemoves
  <2>2. /\ head' = Inc(head) /\ pushRet' = pushRet /\ Unseen' = Unseen
        /\ Unacked' = Dist(phead, head') /\ head # ctail
        /\ phead \in Index /\ head \in Index /\ ctail \in Index
    BY <1>3 DEF PopStoreHead, pvars, Unacked, Unseen, RingInv, ConsumerInv, TypeOK
  <2>3. Dist(head, ctail) # 0
    BY <2>2, DistZero
  <2>4. Unacked' = Unacked + 1
    <3>1. Dist(phead, head) < IndexMod - 1
      <4>1. TypeOK /\ RingOrder /\ Dist(phead, tail) <= Capacity
        BY DEF RingInv, RingOrder
      <4>2. /\ Dist(phead, head) \in Nat /\ Dist(phead, tail) \in Nat
            /\ Dist(phead, tail) = Dist(phead, head) + Occupancy /\ Occupancy # 0
        BY <1>0, <2>3, <4>1, RingFacts DEF Occupancy
      <4> QED
        BY <1>0, <4>1, <4>2, CapacityAssumption
    <3> QED
      BY <2>2, <3>1, DistIncRight DEF Unacked
  <2>5. Fifo!Pop
    BY <1>0, <2>1, <2>2, <2>3, <2>4 DEF Fifo!Pop
  <2> QED
    BY <2>5
<1> QED
  BY <1>1, <1>2, <1>3 DEF Consumer

(* The ring buffer implements the bounded FIFO for every capacity and      *)
(* counter width: between a push that returned true and its pop no item is *)
(* lost, duplicated, reordered or torn, and push fails only when full.     *)
THEOREM Refinement == Spec => ImplementsFifo
<1>1. Init => Fifo!Init
  <2> SUFFICES ASSUME Init PROVE Fifo!Init
    OBVIOUS
  <2>1. 0 \in Index /\ Dist(0, 0) = 0
    BY DistZero, CapacityAssumption DEF Index
  <2>2. Unacked = 0 /\ Unseen = 0 /\ Occupancy = 0
    BY <2>1 DEF Init, Unacked, Unseen, Occupancy
  <2>3. Contents = <<>>
    BY <2>2 DEF Contents
  <2> QED
    BY <2>2, <2>3 DEF Init, Fifo!Init
<1>2. RingInv /\ RingInv' /\ [Next]_vars => [Fifo!Next]_Fifo!vars
  <2> SUFFICES ASSUME RingInv, RingInv', [Next]_vars PROVE [Fifo!Next]_Fifo!vars
    OBVIOUS
  <2>1. CASE \E item \in Items : PushCall(item)
    BY <2>1 DEF PushCall, cvars, Contents, Occupancy, Unacked, Unseen, Fifo!vars
  <2>2. CASE ProducerInCall
    BY <2>2, ProducerRefines
  <2>3. CASE Consumer
    BY <2>3, ConsumerRefines
  <2>4. CASE UNCHANGED vars
    BY <2>4 DEF vars, Contents, Occupancy, Unacked, Unseen, Fifo!vars
  <2> QED
    BY <2>1, <2>2, <2>3, <2>4 DEF Next
<1> QED
  BY <1>1, <1>2, IInvariant, PTL DEF Spec, ImplementsFifo, Fifo!Spec
=============================================================================
