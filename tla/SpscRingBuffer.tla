--------------------------- MODULE SpscRingBuffer ---------------------------
(***************************************************************************)
(* SpscRingBuffer<T, Capacity> (include/system/event_queue.hpp): the       *)
(* lock-free queue between the packet thread (push) and the telemetry      *)
(* monitor's worker (pop).  Every atomic access and every slot access is a *)
(* step of its own.                                                        *)
(*                                                                         *)
(* Memory order.  Each thread owns one counter and reads it back exactly;  *)
(* an acquire load of the other thread's counter may return any value from *)
(* the latest one this thread has already seen (read coherence) up to the  *)
(* current one.  phead and ctail hold that latest value seen.              *)
(*                                                                         *)
(* Counters are size_t: they wrap at IndexMod (2^64 in the code).          *)
(***************************************************************************)
EXTENDS Integers, Sequences

CONSTANTS
  Capacity,   \* template parameter; 1024 in the daemon
  IndexMod,   \* number of values of a size_t
  Items,      \* values of T
  NoItem,     \* std::nullopt, and a slot that was never written
  Torn        \* a slot whose copy assignment is under way

\* static_assert: Capacity is a power of two, so it divides 2^64, and
\* "x & (Capacity - 1)" is "x % Capacity".
ASSUME CapacityAssumption ==
  /\ Capacity \in Nat \ {0}
  /\ IndexMod \in Nat
  /\ Capacity < IndexMod
  /\ \E k \in 1..IndexMod : IndexMod = k * Capacity

ASSUME ItemsAssumption == NoItem \notin Items /\ Torn \notin Items

VARIABLES
  head,     \* head_, stored by the consumer only
  tail,     \* tail_, stored by the producer only
  buffer,   \* buffer_
  ppc,      \* producer: where it is in push()
  pitem,    \* producer: the argument of push()
  phead,    \* producer: current_head
  cpc,      \* consumer: where it is in pop()
  ctail,    \* consumer: current_tail
  citem,    \* consumer: the local copy "T item"
  pushRet,  \* latest value returned by push()
  popRet    \* latest value returned by pop()

pvars == <<ppc, pitem, phead, pushRet>>
cvars == <<cpc, ctail, citem, popRet>>
vars  == <<head, tail, buffer, ppc, pitem, phead, cpc, ctail, citem, pushRet, popRet>>

Index == 0..IndexMod-1
Slots == 0..Capacity-1

Dist(a, b) == (b - a) % IndexMod    \* b - a in size_t arithmetic
Inc(a)     == (a + 1) % IndexMod
\* Mutated form of Slot: the mask of a smaller array.
SlotOffByOne(a) == a % (Capacity - 1)
Slot(a)    == a % Capacity
Occupancy  == Dist(head, tail)

\* The values a load may return when the thread has already seen `seen'.
Visible(seen, current) == {v \in Index : Dist(seen, v) <= Dist(seen, current)}

Init ==
  /\ head = 0
  /\ tail = 0
  /\ buffer = [s \in Slots |-> NoItem]
  /\ ppc = "idle"
  /\ pitem = NoItem
  /\ phead = 0
  /\ cpc = "idle"
  /\ ctail = 0
  /\ citem = NoItem
  /\ pushRet = TRUE
  /\ popRet = NoItem

-----------------------------------------------------------------------------
(* Mutated forms of the definitions below, for mutation runs.              *)

SaturatedOffByOne(h) == Dist(h, tail) > Capacity    \* > instead of >=
SaturatedByOrder(h)  == tail >= h /\ tail - h >= Capacity \* no size_t wrap-around
DepletedByOrder(t)   == head >= t                   \* >= instead of =

-----------------------------------------------------------------------------
(* Producer: push(item).                                                   *)

PushCall(item) ==
  /\ ppc = "idle"
  /\ ppc' = "loadHead"
  /\ pitem' = item
  /\ UNCHANGED <<head, tail, buffer, phead, pushRet, cvars>>

Saturated(h) == Dist(h, tail) >= Capacity

PushLoadHead ==
  /\ ppc = "loadHead"
  /\ phead' \in Visible(phead, head)
  /\ \/ /\ Saturated(phead')
        /\ ppc' = "idle"
        /\ pushRet' = FALSE
     \/ /\ ~Saturated(phead')
        /\ ppc' = "write"
        /\ UNCHANGED pushRet
  /\ UNCHANGED <<head, tail, buffer, pitem, cvars>>

PushBeginWrite ==
  /\ ppc = "write"
  /\ ppc' = "writing"
  /\ buffer' = [buffer EXCEPT ![Slot(tail)] = Torn]
  /\ UNCHANGED <<head, tail, pitem, phead, pushRet, cvars>>

PushEndWrite ==
  /\ ppc = "writing"
  /\ ppc' = "publish"
  /\ buffer' = [buffer EXCEPT ![Slot(tail)] = pitem]
  /\ UNCHANGED <<head, tail, pitem, phead, pushRet, cvars>>

PushStoreTail ==
  /\ ppc = "publish"
  /\ ppc' = "idle"
  /\ tail' = Inc(tail)
  /\ pushRet' = TRUE
  /\ UNCHANGED <<head, buffer, pitem, phead, cvars>>

-----------------------------------------------------------------------------
(* Consumer: pop().                                                        *)

PopCall ==
  /\ cpc = "idle"
  /\ cpc' = "loadTail"
  /\ UNCHANGED <<head, tail, buffer, ctail, citem, popRet, pvars>>

Depleted(t) == head = t

PopLoadTail ==
  /\ cpc = "loadTail"
  /\ ctail' \in Visible(ctail, tail)
  /\ \/ /\ Depleted(ctail')
        /\ cpc' = "idle"
        /\ popRet' = NoItem
     \/ /\ ~Depleted(ctail')
        /\ cpc' = "reading"
        /\ UNCHANGED popRet
  /\ UNCHANGED <<head, tail, buffer, citem, pvars>>

PopRead ==
  /\ cpc = "reading"
  /\ cpc' = "advance"
  /\ citem' = buffer[Slot(head)]
  /\ UNCHANGED <<head, tail, buffer, ctail, popRet, pvars>>

PopStoreHead ==
  /\ cpc = "advance"
  /\ cpc' = "idle"
  /\ head' = Inc(head)
  /\ popRet' = citem
  /\ UNCHANGED <<tail, buffer, ctail, citem, pvars>>

-----------------------------------------------------------------------------
ProducerInCall == PushLoadHead \/ PushBeginWrite \/ PushEndWrite \/ PushStoreTail
Consumer == PopCall \/ PopLoadTail \/ PopRead \/ PopStoreHead

Next ==
  \/ \E item \in Items : PushCall(item)
  \/ ProducerInCall
  \/ Consumer

Spec == Init /\ [][Next]_vars

(***************************************************************************)
(* Both threads keep running (the consumer polls for ever); nobody has to  *)
(* start a push.  A store becomes visible to the other thread in finite    *)
(* time, so a load that is repeated for ever returns the current value.    *)
(***************************************************************************)
Fairness ==
  /\ WF_vars(ProducerInCall)
  /\ WF_vars(Consumer)
  /\ SF_vars(PopLoadTail /\ ctail' = tail)

FairSpec == Spec /\ Fairness

-----------------------------------------------------------------------------
(* Types.                                                                  *)
TypeOK ==
  /\ head \in Index
  /\ tail \in Index
  /\ buffer \in [Slots -> Items \union {NoItem, Torn}]
  /\ ppc \in {"idle", "loadHead", "write", "writing", "publish"}
  /\ pitem \in Items \union {NoItem}
  /\ phead \in Index
  /\ cpc \in {"idle", "loadTail", "reading", "advance"}
  /\ ctail \in Index
  /\ citem \in Items \union {NoItem, Torn}
  /\ pushRet \in BOOLEAN
  /\ popRet \in Items \union {NoItem, Torn}

(* The slot the producer is assigning is never the slot the consumer is    *)
(* copying: buffer_[tail] and buffer_[head] are accessed without a lock.   *)
NoDataRace ==
  ~(ppc = "writing" /\ cpc = "reading" /\ Slot(tail) = Slot(head))

(* Every slot between head_ and tail_ holds a completely written item.     *)
PublishedIntact ==
  \A i \in Index : Dist(head, i) < Occupancy => buffer[Slot(i)] \in Items

(* The refinement mapping: the published items from head_ on, and how far  *)
(* each thread is behind the other's counter.                              *)
At(a, k) == (a + k) % IndexMod      \* a + k in size_t arithmetic
Contents == [i \in 1..Occupancy |-> buffer[Slot(At(head, i - 1))]]
Unacked  == Dist(phead, head)
Unseen   == Dist(ctail, tail)

Fifo == INSTANCE BoundedFifo WITH
          queue <- Contents, unacked <- Unacked, unseen <- Unseen

(* The ring buffer implements the bounded FIFO: nothing lost, duplicated,  *)
(* reordered or torn between a push that returned true and its pop.        *)
ImplementsFifo == Fifo!Spec

(* An item that was published is eventually popped: under a consumer that  *)
(* keeps polling, head_ moves on whenever the queue is not empty.          *)
HeadAdvances ==
  \A h \in Index : (head = h /\ Occupancy > 0) ~> (head # h)

-----------------------------------------------------------------------------
(***************************************************************************)
(* The inductive invariant.  Going round the ring from phead one meets     *)
(* head, then ctail, then tail, within Capacity of phead.                  *)
(***************************************************************************)
RingOrder ==
  /\ Dist(phead, head) <= Dist(phead, tail)
  /\ Dist(phead, tail) <= Capacity
  /\ Dist(head, ctail) <= Dist(head, tail)

ProducerInv ==
  /\ ppc # "idle" => pitem \in Items
  /\ ppc \in {"write", "writing", "publish"} => Dist(phead, tail) < Capacity
  /\ ppc = "publish" => buffer[Slot(tail)] = pitem

ConsumerInv ==
  /\ cpc \in {"reading", "advance"} => head # ctail
  /\ cpc = "advance" => citem = buffer[Slot(head)]

RingInv ==
  /\ TypeOK
  /\ RingOrder
  /\ ProducerInv
  /\ ConsumerInv
  /\ PublishedIntact
=============================================================================
