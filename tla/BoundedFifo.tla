---------------------------- MODULE BoundedFifo ----------------------------
(***************************************************************************)
(* What SpscRingBuffer promises to its two users: a bounded first-in       *)
(* first-out queue between one producer and one consumer that learn of     *)
(* each other's progress with a delay.  A release store becomes visible to *)
(* the other thread's acquire load only after a while, so                  *)
(*   unacked  is the number of pops the producer has not observed yet,     *)
(*   unseen   is the number of pushes the consumer has not observed yet.   *)
(* A push is refused only when the items in the queue and the pops not yet *)
(* observed fill the buffer; a pop finds nothing only when every queued    *)
(* item is one the consumer has not observed.                              *)
(***************************************************************************)
EXTENDS Naturals, Sequences

CONSTANTS
  Capacity,   \* number of slots
  Items,      \* the values that can be queued
  NoItem      \* what a pop of an empty queue returns (std::nullopt)

VARIABLES
  queue,      \* the items pushed and not yet popped, oldest first
  unacked,
  unseen,
  pushRet,    \* what the latest push returned
  popRet      \* what the latest pop returned

vars == <<queue, unacked, unseen, pushRet, popRet>>

Init ==
  /\ queue = <<>>
  /\ unacked = 0
  /\ unseen = 0
  /\ pushRet = TRUE
  /\ popRet = NoItem

\* The producer observes some of the pops.
ObservePops ==
  /\ unacked' \in 0..unacked
  /\ UNCHANGED <<queue, unseen, pushRet, popRet>>

\* The consumer observes some of the pushes.
ObservePushes ==
  /\ unseen' \in 0..unseen
  /\ UNCHANGED <<queue, unacked, pushRet, popRet>>

Push(item) ==
  /\ Len(queue) + unacked < Capacity
  /\ queue' = Append(queue, item)
  /\ unseen' = unseen + 1
  /\ pushRet' = TRUE
  /\ UNCHANGED <<unacked, popRet>>

PushRefused ==
  /\ unacked' \in 0..unacked
  /\ Len(queue) + unacked' = Capacity
  /\ pushRet' = FALSE
  /\ UNCHANGED <<queue, unseen, popRet>>

Pop ==
  /\ Len(queue) > unseen
  /\ popRet' = Head(queue)
  /\ queue' = Tail(queue)
  /\ unacked' = unacked + 1
  /\ UNCHANGED <<unseen, pushRet>>

PopNothing ==
  /\ unseen' \in 0..unseen
  /\ Len(queue) = unseen'
  /\ popRet' = NoItem
  /\ UNCHANGED <<queue, unacked, pushRet>>

Next ==
  \/ ObservePops
  \/ ObservePushes
  \/ \E item \in Items : Push(item)
  \/ PushRefused
  \/ Pop
  \/ PopNothing

Spec == Init /\ [][Next]_vars
=============================================================================
