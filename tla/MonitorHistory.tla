--------------------------- MODULE MonitorHistory ---------------------------
(***************************************************************************)
(* TelemetryMonitor with a history variable: the events the queue has      *)
(* accepted, at most MaxEvents of them.                                    *)
(***************************************************************************)
EXTENDS TelemetryMonitor, FiniteSets

CONSTANT MaxEvents   \* bound on the accepted events

\* Fewer than 2^64 events: packets and dropped, which get_latest_metrics()
\* reports as totals, have not wrapped.  The sums of bytes and nanoseconds may.
ASSUME MaxEventsAssumption == MaxEvents \in Nat /\ MaxEvents < CounterMod

VARIABLE log         \* the accepted events, oldest first

hvars == <<vars, log>>

HInit == Init /\ log = <<>>

HNext ==
  \/ /\ Len(log) < MaxEvents
     /\ \E event \in Events : Push(event) /\ log' = Append(log, event)
  \/ /\ \/ PushRefused
        \/ Visibility
        \/ Start \/ Stop \/ Join
        \/ GetLatestMetrics
        \/ Elapse
        \/ Worker
     /\ UNCHANGED log

HSpec == HInit /\ [][HNext]_hvars

HFairSpec == HSpec /\ Fairness

-----------------------------------------------------------------------------
\* The indices of the events that were not dropped.
Delivered(events) == {i \in DOMAIN events : ~events[i].dropped}

\* s[1] + ... + s[Len(s)]
SumOf(s) ==
  LET sum[i \in 0..Len(s)] == IF i = 0 THEN 0 ELSE sum[i-1] + s[i]
  IN  sum[Len(s)]

\* What the events that were not dropped add to a total, one by one.
Sizes(events) ==
  [i \in DOMAIN events |-> IF events[i].dropped THEN 0 ELSE events[i].size]
Latencies(events) ==
  [i \in DOMAIN events |-> IF events[i].dropped THEN 0 ELSE events[i].latency]

Successes(events) == Cardinality(Delivered(events))
Bytes(events) == SumOf(Sizes(events))
Nanoseconds(events) == SumOf(Latencies(events))

\* What AggregatedMetrics means for a sequence of events (throughput apart);
\* sums are uint64_t.
Aggregate(events) ==
  [packets |-> Len(events),
   dropped |-> Len(events) - Successes(events),
   bytes   |-> Bytes(events) % CounterMod,
   latency |-> IF Successes(events) = 0 THEN <<0, 0>>
               ELSE <<Nanoseconds(events) % CounterMod, Successes(events)>>]

Report(s) ==
  [packets |-> s.packets, dropped |-> s.dropped, bytes |-> s.bytes, latency |-> s.latency]

\* The accepted events the worker has popped.
Popped == SubSeq(log, 1, Len(log) - Len(queue))

(* What get_latest_metrics() returned describes exactly a prefix of the    *)
(* accepted events: no event is counted twice or skipped, in any field, at *)
(* any interleaving of drain, update, read, stop and restart.              *)
SeenIsPrefix ==
  /\ seen.packets <= Len(log)
  /\ Report(seen) = Aggregate(SubSeq(log, 1, seen.packets))

(* Nothing popped is forgotten: the counters together with what stats_     *)
(* already holds account for every popped event, across stop and restart,  *)
(* and in the width of the counters (TypeOK).                              *)
Conservation ==
  /\ TypeOK
  /\ wpc # "update" =>
       /\ cum.packets = Aggregate(Popped).packets
       /\ cum.dropped = Aggregate(Popped).dropped
       /\ (stats.bytes + cum.bytes) % CounterMod = Aggregate(Popped).bytes

(* Successive reads never go back to a shorter prefix.                     *)
ReadsMonotone == [][seen'.packets >= seen.packets]_hvars

(* If the monitor is left running, every accepted event is eventually part *)
(* of stats_ (the accepted events are finitely many here).                 *)
EventuallyReported ==
  <>[]running => <>[](Report(stats) = Aggregate(log))

(* stop() returns.                                                         *)
StopReturns == opc = "join" ~> opc = "out"

-----------------------------------------------------------------------------
(* The inductive invariant behind SeenIsPrefix, Conservation, ReadsMonotone *)
(* and StartFindsNoThread.                                                 *)

\* The queue holds the events accepted last.
Queued ==
  /\ log \in Seq(Events) /\ Len(log) <= MaxEvents
  /\ unacked \in Nat /\ unseen \in Nat
  /\ Len(queue) <= Len(log)
  /\ \A i \in 1..Len(queue) : queue[i] = log[Len(log) - Len(queue) + i]

\* There is a worker from start() to the end of stop(); it holds the lock
\* between the two halves of its update.
Threads ==
  /\ running => opc = "out" /\ wpc \in {"loop", "drain", "check", "update"}
  /\ opc = "join" => ~running /\ wpc # "none"
  /\ opc = "out" /\ ~running => wpc = "none"
  /\ mutex <=> wpc = "update"

\* The counters stand for the popped events; in the middle of an update stats_
\* already has the totals.
Accounted ==
  /\ cum.packets = Len(Popped)
  /\ cum.dropped = Len(Popped) - Successes(Popped)
  /\ cum.latency = Nanoseconds(Popped) % CounterMod
  /\ wpc # "update" =>
       (stats.bytes + cum.bytes) % CounterMod = Bytes(Popped) % CounterMod
  /\ wpc = "update" =>
       /\ stats.packets = cum.packets
       /\ stats.dropped = cum.dropped
       /\ stats.bytes = Bytes(Popped) % CounterMod

\* stats_ stands for some of the popped events, and so does what was read of
\* it, for fewer.
Reported ==
  /\ stats.packets <= Len(Popped)
  /\ wpc # "update" => Report(stats) = Aggregate(SubSeq(log, 1, stats.packets))
  /\ seen.packets <= stats.packets
  /\ Report(seen) = Aggregate(SubSeq(log, 1, seen.packets))

IInv == TypeOK /\ Queued /\ Threads /\ Accounted /\ Reported
=============================================================================
