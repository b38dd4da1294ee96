-------------------------- MODULE TelemetryMonitor --------------------------
(***************************************************************************)
(* TelemetryMonitor (src/system/monitor.cpp): the owner starts and stops a *)
(* worker thread that drains the event queue into its counters and copies  *)
(* them into stats_ when 100 ms have passed; anyone reads stats_ under the *)
(* mutex.  The queue is what SpscRingBuffer is shown to implement.         *)
(*                                                                         *)
(* Counters are uint64_t and wrap at CounterMod.  The clock is reduced to  *)
(* "100 ms have passed since last_time" (due); the idle sleep is a delay   *)
(* and changes nothing.  average_latency_ns is kept as the pair it is the  *)
(* quotient of, throughput_kbps as the byte count it is computed from.     *)
(***************************************************************************)
EXTENDS Integers, Sequences

CONSTANTS
  Events,      \* MetricEvents: records [size, latency, dropped]
  Capacity,    \* of the queue
  NoItem,      \* std::nullopt
  CounterMod   \* number of values of a uint64_t

ASSUME MonitorAssumption ==
  /\ Events \subseteq [size : Nat, latency : Nat, dropped : BOOLEAN]
  /\ Capacity \in Nat
  /\ CounterMod \in Nat \ {0}

VARIABLES
  queue, unacked, unseen, pushRet, popRet,   \* the queue, see BoundedFifo
  running,     \* running_
  opc,         \* owner: "out", or "join" inside stop()
  wpc,         \* worker: "none" when there is no thread
  due,         \* worker: elapsed >= 100
  cum,         \* cumulative_packets_, _dropped_, _bytes_, _latency_ns_
  stats,       \* stats_
  mutex,       \* stats_mutex_ is held by the worker
  seen         \* what get_latest_metrics() last returned

qvars == <<queue, unacked, unseen, pushRet, popRet>>
vars == <<qvars, running, opc, wpc, due, cum, stats, mutex, seen>>

Queue == INSTANCE BoundedFifo WITH Items <- Events

ZeroStats == [packets |-> 0, dropped |-> 0, bytes |-> 0, latency |-> <<0, 0>>, interval |-> 0]

Init ==
  /\ Queue!Init
  /\ running = FALSE
  /\ opc = "out"
  /\ wpc = "none"
  /\ due = FALSE
  /\ cum = [packets |-> 0, dropped |-> 0, bytes |-> 0, latency |-> 0]
  /\ stats = ZeroStats
  /\ mutex = FALSE
  /\ seen = ZeroStats

-----------------------------------------------------------------------------
(* The threads around the monitor.                                         *)

\* The producer pushes an event; a refused event is lost to the monitor.
Push(event) ==
  /\ Queue!Push(event)
  /\ UNCHANGED <<running, opc, wpc, due, cum, stats, mutex, seen>>

PushRefused ==
  /\ Queue!PushRefused
  /\ UNCHANGED <<running, opc, wpc, due, cum, stats, mutex, seen>>

\* Stores of one thread become visible to the other.
Visibility ==
  /\ Queue!ObservePops \/ Queue!ObservePushes
  /\ UNCHANGED <<running, opc, wpc, due, cum, stats, mutex, seen>>

\* Mutated form of Start: a restart begins with zero counters.
StartClearsCounters ==
  /\ opc = "out"
  /\ ~running
  /\ running' = TRUE
  /\ wpc' = "loop"
  /\ due' = FALSE
  /\ cum' = [packets |-> 0, dropped |-> 0, bytes |-> 0, latency |-> 0]
  /\ UNCHANGED <<qvars, opc, stats, mutex, seen>>

\* start(); when running_ is already set it returns without a change.
Start ==
  /\ opc = "out"
  /\ ~running
  /\ running' = TRUE
  /\ wpc' = "loop"
  /\ due' = FALSE
  /\ UNCHANGED <<qvars, opc, cum, stats, mutex, seen>>

\* Mutated form of Stop: it does not wait for the worker.
StopWithoutJoin ==
  /\ opc = "out"
  /\ running
  /\ running' = FALSE
  /\ UNCHANGED <<qvars, opc, wpc, due, cum, stats, mutex, seen>>

\* stop(), also called by the destructor: clears running_ ...
Stop ==
  /\ opc = "out"
  /\ running
  /\ running' = FALSE
  /\ opc' = "join"
  /\ UNCHANGED <<qvars, wpc, due, cum, stats, mutex, seen>>

\* ... and waits for the worker.
Join ==
  /\ opc = "join"
  /\ wpc = "exited"
  /\ opc' = "out"
  /\ wpc' = "none"
  /\ UNCHANGED <<qvars, running, due, cum, stats, mutex, seen>>

\* Mutated form of GetLatestMetrics: it does not take the lock.
GetWithoutLock ==
  /\ seen' = stats
  /\ UNCHANGED <<qvars, running, opc, wpc, due, cum, stats, mutex>>

GetLatestMetrics ==
  /\ ~mutex
  /\ seen' = stats
  /\ UNCHANGED <<qvars, running, opc, wpc, due, cum, stats, mutex>>

\* 100 ms pass.
Elapse ==
  /\ wpc # "none"
  /\ due' = TRUE
  /\ UNCHANGED <<qvars, running, opc, wpc, cum, stats, mutex, seen>>

-----------------------------------------------------------------------------
(* monitor_loop().                                                         *)

\* Mutated form of LoopTest: running_ is not read again.
LoopForever ==
  /\ wpc = "loop"
  /\ wpc' = "drain"
  /\ UNCHANGED <<qvars, running, opc, due, cum, stats, mutex, seen>>

\* while (running_)
LoopTest ==
  /\ wpc = "loop"
  /\ wpc' = IF running THEN "drain" ELSE "exited"
  /\ UNCHANGED <<qvars, running, opc, due, cum, stats, mutex, seen>>

\* One event is added to the counters.
Count(c, event) ==
  IF event.dropped
  THEN [c EXCEPT !.packets = (@ + 1) % CounterMod,
                 !.dropped = (@ + 1) % CounterMod]
  ELSE [c EXCEPT !.packets = (@ + 1) % CounterMod,
                 !.bytes = (@ + event.size) % CounterMod,
                 !.latency = (@ + event.latency) % CounterMod]

DrainOne ==
  /\ wpc = "drain"
  /\ Queue!Pop
  /\ cum' = Count(cum, popRet')
  /\ UNCHANGED <<running, opc, wpc, due, stats, mutex, seen>>

\* The drain loop ends only when pop() finds nothing.
DrainEnd ==
  /\ wpc = "drain"
  /\ Queue!PopNothing
  /\ wpc' = "check"
  /\ UNCHANGED <<running, opc, due, cum, stats, mutex, seen>>

\* Mutated form of NotDue: the interval is measured from the latest test of it.
NotDueRestarts ==
  /\ wpc = "check"
  /\ wpc' = "loop"
  /\ due' = FALSE
  /\ UNCHANGED <<qvars, running, opc, cum, stats, mutex, seen>>

\* elapsed < 100
NotDue ==
  /\ wpc = "check"
  /\ ~due
  /\ wpc' = "loop"
  /\ UNCHANGED <<qvars, running, opc, due, cum, stats, mutex, seen>>

\* The first fields are written under the lock ...
LockAndTotal ==
  /\ wpc = "check"
  /\ due
  /\ wpc' = "update"
  /\ mutex' = TRUE
  /\ stats' = [stats EXCEPT !.packets = cum.packets, !.dropped = cum.dropped,
                            !.bytes = (@ + cum.bytes) % CounterMod]
  /\ UNCHANGED <<qvars, running, opc, due, cum, seen>>

\* Mutated form of RatesAndUnlock: cumulative_bytes_ is not reset.
RatesWithoutReset ==
  LET successful == (cum.packets - cum.dropped) % CounterMod IN
  /\ wpc = "update"
  /\ wpc' = "loop"
  /\ mutex' = FALSE
  /\ stats' = [stats EXCEPT !.latency = IF successful > 0 THEN <<cum.latency, successful>>
                                                          ELSE <<0, 0>>,
                            !.interval = cum.bytes]
  /\ due' = FALSE
  /\ UNCHANGED <<qvars, running, opc, cum, seen>>

\* ... then the averages; the interval's byte count and last_time start over.
RatesAndUnlock ==
  LET successful == (cum.packets - cum.dropped) % CounterMod IN
  /\ wpc = "update"
  /\ wpc' = "loop"
  /\ mutex' = FALSE
  /\ stats' = [stats EXCEPT !.latency = IF successful > 0 THEN <<cum.latency, successful>>
                                                          ELSE <<0, 0>>,
                            !.interval = cum.bytes]
  /\ cum' = [cum EXCEPT !.bytes = 0]
  /\ due' = FALSE
  /\ UNCHANGED <<qvars, running, opc, seen>>

Worker == LoopTest \/ DrainOne \/ DrainEnd \/ NotDue \/ LockAndTotal \/ RatesAndUnlock

Next ==
  \/ \E event \in Events : Push(event)
  \/ PushRefused
  \/ Visibility
  \/ Start \/ Stop \/ Join
  \/ GetLatestMetrics
  \/ Elapse
  \/ Worker

Spec == Init /\ [][Next]_vars

\* The worker and a joining owner are scheduled, time passes, and a store
\* becomes visible in finite time.
Fairness ==
  /\ WF_vars(Worker)
  /\ WF_vars(Join)
  /\ WF_vars(Elapse)
  /\ WF_vars(Visibility /\ unseen' = 0 /\ unseen # 0)

FairSpec == Spec /\ Fairness

-----------------------------------------------------------------------------
(* Types.                                                                  *)
Counter == 0..CounterMod-1

Counters == [packets : Counter, dropped : Counter, bytes : Counter, latency : Counter]

AggregatedMetrics ==
  [packets : Counter, dropped : Counter, bytes : Counter,
   latency : Counter \X Counter, interval : Counter]

TypeOK ==
  /\ queue \in Seq(Events) /\ Len(queue) <= Capacity
  /\ running \in BOOLEAN
  /\ opc \in {"out", "join"}
  /\ wpc \in {"none", "loop", "drain", "check", "update", "exited"}
  /\ due \in BOOLEAN
  /\ cum \in Counters
  /\ mutex \in BOOLEAN
  /\ stats \in AggregatedMetrics
  /\ seen \in AggregatedMetrics

(* There is at most one worker: start() never replaces a thread that was   *)
(* not joined (std::thread's assignment would terminate the program).      *)
StartFindsNoThread ==
  [][running' /\ ~running => wpc = "none"]_vars
=============================================================================
