-------------------------- MODULE GcraRateLimiter --------------------------
(***************************************************************************)
(* GcraRateLimiter::allow() (include/network/rate_limiter.hpp), called     *)
(* through Node::receive_packet() by several threads.  Each thread samples *)
(* the steady clock once, loads tat_ns_, and then loops: reject, or        *)
(* compare-and-swap the next theoretical arrival time.                     *)
(*                                                                         *)
(* The accesses are relaxed: a load returns any value of tat_ns_'s         *)
(* modification order that is not older than the latest one this thread    *)
(* has read or written.  A successful compare-and-swap reads the latest.   *)
(***************************************************************************)
EXTENDS Integers, FiniteSets

CONSTANTS
  Threads,           \* the callers
  EmissionInterval,  \* emission_interval_ns_
  Burst,             \* burst_capacity
  MaxClock           \* bound: the clock stops there

ASSUME GcraAssumption ==
  /\ EmissionInterval \in Nat \ {0}
  /\ Burst \in Nat \ {0}
  /\ MaxClock \in Nat

VARIABLES
  clock,       \* std::chrono::steady_clock
  tat,         \* tat_ns_: the latest value in its modification order
  history,     \* every value tat_ns_ has had
  pc,          \* per thread: where it is in allow()
  t,           \* per thread: the clock sample
  current,     \* per thread: current_tat, the latest value of tat_ns_ it knows
  \* Observers: they record what was admitted and restrict nothing.
  winStart,    \* the start of an arbitrary window
  winCount,    \* admissions of packets whose clock sample is in the window
  busyStart,   \* the sample that last found the bucket idle
  busyCount    \* admissions since then, that one included

observers == <<winStart, winCount, busyStart, busyCount>>
vars == <<clock, tat, history, pc, t, current, observers>>

\* Tau, the tolerance: (burst_capacity - 1) * T
Tolerance == (Burst - 1) * EmissionInterval

Init ==
  /\ clock = 0
  /\ tat = 0
  /\ history = {0}
  /\ pc = [p \in Threads |-> "idle"]
  /\ t = [p \in Threads |-> 0]
  /\ current = [p \in Threads |-> 0]
  /\ winStart \in 0..MaxClock
  /\ winCount = 0
  /\ busyStart = 0
  /\ busyCount = 0

-----------------------------------------------------------------------------
Tick ==
  /\ clock < MaxClock
  /\ clock' = clock + 1
  /\ UNCHANGED <<tat, history, pc, t, current, observers>>

\* allow() is entered and samples the clock.
Sample(p) ==
  /\ pc[p] = "idle"
  /\ pc' = [pc EXCEPT ![p] = "load"]
  /\ t' = [t EXCEPT ![p] = clock]
  /\ UNCHANGED <<clock, tat, history, current, observers>>

\* The values a relaxed read by p may return.
Readable(p) == {v \in history : v >= current[p]}

Load(p) ==
  /\ pc[p] = "load"
  /\ pc' = [pc EXCEPT ![p] = "decide"]
  /\ current' \in {[current EXCEPT ![p] = v] : v \in Readable(p)}
  /\ UNCHANGED <<clock, tat, history, t, observers>>

\* Mutated forms of the definitions below, for mutation runs.
RateLimitedLate(c, now)  == c > now /\ c - now > Tolerance + EmissionInterval
RateLimitedEarly(c, now) == c > now /\ c - now >= Tolerance
NewTatFromSample(c, now) == now + EmissionInterval

\* The packet arrives before the tolerance window.
RateLimited(c, now) == c > now /\ c - now > Tolerance

\* base_tat + emission_interval_ns_
NewTat(c, now) == (IF c > now THEN c ELSE now) + EmissionInterval

Reject(p) ==
  /\ pc[p] = "decide"
  /\ RateLimited(current[p], t[p])
  /\ pc' = [pc EXCEPT ![p] = "idle"]
  /\ UNCHANGED <<clock, tat, history, t, current, observers>>

\* The loop's compare_exchange_weak succeeds: the packet is admitted.
Admit(p) ==
  LET new == NewTat(current[p], t[p]) IN
  /\ pc[p] = "decide"
  /\ ~RateLimited(current[p], t[p])
  /\ current[p] = tat
  /\ pc' = [pc EXCEPT ![p] = "idle"]
  /\ tat' = new
  /\ history' = history \union {new}
  /\ current' = [current EXCEPT ![p] = new]
  /\ winCount' = IF t[p] >= winStart THEN winCount + 1 ELSE winCount
  /\ busyStart' = IF tat > t[p] THEN busyStart ELSE t[p]
  /\ busyCount' = IF tat > t[p] THEN busyCount + 1 ELSE 1
  /\ UNCHANGED <<clock, t, winStart>>

\* Mutated form of Retry: current_tat keeps its old value.
RetryWithoutReload(p) ==
  /\ pc[p] = "decide"
  /\ ~RateLimited(current[p], t[p])
  /\ UNCHANGED vars

\* It fails and reloads current_tat; without a change it failed spuriously.
Retry(p) ==
  /\ pc[p] = "decide"
  /\ ~RateLimited(current[p], t[p])
  /\ current' \in {[current EXCEPT ![p] = v] : v \in Readable(p)}
  /\ UNCHANGED <<clock, tat, history, pc, t, observers>>

InCall(p) == Load(p) \/ Reject(p) \/ Admit(p) \/ Retry(p)

Next == Tick \/ \E p \in Threads : Sample(p) \/ InCall(p)

Spec == Init /\ [][Next]_vars

\* A thread inside allow() keeps running, and compare_exchange_weak does not
\* fail spuriously for ever: a step that changes the state is taken.
FairSpec == Spec /\ \A p \in Threads : WF_vars(InCall(p))

-----------------------------------------------------------------------------
(* Types.                                                                  *)
TypeOK ==
  /\ clock \in 0..MaxClock
  /\ tat \in Nat
  /\ history \subseteq Nat
  /\ pc \in [Threads -> {"idle", "load", "decide"}]
  /\ t \in [Threads -> Nat]
  /\ current \in [Threads -> Nat]
  /\ winStart \in 0..MaxClock
  /\ winCount \in Nat
  /\ busyStart \in Nat
  /\ busyCount \in Nat

(* In every window that starts anywhere, the packets that arrived (took    *)
(* their clock sample) in it and were admitted never exceed the burst plus *)
(* what the sustained rate emits in the window, however the threads        *)
(* interleave and whatever stale values they load.                         *)
SustainedRate ==
  winCount > 0 =>
    (winCount - Burst) * EmissionInterval <= clock - winStart

(* A packet that arrived after the bucket was last idle is rejected only   *)
(* if at least Burst packets were admitted since then.                     *)
NoUndueReject ==
  [][\A p \in Threads :
       Reject(p) /\ t[p] >= busyStart => busyCount >= Burst]_vars

(* allow() always returns: the loop cannot be kept alive by other threads' *)
(* successes, because each of them brings tat_ns_ closer to the limit.     *)
AllowReturns == \A p \in Threads : pc[p] # "idle" ~> pc[p] = "idle"

-----------------------------------------------------------------------------
(***************************************************************************)
(* The inductive invariant: what tat_ns_ says about the admissions so far. *)
(***************************************************************************)
Knowledge ==
  /\ tat \in history
  /\ \A v \in history : v <= tat
  /\ \A p \in Threads : t[p] <= clock /\ current[p] \in history

NotAhead == tat <= clock + Tolerance + EmissionInterval

WindowDebt == winCount > 0 => tat >= winStart + winCount * EmissionInterval

BusyDebt == tat = busyStart + busyCount * EmissionInterval

TatInv ==
  /\ TypeOK
  /\ Knowledge
  /\ NotAhead
  /\ WindowDebt
  /\ BusyDebt
=============================================================================
