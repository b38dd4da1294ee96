--------------------------- MODULE CircuitBreaker ---------------------------
(***************************************************************************)
(* CircuitBreaker (src/network/circuit_breaker.cpp), called by Threads.    *)
(* failure_count_ and success_count_ are atomic; state_ and                *)
(* last_state_change_time_ are plain members.  Every access to one of the  *)
(* four is a step.  With one thread that is the program; with several,     *)
(* state_ and the time stamp are raced for, and the interleavings of the   *)
(* accesses in program order are among the outcomes.                       *)
(***************************************************************************)
EXTENDS Integers

CONSTANTS
  Threads,           \* the callers
  FailureThreshold,  \* failure_threshold_
  RecoveryTimeout,   \* recovery_timeout_ms_
  MaxClock,          \* bound: the clock stops there
  NoState            \* no transition under way

ASSUME BreakerAssumption ==
  /\ FailureThreshold \in Nat \ {0}
  /\ RecoveryTimeout \in Nat
  /\ MaxClock \in Nat
  /\ NoState \notin {"Closed", "Open", "HalfOpen"}

VARIABLES
  clock,       \* steady_clock, in milliseconds
  state,       \* state_
  failures,    \* failure_count_
  successes,   \* success_count_
  since,       \* last_state_change_time_
  pc,          \* per thread: where it is
  op,          \* per thread: the method it called
  now,         \* per thread: the clock sample of get_state()
  target,      \* per thread: new_state of transition_to()
  after,       \* per thread: where transition_to() returns to
  \* Observers.
  openedAt,    \* the time at which state_ last became Open
  failed,      \* record_failure() calls since the last record_success(), ...
  succeeded    \* ... and the other way round; counted up to the limits only

shared == <<state, failures, successes, since>>
locals == <<pc, op, now, target, after>>
observers == <<openedAt, failed, succeeded>>
vars == <<clock, shared, locals, observers>>

States == {"Closed", "Open", "HalfOpen"}
Methods == {"get_state", "record_success", "record_failure"}

Init ==
  /\ clock = 0
  /\ state = "Closed"
  /\ failures = 0
  /\ successes = 0
  /\ since = 0
  /\ pc = [p \in Threads |-> "idle"]
  /\ op = [p \in Threads |-> "get_state"]
  /\ now = [p \in Threads |-> 0]
  /\ target = [p \in Threads |-> NoState]
  /\ after = [p \in Threads |-> "idle"]
  /\ openedAt = 0
  /\ failed = 0
  /\ succeeded = 0

-----------------------------------------------------------------------------
Tick ==
  /\ clock < MaxClock
  /\ clock' = clock + 1
  /\ UNCHANGED <<shared, locals, observers>>

Capped(n, limit) == IF n < limit THEN n ELSE limit

\* Each method begins with get_state().
Call(p, method) ==
  /\ pc[p] = "idle"
  /\ pc' = [pc EXCEPT ![p] = "readState"]
  /\ op' = [op EXCEPT ![p] = method]
  /\ failed' = IF method = "record_failure" THEN Capped(failed + 1, FailureThreshold)
               ELSE IF method = "record_success" THEN 0 ELSE failed
  /\ succeeded' = IF method = "record_success" THEN Capped(succeeded + 1, 3)
                  ELSE IF method = "record_failure" THEN 0 ELSE succeeded
  /\ UNCHANGED <<clock, shared, now, target, after, openedAt>>

\* What follows get_state() in the calling method.
Body(p) == IF op[p] = "get_state" THEN "idle" ELSE "first"

-----------------------------------------------------------------------------
(* get_state()                                                             *)

ReadState(p) ==
  /\ pc[p] = "readState"
  /\ pc' = [pc EXCEPT ![p] = IF state = "Open" THEN "sample" ELSE Body(p)]
  /\ UNCHANGED <<clock, shared, op, now, target, after, observers>>

SampleClock(p) ==
  /\ pc[p] = "sample"
  /\ pc' = [pc EXCEPT ![p] = "elapsed"]
  /\ now' = [now EXCEPT ![p] = clock]
  /\ UNCHANGED <<clock, shared, op, target, after, observers>>

Elapsed(p) == now[p] - since >= RecoveryTimeout

\* transition_to(new_state) is called; it returns to continue.
Enter(p, new, continue) ==
  /\ pc' = [pc EXCEPT ![p] = "storeState"]
  /\ target' = [target EXCEPT ![p] = new]
  /\ after' = [after EXCEPT ![p] = continue]

CheckElapsed(p) ==
  /\ pc[p] = "elapsed"
  /\ \/ /\ Elapsed(p)
        /\ Enter(p, "HalfOpen", Body(p))
     \/ /\ ~Elapsed(p)
        /\ pc' = [pc EXCEPT ![p] = Body(p)]
        /\ UNCHANGED <<target, after>>
  /\ UNCHANGED <<clock, shared, op, now, observers>>

-----------------------------------------------------------------------------
(* transition_to()                                                         *)

StoreState(p) ==
  /\ pc[p] = "storeState"
  /\ pc' = [pc EXCEPT ![p] = "storeFailures"]
  /\ state' = target[p]
  /\ openedAt' = IF target[p] = "Open" THEN clock ELSE openedAt
  /\ UNCHANGED <<clock, failures, successes, since, op, now, target, after, failed, succeeded>>

StoreFailures(p) ==
  /\ pc[p] = "storeFailures"
  /\ pc' = [pc EXCEPT ![p] = "storeSuccesses"]
  /\ failures' = 0
  /\ UNCHANGED <<clock, state, successes, since, op, now, target, after, observers>>

\* Mutated form of StoreSuccesses: success_count_ is kept.
KeepSuccesses(p) ==
  /\ pc[p] = "storeSuccesses"
  /\ pc' = [pc EXCEPT ![p] = "storeTime"]
  /\ UNCHANGED <<clock, shared, op, now, target, after, observers>>

StoreSuccesses(p) ==
  /\ pc[p] = "storeSuccesses"
  /\ pc' = [pc EXCEPT ![p] = "storeTime"]
  /\ successes' = 0
  /\ UNCHANGED <<clock, state, failures, since, op, now, target, after, observers>>

\* Mutated form of StoreTime: the time stamp is kept.
KeepTime(p) ==
  /\ pc[p] = "storeTime"
  /\ pc' = [pc EXCEPT ![p] = after[p]]
  /\ target' = [target EXCEPT ![p] = NoState]
  /\ UNCHANGED <<clock, shared, op, now, after, observers>>

StoreTime(p) ==
  /\ pc[p] = "storeTime"
  /\ pc' = [pc EXCEPT ![p] = after[p]]
  /\ since' = clock
  /\ target' = [target EXCEPT ![p] = NoState]
  /\ UNCHANGED <<clock, state, failures, successes, op, now, after, observers>>

-----------------------------------------------------------------------------
(* The bodies of record_success() and record_failure(): two tests of       *)
(* state_, then an atomic increment and perhaps a transition.              *)

FirstTest(p) ==
  /\ pc[p] = "first"
  /\ pc' = [pc EXCEPT ![p] =
       IF op[p] = "record_success"
       THEN IF state = "HalfOpen" THEN "increment" ELSE "second"
       ELSE IF state = "Closed" THEN "increment" ELSE "second"]
  /\ UNCHANGED <<clock, shared, op, now, target, after, observers>>

\* A success in the closed state clears the failures ...
SecondTestSuccess(p) ==
  /\ pc[p] = "second"
  /\ op[p] = "record_success"
  /\ pc' = [pc EXCEPT ![p] = IF state = "Closed" THEN "clear" ELSE "idle"]
  /\ UNCHANGED <<clock, shared, op, now, target, after, observers>>

ClearFailures(p) ==
  /\ pc[p] = "clear"
  /\ pc' = [pc EXCEPT ![p] = "idle"]
  /\ failures' = 0
  /\ UNCHANGED <<clock, state, successes, since, op, now, target, after, observers>>

\* ... and a failure in the half-open state trips the breaker.
SecondTestFailure(p) ==
  /\ pc[p] = "second"
  /\ op[p] = "record_failure"
  /\ \/ /\ state = "HalfOpen"
        /\ Enter(p, "Open", "idle")
     \/ /\ state # "HalfOpen"
        /\ pc' = [pc EXCEPT ![p] = "idle"]
        /\ UNCHANGED <<target, after>>
  /\ UNCHANGED <<clock, shared, op, now, observers>>

\* Mutated form of Enough: the previous count is compared.
EnoughByPrevious(previous, limit) == previous >= limit

Enough(previous, limit) == previous + 1 >= limit

IncrementSuccesses(p) ==
  /\ pc[p] = "increment"
  /\ op[p] = "record_success"
  /\ successes' = successes + 1
  /\ \/ /\ Enough(successes, 3)
        /\ Enter(p, "Closed", "idle")
     \/ /\ ~Enough(successes, 3)
        /\ pc' = [pc EXCEPT ![p] = "idle"]
        /\ UNCHANGED <<target, after>>
  /\ UNCHANGED <<clock, state, failures, since, op, now, observers>>

IncrementFailures(p) ==
  /\ pc[p] = "increment"
  /\ op[p] = "record_failure"
  /\ failures' = failures + 1
  /\ \/ /\ Enough(failures, FailureThreshold)
        /\ Enter(p, "Open", "idle")
     \/ /\ ~Enough(failures, FailureThreshold)
        /\ pc' = [pc EXCEPT ![p] = "idle"]
        /\ UNCHANGED <<target, after>>
  /\ UNCHANGED <<clock, state, successes, since, op, now, observers>>

InCall(p) ==
  \/ ReadState(p) \/ SampleClock(p) \/ CheckElapsed(p)
  \/ StoreState(p) \/ StoreFailures(p) \/ StoreSuccesses(p) \/ StoreTime(p)
  \/ FirstTest(p) \/ SecondTestSuccess(p) \/ SecondTestFailure(p)
  \/ ClearFailures(p)
  \/ IncrementSuccesses(p) \/ IncrementFailures(p)

Next ==
  \/ Tick
  \/ \E p \in Threads : InCall(p) \/ \E method \in Methods : Call(p, method)

Spec == Init /\ [][Next]_vars

-----------------------------------------------------------------------------
(* Types.                                                                  *)
TypeOK ==
  /\ clock \in 0..MaxClock
  /\ state \in States
  /\ failures \in Nat /\ successes \in Nat
  /\ since \in 0..MaxClock
  /\ pc \in [Threads -> {"idle", "readState", "sample", "elapsed", "storeState",
                         "storeFailures", "storeSuccesses", "storeTime", "first", "second",
                         "clear", "increment"}]
  /\ op \in [Threads -> Methods]
  /\ now \in [Threads -> 0..MaxClock]
  /\ target \in [Threads -> States \union {NoState}]
  /\ after \in [Threads -> {"idle", "first"}]
  /\ openedAt \in 0..MaxClock
  /\ failed \in 0..FailureThreshold
  /\ succeeded \in 0..3

(* An open circuit stays open for recovery_timeout_ms_, whatever is        *)
(* recorded in the meantime.  With two threads it is broken: one trips the *)
(* breaker while the other still holds the previous trip's time stamp.     *)
OpenUntilTimeout ==
  [][state = "Open" /\ state' # "Open" => clock - openedAt >= RecoveryTimeout]_vars

(* A closed circuit trips exactly at the FailureThreshold'th failure in a  *)
(* row: not before it, and never later, through every history of earlier   *)
(* trips, recoveries and interleaved successes.                            *)
TripsAtThreshold ==
  /\ \A p \in Threads : target[p] = "Open" /\ state = "Closed" => failed = FailureThreshold
  /\ (\A p \in Threads : pc[p] = "idle") /\ state = "Closed" => failed < FailureThreshold

(* A half-open circuit closes only after three successes in a row.         *)
ClosesAfterThree ==
  \A p \in Threads : target[p] = "Closed" => succeeded = 3

-----------------------------------------------------------------------------
(***************************************************************************)
(* The inductive invariant for one caller: what the members and the time   *)
(* stamp say about the calls so far.                                       *)
(***************************************************************************)
Stored == {"storeFailures", "storeSuccesses", "storeTime"}

\* The program is sequential.
OneCaller == \E q : Threads = {q}

\* A transition is made from the state, and by the method, that allows it.
TransitionInv(p) ==
  /\ target[p] # NoState <=> pc[p] \in {"storeState"} \union Stored
  /\ target[p] = "HalfOpen" => after[p] = Body(p)
  /\ target[p] = "Closed" => after[p] = "idle" /\ op[p] = "record_success" /\ succeeded = 3
  /\ target[p] = "Open" => after[p] = "idle" /\ op[p] = "record_failure"
  /\ pc[p] \in Stored => state = target[p]
  /\ pc[p] \in {"storeSuccesses", "storeTime"} => failures = 0
  /\ pc[p] = "storeTime" => successes = 0
  /\ pc[p] = "storeState" =>
       /\ target[p] = "HalfOpen" => state = "Open" /\ clock - openedAt >= RecoveryTimeout
       /\ target[p] = "Closed" => state = "HalfOpen"
       /\ target[p] = "Open" => state = "HalfOpen" \/ (state = "Closed" /\ failed = FailureThreshold)

\* Where the methods get to in which state.
PathInv(p) ==
  /\ pc[p] \in {"sample", "elapsed"} => state = "Open"
  /\ pc[p] \in {"first", "second", "clear", "increment"} => op[p] # "get_state"
  /\ pc[p] = "clear" => op[p] = "record_success"
  /\ pc[p] = "increment" => state = IF op[p] = "record_success" THEN "HalfOpen" ELSE "Closed"
  /\ pc[p] = "second" => state # IF op[p] = "record_success" THEN "HalfOpen" ELSE "Closed"
  /\ pc[p] = "idle" /\ op[p] = "record_failure" => state # "HalfOpen"
  /\ op[p] = "record_success" /\ pc[p] # "idle" => failed = 0 /\ succeeded > 0

\* failure_count_ is the number of failures in a row while the circuit is closed.
FailureInv(p) ==
  state = "Closed" /\ pc[p] # "storeFailures" /\ target[p] # "Open" =>
    /\ failures < FailureThreshold
    /\ IF op[p] = "record_failure" /\ pc[p] # "idle" THEN failed = failures + 1
       ELSE IF op[p] = "record_success" /\ pc[p] # "idle" THEN TRUE
       ELSE failed = failures

\* success_count_ counts successes in a row while the circuit is half-open.
SuccessInv(p) ==
  state = "HalfOpen" /\ pc[p] \notin {"storeFailures", "storeSuccesses"} /\ target[p] # "Closed" =>
    /\ successes < 3
    /\ IF op[p] = "record_success" /\ pc[p] # "idle" THEN successes < succeeded
       ELSE op[p] # "record_failure" => successes <= succeeded

TimeInv(p) ==
  /\ since <= clock /\ openedAt <= clock /\ now[p] <= clock
  /\ state = "Open" /\ pc[p] \notin Stored => openedAt <= since

CallerInv(p) ==
  TransitionInv(p) /\ PathInv(p) /\ FailureInv(p) /\ SuccessInv(p) /\ TimeInv(p)

BreakerInv ==
  /\ TypeOK
  /\ \A p \in Threads : CallerInv(p)
=============================================================================
