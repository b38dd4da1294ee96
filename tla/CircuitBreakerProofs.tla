------------------------ MODULE CircuitBreakerProofs ------------------------
(***************************************************************************)
(* A breaker that one thread uses: the invariant of CircuitBreaker, and    *)
(* from it what the state machine promises, for every threshold, timeout   *)
(* and sequence of calls.                                                  *)
(***************************************************************************)
EXTENDS CircuitBreaker, TLAPS

(* The invariant of one caller holds in the initial state.                 *)
LEMMA InitInv == Init => BreakerInv
BY BreakerAssumption DEF Init, BreakerInv, TypeOK, CallerInv, TransitionInv, PathInv, FailureInv, SuccessInv,
   TimeInv, States, Methods, Stored, Body

(* Every step of a single caller, and every tick, preserves the invariant. *)
LEMMA StepInv == ASSUME OneCaller PROVE BreakerInv /\ [Next]_vars => BreakerInv'
<1> PICK q : Threads = {q}
  BY DEF OneCaller
<1> SUFFICES ASSUME BreakerInv, [Next]_vars PROVE BreakerInv'
  OBVIOUS
<1>1. TypeOK /\ CallerInv(q)
  BY DEF BreakerInv
<1>2. SUFFICES TypeOK' /\ CallerInv(q)'
  BY DEF BreakerInv
<1> USE BreakerAssumption DEF TypeOK, States, Methods, shared, locals, observers, Stored, Body,
    CallerInv, TransitionInv, PathInv, FailureInv, SuccessInv, TimeInv
<1>3. CASE Tick
  <2>1. TypeOK'
    BY <1>1, <1>3 DEF Tick
  <2>2. TransitionInv(q)' /\ PathInv(q)'
    BY <1>1, <1>3 DEF Tick
  <2>3. FailureInv(q)' /\ SuccessInv(q)'
    BY <1>1, <1>3 DEF Tick
  <2>4. TimeInv(q)'
    BY <1>1, <1>3 DEF Tick
  <2>5. QED
    BY <2>1, <2>2, <2>3, <2>4
<1>4. CASE \E method \in Methods : Call(q, method)
  <2>1. TypeOK'
    BY <1>1, <1>4 DEF Call, Capped
  <2>2. TransitionInv(q)' /\ PathInv(q)'
    BY <1>1, <1>4 DEF Call, Capped
  <2>3. FailureInv(q)' /\ SuccessInv(q)'
    BY <1>1, <1>4 DEF Call, Capped
  <2>4. TimeInv(q)'
    BY <1>1, <1>4 DEF Call, Capped
  <2>5. QED
    BY <2>1, <2>2, <2>3, <2>4
<1>5. CASE ReadState(q)
  <2>1. TypeOK'
    BY <1>1, <1>5 DEF ReadState
  <2>2. TransitionInv(q)' /\ PathInv(q)'
    BY <1>1, <1>5 DEF ReadState
  <2>3. FailureInv(q)' /\ SuccessInv(q)'
    BY <1>1, <1>5 DEF ReadState
  <2>4. TimeInv(q)'
    BY <1>1, <1>5 DEF ReadState
  <2>5. QED
    BY <2>1, <2>2, <2>3, <2>4
<1>6. CASE SampleClock(q)
  <2>1. TypeOK'
    BY <1>1, <1>6 DEF SampleClock
  <2>2. TransitionInv(q)' /\ PathInv(q)'
    BY <1>1, <1>6 DEF SampleClock
  <2>3. FailureInv(q)' /\ SuccessInv(q)'
    BY <1>1, <1>6 DEF SampleClock
  <2>4. TimeInv(q)'
    BY <1>1, <1>6 DEF SampleClock
  <2>5. QED
    BY <2>1, <2>2, <2>3, <2>4
<1>7. CASE CheckElapsed(q)
  <2>1. TypeOK'
    BY <1>1, <1>7 DEF CheckElapsed, Elapsed, Enter
  <2>2. TransitionInv(q)' /\ PathInv(q)'
    BY <1>1, <1>7 DEF CheckElapsed, Elapsed, Enter
  <2>3. FailureInv(q)' /\ SuccessInv(q)'
    BY <1>1, <1>7 DEF CheckElapsed, Elapsed, Enter
  <2>4. TimeInv(q)'
    BY <1>1, <1>7 DEF CheckElapsed, Elapsed, Enter
  <2>5. QED
    BY <2>1, <2>2, <2>3, <2>4
<1>8. CASE StoreState(q)
  <2>1. TypeOK'
    BY <1>1, <1>8 DEF StoreState
  <2>2. TransitionInv(q)' /\ PathInv(q)'
    BY <1>1, <1>8 DEF StoreState
  <2>3. FailureInv(q)' /\ SuccessInv(q)'
    BY <1>1, <1>8 DEF StoreState
  <2>4. TimeInv(q)'
    BY <1>1, <1>8 DEF StoreState
  <2>5. QED
    BY <2>1, <2>2, <2>3, <2>4
<1>9. CASE StoreFailures(q)
  <2>1. TypeOK'
    BY <1>1, <1>9 DEF StoreFailures
  <2>2. TransitionInv(q)' /\ PathInv(q)'
    BY <1>1, <1>9 DEF StoreFailures
  <2>3. FailureInv(q)' /\ SuccessInv(q)'
    BY <1>1, <1>9 DEF StoreFailures
  <2>4. TimeInv(q)'
    BY <1>1, <1>9 DEF StoreFailures
  <2>5. QED
    BY <2>1, <2>2, <2>3, <2>4
<1>10. CASE StoreSuccesses(q)
  <2>1. TypeOK'
    BY <1>1, <1>10 DEF StoreSuccesses
  <2>2. TransitionInv(q)' /\ PathInv(q)'
    BY <1>1, <1>10 DEF StoreSuccesses
  <2>3. FailureInv(q)' /\ SuccessInv(q)'
    BY <1>1, <1>10 DEF StoreSuccesses
  <2>4. TimeInv(q)'
    BY <1>1, <1>10 DEF StoreSuccesses
  <2>5. QED
    BY <2>1, <2>2, <2>3, <2>4
<1>11. CASE StoreTime(q)
  <2>1. TypeOK'
    BY <1>1, <1>11 DEF StoreTime
  <2>2. TransitionInv(q)' /\ PathInv(q)'
    BY <1>1, <1>11 DEF StoreTime
  <2>3. FailureInv(q)' /\ SuccessInv(q)'
    BY <1>1, <1>11 DEF StoreTime
  <2>4. TimeInv(q)'
    BY <1>1, <1>11 DEF StoreTime
  <2>5. QED
    BY <2>1, <2>2, <2>3, <2>4
<1>12. CASE FirstTest(q)
  <2>1. TypeOK'
    BY <1>1, <1>12 DEF FirstTest
  <2>2. TransitionInv(q)' /\ PathInv(q)'
    BY <1>1, <1>12 DEF FirstTest
  <2>3. FailureInv(q)' /\ SuccessInv(q)'
    BY <1>1, <1>12 DEF FirstTest
  <2>4. TimeInv(q)'
    BY <1>1, <1>12 DEF FirstTest
  <2>5. QED
    BY <2>1, <2>2, <2>3, <2>4
<1>13. CASE SecondTestSuccess(q)
  <2>1. TypeOK'
    BY <1>1, <1>13 DEF SecondTestSuccess
  <2>2. TransitionInv(q)' /\ PathInv(q)'
    BY <1>1, <1>13 DEF SecondTestSuccess
  <2>3. FailureInv(q)' /\ SuccessInv(q)'
    BY <1>1, <1>13 DEF SecondTestSuccess
  <2>4. TimeInv(q)'
    BY <1>1, <1>13 DEF SecondTestSuccess
  <2>5. QED
    BY <2>1, <2>2, <2>3, <2>4
<1>14. CASE SecondTestFailure(q)
  <2>1. TypeOK'
    BY <1>1, <1>14 DEF SecondTestFailure, Enter
  <2>2. TransitionInv(q)' /\ PathInv(q)'
    BY <1>1, <1>14 DEF SecondTestFailure, Enter
  <2>3. FailureInv(q)' /\ SuccessInv(q)'
    BY <1>1, <1>14 DEF SecondTestFailure, Enter
  <2>4. TimeInv(q)'
    BY <1>1, <1>14 DEF SecondTestFailure, Enter
  <2>5. QED
    BY <2>1, <2>2, <2>3, <2>4
<1>15. CASE ClearFailures(q)
  <2>1. TypeOK'
    BY <1>1, <1>15 DEF ClearFailures
  <2>2. TransitionInv(q)' /\ PathInv(q)'
    BY <1>1, <1>15 DEF ClearFailures
  <2>3. FailureInv(q)' /\ SuccessInv(q)'
    BY <1>1, <1>15 DEF ClearFailures
  <2>4. TimeInv(q)'
    BY <1>1, <1>15 DEF ClearFailures
  <2>5. QED
    BY <2>1, <2>2, <2>3, <2>4
<1>16. CASE IncrementSuccesses(q)
  <2>1. TypeOK'
    BY <1>1, <1>16 DEF IncrementSuccesses, Enough, Enter
  <2>2. TransitionInv(q)' /\ PathInv(q)'
    BY <1>1, <1>16 DEF IncrementSuccesses, Enough, Enter
  <2>3. FailureInv(q)' /\ SuccessInv(q)'
    BY <1>1, <1>16 DEF IncrementSuccesses, Enough, Enter
  <2>4. TimeInv(q)'
    BY <1>1, <1>16 DEF IncrementSuccesses, Enough, Enter
  <2>5. QED
    BY <2>1, <2>2, <2>3, <2>4
<1>17. CASE IncrementFailures(q)
  <2>1. TypeOK'
    BY <1>1, <1>17 DEF IncrementFailures, Enough, Enter
  <2>2. TransitionInv(q)' /\ PathInv(q)'
    BY <1>1, <1>17 DEF IncrementFailures, Enough, Enter
  <2>3. FailureInv(q)' /\ SuccessInv(q)'
    BY <1>1, <1>17 DEF IncrementFailures, Enough, Enter
  <2>4. TimeInv(q)'
    BY <1>1, <1>17 DEF IncrementFailures, Enough, Enter
  <2>5. QED
    BY <2>1, <2>2, <2>3, <2>4
<1>18. CASE UNCHANGED vars
  <2>1. TypeOK'
    BY <1>1, <1>18 DEF vars
  <2>2. TransitionInv(q)' /\ PathInv(q)'
    BY <1>1, <1>18 DEF vars
  <2>3. FailureInv(q)' /\ SuccessInv(q)'
    BY <1>1, <1>18 DEF vars
  <2>4. TimeInv(q)'
    BY <1>1, <1>18 DEF vars
  <2>5. QED
    BY <2>1, <2>2, <2>3, <2>4
<1>19. QED
  BY <1>3, <1>4, <1>5, <1>6, <1>7, <1>8, <1>9, <1>10, <1>11, <1>12,
     <1>13, <1>14, <1>15, <1>16, <1>17, <1>18 DEF Next, InCall

(* One caller keeps the invariant for ever.                                *)
THEOREM IInvariant == ASSUME OneCaller PROVE Spec => []BreakerInv
<1>1. BreakerInv /\ [Next]_vars => BreakerInv'
  BY OneCaller, StepInv
<1>2. QED
  BY InitInv, <1>1, PTL DEF Spec

(* A closed circuit trips at the FailureThreshold'th failure in a row, not *)
(* before and not later (record_failure(), record_success()).              *)
THEOREM TripsAtThresholdHolds == ASSUME OneCaller PROVE Spec => []TripsAtThreshold
<1>1. BreakerInv => TripsAtThreshold
  BY BreakerAssumption DEF OneCaller, BreakerInv, TypeOK, CallerInv, TransitionInv, PathInv,
     FailureInv, SuccessInv, TimeInv, Stored, Body, TripsAtThreshold
<1>2. QED
  BY OneCaller, IInvariant, <1>1, PTL

(* A half-open circuit closes only after three successes in a row          *)
(* (record_success()).                                                     *)
THEOREM ClosesAfterThreeHolds == ASSUME OneCaller PROVE Spec => []ClosesAfterThree
<1>1. BreakerInv => ClosesAfterThree
  BY DEF BreakerInv, CallerInv, TransitionInv, ClosesAfterThree
<1>2. QED
  BY OneCaller, IInvariant, <1>1, PTL

(* An open circuit stays open for the recovery timeout, as long as one     *)
(* thread uses the breaker (get_state()).                                  *)
THEOREM OpenUntilTimeoutHolds == ASSUME OneCaller PROVE Spec => OpenUntilTimeout
<1>1. BreakerInv /\ [Next]_vars =>
        [state = "Open" /\ state' # "Open" => clock - openedAt >= RecoveryTimeout]_vars
  <2> SUFFICES ASSUME BreakerInv, [Next]_vars, state = "Open", state' # "Open"
               PROVE  clock - openedAt >= RecoveryTimeout
    OBVIOUS
  <2>1. PICK p \in Threads : StoreState(p)
    BY DEF Next, InCall, Tick, Call, ReadState, SampleClock, CheckElapsed, StoreFailures,
       StoreSuccesses, StoreTime, FirstTest, SecondTestSuccess, SecondTestFailure, ClearFailures,
       IncrementSuccesses, IncrementFailures, vars, shared
  <2>2. QED
    BY <2>1, BreakerAssumption DEF BreakerInv, TypeOK, CallerInv, TransitionInv, StoreState, States, Stored
<1>2. QED
  BY OneCaller, IInvariant, <1>1, PTL DEF Spec, OpenUntilTimeout
=============================================================================
