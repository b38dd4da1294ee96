----------------------- MODULE GcraRateLimiterProofs -----------------------
(***************************************************************************)
(* Proofs about GcraRateLimiter, for any number of threads, any emission   *)
(* interval, burst and clock bound.                                        *)
(***************************************************************************)
EXTENDS GcraRateLimiter, TLAPS

(* One more emission interval.                                             *)
LEMMA MulSucc ==
  ASSUME NEW n \in Nat
  PROVE  /\ n * EmissionInterval \in Nat
         /\ (n + 1) * EmissionInterval = n * EmissionInterval + EmissionInterval
  BY GcraAssumption, SMTT(30)

(* More intervals take longer, so a longer time holds more of them.        *)
LEMMA MulCancel ==
  ASSUME NEW m \in Nat, NEW n \in Nat, m * EmissionInterval < n * EmissionInterval
  PROVE  m < n
<1>1. CASE n <= m
  <2>1. PICK d \in Nat : m = n + d
    BY <1>1
  <2>2. (n + d) * EmissionInterval = n * EmissionInterval + d * EmissionInterval
    BY GcraAssumption, SMTT(30)
  <2>3. d * EmissionInterval \in Nat /\ n * EmissionInterval \in Nat
    BY MulSucc
  <2> QED
    BY <2>1, <2>2, <2>3
<1> QED
  BY <1>1

(* The tolerance is a time, one interval short of Burst intervals.         *)
LEMMA ToleranceFacts ==
  /\ Tolerance \in Nat
  /\ Tolerance + EmissionInterval = Burst * EmissionInterval
<1>1. Burst - 1 \in Nat /\ (Burst - 1) + 1 = Burst
  BY GcraAssumption
<1>2. /\ (Burst - 1) * EmissionInterval \in Nat
      /\ ((Burst - 1) + 1) * EmissionInterval
           = (Burst - 1) * EmissionInterval + EmissionInterval
  BY <1>1, MulSucc
<1> QED
  BY <1>1, <1>2 DEF Tolerance

-----------------------------------------------------------------------------
(* TatInv holds initially.                                                   *)
LEMMA IInvInit == Init => TatInv
<1> SUFFICES ASSUME Init PROVE TatInv
  OBVIOUS
<1>1. TypeOK
  BY GcraAssumption DEF Init, TypeOK
<1>2. Knowledge /\ WindowDebt
  BY DEF Init, Knowledge, WindowDebt
<1>3. NotAhead
  BY ToleranceFacts, GcraAssumption DEF Init, NotAhead
<1>4. BusyDebt
  BY GcraAssumption DEF Init, BusyDebt
<1> QED
  BY <1>1, <1>2, <1>3, <1>4 DEF TatInv

(* The passing of time preserves TatInv.                                     *)
LEMMA TickStep == ASSUME TatInv, Tick PROVE TatInv'
<1> USE DEF TatInv
<1>1. TypeOK'
  BY GcraAssumption DEF Tick, observers, TypeOK
<1>2. Knowledge'
  BY DEF Tick, observers, TypeOK, Knowledge
<1>3. NotAhead'
  BY ToleranceFacts, GcraAssumption DEF Tick, observers, TypeOK, NotAhead
<1>4. WindowDebt' /\ BusyDebt'
  BY DEF Tick, observers, WindowDebt, BusyDebt
<1> QED
  BY <1>1, <1>2, <1>3, <1>4

(* Sampling, loading, rejecting and retrying preserve TatInv: none of them   *)
(* writes tat_ns_.                                                         *)
LEMMA ReadStep ==
  ASSUME TatInv, NEW p \in Threads, Sample(p) \/ Load(p) \/ Reject(p) \/ Retry(p)
  PROVE  TatInv'
<1> USE DEF TatInv
<1>1. UNCHANGED <<clock, tat, history, winStart, winCount, busyStart, busyCount>>
  BY DEF Sample, Load, Reject, Retry, observers
<1>2. NotAhead' /\ WindowDebt' /\ BusyDebt'
  BY <1>1 DEF NotAhead, WindowDebt, BusyDebt
<1>3. /\ t' \in [Threads -> Nat]
      /\ \A q \in Threads : t'[q] <= clock
  BY GcraAssumption DEF Sample, Load, Reject, Retry, TypeOK, Knowledge
<1>4. /\ current' \in [Threads -> Nat]
      /\ \A q \in Threads : current'[q] \in history
  <2>1. current' = current \/ \E v \in history : current' = [current EXCEPT ![p] = v]
    BY DEF Sample, Load, Reject, Retry, Readable
  <2> QED
    BY <2>1 DEF TypeOK, Knowledge
<1>5. pc' \in [Threads -> {"idle", "load", "decide"}]
  BY DEF Sample, Load, Reject, Retry, TypeOK
<1> QED
  BY <1>1, <1>2, <1>3, <1>4, <1>5 DEF TypeOK, Knowledge

(* Admitting a packet preserves TatInv.                                      *)
LEMMA AdmitStep ==
  ASSUME TatInv, NEW p \in Threads, Admit(p)
  PROVE  TatInv'
<1> USE DEF TatInv
<1> DEFINE new == NewTat(tat, t[p])
<1>1. /\ tat \in Nat /\ t[p] \in Nat /\ clock \in Nat /\ t[p] <= clock
      /\ EmissionInterval \in Nat /\ EmissionInterval > 0
  BY GcraAssumption DEF TypeOK, Knowledge
<1>2. /\ current[p] = tat /\ tat' = new /\ clock' = clock
      /\ history' = history \union {new}
      /\ current' = [current EXCEPT ![p] = new]
      /\ t' = t /\ winStart' = winStart
      /\ ~RateLimited(tat, t[p])
  BY DEF Admit
<1>3. /\ new \in Nat /\ new > tat
      /\ new >= tat + EmissionInterval
      /\ new >= t[p] + EmissionInterval
      /\ new <= t[p] + Tolerance + EmissionInterval
  BY <1>1, <1>2, ToleranceFacts DEF NewTat, RateLimited
<1> HIDE DEF new
<1>4. TypeOK'
  <2>1. pc' \in [Threads -> {"idle", "load", "decide"}]
    BY DEF Admit, TypeOK
  <2>2. winCount' \in Nat /\ busyStart' \in Nat /\ busyCount' \in Nat
    BY <1>1 DEF Admit, TypeOK
  <2> QED
    BY <1>2, <1>3, <2>1, <2>2 DEF TypeOK
<1>5. Knowledge'
  <2>1. \A v \in history' : v <= tat'
    BY <1>1, <1>2, <1>3 DEF Knowledge, TypeOK
  <2>2. \A q \in Threads : t'[q] <= clock' /\ current'[q] \in history'
    BY <1>2 DEF Knowledge, TypeOK
  <2> QED
    BY <1>2, <2>1, <2>2 DEF Knowledge
<1>6. NotAhead'
  BY <1>1, <1>2, <1>3, ToleranceFacts DEF NotAhead
<1>7. WindowDebt'
  <2>1. CASE t[p] < winStart
    <3>1. winCount' = winCount
      BY <1>1, <2>1 DEF Admit, TypeOK
    <3>2. winCount > 0 => new >= winStart + winCount * EmissionInterval
      BY <1>1, <1>3, MulSucc DEF WindowDebt, TypeOK
    <3> QED
      BY <1>2, <3>1, <3>2 DEF WindowDebt
  <2>2. CASE t[p] >= winStart
    <3>1. winCount' = winCount + 1 /\ winCount \in Nat /\ winStart \in Nat
      BY <2>2 DEF Admit, TypeOK
    <3>2. /\ winCount * EmissionInterval \in Nat
          /\ (winCount + 1) * EmissionInterval = winCount * EmissionInterval + EmissionInterval
      BY <3>1, MulSucc
    <3>3. CASE winCount = 0
      <4>1. (winCount + 1) * EmissionInterval = EmissionInterval
        BY <1>1, <3>3
      <4> QED
        BY <1>1, <1>2, <1>3, <2>2, <3>1, <4>1 DEF WindowDebt
    <3>4. CASE winCount > 0
      <4>1. tat >= winStart + winCount * EmissionInterval
        BY <3>4 DEF WindowDebt
      <4>2. new >= winStart + (winCount + 1) * EmissionInterval
        BY <1>1, <1>3, <3>1, <3>2, <4>1
      <4> QED
        BY <1>2, <3>1, <4>2 DEF WindowDebt
    <3> QED
      BY <3>1, <3>3, <3>4
  <2> QED
    BY <1>1, <2>1, <2>2 DEF TypeOK
<1>8. BusyDebt'
  <2>1. CASE tat > t[p]
    <3>1. busyStart' = busyStart /\ busyCount' = busyCount + 1
      BY <2>1 DEF Admit
    <3>2. new = tat + EmissionInterval
      BY <2>1 DEF new, NewTat
    <3>3. /\ busyCount * EmissionInterval \in Nat
          /\ (busyCount + 1) * EmissionInterval = busyCount * EmissionInterval + EmissionInterval
      BY MulSucc DEF TypeOK
    <3>4. busyStart \in Nat /\ tat = busyStart + busyCount * EmissionInterval
      BY DEF TypeOK, BusyDebt
    <3>5. new = busyStart + (busyCount + 1) * EmissionInterval
      BY <1>1, <3>2, <3>3, <3>4
    <3> QED
      BY <1>2, <3>1, <3>5 DEF BusyDebt
  <2>2. CASE ~(tat > t[p])
    <3>1. busyStart' = t[p] /\ busyCount' = 1
      BY <2>2 DEF Admit
    <3>2. new = t[p] + EmissionInterval
      BY <2>2 DEF new, NewTat
    <3> QED
      BY <1>1, <1>2, <3>1, <3>2 DEF BusyDebt
  <2> QED
    BY <2>1, <2>2
<1> QED
  BY <1>4, <1>5, <1>6, <1>7, <1>8

(* TatInv is an inductive invariant.                                         *)
THEOREM IInvariant == Spec => []TatInv
<1>1. TatInv /\ [Next]_vars => TatInv'
  <2> SUFFICES ASSUME TatInv, [Next]_vars PROVE TatInv'
    OBVIOUS
  <2>1. CASE UNCHANGED vars
    BY <2>1 DEF vars, observers, TatInv, TypeOK, Knowledge, NotAhead, WindowDebt, BusyDebt
  <2>2. CASE Tick
    BY <2>2, TickStep
  <2>3. CASE \E p \in Threads : Sample(p) \/ InCall(p)
    BY <2>3, ReadStep, AdmitStep DEF InCall
  <2> QED
    BY <2>1, <2>2, <2>3 DEF Next
<1> QED
  BY <1>1, IInvInit, PTL DEF Spec

(* allow() enforces the sustained rate plus one burst in every window, for *)
(* any number of threads and any interleaving of their loads and swaps.    *)
THEOREM SustainedRateHolds == Spec => []SustainedRate
<1>1. TatInv => SustainedRate
  <2> SUFFICES ASSUME TatInv, winCount > 0
               PROVE  (winCount - Burst) * EmissionInterval <= clock - winStart
    BY DEF SustainedRate
  <2>1. /\ tat >= winStart + winCount * EmissionInterval
        /\ tat <= clock + Tolerance + EmissionInterval
        /\ tat \in Nat /\ winStart \in Nat /\ clock \in Nat /\ winCount \in Nat
    BY DEF TatInv, WindowDebt, NotAhead, TypeOK
  <2>2. /\ winCount * EmissionInterval \in Nat /\ Burst * EmissionInterval \in Nat
        /\ Tolerance \in Nat
        /\ Tolerance + EmissionInterval = Burst * EmissionInterval
    BY <2>1, ToleranceFacts, MulSucc, GcraAssumption
  <2>3. (winCount - Burst) * EmissionInterval
          = winCount * EmissionInterval - Burst * EmissionInterval
    BY <2>1, GcraAssumption, SMTT(30)
  <2> DEFINE w == winCount * EmissionInterval
             b == Burst * EmissionInterval
  <2>4. w - b <= clock - winStart
    <3>1. /\ w \in Nat /\ b \in Nat /\ tat >= winStart + w
          /\ Tolerance + EmissionInterval = b /\ Tolerance \in Nat
          /\ EmissionInterval \in Nat
      BY <2>1, <2>2, GcraAssumption
    <3> HIDE DEF w, b
    <3> QED
      BY <2>1, <3>1
  <2> QED
    BY <2>3, <2>4
<1> QED
  BY <1>1, IInvariant, PTL

(* A packet is turned away only when the burst was used up since the       *)
(* bucket was last idle, unless its clock sample is older than that.       *)
THEOREM NoUndueRejectHolds == Spec => NoUndueReject
<1>1. ASSUME TatInv, NEW p \in Threads, Reject(p), t[p] >= busyStart
      PROVE  busyCount >= Burst
  <2>1. /\ current[p] > t[p] + Tolerance
        /\ current[p] <= tat
        /\ tat = busyStart + busyCount * EmissionInterval
        /\ current[p] \in Nat /\ t[p] \in Nat /\ tat \in Nat /\ busyStart \in Nat
        /\ busyCount \in Nat
    BY <1>1, ToleranceFacts DEF TatInv, Reject, RateLimited, Knowledge, BusyDebt, TypeOK
  <2>2. Tolerance = (Burst - 1) * EmissionInterval /\ Burst - 1 \in Nat /\ Tolerance \in Nat
    BY ToleranceFacts, GcraAssumption DEF Tolerance
  <2>3. busyCount * EmissionInterval \in Nat
    BY <2>1, MulSucc
  <2> DEFINE d == busyCount * EmissionInterval
  <2>4. Tolerance < d
    <3>1. d \in Nat /\ tat = busyStart + d /\ t[p] >= busyStart
      BY <1>1, <2>1, <2>3
    <3> HIDE DEF d
    <3> QED
      BY <2>1, <2>2, <3>1
  <2>5. (Burst - 1) * EmissionInterval < busyCount * EmissionInterval
    BY <2>2, <2>4
  <2>6. Burst - 1 < busyCount
    BY <2>1, <2>2, <2>5, MulCancel
  <2> QED
    BY <2>1, <2>6, GcraAssumption
<1>2. TatInv /\ [Next]_vars =>
        [\A p \in Threads : Reject(p) /\ t[p] >= busyStart => busyCount >= Burst]_vars
  BY <1>1
<1> QED
  BY <1>2, IInvariant, PTL DEF Spec, NoUndueReject
=============================================================================
