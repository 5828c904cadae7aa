------------------------ MODULE CaptureClock_proofs ------------------------
(***************************************************************************)
(* Proofs about the schedule of captures, for every sampling period,       *)
(* latency and grab time.  The inductive invariant says when the last two  *)
(* captures began, in multiples of the sampling period: the timer is set   *)
(* from the capture before last, so one of them is not enough.             *)
(***************************************************************************)
EXTENDS CaptureClock, TLAPS

(* The n-th multiple of the period follows the one before it. *)
LEMMA Periods ==
  ASSUME NEW n \in Nat
  PROVE  /\ n * SamplingPeriod \in Nat
         /\ (n + 1) * SamplingPeriod = n * SamplingPeriod + SamplingPeriod
BY ClockAssumption

(* Two captures add one latency to the drift, and one never lowers it. *)
LEMMA DriftSteps ==
  ASSUME NEW n \in Nat
  PROVE  /\ Drift(n) \in Nat
         /\ Drift(n + 2) = Drift(n) + Latency
         /\ Drift(n) <= Drift(n + 1)
         /\ Drift(n + 1) <= Drift(n) + Latency
<1> DEFINE h(k) == (k + 1) \div 2
<1>1. /\ h(n) \in Nat /\ h(n + 1) \in Nat /\ h(n + 2) \in Nat
      /\ h(n + 2) = h(n) + 1
      /\ h(n + 1) = h(n) \/ h(n + 1) = h(n) + 1
  OBVIOUS
<1> HIDE DEF h
<1>2. (h(n) + 1) * Latency = h(n) * Latency + Latency /\ h(n) * Latency \in Nat
  BY <1>1, ClockAssumption
<1>3. Drift(n) = h(n) * Latency /\ Drift(n + 1) = h(n + 1) * Latency
      /\ Drift(n + 2) = h(n + 2) * Latency
  BY DEF Drift, h
<1> QED BY <1>1, <1>2, <1>3, ClockAssumption

(* Every variable of the clock keeps its type. *)
THEOREM ClockTypes == Spec => []TypeOK
<1>1. Init => TypeOK
  BY ClockAssumption DEF Init, TypeOK
<1>2. TypeOK /\ [Next]_vars => TypeOK'
  BY ClockAssumption
     DEF TypeOK, Next, Tick, Begin, Finish, Later, vars
<1> QED BY <1>1, <1>2, PTL DEF Spec

(* The timer of the next capture is set from the capture before last, and  *)
(* the last two captures kept to the schedule.                             *)
Schedule ==
  /\ phase = "armed" =>
       /\ prev >= count * SamplingPeriod
       /\ expires >= (count + 1) * SamplingPeriod
       /\ count >= 1 => expires = before + 2 * SamplingPeriod
  /\ phase = "grabbing" =>
       /\ count >= 1
       /\ prev >= (count - 1) * SamplingPeriod
       /\ current >= count * SamplingPeriod
       /\ count >= 2 => current >= before + 2 * SamplingPeriod

(* The schedule is kept by every step. *)
LEMMA ScheduleInvariant == Spec => []Schedule
<1>1. Init => Schedule
  <2> SUFFICES ASSUME Init PROVE Schedule
    OBVIOUS
  <2>1. 0 * SamplingPeriod = 0 /\ (0 + 1) * SamplingPeriod = SamplingPeriod
    BY ClockAssumption
  <2> QED BY <2>1, ClockAssumption DEF Init, Schedule
<1>2. TypeOK /\ Schedule /\ [Next]_vars => Schedule'
  <2> SUFFICES ASSUME TypeOK, Schedule, [Next]_vars PROVE Schedule'
    OBVIOUS
  <2>1. CASE Tick
    BY <2>1 DEF Schedule, Tick
  <2>2. CASE Begin
    <3>1. (count + 1) - 1 = count
      BY DEF TypeOK
    <3> QED BY <2>2, <3>1, ClockAssumption DEF Schedule, Begin, TypeOK
  <2>3. CASE Finish
    <3> DEFINE m == count - 1
    <3>1. m \in Nat /\ count = m + 1 /\ count + 1 = (m + 1) + 1
      BY <2>3 DEF Finish, Schedule, TypeOK
    <3> HIDE DEF m
    <3>2. /\ (m + 1) * SamplingPeriod = m * SamplingPeriod + SamplingPeriod
          /\ ((m + 1) + 1) * SamplingPeriod
               = m * SamplingPeriod + 2 * SamplingPeriod
          /\ m * SamplingPeriod \in Nat
      BY <3>1, Periods, ClockAssumption
    <3>3. prev >= m * SamplingPeriod /\ current >= (m + 1) * SamplingPeriod
      BY <2>3, <3>1 DEF Finish, Schedule, m
    <3>4. /\ prev' >= count' * SamplingPeriod
          /\ expires' >= (count' + 1) * SamplingPeriod
      BY <2>3, <3>1, <3>2, <3>3, ClockAssumption DEF Finish, TypeOK
    <3> QED BY <2>3, <3>4 DEF Finish, Schedule
  <2>4. CASE UNCHANGED vars
    BY <2>4 DEF Schedule, vars
  <2> QED BY <2>1, <2>2, <2>3, <2>4 DEF Next
<1> QED BY <1>1, <1>2, ClockTypes, PTL DEF Spec

(* The n-th capture never begins before n periods have passed. *)
THEOREM CapturesNotEarly == Spec => []NotEarly
<1>1. Schedule => NotEarly
  BY DEF Schedule, NotEarly
<1> QED BY <1>1, ScheduleInvariant, PTL

(* Three captures in a row take at least two periods. *)
THEOREM CapturesNoBurst == Spec => []NoBurst
<1>1. TypeOK /\ Schedule => NoBurst
  BY ClockAssumption DEF Schedule, NoBurst, TypeOK
<1> QED BY <1>1, ScheduleInvariant, ClockTypes, PTL

(* How late the last two captures and the running handler can be. *)
InTime(t, n) == t <= n * SamplingPeriod + Drift(n)

DriftInv ==
  /\ phase = "armed" =>
       /\ now <= ready + Latency
       /\ InTime(prev, count)
       /\ ready <= count * SamplingPeriod + SamplingPeriod
                     + Drift(count + 1) - Latency
  /\ phase = "grabbing" =>
       /\ count >= 1
       /\ now <= current + GrabTime
       /\ InTime(current, count)
       /\ InTime(prev, count - 1)

(* DriftInv is kept by every step when a late start and a handler fit in   *)
(* one period.                                                             *)
LEMMA DriftInvariant ==
  ASSUME GrabTime + Latency <= SamplingPeriod
  PROVE  Spec => []DriftInv
<1>1. Init => DriftInv
  <2> SUFFICES ASSUME Init PROVE DriftInv
    OBVIOUS
  <2>1. /\ 0 * SamplingPeriod = 0
        /\ Drift(0) = 0 /\ Drift(0 + 1) = Latency
    <3>1. (0 + 1) \div 2 = 0 /\ ((0 + 1) + 1) \div 2 = 1
      OBVIOUS
    <3>2. 0 * Latency = 0 /\ 1 * Latency = Latency
          /\ 0 * SamplingPeriod = 0
      BY ClockAssumption
    <3> QED BY <3>1, <3>2 DEF Drift
  <2> QED BY <2>1, ClockAssumption DEF Init, DriftInv, InTime
<1>2. TypeOK /\ DriftInv /\ [Next]_vars => DriftInv'
  <2> SUFFICES ASSUME TypeOK, DriftInv, [Next]_vars PROVE DriftInv'
    OBVIOUS
  <2>0. TypeOK'
    BY ClockAssumption DEF TypeOK, Next, Tick, Begin, Finish, Later, vars
  <2>1. CASE Tick
    <3>1. /\ UNCHANGED <<phase, prev, current, ready, count>>
          /\ now' = now + 1
          /\ phase = "armed" => now < ready + Latency
          /\ phase = "grabbing" => now < current + GrabTime
      BY <2>1 DEF Tick
    <3>2. /\ phase = "armed" => now' <= ready' + Latency
          /\ phase = "grabbing" => now' <= current' + GrabTime
      BY <3>1, ClockAssumption DEF TypeOK
    <3> QED BY <3>1, <3>2 DEF DriftInv, InTime, Drift
  <2>2. CASE Begin
    <3>1. (count + 1) - 1 = count /\ count + 1 >= 1 /\ count \in Nat
      BY DEF TypeOK
    <3>2. /\ (count + 1) * SamplingPeriod
                = count * SamplingPeriod + SamplingPeriod
          /\ count * SamplingPeriod \in Nat
          /\ Drift(count + 1) \in Nat
      BY <3>1, Periods, DriftSteps
    <3>3. /\ phase = "armed" /\ phase' = "grabbing"
          /\ current' = now /\ now' = now /\ count' = count + 1
          /\ prev' = prev
      BY <2>2 DEF Begin
    <3>4. InTime(current', count')
      BY <3>2, <3>3, ClockAssumption DEF DriftInv, InTime, TypeOK
    <3>5. InTime(prev', count' - 1)
      BY <3>1, <3>3 DEF DriftInv
    <3>6. now' <= current' + GrabTime
      BY <3>3, ClockAssumption DEF TypeOK
    <3> QED BY <3>1, <3>3, <3>4, <3>5, <3>6 DEF DriftInv
  <2>3. CASE Finish
    <3>1. /\ phase = "grabbing" /\ phase' = "armed"
          /\ expires' = prev + 2 * SamplingPeriod
          /\ ready' = Later(expires', now)
          /\ prev' = current /\ now' = now /\ count' = count
      BY <2>3 DEF Finish
    <3> DEFINE m == count - 1
    <3>2. m \in Nat /\ count = m + 1 /\ count + 1 = m + 2
      BY <3>1 DEF DriftInv, TypeOK
    <3> HIDE DEF m
    <3>3. /\ count * SamplingPeriod = m * SamplingPeriod + SamplingPeriod
          /\ m * SamplingPeriod \in Nat
          /\ Drift(count + 1) = Drift(m) + Latency
          /\ Drift(m) \in Nat /\ Drift(count) \in Nat
          /\ Drift(count) <= Drift(m) + Latency
      BY <3>2, Periods, DriftSteps
    <3>3a. Drift(count) <= Drift(count + 1)
      BY <3>2, DriftSteps
    <3>4. /\ prev <= m * SamplingPeriod + Drift(m)
          /\ current <= count * SamplingPeriod + Drift(count)
          /\ now <= current + GrabTime
      BY <3>1 DEF DriftInv, InTime, m
    <3>5. expires' <= count * SamplingPeriod + SamplingPeriod
                        + Drift(count + 1) - Latency
      BY <3>1, <3>3, <3>4, ClockAssumption DEF TypeOK
    <3>6. now <= count * SamplingPeriod + SamplingPeriod
                   + Drift(count + 1) - Latency
      <4>1. now <= count * SamplingPeriod + Drift(count) + GrabTime
        BY <3>3, <3>4, ClockAssumption DEF TypeOK
      <4>2. GrabTime <= SamplingPeriod - Latency
        BY ClockAssumption
      <4> QED BY <4>1, <4>2, <3>3, <3>3a, ClockAssumption DEF TypeOK
    <3>7. ready' <= count * SamplingPeriod + SamplingPeriod
                      + Drift(count + 1) - Latency
      BY <3>1, <3>5, <3>6 DEF Later
    <3>8. now' <= ready' + Latency
      BY <3>1, <2>0, ClockAssumption DEF Later, TypeOK
    <3> QED BY <3>1, <3>4, <3>7, <3>8 DEF DriftInv, InTime
  <2>4. CASE UNCHANGED vars
    BY <2>4 DEF DriftInv, InTime, Drift, vars
  <2> QED BY <2>1, <2>2, <2>3, <2>4 DEF Next
<1> QED BY <1>1, <1>2, ClockTypes, PTL DEF Spec

(* The n-th capture is late by at most one latency for every two captures. *)
THEOREM CapturesDrift == Spec => []DriftBound
<1>1. CASE GrabTime + Latency <= SamplingPeriod
  <2>1. DriftInv => DriftBound
    BY DEF DriftInv, DriftBound, InTime
  <2> QED BY <1>1, <2>1, DriftInvariant, PTL
<1>2. CASE ~ (GrabTime + Latency <= SamplingPeriod)
  <2>1. DriftBound
    BY <1>2 DEF DriftBound
  <2> QED BY <2>1, PTL
<1> QED BY <1>1, <1>2

=============================================================================
