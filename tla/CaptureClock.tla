---------------------------- MODULE CaptureClock ----------------------------
(***************************************************************************)
(* When pictures are taken: the time arithmetic of setTimer and            *)
(* handle_timeout in src/src/timer.cpp, which CaptureServer leaves out.    *)
(* The timer is set two periods after the beginning of the capture before  *)
(* last, so that lateness is made up for instead of being passed on.       *)
(*                                                                         *)
(* Time is a number of ticks since setTimer.  The scheduler starts the     *)
(* handler of an expired timer within Latency ticks, and takePicture, the  *)
(* encoder and the rest of the handler take at most GrabTime ticks.        *)
(***************************************************************************)
EXTENDS Integers

CONSTANTS
  SamplingPeriod,   \* samplingPeriod, from options.json
  Latency,          \* bound: from expiry to the first statement
  GrabTime,         \* bound: from the first statement to the last
  Horizon           \* bound: ticks of a behaviour

ASSUME ClockAssumption ==
  /\ SamplingPeriod \in Nat
  /\ Latency \in Nat
  /\ GrabTime \in Nat
  /\ Horizon \in Nat

VARIABLES
  now,        \* high_resolution_timer::clock_type::now()
  phase,      \* "armed": waiting for the timer, "grabbing": in the handler
  prev,       \* prev
  current,    \* current
  before,     \* ghost: the value prev had before its last assignment
  expires,    \* expiry time of the timer
  ready,      \* ghost: when the armed timer could first be served
  count       \* ghost: captures begun

vars == <<now, phase, prev, current, before, expires, ready, count>>

Later(a, b) == IF a > b THEN a ELSE b

(* setTimer *)
Init ==
  /\ now = 0
  /\ phase = "armed"
  /\ prev = 0
  /\ current = 0
  /\ before = 0
  /\ expires = prev + SamplingPeriod
  /\ ready = expires
  /\ count = 0

(* The clock goes on, unless the scheduler or the camera is overdue. *)
Tick ==
  /\ now < Horizon
  /\ phase = "armed" => now < ready + Latency
  /\ phase = "grabbing" => now < current + GrabTime
  /\ now' = now + 1
  /\ UNCHANGED <<phase, prev, current, before, expires, ready, count>>

(* The handler starts: auto current = clock_type::now(). *)
Begin ==
  /\ phase = "armed" /\ now >= expires
  /\ phase' = "grabbing"
  /\ current' = now
  /\ count' = count + 1
  /\ UNCHANGED <<now, prev, before, expires, ready>>

(* Mutant: one period after the capture before last. *)
FinishOnePeriod ==
  /\ phase = "grabbing"
  /\ phase' = "armed"
  /\ expires' = prev + SamplingPeriod
  /\ ready' = Later(expires', now)
  /\ prev' = current
  /\ before' = prev
  /\ UNCHANGED <<now, current, count>>

(* Mutant: one period after the beginning of this capture. *)
FinishFromCurrent ==
  /\ phase = "grabbing"
  /\ phase' = "armed"
  /\ expires' = current + SamplingPeriod
  /\ ready' = Later(expires', now)
  /\ prev' = current
  /\ before' = prev
  /\ UNCHANGED <<now, current, count>>

(* timer.expires_at(prev + 2 * samplingPeriod); prev = current; async_wait *)
Finish ==
  /\ phase = "grabbing"
  /\ phase' = "armed"
  /\ expires' = prev + 2 * SamplingPeriod
  /\ ready' = Later(expires', now)
  /\ prev' = current
  /\ before' = prev
  /\ UNCHANGED <<now, current, count>>

Next == Tick \/ Begin \/ Finish

Spec == Init /\ [][Next]_vars

-----------------------------------------------------------------------------

(* Types of the variables; prev, current and expires never go back behind  *)
(* the time of setTimer.                                                   *)
TypeOK ==
  /\ now \in Nat /\ prev \in Nat /\ current \in Nat /\ before \in Nat
  /\ expires \in Nat /\ ready \in Nat /\ count \in Nat
  /\ phase \in {"armed", "grabbing"}

(* No capture runs ahead of the sampling period, however much lateness has *)
(* been made up for: the n-th begins n periods after setTimer, or later.   *)
NotEarly == phase = "grabbing" => current >= count * SamplingPeriod

(* Making up for lateness never becomes a burst: any three captures in a   *)
(* row take at least two periods.  Two in a row may be closer than one.    *)
NoBurst ==
  phase = "grabbing" /\ count >= 2 => current - before >= 2 * SamplingPeriod

(* Lateness the n-th capture may have gathered. *)
Drift(n) == ((n + 1) \div 2) * Latency

(* When a late start and the work of a handler fit in a period, only every *)
(* other late start is passed on: the captures fall behind by at most one  *)
(* Latency in two periods.                                                 *)
DriftBound ==
  phase = "grabbing" /\ GrabTime + Latency <= SamplingPeriod
    => current <= count * SamplingPeriod + Drift(count)

=============================================================================
