SPECIFICATION Spec
CONSTANTS
  SamplingPeriod = 4
  Latency = 2
  GrabTime = 2
  Horizon = 34
INVARIANTS
  NotEarly
  NoBurst
  DriftBound
CHECK_DEADLOCK FALSE
