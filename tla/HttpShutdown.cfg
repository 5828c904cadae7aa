SPECIFICATION FairSpec
CONSTANTS
  Workers = {w1, w2}
  Conns = {c1, c2}
  NoConn = NoConn
  Strands = {TRUE, FALSE}
  Window = 1
  MaxRequests = 0
INVARIANTS
  HttpHasConnection
  AgreeAtRest
PROPERTY HangUpNoticed
CHECK_DEADLOCK FALSE
