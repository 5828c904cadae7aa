SPECIFICATION Spec
CONSTANTS
  Workers = {w1, w2}
  Conns = {c1}
  NoConn = NoConn
  Strands = {FALSE}
  Window = 1
  MaxRequests = 1
INVARIANT TransmittingMeansWriting
CHECK_DEADLOCK FALSE
