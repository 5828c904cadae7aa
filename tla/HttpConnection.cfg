SPECIFICATION Spec
CONSTANTS
  Workers = {w1, w2}
  Conns = {c1}
  NoConn = NoConn
  Strands = {TRUE, FALSE}
  Window = 1
  MaxRequests = 2
INVARIANTS
  TypeOK
  NeverDeaf
  StrandProtects
  StrandAnswers
CHECK_DEADLOCK FALSE
