\* Three threads as in main(), a ring of three and two laps of it, and a range
\* of unsigned int that is no multiple of the ring, as 2^32 and 100.  The limit
\* is the number of threads, the largest one with which pictures are dropped.
SPECIFICATION Spec
CONSTANTS
  Workers = {w1, w2, w3}
  MaxSize = 3
  Word = 32
  MaxFileCount = 30
  QueueFloor = 3
  Ks = {0, 1, 2}
  MaxPictures = 5
  MaxRequests = 1
SYMMETRY Symmetry
INVARIANTS
  TypeOK
  SingleCapture
  PendingMatches
  BacklogBound
  RingHoldsLatest
  SavesPostedOrNewer
  ServedFromRing
  LossOnStop
  QuitStopsCapture
PROPERTY ImplementsLedger
