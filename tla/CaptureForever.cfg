\* The timer fires for ever, and requests come for ever.  No symmetry: liveness
\* is checked.
SPECIFICATION ForeverSpec
CONSTANTS
  Workers = {w1, w2, w3}
  MaxSize = 2
  Word = 16
  MaxFileCount = 20
  QueueFloor = 2
  Ks = {0}
  MaxPictures = 1
  MaxRequests = 1
PROPERTIES
  ShutdownCompletes
  CaptureContinues
  QueuedSaveRuns
  EveryRequestAnswered
