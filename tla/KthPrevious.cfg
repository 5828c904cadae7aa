\* The documented promise that the code does not keep.
SPECIFICATION Spec
CONSTANTS
  Workers = {w1, w2}
  MaxSize = 3
  Word = 16
  MaxFileCount = 1000
  QueueFloor = 10
  Ks = {1}
  MaxPictures = 4
  MaxRequests = 1
INVARIANT KthPrevious
