SPECIFICATION FairSpec
CONSTANTS
  Width = 4
  Height = 2
  Header = 54
  BufferNum = 5
  BufferSize = 30
  Faults = {"enable", "start", "transmission"}
  Freed = {}
  MaxCalls = 4
INVARIANTS
  TypeOK
  PostIsAwaited
  NoStaleCallback
  PictureIntact
  OneLostPerPicture
PROPERTIES
  TakePictureReturns
