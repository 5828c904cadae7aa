SPECIFICATION Spec
CONSTANTS
  Width = 5
  Height = 2
  Header = 54
  BufferNum = 3
  BufferSize = 30
  Faults = {"enable", "send", "start", "transmission", "disable"}
  Freed = {0, 7}
  MaxCalls = 4
PROPERTY ImplementsTransfer
CHECK_DEADLOCK FALSE
