SPECIFICATION Spec
CONSTANTS
  MaxWhitespace = 2
  MaxHeaders = 4
  MaxDigits = 2
  Anywhere = FALSE
INVARIANTS
  TypeOK
  SplitAgrees
  AcceptedIsLegal
CHECK_DEADLOCK FALSE
