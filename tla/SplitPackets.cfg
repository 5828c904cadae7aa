SPECIFICATION Spec
CONSTANTS
  MaxWhitespace = 2
  MaxHeaders = 4
  MaxDigits = 2
  Anywhere = TRUE
INVARIANTS
  SplitAccepted
CHECK_DEADLOCK FALSE
