SPECIFICATION ReadSpec
CONSTANTS
  MaxItems = 4
  ReadErrors = FALSE
INVARIANT WholeLines
CHECK_DEADLOCK FALSE
