SPECIFICATION Spec
CONSTANTS
  MaxItems = 3
  ReadErrors = TRUE
  RingCapacity = 1
  DiskFails = TRUE
INVARIANTS LineForLine RawOutputIsWhole LogsReadBack
CHECK_DEADLOCK FALSE
