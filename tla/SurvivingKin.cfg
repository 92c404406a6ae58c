SPECIFICATION Spec
CONSTANTS
  j1 = j1
  Jobs = {j1}
  Timed = {}
  MaxConcurrent = 1
  MaxLines = 0
  Descendants = TRUE
  JobObject = FALSE
  StoreFaults = FALSE
  ReadFaults = FALSE
  WaitFaults = FALSE
INVARIANT CancelKillsGroup
