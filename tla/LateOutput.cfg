SPECIFICATION Spec
CONSTANTS
  j1 = j1
  Jobs = {j1}
  Timed = {}
  MaxConcurrent = 1
  MaxLines = 1
  Descendants = FALSE
  JobObject = FALSE
  StoreFaults = FALSE
  ReadFaults = FALSE
  WaitFaults = FALSE
INVARIANT OutputBeforeExited
