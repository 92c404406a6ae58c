SPECIFICATION FairSpec
CONSTANTS
  j1 = j1
  Jobs = {j1}
  Timed = {j1}
  MaxConcurrent = 0
  MaxLines = 1
  Descendants = TRUE
  JobObject = FALSE
  StoreFaults = TRUE
  ReadFaults = FALSE
  WaitFaults = FALSE
INVARIANTS RuntimeInv LogOrdered RowNeverAhead BusOrdered CancelEventDecides TimeoutKillsGroup
PROPERTIES CancelFinalizes TimeoutFinalizes
