SPECIFICATION FairSpec
CONSTANTS
  j1 = j1
  Jobs = {j1}
  Timed = {j1}
  MaxConcurrent = 1
  MaxLines = 1
  Descendants = TRUE
  JobObject = TRUE
  StoreFaults = FALSE
  ReadFaults = TRUE
  WaitFaults = TRUE
PROPERTIES CancelFinalizes TimeoutFinalizes
INVARIANTS JobObjectLeavesNone FinalIsVisible DrainedBeforeVerdict
