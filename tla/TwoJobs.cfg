SPECIFICATION FairSpec
CONSTANTS
  j1 = j1
  j2 = j2
  Jobs = {j1, j2}
  Timed = {}
  MaxConcurrent = 1
  MaxLines = 0
  Descendants = FALSE
  JobObject = FALSE
  StoreFaults = FALSE
  ReadFaults = FALSE
  WaitFaults = TRUE
INVARIANTS PermitConservation RunningBounded
PROPERTIES ImplementsJobSpec JobsFinalize CancelAllFinalizes
