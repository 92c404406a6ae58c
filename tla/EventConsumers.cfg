SPECIFICATION FairSpec
CONSTANTS
  Capacity = 1
  Phases <- MCPhases
  Slice <- MCSlice
  MaxEvents = 5
  Observers = TRUE
INVARIANTS ForwardsInOrder CreepIsContained FinalizedBeforeReturn OutcomeToldOnce
PROPERTY ClientsReturn
CHECK_DEADLOCK FALSE
