SPECIFICATION Spec
CONSTANTS
  h1 = h1
  h2 = h2
  j1 = j1
  j2 = j2
  j3 = j3
  Hosts = {h1, h2}
  Jobs = {j1, j2, j3}
  Exclusive = FALSE
  LoadLimit = 1
  MaxOpens = 3
  StoreFaults = FALSE
  Tags <- MCTags
  PlainTags <- MCPlainTags
  TagOf <- MCTagOf
  Like <- MCLike
INVARIANT OnlyPreviousProcesses
