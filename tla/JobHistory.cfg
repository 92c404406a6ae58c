SPECIFICATION Spec
CONSTANTS
  h1 = h1
  j1 = j1
  j2 = j2
  j3 = j3
  Hosts = {h1}
  Jobs = {j1, j2, j3}
  Exclusive = TRUE
  LoadLimit = 1
  MaxOpens = 3
  StoreFaults = TRUE
  Tags <- MCTags
  PlainTags <- MCPlainTags
  TagOf <- MCTagOf
  Like <- MCLike
INVARIANTS HistoryIsTrue DeliveredSurvives QueriesFindAll
PROPERTY FinalRowIsForever
