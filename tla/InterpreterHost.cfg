SPECIFICATION Spec
CONSTANTS
  a = a
  b = b
  Texts = {a, b}
  Bodies = {a, b}
  ExitCodes = {"zero", "code", "signal"}
  MaxLines = 2
  NaN = NaN
  NoBar = NoBar
  Replies <- MCReplies
INVARIANTS TypeOK PhaseBrackets NothingLeftOpen SnapshotIsCurrent OutcomeAgreesWithEvents PanicSilences
SYMMETRY TextSymmetry
