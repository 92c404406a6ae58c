SPECIFICATION HostedSpec
CONSTANTS
  Texts <- MCTexts
  ExitCodes = {"zero", "code"}
  MaxLines = 4
  NaN = NaN
  NoBar = NoBar
  Replies = {}
  Bodies = {}
  Lines <- MCLines
  Shape <- MCShape
  Match <- MCMatch
  Slice <- MCSlice
  Notes = TRUE
  Fallback <- MCFallback
INVARIANTS NotesAreWhole FailureIsExplained PhasesAreFlat BarStaysInSlice
