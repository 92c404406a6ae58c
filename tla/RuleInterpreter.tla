---------------------------- MODULE RuleInterpreter ----------------------------
(***************************************************************************)
(* The table-driven interpreter of interpret.rs: `on_line` and `on_exit`   *)
(* of RuleInterpreter as operations on its per-job state.  A regex is      *)
(* abstracted to the rule it makes a line match; the first one that does   *)
(* is the one `Match` gives.                                               *)
(***************************************************************************)
EXTENDS Integers, Sequences

CONSTANTS
  Texts,     \* texts of lines
  Shape,     \* Shape[t]: what the code sees of t besides the rules
  Match,     \* Match[t]: the action of the first rule t matches, or NoMatch
  Slice,     \* Slice[p]: the slice PhaseModel gives phase p, or NoSlice
  Notes,     \* is NotesConfig set?
  Fallback   \* FallbackPolicy, or NoFallback

Shapes == {"trigger", "separator", "blank", "empty", "failed", "other"}
NoMatch == [kind |-> "none"]
NoSlice == <<>>
NoFallback == [from_failed_line |-> FALSE, from_stderr |-> FALSE]

VARIABLES
  in_notes, notes_buf, current_phase, emitted_known_error, fallback_error,
  last_stderr,  \* the fields of RuleInterpreter; "none" for None
  reply         \* what the call returns

phaseState == current_phase
errorState == <<emitted_known_error, fallback_error>>
notesState == <<in_notes, notes_buf>>
ruleVars == <<notesState, phaseState, errorState, last_stderr>>

InitRules ==
  /\ in_notes = FALSE /\ notes_buf = <<>>
  /\ current_phase = "none"
  /\ emitted_known_error = FALSE /\ fallback_error = "none"
  /\ last_stderr = "none"

Ev(kind, arg) == [kind |-> kind, arg |-> arg]
Return(events) == reply' = events

\* Progress::fraction(clamped), as a list of no or one event
Boundary(phase, end) ==
  IF Slice[phase] = NoSlice THEN <<>>
  ELSE <<Ev("Progress", Slice[phase][end])>>

\* the events that close the open phase, if there is one
LeavePhase ==
  IF current_phase = "none" THEN <<>>
  ELSE <<Ev("ExitPhase", "none")>> \o Boundary(current_phase, 2)

\* flush_notes: the collected lines become one finding.
FlushedNotes ==
  IF notes_buf = <<>> THEN <<>> ELSE <<Ev("Finding", notes_buf)>>

-----------------------------------------------------------------------------
(* on_line: the notes block.                                               *)

\* Mutant: the block stays open at its blank line, only the buffer is cut.
EndNotesOpen(line) ==
  /\ in_notes
  /\ Shape[line.text] \in {"blank", "empty"}
  /\ Return(<<>>) /\ notes_buf' = <<>> /\ in_notes' = FALSE
  /\ UNCHANGED <<phaseState, errorState, last_stderr>>

EndNotes(line) ==
  /\ in_notes
  /\ Shape[line.text] \in {"blank", "empty"}
  /\ Return(FlushedNotes) /\ notes_buf' = <<>> /\ in_notes' = FALSE
  /\ UNCHANGED <<phaseState, errorState, last_stderr>>

SkipSeparator(line) ==
  /\ in_notes
  /\ Shape[line.text] = "separator"
  /\ Return(<<>>)
  /\ UNCHANGED ruleVars

Collect(line) ==
  /\ in_notes
  /\ Shape[line.text] \notin {"separator", "blank", "empty"}
  /\ notes_buf' = Append(notes_buf, line.text)
  /\ Return(<<>>)
  /\ UNCHANGED <<in_notes, phaseState, errorState, last_stderr>>

IsTrigger(line) == Notes /\ Shape[line.text] = "trigger"

StartNotes(line) ==
  /\ ~in_notes
  /\ IsTrigger(line)
  /\ in_notes' = TRUE
  /\ Return(<<>>)
  /\ UNCHANGED <<notes_buf, phaseState, errorState, last_stderr>>

-----------------------------------------------------------------------------
(* on_line: everything else.                                               *)

SkipEmpty(line) ==
  /\ ~in_notes
  /\ Shape[line.text] = "empty"
  /\ Return(<<>>)
  /\ UNCHANGED ruleVars

\* A line that reaches the rules, matching one of the given kind.
Classify(line, kind) ==
  /\ ~in_notes
  /\ ~IsTrigger(line)
  /\ Shape[line.text] # "empty"
  /\ Match[line.text].kind = kind
  /\ last_stderr' = IF line.stream = "stderr" THEN line.text ELSE last_stderr
  /\ UNCHANGED notesState

Benign(line) ==
  /\ Classify(line, "Benign")
  /\ Return(<<>>)
  /\ UNCHANGED <<phaseState, errorState>>

\* Warning, Summary and indeterminate Progress carry the line's captures.
Report(line) ==
  /\ \E kind \in {"Warning", "Summary", "Progress"} :
       /\ Classify(line, kind)
       /\ Return(<<Ev(kind, Match[line.text].arg)>>)
  /\ UNCHANGED <<phaseState, errorState>>

\* Mutant: the previous phase is not closed.
NestPhase(line) ==
  LET phase == Match[line.text].arg IN
  /\ Classify(line, "EnterPhase")
  /\ current_phase' = phase
  /\ Return(<<Ev("EnterPhase", phase)>> \o Boundary(phase, 1))
  /\ UNCHANGED errorState

StartPhase(line) ==
  LET phase == Match[line.text].arg IN
  /\ Classify(line, "EnterPhase")
  /\ current_phase' = phase
  /\ Return(LeavePhase \o <<Ev("EnterPhase", phase)>> \o Boundary(phase, 1))
  /\ UNCHANGED errorState

ClassifyError(line) ==
  /\ Classify(line, "KnownError")
  /\ emitted_known_error' = TRUE
  /\ fallback_error' = "none"
  /\ Return(<<Ev("KnownError", Match[line.text].arg)>>)
  /\ UNCHANGED phaseState

Clamp01(v) == IF v < 0 THEN 0 ELSE IF v > 100 THEN 100 ELSE v

\* Mutant: the ratio is not scaled into the phase's slice.
Unscaled(ratio) == ratio

\* where a byte ratio lands on the bar
Scaled(ratio) ==
  IF current_phase = "none" \/ Slice[current_phase] = NoSlice THEN ratio
  ELSE LET start == Slice[current_phase][1]
           end == Slice[current_phase][2]
       IN  start + (ratio * (end - start)) \div 100

\* total > 0; other captures, and those that do not parse, give no event.
ByteProgress(line) ==
  LET bytes == Match[line.text].arg IN
  /\ Classify(line, "ByteProgressMb")
  /\ Return(IF bytes.total <= 0 THEN <<>>
            ELSE <<Ev("Progress",
                      Scaled(Clamp01((bytes.done * 100) \div bytes.total)))>>)
  /\ UNCHANGED <<phaseState, errorState>>

\* No rule matches: the first "failed" text is kept for on_exit.
Unclassified(line) ==
  /\ Classify(line, "none")
  /\ fallback_error' =
       IF /\ Fallback.from_failed_line
          /\ fallback_error = "none"
          /\ Shape[line.text] = "failed"
       THEN line.text ELSE fallback_error
  /\ Return(<<>>)
  /\ UNCHANGED <<phaseState, emitted_known_error>>

OnLine(line) ==
  \/ EndNotes(line) \/ SkipSeparator(line) \/ Collect(line)
  \/ StartNotes(line) \/ SkipEmpty(line)
  \/ Benign(line) \/ Report(line) \/ StartPhase(line) \/ ClassifyError(line)
  \/ ByteProgress(line) \/ Unclassified(line)

-----------------------------------------------------------------------------
\* Mutant: the stderr line is preferred to the one that says "failed".
StderrFirst(success) ==
  IF success \/ emitted_known_error THEN "none"
  ELSE IF Fallback.from_stderr /\ last_stderr # "none" THEN last_stderr
  ELSE fallback_error

\* the message of the synthesized error, "none" for none
Synthesized(success) ==
  IF success \/ emitted_known_error THEN "none"
  ELSE IF fallback_error # "none" THEN fallback_error
  ELSE IF Fallback.from_stderr THEN last_stderr ELSE "none"

\* Each source of the fallback that is asked is emptied.
TakeFallback(success) ==
  LET asked == ~success /\ ~emitted_known_error
      failed == IF Fallback.from_failed_line THEN fallback_error ELSE "none"
  IN  /\ fallback_error' = IF asked /\ failed # "none" THEN "none"
                           ELSE fallback_error
      /\ last_stderr' = IF asked /\ failed = "none" /\ Fallback.from_stderr
                        THEN "none" ELSE last_stderr

OnExit(success) ==
  LET message == Synthesized(success) IN
  /\ Return(FlushedNotes \o LeavePhase
              \o IF message = "none" THEN <<>>
                 ELSE <<Ev("KnownError", message)>>)
  /\ in_notes' = FALSE /\ notes_buf' = <<>>
  /\ current_phase' = "none"
  /\ TakeFallback(success)
  /\ UNCHANGED emitted_known_error
=============================================================================
