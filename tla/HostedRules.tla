------------------------------ MODULE HostedRules ------------------------------
(***************************************************************************)
(* A job whose interpreter is a RuleInterpreter: the driver's hosting code *)
(* and the table-driven interpreter together.  The batch the driver        *)
(* applies is what the interpreter returned.                               *)
(***************************************************************************)
EXTENDS InterpreterHost

CONSTANTS
  Lines,     \* what the program may write: a text and a stream each
  Shape, Match, Slice, Notes, Fallback   \* see RuleInterpreter

VARIABLES
  heard,     \* the lines given to on_line, in order
  in_notes, notes_buf, current_phase, emitted_known_error, fallback_error,
  last_stderr

R == INSTANCE RuleInterpreter WITH reply <- batch

ASSUME RuleAssumption ==
  /\ Shape \in [Texts -> R!Shapes]
  /\ DOMAIN Match = Texts
  /\ Lines \subseteq [text : Texts, stream : {"stdout", "stderr"}]
  /\ Notes \in BOOLEAN
  /\ Fallback \in [from_failed_line : BOOLEAN, from_stderr : BOOLEAN]
  /\ \A p \in DOMAIN Slice : Slice[p] # R!NoSlice =>
       Slice[p] \in (0..100) \X (0..100) /\ Slice[p][1] <= Slice[p][2]
  /\ \A t \in Texts :
       /\ Match[t].kind \in {"EnterPhase", "Warning", "Summary", "KnownError"}
            => Match[t].arg \in Texts
       /\ Match[t].kind = "EnterPhase" => Match[t].arg \in DOMAIN Slice \ {"none"}
       /\ Match[t].kind = "Progress" => Match[t].arg = NoBar
       /\ Match[t].kind = "ByteProgressMb"
            => Match[t].arg \in [done : Int, total : Int]
  /\ NaN \notin Int

ruleVars == <<in_notes, notes_buf, current_phase, emitted_known_error,
              fallback_error, last_stderr>>

InitHosted == Init /\ ~disabled /\ heard = <<>> /\ R!InitRules

\* process_line calls on_line with the line just broadcast.
CallOnLine(line) ==
  /\ ~drained
  /\ R!OnLine(line)
  /\ CallReturns(batch')
  /\ heard' = Append(heard, line)

\* run_on_exit
CallOnExit ==
  /\ drained
  /\ R!OnExit(exit = "zero")
  /\ CallReturns(batch')
  /\ UNCHANGED heard

ByHost == (HostStep \/ Judged) /\ UNCHANGED <<heard, ruleVars>>

NextHosted == ByHost \/ (\E line \in Lines : CallOnLine(line)) \/ CallOnExit

hostedVars == <<hostVars, heard, ruleVars>>
HostedSpec == InitHosted /\ [][NextHosted]_hostedVars

-----------------------------------------------------------------------------
(* Properties.  They speak of the lines heard, not of the interpreter's    *)
(* own state, so that they say again, independently, what it computes.     *)

\* Is line i part of a notes block, its end included?
InBlock(i) ==
  Notes /\ \E t \in 1..(i - 1) :
             /\ Shape[heard[t].text] = "trigger"
             /\ \A k \in (t + 1)..(i - 1) :
                  Shape[heard[k].text] \notin {"blank", "empty"}

\* the triggers, and the lines each of them collects
Openers == {t \in DOMAIN heard : /\ Notes /\ Shape[heard[t].text] = "trigger"
                                 /\ ~InBlock(t)}
Kept(t) == {i \in DOMAIN heard :
              /\ i > t /\ Shape[heard[i].text] # "separator"
              /\ \A k \in (t + 1)..i :
                   Shape[heard[k].text] \notin {"blank", "empty"}}
Blocks == {t \in Openers : Kept(t) # {}}

\* No line of a notes block is lost, duplicated or moved to another block,
\* whatever ends it: once the outcome is settled there is one finding for each
\* block that kept a line, in order, and it holds exactly the lines kept.
NotesAreWhole ==
  outcome # NoOutcome =>
    \E at \in InOrder(findings, Blocks) :
      \A n \in DOMAIN findings : Listed(findings[n], Kept(at[n]), heard)

Outside(i) == ~InBlock(i) /\ Shape[heard[i].text] # "empty"
                          /\ ~R!IsTrigger(heard[i])
RuleErrors == {i \in DOMAIN heard :
                 Outside(i) /\ Match[heard[i].text].kind = "KnownError"}
Unmatched == {i \in DOMAIN heard :
                /\ Outside(i) /\ Match[heard[i].text].kind = "none"
                /\ Shape[heard[i].text] = "failed"}
OnStderr == {i \in DOMAIN heard : Outside(i) /\ heard[i].stream = "stderr"}

\* the first and the last of a set of lines
First(S) == heard[CHOOSE i \in S : \A k \in S : i <= k].text
Final(S) == heard[CHOOSE i \in S : \A k \in S : i >= k].text

\* The classification of a failed job is the last rule error; without one, the
\* first "failed" text no rule matched, else the last stderr line.  A rule
\* error suppresses the fallback.
FailureIsExplained ==
  outcome.kind = "Failed" /\ outcome.reason # "Timeout" =>
    outcome.known =
      IF RuleErrors # {} THEN Match[Final(RuleErrors)].arg
      ELSE IF Fallback.from_failed_line /\ Unmatched # {} THEN First(Unmatched)
      ELSE IF Fallback.from_stderr /\ OnStderr # {} THEN Final(OnStderr)
      ELSE "none"

\* Interpreter and host agree on the open phase whenever neither is working,
\* phases never nest, and the host never finds a pop or an update to reject.
PhasesAreFlat ==
  /\ Len(stack) <= 1
  /\ hpc \in {"read", "call", "judge"}
       => (stack = <<>> <=> current_phase = "none")
  /\ \A i \in DOMAIN bus : bus[i].kind # "InterpreterError"

\* the phase open at position i of the bus, by name, "none" for none
PhaseAt(i) == IF Open(bus, i) = {} THEN "none"
              ELSE Latest(SubSeq(bus, 1, i - 1), "PhaseEntered", "none")

\* While a phase with a slice is open the bar stays in it: byte progress
\* never leaves the slice of the phase it belongs to.
BarStaysInSlice ==
  \A i \in DOMAIN bus :
    (/\ bus[i].kind = "ProgressUpdated"
     /\ bus[i].text # NoBar
     /\ PhaseAt(i) # "none" /\ Slice[PhaseAt(i)] # R!NoSlice)
    => bus[i].text \in Slice[PhaseAt(i)][1]..Slice[PhaseAt(i)][2]
=============================================================================
