--------------------------- MODULE InterpreterHost ---------------------------
(***************************************************************************)
(* The part of a job's driver that hosts its interpreter (driver.rs 235 to *)
(* 578): it feeds lines to an interpreter that may return anything, or     *)
(* panic, and turns what it returns into the job's phases, progress,       *)
(* findings and errors: on the event bus, in the snapshot other threads    *)
(* read, and in the outcome.                                               *)
(*                                                                         *)
(* A step ends where another thread can see the difference: a snapshot     *)
(* updated, an event broadcast.                                            *)
(***************************************************************************)
EXTENDS Integers, Sequences

CONSTANTS
  Replies,   \* what a call of the interpreter may return
  Texts,     \* labels, codes and summaries
  Bodies,    \* what a finding says
  MaxLines,  \* bound: lines the program writes
  ExitCodes, \* how the program may end
  NaN,       \* a fraction that is not a number
  NoBar      \* a Progress that is no fraction: normalize leaves it alone

\* Fractions are in hundredths; an interpreter may give one out of range.
Fractions == Int \cup {NaN}
Normalized == 0..100 \cup {NoBar}

TextKinds == {"EnterPhase", "UpdatePhase", "Label", "Warning", "KnownError",
              "Prompt", "Summary"}
InterpreterEvents ==
  [kind : TextKinds, arg : Texts] \cup [kind : {"ExitPhase"}, arg : {"none"}]
    \cup [kind : {"Progress"}, arg : Fractions \cup {NoBar}]
    \cup [kind : {"Finding"}, arg : Bodies]

ASSUME HostAssumption ==
  /\ Replies \subseteq Seq(InterpreterEvents)
  /\ MaxLines \in Nat
  /\ ExitCodes \subseteq {"zero", "code", "signal"}
  /\ "none" \notin Texts

VARIABLES
  hpc,        \* where the driver is
  lines,      \* lines processed
  batch,      \* events returned by the interpreter and not yet applied
  out,        \* the event to broadcast next
  bus,        \* the events broadcast
  stack,      \* DriverState::phase_stack
  fresh,      \* the next PhaseId
  findings,   \* DriverState::findings
  summary,    \* DriverState::summary
  knownError, \* DriverState::known_error
  disabled,   \* DriverState::interp_disabled, or the job has no interpreter
  current,    \* Job::current_phase in the snapshot
  progress,   \* Job::progress in the snapshot
  label,      \* Job::label in the snapshot
  exit,       \* exit code of the process, "none" until the driver has it
  drained,    \* has the read loop ended: the exit code and both EOFs are in
  outcome     \* Job::outcome

driverVars == <<findings, summary, knownError>>
jobVars == <<progress, label>>
phaseVars == <<stack, fresh, current>>
endVars == <<exit, drained, outcome>>
hostVars == <<hpc, lines, batch, out, bus, driverVars, jobVars, phaseVars,
              disabled, endVars>>

NoPhase == 0
Event(kind, phase, text) == [kind |-> kind, phase |-> phase, text |-> text]
NoEvent == Event("none", NoPhase, "none")
BusKinds == {"OutputAppended", "PhaseEntered", "PhaseUpdated", "PhaseExited",
             "ProgressUpdated", "LabelUpdated", "WarningDetected",
             "KnownErrorDetected", "FindingEmitted", "PromptDetected",
             "InterpreterError", "Exited"}
BusTexts(kind) == CASE kind = "ProgressUpdated" -> Normalized
                    [] kind = "FindingEmitted" -> Bodies
                    [] OTHER -> Texts \cup {"none", "mismatch", "panic"}
IsEvent(e) == /\ e.kind \in BusKinds /\ e.phase \in Nat
              /\ e.text \in BusTexts(e.kind)

NoOutcome == [kind |-> "none", reason |-> "none", known |-> "none",
              summary |-> "none", findings |-> <<>>]
Results == [kind : {"none", "Cancelled", "Failed", "Succeeded"},
            reason : {"none", "Timeout", "KnownError", "Signal", "NonZeroExit"},
            known : Texts \cup {"none"}, summary : Texts \cup {"none"},
            findings : Seq(Bodies)]

TypeOK ==
  /\ hpc \in {"read", "call", "apply", "emit", "close", "judge", "done"}
  /\ lines \in 0..MaxLines
  /\ batch \in Seq(InterpreterEvents)
  /\ IF hpc = "emit" THEN IsEvent(out) ELSE out.kind = "none"
  /\ \A i \in DOMAIN bus : IsEvent(bus[i])
  /\ stack \in Seq(Nat) /\ fresh \in Nat /\ current \in Nat
  /\ findings \in Seq(Bodies)
  /\ {summary, knownError, label} \subseteq Texts \cup {"none"}
  /\ progress \in Normalized
  /\ disabled \in BOOLEAN
  /\ exit \in ExitCodes \cup {"none"}
  /\ drained => exit # "none"
  /\ outcome \in Results

Init ==
  /\ hpc = "read" /\ lines = 0
  /\ batch = <<>> /\ out = NoEvent /\ bus = <<>>
  /\ stack = <<>> /\ fresh = 1 /\ current = NoPhase
  /\ findings = <<>> /\ summary = "none" /\ knownError = "none"
  /\ disabled \in BOOLEAN
  /\ progress = NoBar /\ label = "none"
  /\ exit = "none" /\ drained = FALSE /\ outcome = NoOutcome

-----------------------------------------------------------------------------
Last(s) == s[Len(s)]
Pop(s) == SubSeq(s, 1, Len(s) - 1)
Top(s) == IF s = <<>> THEN NoPhase ELSE Last(s)

\* process_line: the line is broadcast, then the interpreter is asked.
ProcessLine ==
  /\ hpc = "read"
  /\ lines < MaxLines
  /\ lines' = lines + 1
  /\ bus' = Append(bus, Event("OutputAppended", NoPhase, "none"))
  /\ hpc' = IF disabled THEN "read" ELSE "call"
  /\ UNCHANGED <<batch, out, driverVars, jobVars, phaseVars, disabled, endVars>>

\* The wait task's oneshot: lines may follow it.
ProcessExits ==
  /\ hpc = "read" /\ exit = "none"
  /\ exit' \in ExitCodes
  /\ bus' = Append(bus, Event("Exited", NoPhase, "none"))
  /\ UNCHANGED <<hpc, lines, batch, out, driverVars, jobVars, phaseVars,
                 disabled, drained, outcome>>

\* Mutant: a job without a working interpreter goes straight to its outcome.
FinishUnclosed ==
  /\ hpc = "read" /\ exit # "none"
  /\ drained' = TRUE
  /\ hpc' = IF disabled THEN "judge" ELSE "call"
  /\ UNCHANGED <<lines, batch, out, bus, driverVars, jobVars, phaseVars,
                 disabled, exit, outcome>>

\* Both pipes are at EOF too: run_on_exit is next.
FinishReading ==
  /\ hpc = "read" /\ exit # "none"
  /\ drained' = TRUE
  /\ hpc' = IF disabled THEN "close" ELSE "call"
  /\ UNCHANGED <<lines, batch, out, bus, driverVars, jobVars, phaseVars,
                 disabled, exit, outcome>>

\* on_line or on_exit returns.
CallReturns(reply) ==
  /\ hpc = "call"
  /\ batch' = reply
  /\ hpc' = "apply"
  /\ UNCHANGED <<lines, out, bus, driverVars, jobVars, phaseVars, disabled,
                 endVars>>

\* Mutant: the interpreter is asked again after a panic.
CallPanicsAgain ==
  /\ hpc = "call"
  /\ out' = Event("InterpreterError", NoPhase, "panic")
  /\ hpc' = "emit"
  /\ UNCHANGED <<lines, batch, bus, driverVars, jobVars, phaseVars, disabled,
                 endVars>>

\* catch_unwind catches a panic: the interpreter is never called again.
CallPanics ==
  /\ hpc = "call"
  /\ disabled' = TRUE
  /\ out' = Event("InterpreterError", NoPhase, "panic")
  /\ hpc' = "emit"
  /\ UNCHANGED <<lines, batch, bus, driverVars, jobVars, phaseVars, endVars>>

\* the second half of every arm: emit
Emit ==
  /\ hpc = "emit"
  /\ bus' = Append(bus, out)
  /\ out' = NoEvent
  /\ hpc' = "apply"
  /\ UNCHANGED <<lines, batch, driverVars, jobVars, phaseVars, disabled,
                 endVars>>

\* The whole batch is applied.
Applied ==
  /\ hpc = "apply" /\ batch = <<>>
  /\ hpc' = IF drained THEN "close" ELSE "read"
  /\ UNCHANGED <<lines, batch, out, bus, driverVars, jobVars, phaseVars,
                 disabled, endVars>>

-----------------------------------------------------------------------------
(* apply_events: what each event changes before it is emitted.             *)

Take(kind) ==
  /\ hpc = "apply" /\ batch # <<>>
  /\ Head(batch).kind = kind
  /\ batch' = Tail(batch)
  /\ UNCHANGED <<lines, bus, disabled, endVars>>

Say(kind, phase, text) == hpc' = "emit" /\ out' = Event(kind, phase, text)

Mismatch == Say("InterpreterError", NoPhase, "mismatch")

EnterPhase ==
  /\ Take("EnterPhase")
  /\ stack' = Append(stack, fresh)
  /\ current' = fresh
  /\ fresh' = fresh + 1
  /\ Say("PhaseEntered", fresh, Head(batch).arg)
  /\ UNCHANGED <<driverVars, jobVars>>

UpdatePhase ==
  /\ Take("UpdatePhase")
  /\ IF stack = <<>> THEN Mismatch
                     ELSE Say("PhaseUpdated", Top(stack), Head(batch).arg)
  /\ UNCHANGED <<driverVars, jobVars, phaseVars>>

\* Mutant: the snapshot goes back to no phase instead of the enclosing one.
ExitToNone ==
  /\ Take("ExitPhase")
  /\ IF stack = <<>>
     THEN Mismatch /\ UNCHANGED <<stack, current>>
     ELSE /\ stack' = Pop(stack)
          /\ current' = NoPhase
          /\ Say("PhaseExited", Top(stack), "none")
  /\ UNCHANGED <<fresh, driverVars, jobVars>>

ExitPhase ==
  /\ Take("ExitPhase")
  /\ IF stack = <<>>
     THEN Mismatch /\ UNCHANGED <<stack, current>>
     ELSE /\ stack' = Pop(stack)
          /\ current' = Top(stack')
          /\ Say("PhaseExited", Top(stack), "none")
  /\ UNCHANGED <<fresh, driverVars, jobVars>>

\* f32::clamp, which keeps a NaN
Clamp(v) == CASE v = NaN -> NaN [] v < 0 -> 0 [] v > 100 -> 100 [] OTHER -> v

\* Mutant: NaN is not looked at.
ClampOnly(p) == IF p = NoBar THEN p ELSE Clamp(p)

\* Progress::normalize
Normalize(p) == IF p = NoBar THEN p ELSE IF p = NaN THEN 0 ELSE Clamp(p)

Progress ==
  /\ Take("Progress")
  /\ progress' = Normalize(Head(batch).arg)
  /\ Say("ProgressUpdated", NoPhase, progress')
  /\ UNCHANGED <<label, driverVars, phaseVars>>

Label ==
  /\ Take("Label")
  /\ label' = Head(batch).arg
  /\ Say("LabelUpdated", NoPhase, label')
  /\ UNCHANGED <<progress, driverVars, phaseVars>>

Warning ==
  /\ Take("Warning")
  /\ Say("WarningDetected", NoPhase, Head(batch).arg)
  /\ UNCHANGED <<driverVars, jobVars, phaseVars>>

Prompt ==
  /\ Take("Prompt")
  /\ Say("PromptDetected", NoPhase, Head(batch).arg)
  /\ UNCHANGED <<driverVars, jobVars, phaseVars>>

KnownError ==
  /\ Take("KnownError")
  /\ knownError' = Head(batch).arg
  /\ Say("KnownErrorDetected", NoPhase, Head(batch).arg)
  /\ UNCHANGED <<findings, summary, jobVars, phaseVars>>

Finding ==
  /\ Take("Finding")
  /\ findings' = Append(findings, Head(batch).arg)
  /\ Say("FindingEmitted", NoPhase, Head(batch).arg)
  /\ UNCHANGED <<summary, knownError, jobVars, phaseVars>>

\* The one event that is not broadcast.
Summary ==
  /\ Take("Summary")
  /\ summary' = Head(batch).arg
  /\ hpc' = hpc /\ out' = out
  /\ UNCHANGED <<findings, knownError, jobVars, phaseVars>>

ApplyEvent == \/ EnterPhase \/ UpdatePhase \/ ExitPhase \/ Progress \/ Label
              \/ Warning \/ Prompt \/ KnownError \/ Finding \/ Summary

-----------------------------------------------------------------------------
(* exit_open_phases and compute_outcome.                                   *)

CloseUnchanged == UNCHANGED <<lines, batch, out, fresh, driverVars, jobVars,
                              disabled, endVars>>

\* Mutant: the outermost phase is exited first.
CloseOutermost ==
  /\ hpc = "close" /\ stack # <<>>
  /\ stack' = Tail(stack)
  /\ bus' = Append(bus, Event("PhaseExited", Head(stack), "none"))
  /\ UNCHANGED <<hpc, current>> /\ CloseUnchanged

\* Every open phase is exited on the bus; the snapshot follows at the end.
CloseInnermost ==
  /\ hpc = "close" /\ stack # <<>>
  /\ stack' = Pop(stack)
  /\ bus' = Append(bus, Event("PhaseExited", Top(stack), "none"))
  /\ UNCHANGED <<hpc, current>> /\ CloseUnchanged

AllClosed ==
  /\ hpc = "close" /\ stack = <<>>
  /\ current' = NoPhase
  /\ hpc' = "judge"
  /\ UNCHANGED <<stack, bus>> /\ CloseUnchanged

Result(kind, reason, known) ==
  [kind |-> kind, reason |-> reason, known |-> known, summary |-> summary,
   findings |-> findings]

\* Mutant: the findings of a failed job are dropped.
BareFailure(wasCancelled, timedOut) ==
  IF exit = "zero" THEN Result("Succeeded", "none", "none")
  ELSE [Result("Failed", "NonZeroExit", "none") EXCEPT !.findings = <<>>]

ComputeOutcome(wasCancelled, timedOut) ==
  IF wasCancelled
  THEN [Result("Cancelled", "none", "none") EXCEPT !.summary = "none"]
  ELSE IF timedOut THEN Result("Failed", "Timeout", "none")
  ELSE IF exit = "zero" THEN Result("Succeeded", "none", "none")
  ELSE IF knownError # "none" THEN Result("Failed", "KnownError", knownError)
  ELSE Result("Failed", IF exit = "signal" THEN "Signal" ELSE "NonZeroExit",
              "none")

Judge ==
  /\ hpc = "judge"
  /\ \E wasCancelled, timedOut \in BOOLEAN :
       outcome' = ComputeOutcome(wasCancelled, timedOut)
  /\ hpc' = "done"
  /\ UNCHANGED <<lines, batch, out, bus, driverVars, jobVars, phaseVars,
                 disabled, exit, drained>>

Judged == hpc = "done" /\ UNCHANGED hostVars

-----------------------------------------------------------------------------
\* What the driver does by itself, whoever the interpreter is.
HostStep == \/ ProcessLine \/ ProcessExits \/ FinishReading
            \/ Emit \/ ApplyEvent \/ Applied
            \/ CloseInnermost \/ AllClosed \/ Judge

Next == \/ HostStep
        \/ \E reply \in Replies : CallReturns(reply)
        \/ CallPanics
        \/ Judged

Spec == Init /\ [][Next]_hostVars

-----------------------------------------------------------------------------
(* Properties.                                                             *)

\* the events of a stream s with a given kind, before position i
Before(s, i, kind) == {k \in DOMAIN s : k < i /\ s[k].kind = kind}

\* The phases entered in s before position i, those exited, those open.
Entered(s, i) == {s[k].phase : k \in Before(s, i, "PhaseEntered")}
Exited(s, i)  == {s[k].phase : k \in Before(s, i, "PhaseExited")}
Open(s, i) == Entered(s, i) \ Exited(s, i)

\* the phase entered last of those open (ids grow with time, as UUIDv7 do)
IsInnermost(p, s, i) == p \in Open(s, i) /\ \A q \in Open(s, i) : q <= p

Bracketed(s) == \A i \in DOMAIN s :
  /\ s[i].kind \in {"PhaseExited", "PhaseUpdated"}
       => IsInnermost(s[i].phase, s, i)
  /\ s[i].kind = "PhaseEntered" => \A p \in Entered(s, i) : p < s[i].phase

\* Whatever the interpreter returns, mismatched pops and updates included,
\* and whenever it panics, the phases a subscriber sees are well bracketed:
\* only the innermost open phase is updated or exited, and none twice.
PhaseBrackets == Bracketed(bus)

\* No phase is left open for a subscriber or in the snapshot once the outcome
\* is settled, on the paths that disabled the interpreter too.
NothingLeftOpen ==
  hpc \in {"judge", "done"} => /\ Open(bus, Len(bus) + 1) = {}
                               /\ current = NoPhase

\* what is on the bus and what is about to be
Announced == IF hpc = "emit" THEN Append(bus, out) ELSE bus

Latest(s, kind, default) ==
  LET at == Before(s, Len(s) + 1, kind)
  IN  IF at = {} THEN default
      ELSE s[CHOOSE k \in at : \A m \in at : m <= k].text

\* The snapshot a thread reads with `Runtime::job` runs at most one event
\* ahead of the stream and never behind it: its phase, progress and label are
\* those of the events broadcast, and the one being broadcast.  While
\* exit_open_phases runs the phase alone lags.
SnapshotIsCurrent ==
  LET s == Announced IN
  /\ progress = Latest(s, "ProgressUpdated", NoBar)
  /\ label = Latest(s, "LabelUpdated", "none")
  /\ hpc # "close" =>
       IF current = NoPhase THEN Open(s, Len(s) + 1) = {}
                            ELSE IsInnermost(current, s, Len(s) + 1)

\* The ways to take the members of a set of positions one by one, in order,
\* and each once, one for each element of a list.
InOrder(list, S) ==
  {at \in [DOMAIN list -> S] :
     /\ \A i \in S : \E n \in DOMAIN list : at[n] = i
     /\ \A n, m \in DOMAIN list : n < m => at[n] < at[m]}

\* The list holds the texts of s at the positions S and nothing else.
Listed(list, S, s) ==
  \E at \in InOrder(list, S) : \A n \in DOMAIN list : list[n] = s[at[n]].text

\* A consumer of events and a reader of the outcome are told the same: the
\* findings are those broadcast, in order, however the job ends; a failure
\* the interpreter classified carries the last known error broadcast; and
\* what it says never turns a failure into a success or back.
OutcomeAgreesWithEvents ==
  outcome # NoOutcome =>
    /\ Listed(outcome.findings, Before(bus, Len(bus) + 1, "FindingEmitted"), bus)
    /\ outcome.known # "none" =>
         outcome.known = Latest(bus, "KnownErrorDetected", "none")
    /\ outcome.reason \in {"Signal", "NonZeroExit"}
         => Latest(bus, "KnownErrorDetected", "none") = "none"
    /\ outcome.kind = "Succeeded" => exit = "zero"
    /\ outcome.reason \in {"KnownError", "Signal", "NonZeroExit"}
         => exit # "zero"

\* After a panic the program's output goes on, the interpreter's voice does
\* not: the host only closes the phases it had left open.
PanicSilences ==
  \A i, k \in DOMAIN bus :
    bus[i].kind = "InterpreterError" /\ bus[i].text = "panic" /\ i < k
      => bus[k].kind \in {"OutputAppended", "Exited", "PhaseExited"}
=============================================================================
