--------------------------- MODULE HostedRulesProofs ---------------------------
(***************************************************************************)
(* Proof that the rule interpreter and the driver agree on the open phase, *)
(* for every table of rules, every model of phases and every program.      *)
(*                                                                         *)
(* The argument: a reply moves from one phase to the next at most once,    *)
(* the exit before the entry, and the interpreter's own phase is the one   *)
(* the driver will have open when it has applied what is left of the       *)
(* reply.  So the driver's stack never grows beyond one phase, and it is   *)
(* never asked to leave a phase when it has none.                          *)
(***************************************************************************)
EXTENDS HostedRules, InterpreterHostProofs, TLAPS

IsSeq(s) == \E S : s \in Seq(S)

Moves == {"EnterPhase", "ExitPhase"}
Has(b, kind) == \E i \in DOMAIN b : b[i].kind = kind

\* Of the events of b at most one leaves and at most one, later, enters.
Tidy(b) ==
  /\ IsSeq(b)
  /\ \A i, k \in DOMAIN b :
       i < k /\ b[i].kind \in Moves /\ b[k].kind \in Moves
         => b[i].kind = "ExitPhase" /\ b[k].kind = "EnterPhase"
  /\ ~Has(b, "UpdatePhase")

Agree == stack = <<>> <=> current_phase = "none"

\* What is left of the reply leads from the stack to the interpreter's phase.
Leads ==
  /\ Tidy(batch)
  /\ Has(batch, "ExitPhase") => stack # <<>>
  /\ IF Has(batch, "EnterPhase")
     THEN current_phase # "none" /\ (~Has(batch, "ExitPhase") => stack = <<>>)
     ELSE IF Has(batch, "ExitPhase") THEN current_phase = "none" ELSE Agree

StackFlat == stack = <<>> \/ \E p : stack = <<p>>

Points == {"read", "call", "apply", "emit", "close", "judge", "done"}

FlatInv ==
  /\ hpc \in Points /\ ~disabled /\ StackFlat
  /\ IsSeq(bus)
  /\ \A i \in DOMAIN bus : bus[i].kind # "InterpreterError"
  /\ hpc = "emit" => out.kind # "InterpreterError"
  /\ hpc \in {"apply", "emit"} => Leads
  /\ hpc \in {"read", "call", "judge"} => Agree
  /\ hpc \in {"close", "judge"} \/ (drained /\ hpc \in {"apply", "emit"})
       => current_phase = "none"

-----------------------------------------------------------------------------
(* Sequences and replies.                                                  *)

LEMMA Widen ==
  ASSUME NEW S, NEW T, S \subseteq T, NEW s \in Seq(S) PROVE s \in Seq(T)
  OBVIOUS

LEMMA Appended ==
  ASSUME NEW s, IsSeq(s), NEW e
  PROVE  /\ IsSeq(Append(s, e))
         /\ \A i \in DOMAIN Append(s, e) :
              Append(s, e)[i] = e \/ (i \in DOMAIN s /\ Append(s, e)[i] = s[i])
<1>1. PICK S : s \in Seq(S)
  BY DEF IsSeq
<1> DEFINE T == S \cup {e}
<1>2. s \in Seq(T) /\ e \in T
  BY <1>1, Widen
<1> HIDE DEF T
<1>3. /\ Append(s, e) \in Seq(T)
      /\ \A i \in DOMAIN Append(s, e) :
           Append(s, e)[i] = e \/ (i \in DOMAIN s /\ Append(s, e)[i] = s[i])
  BY <1>2
<1> QED BY <1>3 DEF IsSeq

LEMMA Joined ==
  ASSUME NEW a, NEW b, Tidy(a), Tidy(b),
         Has(a, "ExitPhase") => ~Has(b, "ExitPhase"),
         Has(a, "EnterPhase") => ~Has(b, "ExitPhase") /\ ~Has(b, "EnterPhase")
  PROVE  /\ Tidy(a \o b)
         /\ \A kind : Has(a \o b, kind) <=> Has(a, kind) \/ Has(b, kind)
<1>1. PICK S, T : a \in Seq(S) /\ b \in Seq(T)
  BY DEF Tidy, IsSeq
<1> DEFINE U == S \cup T
           c == a \o b
           n == Len(a)
           m == Len(b)
<1>2. a \in Seq(U) /\ b \in Seq(U)
  BY <1>1, Widen
<1> HIDE DEF U
<1>3. /\ c \in Seq(U) /\ n \in Nat /\ m \in Nat
      /\ DOMAIN a = 1..n /\ DOMAIN b = 1..m /\ DOMAIN c = 1..(n + m)
      /\ \A i \in 1..n : c[i] = a[i]
      /\ \A i \in (n + 1)..(n + m) : c[i] = b[i - n]
  BY <1>2
<1> HIDE DEF c, n, m
<1>4. ASSUME NEW kind PROVE Has(c, kind) <=> Has(a, kind) \/ Has(b, kind)
  <2>1. ASSUME NEW i \in DOMAIN a PROVE i \in DOMAIN c /\ c[i] = a[i]
    BY <1>3
  <2>2. ASSUME NEW i \in DOMAIN b PROVE i + n \in DOMAIN c /\ c[i + n] = b[i]
    BY <1>3
  <2>3. ASSUME NEW i \in DOMAIN c
        PROVE  \/ i \in DOMAIN a /\ c[i] = a[i]
               \/ i - n \in DOMAIN b /\ c[i] = b[i - n]
    BY <1>3
  <2> QED BY <2>1, <2>2, <2>3 DEF Has
<1>5. ASSUME NEW i \in DOMAIN c, NEW k \in DOMAIN c,
             i < k, c[i].kind \in Moves, c[k].kind \in Moves
      PROVE  c[i].kind = "ExitPhase" /\ c[k].kind = "EnterPhase"
  <2>1. CASE k <= n
    <3>1. i \in DOMAIN a /\ k \in DOMAIN a /\ c[i] = a[i] /\ c[k] = a[k]
      BY <1>3, <1>5, <2>1
    <3> QED BY <3>1, <1>5 DEF Tidy
  <2>2. CASE i > n
    <3>1. /\ i - n \in DOMAIN b /\ k - n \in DOMAIN b /\ i - n < k - n
          /\ c[i] = b[i - n] /\ c[k] = b[k - n]
      BY <1>3, <1>5, <2>2
    <3> QED BY <3>1, <1>5 DEF Tidy
  <2>3. CASE i <= n /\ n < k
    <3>1. /\ i \in DOMAIN a /\ k - n \in DOMAIN b
          /\ c[i] = a[i] /\ c[k] = b[k - n]
      BY <1>3, <1>5, <2>3
    <3>2. Has(a, c[i].kind) /\ Has(b, c[k].kind)
      BY <3>1 DEF Has
    <3> QED BY <3>2, <1>5 DEF Moves
  <2> QED BY <2>1, <2>2, <2>3, <1>3
<1>6. IsSeq(c)
  BY <1>3 DEF IsSeq
<1> QED BY <1>4, <1>5, <1>6 DEF Tidy, c

LEMMA Short ==
  /\ Tidy(<<>>) /\ \A kind : ~Has(<<>>, kind)
  /\ \A e : /\ e.kind # "UpdatePhase" => Tidy(<<e>>)
            /\ \A kind : Has(<<e>>, kind) <=> e.kind = kind
<1>1. IsSeq(<<>>)
  <2>1. <<>> \in Seq({})
    OBVIOUS
  <2> QED BY <2>1 DEF IsSeq
<1>2. ASSUME NEW e
      PROVE  IsSeq(<<e>>) /\ DOMAIN <<e>> = {1} /\ <<e>>[1] = e
  <2>1. <<e>> \in Seq({e})
    OBVIOUS
  <2>2. IsSeq(<<e>>)
    BY <2>1 DEF IsSeq
  <2>3. DOMAIN <<e>> = {1} /\ <<e>>[1] = e
    OBVIOUS
  <2> QED BY <2>2, <2>3
<1>3. DOMAIN <<>> = {}
  OBVIOUS
<1>4. Tidy(<<>>) /\ \A kind : ~Has(<<>>, kind)
  BY <1>1, <1>3 DEF Tidy, Has
<1>5. ASSUME NEW e
      PROVE  /\ e.kind # "UpdatePhase" => Tidy(<<e>>)
             /\ \A kind : Has(<<e>>, kind) <=> e.kind = kind
  <2>1. \A kind : Has(<<e>>, kind) <=> e.kind = kind
    BY <1>2 DEF Has
  <2>2. \A i, k \in DOMAIN <<e>> : ~(i < k)
    BY <1>2
  <2> QED BY <1>2, <2>1, <2>2 DEF Tidy
<1> QED BY <1>4, <1>5

\* What is left of a tidy reply after its first event.
LEMMA Taken ==
  ASSUME NEW b, Tidy(b), b # <<>>
  PROVE  /\ Tidy(Tail(b)) /\ Head(b).kind # "UpdatePhase"
         /\ \A kind : Has(b, kind) <=> Head(b).kind = kind \/ Has(Tail(b), kind)
         /\ Head(b).kind = "EnterPhase" =>
              ~Has(Tail(b), "EnterPhase") /\ ~Has(Tail(b), "ExitPhase")
         /\ Head(b).kind = "ExitPhase" => ~Has(Tail(b), "ExitPhase")
<1>1. PICK S : b \in Seq(S)
  BY DEF Tidy, IsSeq
<1> DEFINE t == Tail(b)
<1>2. /\ t \in Seq(S) /\ Len(b) \in Nat /\ Len(b) > 0
      /\ DOMAIN b = 1..Len(b) /\ DOMAIN t = 1..(Len(b) - 1)
      /\ \A i \in DOMAIN t : t[i] = b[i + 1]
      /\ Head(b) = b[1]
  BY <1>1
<1> HIDE DEF t
<1>3. /\ 1 \in DOMAIN b
      /\ \A i \in DOMAIN t : i + 1 \in DOMAIN b /\ 1 < i + 1
      /\ \A i, k \in DOMAIN t : i < k => i + 1 < k + 1
      /\ \A i \in DOMAIN b : i = 1 \/ (i - 1 \in DOMAIN t /\ b[i] = t[i - 1])
  BY <1>2
<1>4. \A kind : Has(b, kind) <=> Head(b).kind = kind \/ Has(t, kind)
  BY <1>2, <1>3 DEF Has
<1>5. Tidy(t)
  <2>1. IsSeq(t)
    BY <1>2 DEF IsSeq
  <2> QED BY <1>2, <1>3, <1>4, <2>1 DEF Tidy
<1>6. \A i \in DOMAIN t : Head(b).kind \in Moves /\ t[i].kind \in Moves
        => Head(b).kind = "ExitPhase" /\ t[i].kind = "EnterPhase"
  BY <1>2, <1>3 DEF Tidy
<1>7. Head(b).kind # "UpdatePhase"
  BY <1>4 DEF Tidy
<1> QED BY <1>4, <1>5, <1>6, <1>7 DEF Has, Moves, t

LEMMA OnePhase ==
  /\ \A p : Append(<<>>, p) = <<p>> /\ <<p>> # <<>>
  /\ \A p : Pop(<<p>>) = <<>>
<1>1. \A p : Append(<<>>, p) = <<p>> /\ <<p>> # <<>>
  OBVIOUS
<1>2. ASSUME NEW p PROVE Pop(<<p>>) = <<>>
  <2>1. <<p>> \in Seq({p}) /\ Len(<<p>>) = 1
    OBVIOUS
  <2>2. SubSeq(<<p>>, 1, 0) = <<>>
    BY <2>1
  <2> QED BY <2>1, <2>2 DEF Pop
<1> QED BY <1>1, <1>2

-----------------------------------------------------------------------------
(* What the interpreter returns.                                           *)

\* A reply of one event that moves nothing.
LEMMA StillReply ==
  ASSUME Agree, UNCHANGED <<stack, current_phase>>, NEW e,
         batch' = <<e>> \/ batch' = <<>>,
         e.kind \notin Moves \cup {"UpdatePhase"}
  PROVE  Leads'
<1>1. Tidy(batch') /\ ~Has(batch', "ExitPhase") /\ ~Has(batch', "EnterPhase")
  BY Short DEF Moves
<1> QED BY <1>1 DEF Leads, Agree

\* The events that close a phase, and those at its borders.
LEMMA PartsOfReply ==
  /\ \A p, end : /\ Tidy(R!Boundary(p, end))
                 /\ ~Has(R!Boundary(p, end), "ExitPhase")
                 /\ ~Has(R!Boundary(p, end), "EnterPhase")
  /\ Tidy(R!LeavePhase) /\ ~Has(R!LeavePhase, "EnterPhase")
  /\ Has(R!LeavePhase, "ExitPhase") <=> current_phase # "none"
  /\ Tidy(R!FlushedNotes) /\ ~Has(R!FlushedNotes, "ExitPhase")
  /\ ~Has(R!FlushedNotes, "EnterPhase")
<1>1. ASSUME NEW p, NEW end
      PROVE  /\ Tidy(R!Boundary(p, end))
             /\ ~Has(R!Boundary(p, end), "ExitPhase")
             /\ ~Has(R!Boundary(p, end), "EnterPhase")
  <2>1. R!Boundary(p, end) = <<>>
          \/ R!Boundary(p, end) = <<R!Ev("Progress", Slice[p][end])>>
    BY DEF R!Boundary
  <2>2. R!Ev("Progress", Slice[p][end]).kind = "Progress"
    BY DEF R!Ev
  <2> QED BY <2>1, <2>2, Short
<1>2. /\ Tidy(R!LeavePhase) /\ ~Has(R!LeavePhase, "EnterPhase")
      /\ Has(R!LeavePhase, "ExitPhase") <=> current_phase # "none"
  <2>1. CASE current_phase = "none"
    BY <2>1, Short DEF R!LeavePhase
  <2>2. CASE current_phase # "none"
    <3> DEFINE x == <<R!Ev("ExitPhase", "none")>>
               y == R!Boundary(current_phase, 2)
    <3>1. R!Ev("ExitPhase", "none").kind = "ExitPhase"
      BY DEF R!Ev
    <3>2. /\ Tidy(x) /\ Has(x, "ExitPhase") /\ ~Has(x, "EnterPhase")
      BY <3>1, Short
    <3>3. Tidy(y) /\ ~Has(y, "ExitPhase") /\ ~Has(y, "EnterPhase")
      BY <1>1
    <3>4. R!LeavePhase = x \o y
      BY <2>2 DEF R!LeavePhase
    <3> HIDE DEF x, y
    <3>5. /\ Tidy(x \o y)
          /\ \A kind : Has(x \o y, kind) <=> Has(x, kind) \/ Has(y, kind)
      BY <3>2, <3>3, Joined
    <3> QED BY <2>2, <3>2, <3>3, <3>4, <3>5
  <2> QED BY <2>1, <2>2
<1>3. /\ Tidy(R!FlushedNotes) /\ ~Has(R!FlushedNotes, "ExitPhase")
      /\ ~Has(R!FlushedNotes, "EnterPhase")
  <2>1. R!FlushedNotes = <<>> \/ R!FlushedNotes = <<R!Ev("Finding", notes_buf)>>
    BY DEF R!FlushedNotes
  <2>2. R!Ev("Finding", notes_buf).kind = "Finding"
    BY DEF R!Ev
  <2> QED BY <2>1, <2>2, Short
<1> QED BY <1>1, <1>2, <1>3

LEMMA LineReply ==
  ASSUME RuleAssumption, Agree, UNCHANGED stack, NEW line \in Lines, R!OnLine(line)
  PROVE  Leads'
<1>1. CASE R!StartPhase(line)
  <2> DEFINE phase == Match[line.text].arg
             e == R!Ev("EnterPhase", phase)
             x == R!LeavePhase
             z == R!Boundary(phase, 1)
  <2>1. /\ current_phase' = phase
        /\ batch' = x \o <<e>> \o z
        /\ Match[line.text].kind = "EnterPhase"
    BY <1>1 DEF R!StartPhase, R!Return, R!Classify
  <2>2. phase # "none"
    BY <2>1, RuleAssumption DEF RuleAssumption
  <2>3. e.kind = "EnterPhase"
    BY DEF R!Ev
  <2>4. /\ Tidy(<<e>>) /\ Has(<<e>>, "EnterPhase") /\ ~Has(<<e>>, "ExitPhase")
    BY <2>3, Short
  <2>5. /\ Tidy(x) /\ ~Has(x, "EnterPhase")
        /\ Has(x, "ExitPhase") <=> current_phase # "none"
        /\ Tidy(z) /\ ~Has(z, "EnterPhase") /\ ~Has(z, "ExitPhase")
    BY PartsOfReply
  <2> HIDE DEF phase, e, x, z
  <2>6. /\ Tidy(x \o <<e>>)
        /\ \A kind : Has(x \o <<e>>, kind) <=> Has(x, kind) \/ Has(<<e>>, kind)
    BY <2>4, <2>5, Joined
  <2>7. /\ Tidy(x \o <<e>> \o z)
        /\ \A kind : Has(x \o <<e>> \o z, kind)
                       <=> Has(x \o <<e>>, kind) \/ Has(z, kind)
    BY <2>5, <2>6, Joined
  <2>8. /\ Tidy(batch') /\ Has(batch', "EnterPhase")
        /\ Has(batch', "ExitPhase") <=> current_phase # "none"
    BY <2>1, <2>4, <2>5, <2>6, <2>7
  <2> QED BY <2>1, <2>2, <2>8 DEF Leads, Agree
<1>2. CASE R!EndNotes(line)
  <2>1. R!Ev("Finding", notes_buf).kind = "Finding"
    BY DEF R!Ev
  <2>2. batch' = <<>> \/ batch' = <<R!Ev("Finding", notes_buf)>>
    BY <1>2 DEF R!EndNotes, R!Return, R!FlushedNotes
  <2>3. current_phase' = current_phase
    BY <1>2 DEF R!EndNotes, R!phaseState
  <2> QED BY <2>1, <2>2, <2>3, StillReply DEF Moves
<1>3. CASE R!ClassifyError(line)
  <2> DEFINE e == R!Ev("KnownError", Match[line.text].arg)
  <2>1. e.kind = "KnownError" /\ batch' = <<e>> /\ current_phase' = current_phase
    BY <1>3 DEF R!ClassifyError, R!Return, R!Ev, R!phaseState
  <2> QED BY <2>1, StillReply DEF Moves
<1>4. CASE R!Report(line)
  <2>1. PICK kind \in {"Warning", "Summary", "Progress"} :
          batch' = <<R!Ev(kind, Match[line.text].arg)>>
    BY <1>4 DEF R!Report, R!Return
  <2>2. R!Ev(kind, Match[line.text].arg).kind = kind
    BY DEF R!Ev
  <2>3. current_phase' = current_phase
    BY <1>4 DEF R!Report, R!phaseState
  <2> QED BY <2>1, <2>2, <2>3, StillReply DEF Moves
<1>5. CASE R!ByteProgress(line)
  <2>1. PICK v : batch' = <<>> \/ batch' = <<R!Ev("Progress", v)>>
    BY <1>5 DEF R!ByteProgress, R!Return
  <2>2. R!Ev("Progress", v).kind = "Progress"
    BY DEF R!Ev
  <2>3. current_phase' = current_phase
    BY <1>5 DEF R!ByteProgress, R!phaseState
  <2> QED BY <2>1, <2>2, <2>3, StillReply DEF Moves
<1>6. CASE \/ R!SkipSeparator(line) \/ R!Collect(line) \/ R!StartNotes(line)
           \/ R!SkipEmpty(line) \/ R!Benign(line) \/ R!Unclassified(line)
  <2>1. batch' = <<>> /\ current_phase' = current_phase
    BY <1>6 DEF R!SkipSeparator, R!Collect, R!StartNotes, R!SkipEmpty, R!Benign,
                R!Unclassified, R!Return, R!phaseState, R!ruleVars
  <2>2. Tidy(batch') /\ ~Has(batch', "ExitPhase") /\ ~Has(batch', "EnterPhase")
    BY <2>1, Short
  <2> QED BY <2>1, <2>2 DEF Leads, Agree
<1> QED BY <1>1, <1>2, <1>3, <1>4, <1>5, <1>6 DEF R!OnLine

LEMMA ExitReply ==
  ASSUME Agree, UNCHANGED stack, NEW success, R!OnExit(success)
  PROVE  Leads' /\ current_phase' = "none"
<1> DEFINE x == R!FlushedNotes
           y == R!LeavePhase
           e == R!Ev("KnownError", R!Synthesized(success))
           z == IF R!Synthesized(success) = "none" THEN <<>> ELSE <<e>>
<1>1. batch' = x \o y \o z /\ current_phase' = "none"
  BY DEF R!OnExit, R!Return
<1>2. Tidy(z) /\ ~Has(z, "ExitPhase") /\ ~Has(z, "EnterPhase")
  <2>1. e.kind = "KnownError"
    BY DEF R!Ev
  <2> HIDE DEF e
  <2> QED BY <2>1, Short
<1>3. /\ Tidy(x) /\ ~Has(x, "EnterPhase") /\ ~Has(x, "ExitPhase")
      /\ Tidy(y) /\ ~Has(y, "EnterPhase")
      /\ Has(y, "ExitPhase") <=> current_phase # "none"
  BY PartsOfReply
<1> HIDE DEF x, y, z
<1>4. /\ Tidy(x \o y)
      /\ \A kind : Has(x \o y, kind) <=> Has(x, kind) \/ Has(y, kind)
  BY <1>3, Joined
<1>5. /\ Tidy(x \o y \o z)
      /\ \A kind : Has(x \o y \o z, kind) <=> Has(x \o y, kind) \/ Has(z, kind)
  BY <1>2, <1>3, <1>4, Joined
<1>6. /\ Tidy(batch') /\ ~Has(batch', "EnterPhase")
      /\ Has(batch', "ExitPhase") <=> current_phase # "none"
  BY <1>1, <1>2, <1>3, <1>4, <1>5
<1> QED BY <1>1, <1>6 DEF Leads, Agree

-----------------------------------------------------------------------------
(* What the driver does with it.                                           *)

\* Broadcasting an event that is no error.
LEMMA BusKept ==
  ASSUME FlatInv, NEW e, e.kind # "InterpreterError", bus' = Append(bus, e)
  PROVE  IsSeq(bus') /\ \A i \in DOMAIN bus' : bus'[i].kind # "InterpreterError"
  BY Appended DEF FlatInv

LEMMA ApplyFlat ==
  ASSUME FlatInv, ApplyEvent, UNCHANGED ruleVars
  PROVE  FlatInv'
<1> DEFINE e == Head(batch)
<1>1. /\ hpc = "apply" /\ batch # <<>> /\ batch' = Tail(batch)
      /\ UNCHANGED <<bus, disabled, drained, current_phase>>
  BY DEF ApplyEvent, Take, EnterPhase, UpdatePhase, ExitPhase, Progress, Label,
         Warning, Prompt, KnownError, Finding, Summary, endVars, ruleVars
<1>2. /\ Tidy(batch') /\ e.kind # "UpdatePhase"
      /\ \A kind : Has(batch, kind) <=> e.kind = kind \/ Has(batch', kind)
      /\ e.kind = "EnterPhase" =>
           ~Has(batch', "EnterPhase") /\ ~Has(batch', "ExitPhase")
      /\ e.kind = "ExitPhase" => ~Has(batch', "ExitPhase")
  BY <1>1, Taken DEF FlatInv, Leads
<1>3. Leads /\ StackFlat
  BY <1>1 DEF FlatInv
<1> HIDE DEF e
<1>4. SUFFICES /\ StackFlat' /\ Leads' /\ hpc' \in {"apply", "emit"}
               /\ hpc' = "emit" => out'.kind # "InterpreterError"
  BY <1>1 DEF FlatInv, Points
<1>5. CASE EnterPhase
  <2>1. /\ e.kind = "EnterPhase" /\ stack' = Append(stack, fresh)
        /\ hpc' = "emit" /\ out'.kind = "PhaseEntered"
    BY <1>5 DEF EnterPhase, Take, Say, Event, e
  <2>2. stack = <<>>
    BY <1>2, <1>3, <2>1, Taken DEF Leads
  <2>3. stack' = <<fresh>> /\ stack' # <<>>
    BY <2>1, <2>2, OnePhase
  <2>4. current_phase' # "none"
    BY <1>1, <1>2, <1>3, <2>1 DEF Leads
  <2> QED BY <1>2, <2>1, <2>3, <2>4 DEF StackFlat, Leads, Agree
<1>6. CASE ExitPhase
  <2>1. e.kind = "ExitPhase"
    BY <1>6 DEF ExitPhase, Take, e
  <2>2. stack # <<>>
    BY <1>2, <1>3, <2>1 DEF Leads
  <2>3. stack' = Pop(stack) /\ hpc' = "emit" /\ out'.kind = "PhaseExited"
    BY <1>6, <2>2 DEF ExitPhase, Say, Event
  <2>4. stack' = <<>>
    BY <1>3, <2>2, <2>3, OnePhase DEF StackFlat
  <2>5. IF Has(batch', "EnterPhase") THEN current_phase' # "none"
                                     ELSE current_phase' = "none"
    BY <1>1, <1>2, <1>3, <2>1 DEF Leads
  <2> QED BY <1>2, <2>1, <2>3, <2>4, <2>5 DEF StackFlat, Leads, Agree
<1>7. CASE UpdatePhase
  BY <1>2, <1>7 DEF UpdatePhase, Take, e
<1>8. ASSUME UNCHANGED stack, e.kind \notin Moves
      PROVE  StackFlat' /\ Leads'
  <2>1. /\ Has(batch', "ExitPhase") <=> Has(batch, "ExitPhase")
        /\ Has(batch', "EnterPhase") <=> Has(batch, "EnterPhase")
    BY <1>2, <1>8 DEF Moves
  <2> QED BY <1>1, <1>2, <1>3, <1>8, <2>1 DEF StackFlat, Leads, Agree
<1>9. CASE Progress \/ Label \/ Warning \/ Prompt \/ KnownError \/ Finding
  <2>1. /\ UNCHANGED stack /\ e.kind \notin Moves
        /\ hpc' = "emit" /\ out'.kind # "InterpreterError"
    BY <1>9 DEF Progress, Label, Warning, Prompt, KnownError, Finding, Take, Say,
                Event, phaseVars, Moves, e
  <2> QED BY <1>8, <2>1
<1>10. CASE Summary
  <2>1. UNCHANGED stack /\ e.kind \notin Moves /\ hpc' = "apply"
    BY <1>1, <1>10 DEF Summary, Take, phaseVars, Moves, e
  <2> QED BY <1>8, <2>1
<1> QED BY <1>5, <1>6, <1>7, <1>9, <1>10 DEF ApplyEvent

LEMMA HostFlat ==
  ASSUME FlatInv, HostStep, UNCHANGED ruleVars
  PROVE  FlatInv'
<1>0. UNCHANGED current_phase
  BY DEF ruleVars
<1> USE DEF driverVars, jobVars, phaseVars, endVars
<1>1. CASE ProcessLine
  <2>1. Event("OutputAppended", NoPhase, "none").kind # "InterpreterError"
    BY DEF Event
  <2>2. IsSeq(bus') /\ \A i \in DOMAIN bus' : bus'[i].kind # "InterpreterError"
    BY <1>1, <2>1, BusKept DEF ProcessLine
  <2> QED BY <1>0, <1>1, <2>2 DEF ProcessLine, FlatInv, Points, StackFlat, Agree
<1>2. CASE ProcessExits
  <2>1. Event("Exited", NoPhase, "none").kind # "InterpreterError"
    BY DEF Event
  <2>2. IsSeq(bus') /\ \A i \in DOMAIN bus' : bus'[i].kind # "InterpreterError"
    BY <1>2, <2>1, BusKept DEF ProcessExits
  <2> QED BY <1>0, <1>2, <2>2 DEF ProcessExits, FlatInv, StackFlat, Agree
<1>3. CASE FinishReading
  BY <1>0, <1>3 DEF FinishReading, FlatInv, Points, StackFlat, Agree
<1>4. CASE Emit
  <2>1. IsSeq(bus') /\ \A i \in DOMAIN bus' : bus'[i].kind # "InterpreterError"
    BY <1>4, BusKept DEF Emit, FlatInv
  <2> QED BY <1>0, <1>4, <2>1 DEF Emit, FlatInv, Points, StackFlat, Leads, Agree
<1>5. CASE ApplyEvent
  BY <1>5, ApplyFlat
<1>6. CASE Applied
  <2>1. Leads /\ batch = <<>>
    BY <1>6 DEF Applied, FlatInv
  <2>2. Agree
    BY <2>1, Short DEF Leads
  <2> QED BY <1>0, <1>6, <2>2 DEF Applied, FlatInv, Points, StackFlat, Agree
<1>7. CASE CloseInnermost
  <2>1. Event("PhaseExited", Top(stack), "none").kind # "InterpreterError"
    BY DEF Event
  <2>2. IsSeq(bus') /\ \A i \in DOMAIN bus' : bus'[i].kind # "InterpreterError"
    BY <1>7, <2>1, BusKept DEF CloseInnermost
  <2>3. StackFlat'
    BY <1>7, OnePhase DEF CloseInnermost, FlatInv, StackFlat
  <2> QED BY <1>0, <1>7, <2>2, <2>3 DEF CloseInnermost, CloseUnchanged, FlatInv
<1>8. CASE AllClosed
  BY <1>0, <1>8 DEF AllClosed, CloseUnchanged, FlatInv, Points, StackFlat, Agree
<1>9. CASE Judge
  BY <1>0, <1>9 DEF Judge, FlatInv, Points, StackFlat, Agree
<1> QED BY <1>1, <1>2, <1>3, <1>4, <1>5, <1>6, <1>7, <1>8, <1>9 DEF HostStep

LEMMA CallFlat ==
  ASSUME FlatInv, CallReturns(batch'), Leads', drained => current_phase' = "none"
  PROVE  FlatInv'
  BY DEF CallReturns, FlatInv, Points, StackFlat, phaseVars, endVars

-----------------------------------------------------------------------------
(* The phase.                                                              *)

LEMMA FlatInit == InitHosted => FlatInv
<1> SUFFICES ASSUME InitHosted PROVE FlatInv
  OBVIOUS
<1>1. /\ hpc = "read" /\ ~disabled /\ stack = <<>> /\ bus = <<>>
      /\ current_phase = "none"
  BY DEF InitHosted, Init, R!InitRules
<1>2. IsSeq(bus) /\ DOMAIN bus = {}
  BY <1>1, Short DEF Tidy
<1> QED BY <1>1, <1>2 DEF FlatInv, Points, StackFlat, Agree

LEMMA FlatNext == FlatInv /\ [NextHosted]_hostedVars => FlatInv'
<1> SUFFICES ASSUME FlatInv, [NextHosted]_hostedVars PROVE FlatInv'
  OBVIOUS
<1>1. CASE HostStep /\ UNCHANGED <<heard, ruleVars>>
  BY <1>1, HostFlat
<1>2. CASE UNCHANGED <<hostVars, ruleVars>>
  BY <1>2 DEF hostVars, ruleVars, phaseVars, endVars, FlatInv, StackFlat, Leads,
              Agree
<1>3. ASSUME NEW line \in Lines, CallOnLine(line) PROVE FlatInv'
  <2>1. Agree /\ UNCHANGED stack /\ R!OnLine(line)
    BY <1>3 DEF CallOnLine, CallReturns, FlatInv, phaseVars
  <2>2. Leads'
    BY <2>1, LineReply, RuleAssumption
  <2> QED BY <1>3, <2>2, CallFlat DEF CallOnLine
<1>4. CASE CallOnExit
  <2>1. Agree /\ UNCHANGED stack /\ R!OnExit(exit = "zero")
    BY <1>4 DEF CallOnExit, CallReturns, FlatInv, phaseVars
  <2>2. Leads' /\ current_phase' = "none"
    BY <2>1, ExitReply
  <2> QED BY <1>4, <2>2, CallFlat DEF CallOnExit
<1> QED BY <1>1, <1>2, <1>3, <1>4 DEF NextHosted, ByHost, Judged, hostedVars

\* The driver's phase stack is the interpreter's phase (apply_events 414-477,
\* RuleInterpreter::on_line and on_exit): for every table of rules, phase
\* model, configuration and output there is at most one phase, and no pop is
\* rejected.
THEOREM FlatPhases == HostedSpec => []PhasesAreFlat
<1>1. FlatInv => PhasesAreFlat
  <2>1. ASSUME StackFlat PROVE Len(stack) <= 1
    <3>1. CASE stack = <<>>
      BY <3>1
    <3>2. ASSUME NEW p, stack = <<p>> PROVE Len(stack) <= 1
      BY <3>2
    <3> QED BY <2>1, <3>1, <3>2 DEF StackFlat
  <2> QED BY <2>1 DEF FlatInv, PhasesAreFlat, Agree
<1> QED BY <1>1, FlatInit, FlatNext, PTL DEF HostedSpec

-----------------------------------------------------------------------------
(* The bar.  It needs, besides, which phase the stream of events shows to  *)
(* be open, and for each progress event of a reply in which phase it will  *)
(* be applied.                                                             *)

\* The value v of the bar is one of phase p.
InSlice(p, v) ==
  v = NoBar \/ p = "none" \/ Slice[p] = R!NoSlice \/ v \in Slice[p][1]..Slice[p][2]

\* the phase entered last before position i of the stream s is p
NamedAt(s, i, p) == \E k \in DOMAIN s :
  /\ k < i /\ s[k].kind = "PhaseEntered" /\ s[k].text = p
  /\ \A m \in DOMAIN s : k < m /\ m < i => s[m].kind # "PhaseEntered"

Fits(s, i) ==
  s[i].kind = "ProgressUpdated" =>
    Open(s, i) = {} \/ \E p : NamedAt(s, i, p) /\ InSlice(p, s[i].text)

\* The stream s is fit, and shows no phase open but the one on the stack st.
Shown(s, st) ==
  /\ IsSeq(s)
  /\ \A i \in DOMAIN s : Fits(s, i)
  /\ \A q \in Open(s, Len(s) + 1) : st = <<q>>

\* If a phase is open it is p.
Current(s, st, p) == st # <<>> => NamedAt(s, Len(s) + 1, p)

\* Each progress event in what is left of a reply is one of the phase the
\* reply leads to, or will be applied while no phase is open.
Placed(b, st, p) == \A i \in DOMAIN b :
  /\ b[i].kind = "EnterPhase" => b[i].arg = p
  /\ b[i].kind = "Progress" =>
       \/ /\ InSlice(p, Normalize(b[i].arg))
          /\ \A k \in DOMAIN b : i <= k => b[k].kind \notin Moves
       \/ /\ st = <<>> \/ \E k \in DOMAIN b : k < i /\ b[k].kind = "ExitPhase"
          /\ \A k \in DOMAIN b : k < i => b[k].kind # "EnterPhase"

Settled == hpc \in {"apply", "emit"} => ~Has(batch, "ExitPhase")

SliceInv ==
  /\ current_phase \in DOMAIN Slice \cup {"none"}
  /\ Shown(Announced, stack)
  /\ Settled => Current(Announced, stack, current_phase)
  /\ hpc \in {"apply", "emit"} => Placed(batch, stack, current_phase)

LEMMA NextEvent ==
  ASSUME NEW s, IsSeq(s), NEW e, NEW t, t = Append(s, e)
  PROVE  /\ IsSeq(t) /\ Len(s) \in Nat /\ Len(t) = Len(s) + 1
         /\ DOMAIN s = 1..Len(s) /\ DOMAIN t = 1..(Len(s) + 1)
         /\ \A i \in 1..Len(s) : t[i] = s[i]
         /\ t[Len(s) + 1] = e
<1>1. PICK S : s \in Seq(S)
  BY DEF IsSeq
<1> DEFINE T == S \cup {e}
<1>2. s \in Seq(T) /\ e \in T
  BY <1>1, Widen
<1> HIDE DEF T
<1>3. /\ t \in Seq(T) /\ Len(s) \in Nat /\ Len(t) = Len(s) + 1
      /\ DOMAIN s = 1..Len(s) /\ DOMAIN t = 1..(Len(s) + 1)
      /\ \A i \in 1..Len(s) : t[i] = s[i]
      /\ t[Len(s) + 1] = e
  BY <1>2
<1> QED BY <1>3 DEF IsSeq

\* Appending an event changes nothing of what came before.
LEMMA PrefixSame ==
  ASSUME NEW s, IsSeq(s), NEW e, NEW t, t = Append(s, e)
  PROVE  /\ \A i \in 1..(Len(s) + 1) : Open(t, i) = Open(s, i)
         /\ \A i \in 1..(Len(s) + 1) : \A p : NamedAt(t, i, p) <=> NamedAt(s, i, p)
         /\ \A i \in 1..Len(s) : Fits(t, i) <=> Fits(s, i)
<1> DEFINE n == Len(s)
<1>1. /\ n \in Nat /\ DOMAIN s = 1..n /\ DOMAIN t = 1..(n + 1)
      /\ \A i \in 1..n : t[i] = s[i]
  BY NextEvent
<1> HIDE DEF n
<1>2. ASSUME NEW i \in 1..(n + 1) PROVE Open(t, i) = Open(s, i)
  <2>1. ASSUME NEW kind
        PROVE  /\ Before(t, i, kind) = Before(s, i, kind)
               /\ \A k \in Before(s, i, kind) : t[k] = s[k]
    BY <1>1 DEF Before
  <2>2. Entered(t, i) = Entered(s, i)
    BY <2>1 DEF Entered
  <2>3. Exited(t, i) = Exited(s, i)
    BY <2>1 DEF Exited
  <2> QED BY <2>2, <2>3 DEF Open
<1>3. ASSUME NEW i \in 1..(n + 1), NEW p
      PROVE  NamedAt(t, i, p) <=> NamedAt(s, i, p)
  <2>1. \A k : k \in DOMAIN t /\ k < i <=> k \in DOMAIN s /\ k < i
    BY <1>1
  <2>2. \A k \in DOMAIN s : t[k] = s[k]
    BY <1>1
  <2> QED BY <2>1, <2>2 DEF NamedAt
<1>4. ASSUME NEW i \in 1..n PROVE Fits(t, i) <=> Fits(s, i)
  <2>1. i \in 1..(n + 1) /\ t[i] = s[i]
    BY <1>1
  <2> QED BY <1>2, <1>3, <2>1 DEF Fits
<1> QED BY <1>2, <1>3, <1>4 DEF n

\* What the event itself opens and closes.
LEMMA OpenAfter ==
  ASSUME NEW s, IsSeq(s), NEW e, NEW t, t = Append(s, e)
  PROVE  \A q \in Open(t, Len(t) + 1) :
           /\ q \in Open(s, Len(s) + 1) \/ (e.kind = "PhaseEntered" /\ q = e.phase)
           /\ ~(e.kind = "PhaseExited" /\ q = e.phase)
<1> DEFINE n == Len(s)
<1>1. /\ n \in Nat /\ DOMAIN s = 1..n /\ DOMAIN t = 1..(n + 1) /\ Len(t) = n + 1
      /\ \A i \in 1..n : t[i] = s[i]
      /\ t[n + 1] = e
  BY NextEvent
<1> HIDE DEF n
<1>2. ASSUME NEW k \in DOMAIN t PROVE k = n + 1 \/ (k \in DOMAIN s /\ k < n + 1)
  BY <1>1
<1>3. ASSUME NEW q \in Entered(t, n + 2)
      PROVE  q \in Entered(s, n + 1) \/ (e.kind = "PhaseEntered" /\ q = e.phase)
  <2>1. PICK k \in DOMAIN t : t[k].kind = "PhaseEntered" /\ q = t[k].phase
    BY <1>3 DEF Entered, Before
  <2> QED BY <1>1, <1>2, <2>1 DEF Entered, Before
<1>4. ASSUME NEW q \in Exited(s, n + 1) PROVE q \in Exited(t, n + 2)
  <2>1. PICK k \in DOMAIN s : s[k].kind = "PhaseExited" /\ q = s[k].phase
    BY <1>4 DEF Exited, Before
  <2>2. k \in DOMAIN t /\ k < n + 2 /\ t[k] = s[k]
    BY <1>1
  <2> QED BY <2>1, <2>2 DEF Exited, Before
<1>5. e.kind = "PhaseExited" => e.phase \in Exited(t, n + 2)
  <2>1. n + 1 \in DOMAIN t /\ n + 1 < n + 2
    BY <1>1
  <2> QED BY <1>1, <2>1 DEF Exited, Before
<1>6. Len(t) + 1 = n + 2
  BY <1>1
<1> QED BY <1>3, <1>4, <1>5, <1>6 DEF Open, n

LEMMA NameAfter ==
  ASSUME NEW s, IsSeq(s), NEW e, NEW t, t = Append(s, e), NEW p,
         IF e.kind = "PhaseEntered" THEN e.text = p ELSE NamedAt(s, Len(s) + 1, p)
  PROVE  NamedAt(t, Len(t) + 1, p)
<1> DEFINE n == Len(s)
<1>1. /\ n \in Nat /\ DOMAIN s = 1..n /\ DOMAIN t = 1..(n + 1) /\ Len(t) = n + 1
      /\ \A i \in 1..n : t[i] = s[i]
      /\ t[n + 1] = e
  BY NextEvent
<1> HIDE DEF n
<1>2. CASE e.kind = "PhaseEntered"
  <2>1. /\ n + 1 \in DOMAIN t /\ n + 1 < Len(t) + 1
        /\ \A m \in DOMAIN t : ~(n + 1 < m)
    BY <1>1
  <2> QED BY <1>1, <1>2, <2>1 DEF NamedAt
<1>3. CASE e.kind # "PhaseEntered"
  <2>1. PICK k \in DOMAIN s :
          /\ k < n + 1 /\ s[k].kind = "PhaseEntered" /\ s[k].text = p
          /\ \A m \in DOMAIN s : k < m /\ m < n + 1 => s[m].kind # "PhaseEntered"
    BY <1>3 DEF NamedAt, n
  <2>2. k \in DOMAIN t /\ k < Len(t) + 1 /\ t[k] = s[k]
    BY <1>1
  <2>3. ASSUME NEW m \in DOMAIN t, k < m, m < Len(t) + 1
        PROVE  t[m].kind # "PhaseEntered"
    <3>1. m = n + 1 \/ (m \in DOMAIN s /\ m < n + 1 /\ t[m] = s[m])
      BY <1>1
    <3> QED BY <1>1, <1>3, <2>1, <2>3, <3>1
  <2> QED BY <2>1, <2>2, <2>3 DEF NamedAt
<1> QED BY <1>2, <1>3

LEMMA ShownNext ==
  ASSUME NEW s, NEW st, Shown(s, st), NEW e, NEW t, t = Append(s, e),
         NEW up,
         CASE e.kind = "PhaseEntered" -> st = <<>> /\ up = <<e.phase>>
           [] e.kind = "PhaseExited" -> st = <<e.phase>> /\ up = <<>>
           [] OTHER -> up = st,
         e.kind = "ProgressUpdated" =>
           st = <<>> \/ \E p : Current(s, st, p) /\ InSlice(p, e.text)
  PROVE  Shown(t, up)
<1> DEFINE n == Len(s)
<1>1. /\ IsSeq(s) /\ IsSeq(t) /\ n \in Nat
      /\ DOMAIN s = 1..n /\ DOMAIN t = 1..(n + 1)
      /\ t[n + 1] = e
  BY NextEvent DEF Shown
<1>2. Fits(t, n + 1)
  <2>1. n + 1 \in 1..(n + 1)
    BY <1>1
  <2>2. /\ Open(t, n + 1) = Open(s, n + 1)
        /\ \A p : NamedAt(t, n + 1, p) <=> NamedAt(s, n + 1, p)
    BY <1>1, <2>1, PrefixSame
  <2>3. st = <<>> => Open(s, n + 1) = {}
    BY OnePhase DEF Shown
  <2>4. ASSUME e.kind = "ProgressUpdated"
        PROVE  Open(s, n + 1) = {} \/ \E p : NamedAt(s, n + 1, p) /\ InSlice(p, e.text)
    BY <2>3, <2>4 DEF Current
  <2> QED BY <1>1, <2>2, <2>4 DEF Fits
<1>3. ASSUME NEW i \in DOMAIN t PROVE Fits(t, i)
  <2>1. i = n + 1 \/ i \in 1..n
    BY <1>1
  <2>2. i \in 1..n => Fits(s, i)
    BY <1>1 DEF Shown
  <2> QED BY <1>1, <1>2, <2>1, <2>2, PrefixSame
<1>4. ASSUME NEW q \in Open(t, Len(t) + 1) PROVE up = <<q>>
  <2>1. /\ q \in Open(s, n + 1) \/ (e.kind = "PhaseEntered" /\ q = e.phase)
        /\ ~(e.kind = "PhaseExited" /\ q = e.phase)
    BY <1>1, <1>4, OpenAfter
  <2>2. q \in Open(s, n + 1) => st = <<q>>
    BY DEF Shown
  <2>3. <<q>> = <<e.phase>> => q = e.phase
    OBVIOUS
  <2> QED BY <2>1, <2>2, <2>3, OnePhase
<1> QED BY <1>1, <1>3, <1>4 DEF Shown

-----------------------------------------------------------------------------
(* The values a reply gives the bar.                                       *)

LEMMA InRange ==
  ASSUME RuleAssumption, NEW p \in DOMAIN Slice, Slice[p] # R!NoSlice
  PROVE  /\ Slice[p][1] \in 0..100 /\ Slice[p][2] \in 0..100
         /\ Slice[p][1] <= Slice[p][2]
  BY DEF RuleAssumption

\* A value within the bar is kept as it is.
LEMMA NormalizeKeeps ==
  ASSUME RuleAssumption, NEW v \in 0..100 PROVE Normalize(v) = v
<1>1. v # NaN /\ v \in Int
  BY DEF RuleAssumption
<1>2. Clamp(v) = v
  BY <1>1 DEF Clamp
<1> QED BY <1>1, <1>2 DEF Normalize

LEMMA BorderInSlice ==
  ASSUME RuleAssumption, NEW p \in DOMAIN Slice, Slice[p] # R!NoSlice
  PROVE  InSlice(p, Normalize(Slice[p][1]))
<1>1. Normalize(Slice[p][1]) = Slice[p][1]
  BY InRange, NormalizeKeeps
<1> QED BY <1>1, InRange DEF InSlice

LEMMA Portion ==
  ASSUME NEW width \in 0..100, NEW ratio \in 0..100
  PROVE  (ratio * width) \div 100 \in 0..width
<1>1. ratio * width \in Nat /\ ratio * width <= 100 * width
  <2>1. 0 <= ratio * width
    OBVIOUS
  <2>2. 0 <= (100 - ratio) * width
    OBVIOUS
  <2>3. (100 - ratio) * width = 100 * width - ratio * width
    OBVIOUS
  <2> QED BY <2>1, <2>2, <2>3
<1> DEFINE z == ratio * width
<1>2. z \in Nat /\ z <= 100 * width
  BY <1>1
<1> HIDE DEF z
<1>3. z \div 100 \in 0..width
  BY <1>2
<1> QED BY <1>3 DEF z

\* Byte progress lands in the slice of the interpreter's phase.
LEMMA BytesInSlice ==
  ASSUME RuleAssumption, current_phase \in DOMAIN Slice \cup {"none"}, NEW r \in Int
  PROVE  InSlice(current_phase, Normalize(R!Scaled(R!Clamp01(r))))
<1> DEFINE ratio == R!Clamp01(r)
<1>1. ratio \in 0..100
  BY DEF R!Clamp01
<1> HIDE DEF ratio
<1>2. CASE current_phase = "none" \/ Slice[current_phase] = R!NoSlice
  BY <1>2 DEF InSlice
<1>3. CASE current_phase # "none" /\ Slice[current_phase] # R!NoSlice
  <2> DEFINE start == Slice[current_phase][1]
             stop == Slice[current_phase][2]
             part == (ratio * (stop - start)) \div 100
  <2>1. start \in 0..100 /\ stop \in 0..100 /\ start <= stop
    BY <1>3, InRange
  <2>2. R!Scaled(ratio) = start + part
    BY <1>3 DEF R!Scaled
  <2> HIDE DEF start, stop
  <2>3. stop - start \in 0..100
    BY <2>1
  <2>4. part \in 0..(stop - start)
    BY <1>1, <2>3, Portion
  <2> HIDE DEF part
  <2>5. start + part \in start..stop /\ start + part \in 0..100
    BY <2>1, <2>4
  <2>6. Normalize(start + part) = start + part
    BY <2>5, NormalizeKeeps
  <2> QED BY <2>2, <2>5, <2>6 DEF InSlice, start, stop, ratio
<1> QED BY <1>2, <1>3

-----------------------------------------------------------------------------
(* The places of those values in a reply.                                  *)

\* A reply that is all about the phase left.
Leaving(x) ==
  /\ IsSeq(x)
  /\ \A i \in DOMAIN x :
       /\ x[i].kind # "EnterPhase"
       /\ x[i].kind = "Progress" =>
            \E k \in DOMAIN x : k < i /\ x[k].kind = "ExitPhase"

\* A reply that is all about the phase p reached.
Arriving(y, p) ==
  /\ IsSeq(y)
  /\ \A i \in DOMAIN y :
       /\ y[i].kind = "EnterPhase" => y[i].arg = p
       /\ y[i].kind = "Progress" =>
            /\ InSlice(p, Normalize(y[i].arg))
            /\ \A k \in DOMAIN y : i <= k => y[k].kind \notin Moves

LEMMA Joint ==
  ASSUME NEW a, NEW b, IsSeq(a), IsSeq(b)
  PROVE  /\ IsSeq(a \o b) /\ Len(a) \in Nat /\ Len(b) \in Nat
         /\ DOMAIN a = 1..Len(a) /\ DOMAIN b = 1..Len(b)
         /\ DOMAIN (a \o b) = 1..(Len(a) + Len(b))
         /\ \A i \in 1..Len(a) : (a \o b)[i] = a[i]
         /\ \A i \in (Len(a) + 1)..(Len(a) + Len(b)) : (a \o b)[i] = b[i - Len(a)]
<1>1. PICK S, T : a \in Seq(S) /\ b \in Seq(T)
  BY DEF IsSeq
<1> DEFINE U == S \cup T
<1>2. a \in Seq(U) /\ b \in Seq(U)
  BY <1>1, Widen
<1> HIDE DEF U
<1>3. a \o b \in Seq(U)
  BY <1>2
<1>4. IsSeq(a \o b)
  BY <1>3 DEF IsSeq
<1> QED BY <1>2, <1>4

LEMMA LeavingBoth ==
  ASSUME NEW a, NEW b, Leaving(a), Leaving(b) PROVE Leaving(a \o b)
<1> DEFINE c == a \o b
           n == Len(a)
           m == Len(b)
<1>1. /\ IsSeq(c) /\ n \in Nat /\ m \in Nat
      /\ DOMAIN a = 1..n /\ DOMAIN b = 1..m /\ DOMAIN c = 1..(n + m)
      /\ \A i \in 1..n : c[i] = a[i]
      /\ \A i \in (n + 1)..(n + m) : c[i] = b[i - n]
  BY Joint DEF Leaving
<1> HIDE DEF c, n, m
<1>2. ASSUME NEW i \in DOMAIN c
      PROVE  /\ c[i].kind # "EnterPhase"
             /\ c[i].kind = "Progress" =>
                  \E k \in DOMAIN c : k < i /\ c[k].kind = "ExitPhase"
  <2>1. CASE i <= n
    <3>1. i \in DOMAIN a /\ c[i] = a[i]
      BY <1>1, <2>1
    <3>2. \A k \in DOMAIN a : k \in DOMAIN c /\ c[k] = a[k]
      BY <1>1
    <3> QED BY <3>1, <3>2 DEF Leaving
  <2>2. CASE i > n
    <3>1. i - n \in DOMAIN b /\ c[i] = b[i - n]
      BY <1>1, <2>2
    <3>2. \A k \in DOMAIN b : k < i - n =>
            k + n \in DOMAIN c /\ c[k + n] = b[k] /\ k + n < i
      BY <1>1
    <3> QED BY <3>1, <3>2 DEF Leaving
  <2> QED BY <1>1, <2>1, <2>2
<1> QED BY <1>1, <1>2 DEF Leaving, c

LEMMA LeavingArriving ==
  ASSUME NEW x, NEW y, NEW st, NEW p, Leaving(x), Arriving(y, p)
  PROVE  Placed(x \o y, st, p)
<1> DEFINE c == x \o y
           n == Len(x)
           m == Len(y)
<1>1. /\ n \in Nat /\ m \in Nat
      /\ DOMAIN x = 1..n /\ DOMAIN y = 1..m /\ DOMAIN c = 1..(n + m)
      /\ \A i \in 1..n : c[i] = x[i]
      /\ \A i \in (n + 1)..(n + m) : c[i] = y[i - n]
  BY Joint DEF Leaving, Arriving
<1> HIDE DEF c, n, m
<1>2. ASSUME NEW i \in DOMAIN c, i <= n
      PROVE  /\ c[i].kind # "EnterPhase"
             /\ c[i].kind = "Progress" =>
                  /\ \E k \in DOMAIN c : k < i /\ c[k].kind = "ExitPhase"
                  /\ \A k \in DOMAIN c : k < i => c[k].kind # "EnterPhase"
  <2>1. i \in DOMAIN x /\ c[i] = x[i]
    BY <1>1, <1>2
  <2>2. \A k \in DOMAIN x : k \in DOMAIN c /\ c[k] = x[k] /\ x[k].kind # "EnterPhase"
    BY <1>1 DEF Leaving
  <2>3. \A k \in DOMAIN c : k < i => k \in DOMAIN x
    BY <1>1, <1>2
  <2> QED BY <2>1, <2>2, <2>3 DEF Leaving
<1>3. ASSUME NEW i \in DOMAIN c, i > n
      PROVE  /\ c[i].kind = "EnterPhase" => c[i].arg = p
             /\ c[i].kind = "Progress" =>
                  /\ InSlice(p, Normalize(c[i].arg))
                  /\ \A k \in DOMAIN c : i <= k => c[k].kind \notin Moves
  <2>1. i - n \in DOMAIN y /\ c[i] = y[i - n]
    BY <1>1, <1>3
  <2>2. \A k \in DOMAIN c : i <= k =>
          k - n \in DOMAIN y /\ c[k] = y[k - n] /\ i - n <= k - n
    BY <1>1, <1>3
  <2> QED BY <2>1, <2>2 DEF Arriving
<1>4. \A i \in DOMAIN c : i <= n \/ i > n
  BY <1>1
<1> QED BY <1>2, <1>3, <1>4 DEF Placed, c

LEMMA ShortReplies ==
  /\ Leaving(<<>>) /\ \A p : Arriving(<<>>, p)
  /\ \A e : e.kind \notin {"EnterPhase", "Progress"} => Leaving(<<e>>)
  /\ \A e, p : /\ e.kind = "EnterPhase" => e.arg = p
               /\ e.kind = "Progress" => InSlice(p, Normalize(e.arg))
               => Arriving(<<e>>, p)
<1>1. IsSeq(<<>>) /\ DOMAIN <<>> = {}
  <2>1. IsSeq(<<>>)
    BY Short DEF Tidy
  <2>2. DOMAIN <<>> = {}
    OBVIOUS
  <2> QED BY <2>1, <2>2
<1>2. ASSUME NEW e PROVE IsSeq(<<e>>) /\ DOMAIN <<e>> = {1} /\ <<e>>[1] = e
  <2>1. <<e>> \in Seq({e})
    OBVIOUS
  <2>2. IsSeq(<<e>>)
    BY <2>1 DEF IsSeq
  <2>3. DOMAIN <<e>> = {1} /\ <<e>>[1] = e
    OBVIOUS
  <2> QED BY <2>2, <2>3
<1>3. Leaving(<<>>) /\ \A p : Arriving(<<>>, p)
  BY <1>1 DEF Leaving, Arriving
<1>4. ASSUME NEW e, e.kind \notin {"EnterPhase", "Progress"} PROVE Leaving(<<e>>)
  BY <1>2, <1>4 DEF Leaving
<1>5. ASSUME NEW e, NEW p, e.kind = "EnterPhase" => e.arg = p,
             e.kind = "Progress" => InSlice(p, Normalize(e.arg))
      PROVE  Arriving(<<e>>, p)
  BY <1>2, <1>5 DEF Arriving, Moves
<1> QED BY <1>3, <1>4, <1>5

LEMMA Regroup ==
  ASSUME NEW a, NEW b, NEW c, IsSeq(a), IsSeq(b), IsSeq(c)
  PROVE  (a \o b) \o c = a \o (b \o c)
<1>1. PICK S, T, V : a \in Seq(S) /\ b \in Seq(T) /\ c \in Seq(V)
  BY DEF IsSeq
<1> DEFINE U == S \cup T \cup V
<1>2. a \in Seq(U) /\ b \in Seq(U) /\ c \in Seq(U)
  BY <1>1, Widen
<1> HIDE DEF U
<1> QED BY <1>2

LEMMA Single == ASSUME NEW e PROVE IsSeq(<<e>>)
<1>1. <<e>> \in Seq({e})
  OBVIOUS
<1> QED BY <1>1 DEF IsSeq

LEMMA ArrivingPlaced ==
  ASSUME NEW y, NEW p, NEW st, Arriving(y, p) PROVE Placed(y, st, p)
  BY DEF Arriving, Placed

\* An event followed by progress.
LEMMA Followed ==
  ASSUME NEW e, NEW y, IsSeq(y), \A i \in DOMAIN y : y[i].kind = "Progress"
  PROVE  /\ e.kind = "ExitPhase" => Leaving(<<e>> \o y)
         /\ \A p : e.kind = "EnterPhase" /\ e.arg = p
                     /\ (\A i \in DOMAIN y : InSlice(p, Normalize(y[i].arg)))
                     => Arriving(<<e>> \o y, p)
<1> DEFINE c == <<e>> \o y
           m == Len(y)
<1>1. IsSeq(<<e>>) /\ Len(<<e>>) = 1 /\ <<e>>[1] = e
  <2>1. IsSeq(<<e>>)
    BY Single
  <2> QED BY <2>1
<1>2. /\ IsSeq(c) /\ m \in Nat /\ DOMAIN y = 1..m /\ DOMAIN c = 1..(1 + m)
      /\ c[1] = e /\ \A i \in 2..(1 + m) : c[i] = y[i - 1]
  <2>1. /\ IsSeq(c) /\ m \in Nat /\ DOMAIN y = 1..m /\ DOMAIN c = 1..(1 + m)
        /\ \A i \in 1..1 : c[i] = <<e>>[i]
        /\ \A i \in (1 + 1)..(1 + m) : c[i] = y[i - 1]
    BY <1>1, Joint
  <2> HIDE DEF c, m
  <2> QED BY <1>1, <2>1
<1> HIDE DEF c, m
<1>3. ASSUME NEW i \in DOMAIN c
      PROVE  \/ i = 1 /\ c[i] = e
             \/ i > 1 /\ i - 1 \in DOMAIN y /\ c[i] = y[i - 1] /\ c[i].kind = "Progress"
  <2>1. i = 1 \/ (i > 1 /\ i \in 2..(1 + m) /\ i - 1 \in DOMAIN y)
    BY <1>2
  <2> QED BY <1>2, <2>1
<1>4. 1 \in DOMAIN c
  BY <1>2
<1>5. ASSUME e.kind = "ExitPhase" PROVE Leaving(c)
  BY <1>2, <1>3, <1>4, <1>5 DEF Leaving
<1>6. ASSUME NEW p, e.kind = "EnterPhase", e.arg = p,
             \A i \in DOMAIN y : InSlice(p, Normalize(y[i].arg))
      PROVE  Arriving(c, p)
  <2>1. ASSUME NEW i \in DOMAIN c, c[i].kind = "Progress"
        PROVE  /\ InSlice(p, Normalize(c[i].arg))
               /\ \A k \in DOMAIN c : i <= k => c[k].kind \notin Moves
    <3>1. i > 1 /\ InSlice(p, Normalize(c[i].arg))
      BY <1>3, <1>6, <2>1
    <3>2. ASSUME NEW k \in DOMAIN c, i <= k PROVE c[k].kind = "Progress"
      <4>1. k > 1
        BY <1>2, <3>1, <3>2
      <4> QED BY <1>3, <4>1
    <3> QED BY <3>1, <3>2 DEF Moves
  <2>2. ASSUME NEW i \in DOMAIN c, c[i].kind = "EnterPhase" PROVE c[i].arg = p
    BY <1>3, <1>6, <2>2
  <2> QED BY <1>2, <2>1, <2>2 DEF Arriving
<1> QED BY <1>5, <1>6 DEF c

LEMMA BorderEvents ==
  ASSUME NEW p, NEW at
  PROVE  /\ IsSeq(R!Boundary(p, at))
         /\ \A i \in DOMAIN R!Boundary(p, at) :
              /\ Slice[p] # R!NoSlice
              /\ R!Boundary(p, at)[i] = R!Ev("Progress", Slice[p][at])
<1>1. CASE Slice[p] = R!NoSlice
  <2>1. R!Boundary(p, at) = <<>> /\ DOMAIN <<>> = {}
    BY <1>1 DEF R!Boundary
  <2> QED BY <2>1, Short DEF Tidy
<1>2. CASE Slice[p] # R!NoSlice
  <2> DEFINE e == R!Ev("Progress", Slice[p][at])
  <2>1. R!Boundary(p, at) = <<e>>
    BY <1>2 DEF R!Boundary
  <2> HIDE DEF e
  <2>2. IsSeq(<<e>>) /\ \A i \in DOMAIN <<e>> : <<e>>[i] = e
    <3>1. IsSeq(<<e>>)
      BY Single
    <3> QED BY <3>1
  <2> QED BY <1>2, <2>1, <2>2 DEF e
<1> QED BY <1>1, <1>2

LEMMA LeavePhaseLeaves == Leaving(R!LeavePhase) /\ Leaving(R!FlushedNotes)
<1>1. Leaving(R!LeavePhase)
  <2>1. CASE current_phase = "none"
    BY <2>1, ShortReplies DEF R!LeavePhase
  <2>2. CASE current_phase # "none"
    <3> DEFINE e == R!Ev("ExitPhase", "none")
               y == R!Boundary(current_phase, 2)
    <3>1. e.kind = "ExitPhase" /\ R!LeavePhase = <<e>> \o y
      BY <2>2 DEF R!LeavePhase, R!Ev
    <3>2. IsSeq(y) /\ \A i \in DOMAIN y : y[i].kind = "Progress"
      BY BorderEvents DEF R!Ev
    <3> HIDE DEF e, y
    <3> QED BY <3>1, <3>2, Followed
  <2> QED BY <2>1, <2>2
<1>2. Leaving(R!FlushedNotes)
  <2>1. R!FlushedNotes = <<>> \/ R!FlushedNotes = <<R!Ev("Finding", notes_buf)>>
    BY DEF R!FlushedNotes
  <2>2. R!Ev("Finding", notes_buf).kind = "Finding"
    BY DEF R!Ev
  <2> QED BY <2>1, <2>2, ShortReplies
<1> QED BY <1>1, <1>2

\* What a reply may do to the interpreter's phase and where its values go.
Reaches ==
  /\ current_phase' \in DOMAIN Slice \cup {"none"}
  /\ Placed(batch', stack', current_phase')
  /\ current_phase' \in {current_phase, "none"} \/ Has(batch', "EnterPhase")

LEMMA LineReaches ==
  ASSUME RuleAssumption, current_phase \in DOMAIN Slice \cup {"none"},
         NEW line \in Lines, R!OnLine(line)
  PROVE  Reaches
<1>a. ASSUME NEW e, batch' = <<e>> \/ batch' = <<>>, e.kind # "EnterPhase",
             current_phase' = current_phase,
             e.kind = "Progress" => InSlice(current_phase, Normalize(e.arg))
      PROVE  Reaches
  <2>1. Arriving(batch', current_phase')
    BY <1>a, ShortReplies
  <2> QED BY <1>a, <2>1, ArrivingPlaced DEF Reaches
<1>1. CASE R!StartPhase(line)
  <2> DEFINE phase == Match[line.text].arg
             e == R!Ev("EnterPhase", phase)
             x == R!LeavePhase
             z == R!Boundary(phase, 1)
  <2>1. /\ current_phase' = phase
        /\ batch' = x \o <<e>> \o z
        /\ Match[line.text].kind = "EnterPhase"
    BY <1>1 DEF R!StartPhase, R!Return, R!Classify
  <2>2. phase \in DOMAIN Slice
    BY <2>1, RuleAssumption DEF RuleAssumption
  <2>3. e.kind = "EnterPhase" /\ e.arg = phase
    BY DEF R!Ev
  <2>4. /\ IsSeq(z) /\ \A i \in DOMAIN z : z[i].kind = "Progress"
        /\ \A i \in DOMAIN z : InSlice(phase, Normalize(z[i].arg))
    BY <2>2, RuleAssumption, BorderEvents, BorderInSlice DEF R!Ev
  <2>5. Leaving(x)
    BY LeavePhaseLeaves
  <2> HIDE DEF phase, e, x, z
  <2>6. Arriving(<<e>> \o z, phase)
    BY <2>3, <2>4, Followed
  <2>7. IsSeq(<<e>>)
    BY Single
  <2>8. batch' = x \o (<<e>> \o z)
    BY <2>1, <2>4, <2>5, <2>7, Regroup DEF Leaving
  <2>9. Placed(batch', stack', phase)
    BY <2>5, <2>6, <2>8, LeavingArriving
  <2>10. Has(batch', "EnterPhase")
    <3>1. Has(<<e>>, "EnterPhase") /\ Tidy(<<e>>)
      BY <2>3, Short
    <3>2. \E i \in DOMAIN (<<e>> \o z) : (<<e>> \o z)[i].kind = "EnterPhase"
      <4>1. /\ 1 \in DOMAIN (<<e>> \o z) /\ (<<e>> \o z)[1] = <<e>>[1]
        BY <2>4, <2>7, Joint
      <4> QED BY <2>3, <4>1
    <3>3. PICK i \in DOMAIN (<<e>> \o z) : (<<e>> \o z)[i].kind = "EnterPhase"
      BY <3>2
    <3>4. IsSeq(x) /\ IsSeq(<<e>> \o z)
      BY <2>4, <2>5, <2>7, Joint DEF Leaving
    <3> DEFINE y == <<e>> \o z
    <3>5. y[i].kind = "EnterPhase" /\ i \in DOMAIN y /\ IsSeq(y)
      BY <3>3, <3>4
    <3> HIDE DEF y
    <3>6. /\ Len(x) + i \in DOMAIN (x \o y) /\ (x \o y)[Len(x) + i] = y[i]
      <4>1. /\ Len(x) \in Nat /\ Len(y) \in Nat /\ i \in 1..Len(y)
            /\ DOMAIN (x \o y) = 1..(Len(x) + Len(y))
            /\ \A k \in (Len(x) + 1)..(Len(x) + Len(y)) : (x \o y)[k] = y[k - Len(x)]
        BY <3>4, <3>5, Joint
      <4>2. /\ Len(x) + i \in (Len(x) + 1)..(Len(x) + Len(y))
            /\ Len(x) + i \in 1..(Len(x) + Len(y)) /\ (Len(x) + i) - Len(x) = i
        BY <4>1
      <4> QED BY <4>1, <4>2
    <3> QED BY <2>8, <3>5, <3>6 DEF Has, y
  <2> QED BY <2>1, <2>2, <2>9, <2>10 DEF Reaches
<1>2. CASE R!EndNotes(line)
  <2>1. R!Ev("Finding", notes_buf).kind = "Finding"
    BY DEF R!Ev
  <2>2. /\ batch' = <<>> \/ batch' = <<R!Ev("Finding", notes_buf)>>
        /\ current_phase' = current_phase
    BY <1>2 DEF R!EndNotes, R!Return, R!FlushedNotes, R!phaseState
  <2> QED BY <2>1, <2>2, <1>a
<1>3. CASE R!ClassifyError(line)
  <2> DEFINE e == R!Ev("KnownError", Match[line.text].arg)
  <2>1. e.kind = "KnownError" /\ batch' = <<e>> /\ current_phase' = current_phase
    BY <1>3 DEF R!ClassifyError, R!Return, R!Ev, R!phaseState
  <2> QED BY <2>1, <1>a
<1>4. CASE R!Report(line)
  <2>1. PICK kind \in {"Warning", "Summary", "Progress"} :
          /\ batch' = <<R!Ev(kind, Match[line.text].arg)>>
          /\ Match[line.text].kind = kind
    BY <1>4 DEF R!Report, R!Return, R!Classify
  <2> DEFINE e == R!Ev(kind, Match[line.text].arg)
  <2>2. e.kind = kind /\ e.arg = Match[line.text].arg
    BY DEF R!Ev
  <2>3. current_phase' = current_phase
    BY <1>4 DEF R!Report, R!phaseState
  <2>4. kind = "Progress" => e.arg = NoBar
    BY <2>1, <2>2, RuleAssumption DEF RuleAssumption
  <2>5. InSlice(current_phase, Normalize(NoBar))
    BY DEF InSlice, Normalize
  <2> QED BY <2>1, <2>2, <2>3, <2>4, <2>5, <1>a
<1>5. CASE R!ByteProgress(line)
  <2> DEFINE bytes == Match[line.text].arg
             v == R!Scaled(R!Clamp01((bytes.done * 100) \div bytes.total))
             e == R!Ev("Progress", v)
  <2>1. /\ batch' = IF bytes.total <= 0 THEN <<>> ELSE <<e>>
        /\ Match[line.text].kind = "ByteProgressMb"
        /\ current_phase' = current_phase
    BY <1>5 DEF R!ByteProgress, R!Return, R!Classify, R!phaseState
  <2>2. bytes.done \in Int /\ bytes.total \in Int
    BY <2>1, RuleAssumption DEF RuleAssumption
  <2>3. e.kind = "Progress" /\ e.arg = v
    BY DEF R!Ev
  <2>4. CASE bytes.total <= 0
    <3>1. batch' = <<>>
      BY <2>1, <2>4
    <3>2. Arriving(batch', current_phase')
      BY <3>1, ShortReplies
    <3> QED BY <2>1, <3>2, ArrivingPlaced DEF Reaches
  <2>5. CASE ~(bytes.total <= 0)
    <3> DEFINE r == (bytes.done * 100) \div bytes.total
    <3>1. r \in Int
      BY <2>2, <2>5
    <3>2. InSlice(current_phase, Normalize(v))
      BY <3>1, RuleAssumption, BytesInSlice
    <3> QED BY <2>1, <2>3, <2>5, <3>2, <1>a
  <2> QED BY <2>4, <2>5
<1>6. CASE \/ R!SkipSeparator(line) \/ R!Collect(line) \/ R!StartNotes(line)
           \/ R!SkipEmpty(line) \/ R!Benign(line) \/ R!Unclassified(line)
  <2>1. batch' = <<>> /\ current_phase' = current_phase
    BY <1>6 DEF R!SkipSeparator, R!Collect, R!StartNotes, R!SkipEmpty, R!Benign,
                R!Unclassified, R!Return, R!phaseState, R!ruleVars
  <2>2. Arriving(batch', current_phase')
    BY <2>1, ShortReplies
  <2> QED BY <2>1, <2>2, ArrivingPlaced DEF Reaches
<1> QED BY <1>1, <1>2, <1>3, <1>4, <1>5, <1>6 DEF R!OnLine

LEMMA ExitReaches ==
  ASSUME NEW success, R!OnExit(success) PROVE Reaches
<1> DEFINE x == R!FlushedNotes
           y == R!LeavePhase
           e == R!Ev("KnownError", R!Synthesized(success))
           z == IF R!Synthesized(success) = "none" THEN <<>> ELSE <<e>>
<1>1. batch' = x \o y \o z /\ current_phase' = "none"
  BY DEF R!OnExit, R!Return
<1>2. Arriving(z, "none")
  <2>1. e.kind = "KnownError"
    BY DEF R!Ev
  <2> HIDE DEF e
  <2> QED BY <2>1, ShortReplies
<1> HIDE DEF z
<1>3. Leaving(x \o y)
  BY LeavePhaseLeaves, LeavingBoth
<1>4. Placed(batch', stack', "none")
  BY <1>1, <1>2, <1>3, LeavingArriving
<1> QED BY <1>1, <1>4 DEF Reaches

-----------------------------------------------------------------------------
(* Applying the reply.                                                     *)

LEMMA PlacedTail ==
  ASSUME NEW b, NEW st, NEW p, Tidy(b), b # <<>>, Placed(b, st, p), NEW up,
         CASE Head(b).kind = "EnterPhase" -> TRUE
           [] Head(b).kind = "ExitPhase" -> up = <<>>
           [] OTHER -> up = st
  PROVE  Placed(Tail(b), up, p)
<1>1. PICK S : b \in Seq(S)
  BY DEF Tidy, IsSeq
<1> DEFINE t == Tail(b)
<1>2. /\ 1 \in DOMAIN b /\ Head(b) = b[1]
      /\ \A i \in DOMAIN t : i + 1 \in DOMAIN b /\ t[i] = b[i + 1] /\ 1 < i + 1
      /\ \A i, k \in DOMAIN t : i <= k => i + 1 <= k + 1
      /\ \A i, k \in DOMAIN t : k < i => k + 1 < i + 1
      /\ \A i \in DOMAIN t : \A k \in DOMAIN b :
           k < i + 1 => k = 1 \/ (k - 1 \in DOMAIN t /\ t[k - 1] = b[k] /\ k - 1 < i)
  <2>1. /\ t \in Seq(S) /\ Len(b) \in Nat /\ Len(b) > 0
        /\ DOMAIN b = 1..Len(b) /\ DOMAIN t = 1..(Len(b) - 1)
        /\ \A i \in DOMAIN t : t[i] = b[i + 1]
        /\ Head(b) = b[1]
    BY <1>1
  <2> HIDE DEF t
  <2> QED BY <2>1
<1> HIDE DEF t
<1>3. ASSUME NEW i \in DOMAIN t
      PROVE  /\ t[i].kind = "EnterPhase" => t[i].arg = p
             /\ t[i].kind = "Progress" =>
                  \/ /\ InSlice(p, Normalize(t[i].arg))
                     /\ \A k \in DOMAIN t : i <= k => t[k].kind \notin Moves
                  \/ /\ up = <<>> \/ \E k \in DOMAIN t : k < i /\ t[k].kind = "ExitPhase"
                     /\ \A k \in DOMAIN t : k < i => t[k].kind # "EnterPhase"
  <2>1. i + 1 \in DOMAIN b /\ t[i] = b[i + 1]
    BY <1>2
  <2>2. t[i].kind = "EnterPhase" => t[i].arg = p
    BY <2>1 DEF Placed
  <2>3. CASE /\ InSlice(p, Normalize(b[i + 1].arg))
             /\ \A k \in DOMAIN b : i + 1 <= k => b[k].kind \notin Moves
    <3>1. \A k \in DOMAIN t : i <= k => t[k].kind \notin Moves
      BY <1>2, <2>3
    <3> QED BY <2>1, <2>2, <2>3, <3>1
  <2>4. CASE /\ st = <<>> \/ \E k \in DOMAIN b : k < i + 1 /\ b[k].kind = "ExitPhase"
             /\ \A k \in DOMAIN b : k < i + 1 => b[k].kind # "EnterPhase"
    <3>1. \A k \in DOMAIN t : k < i => t[k].kind # "EnterPhase"
      BY <1>2, <2>4
    <3>2. Head(b).kind # "EnterPhase"
      BY <1>2, <2>4
    <3>3. up = <<>> \/ \E k \in DOMAIN t : k < i /\ t[k].kind = "ExitPhase"
      <4>1. CASE Head(b).kind = "ExitPhase"
        BY <4>1
      <4>2. CASE Head(b).kind # "ExitPhase"
        <5>1. up = st
          BY <3>2, <4>2
        <5>2. ASSUME NEW k \in DOMAIN b, k < i + 1, b[k].kind = "ExitPhase"
              PROVE  \E m \in DOMAIN t : m < i /\ t[m].kind = "ExitPhase"
          <6>1. k # 1
            BY <1>2, <4>2, <5>2
          <6>2. k - 1 \in DOMAIN t /\ t[k - 1] = b[k] /\ k - 1 < i
            BY <1>2, <5>2, <6>1
          <6> QED BY <5>2, <6>2
        <5> QED BY <2>4, <5>1, <5>2
      <4> QED BY <4>1, <4>2
    <3> QED BY <2>2, <3>1, <3>3
  <2> QED BY <2>1, <2>2, <2>3, <2>4 DEF Placed
<1> QED BY <1>3 DEF Placed, t

\* The first event of a reply, if it is progress, fits the phase it meets.
LEMMA HeadFits ==
  ASSUME NEW b, NEW st, NEW p, Tidy(b), b # <<>>, Placed(b, st, p),
         Head(b).kind = "Progress"
  PROVE  \/ st = <<>>
         \/ ~Has(b, "ExitPhase") /\ InSlice(p, Normalize(Head(b).arg))
<1>1. PICK S : b \in Seq(S)
  BY DEF Tidy, IsSeq
<1>2. 1 \in DOMAIN b /\ Head(b) = b[1] /\ \A k \in DOMAIN b : 1 <= k /\ ~(k < 1)
  BY <1>1
<1> QED BY <1>2 DEF Placed, Has, Moves

\* Nothing is announced and the rest stays as it is.
LEMMA SliceKept ==
  ASSUME SliceInv, Announced' = Announced, UNCHANGED <<stack, current_phase>>,
         Settled' => Settled,
         hpc' \in {"apply", "emit"} =>
           hpc \in {"apply", "emit"} /\ UNCHANGED batch
  PROVE  SliceInv'
  BY DEF SliceInv

LEMMA CallSlice ==
  ASSUME FlatInv, SliceInv, CallReturns(batch'), Leads', Reaches
  PROVE  SliceInv'
<1>1. /\ hpc = "call" /\ hpc' = "apply" /\ stack' = stack
      /\ Announced' = Announced /\ Settled
  BY DEF CallReturns, Announced, Settled, phaseVars
<1>2. Shown(Announced, stack)' /\ Current(Announced, stack, current_phase)
  BY <1>1 DEF SliceInv
<1>3. ASSUME Settled' PROVE Current(Announced, stack, current_phase)'
  <2>1. ~Has(batch', "ExitPhase")
    BY <1>1, <1>3 DEF Settled
  <2>2. CASE Has(batch', "EnterPhase")
    BY <2>1, <2>2 DEF Leads, Current
  <2>3. CASE ~Has(batch', "EnterPhase")
    <3>1. stack' = <<>> <=> current_phase' = "none"
      BY <2>1, <2>3 DEF Leads, Agree
    <3>2. CASE current_phase' = "none"
      BY <3>1, <3>2 DEF Current
    <3>3. CASE current_phase' = current_phase
      BY <1>1, <1>2, <3>3
    <3> QED BY <2>3, <3>2, <3>3 DEF Reaches
  <2> QED BY <2>2, <2>3
<1> QED BY <1>1, <1>2, <1>3 DEF SliceInv, Reaches

LEMMA ApplySlice ==
  ASSUME FlatInv, SliceInv, ApplyEvent, UNCHANGED ruleVars
  PROVE  SliceInv'
<1> DEFINE e == Head(batch)
           s == Announced
           p == current_phase
<1>1. /\ hpc = "apply" /\ batch # <<>> /\ batch' = Tail(batch)
      /\ UNCHANGED <<bus, current_phase>> /\ s = bus
  BY DEF ApplyEvent, Take, EnterPhase, UpdatePhase, ExitPhase, Progress, Label,
         Warning, Prompt, KnownError, Finding, Summary, endVars, ruleVars, Announced
<1>2. Tidy(batch) /\ Leads /\ Placed(batch, stack, p) /\ Shown(s, stack)
      /\ p \in DOMAIN Slice \cup {"none"}
      /\ (~Has(batch, "ExitPhase") => Current(s, stack, p)) /\ IsSeq(s)
  BY <1>1 DEF FlatInv, Leads, SliceInv, Settled, Shown
<1>3. /\ e.kind # "UpdatePhase"
      /\ \A kind : Has(batch, kind) <=> e.kind = kind \/ Has(batch', kind)
      /\ e.kind = "EnterPhase" => ~Has(batch, "ExitPhase")
  BY <1>1, <1>2, Taken
<1>4. e.kind = "EnterPhase" => e.arg = p
  <2>1. PICK S : batch \in Seq(S)
    BY <1>2 DEF Tidy, IsSeq
  <2>2. 1 \in DOMAIN batch /\ e = batch[1]
    BY <1>1, <2>1
  <2> QED BY <1>2, <2>2 DEF Placed
<1> HIDE DEF e, s, p
<1>5. CASE EnterPhase
  <2>1. /\ e.kind = "EnterPhase" /\ stack' = Append(stack, fresh) /\ hpc' = "emit"
        /\ out' = Event("PhaseEntered", fresh, e.arg)
    BY <1>5 DEF EnterPhase, Take, Say, e
  <2>2. stack = <<>>
    BY <1>2, <1>3, <2>1 DEF Leads
  <2>3. stack' = <<fresh>>
    BY <2>1, <2>2, OnePhase
  <2>4. /\ out'.kind = "PhaseEntered" /\ out'.phase = fresh /\ out'.text = p
    BY <1>4, <2>1 DEF Event
  <2>5. Announced' = Append(s, out')
    BY <1>1, <2>1 DEF Announced
  <2>6. Shown(Announced', stack')
    BY <1>2, <2>2, <2>3, <2>4, <2>5, ShownNext
  <2>7. NamedAt(Announced', Len(Announced') + 1, p)
    BY <1>2, <2>4, <2>5, NameAfter
  <2>8. Placed(batch', stack', p)
    BY <1>1, <1>2, <2>1, PlacedTail DEF e
  <2> QED BY <1>1, <1>2, <2>6, <2>7, <2>8 DEF SliceInv, Current, p
<1>6. CASE ExitPhase
  <2>1. e.kind = "ExitPhase"
    BY <1>6 DEF ExitPhase, Take, e
  <2>2. stack # <<>>
    BY <1>2, <1>3, <2>1 DEF Leads
  <2>3. stack' = Pop(stack) /\ hpc' = "emit"
        /\ out' = Event("PhaseExited", Top(stack), "none")
    BY <1>6, <2>2 DEF ExitPhase, Say
  <2>4. PICK q : stack = <<q>>
    BY <2>2 DEF FlatInv, StackFlat
  <2>5. Top(stack) = q
    <3>1. Len(<<q>>) = 1 /\ <<q>>[1] = q
      OBVIOUS
    <3> QED BY <2>2, <2>4, <3>1 DEF Top, Last
  <2>6. stack' = <<>>
    BY <2>3, <2>4, OnePhase
  <2>7. out'.kind = "PhaseExited" /\ out'.phase = q
    BY <2>3, <2>5 DEF Event
  <2>8. Announced' = Append(s, out')
    BY <1>1, <2>3 DEF Announced
  <2>9. Shown(Announced', stack')
    BY <1>2, <2>4, <2>6, <2>7, <2>8, ShownNext
  <2>10. Placed(batch', stack', p)
    BY <1>1, <1>2, <2>1, <2>6, PlacedTail DEF e
  <2> QED BY <1>1, <1>2, <2>6, <2>9, <2>10 DEF SliceInv, Current, p
<1>7. CASE UpdatePhase
  BY <1>3, <1>7 DEF UpdatePhase, Take, e
<1>8. ASSUME UNCHANGED stack, e.kind \notin Moves
      PROVE  Placed(batch', stack', p)
  BY <1>1, <1>2, <1>8, PlacedTail DEF Moves, e
<1>9. ASSUME UNCHANGED stack, e.kind \notin Moves, hpc' = "emit",
             out'.kind \notin {"PhaseEntered", "PhaseExited"},
             out'.kind = "ProgressUpdated" =>
               stack = <<>> \/ \E q : Current(s, stack, q) /\ InSlice(q, out'.text)
      PROVE  SliceInv'
  <2>1. Announced' = Append(s, out')
    BY <1>1, <1>9 DEF Announced
  <2>2. Shown(Announced', stack')
    BY <1>2, <1>9, <2>1, ShownNext
  <2>3. ASSUME Settled' PROVE Current(Announced', stack', p)
    <3>1. ~Has(batch, "ExitPhase")
      BY <1>3, <1>9, <2>3 DEF Settled, Moves
    <3>2. stack' # <<>> => NamedAt(s, Len(s) + 1, p)
      BY <1>2, <1>9, <3>1 DEF Current
    <3> QED BY <1>2, <1>9, <2>1, <3>2, NameAfter DEF Current
  <2> QED BY <1>1, <1>2, <1>8, <1>9, <2>2, <2>3 DEF SliceInv, p
<1>10. CASE Label \/ Warning \/ Prompt \/ KnownError \/ Finding
  <2>1. /\ UNCHANGED stack /\ e.kind \notin Moves /\ hpc' = "emit"
        /\ out'.kind \notin {"PhaseEntered", "PhaseExited", "ProgressUpdated"}
    BY <1>10 DEF Label, Warning, Prompt, KnownError, Finding, Take, Say, Event,
                 phaseVars, Moves, e
  <2> QED BY <1>9, <2>1
<1>11. CASE Progress
  <2>1. /\ UNCHANGED stack /\ e.kind = "Progress" /\ hpc' = "emit"
        /\ out' = Event("ProgressUpdated", NoPhase, progress')
        /\ progress' = Normalize(e.arg)
    BY <1>11 DEF Progress, Take, Say, phaseVars, e
  <2>2. out'.kind = "ProgressUpdated" /\ out'.text = Normalize(e.arg)
    BY <2>1 DEF Event
  <2>3. stack = <<>> \/ (~Has(batch, "ExitPhase") /\ InSlice(p, Normalize(e.arg)))
    BY <1>1, <1>2, <2>1, HeadFits DEF e
  <2> QED BY <1>2, <1>9, <2>1, <2>2, <2>3 DEF Moves
<1>12. CASE Summary
  <2>1. UNCHANGED stack /\ e.kind \notin Moves /\ hpc' = "apply"
    BY <1>1, <1>12 DEF Summary, Take, phaseVars, Moves, e
  <2>2. Announced' = s
    BY <1>1, <2>1 DEF Announced
  <2>3. Settled' => ~Has(batch, "ExitPhase")
    BY <1>3, <2>1 DEF Settled, Moves
  <2> QED BY <1>1, <1>2, <1>8, <2>1, <2>2, <2>3 DEF SliceInv, p
<1> QED BY <1>5, <1>6, <1>7, <1>10, <1>11, <1>12 DEF ApplyEvent

LEMMA HostSlice ==
  ASSUME FlatInv, SliceInv, HostStep, UNCHANGED ruleVars
  PROVE  SliceInv'
<1>0. UNCHANGED current_phase
  BY DEF ruleVars
<1> USE DEF driverVars, jobVars, phaseVars, endVars
<1>a. ASSUME NEW e, e.kind \in {"OutputAppended", "Exited"},
             hpc = "read", hpc' \in {"read", "call"}, UNCHANGED stack,
             bus' = Append(bus, e)
      PROVE  SliceInv'
  <2>1. Announced = bus /\ Announced' = Append(bus, e) /\ Settled
    BY <1>a DEF Announced, Settled
  <2>2. Shown(bus, stack) /\ Current(bus, stack, current_phase)
    BY <2>1 DEF SliceInv
  <2>3. Shown(Announced', stack')
    BY <1>a, <2>1, <2>2, ShownNext
  <2>4. Current(Announced', stack', current_phase')
    BY <1>0, <1>a, <2>1, <2>2, NameAfter DEF Current, Shown
  <2> QED BY <1>0, <1>a, <2>3, <2>4 DEF SliceInv
<1>1. CASE ProcessLine
  <2>1. Event("OutputAppended", NoPhase, "none").kind = "OutputAppended"
    BY DEF Event
  <2> QED BY <1>1, <1>a, <2>1 DEF ProcessLine
<1>2. CASE ProcessExits
  <2>1. Event("Exited", NoPhase, "none").kind = "Exited"
    BY DEF Event
  <2> QED BY <1>2, <1>a, <2>1 DEF ProcessExits
<1>3. CASE FinishReading
  BY <1>0, <1>3, SliceKept DEF FinishReading, Announced, Settled
<1>4. CASE Emit
  <2>1. /\ Announced' = Announced /\ hpc = "emit" /\ hpc' = "apply"
        /\ UNCHANGED <<stack, batch>>
    BY <1>4 DEF Emit, Announced
  <2> QED BY <1>0, <2>1, SliceKept DEF Settled
<1>5. CASE ApplyEvent
  BY <1>5, ApplySlice
<1>6. CASE Applied
  <2>1. /\ Announced' = Announced /\ hpc' \notin {"apply", "emit"}
        /\ UNCHANGED stack /\ batch = <<>>
    BY <1>6 DEF Applied, Announced
  <2>2. Settled
    BY <2>1, Short DEF Settled
  <2> QED BY <1>0, <2>1, <2>2, SliceKept
<1>7. CASE CloseInnermost
  <2>1. /\ hpc = "close" /\ stack # <<>> /\ stack' = Pop(stack) /\ hpc' = hpc
        /\ bus' = Append(bus, Event("PhaseExited", Top(stack), "none"))
    BY <1>7 DEF CloseInnermost
  <2>2. PICK q : stack = <<q>>
    BY <2>1 DEF FlatInv, StackFlat
  <2>3. Top(stack) = q /\ stack' = <<>>
    <3>1. Len(<<q>>) = 1 /\ <<q>>[1] = q
      OBVIOUS
    <3> QED BY <2>1, <2>2, <3>1, OnePhase DEF Top, Last
  <2> DEFINE e == Event("PhaseExited", Top(stack), "none")
  <2>4. e.kind = "PhaseExited" /\ e.phase = q
    BY <2>3 DEF Event
  <2>5. Announced = bus /\ Announced' = Append(bus, e)
    BY <2>1 DEF Announced
  <2> HIDE DEF e
  <2>6. Shown(Announced', stack')
    BY <2>2, <2>3, <2>4, <2>5, ShownNext DEF SliceInv
  <2> QED BY <1>0, <2>1, <2>3, <2>6 DEF SliceInv, Current
<1>8. CASE AllClosed
  BY <1>0, <1>8, SliceKept DEF AllClosed, CloseUnchanged, Announced, Settled
<1>9. CASE Judge
  BY <1>0, <1>9, SliceKept DEF Judge, Announced, Settled
<1> QED BY <1>1, <1>2, <1>3, <1>4, <1>5, <1>6, <1>7, <1>8, <1>9 DEF HostStep

LEMMA SliceInit == InitHosted => SliceInv
<1> SUFFICES ASSUME InitHosted PROVE SliceInv
  OBVIOUS
<1>1. /\ hpc = "read" /\ stack = <<>> /\ bus = <<>> /\ current_phase = "none"
  BY DEF InitHosted, Init, R!InitRules
<1>2. Announced = <<>> /\ DOMAIN <<>> = {} /\ IsSeq(<<>>)
  BY <1>1, Short DEF Announced, Tidy
<1>3. Shown(Announced, stack)
  <2>1. Open(<<>>, Len(<<>>) + 1) = {}
    BY DEF Open, Entered, Before
  <2> QED BY <1>2, <2>1 DEF Shown
<1> QED BY <1>1, <1>3 DEF SliceInv, Current

LEMMA SliceNext == FlatInv /\ SliceInv /\ [NextHosted]_hostedVars => SliceInv'
<1> SUFFICES ASSUME FlatInv, SliceInv, [NextHosted]_hostedVars PROVE SliceInv'
  OBVIOUS
<1>1. CASE HostStep /\ UNCHANGED <<heard, ruleVars>>
  BY <1>1, HostSlice
<1>2. CASE UNCHANGED <<hostVars, ruleVars>>
  <2>1. Announced' = Announced /\ UNCHANGED <<hpc, batch, stack, current_phase>>
    BY <1>2 DEF hostVars, ruleVars, phaseVars, Announced
  <2> QED BY <2>1, SliceKept DEF Settled
<1>3. ASSUME NEW line \in Lines, CallOnLine(line) PROVE SliceInv'
  <2>1. Agree /\ UNCHANGED stack /\ R!OnLine(line) /\ CallReturns(batch')
    BY <1>3 DEF CallOnLine, CallReturns, FlatInv, phaseVars
  <2>2. Leads'
    BY <2>1, LineReply, RuleAssumption
  <2>3. Reaches
    BY <2>1, LineReaches, RuleAssumption DEF SliceInv
  <2> QED BY <2>1, <2>2, <2>3, CallSlice
<1>4. CASE CallOnExit
  <2>1. Agree /\ UNCHANGED stack /\ R!OnExit(exit = "zero") /\ CallReturns(batch')
    BY <1>4 DEF CallOnExit, CallReturns, FlatInv, phaseVars
  <2>2. Leads'
    BY <2>1, ExitReply
  <2>3. Reaches
    BY <2>1, ExitReaches
  <2> QED BY <2>1, <2>2, <2>3, CallSlice
<1> QED BY <1>1, <1>2, <1>3, <1>4 DEF NextHosted, ByHost, Judged, hostedVars

\* The name that PhaseAt gives a phase that is open.
LEMMA NameIs ==
  ASSUME NEW s, IsSeq(s), NEW i \in DOMAIN s, NEW p, NamedAt(s, i, p)
  PROVE  Latest(SubSeq(s, 1, i - 1), "PhaseEntered", "none") = p
<1> DEFINE u == SubSeq(s, 1, i - 1)
           at == Before(u, Len(u) + 1, "PhaseEntered")
<1>1. /\ Len(u) = i - 1 /\ DOMAIN u = 1..(i - 1) /\ i \in Nat
      /\ \A k \in 1..(i - 1) : k \in DOMAIN s /\ u[k] = s[k]
      /\ \A k \in DOMAIN s : k < i => k \in DOMAIN u
  <2>1. PICK S : s \in Seq(S)
    BY DEF IsSeq
  <2>2. /\ u = [k \in 1..(i - 1) |-> s[k]]
        /\ DOMAIN s = 1..Len(s) /\ Len(s) \in Nat /\ i \in 1..Len(s)
    BY <2>1
  <2> QED BY <2>1, <2>2
<1> HIDE DEF u
<1>2. PICK k \in DOMAIN s :
        /\ k < i /\ s[k].kind = "PhaseEntered" /\ s[k].text = p
        /\ \A m \in DOMAIN s : k < m /\ m < i => s[m].kind # "PhaseEntered"
  BY DEF NamedAt
<1>3. k \in at /\ u[k].text = p /\ at \subseteq 1..(i - 1) /\ k \in Nat
  BY <1>1, <1>2 DEF Before
<1>4. \A m \in at : m <= k
  <2> SUFFICES ASSUME NEW m \in at, ~(m <= k) PROVE FALSE
    OBVIOUS
  <2>1. m \in 1..(i - 1) /\ u[m].kind = "PhaseEntered"
    BY <1>1 DEF Before
  <2>2. m \in DOMAIN s /\ k < m /\ m < i /\ s[m].kind = "PhaseEntered"
    BY <1>1, <1>3, <2>1
  <2> QED BY <1>2, <2>2
<1>5. ASSUME NEW m \in at, \A j \in at : j <= m PROVE m = k
  BY <1>3, <1>4, <1>5
<1> DEFINE top == CHOOSE m \in at : \A j \in at : j <= m
<1>6. top = k
  <2>1. top \in at /\ \A j \in at : j <= top
    BY <1>3, <1>4
  <2> HIDE DEF top, at
  <2> QED BY <1>5, <2>1
<1>7. Latest(u, "PhaseEntered", "none") = u[top].text
  BY <1>3 DEF Latest
<1> QED BY <1>3, <1>6, <1>7 DEF u

\* Byte progress and the borders of a phase (RuleInterpreter::on_line, the
\* ByteProgressMb and EnterPhase arms, Progress::normalize) leave the bar in
\* the slice of the phase that is open, for every table, phase model and
\* output, however done and total are related.
THEOREM BarInSlice == HostedSpec => []BarStaysInSlice
<1>1. FlatInv /\ SliceInv => BarStaysInSlice
  <2> SUFFICES ASSUME FlatInv, SliceInv, NEW i \in DOMAIN bus,
                      bus[i].kind = "ProgressUpdated", bus[i].text # NoBar,
                      PhaseAt(i) # "none", Slice[PhaseAt(i)] # R!NoSlice
               PROVE  bus[i].text \in Slice[PhaseAt(i)][1]..Slice[PhaseAt(i)][2]
    BY DEF BarStaysInSlice
  <2>1. IsSeq(bus) /\ Fits(bus, i)
    <3>1. IsSeq(bus) /\ Shown(Announced, stack)
      BY DEF FlatInv, SliceInv
    <3>2. CASE hpc = "emit"
      <4>1. Announced = Append(bus, out) /\ i \in 1..Len(bus) /\ i \in DOMAIN Announced
        BY <3>1, <3>2, NextEvent DEF Announced
      <4> QED BY <3>1, <4>1, PrefixSame DEF Shown
    <3>3. CASE hpc # "emit"
      BY <3>1, <3>3 DEF Announced, Shown
    <3> QED BY <3>1, <3>2, <3>3
  <2>2. Open(bus, i) # {}
    BY DEF PhaseAt
  <2>3. PICK p : NamedAt(bus, i, p) /\ InSlice(p, bus[i].text)
    BY <2>1, <2>2 DEF Fits
  <2>4. PhaseAt(i) = p
    BY <2>1, <2>2, <2>3, NameIs DEF PhaseAt
  <2> QED BY <2>3, <2>4 DEF InSlice
<1>2. HostedSpec => [](FlatInv /\ SliceInv)
  BY FlatInit, FlatNext, SliceInit, SliceNext, PTL DEF HostedSpec
<1> QED BY <1>1, <1>2, PTL
=============================================================================
