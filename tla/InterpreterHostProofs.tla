------------------------ MODULE InterpreterHostProofs ------------------------
(***************************************************************************)
(* Proofs of the safety properties of InterpreterHost, for every set of    *)
(* replies an interpreter may give and every number of lines.              *)
(*                                                                         *)
(* The argument: what is announced, on the bus or about to be, determines  *)
(* the stack, the snapshot and whether the interpreter still speaks.  Each *)
(* step announces at most one event, so two lemmas about appending to a    *)
(* stream (which phases are open, what the latest event of a kind is) are  *)
(* enough to carry the invariant through.                                  *)
(***************************************************************************)
EXTENDS InterpreterHost, FiniteSetTheorems, TLAPS

AllTexts == Texts \cup {"none", "mismatch", "panic"} \cup Normalized \cup Bodies
BusEvents == {e \in [kind : BusKinds, phase : Nat, text : AllTexts] :
                e.text \in BusTexts(e.kind)}

\* TypeOK and the bus as a sequence
HostTypes ==
  /\ TypeOK
  /\ bus \in Seq(BusEvents)
  /\ hpc = "emit" => out \in BusEvents

Elements(st) == {st[k] : k \in DOMAIN st}

\* The stack st holds the open phases of the stream s in the order they were
\* entered; next is above every phase of s.
StackIs(st, next, s) ==
  /\ next > 0
  /\ \A k \in DOMAIN st : 0 < st[k] /\ st[k] < next
  /\ \A k, m \in DOMAIN st : k < m => st[k] < st[m]
  /\ \A p \in Entered(s, Len(s) + 1) \cup Exited(s, Len(s) + 1) : p < next
  /\ Open(s, Len(s) + 1) = Elements(st)
  /\ Bracketed(s)

ControlInv ==
  /\ hpc # "close" => current = Top(stack)
  /\ hpc \in {"judge", "done"} => stack = <<>>
  /\ hpc \notin {"apply", "emit"} => batch = <<>>
  /\ hpc = "call" => ~disabled

BarInv ==
  /\ progress = Latest(Announced, "ProgressUpdated", NoBar)
  /\ label = Latest(Announced, "LabelUpdated", "none")

\* What the driver keeps for the outcome is what has been announced.
ToldInv ==
  /\ knownError = Latest(Announced, "KnownErrorDetected", "none")
  /\ Listed(findings, Before(Announced, Len(Announced) + 1, "FindingEmitted"),
            Announced)

\* The outcome is the one computed from it, and nothing moves afterwards.
VerdictInv ==
  /\ outcome # NoOutcome => hpc = "done"
  /\ hpc = "done" => \E wasCancelled, timedOut \in BOOLEAN :
                       outcome = ComputeOutcome(wasCancelled, timedOut)

IsPanic(e) == e.kind = "InterpreterError" /\ e.text = "panic"
AfterPanic == {"OutputAppended", "Exited", "PhaseExited"}
Silenced(s) ==
  \A i, k \in DOMAIN s : IsPanic(s[i]) /\ i < k => s[k].kind \in AfterPanic
HasPanic(s) == \E i \in DOMAIN s : IsPanic(s[i])

\* Once a panic is announced the interpreter has nothing more to say.
SilenceInv ==
  /\ Silenced(Announced)
  /\ HasPanic(Announced) => disabled /\ batch = <<>>

HostInv == HostTypes /\ StackIs(stack, fresh, Announced) /\ ControlInv /\ BarInv
             /\ ToldInv /\ VerdictInv /\ SilenceInv

-----------------------------------------------------------------------------
(* Appending one event to a stream.                                        *)

\* t is the stream s with the event e at its end
IsNext(s, e, t) == s \in Seq(BusEvents) /\ e \in BusEvents /\ t = Append(s, e)

LEMMA NextStream ==
  ASSUME NEW s, NEW e, NEW t, IsNext(s, e, t)
  PROVE  /\ t \in Seq(BusEvents)
         /\ Len(s) \in Nat /\ Len(t) = Len(s) + 1
         /\ DOMAIN s = 1..Len(s) /\ DOMAIN t = 1..(Len(s) + 1)
         /\ \A i \in 1..Len(s) : t[i] = s[i]
         /\ t[Len(s) + 1] = e
  BY DEF IsNext

LEMMA BeforeNext ==
  ASSUME NEW s, NEW e, NEW t, IsNext(s, e, t), NEW kind \in BusKinds
  PROVE  /\ \A i \in 1..(Len(s) + 1) : Before(t, i, kind) = Before(s, i, kind)
         /\ \A k \in Before(s, Len(s) + 1, kind) : k \in 1..Len(s) /\ t[k] = s[k]
         /\ Before(t, Len(t) + 1, kind) =
              Before(s, Len(s) + 1, kind)
                \cup (IF e.kind = kind THEN {Len(s) + 1} ELSE {})
<1> DEFINE n == Len(s)
<1>1. /\ DOMAIN t = 1..(n + 1) /\ DOMAIN s = 1..n /\ n \in Nat /\ Len(t) = n + 1
      /\ \A i \in 1..n : t[i] = s[i]
      /\ t[n + 1] = e
  BY NextStream
<1> HIDE DEF n
<1>2. ASSUME NEW i \in 1..(n + 1) PROVE Before(t, i, kind) = Before(s, i, kind)
  BY <1>1 DEF Before
<1>3. ASSUME NEW k \in Before(s, n + 1, kind) PROVE k \in 1..n /\ t[k] = s[k]
  BY <1>1 DEF Before
<1>4. Before(t, Len(t) + 1, kind) =
        Before(s, n + 1, kind) \cup (IF e.kind = kind THEN {n + 1} ELSE {})
  <2>1. ASSUME NEW k \in Before(t, Len(t) + 1, kind)
        PROVE  k \in Before(s, n + 1, kind) \/ (e.kind = kind /\ k = n + 1)
    BY <1>1 DEF Before
  <2>2. ASSUME NEW k \in Before(s, n + 1, kind)
        PROVE  k \in Before(t, Len(t) + 1, kind)
    BY <1>1 DEF Before
  <2>3. e.kind = kind => n + 1 \in Before(t, Len(t) + 1, kind)
    BY <1>1 DEF Before
  <2> QED BY <2>1, <2>2, <2>3
<1> QED BY <1>2, <1>3, <1>4 DEF n

\* the phases of the events of a kind before position i
PhasesOf(s, i, kind) == {s[k].phase : k \in Before(s, i, kind)}

\* The phases of a stream are numbers.
PhasesAreNat(s) == Entered(s, Len(s) + 1) \cup Exited(s, Len(s) + 1) \subseteq Nat

LEMMA PhaseNumbers == ASSUME NEW s \in Seq(BusEvents) PROVE PhasesAreNat(s)
<1>1. \A i \in DOMAIN s : s[i] \in BusEvents
  OBVIOUS
<1>2. \A i \in DOMAIN s : s[i].phase \in Nat
  BY <1>1 DEF BusEvents
<1> QED BY <1>2 DEF PhasesAreNat, Entered, Exited, Before

LEMMA PhasesOfNext ==
  ASSUME NEW s, NEW e, NEW t, IsNext(s, e, t), NEW kind \in BusKinds
  PROVE  /\ \A i \in 1..(Len(s) + 1) : PhasesOf(t, i, kind) = PhasesOf(s, i, kind)
         /\ PhasesOf(t, Len(t) + 1, kind) =
              PhasesOf(s, Len(s) + 1, kind)
                \cup (IF e.kind = kind THEN {e.phase} ELSE {})
<1> DEFINE n == Len(s)
<1>1. n \in Nat /\ t[n + 1] = e /\ DOMAIN s = 1..n
  BY NextStream
<1>2. /\ \A i \in 1..(n + 1) : Before(t, i, kind) = Before(s, i, kind)
      /\ \A k \in Before(s, n + 1, kind) : k \in 1..n /\ t[k] = s[k]
      /\ Before(t, Len(t) + 1, kind) =
           Before(s, n + 1, kind) \cup (IF e.kind = kind THEN {n + 1} ELSE {})
  BY BeforeNext
<1> HIDE DEF n
<1>3. ASSUME NEW i \in 1..(n + 1)
      PROVE  PhasesOf(t, i, kind) = PhasesOf(s, i, kind)
  <2>1. \A k \in Before(s, i, kind) : k \in Before(s, n + 1, kind)
    BY <1>1 DEF Before
  <2>2. \A k \in Before(s, i, kind) : t[k] = s[k]
    BY <1>2, <2>1
  <2> QED BY <1>2, <2>2 DEF PhasesOf
<1>4. PhasesOf(t, Len(t) + 1, kind) =
        PhasesOf(s, n + 1, kind) \cup (IF e.kind = kind THEN {e.phase} ELSE {})
  BY <1>1, <1>2 DEF PhasesOf
<1> QED BY <1>3, <1>4 DEF n

\* What a stream says of phases at a position, with one event more.
LEMMA OpenNext ==
  ASSUME NEW s, NEW e, NEW t, IsNext(s, e, t)
  PROVE  /\ \A i \in 1..(Len(s) + 1) :
              Entered(t, i) = Entered(s, i) /\ Open(t, i) = Open(s, i)
         /\ Entered(t, Len(t) + 1) =
              Entered(s, Len(s) + 1)
                \cup (IF e.kind = "PhaseEntered" THEN {e.phase} ELSE {})
         /\ Exited(t, Len(t) + 1) =
              Exited(s, Len(s) + 1)
                \cup (IF e.kind = "PhaseExited" THEN {e.phase} ELSE {})
<1>1. \A r, i : /\ Entered(r, i) = PhasesOf(r, i, "PhaseEntered")
                /\ Exited(r, i) = PhasesOf(r, i, "PhaseExited")
  BY DEF Entered, Exited, PhasesOf
<1>2. \A kind \in BusKinds :
        /\ \A i \in 1..(Len(s) + 1) : PhasesOf(t, i, kind) = PhasesOf(s, i, kind)
        /\ PhasesOf(t, Len(t) + 1, kind) =
             PhasesOf(s, Len(s) + 1, kind)
               \cup (IF e.kind = kind THEN {e.phase} ELSE {})
  BY PhasesOfNext
<1>3. "PhaseEntered" \in BusKinds /\ "PhaseExited" \in BusKinds
  BY DEF BusKinds
<1>4. /\ \A i \in 1..(Len(s) + 1) : Entered(t, i) = Entered(s, i)
      /\ Entered(t, Len(t) + 1) =
           Entered(s, Len(s) + 1)
             \cup (IF e.kind = "PhaseEntered" THEN {e.phase} ELSE {})
  BY <1>1, <1>2, <1>3
<1>5. /\ \A i \in 1..(Len(s) + 1) : Exited(t, i) = Exited(s, i)
      /\ Exited(t, Len(t) + 1) =
           Exited(s, Len(s) + 1)
             \cup (IF e.kind = "PhaseExited" THEN {e.phase} ELSE {})
  BY <1>1, <1>2, <1>3
<1> QED BY <1>4, <1>5 DEF Open

\* The same, by the kind of the event.
LEMMA EdgesNext ==
  ASSUME NEW s, NEW e, NEW t, IsNext(s, e, t)
  PROVE  /\ e.kind = "PhaseEntered" =>
              /\ Entered(t, Len(t) + 1) = Entered(s, Len(s) + 1) \cup {e.phase}
              /\ Exited(t, Len(t) + 1) = Exited(s, Len(s) + 1)
         /\ e.kind = "PhaseExited" =>
              /\ Entered(t, Len(t) + 1) = Entered(s, Len(s) + 1)
              /\ Exited(t, Len(t) + 1) = Exited(s, Len(s) + 1) \cup {e.phase}
         /\ e.kind \notin {"PhaseEntered", "PhaseExited"} =>
              /\ Entered(t, Len(t) + 1) = Entered(s, Len(s) + 1)
              /\ Exited(t, Len(t) + 1) = Exited(s, Len(s) + 1)
<1> DEFINE NewE == IF e.kind = "PhaseEntered" THEN {e.phase} ELSE {}
           NewX == IF e.kind = "PhaseExited" THEN {e.phase} ELSE {}
<1>1. /\ Entered(t, Len(t) + 1) = Entered(s, Len(s) + 1) \cup NewE
      /\ Exited(t, Len(t) + 1) = Exited(s, Len(s) + 1) \cup NewX
  BY OpenNext
<1>2. /\ e.kind = "PhaseEntered" => NewE = {e.phase} /\ NewX = {}
      /\ e.kind = "PhaseExited" => NewX = {e.phase} /\ NewE = {}
      /\ e.kind \notin {"PhaseEntered", "PhaseExited"} => NewE = {} /\ NewX = {}
  OBVIOUS
<1> HIDE DEF NewE, NewX
<1>3. \A S : S \cup {} = S
  OBVIOUS
<1> QED BY <1>1, <1>2, <1>3, Zenon

\* Is the event e allowed at the end of s?
Allowed(s, e) ==
  /\ e.kind \in {"PhaseExited", "PhaseUpdated"}
       => IsInnermost(e.phase, s, Len(s) + 1)
  /\ e.kind = "PhaseEntered" => \A p \in Entered(s, Len(s) + 1) : p < e.phase

\* A stream stays bracketed when the event added is allowed at its end.
LEMMA BracketedNext ==
  ASSUME NEW s, NEW e, NEW t, IsNext(s, e, t)
  PROVE  Bracketed(t) <=> Bracketed(s) /\ Allowed(s, e)
<1> DEFINE n == Len(s)
           Fits(r, i) ==
             /\ r[i].kind \in {"PhaseExited", "PhaseUpdated"}
                  => IsInnermost(r[i].phase, r, i)
             /\ r[i].kind = "PhaseEntered"
                  => \A p \in Entered(r, i) : p < r[i].phase
<1>1. /\ DOMAIN t = 1..(n + 1) /\ DOMAIN s = 1..n /\ n \in Nat
      /\ \A i \in 1..n : t[i] = s[i]
      /\ t[n + 1] = e
  BY NextStream
<1>2. \A i \in 1..(n + 1) : Entered(t, i) = Entered(s, i) /\ Open(t, i) = Open(s, i)
  BY OpenNext
<1>3. Bracketed(t) <=> \A i \in 1..(n + 1) : Fits(t, i)
  BY <1>1 DEF Bracketed
<1>4. Bracketed(s) <=> \A i \in 1..n : Fits(s, i)
  BY <1>1 DEF Bracketed
<1> HIDE DEF n
<1>5. \A i \in 1..n : Fits(t, i) <=> Fits(s, i)
  BY <1>1, <1>2 DEF IsInnermost
<1>6. Fits(t, n + 1) <=> Allowed(s, e)
  BY <1>1, <1>2 DEF IsInnermost, Allowed, n
<1> HIDE DEF Fits
<1>7. (\A i \in 1..(n + 1) : Fits(t, i))
        <=> (\A i \in 1..n : Fits(t, i)) /\ Fits(t, n + 1)
  BY <1>1
<1> QED BY <1>3, <1>4, <1>5, <1>6, <1>7

LEMMA LastPosition ==
  ASSUME NEW n \in Nat, NEW S, S \subseteq 1..n, S # {}
  PROVE  \E k \in S : \A m \in S : m <= k
<1> DEFINE above == {k..n : k \in S}
           order == StrictSubsetOrdering(1..n)
<1>1. above \subseteq SUBSET (1..n) /\ above # {}
  <2>1. \A k \in S : k..n \subseteq 1..n
    OBVIOUS
  <2> QED BY <2>1
<1>2. IsWellFoundedOn(order, SUBSET (1..n))
  <2>1. IsFiniteSet(1..n)
    BY FS_Interval
  <2>2. FiniteSubsetsOf(1..n) = SUBSET (1..n)
    BY <2>1, FS_FiniteSubsetsOfFinite
  <2> QED BY <2>2, FS_StrictSubsetOrderingWellFounded
<1> HIDE DEF above, order
<1>3. PICK x \in above : \A y \in above : <<y, x>> \notin order
  BY <1>1, <1>2, WFMin
<1>4. PICK k \in S : x = k..n
  BY <1>3 DEF above
<1>5. ASSUME NEW m \in S, m > k PROVE FALSE
  <2>1. m..n \in above /\ m..n \subseteq x /\ m..n # x
    BY <1>4, <1>5 DEF above
  <2>2. <<m..n, x>> \in order
    BY <1>1, <1>3, <2>1 DEF order, StrictSubsetOrdering
  <2> QED BY <1>3, <2>1, <2>2
<1> QED BY <1>5

\* The latest event of a kind is the one added, if it is of that kind.
LEMMA LatestNext ==
  ASSUME NEW s, NEW e, NEW t, IsNext(s, e, t), NEW kind \in BusKinds, NEW default
  PROVE  Latest(t, kind, default) =
           IF e.kind = kind THEN e.text ELSE Latest(s, kind, default)
<1> DEFINE n == Len(s)
           old == Before(s, n + 1, kind)
           new == Before(t, Len(t) + 1, kind)
           Top1(S) == CHOOSE k \in S : \A m \in S : m <= k
<1>1. n \in Nat /\ t[n + 1] = e
  BY NextStream
<1>2. /\ \A k \in old : k \in 1..n /\ t[k] = s[k]
      /\ new = old \cup (IF e.kind = kind THEN {n + 1} ELSE {})
  BY BeforeNext
<1>3. Latest(t, kind, default) =
        IF new = {} THEN default ELSE t[Top1(new)].text
  BY DEF Latest
<1>4. Latest(s, kind, default) =
        IF old = {} THEN default ELSE s[Top1(old)].text
  BY DEF Latest
<1> HIDE DEF n, old, new
<1>5. CASE e.kind = kind
  <2>1. new = old \cup {n + 1}
    BY <1>2, <1>5
  <2>2. \A k \in new : (\A m \in new : m <= k) <=> k = n + 1
    BY <2>1, <1>1, <1>2
  <2>3. Top1(new) = n + 1
    BY <2>1, <2>2
  <2> QED BY <1>1, <1>3, <1>5, <2>1, <2>3
<1>6. CASE e.kind # kind
  <2>1. new = old
    BY <1>2, <1>6
  <2>2. CASE old # {}
    <3>1. \E k \in old : \A m \in old : m <= k
      BY <1>1, <1>2, <2>2, LastPosition
    <3>2. Top1(old) \in old
      BY <3>1
    <3> HIDE DEF Top1
    <3> QED BY <1>2, <1>3, <1>4, <1>6, <2>1, <2>2, <3>2
  <2> QED BY <1>3, <1>4, <1>6, <2>1, <2>2
<1> QED BY <1>5, <1>6

-----------------------------------------------------------------------------
(* Lists in the order of the positions of a stream.                        *)

\* A list with one element more goes with one position more, the last.
LEMMA InOrderNext ==
  ASSUME NEW list, NEW T, list \in Seq(T), NEW x \in T,
         NEW S, NEW at \in InOrder(list, S),
         NEW i \in Int, \A k \in S : k \in Int /\ k < i
  PROVE  \E bt \in InOrder(Append(list, x), S \cup {i}) :
           /\ \A n \in DOMAIN list : bt[n] = at[n]
           /\ bt[Len(list) + 1] = i
<1> DEFINE more == Append(list, x)
           N == Len(list)
           bt == [n \in 1..(N + 1) |-> IF n = N + 1 THEN i ELSE at[n]]
<1>1. N \in Nat /\ DOMAIN list = 1..N /\ DOMAIN more = 1..(N + 1)
  OBVIOUS
<1>2. /\ at \in [1..N -> S]
      /\ \A k \in S : \E n \in 1..N : at[n] = k
      /\ \A n, m \in 1..N : n < m => at[n] < at[m]
  BY <1>1 DEF InOrder
<1> HIDE DEF more, N
<1>3. /\ bt[N + 1] = i /\ \A n \in 1..N : bt[n] = at[n] /\ n \in 1..(N + 1)
      /\ bt \in [1..(N + 1) -> S \cup {i}]
      /\ N + 1 \in 1..(N + 1)
      /\ \A n \in 1..(N + 1) : n \in 1..N \/ n = N + 1
  BY <1>1, <1>2
<1> HIDE DEF bt
<1>4. \A k \in S \cup {i} : \E n \in 1..(N + 1) : bt[n] = k
  BY <1>2, <1>3
<1>5. ASSUME NEW n \in 1..(N + 1), NEW m \in 1..(N + 1), n < m
      PROVE  bt[n] < bt[m]
  <2>1. n \in 1..N
    BY <1>1, <1>5
  <2>2. CASE m \in 1..N
    BY <1>2, <1>3, <1>5, <2>1, <2>2
  <2>3. CASE m = N + 1
    <3>1. at[n] \in S
      BY <1>2, <2>1
    <3> QED BY <1>3, <2>1, <2>3, <3>1
  <2> QED BY <1>3, <2>2, <2>3
<1>6. bt \in InOrder(more, S \cup {i})
  BY <1>1, <1>3, <1>4, <1>5 DEF InOrder
<1> QED BY <1>1, <1>3, <1>6 DEF more, N

\* A text more, from the last position, is listed after the others.
LEMMA ListedNext ==
  ASSUME NEW T, NEW list \in Seq(T), NEW S, NEW s, Listed(list, S, s),
         NEW i \in Int, \A k \in S : k \in Int /\ k < i,
         NEW t, \A k \in S : t[k].text = s[k].text, t[i].text \in T
  PROVE  Listed(Append(list, t[i].text), S \cup {i}, t)
<1> DEFINE v == t[i].text
           more == Append(list, v)
           N == Len(list)
<1>v. v \in T
  OBVIOUS
<1> HIDE DEF v
<1>1. /\ DOMAIN list = 1..N /\ DOMAIN more = 1..(N + 1) /\ N \in Nat
      /\ \A n \in 1..N : more[n] = list[n]
      /\ more[N + 1] = v
  BY <1>v
<1>2. PICK at \in InOrder(list, S) : \A n \in DOMAIN list : list[n] = s[at[n]].text
  BY DEF Listed
<1>3. PICK bt \in InOrder(more, S \cup {i}) :
        (\A n \in DOMAIN list : bt[n] = at[n]) /\ bt[N + 1] = i
  BY <1>v, InOrderNext
<1>4. \A n \in DOMAIN list : at[n] \in S
  BY DEF InOrder
<1> HIDE DEF more, N
<1>5. ASSUME NEW n \in DOMAIN more PROVE more[n] = t[bt[n]].text
  <2>1. CASE n \in 1..N
    BY <1>1, <1>2, <1>3, <1>4, <2>1
  <2>2. CASE n = N + 1
    BY <1>1, <1>3, <2>2 DEF v
  <2> QED BY <1>1, <2>1, <2>2
<1> QED BY <1>3, <1>5 DEF Listed, more, v

\* What is listed depends on the texts at the positions only.
LEMMA ListedSame ==
  ASSUME NEW list, NEW S, NEW s, Listed(list, S, s),
         NEW t, \A k \in S : t[k].text = s[k].text
  PROVE  Listed(list, S, t)
<1>1. PICK at \in InOrder(list, S) : \A n \in DOMAIN list : list[n] = s[at[n]].text
  BY DEF Listed
<1>2. \A n \in DOMAIN list : at[n] \in S
  BY DEF InOrder
<1> QED BY <1>1, <1>2 DEF Listed

LEMMA ListedNone == ASSUME NEW s PROVE Listed(<<>>, {}, s)
<1> DEFINE at == [n \in {} |-> 0]
<1>1. at \in [DOMAIN <<>> -> {}] /\ DOMAIN <<>> = {}
  OBVIOUS
<1>2. at \in InOrder(<<>>, {})
  BY <1>1 DEF InOrder
<1> QED BY <1>1, <1>2 DEF Listed

-----------------------------------------------------------------------------
(* Types.                                                                  *)

LEMMA EventTypes ==
  /\ \A kind \in BusKinds, phase \in Nat : \A text \in BusTexts(kind) :
       Event(kind, phase, text) \in BusEvents
  /\ \A e \in BusEvents : IsEvent(e)
  /\ \A s \in Seq(BusEvents) : \A i \in DOMAIN s : IsEvent(s[i])
<1>1. \A kind : BusTexts(kind) \subseteq AllTexts
  BY DEF BusTexts, AllTexts
<1>2. ASSUME NEW kind \in BusKinds, NEW phase \in Nat, NEW text \in BusTexts(kind)
      PROVE  Event(kind, phase, text) \in BusEvents
  BY <1>1, <1>2 DEF Event, BusEvents
<1>3. \A e \in BusEvents : IsEvent(e)
  BY DEF BusEvents, IsEvent
<1>4. ASSUME NEW s \in Seq(BusEvents), NEW i \in DOMAIN s PROVE IsEvent(s[i])
  <2>1. s[i] \in BusEvents
    OBVIOUS
  <2> QED BY <1>3, <2>1
<1> QED BY <1>2, <1>3, <1>4

LEMMA ArgTypes ==
  ASSUME NEW e \in InterpreterEvents
  PROVE  /\ e.kind \in TextKinds => e.arg \in Texts
         /\ e.kind = "Progress" => e.arg \in Fractions \cup {NoBar}
         /\ e.kind = "Finding" => e.arg \in Bodies
<1>1. CASE e \in [kind : TextKinds, arg : Texts]
  BY <1>1 DEF TextKinds
<1>2. CASE e \in [kind : {"ExitPhase"}, arg : {"none"}]
  BY <1>2 DEF TextKinds
<1>3. CASE e \in [kind : {"Progress"}, arg : Fractions \cup {NoBar}]
  BY <1>3 DEF TextKinds
<1>4. CASE e \in [kind : {"Finding"}, arg : Bodies]
  BY <1>4 DEF TextKinds
<1> QED BY <1>1, <1>2, <1>3, <1>4 DEF InterpreterEvents

\* Whatever an interpreter gives, the bar gets a fraction or none.
LEMMA NormalizeTypes ==
  ASSUME NEW p \in Fractions \cup {NoBar}
  PROVE  Normalize(p) \in Normalized
<1>1. CASE p = NoBar \/ p = NaN
  BY <1>1 DEF Normalize, Normalized
<1>2. CASE p # NoBar /\ p # NaN
  <2>1. p \in Int
    BY <1>2 DEF Fractions
  <2> QED BY <1>2, <2>1 DEF Normalize, Clamp, Normalized
<1> QED BY <1>1, <1>2

LEMMA TakeTypes ==
  ASSUME HostTypes, NEW kind, Take(kind)
  PROVE  /\ batch' \in Seq(InterpreterEvents)
         /\ kind \in TextKinds => Head(batch).arg \in Texts
         /\ kind = "Progress" => Head(batch).arg \in Fractions \cup {NoBar}
         /\ kind = "Finding" => Head(batch).arg \in Bodies
<1>1. batch \in Seq(InterpreterEvents) /\ batch # <<>>
  BY DEF HostTypes, TypeOK, Take
<1>2. Head(batch) \in InterpreterEvents /\ Tail(batch) \in Seq(InterpreterEvents)
  BY <1>1
<1>3. Head(batch).kind = kind /\ batch' = Tail(batch)
  BY DEF Take
<1> QED BY <1>2, <1>3, ArgTypes

\* A step of apply_events that says something keeps the types if what it says
\* and what it changes do.
LEMMA SayTypes ==
  ASSUME HostTypes, NEW kind, Take(kind),
         NEW k \in BusKinds, NEW p \in Nat, NEW text \in BusTexts(k),
         Say(k, p, text),
         stack' \in Seq(Nat), fresh' \in Nat, current' \in Nat,
         findings' \in Seq(Bodies), progress' \in Normalized,
         {summary, knownError, label}' \subseteq Texts \cup {"none"}
  PROVE  HostTypes' /\ out' \in BusEvents
<1>1. batch' \in Seq(InterpreterEvents)
  BY TakeTypes
<1>2. out' \in BusEvents /\ hpc' = "emit"
  BY EventTypes DEF Say
<1>3. IsEvent(out)'
  BY <1>2, EventTypes
<1>4. UNCHANGED <<lines, bus, disabled, endVars>>
  BY DEF Take
<1>5. TypeOK'
  BY <1>1, <1>2, <1>3, <1>4 DEF HostTypes, TypeOK, endVars
<1> QED BY <1>2, <1>4, <1>5 DEF HostTypes

LEMMA AppendTypes ==
  ASSUME NEW S, NEW q \in Seq(S), NEW x \in S
  PROVE  Append(q, x) \in Seq(S)
  OBVIOUS

LEMMA StackTypes ==
  ASSUME NEW st \in Seq(Nat)
  PROVE  /\ Top(st) \in Nat
         /\ st # <<>> => /\ Pop(st) \in Seq(Nat)
                         /\ Len(st) > 0 /\ Top(st) = st[Len(st)]
                         /\ Len(Pop(st)) = Len(st) - 1
                         /\ \A k \in 1..(Len(st) - 1) : Pop(st)[k] = st[k]
<1>1. CASE st = <<>>
  BY <1>1 DEF Top, NoPhase
<1>2. CASE st # <<>>
  <2>1. Len(st) \in Nat /\ Len(st) > 0
    BY <1>2
  <2>2. Top(st) = st[Len(st)] /\ Top(st) \in Nat
    BY <1>2, <2>1 DEF Top, Last
  <2>3. Pop(st) = [k \in 1..(Len(st) - 1) |-> st[k]]
    BY <2>1 DEF Pop
  <2>4. Pop(st) \in Seq(Nat) /\ Len(Pop(st)) = Len(st) - 1
    BY <2>1, <2>3
  <2> QED BY <2>1, <2>2, <2>3, <2>4
<1> QED BY <1>1, <1>2

LEMMA ApplyTypes == HostTypes /\ ApplyEvent => HostTypes'
<1> SUFFICES ASSUME HostTypes, ApplyEvent PROVE HostTypes'
  OBVIOUS
<1> USE DEF driverVars, jobVars, phaseVars
<1>0. /\ stack \in Seq(Nat) /\ fresh \in Nat /\ current \in Nat
      /\ findings \in Seq(Bodies) /\ progress \in Normalized
      /\ {summary, knownError, label} \subseteq Texts \cup {"none"}
  BY DEF HostTypes, TypeOK
<1>a. \A k \in BusKinds \ {"ProgressUpdated", "FindingEmitted"} :
        Texts \cup {"none", "mismatch", "panic"} \subseteq BusTexts(k)
  BY DEF BusTexts
<1>b. NoPhase \in Nat
  BY DEF NoPhase
<1>1. CASE EnterPhase
  <2>1. Take("EnterPhase") /\ Say("PhaseEntered", fresh, Head(batch).arg)
    BY <1>1 DEF EnterPhase
  <2>2. Head(batch).arg \in BusTexts("PhaseEntered") /\ "PhaseEntered" \in BusKinds
    BY <1>a, <2>1, TakeTypes DEF TextKinds, BusKinds
  <2>3. stack' \in Seq(Nat) /\ fresh' \in Nat /\ current' \in Nat
    <3>1. stack' = Append(stack, fresh)
      BY <1>1 DEF EnterPhase
    <3>2. Append(stack, fresh) \in Seq(Nat)
      BY <1>0, AppendTypes
    <3>3. stack' \in Seq(Nat)
      BY <3>1, <3>2, Zenon
    <3>4. fresh' = fresh + 1 /\ current' = fresh
      BY <1>1 DEF EnterPhase
    <3>5. fresh' \in Nat /\ current' \in Nat
      BY <1>0, <3>4
    <3> QED BY <3>3, <3>5
  <2>4. UNCHANGED <<driverVars, jobVars>>
    BY <1>1 DEF EnterPhase
  <2> QED BY <1>0, <2>1, <2>2, <2>3, <2>4, SayTypes
<1>2. CASE UpdatePhase
  <2>1. Take("UpdatePhase") /\ UNCHANGED <<driverVars, jobVars, phaseVars>>
    BY <1>2 DEF UpdatePhase
  <2>2. /\ Head(batch).arg \in BusTexts("PhaseUpdated")
        /\ "PhaseUpdated" \in BusKinds
    BY <1>a, <2>1, TakeTypes DEF TextKinds, BusKinds
  <2>3. "mismatch" \in BusTexts("InterpreterError") /\ "InterpreterError" \in BusKinds
    BY <1>a DEF BusKinds
  <2>4. CASE stack = <<>>
    <3>1. Say("InterpreterError", NoPhase, "mismatch")
      BY <1>2, <2>4 DEF UpdatePhase, Mismatch
    <3> QED BY <1>0, <1>b, <2>1, <2>3, <3>1, SayTypes
  <2>5. CASE stack # <<>>
    <3>1. Say("PhaseUpdated", Top(stack), Head(batch).arg) /\ Top(stack) \in Nat
      BY <1>0, <1>2, <2>5, StackTypes DEF UpdatePhase
    <3> QED BY <1>0, <2>1, <2>2, <3>1, SayTypes
  <2> QED BY <2>4, <2>5
<1>3. CASE ExitPhase
  <2>1. Take("ExitPhase") /\ UNCHANGED <<fresh, driverVars, jobVars>>
    BY <1>3 DEF ExitPhase
  <2>2. "none" \in BusTexts("PhaseExited") /\ "PhaseExited" \in BusKinds
    BY <1>a DEF BusKinds
  <2>3. "mismatch" \in BusTexts("InterpreterError") /\ "InterpreterError" \in BusKinds
    BY <1>a DEF BusKinds
  <2>4. CASE stack = <<>>
    <3>1. Say("InterpreterError", NoPhase, "mismatch") /\ UNCHANGED <<stack, current>>
      BY <1>3, <2>4 DEF ExitPhase, Mismatch
    <3> QED BY <1>0, <1>b, <2>1, <2>3, <3>1, SayTypes
  <2>5. CASE stack # <<>>
    <3>1. /\ Say("PhaseExited", Top(stack), "none")
          /\ stack' = Pop(stack) /\ current' = Top(stack')
      BY <1>3, <2>5 DEF ExitPhase
    <3>2. Top(stack) \in Nat /\ stack' \in Seq(Nat) /\ current' \in Nat
      BY <1>0, <2>5, <3>1, StackTypes
    <3> QED BY <1>0, <2>1, <2>2, <3>1, <3>2, SayTypes
  <2> QED BY <2>4, <2>5
<1>4. CASE Progress
  <2>1. /\ Take("Progress") /\ Say("ProgressUpdated", NoPhase, progress')
        /\ UNCHANGED <<label, driverVars, phaseVars>>
    BY <1>4 DEF Progress
  <2>2. progress' \in Normalized
    BY <1>4, <2>1, TakeTypes, NormalizeTypes DEF Progress
  <2>3. progress' \in BusTexts("ProgressUpdated") /\ "ProgressUpdated" \in BusKinds
    BY <2>2 DEF BusTexts, BusKinds
  <2> QED BY <1>0, <1>b, <2>1, <2>2, <2>3, SayTypes
<1>5. CASE Label
  <2>1. /\ Take("Label") /\ Say("LabelUpdated", NoPhase, label')
        /\ UNCHANGED <<progress, driverVars, phaseVars>>
    BY <1>5 DEF Label
  <2>2. label' \in Texts
    BY <1>5, <2>1, TakeTypes DEF Label, TextKinds
  <2>3. label' \in BusTexts("LabelUpdated") /\ "LabelUpdated" \in BusKinds
    BY <1>a, <2>2 DEF BusKinds
  <2> QED BY <1>0, <1>b, <2>1, <2>2, <2>3, SayTypes
<1>6. CASE Warning
  <2>1. /\ Take("Warning") /\ Say("WarningDetected", NoPhase, Head(batch).arg)
        /\ UNCHANGED <<driverVars, jobVars, phaseVars>>
    BY <1>6 DEF Warning
  <2>2. /\ Head(batch).arg \in BusTexts("WarningDetected")
        /\ "WarningDetected" \in BusKinds
    BY <1>a, <2>1, TakeTypes DEF TextKinds, BusKinds
  <2> QED BY <1>0, <1>b, <2>1, <2>2, SayTypes
<1>7. CASE Prompt
  <2>1. /\ Take("Prompt") /\ Say("PromptDetected", NoPhase, Head(batch).arg)
        /\ UNCHANGED <<driverVars, jobVars, phaseVars>>
    BY <1>7 DEF Prompt
  <2>2. /\ Head(batch).arg \in BusTexts("PromptDetected")
        /\ "PromptDetected" \in BusKinds
    BY <1>a, <2>1, TakeTypes DEF TextKinds, BusKinds
  <2> QED BY <1>0, <1>b, <2>1, <2>2, SayTypes
<1>8. CASE KnownError
  <2>1. /\ Take("KnownError") /\ Say("KnownErrorDetected", NoPhase, Head(batch).arg)
        /\ knownError' = Head(batch).arg
        /\ UNCHANGED <<findings, summary, jobVars, phaseVars>>
    BY <1>8 DEF KnownError
  <2>2. Head(batch).arg \in Texts
    BY <2>1, TakeTypes DEF TextKinds
  <2>3. /\ Head(batch).arg \in BusTexts("KnownErrorDetected")
        /\ "KnownErrorDetected" \in BusKinds
    BY <1>a, <2>2 DEF BusKinds
  <2> QED BY <1>0, <1>b, <2>1, <2>2, <2>3, SayTypes
<1>9. CASE Finding
  <2>1. /\ Take("Finding") /\ Say("FindingEmitted", NoPhase, Head(batch).arg)
        /\ findings' = Append(findings, Head(batch).arg)
        /\ UNCHANGED <<summary, knownError, jobVars, phaseVars>>
    BY <1>9 DEF Finding
  <2>2. Head(batch).arg \in Bodies
    BY <2>1, TakeTypes
  <2>3. /\ Head(batch).arg \in BusTexts("FindingEmitted")
        /\ "FindingEmitted" \in BusKinds
    BY <2>2 DEF BusTexts, BusKinds
  <2>4. findings' \in Seq(Bodies)
    BY <1>0, <2>1, <2>2, AppendTypes
  <2> QED BY <1>0, <1>b, <2>1, <2>3, <2>4, SayTypes
<1>10. CASE Summary
  <2>1. /\ Take("Summary") /\ summary' = Head(batch).arg
        /\ UNCHANGED <<hpc, out, findings, knownError, jobVars, phaseVars>>
    BY <1>10 DEF Summary
  <2>2. summary' \in Texts /\ batch' \in Seq(InterpreterEvents)
    BY <2>1, TakeTypes DEF TextKinds
  <2>3. UNCHANGED <<lines, bus, disabled, endVars>>
    BY <2>1 DEF Take
  <2> QED BY <2>1, <2>2, <2>3 DEF HostTypes, TypeOK, endVars
<1> QED BY <1>1, <1>2, <1>3, <1>4, <1>5, <1>6, <1>7, <1>8, <1>9, <1>10 DEF ApplyEvent

LEMMA InitTypes == Init => HostTypes
<1> SUFFICES ASSUME Init PROVE HostTypes
  OBVIOUS
<1>1. <<>> \in Seq(BusEvents) /\ <<>> \in Seq(InterpreterEvents)
      /\ <<>> \in Seq(Bodies) /\ <<>> \in Seq(Nat)
  OBVIOUS
<1>2. NoOutcome \in Results
  BY <1>1 DEF NoOutcome, Results
<1>3. /\ lines \in 0..MaxLines /\ fresh \in Nat /\ current \in Nat
  BY HostAssumption DEF Init, NoPhase
<1>4. /\ hpc = "read" /\ out.kind = "none"
      /\ \A i \in DOMAIN bus : IsEvent(bus[i])
  BY DEF Init, NoEvent, Event
<1>5. /\ {summary, knownError, label} \subseteq Texts \cup {"none"}
      /\ progress \in Normalized
      /\ exit \in ExitCodes \cup {"none"}
  BY DEF Init, Normalized
<1>6. disabled \in BOOLEAN /\ (drained => exit # "none")
  BY DEF Init
<1>7. /\ batch \in Seq(InterpreterEvents) /\ stack \in Seq(Nat)
      /\ findings \in Seq(Bodies) /\ outcome \in Results /\ bus \in Seq(BusEvents)
  BY <1>1, <1>2 DEF Init
<1>8. TypeOK
  BY <1>3, <1>4, <1>5, <1>6, <1>7 DEF TypeOK
<1> QED BY <1>4, <1>7, <1>8 DEF HostTypes

LEMMA OutcomeTypes ==
  ASSUME HostTypes, NEW wasCancelled \in BOOLEAN, NEW timedOut \in BOOLEAN
  PROVE  ComputeOutcome(wasCancelled, timedOut) \in Results
<1>1. /\ summary \in Texts \cup {"none"} /\ knownError \in Texts \cup {"none"}
      /\ findings \in Seq(Bodies)
  BY DEF HostTypes, TypeOK
<1>2. ASSUME NEW kind \in {"Cancelled", "Failed", "Succeeded"},
             NEW reason \in {"none", "Timeout", "KnownError", "Signal", "NonZeroExit"},
             NEW known \in Texts \cup {"none"}
      PROVE  /\ Result(kind, reason, known) \in Results
             /\ [Result(kind, reason, known) EXCEPT !.summary = "none"] \in Results
  BY <1>1 DEF Result, Results
<1> QED BY <1>1, <1>2 DEF ComputeOutcome

\* A step of the driver that broadcasts an event keeps the types if all else
\* it changes does.
LEMMA BroadcastTypes ==
  ASSUME HostTypes, NEW e \in BusEvents, bus' = Append(bus, e)
  PROVE  bus' \in Seq(BusEvents) /\ \A i \in DOMAIN bus' : IsEvent(bus'[i])
<1>1. Append(bus, e) \in Seq(BusEvents)
  BY AppendTypes DEF HostTypes
<1>2. bus' \in Seq(BusEvents)
  BY <1>1, Zenon
<1> QED BY <1>2, EventTypes

LEMMA NextTypes == HostTypes /\ [Next]_hostVars => HostTypes'
<1> SUFFICES ASSUME HostTypes, [Next]_hostVars PROVE HostTypes'
  OBVIOUS
<1> USE DEF driverVars, jobVars, phaseVars, endVars
<1>0. TypeOK /\ bus \in Seq(BusEvents) /\ (hpc = "emit" => out \in BusEvents)
  BY DEF HostTypes
<1>a. /\ Event("OutputAppended", NoPhase, "none") \in BusEvents
      /\ Event("Exited", NoPhase, "none") \in BusEvents
      /\ Event("InterpreterError", NoPhase, "panic") \in BusEvents
      /\ \A p \in Nat : Event("PhaseExited", p, "none") \in BusEvents
  BY EventTypes DEF NoPhase, BusKinds, BusTexts
<1>1. CASE ProcessLine
  BY <1>0, <1>1, <1>a, BroadcastTypes, HostAssumption DEF ProcessLine, HostTypes, TypeOK
<1>2. CASE ProcessExits
  BY <1>0, <1>2, <1>a, BroadcastTypes DEF ProcessExits, HostTypes, TypeOK
<1>3. CASE FinishReading
  BY <1>0, <1>3 DEF FinishReading, HostTypes, TypeOK
<1>4. CASE Emit
  <2>1. out.kind' = "none"
    BY <1>4 DEF Emit, NoEvent, Event
  <2> QED BY <1>0, <1>4, <2>1, BroadcastTypes DEF Emit, HostTypes, TypeOK
<1>5. CASE ApplyEvent
  BY <1>5, ApplyTypes
<1>6. CASE Applied
  BY <1>0, <1>6 DEF Applied, HostTypes, TypeOK
<1>7. CASE CloseInnermost
  <2>1. /\ bus' = Append(bus, Event("PhaseExited", Top(stack), "none"))
        /\ stack' = Pop(stack) /\ stack # <<>>
        /\ UNCHANGED <<hpc, current, lines, batch, out, fresh, driverVars, jobVars,
                       disabled, endVars>>
        /\ hpc = "close"
    BY <1>7 DEF CloseInnermost, CloseUnchanged
  <2>2. stack' \in Seq(Nat) /\ Top(stack) \in Nat
    BY <1>0, <2>1, StackTypes DEF TypeOK
  <2>3. bus' \in Seq(BusEvents) /\ \A i \in DOMAIN bus' : IsEvent(bus'[i])
    BY <1>a, <2>1, <2>2, BroadcastTypes
  <2> HIDE DEF driverVars, jobVars, phaseVars, endVars
  <2> QED BY <1>0, <2>1, <2>2, <2>3
          DEF HostTypes, TypeOK, driverVars, jobVars, endVars
<1>8. CASE AllClosed
  BY <1>0, <1>8 DEF AllClosed, CloseUnchanged, HostTypes, TypeOK, NoPhase
<1>9. CASE Judge
  <2>1. outcome' \in Results
    BY <1>9, OutcomeTypes DEF Judge
  <2> QED BY <1>0, <1>9, <2>1 DEF Judge, HostTypes, TypeOK
<1>10. ASSUME NEW reply \in Replies, CallReturns(reply) PROVE HostTypes'
  <2>1. batch' \in Seq(InterpreterEvents)
    BY <1>10, HostAssumption DEF CallReturns
  <2> QED BY <1>0, <1>10, <2>1 DEF CallReturns, HostTypes, TypeOK
<1>11. CASE CallPanics
  <2>1. out' \in BusEvents /\ hpc' = "emit"
    BY <1>11, <1>a DEF CallPanics
  <2>2. IsEvent(out)'
    BY <2>1, EventTypes
  <2> QED BY <1>0, <1>11, <2>1, <2>2 DEF CallPanics, HostTypes, TypeOK
<1>12. CASE UNCHANGED hostVars
  BY <1>0, <1>12 DEF hostVars, HostTypes, TypeOK, IsEvent
<1> QED BY <1>1, <1>2, <1>3, <1>4, <1>5, <1>6, <1>7, <1>8, <1>9, <1>10, <1>11, <1>12
        DEF Next, HostStep, Judged

-----------------------------------------------------------------------------
(* One event more, seen from the invariant.                                *)

LEMMA TopIsInnermost ==
  ASSUME NEW st \in Seq(Nat), NEW next \in Nat, NEW s, StackIs(st, next, s), st # <<>>
  PROVE  IsInnermost(Top(st), s, Len(s) + 1)
<1>1. Len(st) \in Nat /\ Len(st) > 0 /\ Top(st) = st[Len(st)]
  BY StackTypes
<1>2. DOMAIN st = 1..Len(st)
  OBVIOUS
<1>3. Top(st) \in Elements(st)
  BY <1>1, <1>2 DEF Elements
<1>4. ASSUME NEW k \in DOMAIN st PROVE st[k] <= Top(st)
  <2>1. st[k] \in Nat /\ st[Len(st)] \in Nat
    BY <1>1, <1>2
  <2>2. k < Len(st) => st[k] < st[Len(st)]
    BY <1>1, <1>2 DEF StackIs
  <2>3. k < Len(st) \/ k = Len(st)
    BY <1>1, <1>2
  <2> QED BY <1>1, <2>1, <2>2, <2>3
<1> QED BY <1>3, <1>4 DEF StackIs, IsInnermost, Elements

LEMMA EnterKeeps ==
  ASSUME NEW st \in Seq(Nat), NEW next \in Nat, NEW s, NEW e, NEW t,
         StackIs(st, next, s), IsNext(s, e, t),
         e.kind = "PhaseEntered", e.phase = next
  PROVE  StackIs(Append(st, next), next + 1, t)
<1> DEFINE n == Len(st)
           up == Append(st, next)
           E == Entered(s, Len(s) + 1)
           X == Exited(s, Len(s) + 1)
<1>1. n \in Nat /\ DOMAIN st = 1..n /\ \A k \in 1..n : st[k] \in Nat
  OBVIOUS
<1>2. DOMAIN up = 1..(n + 1) /\ up[n + 1] = next /\ \A k \in 1..n : up[k] = st[k]
  OBVIOUS
<1>3. /\ next > 0
      /\ \A k \in 1..n : 0 < st[k] /\ st[k] < next
      /\ \A k, m \in 1..n : k < m => st[k] < st[m]
      /\ \A p \in E \cup X : p < next
      /\ E \ X = Elements(st)
      /\ Bracketed(s)
  BY <1>1 DEF StackIs, Open
<1>4. /\ Entered(t, Len(t) + 1) = E \cup {next}
      /\ Exited(t, Len(t) + 1) = X
  BY EdgesNext
<1>5. Bracketed(t)
  BY <1>3, BracketedNext DEF Allowed
<1> HIDE DEF n, up, E, X
<1>6. next \notin X
  BY <1>3
<1>7. Elements(up) = Elements(st) \cup {next}
  <2>1. \A k \in 1..(n + 1) : k \in 1..n \/ k = n + 1
    BY <1>1
  <2> QED BY <1>1, <1>2, <2>1 DEF Elements
<1>8. Open(t, Len(t) + 1) = Elements(up)
  BY <1>3, <1>4, <1>6, <1>7 DEF Open
<1>9. \A p \in E \cup {next} \cup X : p < next + 1
  <2>1. ASSUME NEW p \in E \cup X PROVE p < next + 1
    <3>1. p < next
      BY <1>3
    <3>2. p \in Nat
      BY PhaseNumbers DEF PhasesAreNat, IsNext, E, X
    <3> QED BY <3>1, <3>2
  <2> QED BY <2>1
<1>10. \A k \in 1..(n + 1) : 0 < up[k] /\ up[k] < next + 1
  BY <1>1, <1>2, <1>3
<1>11. \A k, m \in 1..(n + 1) : k < m => up[k] < up[m]
  BY <1>1, <1>2, <1>3
<1>12. StackIs(up, next + 1, t)
  BY <1>2, <1>3, <1>4, <1>5, <1>8, <1>9, <1>10, <1>11 DEF StackIs
<1> QED BY <1>12, Zenon DEF up

LEMMA ExitKeeps ==
  ASSUME NEW st \in Seq(Nat), NEW next \in Nat, NEW s, NEW e, NEW t,
         StackIs(st, next, s), IsNext(s, e, t), st # <<>>,
         e.kind = "PhaseExited", e.phase = Top(st)
  PROVE  StackIs(Pop(st), next, t)
<1> DEFINE n == Len(st)
           down == Pop(st)
           E == Entered(s, Len(s) + 1)
           X == Exited(s, Len(s) + 1)
<1>1. n \in Nat /\ n > 0 /\ DOMAIN st = 1..n /\ \A k \in 1..n : st[k] \in Nat
  BY StackTypes
<1>2. /\ DOMAIN down = 1..(n - 1) /\ \A k \in 1..(n - 1) : down[k] = st[k]
      /\ Top(st) = st[n]
  BY StackTypes
<1>3. /\ next > 0
      /\ \A k \in 1..n : 0 < st[k] /\ st[k] < next
      /\ \A k, m \in 1..n : k < m => st[k] < st[m]
      /\ \A p \in E \cup X : p < next
      /\ E \ X = Elements(st)
      /\ Bracketed(s)
  BY <1>1 DEF StackIs, Open
<1>4. /\ Entered(t, Len(t) + 1) = E
      /\ Exited(t, Len(t) + 1) = X \cup {Top(st)}
  BY EdgesNext
<1>5. Bracketed(t)
  BY <1>3, BracketedNext, TopIsInnermost DEF Allowed
<1> HIDE DEF n, down, E, X
<1>6. Elements(down) = Elements(st) \ {st[n]}
  <2>1. \A k \in 1..n : k \in 1..(n - 1) \/ k = n
    BY <1>1
  <2>2. \A k \in 1..(n - 1) : k \in 1..n /\ st[k] # st[n]
    BY <1>1, <1>3
  <2> QED BY <1>1, <1>2, <2>1, <2>2 DEF Elements
<1>7. Open(t, Len(t) + 1) = Elements(down)
  BY <1>2, <1>3, <1>4, <1>6 DEF Open
<1>8. Top(st) < next
  BY <1>1, <1>2, <1>3
<1>9. /\ \A k \in 1..(n - 1) : 0 < down[k] /\ down[k] < next
      /\ \A k, m \in 1..(n - 1) : k < m => down[k] < down[m]
  BY <1>1, <1>2, <1>3
<1>10. StackIs(down, next, t)
  BY <1>2, <1>3, <1>4, <1>5, <1>7, <1>8, <1>9 DEF StackIs
<1> QED BY <1>10, Zenon DEF down

LEMMA OtherKeeps ==
  ASSUME NEW st \in Seq(Nat), NEW next \in Nat, NEW s, NEW e, NEW t,
         StackIs(st, next, s), IsNext(s, e, t),
         e.kind \notin {"PhaseEntered", "PhaseExited"},
         e.kind = "PhaseUpdated" => st # <<>> /\ e.phase = Top(st)
  PROVE  StackIs(st, next, t)
<1>1. /\ Entered(t, Len(t) + 1) = Entered(s, Len(s) + 1)
      /\ Exited(t, Len(t) + 1) = Exited(s, Len(s) + 1)
  BY EdgesNext
<1>2. Open(t, Len(t) + 1) = Open(s, Len(s) + 1)
  BY <1>1 DEF Open
<1>3. Allowed(s, e)
  BY TopIsInnermost DEF Allowed
<1>4. Bracketed(t)
  BY <1>3, BracketedNext DEF StackIs
<1> QED BY <1>1, <1>2, <1>4 DEF StackIs

LEMMA SilenceKeeps ==
  ASSUME NEW s, NEW e, NEW t, IsNext(s, e, t), Silenced(s),
         HasPanic(s) => e.kind \in AfterPanic
  PROVE  Silenced(t) /\ (HasPanic(t) <=> HasPanic(s) \/ IsPanic(e))
<1> DEFINE n == Len(s)
<1>1. /\ DOMAIN t = 1..(n + 1) /\ DOMAIN s = 1..n /\ n \in Nat
      /\ \A i \in 1..n : t[i] = s[i]
      /\ t[n + 1] = e
  BY NextStream
<1> HIDE DEF n
<1>2. \A i \in 1..(n + 1) : i \in 1..n \/ i = n + 1
  BY <1>1
<1>3. ASSUME NEW i \in 1..(n + 1), NEW k \in 1..(n + 1), IsPanic(t[i]), i < k
      PROVE  t[k].kind \in AfterPanic
  <2>1. i \in 1..n /\ s[i] = t[i]
    BY <1>1, <1>2, <1>3
  <2>2. CASE k \in 1..n
    BY <1>1, <1>3, <2>1, <2>2 DEF Silenced
  <2>3. CASE k = n + 1
    BY <1>1, <1>3, <2>1, <2>3 DEF HasPanic
  <2> QED BY <1>2, <2>2, <2>3
<1> QED BY <1>1, <1>2, <1>3 DEF Silenced, HasPanic

-----------------------------------------------------------------------------
(* What a step of the driver announces.                                    *)

\* Can the interpreter still be heard?
Heard == ~(disabled /\ batch = <<>>)

\* A step that announces nothing.
Silent ==
  /\ Announced' = Announced
  /\ UNCHANGED <<progress, label, stack, fresh, knownError, findings>>
  /\ UNCHANGED <<batch, disabled>> \/ Heard

\* what an event announced does to the stack
Enters(e) == /\ e.kind = "PhaseEntered" /\ e.phase = fresh
             /\ stack' = Append(stack, fresh) /\ fresh' = fresh + 1
Exits(e) == /\ stack # <<>>
            /\ e.kind = "PhaseExited" /\ e.phase = Top(stack)
            /\ stack' = Pop(stack) /\ fresh' = fresh
Stays(e) == /\ e.kind \notin {"PhaseEntered", "PhaseExited"}
            /\ e.kind = "PhaseUpdated" => stack # <<>> /\ e.phase = Top(stack)
            /\ UNCHANGED <<stack, fresh>>

\* what it does to the bar and the label
Shows(e) ==
  /\ progress' = IF e.kind = "ProgressUpdated" THEN e.text ELSE progress
  /\ label' = IF e.kind = "LabelUpdated" THEN e.text ELSE label

\* to what is kept for the outcome
Tells(e) ==
  /\ knownError' = IF e.kind = "KnownErrorDetected" THEN e.text ELSE knownError
  /\ findings' = IF e.kind = "FindingEmitted" THEN Append(findings, e.text)
                                             ELSE findings

\* and who may say it
Voice(e) == \/ e.kind \in AfterPanic /\ UNCHANGED <<batch, disabled>>
            \/ Heard /\ (IsPanic(e) => disabled' /\ batch' = <<>>)

Speaks(e) == /\ IsNext(Announced, e, Announced')
             /\ Enters(e) \/ Exits(e) \/ Stays(e)
             /\ Shows(e) /\ Tells(e)
             /\ Voice(e)

LEMMA EventFields ==
  ASSUME NEW kind, NEW phase, NEW text
  PROVE  /\ Event(kind, phase, text).kind = kind
         /\ Event(kind, phase, text).phase = phase
         /\ Event(kind, phase, text).text = text
  BY DEF Event

\* Applying an event announces what it says, while the interpreter is heard.
LEMMA SayShape ==
  ASSUME HostTypes, HostTypes', NEW kind, Take(kind),
         NEW k, NEW p, NEW text, Say(k, p, text)
  PROVE  /\ IsNext(Announced, out', Announced')
         /\ out'.kind = k /\ out'.phase = p /\ out'.text = text
         /\ Heard
<1>1. /\ hpc = "apply" /\ batch # <<>> /\ bus' = bus
      /\ hpc' = "emit" /\ out' = Event(k, p, text)
  BY DEF Take, Say
<1>2. bus \in Seq(BusEvents) /\ out' \in BusEvents
  BY <1>1 DEF HostTypes
<1>3. Announced = bus /\ Announced' = Append(bus, out')
  BY <1>1 DEF Announced
<1>4. IsNext(Announced, out', Announced')
  BY <1>2, <1>3 DEF IsNext
<1>5. Heard
  BY <1>1 DEF Heard
<1>6. out'.kind = k /\ out'.phase = p /\ out'.text = text
  BY <1>1, EventFields
<1> QED BY <1>4, <1>5, <1>6

LEMMA ApplyShape ==
  ASSUME HostTypes, HostTypes', ApplyEvent
  PROVE  Silent \/ \E e : Speaks(e)
<1> USE DEF driverVars, jobVars, phaseVars
<1>1. CASE EnterPhase
  <2>1. Take("EnterPhase") /\ Say("PhaseEntered", fresh, Head(batch).arg)
    BY <1>1 DEF EnterPhase
  <2>2. /\ IsNext(Announced, out', Announced') /\ Heard
        /\ out'.kind = "PhaseEntered" /\ out'.phase = fresh
    BY <2>1, SayShape
  <2>3. Enters(out') /\ Shows(out') /\ Tells(out')
    BY <1>1, <2>2 DEF EnterPhase, Enters, Shows, Tells
  <2>4. Voice(out')
    BY <2>2 DEF Voice, IsPanic
  <2> QED BY <2>2, <2>3, <2>4 DEF Speaks
<1>2. CASE UpdatePhase
  <2>1. Take("UpdatePhase") /\ UNCHANGED <<progress, label, stack, fresh, knownError, findings>>
    BY <1>2 DEF UpdatePhase
  <2>2. CASE stack = <<>>
    <3>1. Say("InterpreterError", NoPhase, "mismatch")
      BY <1>2, <2>2 DEF UpdatePhase, Mismatch
    <3>2. /\ IsNext(Announced, out', Announced') /\ Heard
          /\ out'.kind = "InterpreterError" /\ out'.text = "mismatch"
      BY <2>1, <3>1, SayShape
    <3> QED BY <2>1, <3>2 DEF Speaks, Stays, Shows, Tells, Voice, IsPanic
  <2>3. CASE stack # <<>>
    <3>1. Say("PhaseUpdated", Top(stack), Head(batch).arg)
      BY <1>2, <2>3 DEF UpdatePhase
    <3>2. /\ IsNext(Announced, out', Announced') /\ Heard
          /\ out'.kind = "PhaseUpdated" /\ out'.phase = Top(stack)
      BY <2>1, <3>1, SayShape
    <3> QED BY <2>1, <2>3, <3>2 DEF Speaks, Stays, Shows, Tells, Voice, IsPanic
  <2> QED BY <2>2, <2>3
<1>3. CASE ExitPhase
  <2>1. Take("ExitPhase") /\ UNCHANGED <<progress, label, fresh, knownError, findings>>
    BY <1>3 DEF ExitPhase
  <2>2. CASE stack = <<>>
    <3>1. Say("InterpreterError", NoPhase, "mismatch") /\ stack' = stack
      BY <1>3, <2>2 DEF ExitPhase, Mismatch
    <3>2. /\ IsNext(Announced, out', Announced') /\ Heard
          /\ out'.kind = "InterpreterError" /\ out'.text = "mismatch"
      BY <2>1, <3>1, SayShape
    <3> QED BY <2>1, <3>1, <3>2 DEF Speaks, Stays, Shows, Tells, Voice, IsPanic
  <2>3. CASE stack # <<>>
    <3>1. Say("PhaseExited", Top(stack), "none") /\ stack' = Pop(stack)
      BY <1>3, <2>3 DEF ExitPhase
    <3>2. /\ IsNext(Announced, out', Announced') /\ Heard
          /\ out'.kind = "PhaseExited" /\ out'.phase = Top(stack)
      BY <2>1, <3>1, SayShape
    <3> QED BY <2>1, <2>3, <3>1, <3>2 DEF Speaks, Exits, Shows, Tells, Voice, IsPanic
  <2> QED BY <2>2, <2>3
<1>4. CASE Progress
  <2>1. /\ Take("Progress") /\ Say("ProgressUpdated", NoPhase, progress')
        /\ UNCHANGED <<label, stack, fresh, knownError, findings>>
    BY <1>4 DEF Progress
  <2>2. /\ IsNext(Announced, out', Announced') /\ Heard
        /\ out'.kind = "ProgressUpdated" /\ out'.text = progress'
    BY <2>1, SayShape
  <2> QED BY <2>1, <2>2 DEF Speaks, Stays, Shows, Tells, Voice, IsPanic
<1>5. CASE Label
  <2>1. /\ Take("Label") /\ Say("LabelUpdated", NoPhase, label')
        /\ UNCHANGED <<progress, stack, fresh, knownError, findings>>
    BY <1>5 DEF Label
  <2>2. /\ IsNext(Announced, out', Announced') /\ Heard
        /\ out'.kind = "LabelUpdated" /\ out'.text = label'
    BY <2>1, SayShape
  <2> QED BY <2>1, <2>2 DEF Speaks, Stays, Shows, Tells, Voice, IsPanic
<1>6. ASSUME NEW kind \in TextKinds \cup {"Finding"},
             NEW k \in {"WarningDetected", "PromptDetected", "KnownErrorDetected",
                       "FindingEmitted"},
             Take(kind), Say(k, NoPhase, Head(batch).arg),
             UNCHANGED <<progress, label, stack, fresh>>,
             knownError' = IF k = "KnownErrorDetected" THEN Head(batch).arg
                           ELSE knownError,
             findings' = IF k = "FindingEmitted" THEN Append(findings, Head(batch).arg)
                         ELSE findings
      PROVE  \E e : Speaks(e)
  <2>1. /\ IsNext(Announced, out', Announced') /\ Heard
        /\ out'.kind = k /\ out'.text = Head(batch).arg
    BY <1>6, SayShape
  <2>2. Tells(out')
    BY <1>6, <2>1 DEF Tells
  <2> QED BY <1>6, <2>1, <2>2 DEF Speaks, Stays, Shows, Voice, IsPanic
<1>w. CASE Warning
  <2>1. /\ Take("Warning") /\ Say("WarningDetected", NoPhase, Head(batch).arg)
        /\ UNCHANGED <<progress, label, stack, fresh, knownError, findings>>
    BY <1>w DEF Warning
  <2> QED BY <1>6, <2>1 DEF TextKinds
<1>p. CASE Prompt
  <2>1. /\ Take("Prompt") /\ Say("PromptDetected", NoPhase, Head(batch).arg)
        /\ UNCHANGED <<progress, label, stack, fresh, knownError, findings>>
    BY <1>p DEF Prompt
  <2> QED BY <1>6, <2>1 DEF TextKinds
<1>k. CASE KnownError
  <2>1. /\ Take("KnownError") /\ Say("KnownErrorDetected", NoPhase, Head(batch).arg)
        /\ knownError' = Head(batch).arg
        /\ UNCHANGED <<progress, label, stack, fresh, findings>>
    BY <1>k DEF KnownError
  <2> QED BY <1>6, <2>1 DEF TextKinds
<1>f. CASE Finding
  <2>1. /\ Take("Finding") /\ Say("FindingEmitted", NoPhase, Head(batch).arg)
        /\ findings' = Append(findings, Head(batch).arg)
        /\ UNCHANGED <<progress, label, stack, fresh, knownError>>
    BY <1>f DEF Finding
  <2> QED BY <1>6, <2>1 DEF TextKinds
<1>7. CASE Summary
  <2>1. /\ hpc = "apply" /\ hpc' = hpc /\ bus' = bus /\ batch # <<>>
        /\ UNCHANGED <<progress, label, stack, fresh, knownError, findings>>
    BY <1>7 DEF Summary, Take
  <2> QED BY <2>1 DEF Silent, Announced, Heard
<1> HIDE DEF driverVars, jobVars, phaseVars
<1> DEFINE Goal == Silent \/ \E e : Speaks(e)
<1>g. (\A e : Speaks(e) => Goal) /\ (Silent => Goal)
  OBVIOUS
<1> HIDE DEF Goal
<1>z. Goal
  BY <1>g, <1>1, <1>2, <1>3, <1>4, <1>5, <1>w, <1>p, <1>k, <1>f, <1>7 DEF ApplyEvent
<1> QED BY <1>z DEF Goal

\* Every step of the driver announces one event or none.
LEMMA StepShape ==
  ASSUME HostTypes, HostTypes', ControlInv, [Next]_hostVars
  PROVE  Silent \/ \E e : Speaks(e)
<1> USE DEF driverVars, jobVars, phaseVars, endVars
<1>a. ASSUME NEW e \in BusEvents, hpc # "emit", hpc' # "emit", bus' = Append(bus, e)
      PROVE  IsNext(Announced, e, Announced')
  BY <1>a DEF HostTypes, IsNext, Announced
<1>b. /\ Event("OutputAppended", NoPhase, "none") \in BusEvents
      /\ Event("Exited", NoPhase, "none") \in BusEvents
      /\ \A p \in Nat : Event("PhaseExited", p, "none") \in BusEvents
  BY EventTypes DEF NoPhase, BusKinds, BusTexts
<1>1. CASE ProcessLine
  <2> DEFINE e == Event("OutputAppended", NoPhase, "none")
  <2>1. IsNext(Announced, e, Announced')
    BY <1>1, <1>a, <1>b DEF ProcessLine
  <2>2. e.kind = "OutputAppended"
    BY EventFields
  <2> HIDE DEF e
  <2> QED BY <1>1, <2>1, <2>2 DEF ProcessLine, Speaks, Stays, Shows, Tells, Voice, AfterPanic
<1>2. CASE ProcessExits
  <2> DEFINE e == Event("Exited", NoPhase, "none")
  <2>1. IsNext(Announced, e, Announced')
    BY <1>2, <1>a, <1>b DEF ProcessExits
  <2>2. e.kind = "Exited"
    BY EventFields
  <2> HIDE DEF e
  <2> QED BY <1>2, <2>1, <2>2 DEF ProcessExits, Speaks, Stays, Shows, Tells, Voice, AfterPanic
<1>3. CASE CloseInnermost
  <2> DEFINE e == Event("PhaseExited", Top(stack), "none")
  <2>1. Top(stack) \in Nat
    BY StackTypes DEF HostTypes, TypeOK
  <2>2. IsNext(Announced, e, Announced')
    BY <1>3, <1>a, <1>b, <2>1 DEF CloseInnermost
  <2>3. e.kind = "PhaseExited" /\ e.phase = Top(stack)
    BY EventFields
  <2> HIDE DEF e
  <2> QED BY <1>3, <2>2, <2>3
          DEF CloseInnermost, CloseUnchanged, Speaks, Exits, Shows, Tells, Voice, AfterPanic
<1>4. CASE CallPanics
  <2>1. /\ hpc = "call" /\ hpc' = "emit" /\ bus' = bus /\ disabled'
        /\ out' = Event("InterpreterError", NoPhase, "panic")
        /\ UNCHANGED <<batch, progress, label, stack, fresh, knownError, findings>>
    BY <1>4 DEF CallPanics
  <2>2. ~disabled /\ batch = <<>>
    BY <2>1 DEF ControlInv
  <2>3. IsNext(Announced, out', Announced')
    BY <2>1 DEF HostTypes, IsNext, Announced
  <2>4. out'.kind = "InterpreterError"
    BY <2>1, EventFields
  <2> QED BY <2>1, <2>2, <2>3, <2>4 DEF Speaks, Stays, Shows, Tells, Voice, Heard
<1>5. CASE ApplyEvent
  BY <1>5, ApplyShape
<1>6. CASE Emit
  BY <1>6 DEF Emit, Silent, Announced
<1>7. CASE Applied
  BY <1>7 DEF Applied, Silent, Announced
<1>8. CASE FinishReading
  BY <1>8 DEF FinishReading, Silent, Announced
<1>9. CASE AllClosed
  BY <1>9 DEF AllClosed, CloseUnchanged, Silent, Announced
<1>10. CASE Judge
  BY <1>10 DEF Judge, Silent, Announced
<1>11. ASSUME NEW reply \in Replies, CallReturns(reply) PROVE Silent
  BY <1>11 DEF CallReturns, ControlInv, Silent, Announced, Heard
<1>12. CASE UNCHANGED hostVars
  BY <1>12 DEF hostVars, Silent, Announced
<1> HIDE DEF driverVars, jobVars, phaseVars, endVars
<1> DEFINE Goal == Silent \/ \E e : Speaks(e)
<1>g. (\A e : Speaks(e) => Goal) /\ (Silent => Goal)
  OBVIOUS
<1> HIDE DEF Goal
<1>z. Goal
  BY <1>g, <1>1, <1>2, <1>3, <1>4, <1>5, <1>6, <1>7, <1>8, <1>9, <1>10, <1>11, <1>12
     DEF Next, HostStep, Judged
<1> QED BY <1>z DEF Goal

-----------------------------------------------------------------------------
(* The invariant.                                                          *)

LEMMA ControlKept ==
  ASSUME HostTypes, ControlInv, [Next]_hostVars
  PROVE  ControlInv'
<1> USE DEF driverVars, jobVars, phaseVars, endVars
<1>1. CASE ProcessLine
  BY <1>1 DEF ProcessLine, ControlInv
<1>2. CASE ProcessExits
  BY <1>2 DEF ProcessExits, ControlInv
<1>3. CASE FinishReading
  BY <1>3 DEF FinishReading, ControlInv
<1>4. CASE Emit
  BY <1>4 DEF Emit, ControlInv
<1>5. CASE EnterPhase
  <2>1. stack \in Seq(Nat) /\ fresh \in Nat
    BY DEF HostTypes, TypeOK
  <2>2. Append(stack, fresh) # <<>> /\ Last(Append(stack, fresh)) = fresh
    BY <2>1 DEF Last
  <2>3. Top(Append(stack, fresh)) = fresh
    BY <2>2, Zenon DEF Top
  <2>4. hpc' = "emit" /\ stack' = Append(stack, fresh) /\ current' = fresh
    BY <1>5 DEF EnterPhase, Say
  <2>5. current' = Top(stack')
    BY <2>3, <2>4, Zenon
  <2> QED BY <2>4, <2>5 DEF ControlInv
<1>6. CASE ExitPhase
  <2>1. hpc = "apply" /\ hpc' = "emit"
    BY <1>6 DEF ExitPhase, Take, Say, Mismatch
  <2>2. current' = Top(stack')
    <3>1. CASE stack = <<>>
      BY <1>6, <2>1, <3>1 DEF ExitPhase, ControlInv
    <3>2. CASE stack # <<>>
      BY <1>6, <3>2 DEF ExitPhase
    <3> QED BY <3>1, <3>2
  <2> QED BY <2>1, <2>2 DEF ControlInv
<1>7. ASSUME NEW kind, Take(kind), hpc' \in {"apply", "emit"},
             UNCHANGED <<stack, current>>
      PROVE  ControlInv'
  BY <1>7 DEF Take, ControlInv
<1>8. CASE UpdatePhase
  BY <1>7, <1>8 DEF UpdatePhase, Mismatch, Say
<1>9. CASE Progress
  BY <1>7, <1>9 DEF Progress, Say
<1>10. CASE Label
  BY <1>7, <1>10 DEF Label, Say
<1>11. CASE Warning
  BY <1>7, <1>11 DEF Warning, Say
<1>12. CASE Prompt
  BY <1>7, <1>12 DEF Prompt, Say
<1>13. CASE KnownError
  BY <1>7, <1>13 DEF KnownError, Say
<1>14. CASE Finding
  BY <1>7, <1>14 DEF Finding, Say
<1>15. CASE Summary
  <2>1. hpc = "apply"
    BY <1>15 DEF Summary, Take
  <2> QED BY <1>7, <1>15, <2>1 DEF Summary
<1>16. CASE Applied
  BY <1>16 DEF Applied, ControlInv
<1>17. CASE CloseInnermost
  BY <1>17 DEF CloseInnermost, CloseUnchanged, ControlInv
<1>18. CASE AllClosed
  BY <1>18 DEF AllClosed, CloseUnchanged, ControlInv, Top
<1>19. CASE Judge
  BY <1>19 DEF Judge, ControlInv
<1>20. ASSUME NEW reply \in Replies, CallReturns(reply) PROVE ControlInv'
  BY <1>20 DEF CallReturns, ControlInv
<1>21. CASE CallPanics
  BY <1>21 DEF CallPanics, ControlInv
<1>22. CASE UNCHANGED hostVars
  BY <1>22 DEF hostVars, ControlInv, Top, Last
<1> HIDE DEF driverVars, jobVars, phaseVars, endVars
<1> QED BY <1>1, <1>2, <1>3, <1>4, <1>5, <1>6, <1>8, <1>9, <1>10, <1>11, <1>12, <1>13,
           <1>14, <1>15, <1>16, <1>17, <1>18, <1>19, <1>20, <1>21, <1>22
        DEF Next, HostStep, ApplyEvent, Judged

LEMMA InitHolds == Init => HostInv
<1> SUFFICES ASSUME Init PROVE HostInv
  OBVIOUS
<1>1. /\ hpc = "read" /\ batch = <<>> /\ bus = <<>> /\ stack = <<>>
      /\ fresh = 1 /\ current = NoPhase /\ progress = NoBar /\ label = "none"
  BY DEF Init
<1>2. Announced = <<>>
  BY <1>1 DEF Announced
<1>3. \A i, kind : Before(<<>>, i, kind) = {}
  BY DEF Before
<1>4. StackIs(<<>>, 1, <<>>)
  <2>1. \A i : Entered(<<>>, i) = {} /\ Exited(<<>>, i) = {} /\ Open(<<>>, i) = {}
    BY <1>3 DEF Entered, Exited, Open
  <2>2. Elements(<<>>) = {} /\ Bracketed(<<>>)
    BY DEF Elements, Bracketed
  <2> QED BY <2>1, <2>2 DEF StackIs
<1>5. ControlInv
  BY <1>1 DEF ControlInv, Top
<1>6. BarInv
  <2>1. \A kind, default : Latest(<<>>, kind, default) = default
    BY <1>3 DEF Latest
  <2> QED BY <1>1, <1>2, <2>1 DEF BarInv
<1>7. SilenceInv
  BY <1>2 DEF SilenceInv, Silenced, HasPanic
<1>8. StackIs(stack, fresh, Announced)
  BY <1>1, <1>2, <1>4
<1>9. ToldInv
  <2>1. Latest(<<>>, "KnownErrorDetected", "none") = "none"
    BY <1>3 DEF Latest
  <2>2. knownError = "none" /\ findings = <<>>
    BY DEF Init
  <2>3. Listed(<<>>, {}, <<>>)
    BY ListedNone
  <2>4. Before(Announced, Len(Announced) + 1, "FindingEmitted") = {}
    BY <1>2, <1>3
  <2> QED BY <1>2, <2>1, <2>2, <2>3, <2>4, Zenon DEF ToldInv
<1>10. VerdictInv
  BY DEF Init, VerdictInv
<1> QED BY <1>5, <1>6, <1>7, <1>8, <1>9, <1>10, InitTypes DEF HostInv

LEMMA StackKept ==
  ASSUME HostTypes, StackIs(stack, fresh, Announced), NEW e, Speaks(e)
  PROVE  StackIs(stack, fresh, Announced)'
<1> DEFINE s == Announced
           t == Announced'
<1>1. stack \in Seq(Nat) /\ fresh \in Nat /\ IsNext(s, e, t) /\ StackIs(stack, fresh, s)
  BY DEF HostTypes, TypeOK, Speaks
<1>2. Enters(e) \/ Exits(e) \/ Stays(e)
  BY DEF Speaks
<1>3. StackIs(stack, fresh, Announced)' <=> StackIs(stack', fresh', t)
  BY DEF StackIs, Elements
<1> HIDE DEF s, t
<1>4. CASE Enters(e)
  <2>1. StackIs(Append(stack, fresh), fresh + 1, t)
    BY <1>1, <1>4, EnterKeeps DEF Enters
  <2>2. stack' = Append(stack, fresh) /\ fresh' = fresh + 1
    BY <1>4 DEF Enters
  <2> QED BY <1>3, <2>1, <2>2, Zenon
<1>5. CASE Exits(e)
  <2>1. StackIs(Pop(stack), fresh, t)
    BY <1>1, <1>5, ExitKeeps DEF Exits
  <2>2. stack' = Pop(stack) /\ fresh' = fresh
    BY <1>5 DEF Exits
  <2> QED BY <1>3, <2>1, <2>2, Zenon
<1>6. CASE Stays(e)
  <2>1. StackIs(stack, fresh, t)
    BY <1>1, <1>6, OtherKeeps DEF Stays
  <2>2. stack' = stack /\ fresh' = fresh
    BY <1>6 DEF Stays
  <2> QED BY <1>3, <2>1, <2>2, Zenon
<1> QED BY <1>2, <1>4, <1>5, <1>6

LEMMA BarKept ==
  ASSUME BarInv, NEW e, Speaks(e)
  PROVE  BarInv'
<1> DEFINE s == Announced
           t == Announced'
<1>1. /\ IsNext(s, e, t)
      /\ progress = Latest(s, "ProgressUpdated", NoBar)
      /\ label = Latest(s, "LabelUpdated", "none")
      /\ Shows(e)
  BY DEF BarInv, Speaks
<1>2. BarInv' <=> /\ progress' = Latest(t, "ProgressUpdated", NoBar)
                  /\ label' = Latest(t, "LabelUpdated", "none")
  BY DEF BarInv
<1> HIDE DEF s, t
<1>3. "ProgressUpdated" \in BusKinds /\ "LabelUpdated" \in BusKinds
  BY DEF BusKinds
<1>4. Latest(t, "ProgressUpdated", NoBar) =
        IF e.kind = "ProgressUpdated" THEN e.text ELSE progress
  BY <1>1, <1>3, LatestNext
<1>5. Latest(t, "LabelUpdated", "none") =
        IF e.kind = "LabelUpdated" THEN e.text ELSE label
  BY <1>1, <1>3, LatestNext
<1> QED BY <1>1, <1>2, <1>4, <1>5 DEF Shows

LEMMA ToldKept ==
  ASSUME HostTypes, HostTypes', ToldInv, NEW e, Speaks(e)
  PROVE  ToldInv'
<1> DEFINE s == Announced
           t == Announced'
           old == Before(s, Len(s) + 1, "FindingEmitted")
           new == Before(t, Len(t) + 1, "FindingEmitted")
<1>1. /\ IsNext(s, e, t)
      /\ knownError = Latest(s, "KnownErrorDetected", "none")
      /\ Listed(findings, old, s)
      /\ Tells(e)
  BY DEF ToldInv, Speaks
<1>2. ToldInv' <=> /\ knownError' = Latest(t, "KnownErrorDetected", "none")
                   /\ Listed(findings', new, t)
  BY DEF ToldInv, Listed, InOrder
<1>3. Len(s) \in Nat /\ t[Len(s) + 1] = e
  BY <1>1, NextStream
<1>4. "FindingEmitted" \in BusKinds /\ "KnownErrorDetected" \in BusKinds
  BY DEF BusKinds
<1>5. findings \in Seq(Bodies) /\ findings' \in Seq(Bodies)
  BY DEF HostTypes, TypeOK
<1> HIDE DEF s, t
<1>6. knownError' = Latest(t, "KnownErrorDetected", "none")
  BY <1>1, <1>4, LatestNext DEF Tells
<1>7. /\ \A k \in old : k \in 1..Len(s) /\ t[k] = s[k]
      /\ new = old \cup (IF e.kind = "FindingEmitted" THEN {Len(s) + 1} ELSE {})
  BY <1>1, <1>4, BeforeNext
<1> HIDE DEF old, new
<1>8. CASE e.kind = "FindingEmitted"
  <2>1. findings' = Append(findings, t[Len(s) + 1].text)
    BY <1>1, <1>3, <1>8 DEF Tells
  <2>2. new = old \cup {Len(s) + 1}
    BY <1>7, <1>8
  <2>3. /\ Len(s) + 1 \in Int
        /\ \A k \in old : k \in Int /\ k < Len(s) + 1
        /\ \A k \in old : t[k].text = s[k].text
    BY <1>3, <1>7
  <2>4. t[Len(s) + 1].text \in Bodies
    <3>1. Len(findings) \in Nat /\ Len(findings) + 1 \in DOMAIN findings'
      BY <1>5, <2>1
    <3>2. findings'[Len(findings) + 1] = t[Len(s) + 1].text
      BY <1>5, <2>1, <3>1
    <3> QED BY <1>5, <3>1, <3>2
  <2>5. Listed(Append(findings, t[Len(s) + 1].text), old \cup {Len(s) + 1}, t)
    BY <1>1, <1>5, <2>3, <2>4, ListedNext
  <2> QED BY <1>2, <1>6, <2>1, <2>2, <2>5, Zenon
<1>9. CASE e.kind # "FindingEmitted"
  <2>1. findings' = findings /\ new = old
    BY <1>1, <1>7, <1>9 DEF Tells
  <2>2. Listed(findings, old, t)
    BY <1>1, <1>7, ListedSame
  <2> QED BY <1>2, <1>6, <2>1, <2>2, Zenon
<1> QED BY <1>8, <1>9

\* The driver's own steps settle the outcome once and then leave it alone.
LEMMA VerdictHost ==
  ASSUME VerdictInv, HostStep \/ CallPanics \/ UNCHANGED hostVars
  PROVE  VerdictInv'
<1> USE DEF driverVars, jobVars, phaseVars, endVars
<1>1. CASE Judge
  <2>1. /\ hpc' = "done" /\ UNCHANGED <<summary, findings, knownError, exit>>
        /\ \E wasCancelled, timedOut \in BOOLEAN :
             outcome' = ComputeOutcome(wasCancelled, timedOut)
    BY <1>1 DEF Judge
  <2>2. \A c, d : ComputeOutcome(c, d)' = ComputeOutcome(c, d)
    BY <2>1 DEF ComputeOutcome, Result
  <2> QED BY <2>1, <2>2 DEF VerdictInv
<1>2. CASE UNCHANGED hostVars
  <2>1. UNCHANGED <<hpc, outcome, summary, findings, knownError, exit>>
    BY <1>2 DEF hostVars
  <2>2. \A c, d : ComputeOutcome(c, d)' = ComputeOutcome(c, d)
    BY <2>1 DEF ComputeOutcome, Result
  <2> QED BY <2>1, <2>2 DEF VerdictInv
<1>3. ASSUME hpc # "done", hpc' # "done", UNCHANGED outcome
      PROVE  VerdictInv'
  BY <1>3 DEF VerdictInv
<1>4. CASE ProcessLine \/ ProcessExits \/ FinishReading \/ Emit \/ Applied
             \/ CloseInnermost \/ AllClosed \/ CallPanics
  BY <1>3, <1>4 DEF ProcessLine, ProcessExits, FinishReading, Emit, Applied,
                    CloseInnermost, AllClosed, CallPanics, CloseUnchanged
<1>5. CASE ApplyEvent
  <2>1. hpc = "apply" /\ UNCHANGED outcome
    BY <1>5 DEF ApplyEvent, EnterPhase, UpdatePhase, ExitPhase, Progress, Label,
                Warning, Prompt, KnownError, Finding, Summary, Take
  <2>2. hpc' \in {"apply", "emit"}
    BY <1>5, <2>1 DEF ApplyEvent, EnterPhase, UpdatePhase, ExitPhase, Progress,
                      Label, Warning, Prompt, KnownError, Finding, Summary, Say,
                      Mismatch
  <2> QED BY <1>3, <2>1, <2>2
<1> HIDE DEF driverVars, jobVars, phaseVars, endVars
<1> QED BY <1>1, <1>2, <1>4, <1>5 DEF HostStep

LEMMA VerdictCall ==
  ASSUME VerdictInv, NEW reply, CallReturns(reply)
  PROVE  VerdictInv'
  BY DEF VerdictInv, CallReturns, endVars

LEMMA VerdictKept ==
  ASSUME VerdictInv, [Next]_hostVars
  PROVE  VerdictInv'
  BY VerdictHost, VerdictCall DEF Next, Judged

LEMMA SilenceKept ==
  ASSUME SilenceInv, NEW e, Speaks(e)
  PROVE  SilenceInv'
<1> DEFINE s == Announced
           t == Announced'
<1>1. IsNext(s, e, t) /\ Silenced(s) /\ (HasPanic(s) => ~Heard) /\ Voice(e)
  BY DEF SilenceInv, Speaks, Heard
<1>2. SilenceInv' <=> Silenced(t) /\ (HasPanic(t) => disabled' /\ batch' = <<>>)
  BY DEF SilenceInv, Silenced, HasPanic
<1> HIDE DEF s, t
<1>3. HasPanic(s) => e.kind \in AfterPanic /\ UNCHANGED <<batch, disabled>>
  BY <1>1 DEF Voice
<1>4. Silenced(t) /\ (HasPanic(t) <=> HasPanic(s) \/ IsPanic(e))
  BY <1>1, <1>3, SilenceKeeps
<1>5. HasPanic(s) => disabled' /\ batch' = <<>>
  BY <1>1, <1>3 DEF Heard
<1>6. IsPanic(e) => disabled' /\ batch' = <<>>
  <2>1. IsPanic(e) => e.kind \notin AfterPanic
    BY DEF IsPanic, AfterPanic
  <2> QED BY <1>1, <2>1 DEF Voice
<1> QED BY <1>2, <1>4, <1>5, <1>6

LEMMA NextHolds == HostInv /\ [Next]_hostVars => HostInv'
<1> SUFFICES ASSUME HostInv, [Next]_hostVars PROVE HostInv'
  OBVIOUS
<1>1. /\ HostTypes /\ StackIs(stack, fresh, Announced) /\ ControlInv /\ BarInv
      /\ ToldInv /\ VerdictInv /\ SilenceInv
  BY DEF HostInv
<1>2. HostTypes'
  BY <1>1, NextTypes
<1>3. ControlInv' /\ VerdictInv'
  BY <1>1, ControlKept, VerdictKept
<1>4. ASSUME NEW e, Speaks(e)
      PROVE  StackIs(stack, fresh, Announced)' /\ BarInv' /\ ToldInv' /\ SilenceInv'
  BY <1>1, <1>2, <1>4, StackKept, BarKept, ToldKept, SilenceKept
<1>5. ASSUME Silent
      PROVE  StackIs(stack, fresh, Announced)' /\ BarInv' /\ ToldInv' /\ SilenceInv'
  <2>1. /\ Announced' = Announced
        /\ UNCHANGED <<progress, label, stack, fresh, knownError, findings>>
        /\ UNCHANGED <<batch, disabled>> \/ Heard
    BY <1>5 DEF Silent
  <2>2. StackIs(stack, fresh, Announced)'
    <3>1. StackIs(stack, fresh, Announced)' <=> StackIs(stack', fresh', Announced')
      BY DEF StackIs, Elements
    <3> QED BY <1>1, <2>1, <3>1, Zenon
  <2>3. BarInv'
    <3>1. BarInv' <=> /\ progress' = Latest(Announced', "ProgressUpdated", NoBar)
                      /\ label' = Latest(Announced', "LabelUpdated", "none")
      BY DEF BarInv
    <3> QED BY <1>1, <2>1, <3>1 DEF BarInv
  <2>4. SilenceInv'
    <3>1. SilenceInv' <=> /\ Silenced(Announced')
                          /\ HasPanic(Announced') => disabled' /\ batch' = <<>>
      BY DEF SilenceInv
    <3>2. Silenced(Announced) /\ (HasPanic(Announced) => disabled /\ batch = <<>>)
      BY <1>1 DEF SilenceInv
    <3> QED BY <2>1, <3>1, <3>2 DEF Heard
  <2>5. ToldInv'
    <3> DEFINE At(s) == Before(s, Len(s) + 1, "FindingEmitted")
    <3>1. ToldInv' <=>
            /\ knownError' = Latest(Announced', "KnownErrorDetected", "none")
            /\ Listed(findings', At(Announced'), Announced')
      BY DEF ToldInv, Listed, InOrder
    <3>2. /\ knownError = Latest(Announced, "KnownErrorDetected", "none")
          /\ Listed(findings, At(Announced), Announced)
      BY <1>1 DEF ToldInv
    <3> HIDE DEF At
    <3> QED BY <2>1, <3>1, <3>2, Zenon
  <2> QED BY <2>2, <2>3, <2>4, <2>5
<1>6. Silent \/ \E e : Speaks(e)
  BY <1>1, <1>2, StepShape
<1>7. StackIs(stack, fresh, Announced)' /\ BarInv' /\ ToldInv' /\ SilenceInv'
  BY <1>4, <1>5, <1>6
<1> QED BY <1>2, <1>3, <1>7 DEF HostInv

\* The invariant of the driver and its interpreter: the stream announced so
\* far fixes the stack, the snapshot and whether the interpreter is heard.
THEOREM InvariantHolds == Spec => []HostInv
  BY InitHolds, NextHolds, PTL DEF Spec

-----------------------------------------------------------------------------
(* What the invariant gives.                                               *)

\* What is announced is the bus, or the bus and the event `emit` is given.
LEMMA AnnouncedIs ==
  ASSUME HostTypes
  PROVE  /\ hpc # "emit" => Announced = bus
         /\ hpc = "emit" => IsNext(bus, out, Announced)
  BY DEF HostTypes, Announced, IsNext

\* A stack without elements: no phase is open.
LEMMA EmptyStack ==
  ASSUME NEW next, NEW s, StackIs(<<>>, next, s)
  PROVE  Open(s, Len(s) + 1) = {}
  BY DEF StackIs, Elements

\* Every variable of the driver keeps its type: the bar is a fraction in
\* range whatever the interpreter reports, a phase is a number, and `emit` is
\* reached with an event to broadcast and nowhere else.
THEOREM TypeCorrect == Spec => []TypeOK
<1>1. HostInv => TypeOK
  BY DEF HostInv, HostTypes
<1> QED BY <1>1, InvariantHolds, PTL

\* The phases broadcast are well bracketed (exit_open_phases and the
\* ExitPhase arm of apply_events) for any replies and any number of lines.
THEOREM PhasesBracketed == Spec => []PhaseBrackets
<1>1. ASSUME HostInv PROVE PhaseBrackets
  <2>1. HostTypes /\ Bracketed(Announced)
    BY <1>1 DEF HostInv, StackIs
  <2>2. Bracketed(bus)
    BY <2>1, AnnouncedIs, BracketedNext
  <2> QED BY <2>2 DEF PhaseBrackets
<1> QED BY <1>1, InvariantHolds, PTL

\* Once the driver is about to settle the outcome no phase is left open, for
\* a subscriber or in the snapshot.
THEOREM AllPhasesClosed == Spec => []NothingLeftOpen
<1>1. ASSUME HostInv PROVE NothingLeftOpen
  <2> SUFFICES ASSUME hpc \in {"judge", "done"}
               PROVE  Open(bus, Len(bus) + 1) = {} /\ current = NoPhase
    BY DEF NothingLeftOpen
  <2>1. stack = <<>> /\ current = Top(stack)
    BY <1>1 DEF HostInv, ControlInv
  <2>2. Announced = bus
    BY <1>1, AnnouncedIs DEF HostInv
  <2>3. StackIs(<<>>, fresh, bus)
    BY <1>1, <2>1, <2>2, Zenon DEF HostInv
  <2> QED BY <2>1, <2>3, EmptyStack DEF Top
<1> QED BY <1>1, InvariantHolds, PTL

\* The snapshot `Runtime::job` returns is that of the events broadcast and of
\* the one being broadcast.
THEOREM SnapshotFollows == Spec => []SnapshotIsCurrent
<1>1. ASSUME HostInv PROVE SnapshotIsCurrent
  <2>1. /\ progress = Latest(Announced, "ProgressUpdated", NoBar)
        /\ label = Latest(Announced, "LabelUpdated", "none")
    BY <1>1 DEF HostInv, BarInv
  <2>2. ASSUME hpc # "close"
        PROVE  IF current = NoPhase
               THEN Open(Announced, Len(Announced) + 1) = {}
               ELSE IsInnermost(current, Announced, Len(Announced) + 1)
    <3>1. /\ current = Top(stack) /\ StackIs(stack, fresh, Announced)
          /\ stack \in Seq(Nat) /\ fresh \in Nat
      BY <1>1, <2>2 DEF HostInv, ControlInv, HostTypes, TypeOK
    <3>2. CASE stack = <<>>
      <4>1. StackIs(<<>>, fresh, Announced)
        BY <3>1, <3>2, Zenon
      <4>2. current = NoPhase
        BY <3>1, <3>2 DEF Top
      <4> QED BY <4>1, <4>2, EmptyStack
    <3>3. CASE stack # <<>>
      <4>1. IsInnermost(Top(stack), Announced, Len(Announced) + 1)
        BY <3>1, <3>3, TopIsInnermost
      <4>2. Len(stack) > 0 /\ Top(stack) = stack[Len(stack)]
        BY <3>1, <3>3, StackTypes
      <4>3. Len(stack) \in DOMAIN stack
        BY <3>1, <4>2
      <4>4. Top(stack) > 0
        BY <3>1, <4>2, <4>3 DEF StackIs
      <4> QED BY <3>1, <4>1, <4>4 DEF NoPhase
    <3> QED BY <3>2, <3>3
  <2> QED BY <2>1, <2>2 DEF SnapshotIsCurrent
<1> QED BY <1>1, InvariantHolds, PTL

\* After catch_unwind has caught a panic nothing the interpreter said before
\* or could say later is broadcast, however the lines and the exit arrive.
THEOREM PanicIsFinal == Spec => []PanicSilences
<1>1. ASSUME HostInv PROVE PanicSilences
  <2>1. HostTypes /\ Silenced(Announced)
    BY <1>1 DEF HostInv, SilenceInv
  <2>2. Silenced(bus)
    <3>1. CASE hpc = "emit"
      <4>1. /\ DOMAIN Announced = 1..(Len(bus) + 1) /\ DOMAIN bus = 1..Len(bus)
            /\ \A i \in 1..Len(bus) : Announced[i] = bus[i]
            /\ Len(bus) \in Nat
        BY <2>1, <3>1, AnnouncedIs, NextStream
      <4> QED BY <2>1, <4>1 DEF Silenced
    <3> QED BY <2>1, <3>1, AnnouncedIs
  <2> QED BY <2>2 DEF PanicSilences, Silenced, IsPanic, AfterPanic
<1> QED BY <1>1, InvariantHolds, PTL

\* What compute_outcome gives the job is what the consumers of its events were
\* told: the findings broadcast, in order, and the last known error, for any
\* interpreter and however the job ends.
THEOREM OutcomeAgrees == Spec => []OutcomeAgreesWithEvents
<1>1. ASSUME HostInv PROVE OutcomeAgreesWithEvents
  <2> SUFFICES ASSUME outcome # NoOutcome PROVE OutcomeAgreesWithEvents
    BY DEF OutcomeAgreesWithEvents
  <2>1. hpc = "done" /\ Announced = bus
    BY <1>1, AnnouncedIs DEF HostInv, VerdictInv
  <2>2. PICK c, d \in BOOLEAN : outcome = ComputeOutcome(c, d)
    BY <1>1, <2>1 DEF HostInv, VerdictInv
  <2>3. /\ knownError = Latest(bus, "KnownErrorDetected", "none")
        /\ Listed(findings, Before(bus, Len(bus) + 1, "FindingEmitted"), bus)
    BY <1>1, <2>1 DEF HostInv, ToldInv
  <2>4. /\ outcome.findings = findings
        /\ outcome.known # "none" => outcome.known = knownError
        /\ outcome.reason \in {"Signal", "NonZeroExit"} => knownError = "none"
        /\ outcome.kind = "Succeeded" => exit = "zero"
        /\ outcome.reason \in {"KnownError", "Signal", "NonZeroExit"}
             => exit # "zero"
    BY <2>2 DEF ComputeOutcome, Result
  <2> QED BY <2>3, <2>4, Zenon DEF OutcomeAgreesWithEvents
<1> QED BY <1>1, InvariantHolds, PTL
=============================================================================
