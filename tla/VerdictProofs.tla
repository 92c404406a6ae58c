----------------------------- MODULE VerdictProofs -----------------------------
(***************************************************************************)
(* Proofs that what the rule interpreter made of a job's lines reaches the *)
(* job's outcome: each notes block as one finding, and the error that      *)
(* explains a failure.  For every table of rules, every policy and every   *)
(* program.                                                                *)
(*                                                                         *)
(* The argument: between two lines the interpreter's own fields are those  *)
(* properties of the lines heard that the outcome will be judged by, and   *)
(* what a reply still waiting in the driver will add is already counted.   *)
(*                                                                         *)
(* At the end, that the two together implement the host specification, so  *)
(* that the theorems about any interpreter hold of this one.               *)
(***************************************************************************)
EXTENDS HostedRulesProofs

\* The interpreter has been asked for the last time.
Ended == drained /\ hpc # "call"

Ender(line) == Shape[line.text] \in {"blank", "empty"}

\* No line after position t ends a block.
OpenAt(t) == \A k \in (t + 1)..Len(heard) : ~Ender(heard[k])

\* The lists are those of the lines kept[t] of h, for each t in B, in order.
WholeOf(lists, B, kept, h) ==
  \E at \in InOrder(lists, B) :
    \A n \in DOMAIN lists : Listed(lists[n], kept[at[n]], h)

KeptBy == [t \in Openers |-> Kept(t)]

\* the findings, and the one that waits in the reply
PendingOf(b, found) == IF b # <<>> /\ Head(b).kind = "Finding"
                       THEN Append(found, Head(b).arg) ELSE found
Pending == PendingOf(batch, findings)

ReplyInv ==
  /\ FlatInv /\ VerdictInv
  /\ heard \in Seq(Lines)
  /\ notes_buf \in Seq(Texts) /\ Pending \in Seq(Seq(Texts))
  /\ IsSeq(batch)
  /\ hpc \notin {"apply", "emit"} => batch = <<>>
  /\ \A i \in DOMAIN batch : batch[i].kind = "Finding" => i = 1
  /\ drained => hpc # "read"
  /\ hpc \in {"close", "judge", "done"} => drained

\* The interpreter is in a block when the lines say so; the buffer holds what
\* the block has kept, and the findings are those of the blocks before it.
NotesInv ==
  /\ ~Ended => (in_notes <=> InBlock(Len(heard) + 1))
  /\ Ended => ~in_notes
  /\ in_notes => \E t \in Openers :
       /\ OpenAt(t)
       /\ Listed(notes_buf, Kept(t), heard)
       /\ WholeOf(Pending, Blocks \ {t}, KeptBy, heard)
  /\ ~in_notes => notes_buf = <<>> /\ WholeOf(Pending, Blocks, KeptBy, heard)

-----------------------------------------------------------------------------
(* Lists of lists.                                                         *)

LEMMA WholeSame ==
  ASSUME NEW lists, NEW B, NEW kept, NEW h, WholeOf(lists, B, kept, h),
         NEW now, NEW g, \A t \in B : now[t] = kept[t],
         \A t \in B : \A k \in kept[t] : g[k].text = h[k].text
  PROVE  WholeOf(lists, B, now, g)
<1>1. PICK at \in InOrder(lists, B) :
        \A n \in DOMAIN lists : Listed(lists[n], kept[at[n]], h)
  BY DEF WholeOf
<1>2. ASSUME NEW n \in DOMAIN lists PROVE Listed(lists[n], now[at[n]], g)
  <2>1. at[n] \in B
    BY DEF InOrder
  <2>2. Listed(lists[n], kept[at[n]], g)
    BY <1>1, <2>1, ListedSame
  <2> QED BY <2>1, <2>2
<1> QED BY <1>2 DEF WholeOf

LEMMA WholeNext ==
  ASSUME NEW T, NEW lists \in Seq(T), NEW B, NEW kept, NEW h,
         WholeOf(lists, B, kept, h),
         NEW t \in Int, \A u \in B : u \in Int /\ u < t,
         NEW list \in T, Listed(list, kept[t], h)
  PROVE  WholeOf(Append(lists, list), B \cup {t}, kept, h)
<1> DEFINE more == Append(lists, list)
           N == Len(lists)
<1>1. /\ DOMAIN lists = 1..N /\ DOMAIN more = 1..(N + 1) /\ N \in Nat
      /\ \A n \in 1..N : more[n] = lists[n]
      /\ more[N + 1] = list
  OBVIOUS
<1>2. PICK at \in InOrder(lists, B) :
        \A n \in DOMAIN lists : Listed(lists[n], kept[at[n]], h)
  BY DEF WholeOf
<1>3. PICK bt \in InOrder(more, B \cup {t}) :
        (\A n \in DOMAIN lists : bt[n] = at[n]) /\ bt[N + 1] = t
  BY InOrderNext
<1> HIDE DEF more, N
<1>4. \A n \in DOMAIN more : n \in 1..N \/ n = N + 1
  BY <1>1
<1>5. \A n \in DOMAIN more : Listed(more[n], kept[bt[n]], h)
  BY <1>1, <1>2, <1>3, <1>4
<1> QED BY <1>3, <1>5 DEF WholeOf, more

LEMMA WholeNone == ASSUME NEW kept, NEW h PROVE WholeOf(<<>>, {}, kept, h)
<1>1. PICK at \in InOrder(<<>>, {}) : TRUE
  BY ListedNone DEF Listed
<1> QED BY <1>1 DEF WholeOf

\* A list is empty when, and only when, it lists no position.
LEMMA ListedEmpty ==
  ASSUME NEW T, NEW list \in Seq(T), NEW S, NEW s, Listed(list, S, s)
  PROVE  list = <<>> <=> S = {}
<1>1. PICK at \in InOrder(list, S) : TRUE
  BY DEF Listed
<1>2. /\ at \in [DOMAIN list -> S] /\ \A i \in S : \E n \in DOMAIN list : at[n] = i
      /\ DOMAIN list = 1..Len(list) /\ Len(list) \in Nat
      /\ list = <<>> <=> Len(list) = 0
  BY DEF InOrder
<1> QED BY <1>2

-----------------------------------------------------------------------------
(* One line more.                                                          *)

\* the line that has just been heard
IsHeard(line) == heard \in Seq(Lines) /\ line \in Lines /\ heard' = Append(heard, line)

LEMMA HeardNext ==
  ASSUME NEW line, IsHeard(line)
  PROVE  /\ heard' \in Seq(Lines)
         /\ Len(heard) \in Nat /\ Len(heard') = Len(heard) + 1
         /\ DOMAIN heard = 1..Len(heard) /\ DOMAIN heard' = 1..(Len(heard) + 1)
         /\ \A i \in 1..Len(heard) : heard'[i] = heard[i]
         /\ heard'[Len(heard) + 1] = line
  BY DEF IsHeard

LEMMA BlockNext ==
  ASSUME NEW line, IsHeard(line), NEW n, n = Len(heard)
  PROVE  /\ \A i \in 1..(n + 1) : InBlock(i)' <=> InBlock(i)
         /\ InBlock(n + 1)' <=> InBlock(n + 1)
         /\ InBlock(n + 2)' <=>
              R!IsTrigger(line) \/ (InBlock(n + 1) /\ ~Ender(line))
<1> DEFINE g == heard'
           Starts(h, t) == Shape[h[t].text] = "trigger"
           Runs(h, t, i) ==
             \A k \in (t + 1)..(i - 1) : Shape[h[k].text] \notin {"blank", "empty"}
<1>1. /\ n \in Nat /\ \A i \in 1..n : g[i] = heard[i]
      /\ g[n + 1] = line
  BY HeardNext
<1>2. \A i : InBlock(i) <=> Notes /\ \E t \in 1..(i - 1) : Starts(heard, t) /\ Runs(heard, t, i)
  BY DEF InBlock
<1>3. \A i : InBlock(i)' <=> Notes /\ \E t \in 1..(i - 1) : Starts(g, t) /\ Runs(g, t, i)
  BY DEF InBlock
<1> HIDE DEF g
<1>4. ASSUME NEW i \in 1..(n + 1) PROVE InBlock(i)' <=> InBlock(i)
  <2>1. \A t \in 1..(i - 1) : /\ Starts(g, t) <=> Starts(heard, t)
                              /\ Runs(g, t, i) <=> Runs(heard, t, i)
    BY <1>1
  <2> HIDE DEF Starts, Runs
  <2> QED BY <1>2, <1>3, <2>1
<1>5. InBlock(n + 2)' <=> R!IsTrigger(line) \/ (InBlock(n + 1) /\ ~Ender(line))
  <2>1. /\ Starts(g, n + 1) <=> Shape[line.text] = "trigger"
        /\ Runs(g, n + 1, n + 2)
    BY <1>1
  <2>2. ASSUME NEW t \in 1..n
        PROVE  /\ Starts(g, t) <=> Starts(heard, t)
               /\ Runs(g, t, n + 2) <=> Runs(heard, t, n + 1) /\ ~Ender(line)
    <3>1. \A k : k \in (t + 1)..(n + 2 - 1) <=> k \in (t + 1)..(n + 1 - 1) \/ k = n + 1
      BY <1>1
    <3>2. \A k \in (t + 1)..(n + 1 - 1) : g[k] = heard[k]
      BY <1>1
    <3>3. Starts(g, t) <=> Starts(heard, t)
      BY <1>1
    <3>4. Runs(g, t, n + 2) <=> Runs(heard, t, n + 1) /\ ~Ender(line)
      BY <1>1, <3>1, <3>2 DEF Ender
    <3> QED BY <3>3, <3>4
  <2>3. \A t : t \in 1..(n + 2 - 1) <=> t \in 1..(n + 1 - 1) \/ t = n + 1
    BY <1>1
  <2>4. 1..n = 1..(n + 1 - 1)
    BY <1>1
  <2>5. R!IsTrigger(line) <=> Notes /\ Shape[line.text] = "trigger"
    BY DEF R!IsTrigger
  <2> HIDE DEF Starts, Runs
  <2>6. InBlock(n + 2)' <=>
          Notes /\ \E t \in 1..(n + 2 - 1) : Starts(g, t) /\ Runs(g, t, n + 2)
    BY <1>3
  <2>7. InBlock(n + 1) <=>
          Notes /\ \E t \in 1..n : Starts(heard, t) /\ Runs(heard, t, n + 1)
    BY <1>2, <2>4
  <2> QED BY <2>1, <2>2, <2>3, <2>4, <2>5, <2>6, <2>7
<1>6. n + 1 \in 1..(n + 1)
  BY <1>1
<1> QED BY <1>4, <1>5, <1>6

\* In a block there are no new openers, and each opener but the last is behind
\* the end of its block.
LEMMA OpenersNext ==
  ASSUME NEW line, IsHeard(line), NEW n, n = Len(heard)
  PROVE  /\ Openers' = Openers \cup
                         (IF R!IsTrigger(line) /\ ~InBlock(n + 1)
                          THEN {n + 1} ELSE {})
         /\ \A t \in Openers : t \in 1..n
<1>1. /\ n \in Nat /\ DOMAIN heard = 1..n /\ DOMAIN heard' = 1..(n + 1)
      /\ \A i \in 1..n : heard'[i] = heard[i]
      /\ heard'[n + 1] = line
  BY HeardNext
<1>2. \A i \in 1..(n + 1) : InBlock(i)' <=> InBlock(i)
  BY BlockNext
<1>3. \A t : t \in Openers <=>
        t \in 1..n /\ Notes /\ Shape[heard[t].text] = "trigger" /\ ~InBlock(t)
  BY <1>1 DEF Openers
<1>4. \A t : t \in Openers' <=>
        t \in 1..(n + 1) /\ Notes /\ Shape[heard'[t].text] = "trigger" /\ ~InBlock(t)'
  BY <1>1 DEF Openers
<1>5. \A t : t \in 1..(n + 1) <=> t \in 1..n \/ t = n + 1
  BY <1>1
<1>6. n + 1 \notin 1..n
  BY <1>1
<1>7. R!IsTrigger(line) <=> Notes /\ Shape[line.text] = "trigger"
  BY DEF R!IsTrigger
<1>8. \A t : t \in Openers' <=> t \in Openers \/
        (R!IsTrigger(line) /\ ~InBlock(n + 1) /\ t = n + 1)
  BY <1>1, <1>2, <1>3, <1>4, <1>5, <1>6, <1>7
<1> QED BY <1>3, <1>8

LEMMA KeptNext ==
  ASSUME NEW line, IsHeard(line), NEW n, n = Len(heard), NEW t \in 1..(n + 1)
  PROVE  /\ t <= n =>
              /\ OpenAt(t)' <=> OpenAt(t) /\ ~Ender(line)
              /\ Kept(t)' = Kept(t) \cup
                   (IF OpenAt(t)' /\ Shape[line.text] # "separator"
                    THEN {n + 1} ELSE {})
         /\ \A k \in Kept(t) : k \in 1..n
         /\ t = n + 1 => OpenAt(t)' /\ Kept(t)' = {}
<1> DEFINE g == heard'
           Holds(h, i) == /\ i > t /\ Shape[h[i].text] # "separator"
                          /\ \A k \in (t + 1)..i :
                               Shape[h[k].text] \notin {"blank", "empty"}
<1>1. /\ n \in Nat /\ DOMAIN heard = 1..n /\ DOMAIN g = 1..(n + 1)
      /\ \A i \in 1..n : g[i] = heard[i]
      /\ g[n + 1] = line /\ Len(g) = n + 1
  BY HeardNext
<1> HIDE DEF g
<1>2. OpenAt(t)' <=> \A k \in (t + 1)..(n + 1) : ~Ender(g[k])
  BY <1>1 DEF OpenAt, Ender, g
<1>3. OpenAt(t) <=> \A k \in (t + 1)..n : ~Ender(heard[k])
  BY DEF OpenAt
<1>4. \A i : i \in Kept(t) <=> i \in 1..n /\ Holds(heard, i)
  BY <1>1 DEF Kept
<1>5. \A i : i \in Kept(t)' <=> i \in 1..(n + 1) /\ Holds(g, i)
  BY <1>1 DEF Kept, g
<1>6. ASSUME t <= n
      PROVE  /\ OpenAt(t)' <=> OpenAt(t) /\ ~Ender(line)
             /\ Kept(t)' = Kept(t) \cup
                  (IF OpenAt(t)' /\ Shape[line.text] # "separator"
                   THEN {n + 1} ELSE {})
  <2>1. OpenAt(t)' <=> OpenAt(t) /\ ~Ender(line)
    BY <1>1, <1>2, <1>3, <1>6
  <2>2. \A i \in 1..n : Holds(g, i) <=> Holds(heard, i)
    BY <1>1
  <2>3. Holds(g, n + 1) <=> OpenAt(t)' /\ Shape[line.text] # "separator"
    BY <1>1, <1>2, <1>6 DEF Ender
  <2>4. \A i : i \in 1..(n + 1) <=> i \in 1..n \/ i = n + 1
    BY <1>1
  <2> HIDE DEF Holds
  <2>5. \A i : i \in Kept(t)' <=> i \in Kept(t)
                 \/ (OpenAt(t)' /\ Shape[line.text] # "separator" /\ i = n + 1)
    BY <1>4, <1>5, <2>2, <2>3, <2>4, <1>1
  <2> QED BY <2>1, <2>5
<1>7. ASSUME t = n + 1 PROVE OpenAt(t)' /\ Kept(t)' = {}
  BY <1>1, <1>2, <1>5, <1>7
<1> QED BY <1>4, <1>6, <1>7

\* An opener whose block has not ended is the last one.
LEMMA OpenIsLast ==
  ASSUME heard \in Seq(Lines), NEW t \in Openers, OpenAt(t)
  PROVE  \A u \in Openers : u # t => u < t /\ ~OpenAt(u)
<1>1. ASSUME NEW u \in Openers, NEW v \in Openers, u < v PROVE ~OpenAt(u)
  <2>1. /\ Notes /\ Shape[heard[u].text] = "trigger" /\ ~InBlock(v)
        /\ u \in 1..Len(heard) /\ v \in 1..Len(heard) /\ Len(heard) \in Nat
    BY <1>1 DEF Openers
  <2>2. u \in 1..(v - 1)
    BY <1>1, <2>1
  <2>3. PICK k \in (u + 1)..(v - 1) : Shape[heard[k].text] \in {"blank", "empty"}
    BY <2>1, <2>2 DEF InBlock
  <2>4. k \in (u + 1)..Len(heard)
    BY <2>1, <2>3
  <2> QED BY <2>3, <2>4 DEF OpenAt, Ender
<1>2. \A u \in Openers : u \in Int
  BY DEF Openers
<1> QED BY <1>1, <1>2

LEMMA NoneOpen ==
  ASSUME heard \in Seq(Lines), ~InBlock(Len(heard) + 1), NEW u \in Openers
  PROVE  ~OpenAt(u)
<1>1. /\ Notes /\ Shape[heard[u].text] = "trigger"
      /\ u \in 1..Len(heard) /\ Len(heard) \in Nat
  BY DEF Openers
<1>2. u \in 1..(Len(heard) + 1 - 1) /\ Len(heard) + 1 - 1 = Len(heard)
  BY <1>1
<1>3. PICK k \in (u + 1)..Len(heard) : Shape[heard[k].text] \in {"blank", "empty"}
  BY <1>1, <1>2 DEF InBlock
<1> QED BY <1>3 DEF OpenAt, Ender

\* After a line an opener is where it was, and open if it was and the line ends
\* no block; if it keeps nothing of the line it keeps what it kept.
LEMMA OpenerNext ==
  ASSUME NEW line, IsHeard(line), NEW n, n = Len(heard), NEW u \in Openers
  PROVE  /\ u \in 1..n /\ u \in Openers'
         /\ OpenAt(u)' <=> OpenAt(u) /\ ~Ender(line)
         /\ ~OpenAt(u)' \/ Shape[line.text] = "separator" => Kept(u)' = Kept(u)
         /\ OpenAt(u)' /\ Shape[line.text] # "separator"
              => Kept(u)' = Kept(u) \cup {n + 1}
         /\ \A k \in Kept(u) : k \in 1..n
<1>1. u \in 1..n /\ u \in Openers' /\ n \in Nat
  BY OpenersNext, HeardNext
<1>2. u \in 1..(n + 1) /\ u <= n
  BY <1>1
<1>3. /\ OpenAt(u)' <=> OpenAt(u) /\ ~Ender(line)
      /\ Kept(u)' = Kept(u) \cup
           (IF OpenAt(u)' /\ Shape[line.text] # "separator" THEN {n + 1} ELSE {})
      /\ \A k \in Kept(u) : k \in 1..n
  BY <1>2, KeptNext
<1> QED BY <1>1, <1>3

\* The findings of blocks that keep nothing of the line stay as they are.
LEMMA WholeHeard ==
  ASSUME NEW line, IsHeard(line), NEW lists, NEW B, B \subseteq Openers,
         \A u \in B : ~OpenAt(u)' \/ Shape[line.text] = "separator",
         WholeOf(lists, B, KeptBy, heard)
  PROVE  WholeOf(lists, B, KeptBy', heard')
<1>0. PICK n : n = Len(heard)
  OBVIOUS
<1>1. n \in Nat /\ \A i \in 1..n : heard'[i] = heard[i]
  BY <1>0, HeardNext
<1>2. \A u \in B : /\ Kept(u)' = Kept(u) /\ \A k \in Kept(u) : k \in 1..n
                   /\ u \in Openers /\ u \in Openers'
  BY <1>0, OpenerNext
<1>3. \A u \in B : KeptBy[u] = Kept(u) /\ KeptBy'[u] = Kept(u)'
  BY <1>2 DEF KeptBy
<1>4. \A u \in B : \A k \in KeptBy[u] : heard'[k].text = heard[k].text
  BY <1>1, <1>2, <1>3
<1> QED BY <1>2, <1>3, <1>4, WholeSame

\* A block that is left becomes a finding, if it kept anything.
Flushed(found, buf) == IF buf = <<>> THEN found ELSE Append(found, buf)

LEMMA BlockCloses ==
  ASSUME heard \in Seq(Lines), NEW t \in Openers, OpenAt(t),
         NEW buf \in Seq(Texts), Listed(buf, Kept(t), heard),
         NEW found \in Seq(Seq(Texts)), WholeOf(found, Blocks \ {t}, KeptBy, heard)
  PROVE  WholeOf(Flushed(found, buf), Blocks, KeptBy, heard)
<1>1. buf = <<>> <=> Kept(t) = {}
  BY ListedEmpty
<1>2. CASE buf = <<>>
  <2>1. Blocks \ {t} = Blocks /\ Flushed(found, buf) = found
    BY <1>1, <1>2 DEF Blocks, Flushed
  <2> QED BY <2>1
<1>3. CASE buf # <<>>
  <2>1. (Blocks \ {t}) \cup {t} = Blocks
    BY <1>1, <1>3 DEF Blocks
  <2>2. \A u \in Blocks \ {t} : u \in Int /\ u < t
    BY OpenIsLast DEF Blocks, Openers
  <2>3. t \in Int /\ KeptBy[t] = Kept(t)
    BY DEF Openers, KeptBy
  <2>4. Listed(buf, KeptBy[t], heard)
    BY <2>3
  <2>5. WholeOf(Append(found, buf), (Blocks \ {t}) \cup {t}, KeptBy, heard)
    BY <2>2, <2>3, <2>4, WholeNext
  <2> QED BY <1>3, <2>1, <2>5 DEF Flushed
<1> QED BY <1>2, <1>3

-----------------------------------------------------------------------------
(* What a reply tells.                                                     *)

\* Neither a finding nor an error.
Mute(b) == IsSeq(b) /\ ~Has(b, "Finding") /\ ~Has(b, "KnownError")

LEMMA HasJoint ==
  ASSUME NEW a, NEW b, IsSeq(a), IsSeq(b), NEW kind
  PROVE  Has(a \o b, kind) <=> Has(a, kind) \/ Has(b, kind)
<1> DEFINE c == a \o b
<1>1. /\ Len(a) \in Nat /\ Len(b) \in Nat
      /\ DOMAIN a = 1..Len(a) /\ DOMAIN b = 1..Len(b)
      /\ DOMAIN c = 1..(Len(a) + Len(b))
      /\ \A i \in 1..Len(a) : c[i] = a[i]
      /\ \A i \in (Len(a) + 1)..(Len(a) + Len(b)) : c[i] = b[i - Len(a)]
  BY Joint
<1> HIDE DEF c
<1>2. ASSUME NEW i \in DOMAIN a PROVE i \in DOMAIN c /\ c[i] = a[i]
  BY <1>1
<1>3. ASSUME NEW i \in DOMAIN b PROVE i + Len(a) \in DOMAIN c /\ c[i + Len(a)] = b[i]
  BY <1>1
<1>4. ASSUME NEW i \in DOMAIN c
      PROVE  \/ i \in DOMAIN a /\ c[i] = a[i]
             \/ i - Len(a) \in DOMAIN b /\ c[i] = b[i - Len(a)]
  BY <1>1
<1>5. Has(c, kind) <=> Has(a, kind) \/ Has(b, kind)
  BY <1>2, <1>3, <1>4 DEF Has
<1> QED BY <1>5 DEF c

LEMMA MuteParts ==
  /\ Mute(<<>>)
  /\ \A e : e.kind \notin {"Finding", "KnownError"} => Mute(<<e>>)
  /\ \A a, b : Mute(a) /\ Mute(b) => Mute(a \o b)
  /\ \A p, end : Mute(R!Boundary(p, end))
  /\ Mute(R!LeavePhase)
<1>1. Mute(<<>>)
  BY Short DEF Mute, Tidy
<1>2. ASSUME NEW e, e.kind \notin {"Finding", "KnownError"} PROVE Mute(<<e>>)
  BY <1>2, Short, Single DEF Mute
<1>3. ASSUME NEW a, NEW b, Mute(a), Mute(b) PROVE Mute(a \o b)
  <2>1. IsSeq(a \o b)
    BY <1>3, Joint DEF Mute
  <2> QED BY <1>3, <2>1, HasJoint DEF Mute
<1>4. ASSUME NEW p, NEW end PROVE Mute(R!Boundary(p, end))
  <2>1. R!Ev("Progress", Slice[p][end]).kind = "Progress"
    BY DEF R!Ev
  <2> QED BY <1>1, <1>2, <2>1 DEF R!Boundary
<1>5. Mute(R!LeavePhase)
  <2>1. R!Ev("ExitPhase", "none").kind = "ExitPhase"
    BY DEF R!Ev
  <2>2. Mute(<<R!Ev("ExitPhase", "none")>>)
    BY <1>2, <2>1
  <2> QED BY <1>1, <1>3, <1>4, <2>2 DEF R!LeavePhase
<1> QED BY <1>1, <1>2, <1>3, <1>4, <1>5

\* A line gives a finding only at the end of a block, an error only by a rule.
LEMMA LineTells ==
  ASSUME NEW line, R!OnLine(line)
  PROVE  /\ IsSeq(batch')
         /\ IF in_notes /\ Ender(line) THEN batch' = R!FlushedNotes
                                       ELSE ~Has(batch', "Finding")
         /\ IF R!ClassifyError(line)
            THEN batch' = <<R!Ev("KnownError", Match[line.text].arg)>>
            ELSE ~Has(batch', "KnownError")
<1>1. CASE R!EndNotes(line)
  <2>1. in_notes /\ Ender(line) /\ batch' = R!FlushedNotes
    BY <1>1 DEF R!EndNotes, R!Return, Ender
  <2>2. ~R!ClassifyError(line)
    BY <2>1 DEF R!ClassifyError, R!Classify
  <2>3. R!Ev("Finding", notes_buf).kind = "Finding"
    BY DEF R!Ev
  <2>4. IsSeq(R!FlushedNotes) /\ ~Has(R!FlushedNotes, "KnownError")
    BY <2>3, Short, Single DEF R!FlushedNotes, Tidy
  <2> QED BY <2>1, <2>2, <2>4
<1>2. CASE R!ClassifyError(line)
  <2> DEFINE e == R!Ev("KnownError", Match[line.text].arg)
  <2>1. ~in_notes /\ batch' = <<e>>
    BY <1>2 DEF R!ClassifyError, R!Classify, R!Return
  <2>2. e.kind = "KnownError"
    BY DEF R!Ev
  <2> HIDE DEF e
  <2>3. IsSeq(<<e>>) /\ ~Has(<<e>>, "Finding")
    BY <2>2, Short, Single
  <2> QED BY <1>2, <2>1, <2>3 DEF e
<1>3. ASSUME ~R!EndNotes(line), ~R!ClassifyError(line) PROVE Mute(batch')
  <2>1. CASE \/ R!SkipSeparator(line) \/ R!Collect(line) \/ R!StartNotes(line)
             \/ R!SkipEmpty(line) \/ R!Benign(line) \/ R!Unclassified(line)
    <3>1. batch' = <<>>
      BY <2>1 DEF R!SkipSeparator, R!Collect, R!StartNotes, R!SkipEmpty, R!Benign,
                  R!Unclassified, R!Return
    <3> QED BY <3>1, MuteParts
  <2>2. CASE R!Report(line)
    <3>1. PICK kind \in {"Warning", "Summary", "Progress"} :
            batch' = <<R!Ev(kind, Match[line.text].arg)>>
      BY <2>2 DEF R!Report, R!Return
    <3>2. R!Ev(kind, Match[line.text].arg).kind = kind
      BY DEF R!Ev
    <3> QED BY <3>1, <3>2, MuteParts
  <2>3. CASE R!ByteProgress(line)
    <3>1. PICK v : batch' = <<>> \/ batch' = <<R!Ev("Progress", v)>>
      BY <2>3 DEF R!ByteProgress, R!Return
    <3>2. R!Ev("Progress", v).kind = "Progress"
      BY DEF R!Ev
    <3> QED BY <3>1, <3>2, MuteParts
  <2>4. CASE R!StartPhase(line)
    <3> DEFINE e == R!Ev("EnterPhase", Match[line.text].arg)
               z == R!Boundary(Match[line.text].arg, 1)
    <3>1. batch' = R!LeavePhase \o <<e>> \o z
      BY <2>4 DEF R!StartPhase, R!Return
    <3>2. e.kind = "EnterPhase"
      BY DEF R!Ev
    <3> HIDE DEF e
    <3>3. Mute(R!LeavePhase) /\ Mute(<<e>>) /\ Mute(z)
      BY <3>2, MuteParts
    <3> HIDE DEF z
    <3>4. Mute(R!LeavePhase \o <<e>>)
      BY <3>3, MuteParts
    <3> QED BY <3>1, <3>3, <3>4, MuteParts
  <2> QED BY <1>3, <2>1, <2>2, <2>3, <2>4 DEF R!OnLine
<1>4. in_notes /\ Ender(line) => R!EndNotes(line)
  BY DEF Ender, R!OnLine, R!SkipSeparator, R!Collect, R!StartNotes, R!SkipEmpty,
         R!Benign, R!Report, R!StartPhase, R!ClassifyError, R!ByteProgress,
         R!Unclassified, R!Classify
<1> QED BY <1>1, <1>2, <1>3, <1>4 DEF Mute

\* What a line does to the block.
LEMMA LineNotes ==
  ASSUME NEW line, R!OnLine(line)
  PROVE  IF in_notes
         THEN \/ Ender(line) /\ in_notes' = FALSE /\ notes_buf' = <<>>
              \/ /\ ~Ender(line) /\ in_notes'
                 /\ notes_buf' = IF Shape[line.text] = "separator" THEN notes_buf
                                 ELSE Append(notes_buf, line.text)
         ELSE (in_notes' <=> R!IsTrigger(line)) /\ notes_buf' = notes_buf
<1>1. CASE in_notes
  BY <1>1 DEF Ender, R!OnLine, R!EndNotes, R!SkipSeparator, R!Collect,
         R!StartNotes, R!SkipEmpty, R!Benign, R!Report, R!StartPhase,
         R!ClassifyError, R!ByteProgress, R!Unclassified, R!Classify, R!ruleVars,
         R!notesState
<1>2. CASE ~in_notes
  BY <1>2 DEF R!OnLine, R!EndNotes, R!SkipSeparator, R!Collect,
         R!StartNotes, R!SkipEmpty, R!Benign, R!Report, R!StartPhase,
         R!ClassifyError, R!ByteProgress, R!Unclassified, R!Classify, R!ruleVars,
         R!notesState, R!IsTrigger
<1> QED BY <1>1, <1>2

LEMMA NothingPending ==
  ASSUME NEW b, IsSeq(b), ~Has(b, "Finding"), NEW found
  PROVE  PendingOf(b, found) = found
<1>1. ASSUME b # <<>> PROVE Head(b).kind # "Finding"
  <2>1. PICK S : b \in Seq(S)
    BY DEF IsSeq
  <2>2. 1 \in DOMAIN b /\ Head(b) = b[1]
    BY <1>1, <2>1
  <2> QED BY <2>2 DEF Has
<1> QED BY <1>1 DEF PendingOf

\* The reply b behind the finding of the block in buf.
Flush(buf, b) == IF buf = <<>> THEN b ELSE <<R!Ev("Finding", buf)>> \o b

LEMMA FlushPending ==
  ASSUME NEW b, IsSeq(b), ~Has(b, "Finding"), NEW found, NEW buf,
         NEW c, c = Flush(buf, b)
  PROVE  /\ PendingOf(c, found) = Flushed(found, buf)
         /\ \A i \in DOMAIN c : c[i].kind = "Finding" => i = 1
         /\ IsSeq(c)
<1> DEFINE e == R!Ev("Finding", buf)
<1>0. /\ e.kind = "Finding" /\ e.arg = buf
      /\ c = IF buf = <<>> THEN b ELSE <<e>> \o b
  BY DEF R!Ev, Flush
<1> HIDE DEF e
<1>1. CASE buf = <<>>
  BY <1>0, <1>1, NothingPending DEF Flushed, Has
<1>2. CASE buf # <<>>
  <2>1. /\ DOMAIN c = 1..(1 + Len(b)) /\ Len(b) \in Nat /\ DOMAIN b = 1..Len(b)
        /\ c[1] = e /\ IsSeq(c)
        /\ \A i \in 2..(1 + Len(b)) : c[i] = b[i - 1]
    <3>1. IsSeq(<<e>>) /\ Len(<<e>>) = 1 /\ <<e>>[1] = e
      <4>1. IsSeq(<<e>>)
        BY Single
      <4> QED BY <4>1
    <3>2. c = <<e>> \o b
      BY <1>0, <1>2
    <3> QED BY <3>1, <3>2, Joint
  <2>2. c # <<>> /\ Head(c) = e
    <3>1. PICK S : c \in Seq(S)
      BY <2>1 DEF IsSeq
    <3> QED BY <2>1, <3>1
  <2>3. ASSUME NEW i \in DOMAIN c, i # 1 PROVE c[i].kind # "Finding"
    <3>1. i \in 2..(1 + Len(b)) /\ i - 1 \in DOMAIN b
      BY <2>1, <2>3
    <3> QED BY <2>1, <3>1 DEF Has
  <2> QED BY <1>0, <1>2, <2>1, <2>2, <2>3 DEF PendingOf, Flushed
<1> QED BY <1>1, <1>2

\* Do all errors of b say v?
Errs(b, v) == \A i \in DOMAIN b : b[i].kind = "KnownError" => b[i].arg = v

LEMMA ErrsJoint ==
  ASSUME NEW a, NEW b, IsSeq(a), IsSeq(b), NEW v, Errs(a, v), Errs(b, v)
  PROVE  Errs(a \o b, v)
<1> DEFINE c == a \o b
<1>1. /\ Len(a) \in Nat /\ Len(b) \in Nat
      /\ DOMAIN a = 1..Len(a) /\ DOMAIN b = 1..Len(b)
      /\ DOMAIN c = 1..(Len(a) + Len(b))
      /\ \A i \in 1..Len(a) : c[i] = a[i]
      /\ \A i \in (Len(a) + 1)..(Len(a) + Len(b)) : c[i] = b[i - Len(a)]
  BY Joint
<1> HIDE DEF c
<1>2. ASSUME NEW i \in DOMAIN c
      PROVE  \/ i \in DOMAIN a /\ c[i] = a[i]
             \/ i - Len(a) \in DOMAIN b /\ c[i] = b[i - Len(a)]
  BY <1>1
<1>3. Errs(c, v)
  BY <1>2 DEF Errs
<1> QED BY <1>3 DEF c

\* The last reply: the block that was open, and the error synthesized.
LEMMA ExitTells ==
  ASSUME NEW success, R!OnExit(success)
  PROVE  /\ \E b : /\ IsSeq(b) /\ ~Has(b, "Finding")
                   /\ batch' = Flush(notes_buf, b)
         /\ Has(batch', "KnownError") <=> R!Synthesized(success) # "none"
         /\ Errs(batch', R!Synthesized(success))
<1> DEFINE m == R!Synthesized(success)
           f == R!Ev("Finding", notes_buf)
           e == R!Ev("KnownError", m)
           x == R!FlushedNotes
           y == R!LeavePhase
           z == IF m = "none" THEN <<>> ELSE <<e>>
           b == y \o z
<1>1. batch' = x \o y \o z
  BY DEF R!OnExit, R!Return
<1>2. x = IF notes_buf = <<>> THEN <<>> ELSE <<f>>
  BY DEF R!FlushedNotes
<1>3. f.kind = "Finding" /\ e.kind = "KnownError" /\ e.arg = m
  BY DEF R!Ev
<1> HIDE DEF m, f, e
<1>4. IsSeq(z) /\ ~Has(z, "Finding") /\ (Has(z, "KnownError") <=> m # "none")
  BY <1>3, Short, Single DEF Tidy
<1>5. Errs(z, m)
  <2>1. DOMAIN <<>> = {} /\ DOMAIN <<e>> = {1} /\ <<e>>[1] = e
    OBVIOUS
  <2> QED BY <1>3, <2>1 DEF Errs
<1>6. IsSeq(x) /\ ~Has(x, "KnownError")
  BY <1>2, <1>3, Short, Single DEF Tidy
<1>7. IsSeq(y) /\ ~Has(y, "Finding") /\ ~Has(y, "KnownError")
  BY MuteParts DEF Mute
<1> HIDE DEF x, y, z
<1>8. /\ IsSeq(b) /\ ~Has(b, "Finding") /\ (Has(b, "KnownError") <=> m # "none")
      /\ Errs(b, m)
  <2>1. IsSeq(b)
    BY <1>4, <1>7, Joint
  <2>2. Errs(y, m)
    BY <1>7 DEF Errs, Has
  <2> QED BY <1>4, <1>5, <1>7, <2>1, <2>2, HasJoint, ErrsJoint
<1>9. batch' = x \o b
  BY <1>1, <1>4, <1>6, <1>7, Regroup
<1> HIDE DEF b
<1>10. batch' = Flush(notes_buf, b)
  <2>1. <<>> \o b = b
    BY <1>8 DEF IsSeq
  <2>2. batch' = IF notes_buf = <<>> THEN b ELSE <<f>> \o b
    BY <1>2, <1>9, <2>1
  <2> QED BY <2>2 DEF Flush, f
<1>11. (Has(batch', "KnownError") <=> m # "none") /\ Errs(batch', m)
  <2>1. Errs(x, m)
    BY <1>6 DEF Errs, Has
  <2> QED BY <1>6, <1>8, <1>9, <2>1, HasJoint, ErrsJoint
<1> QED BY <1>8, <1>10, <1>11 DEF m, f

-----------------------------------------------------------------------------
(* The notes.                                                              *)

LEMMA LinePending ==
  ASSUME ReplyInv, NEW line \in Lines, CallOnLine(line)
  PROVE  /\ hpc = "call" /\ batch = <<>> /\ ~Ended /\ ~Ended'
         /\ findings' = findings /\ knownError' = knownError
         /\ R!OnLine(line) /\ IsHeard(line)
         /\ Pending = findings
         /\ Pending' = IF in_notes /\ Ender(line)
                       THEN Flushed(findings, notes_buf) ELSE findings
         /\ IsSeq(batch') /\ \A i \in DOMAIN batch' : batch'[i].kind = "Finding" => i = 1
<1>1. /\ hpc = "call" /\ batch = <<>> /\ ~Ended /\ ~Ended'
      /\ findings' = findings /\ knownError' = knownError
      /\ R!OnLine(line) /\ IsHeard(line)
  BY DEF CallOnLine, CallReturns, ReplyInv, Ended, IsHeard, driverVars, endVars
<1>2. Pending = findings
  BY <1>1 DEF Pending, PendingOf
<1>3. Pending' = PendingOf(batch', findings)
  BY <1>1 DEF Pending
<1>4. CASE in_notes /\ Ender(line)
  <2>1. batch' = R!FlushedNotes
    BY <1>1, <1>4, LineTells
  <2>2. PICK b : b = <<>>
    OBVIOUS
  <2>3. IsSeq(b) /\ ~Has(b, "Finding")
    BY <2>2, Short DEF Tidy
  <2>4. <<R!Ev("Finding", notes_buf)>> \o b = <<R!Ev("Finding", notes_buf)>>
    BY <2>2
  <2>5. batch' = Flush(notes_buf, b)
    BY <2>1, <2>2, <2>4 DEF Flush, R!FlushedNotes
  <2>6. /\ PendingOf(batch', findings) = Flushed(findings, notes_buf)
        /\ IsSeq(batch') /\ \A i \in DOMAIN batch' : batch'[i].kind = "Finding" => i = 1
    BY <2>3, <2>5, FlushPending
  <2> QED BY <1>1, <1>2, <1>3, <1>4, <2>6
<1>5. CASE ~(in_notes /\ Ender(line))
  <2>1. IsSeq(batch') /\ ~Has(batch', "Finding")
    BY <1>1, <1>5, LineTells
  <2>2. PendingOf(batch', findings) = findings
    BY <2>1, NothingPending
  <2> QED BY <1>1, <1>2, <1>3, <1>5, <2>1, <2>2 DEF Has
<1> QED BY <1>4, <1>5

LEMMA ExitPending ==
  ASSUME ReplyInv, CallOnExit
  PROVE  /\ hpc = "call" /\ batch = <<>> /\ drained /\ ~Ended /\ Ended'
         /\ UNCHANGED <<findings, knownError, exit, heard>>
         /\ R!OnExit(exit = "zero")
         /\ Pending = findings
         /\ Pending' = Flushed(findings, notes_buf)
         /\ IsSeq(batch') /\ \A i \in DOMAIN batch' : batch'[i].kind = "Finding" => i = 1
<1>1. /\ hpc = "call" /\ batch = <<>> /\ drained /\ ~Ended /\ Ended'
      /\ UNCHANGED <<findings, knownError, exit, heard>>
      /\ R!OnExit(exit = "zero")
  BY DEF CallOnExit, CallReturns, ReplyInv, Ended, driverVars, endVars
<1>2. Pending = findings
  BY <1>1 DEF Pending, PendingOf
<1>3. Pending' = PendingOf(batch', findings)
  BY <1>1 DEF Pending
<1>4. PICK b : IsSeq(b) /\ ~Has(b, "Finding") /\ batch' = Flush(notes_buf, b)
  BY <1>1, ExitTells
<1>5. /\ PendingOf(batch', findings) = Flushed(findings, notes_buf)
      /\ IsSeq(batch') /\ \A i \in DOMAIN batch' : batch'[i].kind = "Finding" => i = 1
  BY <1>4, FlushPending
<1> QED BY <1>1, <1>2, <1>3, <1>5

LEMMA NotesLine ==
  ASSUME ReplyInv, NotesInv, NEW line \in Lines, CallOnLine(line)
  PROVE  NotesInv'
<1>0. PICK n : n = Len(heard)
  OBVIOUS
<1>1. ~Ended /\ ~Ended' /\ R!OnLine(line) /\ IsHeard(line)
  BY LinePending
<1>2. Pending = findings /\ Pending \in Seq(Seq(Texts)) /\ notes_buf \in Seq(Texts)
  BY LinePending DEF ReplyInv
<1>3. /\ n \in Nat /\ Len(heard') = n + 1 /\ DOMAIN heard = 1..n
      /\ \A i \in 1..n : heard'[i] = heard[i]
      /\ heard'[n + 1] = line
  BY <1>0, <1>1, HeardNext
<1>4. in_notes <=> InBlock(n + 1)
  BY <1>0, <1>1 DEF NotesInv
<1>5. InBlock(Len(heard) + 1)' <=> R!IsTrigger(line) \/ (InBlock(n + 1) /\ ~Ender(line))
  <2>1. InBlock(n + 2)' <=> R!IsTrigger(line) \/ (InBlock(n + 1) /\ ~Ender(line))
    BY <1>0, <1>1, BlockNext
  <2>2. Len(heard') + 1 = n + 2
    BY <1>3
  <2>3. InBlock(Len(heard) + 1)' <=> InBlock(n + 2)'
    BY <2>2 DEF InBlock
  <2> QED BY <2>1, <2>3
<1>6. ASSUME NEW u \in Openers
      PROVE  /\ u \in 1..n /\ u \in Openers'
             /\ OpenAt(u)' <=> OpenAt(u) /\ ~Ender(line)
             /\ ~OpenAt(u)' \/ Shape[line.text] = "separator" => Kept(u)' = Kept(u)
             /\ OpenAt(u)' /\ Shape[line.text] # "separator"
                  => Kept(u)' = Kept(u) \cup {n + 1}
             /\ \A k \in Kept(u) : k \in 1..n
  BY <1>0, <1>1, OpenerNext
<1>7. Openers' = Openers \cup
        (IF R!IsTrigger(line) /\ ~InBlock(n + 1) THEN {n + 1} ELSE {})
  BY <1>0, <1>1, OpenersNext
<1>8. Pending' = IF in_notes /\ Ender(line)
                  THEN Flushed(findings, notes_buf) ELSE findings
  BY LinePending
<1>10. CASE in_notes
  <2>1. PICK t \in Openers : /\ OpenAt(t)
                             /\ Listed(notes_buf, Kept(t), heard)
                             /\ WholeOf(findings, Blocks \ {t}, KeptBy, heard)
    BY <1>2, <1>10 DEF NotesInv
  <2>2. Openers' = Openers /\ Blocks \subseteq Openers
    BY <1>4, <1>7, <1>10 DEF Blocks
  <2>3. \A u \in Openers : u # t => ~OpenAt(u)'
    BY <1>1, <1>6, <2>1, OpenIsLast DEF ReplyInv
  <2>4. CASE Ender(line)
    <3>1. in_notes' = FALSE /\ notes_buf' = <<>>
      BY <1>1, <1>10, <2>4, LineNotes
    <3>2. \A u \in Openers : ~OpenAt(u)' /\ Kept(u)' = Kept(u)
      BY <1>6, <2>4
    <3>3. Blocks' = Blocks
      BY <2>2, <3>2 DEF Blocks
    <3>4. WholeOf(Flushed(findings, notes_buf), Blocks, KeptBy, heard)
      BY <1>2, <2>1, BlockCloses DEF ReplyInv
    <3>5. WholeOf(Flushed(findings, notes_buf), Blocks, KeptBy', heard')
      BY <1>1, <2>2, <3>2, <3>4, WholeHeard
    <3>6. Pending' = Flushed(findings, notes_buf)
      BY <1>8, <1>10, <2>4
    <3> QED BY <1>1, <1>5, <2>4, <3>1, <3>3, <3>5, <3>6, Zenon DEF NotesInv, R!IsTrigger, Ender
  <2>5. CASE ~Ender(line)
    <3>1. /\ in_notes' /\ InBlock(Len(heard) + 1)' /\ Pending' = findings
          /\ notes_buf' = IF Shape[line.text] = "separator" THEN notes_buf
                          ELSE Append(notes_buf, line.text)
      BY <1>1, <1>4, <1>5, <1>8, <1>10, <2>5, LineNotes
    <3>2. \A u \in Openers : u # t => Kept(u)' = Kept(u)
      BY <1>6, <2>3
    <3>3. Blocks' \ {t} = Blocks \ {t} /\ Blocks \ {t} \subseteq Openers
      BY <2>2, <3>2 DEF Blocks
    <3>4. \A u \in Blocks \ {t} : ~OpenAt(u)'
      BY <2>2, <2>3
    <3>5. WholeOf(findings, Blocks \ {t}, KeptBy', heard')
      BY <1>1, <2>1, <3>3, <3>4, WholeHeard
    <3>6. OpenAt(t)' /\ t \in Openers'
      BY <1>6, <2>1, <2>5
    <3>7. \A k \in Kept(t) : k \in Int /\ k < n + 1 /\ heard'[k].text = heard[k].text
      BY <1>3, <1>6
    <3>8. Listed(notes_buf', Kept(t)', heard')
      <4>1. CASE Shape[line.text] = "separator"
        <5>1. notes_buf' = notes_buf /\ Kept(t)' = Kept(t)
          BY <1>6, <3>1, <4>1
        <5>2. Listed(notes_buf, Kept(t), heard')
          BY <2>1, <3>7, ListedSame
        <5> QED BY <5>1, <5>2
      <4>2. CASE Shape[line.text] # "separator"
        <5>1. notes_buf' = Append(notes_buf, heard'[n + 1].text)
              /\ Kept(t)' = Kept(t) \cup {n + 1}
          BY <1>3, <1>6, <3>1, <3>6, <4>2
        <5>2. heard'[n + 1].text \in Texts /\ n + 1 \in Int
          BY <1>3, RuleAssumption DEF RuleAssumption
        <5>3. /\ \A k \in Kept(t) : k \in Int /\ k < n + 1
              /\ \A k \in Kept(t) : heard'[k].text = heard[k].text
          BY <3>7
        <5>4. Listed(Append(notes_buf, heard'[n + 1].text), Kept(t) \cup {n + 1}, heard')
          BY <1>2, <2>1, <5>2, <5>3, ListedNext
        <5> QED BY <5>1, <5>4
      <4> QED BY <4>1, <4>2
    <3>9. \E u \in Openers' : /\ OpenAt(u)' /\ Listed(notes_buf', Kept(u)', heard')
                              /\ WholeOf(Pending', Blocks' \ {u}, KeptBy', heard')
      BY <3>1, <3>3, <3>5, <3>6, <3>8
    <3> QED BY <1>1, <3>1, <3>9 DEF NotesInv
  <2> QED BY <2>4, <2>5
<1>11. CASE ~in_notes
  <2>1. /\ notes_buf = <<>> /\ WholeOf(findings, Blocks, KeptBy, heard)
        /\ ~InBlock(n + 1) /\ Blocks \subseteq Openers
    BY <1>2, <1>4, <1>11 DEF NotesInv, Blocks
  <2>2. \A u \in Openers : ~OpenAt(u)' /\ Kept(u)' = Kept(u)
    BY <1>0, <1>6, <2>1, NoneOpen DEF ReplyInv
  <2>3. WholeOf(findings, Blocks, KeptBy', heard')
    BY <1>1, <2>1, <2>2, WholeHeard
  <2>4. /\ (in_notes' <=> R!IsTrigger(line)) /\ notes_buf' = <<>>
        /\ Pending' = findings
    BY <1>1, <1>8, <1>11, <2>1, LineNotes
  <2>5. CASE ~R!IsTrigger(line)
    <3>1. Openers' = Openers
      BY <1>7, <2>5
    <3>2. Blocks' = Blocks
      BY <2>2, <3>1 DEF Blocks
    <3> QED BY <1>1, <1>5, <2>1, <2>3, <2>4, <2>5, <3>2 DEF NotesInv
  <2>6. CASE R!IsTrigger(line)
    <3>1. Openers' = Openers \cup {n + 1}
      BY <1>7, <2>1, <2>6
    <3>2. OpenAt(n + 1)' /\ Kept(n + 1)' = {}
      <4>1. n + 1 \in 1..(n + 1)
        BY <1>3
      <4>2. ASSUME NEW t \in 1..(n + 1), t = n + 1 PROVE OpenAt(t)' /\ Kept(t)' = {}
        BY <1>0, <1>1, <4>2, KeptNext
      <4> QED BY <4>1, <4>2
    <3>3. Blocks' \ {n + 1} = Blocks
      <4>1. n + 1 \notin Openers
        BY <1>3, <1>6
      <4> QED BY <2>2, <3>1, <4>1 DEF Blocks
    <3>4. Listed(notes_buf', Kept(n + 1)', heard')
      BY <2>4, <3>2, ListedNone
    <3> QED BY <1>1, <1>5, <2>3, <2>4, <2>6, <3>1, <3>2, <3>3, <3>4 DEF NotesInv
  <2> QED BY <2>5, <2>6
<1> QED BY <1>10, <1>11

\* What the properties say of the lines depends on nothing else.
LEMMA SameLines ==
  ASSUME UNCHANGED heard
  PROVE  /\ Openers' = Openers /\ Blocks' = Blocks /\ KeptBy' = KeptBy
         /\ InBlock(Len(heard) + 1)' <=> InBlock(Len(heard) + 1)
         /\ \A t \in Openers : Kept(t)' = Kept(t) /\ (OpenAt(t)' <=> OpenAt(t))
<1>1. \A t : Kept(t)' = Kept(t) /\ (OpenAt(t)' <=> OpenAt(t))
  BY DEF Kept, OpenAt
<1>2. \A t : InBlock(t)' <=> InBlock(t)
  BY DEF InBlock
<1>3. InBlock(Len(heard) + 1)' <=> InBlock(Len(heard) + 1)
  BY DEF InBlock
<1>4. Openers' = Openers
  BY <1>2 DEF Openers
<1>5. Blocks' = Blocks
  BY <1>1, <1>4 DEF Blocks
<1>6. KeptBy' = KeptBy
  BY <1>1, <1>4 DEF KeptBy
<1> QED BY <1>1, <1>3, <1>4, <1>5, <1>6

LEMMA NotesExit ==
  ASSUME ReplyInv, NotesInv, CallOnExit
  PROVE  NotesInv'
<1>1. ~Ended /\ Ended' /\ UNCHANGED heard /\ R!OnExit(exit = "zero")
  BY ExitPending
<1>2. /\ Pending = findings /\ Pending' = Flushed(findings, notes_buf)
      /\ findings \in Seq(Seq(Texts)) /\ notes_buf \in Seq(Texts)
      /\ heard \in Seq(Lines)
  BY ExitPending DEF ReplyInv
<1>3. in_notes' = FALSE /\ notes_buf' = <<>>
  BY <1>1 DEF R!OnExit
<1>4. WholeOf(Flushed(findings, notes_buf), Blocks, KeptBy, heard)
  <2>1. CASE in_notes
    <3>1. PICK t \in Openers : /\ OpenAt(t)
                               /\ Listed(notes_buf, Kept(t), heard)
                               /\ WholeOf(findings, Blocks \ {t}, KeptBy, heard)
      BY <1>2, <2>1 DEF NotesInv
    <3> QED BY <1>2, <3>1, BlockCloses
  <2>2. CASE ~in_notes
    BY <1>2, <2>2 DEF NotesInv, Flushed
  <2> QED BY <2>1, <2>2
<1>5. Blocks' = Blocks /\ KeptBy' = KeptBy
  BY <1>1, SameLines
<1>6. WholeOf(Pending', Blocks', KeptBy', heard')
  BY <1>1, <1>2, <1>4, <1>5
<1> QED BY <1>1, <1>3, <1>6 DEF NotesInv

-----------------------------------------------------------------------------
(* What the driver does with a reply.                                      *)

\* What the interpreter's errors make of the job's: v.
Known(v) == IF Has(batch, "KnownError") THEN Errs(batch, v) ELSE knownError = v

LEMMA TailOf ==
  ASSUME NEW b, IsSeq(b), b # <<>>
  PROVE  /\ IsSeq(Tail(b)) /\ 1 \in DOMAIN b /\ Head(b) = b[1]
         /\ \A i \in DOMAIN Tail(b) :
              i + 1 \in DOMAIN b /\ i + 1 # 1 /\ Tail(b)[i] = b[i + 1]
         /\ \A i \in DOMAIN b :
              i = 1 \/ (i - 1 \in DOMAIN Tail(b) /\ b[i] = Tail(b)[i - 1])
<1>1. PICK S : b \in Seq(S)
  BY DEF IsSeq
<1> DEFINE t == Tail(b)
<1>2. /\ t \in Seq(S) /\ Len(b) \in Nat /\ Len(b) > 0
      /\ DOMAIN b = 1..Len(b) /\ DOMAIN t = 1..(Len(b) - 1)
      /\ \A i \in DOMAIN t : t[i] = b[i + 1]
      /\ Head(b) = b[1]
  BY <1>1
<1> HIDE DEF t
<1>3. /\ IsSeq(t) /\ 1 \in DOMAIN b
      /\ \A i \in DOMAIN t : i + 1 \in DOMAIN b /\ i + 1 # 1
      /\ \A i \in DOMAIN b : i = 1 \/ (i - 1 \in DOMAIN t /\ b[i] = t[i - 1])
  BY <1>2 DEF IsSeq
<1> QED BY <1>2, <1>3 DEF t

LEMMA ApplyKeeps ==
  ASSUME ReplyInv, ApplyEvent
  PROVE  /\ Pending' = Pending
         /\ \A v : Known(v) => Known(v)'
         /\ IsSeq(batch') /\ ~Has(batch', "Finding")
         /\ hpc = "apply" /\ hpc' \in {"apply", "emit"}
         /\ UNCHANGED <<exit, drained>>
<1> DEFINE e == Head(batch)
<1>1. /\ hpc = "apply" /\ batch # <<>> /\ batch' = Tail(batch)
      /\ UNCHANGED <<exit, drained>>
  BY DEF ApplyEvent, Take, EnterPhase, UpdatePhase, ExitPhase, Progress, Label,
         Warning, Prompt, KnownError, Finding, Summary, endVars
<1>2. hpc' \in {"apply", "emit"}
  BY <1>1 DEF ApplyEvent, EnterPhase, UpdatePhase, ExitPhase, Progress,
                    Label, Warning, Prompt, KnownError, Finding, Summary, Say,
                    Mismatch
<1>3. /\ IsSeq(batch') /\ 1 \in DOMAIN batch /\ e = batch[1]
      /\ \A i \in DOMAIN batch' :
           i + 1 \in DOMAIN batch /\ i + 1 # 1 /\ batch'[i] = batch[i + 1]
      /\ \A i \in DOMAIN batch :
           i = 1 \/ (i - 1 \in DOMAIN batch' /\ batch[i] = batch'[i - 1])
  BY <1>1, TailOf DEF ReplyInv
<1>4. ~Has(batch', "Finding")
  BY <1>3 DEF Has, ReplyInv
<1>5. IF e.kind = "Finding" THEN findings' = Append(findings, e.arg)
                            ELSE findings' = findings
  BY DEF ApplyEvent, Take, EnterPhase, UpdatePhase, ExitPhase, Progress, Label,
         Warning, Prompt, KnownError, Finding, Summary, driverVars
<1>6. IF e.kind = "KnownError" THEN knownError' = e.arg
                               ELSE knownError' = knownError
  BY DEF ApplyEvent, Take, EnterPhase, UpdatePhase, ExitPhase, Progress, Label,
         Warning, Prompt, KnownError, Finding, Summary, driverVars
<1> HIDE DEF e
<1>7. Pending' = Pending
  <2>1. Pending' = findings'
    BY <1>3, <1>4, NothingPending DEF Pending
  <2> QED BY <1>1, <1>5, <2>1 DEF Pending, PendingOf, e
<1>8. ASSUME NEW v, Known(v) PROVE Known(v)'
  <2>1. Has(batch, "KnownError") <=> e.kind = "KnownError" \/ Has(batch', "KnownError")
    BY <1>3 DEF Has
  <2>2. Errs(batch, v) => Errs(batch', v) /\ (e.kind = "KnownError" => e.arg = v)
    BY <1>3 DEF Errs
  <2>3. Known(v)' <=> IF Has(batch', "KnownError") THEN Errs(batch', v) ELSE knownError' = v
    BY DEF Known
  <2> QED BY <1>6, <1>8, <2>1, <2>2, <2>3 DEF Known
<1> QED BY <1>1, <1>2, <1>3, <1>4, <1>7, <1>8

\* Not the reply, nor what is made of it.
Idle == UNCHANGED <<batch, findings, knownError>>

LEMMA IdleKeeps ==
  ASSUME Idle PROVE Pending' = Pending /\ \A v : Known(v)' <=> Known(v)
<1>1. Pending' = Pending
  BY DEF Idle, Pending, PendingOf
<1>2. \A v : Known(v)' <=> Known(v)
  BY DEF Idle, Known, Has, Errs
<1> QED BY <1>1, <1>2

\* The driver's own steps leave the interpreter alone, and what its last reply
\* will make of the findings and the error.
LEMMA HostKeeps ==
  ASSUME ReplyInv, ByHost \/ UNCHANGED hostedVars
  PROVE  /\ UNCHANGED <<heard, in_notes, notes_buf, emitted_known_error,
                        fallback_error, last_stderr>>
         /\ Ended' <=> Ended
         /\ Ended => exit' = exit
         /\ Pending' = Pending
         /\ \A v : Known(v) => Known(v)'
         /\ IsSeq(batch') /\ \A i \in DOMAIN batch' : batch'[i].kind = "Finding" => i = 1
         /\ hpc' \notin {"apply", "emit"} => batch' = <<>>
         /\ drained' => hpc' # "read"
         /\ hpc' \in {"close", "judge", "done"} => drained'
<1> USE DEF driverVars, endVars, ReplyInv
<1>1. UNCHANGED <<heard, in_notes, notes_buf, emitted_known_error,
                  fallback_error, last_stderr>>
  BY DEF ByHost, hostedVars, ruleVars
<1>2. SUFFICES
        /\ Ended' <=> Ended
        /\ Ended => exit' = exit
        /\ Pending' = Pending
        /\ \A v : Known(v) => Known(v)'
        /\ IsSeq(batch') /\ \A i \in DOMAIN batch' : batch'[i].kind = "Finding" => i = 1
        /\ hpc' \notin {"apply", "emit"} => batch' = <<>>
        /\ drained' => hpc' # "read"
        /\ hpc' \in {"close", "judge", "done"} => drained'
  BY <1>1
<1>3. CASE ProcessLine
  <2>1. Idle /\ ~disabled
    BY <1>3 DEF ProcessLine, Idle, FlatInv
  <2> QED BY <1>3, <2>1, IdleKeeps DEF ProcessLine, Ended, Idle
<1>4. CASE ProcessExits
  <2>1. Idle
    BY <1>4 DEF ProcessExits, Idle
  <2> QED BY <1>4, <2>1, IdleKeeps DEF ProcessExits, Ended, Idle
<1>5. CASE FinishReading
  <2>1. Idle /\ ~disabled
    BY <1>5 DEF FinishReading, Idle, FlatInv
  <2> QED BY <1>5, <2>1, IdleKeeps DEF FinishReading, Ended, Idle
<1>6. CASE Emit
  <2>1. Idle
    BY <1>6 DEF Emit, Idle
  <2> QED BY <1>6, <2>1, IdleKeeps DEF Emit, Ended, Idle
<1>7. CASE ApplyEvent
  <2>1. /\ Pending' = Pending
        /\ \A v : Known(v) => Known(v)'
        /\ IsSeq(batch') /\ ~Has(batch', "Finding")
        /\ hpc = "apply" /\ hpc' \in {"apply", "emit"}
        /\ UNCHANGED <<exit, drained>>
    BY <1>7, ApplyKeeps
  <2> QED BY <2>1 DEF Ended, Has
<1>8. CASE Applied
  <2>1. Idle
    BY <1>8 DEF Applied, Idle
  <2> QED BY <1>8, <2>1, IdleKeeps DEF Applied, Ended, Idle
<1>9. CASE CloseInnermost \/ AllClosed
  <2>1. Idle
    BY <1>9 DEF CloseInnermost, AllClosed, CloseUnchanged, Idle
  <2> QED BY <1>9, <2>1, IdleKeeps DEF CloseInnermost, AllClosed, CloseUnchanged,
                                       Ended, Idle
<1>10. CASE Judge
  <2>1. Idle
    BY <1>10 DEF Judge, Idle
  <2> QED BY <1>10, <2>1, IdleKeeps DEF Judge, Ended, Idle
<1>11. CASE UNCHANGED hostVars
  <2>1. Idle /\ UNCHANGED <<hpc, exit, drained>>
    BY <1>11 DEF hostVars, Idle
  <2> QED BY <2>1, IdleKeeps DEF Ended, Idle
<1> QED BY <1>3, <1>4, <1>5, <1>6, <1>7, <1>8, <1>9, <1>10, <1>11
        DEF ByHost, Judged, HostStep, hostedVars

LEMMA ReplyInit == InitHosted => ReplyInv
<1> SUFFICES ASSUME InitHosted PROVE ReplyInv
  OBVIOUS
<1>1. /\ hpc = "read" /\ batch = <<>> /\ findings = <<>> /\ ~drained
      /\ heard = <<>> /\ notes_buf = <<>> /\ outcome = NoOutcome
  BY DEF InitHosted, Init, R!InitRules
<1>2. Pending = <<>>
  BY <1>1 DEF Pending, PendingOf
<1>3. IsSeq(batch) /\ DOMAIN batch = {}
  BY <1>1, Short DEF Tidy
<1>4. VerdictInv
  BY <1>1 DEF VerdictInv
<1> QED BY <1>1, <1>2, <1>3, <1>4, FlatInit DEF ReplyInv

LEMMA ReplyNext == ReplyInv /\ [NextHosted]_hostedVars => ReplyInv'
<1> SUFFICES ASSUME ReplyInv, [NextHosted]_hostedVars PROVE ReplyInv'
  OBVIOUS
<1>1. FlatInv'
  BY FlatNext DEF ReplyInv
<1>2. ASSUME ByHost \/ UNCHANGED hostedVars PROVE ReplyInv'
  <2>1. HostStep \/ UNCHANGED hostVars
    BY <1>2 DEF ByHost, Judged, hostedVars
  <2>2. VerdictInv'
    BY <2>1, VerdictHost DEF ReplyInv
  <2>3. /\ UNCHANGED <<heard, notes_buf>> /\ Pending' = Pending
        /\ IsSeq(batch') /\ \A i \in DOMAIN batch' : batch'[i].kind = "Finding" => i = 1
        /\ hpc' \notin {"apply", "emit"} => batch' = <<>>
        /\ drained' => hpc' # "read"
        /\ hpc' \in {"close", "judge", "done"} => drained'
    BY <1>2, HostKeeps
  <2> QED BY <1>1, <2>2, <2>3 DEF ReplyInv
<1>3. ASSUME NEW found \in Seq(Seq(Texts)), NEW buf \in Seq(Texts)
      PROVE  Flushed(found, buf) \in Seq(Seq(Texts))
  BY DEF Flushed
<1>4. ASSUME NEW line \in Lines, CallOnLine(line) PROVE ReplyInv'
  <2>1. CallReturns(batch')
    BY <1>4 DEF CallOnLine
  <2>2. VerdictInv' /\ hpc' = "apply" /\ (drained' <=> drained)
    BY <2>1, VerdictCall DEF ReplyInv, CallReturns, endVars
  <2>3. /\ R!OnLine(line) /\ IsHeard(line) /\ Pending = findings
        /\ Pending' = IF in_notes /\ Ender(line)
                      THEN Flushed(findings, notes_buf) ELSE findings
        /\ IsSeq(batch') /\ \A i \in DOMAIN batch' : batch'[i].kind = "Finding" => i = 1
    BY <1>4, LinePending
  <2>4. Pending' \in Seq(Seq(Texts))
    BY <1>3, <2>3 DEF ReplyInv
  <2>5. heard' \in Seq(Lines)
    BY <2>3 DEF IsHeard
  <2>6. notes_buf' \in Seq(Texts)
    <3>1. line.text \in Texts
      BY RuleAssumption DEF RuleAssumption
    <3>2. notes_buf' \in {notes_buf, <<>>, Append(notes_buf, line.text)}
      BY <2>3, LineNotes
    <3>3. notes_buf \in Seq(Texts)
      BY DEF ReplyInv
    <3>4. Append(notes_buf, line.text) \in Seq(Texts) /\ <<>> \in Seq(Texts)
      BY <3>1, <3>3
    <3> QED BY <3>2, <3>3, <3>4, Zenon
  <2> QED BY <1>1, <2>2, <2>3, <2>4, <2>5, <2>6 DEF ReplyInv
<1>5. CASE CallOnExit
  <2>1. CallReturns(batch')
    BY <1>5 DEF CallOnExit
  <2>2. VerdictInv' /\ hpc' = "apply" /\ (drained' <=> drained)
    BY <2>1, VerdictCall DEF ReplyInv, CallReturns, endVars
  <2>3. /\ UNCHANGED heard /\ R!OnExit(exit = "zero") /\ Pending = findings
        /\ Pending' = Flushed(findings, notes_buf)
        /\ IsSeq(batch') /\ \A i \in DOMAIN batch' : batch'[i].kind = "Finding" => i = 1
    BY <1>5, ExitPending
  <2>4. Pending' \in Seq(Seq(Texts)) /\ notes_buf' = <<>>
    BY <1>3, <2>3 DEF ReplyInv, R!OnExit
  <2> QED BY <1>1, <2>2, <2>3, <2>4 DEF ReplyInv
<1> QED BY <1>2, <1>4, <1>5 DEF NextHosted

-----------------------------------------------------------------------------
(* The findings of the outcome.                                            *)

LEMMA NotesInit == InitHosted => NotesInv
<1> SUFFICES ASSUME InitHosted PROVE NotesInv
  OBVIOUS
<1>1. /\ findings = <<>> /\ batch = <<>> /\ ~drained
      /\ heard = <<>> /\ notes_buf = <<>> /\ in_notes = FALSE
  BY DEF InitHosted, Init, R!InitRules
<1>2. Pending = <<>>
  BY <1>1 DEF Pending, PendingOf
<1>3. Openers = {} /\ Blocks = {} /\ ~InBlock(Len(heard) + 1)
  BY <1>1 DEF Openers, Blocks, InBlock
<1>4. WholeOf(Pending, Blocks, KeptBy, heard)
  BY <1>2, <1>3, WholeNone
<1> QED BY <1>1, <1>3, <1>4 DEF NotesInv, Ended

LEMMA NotesNext == ReplyInv /\ NotesInv /\ [NextHosted]_hostedVars => NotesInv'
<1> SUFFICES ASSUME ReplyInv, NotesInv, [NextHosted]_hostedVars PROVE NotesInv'
  OBVIOUS
<1>1. ASSUME ByHost \/ UNCHANGED hostedVars PROVE NotesInv'
  <2>1. /\ UNCHANGED <<heard, in_notes, notes_buf>>
        /\ Ended' <=> Ended
        /\ Pending' = Pending
    BY <1>1, HostKeeps
  <2>2. /\ Openers' = Openers /\ Blocks' = Blocks /\ KeptBy' = KeptBy
        /\ InBlock(Len(heard) + 1)' <=> InBlock(Len(heard) + 1)
        /\ \A t \in Openers : Kept(t)' = Kept(t) /\ (OpenAt(t)' <=> OpenAt(t))
    BY <2>1, SameLines
  <2> QED BY <2>1, <2>2 DEF NotesInv
<1> QED BY <1>1, NotesLine, NotesExit DEF NextHosted

\* The findings of the outcome are the notes blocks of the output, each whole
\* (StartNotes to EndNotes in on_line, flush_notes in on_exit, and the Finding
\* arm of apply_events), for every table of rules and every output.
THEOREM NotesWhole == HostedSpec => []NotesAreWhole
<1>1. ReplyInv /\ NotesInv => NotesAreWhole
  <2> SUFFICES ASSUME ReplyInv, NotesInv, outcome # NoOutcome PROVE NotesAreWhole
    BY DEF NotesAreWhole
  <2>1. hpc = "done" /\ batch = <<>> /\ Ended
    BY DEF ReplyInv, VerdictInv, Ended
  <2>2. Pending = findings /\ ~in_notes
    BY <2>1 DEF Pending, PendingOf, NotesInv
  <2>3. WholeOf(findings, Blocks, KeptBy, heard)
    BY <2>2 DEF NotesInv
  <2>4. PICK at \in InOrder(findings, Blocks) :
          \A n \in DOMAIN findings : Listed(findings[n], KeptBy[at[n]], heard)
    BY <2>3 DEF WholeOf
  <2>5. \A n \in DOMAIN findings : KeptBy[at[n]] = Kept(at[n])
    BY DEF InOrder, Blocks, KeptBy
  <2> QED BY <2>4, <2>5 DEF NotesAreWhole
<1> QED BY <1>1, ReplyInit, ReplyNext, NotesInit, NotesNext, PTL DEF HostedSpec

-----------------------------------------------------------------------------
(* The error of the outcome.                                               *)

ErrorOf == IF RuleErrors # {} THEN Match[Final(RuleErrors)].arg ELSE "none"
FallbackOf == IF Fallback.from_failed_line /\ Unmatched # {}
              THEN First(Unmatched) ELSE "none"
StderrOf == IF OnStderr # {} THEN Final(OnStderr) ELSE "none"
Explained == IF RuleErrors # {} THEN ErrorOf
             ELSE IF FallbackOf # "none" THEN FallbackOf
             ELSE IF Fallback.from_stderr THEN StderrOf ELSE "none"

\* Between two lines the fields are what the lines say; and when the last
\* reply of a failed job is applied the driver's error is the explanation.
ErrorInv ==
  /\ ~Ended => /\ emitted_known_error <=> RuleErrors # {}
               /\ ~emitted_known_error => fallback_error = FallbackOf
               /\ last_stderr = StderrOf
  /\ Known(IF Ended /\ exit # "zero" THEN Explained ELSE ErrorOf)

LEMMA FirstPosition ==
  ASSUME NEW n \in Nat, NEW S, S \subseteq 1..n, S # {}
  PROVE  \E k \in S : \A m \in S : k <= m
<1> DEFINE back == {n + 1 - k : k \in S}
<1>1. back \subseteq 1..n /\ back # {}
  <2>1. \A k \in S : n + 1 - k \in 1..n
    OBVIOUS
  <2>2. PICK k \in S : TRUE
    OBVIOUS
  <2>3. n + 1 - k \in back
    OBVIOUS
  <2> QED BY <2>1, <2>3
<1>2. PICK r \in back : \A q \in back : q <= r
  BY <1>1, LastPosition
<1>3. PICK k \in S : r = n + 1 - k
  BY <1>2
<1>4. \A m \in S : n + 1 - m <= n + 1 - k
  BY <1>2, <1>3
<1>5. \A m \in S : k <= m
  BY <1>4
<1> QED BY <1>5

\* First and Final, of any list of lines
FirstAt(h, S) == h[CHOOSE i \in S : \A k \in S : i <= k].text
FinalAt(h, S) == h[CHOOSE i \in S : \A k \in S : i >= k].text

\* Two lists with the same first n lines.
Alike(g, h, n) == \A i \in 1..n : g[i] = h[i]

\* The last of a set with position n + 1 in it.
LEMMA FinalNext ==
  ASSUME NEW n \in Nat, NEW S, S \subseteq 1..n, NEW g
  PROVE  FinalAt(g, S \cup {n + 1}) = g[n + 1].text
<1> DEFINE T == S \cup {n + 1}
<1>1. \A k \in T : k \in Int /\ k <= n + 1
  OBVIOUS
<1>2. n + 1 \in T
  OBVIOUS
<1> HIDE DEF T
<1>3. \A i \in T : (\A k \in T : i >= k) <=> i = n + 1
  BY <1>1, <1>2
<1>4. (CHOOSE i \in T : \A k \in T : i >= k) = n + 1
  BY <1>2, <1>3
<1> QED BY <1>4 DEF FinalAt, T

\* Line i of h is the first, or the last, of the lines S, and the first with
\* line n + 1 among them too, in every list that begins as h does.
FirstIs(h, n, S, i) == \A g : Alike(g, h, n) =>
  FirstAt(g, S) = h[i].text /\ FirstAt(g, S \cup {n + 1}) = h[i].text
FinalIs(h, n, S, i) == \A g : Alike(g, h, n) => FinalAt(g, S) = h[i].text

LEMMA FinalIn ==
  ASSUME NEW n \in Nat, NEW S, S \subseteq 1..n, S # {}, NEW h
  PROVE  \E i \in S : FinalIs(h, n, S, i)
<1> DEFINE top == CHOOSE i \in S : \A k \in S : i >= k
<1>1. \E i \in S : \A k \in S : k <= i
  BY LastPosition
<1>2. \E i \in S : \A k \in S : i >= k
  BY <1>1
<1>3. top \in S
  BY <1>2
<1>4. \A g : FinalAt(g, S) = g[top].text
  BY DEF FinalAt
<1> HIDE DEF top
<1> QED BY <1>3, <1>4 DEF Alike, FinalIs

LEMMA FirstIn ==
  ASSUME NEW n \in Nat, NEW S, S \subseteq 1..n, S # {}, NEW h
  PROVE  \E i \in S : FirstIs(h, n, S, i)
<1> DEFINE T == S \cup {n + 1}
           Low(U) == CHOOSE i \in U : \A k \in U : i <= k
<1>1. PICK m \in S : \A k \in S : m <= k
  BY FirstPosition
<1>2. /\ \A i \in S : (\A k \in S : i <= k) <=> i = m
      /\ \A i \in T : (\A k \in T : i <= k) <=> i = m
      /\ m \in T
  BY <1>1
<1>3. Low(S) = m
  BY <1>2
<1> HIDE DEF T
<1>4. Low(T) = m
  BY <1>2
<1>5. \A g : FirstAt(g, S) = g[Low(S)].text /\ FirstAt(g, T) = g[Low(T)].text
  BY DEF FirstAt
<1> HIDE DEF Low
<1>6. \A g : Alike(g, h, n) => g[m] = h[m]
  BY DEF Alike
<1>7. ASSUME NEW g, Alike(g, h, n)
      PROVE  FirstAt(g, S) = h[m].text /\ FirstAt(g, T) = h[m].text
  BY <1>3, <1>4, <1>5, <1>6, <1>7
<1> QED BY <1>7 DEF T, FirstIs

LEMMA FirstNone ==
  ASSUME NEW n \in Nat, NEW g PROVE FirstAt(g, {n + 1}) = g[n + 1].text
<1>1. (CHOOSE i \in {n + 1} : \A k \in {n + 1} : i <= k) = n + 1
  OBVIOUS
<1> QED BY <1>1 DEF FirstAt

\* Does the line get to the rules?
Ruled(line) == ~in_notes /\ ~R!IsTrigger(line) /\ Shape[line.text] # "empty"

\* What a line does to the fields the error is made of.
LEMMA LineErrors ==
  ASSUME NEW line, R!OnLine(line)
  PROVE  LET known == Ruled(line) /\ Match[line.text].kind = "KnownError" IN
         /\ emitted_known_error' <=> emitted_known_error \/ known
         /\ last_stderr' = IF Ruled(line) /\ line.stream = "stderr"
                           THEN line.text ELSE last_stderr
         /\ ~known => fallback_error' =
              IF /\ Ruled(line) /\ Match[line.text].kind = "none"
                 /\ Shape[line.text] = "failed"
                 /\ Fallback.from_failed_line /\ fallback_error = "none"
              THEN line.text ELSE fallback_error
         /\ IF known THEN batch' = <<R!Ev("KnownError", Match[line.text].arg)>>
                     ELSE ~Has(batch', "KnownError")
<1> USE DEF R!errorState
<1>1. CASE R!EndNotes(line) \/ R!SkipSeparator(line) \/ R!Collect(line)
             \/ R!StartNotes(line) \/ R!SkipEmpty(line)
  <2>1. ~Ruled(line) /\ ~R!ClassifyError(line)
    BY <1>1 DEF Ruled, R!EndNotes, R!SkipSeparator, R!Collect, R!StartNotes,
                R!SkipEmpty, R!ClassifyError, R!Classify
  <2>2. UNCHANGED <<emitted_known_error, fallback_error, last_stderr>>
    BY <1>1 DEF R!EndNotes, R!SkipSeparator, R!Collect, R!StartNotes,
                R!SkipEmpty, R!ruleVars
  <2> QED BY <2>1, <2>2, LineTells
<1>2. CASE R!ClassifyError(line)
  <2>1. /\ Ruled(line) /\ Match[line.text].kind = "KnownError"
        /\ emitted_known_error'
        /\ last_stderr' = IF line.stream = "stderr" THEN line.text ELSE last_stderr
    BY <1>2 DEF R!ClassifyError, R!Classify, Ruled
  <2> QED BY <1>2, <2>1, LineTells
<1>3. CASE R!Unclassified(line)
  <2>1. /\ Ruled(line) /\ Match[line.text].kind = "none"
        /\ UNCHANGED emitted_known_error
        /\ last_stderr' = IF line.stream = "stderr" THEN line.text ELSE last_stderr
        /\ fallback_error' =
              IF /\ Fallback.from_failed_line
                 /\ fallback_error = "none"
                 /\ Shape[line.text] = "failed"
              THEN line.text ELSE fallback_error
    BY <1>3 DEF R!Unclassified, R!Classify, Ruled
  <2>2. ~R!ClassifyError(line)
    BY <2>1 DEF R!ClassifyError, R!Classify
  <2> QED BY <2>1, <2>2, LineTells
<1>4. CASE R!Benign(line) \/ R!Report(line) \/ R!StartPhase(line) \/ R!ByteProgress(line)
  <2>1. /\ Ruled(line) /\ Match[line.text].kind \notin {"none", "KnownError"}
        /\ UNCHANGED <<emitted_known_error, fallback_error>>
        /\ last_stderr' = IF line.stream = "stderr" THEN line.text ELSE last_stderr
    BY <1>4 DEF R!Benign, R!Report, R!StartPhase, R!ByteProgress, R!Classify, Ruled
  <2>2. ~R!ClassifyError(line)
    BY <2>1 DEF R!ClassifyError, R!Classify
  <2> QED BY <2>1, <2>2, LineTells
<1> QED BY <1>1, <1>2, <1>3, <1>4 DEF R!OnLine

\* Each set of lines the error is read from gains the line heard, or nothing.
LEMMA SetsNext ==
  ASSUME NEW line, IsHeard(line), NEW n, n = Len(heard),
         NEW ruled, ruled <=> /\ ~InBlock(n + 1) /\ ~R!IsTrigger(line)
                              /\ Shape[line.text] # "empty"
  PROVE  /\ RuleErrors' = RuleErrors \cup
              (IF ruled /\ Match[line.text].kind = "KnownError" THEN {n + 1} ELSE {})
         /\ Unmatched' = Unmatched \cup
              (IF /\ ruled /\ Match[line.text].kind = "none"
                  /\ Shape[line.text] = "failed" THEN {n + 1} ELSE {})
         /\ OnStderr' = OnStderr \cup
              (IF ruled /\ line.stream = "stderr" THEN {n + 1} ELSE {})
         /\ RuleErrors \subseteq 1..n /\ Unmatched \subseteq 1..n
         /\ OnStderr \subseteq 1..n
<1>1. /\ n \in Nat /\ DOMAIN heard = 1..n /\ DOMAIN heard' = 1..(n + 1)
      /\ \A i \in 1..n : heard'[i] = heard[i]
      /\ heard'[n + 1] = line
  BY HeardNext
<1>2. /\ \A i \in 1..(n + 1) : InBlock(i)' <=> InBlock(i)
      /\ \A i : i \in 1..(n + 1) <=> i \in 1..n \/ i = n + 1
      /\ n + 1 \notin 1..n
  BY <1>1, BlockNext
<1>3. \A i \in 1..n : Outside(i)' <=> Outside(i)
  BY <1>1, <1>2 DEF Outside
<1>4. Outside(n + 1)' <=> ruled
  BY <1>1, <1>2 DEF Outside
<1>5. RuleErrors' = RuleErrors \cup
        (IF ruled /\ Match[line.text].kind = "KnownError" THEN {n + 1} ELSE {})
  <2>1. \A i : i \in RuleErrors' <=>
          i \in 1..(n + 1) /\ Outside(i)' /\ Match[heard'[i].text].kind = "KnownError"
    BY <1>1 DEF RuleErrors
  <2>2. \A i : i \in RuleErrors <=>
          i \in 1..n /\ Outside(i) /\ Match[heard[i].text].kind = "KnownError"
    BY <1>1 DEF RuleErrors
  <2>3. \A i : i \in RuleErrors' <=> i \in RuleErrors
          \/ (ruled /\ Match[line.text].kind = "KnownError" /\ i = n + 1)
    BY <1>1, <1>2, <1>3, <1>4, <2>1, <2>2
  <2> QED BY <2>3
<1>6. Unmatched' = Unmatched \cup
        (IF /\ ruled /\ Match[line.text].kind = "none"
            /\ Shape[line.text] = "failed" THEN {n + 1} ELSE {})
  <2>1. \A i : i \in Unmatched' <=>
          /\ i \in 1..(n + 1) /\ Outside(i)' /\ Match[heard'[i].text].kind = "none"
          /\ Shape[heard'[i].text] = "failed"
    BY <1>1 DEF Unmatched
  <2>2. \A i : i \in Unmatched <=>
          /\ i \in 1..n /\ Outside(i) /\ Match[heard[i].text].kind = "none"
          /\ Shape[heard[i].text] = "failed"
    BY <1>1 DEF Unmatched
  <2>3. \A i : i \in Unmatched' <=> i \in Unmatched
          \/ /\ ruled /\ Match[line.text].kind = "none"
             /\ Shape[line.text] = "failed" /\ i = n + 1
    BY <1>1, <1>2, <1>3, <1>4, <2>1, <2>2
  <2> QED BY <2>3
<1>7. OnStderr' = OnStderr \cup
        (IF ruled /\ line.stream = "stderr" THEN {n + 1} ELSE {})
  <2>1. \A i : i \in OnStderr' <=>
          i \in 1..(n + 1) /\ Outside(i)' /\ heard'[i].stream = "stderr"
    BY <1>1 DEF OnStderr
  <2>2. \A i : i \in OnStderr <=>
          i \in 1..n /\ Outside(i) /\ heard[i].stream = "stderr"
    BY <1>1 DEF OnStderr
  <2>3. \A i : i \in OnStderr' <=> i \in OnStderr
          \/ (ruled /\ line.stream = "stderr" /\ i = n + 1)
    BY <1>1, <1>2, <1>3, <1>4, <2>1, <2>2
  <2> QED BY <2>3
<1>8. /\ RuleErrors \subseteq 1..n /\ Unmatched \subseteq 1..n
      /\ OnStderr \subseteq 1..n
  BY <1>1 DEF RuleErrors, Unmatched, OnStderr
<1> QED BY <1>5, <1>6, <1>7, <1>8

\* A list of lines and the sets of lines it is read through.
LEMMA Readings ==
  /\ ErrorOf = IF RuleErrors # {} THEN Match[FinalAt(heard, RuleErrors)].arg
               ELSE "none"
  /\ FallbackOf = IF Fallback.from_failed_line /\ Unmatched # {}
                  THEN FirstAt(heard, Unmatched) ELSE "none"
  /\ StderrOf = IF OnStderr # {} THEN FinalAt(heard, OnStderr) ELSE "none"
  BY DEF ErrorOf, FallbackOf, StderrOf, First, Final, FirstAt, FinalAt

\* A text read from a line is a text.
LEMMA FirstIsText ==
  ASSUME heard \in Seq(Lines), NEW S, S \subseteq DOMAIN heard, S # {}
  PROVE  FirstAt(heard, S) \in Texts
<1>1. PICK n : n = Len(heard)
  OBVIOUS
<1>2. n \in Nat /\ S \subseteq 1..n
  BY <1>1
<1>3. Alike(heard, heard, n)
  BY DEF Alike
<1>4. PICK k \in S : FirstIs(heard, n, S, k)
  BY <1>2, FirstIn
<1>5. heard[k].text \in Texts
  BY <1>1, <1>2, RuleAssumption DEF RuleAssumption
<1> QED BY <1>3, <1>4, <1>5 DEF FirstIs

LEMMA FallbackNone ==
  ASSUME heard \in Seq(Lines)
  PROVE  FallbackOf = "none" <=> ~(Fallback.from_failed_line /\ Unmatched # {})
<1>1. Unmatched \subseteq DOMAIN heard
  BY DEF Unmatched
<1>2. Unmatched # {} => FirstAt(heard, Unmatched) \in Texts
  BY <1>1, FirstIsText
<1> QED BY <1>2, Readings, HostAssumption DEF HostAssumption

LEMMA ErrorLine ==
  ASSUME ReplyInv, NotesInv, ErrorInv, NEW line \in Lines, CallOnLine(line)
  PROVE  ErrorInv'
<1>1. PICK n : n = Len(heard)
  OBVIOUS
<1>2. /\ batch = <<>> /\ ~Ended /\ ~Ended' /\ knownError' = knownError
      /\ R!OnLine(line) /\ IsHeard(line) /\ heard \in Seq(Lines)
  BY LinePending DEF ReplyInv
<1>3. /\ n \in Nat /\ heard'[n + 1] = line
      /\ \A i \in 1..n : heard'[i] = heard[i]
  BY <1>1, <1>2, HeardNext
<1> DEFINE ruled == Ruled(line)
           known == ruled /\ Match[line.text].kind = "KnownError"
           failed == /\ ruled /\ Match[line.text].kind = "none"
                     /\ Shape[line.text] = "failed"
           said == ruled /\ line.stream = "stderr"
<1>4. ruled <=> /\ ~InBlock(n + 1) /\ ~R!IsTrigger(line)
                /\ Shape[line.text] # "empty"
  BY <1>1, <1>2 DEF NotesInv, Ruled
<1>5. /\ RuleErrors' = RuleErrors \cup (IF known THEN {n + 1} ELSE {})
      /\ Unmatched' = Unmatched \cup (IF failed THEN {n + 1} ELSE {})
      /\ OnStderr' = OnStderr \cup (IF said THEN {n + 1} ELSE {})
      /\ RuleErrors \subseteq 1..n /\ Unmatched \subseteq 1..n
      /\ OnStderr \subseteq 1..n
  BY <1>1, <1>2, <1>4, SetsNext
<1>6. /\ emitted_known_error' <=> emitted_known_error \/ known
      /\ last_stderr' = IF said THEN line.text ELSE last_stderr
      /\ ~known => fallback_error' =
           IF failed /\ Fallback.from_failed_line /\ fallback_error = "none"
           THEN line.text ELSE fallback_error
      /\ IF known THEN batch' = <<R!Ev("KnownError", Match[line.text].arg)>>
                  ELSE ~Has(batch', "KnownError")
  BY <1>2, LineErrors
<1>7. /\ emitted_known_error <=> RuleErrors # {}
      /\ ~emitted_known_error => fallback_error = FallbackOf
      /\ last_stderr = StderrOf
      /\ knownError = ErrorOf
  <2>1. ~Has(batch, "KnownError")
    BY <1>2, Short
  <2> QED BY <1>2, <2>1 DEF ErrorInv, Known
<1> HIDE DEF ruled, known, failed, said
<1>8. ASSUME NEW S, S \subseteq 1..n
      PROVE  /\ FinalAt(heard', S \cup {n + 1}) = line.text
             /\ FirstAt(heard', S \cup {n + 1}) =
                  IF S = {} THEN line.text ELSE FirstAt(heard, S)
             /\ S # {} => /\ FinalAt(heard', S) = FinalAt(heard, S)
                          /\ FirstAt(heard', S) = FirstAt(heard, S)
  <2>1. Alike(heard', heard, n) /\ Alike(heard, heard, n)
    BY <1>3 DEF Alike
  <2>2. FinalAt(heard', S \cup {n + 1}) = line.text
    BY <1>3, <1>8, FinalNext
  <2>3. CASE S = {}
    <3>1. S \cup {n + 1} = {n + 1}
      BY <2>3
    <3>2. FirstAt(heard', {n + 1}) = heard'[n + 1].text
      BY <1>3, FirstNone
    <3> QED BY <1>3, <2>2, <2>3, <3>1, <3>2
  <2>4. CASE S # {}
    <3>1. PICK i \in S : FinalIs(heard, n, S, i)
      BY <1>3, <1>8, <2>4, FinalIn
    <3>2. PICK k \in S : FirstIs(heard, n, S, k)
      BY <1>3, <1>8, <2>4, FirstIn
    <3> QED BY <2>1, <2>2, <2>4, <3>1, <3>2 DEF FirstIs, FinalIs
  <2> QED BY <2>3, <2>4
<1>9. /\ ErrorOf' = IF RuleErrors' # {}
                    THEN Match[FinalAt(heard', RuleErrors')].arg ELSE "none"
      /\ FallbackOf' = IF Fallback.from_failed_line /\ Unmatched' # {}
                       THEN FirstAt(heard', Unmatched') ELSE "none"
      /\ StderrOf' = IF OnStderr' # {} THEN FinalAt(heard', OnStderr') ELSE "none"
  BY DEF ErrorOf, FallbackOf, StderrOf, First, Final, FirstAt, FinalAt
<1>10. emitted_known_error' <=> RuleErrors' # {}
  BY <1>5, <1>6, <1>7
<1>11. ErrorOf' = IF known THEN Match[line.text].arg ELSE ErrorOf
  BY <1>5, <1>8, <1>9, Readings
<1>12. last_stderr' = StderrOf'
  <2>1. StderrOf' = IF said THEN line.text ELSE StderrOf
    BY <1>5, <1>8, <1>9, Readings
  <2> QED BY <1>6, <1>7, <2>1
<1>13. ~emitted_known_error' => fallback_error' = FallbackOf'
  <2>1. FallbackOf' = IF failed /\ Fallback.from_failed_line /\ Unmatched = {}
                      THEN line.text ELSE FallbackOf
    <3>1. CASE failed
      <4>1. Unmatched' = Unmatched \cup {n + 1}
        BY <1>5, <3>1
      <4>2. FirstAt(heard', Unmatched') =
              IF Unmatched = {} THEN line.text ELSE FirstAt(heard, Unmatched)
        BY <1>5, <1>8, <4>1
      <4> QED BY <1>9, <3>1, <4>1, <4>2, Readings
    <3>2. CASE ~failed
      <4>1. Unmatched' = Unmatched
        BY <1>5, <3>2
      <4>2. Unmatched # {} => FirstAt(heard', Unmatched') = FirstAt(heard, Unmatched)
        BY <1>5, <1>8, <4>1
      <4> QED BY <1>9, <3>2, <4>1, <4>2, Readings
    <3> QED BY <3>1, <3>2
  <2>2. FallbackOf = "none" <=> ~(Fallback.from_failed_line /\ Unmatched # {})
    BY <1>2, FallbackNone
  <2> QED BY <1>6, <1>7, <2>1, <2>2
<1>14. Known(ErrorOf)'
  <2>1. CASE known
    <3> DEFINE e == R!Ev("KnownError", Match[line.text].arg)
    <3>1. batch' = <<e>> /\ e.kind = "KnownError" /\ e.arg = ErrorOf'
      BY <1>6, <1>11, <2>1 DEF R!Ev
    <3> HIDE DEF e
    <3>2. Has(batch', "KnownError") /\ Errs(batch', ErrorOf')
      <4>1. DOMAIN <<e>> = {1} /\ <<e>>[1] = e
        OBVIOUS
      <4> QED BY <3>1, <4>1 DEF Has, Errs
    <3> QED BY <3>2 DEF Known, Errs, Has
  <2>2. CASE ~known
    <3>1. ~Has(batch', "KnownError") /\ knownError' = ErrorOf'
      BY <1>2, <1>6, <1>7, <1>11, <2>2
    <3> QED BY <3>1 DEF Known, Has
  <2> QED BY <2>1, <2>2
<1> QED BY <1>2, <1>10, <1>12, <1>13, <1>14 DEF ErrorInv

\* What the error is read from depends on the lines and nothing else.
LEMMA SameReadings ==
  ASSUME UNCHANGED heard
  PROVE  /\ RuleErrors' = RuleErrors /\ ErrorOf' = ErrorOf
         /\ FallbackOf' = FallbackOf /\ StderrOf' = StderrOf
         /\ Explained' = Explained
<1>1. \A i : Outside(i)' <=> Outside(i)
  BY DEF Outside, InBlock
<1>2. RuleErrors' = RuleErrors /\ Unmatched' = Unmatched /\ OnStderr' = OnStderr
  BY <1>1 DEF RuleErrors, Unmatched, OnStderr
<1>3. ErrorOf' = ErrorOf /\ FallbackOf' = FallbackOf /\ StderrOf' = StderrOf
  BY <1>2 DEF ErrorOf, FallbackOf, StderrOf, First, Final
<1> QED BY <1>2, <1>3 DEF Explained

LEMMA ErrorExit ==
  ASSUME ReplyInv, ErrorInv, CallOnExit
  PROVE  ErrorInv'
<1> DEFINE m == R!Synthesized(exit = "zero")
           due == IF exit # "zero" THEN Explained ELSE ErrorOf
<1>1. /\ batch = <<>> /\ ~Ended /\ Ended' /\ R!OnExit(exit = "zero")
      /\ UNCHANGED <<knownError, exit, heard>>
  BY ExitPending
<1>2. (Has(batch', "KnownError") <=> m # "none") /\ Errs(batch', m)
  BY <1>1, ExitTells
<1>3. /\ emitted_known_error <=> RuleErrors # {}
      /\ ~emitted_known_error => fallback_error = FallbackOf
      /\ last_stderr = StderrOf
      /\ knownError = ErrorOf
  <2>1. ~Has(batch, "KnownError")
    BY <1>1, Short
  <2> QED BY <1>1, <2>1 DEF ErrorInv, Known
<1>4. m = IF exit = "zero" \/ RuleErrors # {} THEN "none" ELSE Explained
  BY <1>3 DEF R!Synthesized, Explained
<1>5. RuleErrors = {} => ErrorOf = "none"
  BY DEF ErrorOf
<1>6. m # "none" => m = due
  BY <1>4
<1>7. m = "none" => knownError = due
  BY <1>3, <1>4, <1>5 DEF Explained
<1>8. (IF Ended /\ exit # "zero" THEN Explained ELSE ErrorOf)' = due
  BY <1>1, SameReadings
<1> HIDE DEF m, due
<1>9. IF Has(batch', "KnownError") THEN Errs(batch', due) ELSE knownError' = due
  BY <1>1, <1>2, <1>6, <1>7
<1>10. Known(IF Ended /\ exit # "zero" THEN Explained ELSE ErrorOf)'
  BY <1>8, <1>9 DEF Known, Has, Errs
<1> QED BY <1>1, <1>10 DEF ErrorInv

LEMMA ErrorInit == InitHosted => ErrorInv
<1> SUFFICES ASSUME InitHosted PROVE ErrorInv
  OBVIOUS
<1>1. /\ batch = <<>> /\ ~drained /\ knownError = "none" /\ heard = <<>>
      /\ emitted_known_error = FALSE /\ fallback_error = "none"
      /\ last_stderr = "none"
  BY DEF InitHosted, Init, R!InitRules
<1>2. RuleErrors = {} /\ Unmatched = {} /\ OnStderr = {}
  BY <1>1 DEF RuleErrors, Unmatched, OnStderr
<1>3. ErrorOf = "none" /\ FallbackOf = "none" /\ StderrOf = "none"
  BY <1>2 DEF ErrorOf, FallbackOf, StderrOf
<1>4. ~Has(batch, "KnownError")
  BY <1>1, Short
<1> QED BY <1>1, <1>2, <1>3, <1>4 DEF ErrorInv, Ended, Known

LEMMA ErrorNext ==
  ReplyInv /\ NotesInv /\ ErrorInv /\ [NextHosted]_hostedVars => ErrorInv'
<1> SUFFICES ASSUME ReplyInv, NotesInv, ErrorInv, [NextHosted]_hostedVars
             PROVE  ErrorInv'
  OBVIOUS
<1>1. ASSUME ByHost \/ UNCHANGED hostedVars PROVE ErrorInv'
  <2>1. /\ UNCHANGED <<heard, emitted_known_error, fallback_error, last_stderr>>
        /\ Ended' <=> Ended
        /\ Ended => exit' = exit
        /\ \A v : Known(v) => Known(v)'
    BY <1>1, HostKeeps
  <2>2. /\ RuleErrors' = RuleErrors /\ ErrorOf' = ErrorOf
        /\ FallbackOf' = FallbackOf /\ StderrOf' = StderrOf
        /\ Explained' = Explained
    BY <2>1, SameReadings
  <2>3. PICK v : v = IF Ended /\ exit # "zero" THEN Explained ELSE ErrorOf
    OBVIOUS
  <2>4. Known(v)'
    BY <2>1, <2>3 DEF ErrorInv
  <2>5. (IF Ended /\ exit # "zero" THEN Explained ELSE ErrorOf)' = v
    BY <2>1, <2>2, <2>3
  <2>6. Known(IF Ended /\ exit # "zero" THEN Explained ELSE ErrorOf)'
    BY <2>4, <2>5 DEF Known, Errs
  <2> QED BY <2>1, <2>2, <2>6 DEF ErrorInv
<1> QED BY <1>1, ErrorLine, ErrorExit DEF NextHosted

\* What the outcome of a failed job says is what its lines say: the last rule
\* error, else the first "failed" text no rule matched, else the last line of
\* stderr (on_line, on_exit and compute_outcome), for every table of rules,
\* every fallback policy and every output.
THEOREM ErrorExplained == HostedSpec => []FailureIsExplained
<1>1. ReplyInv /\ ErrorInv => FailureIsExplained
  <2> SUFFICES ASSUME ReplyInv, ErrorInv,
                      outcome.kind = "Failed", outcome.reason # "Timeout"
               PROVE  FailureIsExplained
    BY DEF FailureIsExplained
  <2>1. hpc = "done" /\ batch = <<>> /\ Ended
    <3>1. outcome # NoOutcome
      BY DEF NoOutcome
    <3> QED BY <3>1 DEF ReplyInv, VerdictInv, Ended
  <2>2. exit # "zero" /\ outcome.known = knownError
    <3>1. PICK c, d \in BOOLEAN : outcome = ComputeOutcome(c, d)
      BY <2>1 DEF ReplyInv, VerdictInv
    <3> QED BY <3>1 DEF ComputeOutcome, Result
  <2>3. outcome.known = Explained
    <3>1. ~Has(batch, "KnownError")
      BY <2>1, Short
    <3> QED BY <2>1, <2>2, <3>1 DEF ErrorInv, Known
  <2>4. FallbackOf = "none" <=> ~(Fallback.from_failed_line /\ Unmatched # {})
    BY FallbackNone DEF ReplyInv
  <2> QED BY <2>3, <2>4 DEF FailureIsExplained, Explained, ErrorOf, FallbackOf,
                            StderrOf
<1> QED BY <1>1, ReplyInit, ReplyNext, NotesInit, NotesNext, ErrorInit, ErrorNext,
        PTL DEF HostedSpec

-----------------------------------------------------------------------------
(* The rule interpreter is an interpreter: the composition implements the  *)
(* host under any interpreter, so that what is proved of that holds here.  *)

\* the events the rule interpreter gives
RuleEvents ==
  [kind : {"EnterPhase", "Warning", "Summary", "KnownError"}, arg : Texts]
    \cup [kind : {"ExitPhase"}, arg : {"none"}]
    \cup [kind : {"Progress"}, arg : Int \cup {NoBar}]
    \cup [kind : {"Finding"}, arg : Seq(Texts)]

Hosting == INSTANCE InterpreterHostProofs
             WITH Replies <- Seq(RuleEvents), Bodies <- Seq(Texts)

LEMMA RuleEventKinds ==
  /\ \A kind \in {"EnterPhase", "Warning", "Summary", "KnownError"}, t \in Texts :
       R!Ev(kind, t) \in RuleEvents
  /\ R!Ev("ExitPhase", "none") \in RuleEvents
  /\ \A v \in Int \cup {NoBar} : R!Ev("Progress", v) \in RuleEvents
  /\ \A body \in Seq(Texts) : R!Ev("Finding", body) \in RuleEvents
<1>1. ASSUME NEW kind \in {"EnterPhase", "Warning", "Summary", "KnownError"},
             NEW t \in Texts
      PROVE  R!Ev(kind, t) \in RuleEvents
  BY DEF R!Ev, RuleEvents
<1>2. R!Ev("ExitPhase", "none") \in RuleEvents
  BY DEF R!Ev, RuleEvents
<1>3. ASSUME NEW v \in Int \cup {NoBar} PROVE R!Ev("Progress", v) \in RuleEvents
  BY DEF R!Ev, RuleEvents
<1>4. ASSUME NEW body \in Seq(Texts) PROVE R!Ev("Finding", body) \in RuleEvents
  BY DEF R!Ev, RuleEvents
<1> QED BY <1>1, <1>2, <1>3, <1>4

LEMMA ScaledIsInt ==
  ASSUME current_phase \in DOMAIN Slice \cup {"none"}, NEW r \in Int
  PROVE  R!Scaled(R!Clamp01(r)) \in Int
<1> DEFINE ratio == R!Clamp01(r)
           start == Slice[current_phase][1]
           width == Slice[current_phase][2] - start
<1>1. ratio \in Int
  BY DEF R!Clamp01
<1>2. CASE current_phase = "none" \/ Slice[current_phase] = R!NoSlice
  BY <1>1, <1>2 DEF R!Scaled
<1>3. CASE current_phase # "none" /\ Slice[current_phase] # R!NoSlice
  <2>1. start \in Int /\ width \in Int
    BY <1>3, InRange, RuleAssumption
  <2>2. R!Scaled(ratio) = start + (ratio * width) \div 100
    BY <1>3 DEF R!Scaled
  <2> HIDE DEF ratio, start, width
  <2>3. ratio * width \in Int
    BY <1>1, <2>1
  <2>4. start + (ratio * width) \div 100 \in Int
    BY <2>1, <2>3
  <2> QED BY <2>2, <2>4 DEF ratio
<1> QED BY <1>2, <1>3

\* The parts of a reply.
LEMMA ReplyParts ==
  ASSUME current_phase \in DOMAIN Slice \cup {"none"}, notes_buf \in Seq(Texts)
  PROVE  /\ \A p \in DOMAIN Slice, end \in {1, 2} :
              R!Boundary(p, end) \in Seq(RuleEvents)
         /\ R!LeavePhase \in Seq(RuleEvents)
         /\ R!FlushedNotes \in Seq(RuleEvents)
<1>0. <<>> \in Seq(RuleEvents) /\ \A e \in RuleEvents : <<e>> \in Seq(RuleEvents)
  OBVIOUS
<1>1. ASSUME NEW p \in DOMAIN Slice, NEW end \in {1, 2}
      PROVE  R!Boundary(p, end) \in Seq(RuleEvents)
  <2>1. CASE Slice[p] = R!NoSlice
    BY <1>0, <2>1 DEF R!Boundary
  <2>2. CASE Slice[p] # R!NoSlice
    <3>1. Slice[p][1] \in 0..100 /\ Slice[p][2] \in 0..100
      BY <2>2, InRange, RuleAssumption
    <3>2. \A v \in 0..100 : R!Ev("Progress", v) \in RuleEvents
      <4>1. \A v \in 0..100 : v \in Int \cup {NoBar}
        OBVIOUS
      <4> QED BY <4>1, RuleEventKinds
    <3>3. end = 1 \/ end = 2
      OBVIOUS
    <3>4. R!Ev("Progress", Slice[p][end]) \in RuleEvents
      BY <3>1, <3>2, <3>3
    <3> QED BY <1>0, <2>2, <3>4 DEF R!Boundary
  <2> QED BY <2>1, <2>2
<1>2. R!LeavePhase \in Seq(RuleEvents)
  <2>1. CASE current_phase = "none"
    BY <1>0, <2>1 DEF R!LeavePhase
  <2>2. CASE current_phase # "none"
    <3> DEFINE x == <<R!Ev("ExitPhase", "none")>>
               y == R!Boundary(current_phase, 2)
    <3>1. x \in Seq(RuleEvents)
      BY <1>0, RuleEventKinds
    <3>2. y \in Seq(RuleEvents)
      BY <1>1, <2>2
    <3>3. R!LeavePhase = x \o y
      BY <2>2 DEF R!LeavePhase
    <3> HIDE DEF x, y
    <3> QED BY <3>1, <3>2, <3>3
  <2> QED BY <2>1, <2>2
<1>3. R!FlushedNotes \in Seq(RuleEvents)
  BY <1>0, RuleEventKinds DEF R!FlushedNotes
<1> QED BY <1>1, <1>2, <1>3

LEMMA LineAnswer ==
  ASSUME current_phase \in DOMAIN Slice \cup {"none"}, notes_buf \in Seq(Texts),
         NEW line \in Lines, R!OnLine(line)
  PROVE  batch' \in Seq(RuleEvents)
<1>0. <<>> \in Seq(RuleEvents) /\ \A e \in RuleEvents : <<e>> \in Seq(RuleEvents)
  OBVIOUS
<1> DEFINE act == Match[line.text]
<1>a. /\ act.kind \in {"EnterPhase", "Warning", "Summary", "KnownError"}
           => act.arg \in Texts
      /\ act.kind = "EnterPhase" => act.arg \in DOMAIN Slice
      /\ act.kind = "Progress" => act.arg = NoBar
      /\ act.kind = "ByteProgressMb" => act.arg \in [done : Int, total : Int]
  BY RuleAssumption DEF RuleAssumption
<1>1. CASE R!StartPhase(line)
  <2> DEFINE x == R!LeavePhase
             y == <<R!Ev("EnterPhase", act.arg)>>
             z == R!Boundary(act.arg, 1)
  <2>1. act.kind = "EnterPhase" /\ batch' = x \o y \o z
    BY <1>1 DEF R!StartPhase, R!Return, R!Classify
  <2>2. x \in Seq(RuleEvents) /\ z \in Seq(RuleEvents)
    BY <1>a, <2>1, ReplyParts
  <2>3. y \in Seq(RuleEvents)
    BY <1>0, <1>a, <2>1, RuleEventKinds
  <2> HIDE DEF x, y, z
  <2> QED BY <2>1, <2>2, <2>3
<1>2. CASE R!EndNotes(line)
  BY <1>2, ReplyParts DEF R!EndNotes, R!Return
<1>3. CASE R!ClassifyError(line)
  <2>1. act.kind = "KnownError" /\ batch' = <<R!Ev("KnownError", act.arg)>>
    BY <1>3 DEF R!ClassifyError, R!Return, R!Classify
  <2> QED BY <1>0, <1>a, <2>1, RuleEventKinds
<1>4. CASE R!Report(line)
  <2>1. PICK kind \in {"Warning", "Summary", "Progress"} :
          act.kind = kind /\ batch' = <<R!Ev(kind, act.arg)>>
    BY <1>4 DEF R!Report, R!Return, R!Classify
  <2>2. R!Ev(kind, act.arg) \in RuleEvents
    BY <1>a, <2>1, RuleEventKinds
  <2> QED BY <1>0, <2>1, <2>2
<1>5. CASE R!ByteProgress(line)
  <2> DEFINE r == (act.arg.done * 100) \div act.arg.total
  <2>1. /\ act.kind = "ByteProgressMb"
        /\ batch' = IF act.arg.total <= 0 THEN <<>>
                    ELSE <<R!Ev("Progress", R!Scaled(R!Clamp01(r)))>>
    BY <1>5 DEF R!ByteProgress, R!Return, R!Classify
  <2>2. CASE act.arg.total <= 0
    BY <1>0, <2>1, <2>2
  <2>3. CASE ~(act.arg.total <= 0)
    <3>1. act.arg.done \in Int /\ act.arg.total \in Int /\ act.arg.total > 0
      BY <1>a, <2>1, <2>3
    <3>2. r \in Int
      <4> DEFINE d == act.arg.done
                 t == act.arg.total
      <4>1. d \in Int /\ t \in Int /\ t > 0
        BY <3>1
      <4> HIDE DEF d, t
      <4>2. (d * 100) \div t \in Int
        BY <4>1
      <4> QED BY <4>2 DEF d, t
    <3>3. R!Ev("Progress", R!Scaled(R!Clamp01(r))) \in RuleEvents
      BY <3>2, ScaledIsInt, RuleEventKinds
    <3> QED BY <1>0, <2>1, <2>3, <3>3
  <2> QED BY <2>2, <2>3
<1>6. CASE \/ R!SkipSeparator(line) \/ R!Collect(line) \/ R!StartNotes(line)
           \/ R!SkipEmpty(line) \/ R!Benign(line) \/ R!Unclassified(line)
  <2>1. batch' = <<>>
    BY <1>6 DEF R!SkipSeparator, R!Collect, R!StartNotes, R!SkipEmpty, R!Benign,
                R!Unclassified, R!Return
  <2> QED BY <1>0, <2>1
<1> QED BY <1>1, <1>2, <1>3, <1>4, <1>5, <1>6 DEF R!OnLine

\* A text read from the last of some lines is a text.
LEMMA FinalIsText ==
  ASSUME heard \in Seq(Lines), NEW S, S \subseteq DOMAIN heard, S # {}
  PROVE  FinalAt(heard, S) \in Texts
<1>1. PICK n : n = Len(heard)
  OBVIOUS
<1>2. n \in Nat /\ S \subseteq 1..n
  BY <1>1
<1>3. PICK k \in S : \A m \in S : m <= k
  BY <1>2, LastPosition
<1>4. FinalAt(heard, S) \in {heard[i].text : i \in S}
  <2>1. \E i \in S : \A m \in S : i >= m
    BY <1>2, <1>3
  <2> QED BY <2>1 DEF FinalAt
<1>5. \A i \in S : heard[i].text \in Texts
  BY <1>1, <1>2, RuleAssumption DEF RuleAssumption
<1> QED BY <1>4, <1>5

LEMMA ExitAnswer ==
  ASSUME ReplyInv, ErrorInv, ~Ended, current_phase \in DOMAIN Slice \cup {"none"},
         R!OnExit(exit = "zero")
  PROVE  batch' \in Seq(RuleEvents)
<1> DEFINE m == R!Synthesized(exit = "zero")
           x == R!FlushedNotes
           y == R!LeavePhase
           z == IF m = "none" THEN <<>> ELSE <<R!Ev("KnownError", m)>>
<1>1. batch' = x \o y \o z
  BY DEF R!OnExit, R!Return
<1>2. m \in Texts \cup {"none"}
  <2>1. heard \in Seq(Lines) /\ Unmatched \subseteq DOMAIN heard /\ OnStderr \subseteq DOMAIN heard
    BY DEF ReplyInv, Unmatched, OnStderr
  <2>2. FallbackOf \in Texts \cup {"none"} /\ StderrOf \in Texts \cup {"none"}
    BY <2>1, Readings, FirstIsText, FinalIsText
  <2> QED BY <2>2 DEF R!Synthesized, ErrorInv
<1>3. <<>> \in Seq(RuleEvents) /\ \A e \in RuleEvents : <<e>> \in Seq(RuleEvents)
  OBVIOUS
<1>4. z \in Seq(RuleEvents)
  <2>1. CASE m = "none"
    BY <1>3, <2>1
  <2>2. CASE m # "none"
    <3>1. R!Ev("KnownError", m) \in RuleEvents
      BY <1>2, <2>2, RuleEventKinds
    <3> QED BY <1>3, <2>2, <3>1
  <2> QED BY <2>1, <2>2
<1>5. x \in Seq(RuleEvents) /\ y \in Seq(RuleEvents)
  BY ReplyParts DEF ReplyInv
<1> HIDE DEF x, y, z
<1> QED BY <1>1, <1>4, <1>5


\* The instance names the same variables and does the same with them.
LEMMA HostingSame ==
  /\ Hosting!driverVars = driverVars /\ Hosting!jobVars = jobVars
  /\ Hosting!phaseVars = phaseVars /\ Hosting!endVars = endVars
  /\ Hosting!hostVars = hostVars
  /\ Hosting!NoPhase = NoPhase /\ Hosting!NoEvent = NoEvent
  /\ Hosting!NoOutcome = NoOutcome
  /\ \A kind, phase, text :
       Hosting!Event(kind, phase, text) = Event(kind, phase, text)
  /\ \A st : Hosting!Top(st) = Top(st) /\ Hosting!Pop(st) = Pop(st)
  BY DEF driverVars, jobVars, phaseVars, endVars, hostVars, NoPhase, NoEvent,
         NoOutcome, Event, Top, Pop, Last,
         Hosting!driverVars, Hosting!jobVars, Hosting!phaseVars,
         Hosting!endVars, Hosting!hostVars, Hosting!NoPhase, Hosting!NoEvent,
         Hosting!NoOutcome, Hosting!Event, Hosting!Top, Hosting!Pop,
         Hosting!Last

LEMMA HostingInit == InitHosted => Hosting!Init
  BY HostingSame DEF InitHosted, Init, Hosting!Init

LEMMA HostingApply == ApplyEvent => Hosting!ApplyEvent
<1> USE DEF Take, Say, Event, NoPhase, Mismatch, Top, Pop, Last,
            driverVars, jobVars, phaseVars, endVars,
            Hosting!Take, Hosting!Say, Hosting!Event, Hosting!NoPhase,
            Hosting!Mismatch, Hosting!Top, Hosting!Pop, Hosting!Last,
            Hosting!driverVars, Hosting!jobVars, Hosting!phaseVars,
            Hosting!endVars
<1>1. EnterPhase => Hosting!EnterPhase
  BY DEF EnterPhase, Hosting!EnterPhase
<1>2. UpdatePhase => Hosting!UpdatePhase
  BY DEF UpdatePhase, Hosting!UpdatePhase
<1>3. ExitPhase => Hosting!ExitPhase
  BY DEF ExitPhase, Hosting!ExitPhase
<1>4. Progress => Hosting!Progress
  BY DEF Progress, Hosting!Progress, Normalize, Hosting!Normalize, Clamp,
         Hosting!Clamp
<1>5. Label => Hosting!Label
  BY DEF Label, Hosting!Label
<1>6. Warning => Hosting!Warning
  BY DEF Warning, Hosting!Warning
<1>7. Prompt => Hosting!Prompt
  BY DEF Prompt, Hosting!Prompt
<1>8. KnownError => Hosting!KnownError
  BY DEF KnownError, Hosting!KnownError
<1>9. Finding => Hosting!Finding
  BY DEF Finding, Hosting!Finding
<1>10. Summary => Hosting!Summary
  BY DEF Summary, Hosting!Summary
<1> QED BY <1>1, <1>2, <1>3, <1>4, <1>5, <1>6, <1>7, <1>8, <1>9, <1>10
        DEF ApplyEvent, Hosting!ApplyEvent

LEMMA HostingHost == HostStep \/ Judged => Hosting!Next
<1> USE DEF Event, NoPhase, NoEvent, Top, Pop, Last,
            driverVars, jobVars, phaseVars, endVars, hostVars,
            Hosting!Event, Hosting!NoPhase, Hosting!NoEvent, Hosting!Top,
            Hosting!Pop, Hosting!Last, Hosting!driverVars, Hosting!jobVars,
            Hosting!phaseVars, Hosting!endVars, Hosting!hostVars
<1>1. ProcessLine => Hosting!ProcessLine
  BY DEF ProcessLine, Hosting!ProcessLine
<1>2. ProcessExits => Hosting!ProcessExits
  BY DEF ProcessExits, Hosting!ProcessExits
<1>3. FinishReading => Hosting!FinishReading
  BY DEF FinishReading, Hosting!FinishReading
<1>4. Emit => Hosting!Emit
  BY DEF Emit, Hosting!Emit
<1>5. Applied => Hosting!Applied
  BY DEF Applied, Hosting!Applied
<1>6. CloseInnermost => Hosting!CloseInnermost
  BY DEF CloseInnermost, Hosting!CloseInnermost, CloseUnchanged,
         Hosting!CloseUnchanged
<1>7. AllClosed => Hosting!AllClosed
  BY DEF AllClosed, Hosting!AllClosed, CloseUnchanged,
         Hosting!CloseUnchanged
<1>8. Judge => Hosting!Judge
  BY DEF Judge, Hosting!Judge, ComputeOutcome,
         Hosting!ComputeOutcome, Result, Hosting!Result
<1>9. Judged => Hosting!Judged
  BY DEF Judged, Hosting!Judged
<1> QED BY <1>1, <1>2, <1>3, <1>4, <1>5, <1>6, <1>7, <1>8, <1>9, HostingApply
        DEF HostStep, Hosting!HostStep, Hosting!Next

LEMMA HostingNext ==
  ReplyInv /\ ErrorInv /\ SliceInv /\ [NextHosted]_hostedVars
    => [Hosting!Next]_(Hosting!hostVars)
<1> SUFFICES ASSUME ReplyInv, ErrorInv, SliceInv, [NextHosted]_hostedVars
             PROVE  [Hosting!Next]_(Hosting!hostVars)
  OBVIOUS
<1>0. current_phase \in DOMAIN Slice \cup {"none"} /\ notes_buf \in Seq(Texts)
  BY DEF SliceInv, ReplyInv
<1>1. ASSUME CallReturns(batch'), batch' \in Seq(RuleEvents) PROVE Hosting!Next
  <2>1. Hosting!CallReturns(batch')
    BY <1>1 DEF CallReturns, driverVars, jobVars, phaseVars, endVars,
                Hosting!CallReturns, Hosting!driverVars, Hosting!jobVars,
                Hosting!phaseVars, Hosting!endVars
  <2> QED BY <1>1, <2>1 DEF Hosting!Next
<1>2. ASSUME NEW line \in Lines, CallOnLine(line) PROVE Hosting!Next
  <2>1. R!OnLine(line) /\ CallReturns(batch')
    BY <1>2 DEF CallOnLine
  <2> QED BY <1>0, <1>1, <2>1, LineAnswer
<1>3. CASE CallOnExit
  <2>1. R!OnExit(exit = "zero") /\ CallReturns(batch') /\ ~Ended
    BY <1>3 DEF CallOnExit, CallReturns, Ended
  <2> QED BY <1>0, <1>1, <2>1, ExitAnswer
<1>4. CASE ByHost
  BY <1>4, HostingHost DEF ByHost
<1>5. CASE UNCHANGED hostedVars
  BY <1>5 DEF hostedVars, hostVars, driverVars, jobVars, phaseVars, endVars,
              Hosting!hostVars, Hosting!driverVars, Hosting!jobVars,
              Hosting!phaseVars, Hosting!endVars
<1> QED BY <1>2, <1>3, <1>4, <1>5 DEF NextHosted

\* The rule interpreter within the driver (RuleInterpreter::on_line and
\* on_exit, called by process_line and run_on_exit) is one of the interpreters
\* InterpreterHost allows: the two together implement the host specification
\* with the rule interpreter's events for its replies.
THEOREM RulesAreHosted == HostedSpec => Hosting!Spec
<1> QED BY HostingInit, HostingNext, FlatInit, FlatNext, SliceInit, SliceNext,
           ReplyInit, ReplyNext, NotesInit, NotesNext, ErrorInit, ErrorNext,
           PTL DEF HostedSpec, Hosting!Spec

LEMMA HostingAssumed == Hosting!HostAssumption
<1>1. RuleEvents \subseteq Hosting!InterpreterEvents
  BY DEF RuleEvents, Hosting!InterpreterEvents, Hosting!TextKinds,
         Hosting!Fractions
<1> QED BY <1>1, HostAssumption DEF HostAssumption, Hosting!HostAssumption

\* So a job with a rule interpreter keeps what every hosted interpreter keeps:
\* what the driver is given and holds has its type, phases are well bracketed
\* on the bus and all closed in the end, the snapshot is current, and the
\* outcome tells what was broadcast.
THEOREM RulesKeepHost ==
  HostedSpec => [](/\ Hosting!TypeOK /\ PhaseBrackets /\ NothingLeftOpen
                   /\ SnapshotIsCurrent /\ OutcomeAgreesWithEvents)
<1>0. Hosting!Spec => []Hosting!TypeOK
  BY HostingAssumed, Hosting!TypeCorrect
<1>1. Hosting!Spec => []Hosting!PhaseBrackets
  BY HostingAssumed, Hosting!PhasesBracketed
<1>2. Hosting!Spec => []Hosting!NothingLeftOpen
  BY HostingAssumed, Hosting!AllPhasesClosed
<1>3. Hosting!Spec => []Hosting!SnapshotIsCurrent
  BY HostingAssumed, Hosting!SnapshotFollows
<1>4. Hosting!Spec => []Hosting!OutcomeAgreesWithEvents
  BY HostingAssumed, Hosting!OutcomeAgrees
<1>5. /\ \A s, i, kind : Hosting!Before(s, i, kind) = Before(s, i, kind)
      /\ \A s, i : Hosting!Open(s, i) = Open(s, i)
      /\ \A s, i : Hosting!Entered(s, i) = Entered(s, i)
  BY DEF Before, Open, Entered, Exited, Hosting!Before, Hosting!Open,
         Hosting!Entered, Hosting!Exited
<1>6. Hosting!PhaseBrackets => PhaseBrackets
  BY <1>5 DEF PhaseBrackets, Bracketed, IsInnermost, Hosting!PhaseBrackets,
              Hosting!Bracketed, Hosting!IsInnermost
<1>7. Hosting!NothingLeftOpen => NothingLeftOpen
  BY <1>5, HostingSame DEF NothingLeftOpen, Hosting!NothingLeftOpen
<1>8. Hosting!SnapshotIsCurrent => SnapshotIsCurrent
  BY <1>5, HostingSame
  DEF SnapshotIsCurrent, Announced, Latest, IsInnermost,
      Hosting!SnapshotIsCurrent, Hosting!Announced, Hosting!Latest,
      Hosting!IsInnermost
<1>9. Hosting!OutcomeAgreesWithEvents => OutcomeAgreesWithEvents
  BY <1>5, HostingSame
  DEF OutcomeAgreesWithEvents, Listed, InOrder, Latest,
      Hosting!OutcomeAgreesWithEvents, Hosting!Listed, Hosting!InOrder,
      Hosting!Latest
<1> QED BY <1>0, <1>1, <1>2, <1>3, <1>4, <1>6, <1>7, <1>8, <1>9, RulesAreHosted,
           PTL
=============================================================================
