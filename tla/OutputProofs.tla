----------------------------- MODULE OutputProofs -----------------------------
(***************************************************************************)
(* Proofs of the safety properties of LineReaders and RawOutput, for any   *)
(* output of the program, any capacity and any failures of the disk.       *)
(*                                                                         *)
(* The argument for the lines: what the readers have consumed since the    *)
(* last line of a stream holds no newline. For the log: at most one write  *)
(* is under way, of the last line handled, and a failure not reported yet  *)
(* is that line's.                                                         *)
(***************************************************************************)
EXTENDS RawOutput, SequenceTheorems, TLAPS

\* Where the readers stand in their streams.
PlaceInv ==
  \A s \in Streams :
    /\ start[s] <= pos[s] /\ pos[s] <= Len(written[s])
    /\ \A n \in (start[s] + 1)..pos[s] : written[s][n] # "nl"

\* The lines given end before the current next_line began.
LinesInv ==
  /\ \A i \in DOMAIN given : EndsALine(i) /\ given[i].to <= start[given[i].stream]
  /\ \A i, k \in DOMAIN given :
       i < k /\ given[i].stream = given[k].stream => given[i].to < given[k].from
  /\ \A s \in Streams : \A n \in 1..pos[s] : written[s][n] = "nl" =>
       \E i \in DOMAIN given : given[i].stream = s /\ given[i].to = n

ReadInv == ReadTypeOK /\ PlaceInv /\ LinesInv

-----------------------------------------------------------------------------
LEMMA Grows ==
  ASSUME NEW S, NEW s \in Seq(S), NEW e \in S
  PROVE  /\ Append(s, e) \in Seq(S)
         /\ Len(s) \in Nat /\ DOMAIN s = 1..Len(s)
         /\ Len(Append(s, e)) = Len(s) + 1
         /\ DOMAIN Append(s, e) = 1..(Len(s) + 1)
         /\ \A i \in 1..Len(s) : Append(s, e)[i] = s[i]
         /\ Append(s, e)[Len(s) + 1] = e
<1>1. Append(s, e) \in Seq(S)
  BY AppendProperties
<1> QED BY <1>1, AppendProperties, LenProperties

LEMMA ReadInitHolds == ReadInit => ReadInv
<1> SUFFICES ASSUME ReadInit PROVE ReadInv
  OBVIOUS
<1>1. <<>> \in Seq(Items) /\ <<>> \in Seq(Lines) /\ Len(<<>>) = 0 /\ DOMAIN <<>> = {}
  BY EmptySeq
<1>2. ReadTypeOK
  BY <1>1 DEF ReadInit, ReadTypeOK
<1>3. PlaceInv
  BY <1>1 DEF ReadInit, PlaceInv
<1>4. LinesInv
  BY <1>1 DEF ReadInit, LinesInv
<1> QED BY <1>2, <1>3, <1>4 DEF ReadInv

-----------------------------------------------------------------------------
(* The program.                                                            *)

LEMMA WriteKeeps ==
  ASSUME ReadInv, NEW s \in Streams, NEW item \in Items, Write(s, item)
  PROVE  ReadInv'
<1>0. /\ UNCHANGED <<open, exited, pos, start, done, childExited, given>>
      /\ written' = [written EXCEPT ![s] = Append(@, item)] /\ s \in open
  BY DEF Write
<1>1. /\ written \in [Streams -> Seq(Items)] /\ pos \in [Streams -> Nat]
      /\ start \in [Streams -> Nat] /\ given \in Seq(Lines)
  BY DEF ReadInv, ReadTypeOK
<1>2. Append(written[s], item) \in Seq(Items)
  BY <1>1, Grows
<1>3. written' \in [Streams -> Seq(Items)]
  BY <1>0, <1>1, <1>2
<1>4. \A t \in Streams :
        /\ Len(written[t]) \in Nat /\ Len(written'[t]) \in Nat
        /\ Len(written[t]) <= Len(written'[t])
        /\ \A n \in 1..Len(written[t]) : written'[t][n] = written[t][n]
        /\ t \notin open => Len(written'[t]) = Len(written[t])
  <2> SUFFICES ASSUME NEW t \in Streams
               PROVE  <1>4!(t)
    OBVIOUS
  <2>1. CASE t = s
    BY <1>0, <1>1, <2>1, Grows
  <2>2. CASE t # s
    <3>1. written'[t] = written[t] /\ Len(written[t]) \in Nat
      BY <1>0, <1>1, <2>2, LenProperties
    <3> QED BY <3>1
  <2> QED BY <2>1, <2>2
<1>5. ReadTypeOK'
  BY <1>0, <1>3 DEF ReadInv, ReadTypeOK
<1>6. \A t \in Streams : \A n \in 1..pos[t] : n \in 1..Len(written[t])
  BY <1>1, <1>4 DEF ReadInv, PlaceInv
<1>7. \A t \in Streams : \A n \in 1..pos[t] : written'[t][n] = written[t][n]
  BY <1>4, <1>6
<1>8. PlaceInv'
  <2>1. \A t \in Streams : \A n \in (start[t] + 1)..pos[t] : n \in 1..pos[t]
    BY <1>1
  <2>2. \A t \in Streams : pos[t] <= Len(written'[t])
    BY <1>1, <1>4 DEF ReadInv, PlaceInv
  <2>3. \A t \in Streams : /\ start[t] <= pos[t]
                           /\ \A n \in (start[t] + 1)..pos[t] : written[t][n] # "nl"
    BY DEF ReadInv, PlaceInv
  <2>4. \A t \in Streams : \A n \in (start[t] + 1)..pos[t] : written'[t][n] # "nl"
    BY <1>7, <2>1, <2>3
  <2> QED BY <1>0, <2>2, <2>3, <2>4 DEF PlaceInv
<1>9. LinesInv'
  <2>1. \A i \in DOMAIN given : EndsALine(i)'
    <3> SUFFICES ASSUME NEW i \in DOMAIN given PROVE EndsALine(i)'
      OBVIOUS
    <3> DEFINE l == given[i]
    <3>1. EndsALine(i) /\ l \in Lines
      <4>1. i \in 1..Len(given)
        BY <1>1, LenProperties
      <4> QED BY <1>1, <4>1, ElementOfSeq DEF ReadInv, LinesInv
    <3>2. l.stream \in Streams /\ l.from \in Nat /\ l.to \in Nat
      BY <3>1 DEF Lines
    <3>3. /\ 1 <= l.from /\ l.from <= l.to /\ l.to <= pos[l.stream]
          /\ \A n \in l.from..(l.to - 1) : written[l.stream][n] # "nl"
          /\ written[l.stream][l.to] = "nl"
               \/ (l.stream \notin open /\ l.to = Len(written[l.stream]))
      BY <3>1 DEF EndsALine
    <3> HIDE DEF l
    <3>4. \A n \in l.from..l.to : n \in 1..pos[l.stream]
      BY <1>1, <3>2, <3>3
    <3>5. \A n \in l.from..(l.to - 1) : n \in l.from..l.to
      BY <3>2
    <3>6. l.to \in l.from..l.to
      BY <3>2, <3>3
    <3>7. /\ \A n \in l.from..(l.to - 1) : written'[l.stream][n] # "nl"
          /\ written'[l.stream][l.to] = "nl"
               \/ (l.stream \notin open /\ l.to = Len(written'[l.stream]))
      BY <1>4, <1>7, <3>2, <3>3, <3>4, <3>5, <3>6
    <3> QED BY <1>0, <3>3, <3>7 DEF EndsALine, l
  <2>2. \A t \in Streams : \A n \in 1..pos[t] : written'[t][n] = "nl" =>
          \E i \in DOMAIN given : given[i].stream = t /\ given[i].to = n
    BY <1>7 DEF ReadInv, LinesInv
  <2>3. /\ \A i \in DOMAIN given : given[i].to <= start[given[i].stream]
        /\ \A i, k \in DOMAIN given :
             i < k /\ given[i].stream = given[k].stream => given[i].to < given[k].from
    BY DEF ReadInv, LinesInv
  <2> QED BY <1>0, <2>1, <2>2, <2>3 DEF LinesInv
<1> QED BY <1>5, <1>8, <1>9 DEF ReadInv

\* A pipe is closed, the exit sent.
LEMMA CloseKeeps ==
  ASSUME ReadInv, (\E s \in Streams : Close(s)) \/ SendExit
  PROVE  ReadInv'
<1>0. /\ UNCHANGED <<written, pos, start, done, childExited, given>>
      /\ open' \subseteq open /\ exited' \in {exited, TRUE}
  BY DEF Close, SendExit
<1>1. ReadTypeOK'
  BY <1>0 DEF ReadInv, ReadTypeOK
<1>2. PlaceInv'
  BY <1>0 DEF ReadInv, PlaceInv
<1>3. \A i \in DOMAIN given : EndsALine(i) => EndsALine(i)'
  BY <1>0 DEF EndsALine
<1>4. LinesInv'
  BY <1>0, <1>3 DEF ReadInv, LinesInv
<1> QED BY <1>1, <1>2, <1>4 DEF ReadInv
-----------------------------------------------------------------------------
(* The polls of the select.                                                *)

\* Stream s is read on, short of its next newline.
ReadsOn(s) == NoNewline(s, pos'[s]) /\ start'[s] \in {start[s], pos'[s]}

\* Places of the readers, and nothing of the pipes.
Places ==
  /\ UNCHANGED pipeVars
  /\ pos' \in [Streams -> Nat] /\ start' \in [Streams -> Nat]
  /\ childExited' \in BOOLEAN /\ done' \in SUBSET Streams

LEMMA AtValue ==
  ASSUME NEW o \in Nat, NEW e \in Nat
  PROVE  /\ At(o, e) \in [Streams -> Nat]
         /\ At(o, e)["stdout"] = o /\ At(o, e)["stderr"] = e
         /\ "stdout" \in Streams /\ "stderr" \in Streams
         /\ \A s \in Streams : s = "stdout" \/ s = "stderr"
BY DEF At, Streams

LEMMA StreamFacts ==
  ASSUME ReadInv, NEW s \in Streams
  PROVE  /\ pos[s] \in Nat /\ start[s] \in Nat /\ Len(written[s]) \in Nat
         /\ written[s] \in Seq(Items)
         /\ start[s] <= pos[s] /\ pos[s] <= Len(written[s])
         /\ \A n \in (start[s] + 1)..pos[s] : written[s][n] # "nl"
<1>1. written[s] \in Seq(Items) /\ pos[s] \in Nat /\ start[s] \in Nat
  BY DEF ReadInv, ReadTypeOK
<1> QED BY <1>1, LenProperties DEF ReadInv, PlaceInv

\* What a stream that is read on keeps.
LEMMA OnKeeps ==
  ASSUME ReadInv, Places, NEW s \in Streams, ReadsOn(s)
  PROVE  /\ start[s] <= start'[s] /\ start'[s] <= pos'[s] /\ pos'[s] <= Len(written[s])
         /\ pos[s] <= pos'[s]
         /\ \A n \in (start'[s] + 1)..pos'[s] : written[s][n] # "nl"
         /\ \A n \in 1..pos'[s] : written[s][n] = "nl" => n \in 1..pos[s]
<1>1. /\ pos[s] \in Nat /\ start[s] \in Nat /\ Len(written[s]) \in Nat
      /\ start[s] <= pos[s] /\ pos[s] <= Len(written[s])
      /\ \A n \in (start[s] + 1)..pos[s] : written[s][n] # "nl"
  BY StreamFacts
<1>2. /\ pos'[s] \in Nat /\ start'[s] \in Nat
  BY DEF Places
<1>3. /\ pos'[s] \in pos[s]..Len(written[s])
      /\ \A n \in (pos[s] + 1)..pos'[s] : written[s][n] # "nl"
      /\ start'[s] = start[s] \/ start'[s] = pos'[s]
  BY DEF ReadsOn, NoNewline
<1>4. \A n \in (start[s] + 1)..pos'[s] : n \in (start[s] + 1)..pos[s] \/ n \in (pos[s] + 1)..pos'[s]
  BY <1>1, <1>2
<1>5. \A n \in 1..pos'[s] : n \in 1..pos[s] \/ n \in (pos[s] + 1)..pos'[s]
  BY <1>1, <1>2
<1>6. start[s] <= start'[s] /\ start'[s] <= pos'[s] /\ pos'[s] <= Len(written[s])
      /\ pos[s] <= pos'[s]
  BY <1>1, <1>2, <1>3
<1>7. \A n \in (start'[s] + 1)..pos'[s] : n \in (start[s] + 1)..pos'[s]
  BY <1>1, <1>2, <1>6
<1> QED BY <1>1, <1>3, <1>4, <1>5, <1>6, <1>7

\* A line given stays a line whatever is read after it.
LEMMA LineStays ==
  ASSUME ReadInv, Places, NEW i \in DOMAIN given,
         given' = given \/ (\E l \in Lines : given' = Append(given, l)),
         \A s \in Streams : pos[s] <= pos'[s] /\ start[s] <= start'[s]
  PROVE  /\ i \in DOMAIN given' /\ given'[i] = given[i] /\ given[i] \in Lines
         /\ EndsALine(i)' /\ given[i].to <= start[given[i].stream]
         /\ given[i].to <= start'[given[i].stream]
<1>1. given \in Seq(Lines) /\ i \in 1..Len(given)
  BY LenProperties DEF ReadInv, ReadTypeOK
<1>2. given[i] \in Lines
  BY <1>1, ElementOfSeq
<1>3. i \in DOMAIN given' /\ given'[i] = given[i]
  <2>1. CASE given' = given
    BY <2>1
  <2>2. ASSUME NEW l \in Lines, given' = Append(given, l)
        PROVE  i \in DOMAIN given' /\ given'[i] = given[i]
    BY <1>1, <2>2, Grows
  <2> QED BY <2>1, <2>2
<1>4. EndsALine(i) /\ given[i].to <= start[given[i].stream]
  BY DEF ReadInv, LinesInv
<1>5. given[i].stream \in Streams /\ given[i].to \in Nat
  BY <1>2 DEF Lines
<1>6. /\ pos[given[i].stream] \in Nat /\ pos'[given[i].stream] \in Nat
      /\ start[given[i].stream] \in Nat /\ start'[given[i].stream] \in Nat
  BY <1>5 DEF Places, ReadInv, ReadTypeOK
<1>7. /\ given[i].to <= pos[given[i].stream] => given[i].to <= pos'[given[i].stream]
      /\ given[i].to <= start'[given[i].stream]
  <2> PICK line, s : line = given[i] /\ s = line.stream
    OBVIOUS
  <2>1. s \in Streams /\ pos[s] <= pos'[s] /\ start[s] <= start'[s]
    BY <1>5
  <2>2. \A a, b, c \in Nat : a <= b /\ b <= c => a <= c
    OBVIOUS
  <2> QED BY <1>4, <1>5, <1>6, <2>1, <2>2
<1>8. written' = written /\ open' = open
  BY DEF Places, pipeVars
<1>9. EndsALine(i)'
  BY <1>3, <1>4, <1>7, <1>8 DEF EndsALine
<1> QED BY <1>2, <1>3, <1>4, <1>7, <1>9

\* No line is given: both streams are read on.
LEMMA NoLineKeeps ==
  ASSUME ReadInv, Places, given' = given, \A s \in Streams : ReadsOn(s)
  PROVE  ReadInv'
<1>1. written' = written /\ open' = open /\ exited' = exited
  BY DEF Places, pipeVars
<1>2. ReadTypeOK'
  BY <1>1 DEF Places, ReadInv, ReadTypeOK
<1>3. PlaceInv'
  BY <1>1, OnKeeps DEF PlaceInv
<1>4. \A s \in Streams : pos[s] <= pos'[s] /\ start[s] <= start'[s]
  BY OnKeeps
<1>5. \A i \in DOMAIN given : EndsALine(i)' /\ given[i].to <= start'[given[i].stream]
  BY <1>4, LineStays
<1>6. \A s \in Streams : \A n \in 1..pos'[s] : written[s][n] = "nl" => n \in 1..pos[s]
  BY OnKeeps
<1>7. LinesInv'
  BY <1>1, <1>5, <1>6 DEF ReadInv, LinesInv
<1> QED BY <1>2, <1>3, <1>7 DEF ReadInv

\* A line of stream s is given, up to position v, and the other is read on.
LEMMA LineKeeps ==
  ASSUME ReadInv, Places, NEW s \in Streams, NEW v \in Nat,
         given' = Append(given, [stream |-> s, from |-> start[s] + 1, to |-> v]),
         pos'[s] = v, start'[s] = v, start[s] < v, pos[s] <= v, v <= Len(written[s]),
         \A n \in (pos[s] + 1)..(v - 1) : written[s][n] # "nl",
         written[s][v] = "nl" \/ (s \notin open /\ v = Len(written[s])),
         \A t \in Streams \ {s} : ReadsOn(t)
  PROVE  ReadInv'
<1> DEFINE l == [stream |-> s, from |-> start[s] + 1, to |-> v]
<1>1. written' = written /\ open' = open /\ exited' = exited
  BY DEF Places, pipeVars
<1>2. /\ pos[s] \in Nat /\ start[s] \in Nat /\ Len(written[s]) \in Nat
      /\ start[s] <= pos[s]
      /\ \A n \in (start[s] + 1)..pos[s] : written[s][n] # "nl"
  BY StreamFacts
<1>3. l \in Lines /\ given \in Seq(Lines)
  BY <1>2 DEF Lines, ReadInv, ReadTypeOK
<1> PICK m \in Nat : m = Len(given)
  BY <1>3, LenProperties
<1>4. /\ given' \in Seq(Lines) /\ DOMAIN given = 1..m /\ DOMAIN given' = 1..(m + 1)
      /\ \A i \in 1..m : given'[i] = given[i]
      /\ given'[m + 1] = l
  <2> HIDE DEF l
  <2>1. given' = Append(given, l)
    BY DEF l
  <2> QED BY <1>3, <2>1, Grows
<1>5. ReadTypeOK'
  BY <1>1, <1>4 DEF Places, ReadInv, ReadTypeOK
<1>6. \A t \in Streams : pos[t] <= pos'[t] /\ start[t] <= start'[t]
  BY <1>2, OnKeeps
<1>7. PlaceInv'
  <2> SUFFICES ASSUME NEW t \in Streams
               PROVE  /\ start'[t] <= pos'[t] /\ pos'[t] <= Len(written[t])
                      /\ \A n \in (start'[t] + 1)..pos'[t] : written[t][n] # "nl"
    BY <1>1 DEF PlaceInv
  <2>1. CASE t = s
    BY <2>1
  <2>2. CASE t # s
    BY <2>2, OnKeeps
  <2> QED BY <2>1, <2>2
<1>8. \A i \in 1..m : /\ given[i] \in Lines /\ EndsALine(i)'
                      /\ given[i].to <= start[given[i].stream]
                      /\ given[i].to <= start'[given[i].stream]
  <2>1. \E x \in Lines : given' = Append(given, x)
    BY <1>3
  <2> QED BY <1>4, <1>6, <2>1, LineStays
<1>9. EndsALine(m + 1)' /\ l.to <= start'[l.stream]
  <2>1. \A n \in (start[s] + 1)..(v - 1) : written[s][n] # "nl"
    <3>1. \A n \in (start[s] + 1)..(v - 1) :
            n \in (start[s] + 1)..pos[s] \/ n \in (pos[s] + 1)..(v - 1)
      BY <1>2
    <3> QED BY <1>2, <3>1
  <2>2. 1 <= start[s] + 1 /\ start[s] + 1 <= v
    BY <1>2
  <2>3. /\ given'[m + 1].stream = s /\ given'[m + 1].from = start[s] + 1
        /\ given'[m + 1].to = v
    BY <1>4
  <2> QED BY <1>1, <2>1, <2>2, <2>3 DEF EndsALine
<1>10. \A i \in DOMAIN given' : i \in 1..m \/ i = m + 1
  BY <1>4
<1>11. \A i, k \in DOMAIN given' :
         i < k /\ given'[i].stream = given'[k].stream => given'[i].to < given'[k].from
  <2> SUFFICES ASSUME NEW i \in DOMAIN given', NEW k \in DOMAIN given', i < k,
                      given'[i].stream = given'[k].stream
               PROVE  given'[i].to < given'[k].from
    OBVIOUS
  <2>1. i \in 1..m
    BY <1>10
  <2>2. CASE k \in 1..m
    BY <1>4, <2>1, <2>2 DEF ReadInv, LinesInv
  <2>3. CASE k = m + 1
    <3>1. given'[k].stream = s /\ given'[k].from = start[s] + 1
      BY <1>4, <2>3
    <3>2. given[i].to <= start[s] /\ given[i].to \in Nat
      BY <1>4, <1>8, <2>1, <3>1 DEF Lines
    <3> QED BY <1>2, <1>4, <2>1, <3>1, <3>2
  <2> QED BY <1>10, <2>2, <2>3
<1>12. \A t \in Streams : \A n \in 1..pos'[t] : written[t][n] = "nl" =>
         \E i \in DOMAIN given' : given'[i].stream = t /\ given'[i].to = n
  <2> SUFFICES ASSUME NEW t \in Streams, NEW n \in 1..pos'[t], written[t][n] = "nl"
               PROVE  \E i \in DOMAIN given' : given'[i].stream = t /\ given'[i].to = n
    OBVIOUS
  <2>1. CASE n \in 1..pos[t]
    <3>1. PICK i \in DOMAIN given : given[i].stream = t /\ given[i].to = n
      BY <2>1 DEF ReadInv, LinesInv
    <3> QED BY <1>4, <3>1
  <2>2. CASE n \notin 1..pos[t]
    <3>1. t = s
      BY <2>2, OnKeeps
    <3>2. n = v
      BY <1>2, <2>2, <3>1
    <3>3. m + 1 \in DOMAIN given' /\ given'[m + 1].stream = s /\ given'[m + 1].to = v
      BY <1>4
    <3> QED BY <3>1, <3>2, <3>3
  <2> QED BY <2>1, <2>2
<1>13. \A i \in DOMAIN given' : EndsALine(i)' /\ given'[i].to <= start'[given'[i].stream]
  BY <1>4, <1>8, <1>9, <1>10
<1>14. LinesInv'
  BY <1>1, <1>11, <1>12, <1>13 DEF LinesInv
<1> QED BY <1>5, <1>7, <1>14 DEF ReadInv

LEMMA PendsReads ==
  ASSUME ReadInv, NEW s \in Streams, NEW v, Pends(s, v)
  PROVE  NoNewline(s, v) /\ v \in Nat
<1>1. pos[s] \in Nat /\ Len(written[s]) \in Nat /\ pos[s] <= Len(written[s])
  BY StreamFacts
<1>2. NoNewline(s, v)
  <2>1. CASE s \in done
    BY <1>1, <2>1 DEF Pends, NoNewline
  <2>2. CASE s \notin done
    BY <2>2 DEF Pends
  <2> QED BY <2>1, <2>2
<1> QED BY <1>1, <1>2 DEF NoNewline

\* One poll takes stream s up to v, and reads the other on.
LEMMA TakeKeeps ==
  ASSUME ReadInv, Places, NEW s \in Streams, NEW v \in Nat, Take(s, v),
         pos'[s] = v, start'[s] = v, \A t \in Streams \ {s} : ReadsOn(t)
  PROVE  ReadInv'
<1>1. /\ pos[s] \in Nat /\ start[s] \in Nat /\ Len(written[s]) \in Nat
      /\ start[s] <= pos[s] /\ pos[s] <= Len(written[s])
  BY StreamFacts
<1>2. CASE /\ ToNewline(s, v) \/ (ToEnd(s, v) /\ v > start[s])
           /\ given' = Append(given, [stream |-> s, from |-> start[s] + 1, to |-> v])
  <2>1. /\ start[s] < v /\ pos[s] <= v /\ v <= Len(written[s])
        /\ written[s][v] = "nl" \/ (s \notin open /\ v = Len(written[s]))
    BY <1>1, <1>2 DEF ToNewline, ToEnd, NoNewline
  <2>2. \A n \in (pos[s] + 1)..(v - 1) : written[s][n] # "nl"
    <3>1. CASE ToNewline(s, v)
      BY <3>1 DEF ToNewline, NoNewline
    <3>2. CASE ToEnd(s, v)
      <4>1. \A n \in (pos[s] + 1)..v : written[s][n] # "nl"
        BY <3>2 DEF ToEnd, NoNewline
      <4> QED BY <1>1, <4>1
    <3> QED BY <1>2, <3>1, <3>2
  <2> QED BY <1>2, <2>1, <2>2, LineKeeps
<1>3. CASE /\ (ToEnd(s, v) /\ v = start[s]) \/ (ReadErrors /\ NoNewline(s, v))
           /\ given' = given
  <2>1. ReadsOn(s)
    BY <1>3 DEF ReadsOn, ToEnd
  <2> QED BY <1>3, <2>1, NoLineKeeps
<1> QED BY <1>2, <1>3 DEF Take

LEMMA PollKeeps == ReadInv /\ Poll => ReadInv'
<1> SUFFICES ASSUME ReadInv, Poll PROVE ReadInv'
  OBVIOUS
<1> USE AtValue
<1>0. /\ done \in SUBSET Streams /\ childExited \in BOOLEAN
      /\ pos["stdout"] \in Nat /\ pos["stderr"] \in Nat
      /\ "stdout" \in Streams /\ "stderr" \in Streams
      /\ \A s \in Streams : s = "stdout" \/ s = "stderr"
  BY DEF ReadInv, ReadTypeOK, Streams
<1>1. \A s \in Streams : NoNewline(s, pos[s])
  BY StreamFacts DEF NoNewline
<1>2. ASSUME StdoutWins PROVE ReadInv'
  <2>1. PICK v \in 0..Len(written["stdout"]) :
          Take("stdout", v) /\ Restart(v, pos["stderr"])
    BY <1>2 DEF StdoutWins
  <2>2. v \in Nat
    OBVIOUS
  <2>3. /\ pos' \in [Streams -> Nat] /\ start' = pos'
        /\ pos'["stdout"] = v /\ pos'["stderr"] = pos["stderr"]
    BY <1>0, <2>1, <2>2 DEF Restart
  <2>4. Places
    BY <1>0, <1>2, <2>1, <2>3 DEF StdoutWins, Take, Places, pipeVars
  <2>5. \A t \in Streams \ {"stdout"} : ReadsOn(t)
    BY <1>0, <1>1, <2>3 DEF ReadsOn
  <2> QED BY <1>0, <2>1, <2>2, <2>3, <2>4, <2>5, TakeKeeps
<1>3. ASSUME StderrWins PROVE ReadInv'
  <2>1. PICK o \in 0..Len(written["stdout"]), v \in 0..Len(written["stderr"]) :
          Pends("stdout", o) /\ Take("stderr", v) /\ Restart(o, v)
    BY <1>3 DEF StderrWins
  <2>2. v \in Nat /\ o \in Nat /\ NoNewline("stdout", o)
    BY <1>0, <2>1, PendsReads
  <2>3. /\ pos' \in [Streams -> Nat] /\ start' = pos'
        /\ pos'["stdout"] = o /\ pos'["stderr"] = v
    BY <2>1, <2>2 DEF Restart
  <2>4. Places
    BY <1>0, <1>3, <2>1, <2>3 DEF StderrWins, Take, Places, pipeVars
  <2>5. \A t \in Streams \ {"stderr"} : ReadsOn(t)
    BY <1>0, <2>2, <2>3 DEF ReadsOn
  <2> QED BY <1>0, <2>1, <2>2, <2>3, <2>4, <2>5, TakeKeeps
<1>4. ASSUME ExitWins \/ AllPend PROVE ReadInv'
  <2>1. PICK o \in 0..Len(written["stdout"]), e \in 0..Len(written["stderr"]) :
          /\ Pends("stdout", o) /\ Pends("stderr", e) /\ pos' = At(o, e)
          /\ start' = start \/ start' = pos'
    BY <1>4 DEF ExitWins, AllPend, Restart
  <2>2. e \in Nat /\ o \in Nat /\ NoNewline("stdout", o) /\ NoNewline("stderr", e)
    BY <1>0, <2>1, PendsReads
  <2>3. pos' \in [Streams -> Nat] /\ pos'["stdout"] = o /\ pos'["stderr"] = e
    BY <2>1, <2>2
  <2>4. /\ UNCHANGED <<written, open, exited, done, given>>
        /\ childExited' \in BOOLEAN /\ start' \in [Streams -> Nat]
    BY <1>0, <1>4, <2>1, <2>3 DEF ExitWins, AllPend, ReadInv, ReadTypeOK
  <2>5. Places
    BY <1>0, <2>3, <2>4 DEF Places, pipeVars
  <2>6. \A s \in Streams : ReadsOn(s)
    BY <1>0, <2>1, <2>2, <2>3 DEF ReadsOn
  <2> QED BY <2>4, <2>5, <2>6, NoLineKeeps
<1> QED BY <1>2, <1>3, <1>4 DEF Poll

LEMMA ReadersStutter == ReadInv /\ UNCHANGED readVars => ReadInv'
<1> SUFFICES ASSUME ReadInv, UNCHANGED readVars PROVE ReadInv'
  OBVIOUS
<1>0. UNCHANGED <<written, open, exited, pos, start, done, childExited, given>>
  BY DEF readVars
<1>1. ReadTypeOK' /\ PlaceInv'
  BY <1>0 DEF ReadInv, ReadTypeOK, PlaceInv
<1>2. \A i \in DOMAIN given : EndsALine(i) => EndsALine(i)'
  BY <1>0 DEF EndsALine
<1>3. LinesInv'
  BY <1>0, <1>2 DEF ReadInv, LinesInv
<1> QED BY <1>1, <1>3 DEF ReadInv

LEMMA ProgramKeeps == ReadInv /\ Program => ReadInv'
<1> SUFFICES ASSUME ReadInv, Program PROVE ReadInv'
  OBVIOUS
<1>1. ASSUME NEW s \in Streams, NEW item \in Items, Write(s, item) PROVE ReadInv'
  BY <1>1, WriteKeeps
<1> QED BY <1>1, CloseKeeps DEF Program

LEMMA ReadStepKeeps == ReadInv /\ [ReadNext]_readVars => ReadInv'
BY PollKeeps, ReadersStutter, ProgramKeeps DEF ReadNext

LEMMA ReadInvLines == ReadInv => LineForLine
BY DEF ReadInv, LinesInv, LineForLine

\* The lines process_line gets are those of the streams, whatever the order of
\* the select's arms and the futures it drops (runtime/driver.rs, next_line).
THEOREM ReadersLineForLine == ReadSpec => []LineForLine
<1>1. ReadSpec => []ReadInv
  BY ReadInitHolds, ReadStepKeeps, PTL DEF ReadSpec
<1> QED BY <1>1, ReadInvLines, PTL
-----------------------------------------------------------------------------
(* The raw log.                                                            *)

\* One write at a time, of the last line handled; a failure of it is the one
\* a file that is still open will report.
LogInv ==
  /\ inflight \in {0, handled} /\ failed \subseteq 1..handled
  /\ \A i \in DOMAIN log : log[i] \in 1..handled /\ (inflight # 0 => log[i] < inflight)
  /\ \A i, k \in DOMAIN log : i < k => log[i] < log[k]
  /\ stage = "queued" => handled = 0 /\ ioError = FALSE
  /\ stage \in {"reading", "flush"} =>
       (hasFile <=> plain) /\ (hasFile => (ioError <=> handled \in failed))
  /\ stage \notin {"reading", "flush"} => inflight = 0
  /\ HasLog /\ stage # "dead" => \A k \in 1..handled :
       (Holds(k) \/ k = inflight) <=> (k \notin failed /\ k - 1 \notin failed)

\* How far the compression is.
GzInv ==
  /\ stage = "queued" => ~plain
  /\ stage \in {"queued", "reading", "flush", "open", "create"} => gz = "absent"
  /\ stage = "create" => plain
  /\ stage = "copy" => gz = "partial"
  /\ gz = "partial" => plain
  /\ stage = "remove" => gz = "whole"
  /\ gz = "whole" => copied = log /\ stage \in {"remove", "emit", "finalized", "dead"}

Upto(n) == [k \in 1..n |-> k]

RingInv == config.policy = "MemoryOnly" => ring = LastOf(Upto(handled), RingCapacity)

\* What `execra logs` has found so far, by what there was when it began.
ReaderInv ==
  /\ reader.since = "settled" =>
       /\ Settled
       /\ reader.at = "plain" => plain
       /\ reader.at \in {"compressed", "gz"} => ~plain
  /\ reader.since = "open" =>
       /\ Stands /\ reader.floor <= Len(log)
       /\ reader.at \in {"compressed", "gz"} => gz = "whole"
  /\ LogsReadBack

RawInv == ReadInv /\ TypeOK /\ LogInv /\ GzInv /\ RingInv /\ ReaderInv

LEMMA LastOfSeq ==
  ASSUME NEW s \in Seq(Nat), NEW n \in Nat
  PROVE  /\ LastOf(s, n) \in Seq(Nat)
         /\ Len(LastOf(s, n)) = IF Len(s) > n THEN n ELSE Len(s)
         /\ \A i \in 1..Len(LastOf(s, n)) :
              LastOf(s, n)[i] = s[Len(s) - Len(LastOf(s, n)) + i]
<1> DEFINE m == Len(s) - n + 1
<1>0. Len(s) \in Nat /\ DOMAIN s = 1..Len(s)
  BY LenProperties
<1>1. CASE Len(s) > n
  <2>1. LastOf(s, n) = SubSeq(s, m, Len(s))
    BY <1>1 DEF LastOf
  <2>2. m \in Int /\ \A i \in m..Len(s) : i \in 1..Len(s)
    BY <1>0, <1>1
  <2>3. \A i \in m..Len(s) : s[i] \in Nat
    BY <2>2, ElementOfSeq
  <2> HIDE DEF m
  <2>4. /\ SubSeq(s, m, Len(s)) \in Seq(Nat)
        /\ Len(SubSeq(s, m, Len(s))) = IF m <= Len(s) THEN Len(s) - m + 1 ELSE 0
        /\ \A i \in 1..(Len(s) - m + 1) : SubSeq(s, m, Len(s))[i] = s[m + i - 1]
    BY <1>0, <2>2, <2>3, SubSeqProperties
  <2>5. Len(SubSeq(s, m, Len(s))) = n /\ Len(s) - m + 1 = n
    BY <1>0, <1>1, <2>4 DEF m
  <2>6. \A i \in 1..n : m + i - 1 = Len(s) - n + i
    BY <1>0 DEF m
  <2> QED BY <1>1, <2>1, <2>4, <2>5, <2>6
<1>2. CASE ~(Len(s) > n)
  <2>1. LastOf(s, n) = s
    BY <1>2 DEF LastOf
  <2>2. \A i \in 1..Len(s) : Len(s) - Len(s) + i = i
    BY <1>0
  <2> QED BY <1>2, <2>1, <2>2
<1> QED BY <1>1, <1>2

\* r has the last n of the first h positions.
IsRing(r, h, n) ==
  /\ r \in Seq(Nat) /\ Len(r) = IF h > n THEN n ELSE h
  /\ \A i \in 1..Len(r) : r[i] = h - Len(r) + i

LEMMA LastOfIsRing ==
  ASSUME NEW s \in Seq(Nat), NEW h \in Nat, NEW n \in Nat, NEW d \in Nat,
         Len(s) = h - d, d = 0 \/ Len(s) >= n,
         \A i \in 1..Len(s) : s[i] = d + i
  PROVE  IsRing(LastOf(s, n), h, n)
<1> PICK r : r = LastOf(s, n)
  OBVIOUS
<1>1. /\ r \in Seq(Nat) /\ Len(r) = (IF Len(s) > n THEN n ELSE Len(s))
      /\ \A i \in 1..Len(r) : r[i] = s[Len(s) - Len(r) + i]
  BY LastOfSeq
<1>2. Len(r) = (IF h > n THEN n ELSE h)
  BY <1>1
<1>3. ASSUME NEW i \in 1..Len(r) PROVE r[i] = h - Len(r) + i
  <2>1. Len(r) \in Nat /\ Len(r) <= Len(s)
    BY <1>1
  <2>2. Len(s) - Len(r) + i \in 1..Len(s)
    BY <2>1
  <2>3. d + (Len(s) - Len(r) + i) = h - Len(r) + i
    BY <2>1
  <2> QED BY <1>1, <2>2, <2>3
<1> QED BY <1>1, <1>2, <1>3 DEF IsRing

LEMMA LastUpto ==
  ASSUME NEW h \in Nat, NEW n \in Nat
  PROVE  IsRing(LastOf(Upto(h), n), h, n)
<1>1. /\ Upto(h) \in Seq(Nat) /\ Len(Upto(h)) = h
      /\ \A i \in 1..Len(Upto(h)) : Upto(h)[i] = 0 + i
  BY DEF Upto
<1>2. Len(Upto(h)) = h - 0
  BY <1>1
<1> QED BY <1>1, <1>2, LastOfIsRing

\* Dropping the oldest line when one is added keeps the last n.
LEMMA RingStep ==
  ASSUME NEW h \in Nat, NEW n \in Nat \ {0}
  PROVE  /\ LastOf(Append(LastOf(Upto(h), n), h + 1), n) = LastOf(Upto(h + 1), n)
         /\ LastOf(Upto(h + 1), n) \in Seq(Nat)
<1> PICK a : a = LastOf(Upto(h), n)
  OBVIOUS
<1> PICK b : b = Append(a, h + 1)
  OBVIOUS
<1>0. IsRing(a, h, n)
  BY LastUpto
<1> PICK d \in Nat : d = h - Len(a)
  <2>1. h - Len(a) \in Nat
    BY <1>0 DEF IsRing
  <2> QED BY <2>1
<1>1. /\ a \in Seq(Nat) /\ Len(a) = (IF h > n THEN n ELSE h)
      /\ \A i \in 1..Len(a) : a[i] = d + i
  BY <1>0 DEF IsRing
<1>2. /\ b \in Seq(Nat) /\ Len(b) = Len(a) + 1 /\ Len(a) \in Nat
      /\ \A i \in 1..Len(a) : b[i] = a[i]
      /\ b[Len(a) + 1] = h + 1
  BY <1>1, Grows
<1>3. ASSUME NEW i \in 1..Len(b) PROVE b[i] = d + i
  <2>1. CASE i \in 1..Len(a)
    BY <1>1, <1>2, <2>1
  <2>2. CASE i = Len(a) + 1
    <3>1. d + i = h + 1
      BY <1>2, <2>2
    <3> QED BY <1>2, <2>2, <3>1
  <2> QED BY <1>2, <2>1, <2>2
<1>4. Len(b) = h + 1 - d /\ (d = 0 \/ Len(b) >= n)
  BY <1>1, <1>2
<1>5. h + 1 \in Nat /\ n \in Nat
  OBVIOUS
<1>6. IsRing(LastOf(b, n), h + 1, n)
  <2>1. \A i \in 1..Len(b) : b[i] = d + i
    BY <1>3
  <2> PICK m \in Nat : m = h + 1
    BY <1>5
  <2>2. b \in Seq(Nat) /\ Len(b) = m - d /\ (d = 0 \/ Len(b) >= n)
    BY <1>2, <1>4
  <2>3. IsRing(LastOf(b, n), m, n)
    BY <1>5, <2>1, <2>2, LastOfIsRing
  <2> QED BY <2>3
<1>7. IsRing(LastOf(Upto(h + 1), n), h + 1, n)
  BY <1>5, LastUpto
<1>8. ASSUME NEW p, NEW q, IsRing(p, h + 1, n), IsRing(q, h + 1, n) PROVE p = q
  <2>1. /\ p \in Seq(Nat) /\ q \in Seq(Nat) /\ Len(p) = Len(q)
        /\ \A i \in 1..Len(p) : p[i] = q[i]
    BY <1>8 DEF IsRing
  <2> QED BY <2>1, SeqEqual
<1>9. LastOf(b, n) = LastOf(Upto(h + 1), n)
  BY <1>6, <1>7, <1>8
<1> QED BY <1>7, <1>9 DEF IsRing
-----------------------------------------------------------------------------
\* The types of the variables RawOutput adds.
RawTypes ==
  /\ config \in [policy : Policies, dir : BOOLEAN] /\ stage \in Stages
  /\ hasFile \in BOOLEAN /\ ioError \in BOOLEAN /\ plain \in BOOLEAN
  /\ handled \in Nat /\ inflight \in Nat /\ failed \in SUBSET Nat
  /\ log \in Seq(Nat) /\ copied \in Seq(Nat) /\ ring \in Seq(Nat)
  /\ gz \in {"absent", "partial", "whole"}
  /\ reader \in Readers

LEMMA TypeParts == TypeOK <=> ReadTypeOK /\ RawTypes
BY DEF TypeOK, RawTypes

LEMMA RawInitHolds == Init => RawInv
<1> SUFFICES ASSUME Init PROVE RawInv
  OBVIOUS
<1>0. /\ stage = "queued" /\ hasFile = FALSE /\ handled = 0
      /\ inflight = 0 /\ ioError = FALSE /\ failed = {}
      /\ plain = FALSE /\ log = <<>> /\ gz = "absent" /\ copied = <<>>
      /\ ring = <<>> /\ reader = NoReader /\ ReadInit
  BY DEF Init
<1>1. <<>> \in Seq(Nat) /\ Len(<<>>) = 0 /\ DOMAIN <<>> = {}
  BY EmptySeq
<1>2. ReadInv
  BY <1>0, ReadInitHolds
<1>3. config \in [policy : Policies, dir : BOOLEAN]
  <2>1. PICK asked \in Policies \cup {"unset"}, dir \in BOOLEAN :
          config = [policy |-> Resolve(asked, dir), dir |-> dir]
    BY DEF Init
  <2>2. Resolve(asked, dir) \in Policies
    BY DEF Resolve, Policies
  <2> QED BY <2>1, <2>2
<1>4. RawTypes
  <2>1. reader \in Readers /\ stage \in Stages
    BY <1>0 DEF NoReader, Readers, Stages
  <2> QED BY <1>0, <1>1, <1>3, <2>1 DEF RawTypes
<1>5. TypeOK
  BY <1>2, <1>4, TypeParts DEF ReadInv
<1>6. LogInv
  BY <1>0, <1>1 DEF LogInv, HasLog
<1>7. GzInv
  BY <1>0 DEF GzInv
<1>8. RingInv
  <2>1. Upto(0) = <<>>
    BY DEF Upto
  <2>2. LastOf(<<>>, RingCapacity) = <<>>
    BY <1>1, RawOutputAssumption DEF LastOf
  <2> QED BY <1>0, <2>1, <2>2 DEF RingInv
<1>9. ReaderInv
  BY <1>0 DEF ReaderInv, LogsReadBack, NoReader
<1> QED BY <1>2, <1>5, <1>6, <1>7, <1>8, <1>9 DEF RawInv

\* The driver's steps leave what `execra logs` has found so far true.
LEMMA DriverReader ==
  ASSUME RawInv, ~Settled, reader' = reader,
         Stands => Stands', gz = "whole" => gz' = "whole",
         Len(log') \in Nat, Len(log) <= Len(log')
  PROVE  ReaderInv'
<1>0. ReaderInv /\ reader \in Readers /\ Len(log) \in Nat
  BY LenProperties DEF RawInv, TypeOK
<1>1. reader.since # "settled" /\ reader.floor \in Nat
  BY <1>0 DEF ReaderInv, Readers
<1>2. reader.since = "open" =>
        /\ Stands' /\ reader.floor <= Len(log')
        /\ reader.at \in {"compressed", "gz"} => gz' = "whole"
  BY <1>0, <1>1 DEF ReaderInv
<1>3. reader.since = "open" =>
        /\ reader.at # "none"
        /\ reader.at = "error" => gz' = "whole"
        /\ reader.at = "text" => reader.got >= reader.floor
  BY <1>0 DEF ReaderInv, LogsReadBack
<1> QED BY <1>1, <1>2, <1>3 DEF ReaderInv, LogsReadBack

\* A driver's step that leaves the log and the ring alone.
LEMMA QuietStep ==
  ASSUME RawInv, ReadInv', RawTypes',
         UNCHANGED <<config, handled, ring, failed, log, reader>>,
         ~Settled, Stands => Stands', gz = "whole" => gz' = "whole",
         LogInv', GzInv'
  PROVE  RawInv'
<1>1. TypeOK'
  BY DEF TypeOK, RawTypes, ReadInv
<1>2. RingInv'
  BY DEF RawInv, RingInv, Upto, LastOf
<1>3. Len(log) \in Nat /\ log' = log
  BY LenProperties DEF RawInv, TypeOK
<1>4. ReaderInv'
  BY <1>3, DriverReader
<1> QED BY <1>1, <1>2, <1>4 DEF RawInv

LEMMA StartKeeps == RawInv /\ Start => RawInv'
<1> SUFFICES ASSUME RawInv, Start PROVE RawInv'
  OBVIOUS
<1>0. /\ stage = "queued" /\ stage' \in {"reading", "flush"}
      /\ hasFile' \in BOOLEAN /\ plain' = hasFile' /\ UNCHANGED readVars
      /\ UNCHANGED <<config, handled, inflight, ioError, failed, log, gz, copied, ring, reader>>
  BY DEF Start, Go
<1>1. ReadInv'
  BY <1>0, ReadersStutter DEF RawInv
<1>2. RawTypes'
  BY <1>0, TypeParts DEF RawInv, RawTypes, Stages
<1>3. handled = 0 /\ ioError = FALSE /\ failed = {} /\ gz = "absent" /\ ~plain /\ inflight = 0
  BY <1>0 DEF RawInv, LogInv, GzInv
<1>4. LogInv'
  BY <1>0, <1>3 DEF RawInv, LogInv
<1>5. GzInv'
  BY <1>0, <1>3 DEF GzInv
<1>6. ~Settled /\ ~Stands
  BY <1>0, <1>3 DEF Settled, Stands
<1> QED BY <1>0, <1>1, <1>2, <1>3, <1>4, <1>5, <1>6, QuietStep

\* The program writes, the readers read.
LEMMA ReadingKeeps == RawInv /\ (RunProgram \/ ReadLines) => RawInv'
<1> SUFFICES ASSUME RawInv, RunProgram \/ ReadLines PROVE RawInv'
  OBVIOUS
<1>0. /\ stage = "reading" /\ stage' \in {"reading", "flush"} /\ (Program \/ Poll)
      /\ UNCHANGED <<hasFile, inflight, ioError, failed, log, plain, gz, copied>>
      /\ UNCHANGED <<config, handled, ring, reader>>
  BY DEF RunProgram, ReadLines, rawVars, fileVars, gzVars
<1>1. ReadInv'
  BY <1>0, ReadStepKeeps DEF RawInv, ReadNext
<1>2. RawTypes'
  BY <1>0, TypeParts DEF RawInv, RawTypes, Stages
<1>3. LogInv'
  BY <1>0 DEF RawInv, LogInv, HasLog, Holds
<1>4. GzInv'
  BY <1>0 DEF RawInv, GzInv
<1>5. ~Settled /\ Stands' = Stands
  BY <1>0 DEF Settled, Stands
<1> QED BY <1>0, <1>1, <1>2, <1>3, <1>4, <1>5, QuietStep

\* The entries of the log, each handled.
LEMMA LogFacts ==
  ASSUME RawInv
  PROVE  /\ handled \in Nat /\ inflight \in {0, handled} /\ failed \subseteq 1..handled
         /\ log \in Seq(Nat) /\ Len(log) \in Nat /\ DOMAIN log = 1..Len(log)
         /\ \A i \in 1..Len(log) : log[i] \in 1..handled /\ (inflight # 0 => log[i] < inflight)
         /\ \A k : Holds(k) => k \in 1..handled /\ (inflight # 0 => k < inflight)
<1>1. log \in Seq(Nat) /\ handled \in Nat
  BY DEF RawInv, TypeOK
<1>2. DOMAIN log = 1..Len(log) /\ Len(log) \in Nat
  BY <1>1, LenProperties
<1> QED BY <1>1, <1>2 DEF RawInv, LogInv, Holds

LEMMA LineHandled == RawInv /\ ProcessLine => RawInv'
<1> SUFFICES ASSUME RawInv, ProcessLine PROVE RawInv'
  OBVIOUS
<1>0. /\ stage = "reading" /\ inflight = 0 /\ handled' = handled + 1
      /\ UNCHANGED readVars /\ UNCHANGED <<config, stage, plain, gz, copied, reader>>
      /\ UNCHANGED <<hasFile, failed, log>>
      /\ ring' = IF config.policy = "MemoryOnly"
                 THEN LastOf(Append(ring, handled + 1), RingCapacity) ELSE ring
  BY DEF ProcessLine, WriteAll, fileVars, gzVars
<1>1. \/ ~hasFile /\ inflight' = 0 /\ ioError' = ioError
      \/ hasFile /\ ioError /\ inflight' = 0 /\ ioError' = FALSE
      \/ hasFile /\ ~ioError /\ inflight' = handled + 1 /\ ioError' = ioError
  BY <1>0 DEF ProcessLine, WriteAll, fileVars
<1>2. ReadInv'
  BY <1>0, ReadersStutter DEF RawInv
<1>3. /\ handled \in Nat /\ failed \subseteq 1..handled
      /\ DOMAIN log = 1..Len(log)
      /\ \A i \in 1..Len(log) : log[i] \in 1..handled
      /\ \A k : Holds(k) => k \in 1..handled
  BY LogFacts
<1>4. \/ ring' = ring /\ config.policy # "MemoryOnly"
      \/ /\ config.policy = "MemoryOnly" /\ ring' \in Seq(Nat)
         /\ ring' = LastOf(Upto(handled + 1), RingCapacity)
  <2>1. CASE config.policy = "MemoryOnly"
    <3>1. ring' = LastOf(Append(LastOf(Upto(handled), RingCapacity), handled + 1), RingCapacity)
      BY <1>0, <2>1 DEF RawInv, RingInv
    <3> QED BY <1>3, <2>1, <3>1, RingStep, RawOutputAssumption
  <2>2. CASE config.policy # "MemoryOnly"
    BY <1>0, <2>2
  <2> QED BY <2>1, <2>2
<1>5. RawTypes'
  <2>1. ring' \in Seq(Nat)
    BY <1>4 DEF RawInv, TypeOK
  <2>2. inflight' \in Nat /\ handled' \in Nat
    BY <1>0, <1>1, <1>3
  <2>3. ioError' \in BOOLEAN
    BY <1>1 DEF RawInv, TypeOK
  <2> QED BY <1>0, <2>1, <2>2, <2>3 DEF RawInv, TypeOK, RawTypes
<1>6. TypeOK'
  BY <1>2, <1>5 DEF TypeOK, RawTypes, ReadInv
<1>7. hasFile <=> plain
  BY <1>0 DEF RawInv, LogInv
<1>8. gz = "absent"
  BY <1>0 DEF RawInv, GzInv
<1>9. hasFile => (ioError <=> handled \in failed)
  BY <1>0 DEF RawInv, LogInv
<1>10. handled + 1 \notin failed /\ ~Holds(handled + 1)
  BY <1>3
<1>11. hasFile => (ioError' <=> handled + 1 \in failed)
  BY <1>1, <1>10
<1>12. HasLog' => \A k \in 1..(handled + 1) :
         (Holds(k) \/ k = inflight') <=> (k \notin failed /\ k - 1 \notin failed)
  <2> SUFFICES ASSUME hasFile, NEW k \in 1..(handled + 1)
               PROVE  (Holds(k) \/ k = inflight') <=> (k \notin failed /\ k - 1 \notin failed)
    BY <1>0, <1>7, <1>8 DEF HasLog
  <2>1. CASE k = handled + 1
    <3>1. k - 1 = handled
      BY <1>3, <2>1
    <3>2. CASE ioError
      BY <1>1, <1>3, <1>9, <1>10, <2>1, <3>1, <3>2
    <3>3. CASE ~ioError
      BY <1>1, <1>9, <1>10, <2>1, <3>1, <3>3
    <3> QED BY <3>2, <3>3
  <2>2. CASE k \in 1..handled
    <3>1. (Holds(k) \/ k = 0) <=> (k \notin failed /\ k - 1 \notin failed)
      BY <1>0, <1>7, <2>2 DEF RawInv, LogInv, HasLog
    <3>2. k # 0 /\ k # inflight'
      BY <1>1, <1>3, <2>2
    <3> QED BY <3>1, <3>2
  <2> QED BY <1>3, <2>1, <2>2
<1>13. LogInv'
  <2>1. inflight' \in {0, handled'} /\ failed' \subseteq 1..handled'
    BY <1>0, <1>1, <1>3
  <2>2. \A i \in DOMAIN log : log[i] \in 1..(handled + 1) /\ log[i] < handled + 1
    BY <1>3
  <2>3. \A i \in DOMAIN log : inflight' # 0 => log[i] < inflight'
    BY <1>1, <2>2
  <2>4. \A i, k \in DOMAIN log : i < k => log[i] < log[k]
    BY DEF RawInv, LogInv
  <2>5. \A k : Holds(k)' <=> Holds(k)
    BY <1>0 DEF Holds
  <2> QED BY <1>0, <1>7, <1>11, <1>12, <2>1, <2>2, <2>3, <2>4, <2>5 DEF LogInv
<1>14. GzInv'
  BY <1>0 DEF RawInv, GzInv
<1>15. RingInv'
  BY <1>0, <1>4 DEF RingInv, Upto, LastOf
<1>16. ReaderInv'
  <2>1. ~Settled /\ Stands' = Stands /\ log' = log /\ Len(log) \in Nat
    BY <1>0, LogFacts DEF Settled, Stands
  <2> QED BY <1>0, <2>1, DriverReader
<1> QED BY <1>2, <1>6, <1>13, <1>14, <1>15, <1>16 DEF RawInv

LEMMA WriteEnds == RawInv /\ WriteDone => RawInv'
<1> SUFFICES ASSUME RawInv, WriteDone PROVE RawInv'
  OBVIOUS
<1>0. /\ inflight # 0 /\ stage # "dead" /\ inflight' = 0
      /\ UNCHANGED readVars
      /\ UNCHANGED <<config, stage, hasFile, handled, plain, gz, copied, ring, reader>>
  BY DEF WriteDone, gzVars
<1>1. \/ log' = Append(log, inflight) /\ UNCHANGED <<ioError, failed>>
      \/ ioError' = TRUE /\ failed' = failed \cup {inflight} /\ log' = log
  BY DEF WriteDone
<1>2. ReadInv'
  BY <1>0, ReadersStutter DEF RawInv
<1>3. /\ handled \in Nat /\ inflight = handled /\ handled # 0 /\ failed \subseteq 1..handled
      /\ log \in Seq(Nat) /\ Len(log) \in Nat /\ DOMAIN log = 1..Len(log)
      /\ \A i \in 1..Len(log) : log[i] \in 1..handled /\ log[i] < handled
      /\ \A k : Holds(k) => k < handled
  BY <1>0, LogFacts
<1>4. stage \in {"reading", "flush"} /\ (hasFile <=> plain) /\ gz = "absent"
  BY <1>0 DEF RawInv, LogInv, GzInv
<1>5. hasFile => (ioError <=> handled \in failed)
  BY <1>4 DEF RawInv, LogInv
<1>6. HasLog => \A k \in 1..handled :
        (Holds(k) \/ k = handled) <=> (k \notin failed /\ k - 1 \notin failed)
  BY <1>0, <1>3 DEF RawInv, LogInv
<1>7. /\ log' \in Seq(Nat) /\ Len(log') \in Nat /\ Len(log) <= Len(log')
      /\ DOMAIN log' = 1..Len(log')
      /\ \A i \in 1..Len(log) : log'[i] = log[i]
      /\ log' = log \/ (Len(log') = Len(log) + 1 /\ log'[Len(log) + 1] = handled)
  <2>1. CASE log' = log
    BY <1>3, <2>1
  <2>2. CASE log' = Append(log, inflight)
    <3>1. log' = Append(log, handled) /\ handled \in Nat /\ log \in Seq(Nat)
      BY <1>3, <2>2
    <3> QED BY <3>1, Grows
  <2> QED BY <1>1, <2>1, <2>2
<1> PICK m \in Nat : m = Len(log)
  BY <1>3
<1>8. \A i \in DOMAIN log' : i \in 1..m \/ (i = m + 1 /\ log'[i] = handled)
  <2>1. CASE log' = log
    BY <1>3, <2>1
  <2>2. CASE Len(log') = m + 1 /\ log'[m + 1] = handled
    BY <1>7, <2>2
  <2> QED BY <1>7, <2>1, <2>2
<1>9. RawTypes'
  <2>1. ioError' \in BOOLEAN /\ failed' \in SUBSET Nat
    BY <1>1, <1>3 DEF RawInv, TypeOK
  <2> QED BY <1>0, <1>7, <2>1 DEF RawInv, TypeOK, RawTypes
<1>10. TypeOK'
  BY <1>2, <1>9 DEF TypeOK, RawTypes, ReadInv
<1>11. \A k \in 1..handled : Holds(k)' <=> Holds(k) \/ (log' # log /\ k = handled)
  <2> SUFFICES ASSUME NEW k \in 1..handled
               PROVE  Holds(k)' <=> Holds(k) \/ (log' # log /\ k = handled)
    OBVIOUS
  <2>1. CASE log' = log
    BY <2>1 DEF Holds
  <2>2. CASE log' # log
    <3>1. /\ DOMAIN log' = 1..(m + 1) /\ log'[m + 1] = handled /\ DOMAIN log = 1..m
          /\ \A i \in 1..m : log'[i] = log[i]
      BY <1>3, <1>7, <2>2
    <3>2. (\E i \in 1..(m + 1) : log'[i] = k) <=> (\E i \in 1..m : log[i] = k) \/ k = handled
      BY <3>1
    <3> QED BY <2>2, <3>1, <3>2 DEF Holds
  <2> QED BY <2>1, <2>2
<1>12. HasLog' => \A k \in 1..handled :
         (Holds(k)' \/ k = 0) <=> (k \notin failed' /\ k - 1 \notin failed')
  <2> SUFFICES ASSUME HasLog, NEW k \in 1..handled
               PROVE  Holds(k)' <=> (k \notin failed' /\ k - 1 \notin failed')
    BY <1>0 DEF HasLog
  <2>1. (Holds(k) \/ k = handled) <=> (k \notin failed /\ k - 1 \notin failed)
    BY <1>6
  <2>2. k - 1 # handled
    BY <1>3
  <2>3. CASE log' # log
    BY <1>1, <1>11, <2>1, <2>3
  <2>4. CASE log' = log
    <3>1. failed' = failed \cup {handled}
      <4>1. log # Append(log, inflight)
        <5>1. Len(Append(log, inflight)) = m + 1
          BY <1>3, Grows
        <5> QED BY <5>1
      <4> QED BY <1>1, <1>3, <2>4, <4>1
    <3>2. ~Holds(handled)
      BY <1>3
    <3> QED BY <1>11, <2>1, <2>2, <2>4, <3>1, <3>2
  <2> QED BY <2>3, <2>4
<1>13. hasFile => (ioError' <=> handled \in failed')
  <2> SUFFICES ASSUME hasFile PROVE ioError' <=> handled \in failed'
    OBVIOUS
  <2>1. CASE UNCHANGED <<ioError, failed>>
    BY <1>5, <2>1
  <2>2. CASE ioError' = TRUE /\ failed' = failed \cup {inflight}
    BY <1>3, <2>2
  <2> QED BY <1>1, <2>1, <2>2
<1>14. LogInv'
  <2>0. handled \in 1..handled
    BY <1>3
  <2>1. failed' \subseteq 1..handled
    BY <1>1, <1>3, <2>0
  <2>2. \A i \in DOMAIN log' : log'[i] \in 1..handled
    <3>1. \A i \in 1..m : log'[i] \in 1..handled
      BY <1>3, <1>7
    <3> QED BY <1>8, <2>0, <3>1
  <2>3. \A i, k \in DOMAIN log' : i < k => log'[i] < log'[k]
    <3> SUFFICES ASSUME NEW i \in DOMAIN log', NEW k \in DOMAIN log', i < k
                 PROVE  log'[i] < log'[k]
      OBVIOUS
    <3>1. i \in 1..m
      BY <1>8
    <3>2. CASE k \in 1..m
      BY <1>3, <1>7, <3>1, <3>2 DEF RawInv, LogInv
    <3>3. CASE k = m + 1 /\ log'[k] = handled
      BY <1>3, <1>7, <3>1, <3>3
    <3> QED BY <1>8, <3>2, <3>3
  <2> QED BY <1>0, <1>4, <1>12, <1>13, <2>1, <2>2, <2>3 DEF LogInv
<1>15. GzInv'
  BY <1>0, <1>4 DEF RawInv, GzInv
<1>16. RingInv'
  BY <1>0 DEF RawInv, RingInv, Upto, LastOf
<1>17. ReaderInv'
  <2>1. ~Settled /\ Stands' = Stands
    BY <1>0, <1>4 DEF Settled, Stands
  <2> QED BY <1>0, <1>7, <2>1, DriverReader
<1> QED BY <1>2, <1>10, <1>14, <1>15, <1>16, <1>17 DEF RawInv

-----------------------------------------------------------------------------
(* finalize_raw_log.                                                       *)

\* What is kept by every step that comes after the last write.
LEMMA AfterWrites ==
  ASSUME RawInv, inflight = 0, stage \notin {"queued", "reading", "finalized", "dead"},
         UNCHANGED readVars, UNCHANGED <<config, handled, ring, failed, log, reader>>,
         inflight' = 0, stage' \in Stages \ {"queued", "reading", "flush"},
         hasFile' \in BOOLEAN, ioError' \in BOOLEAN, plain' \in BOOLEAN,
         gz' \in {"absent", "partial", "whole"}, copied' \in Seq(Nat),
         HasLog' /\ stage' # "dead" => HasLog,
         Stands => Stands', gz = "whole" => gz' = "whole", GzInv'
  PROVE  RawInv'
<1>1. ReadInv'
  BY ReadersStutter DEF RawInv
<1>2. RawTypes'
  BY DEF RawInv, TypeOK, RawTypes
<1>3. \A k : Holds(k)' <=> Holds(k)
  BY DEF Holds
<1>4. stage # "dead" /\ stage' \notin {"queued", "reading", "flush"} /\ ~Settled
  BY DEF Settled
<1>5. LogInv'
  <2>1. /\ inflight' \in {0, handled'} /\ failed' \subseteq 1..handled'
        /\ \A i \in DOMAIN log' : log'[i] \in 1..handled'
                                  /\ (inflight' # 0 => log'[i] < inflight')
        /\ \A i, k \in DOMAIN log' : i < k => log'[i] < log'[k]
    BY DEF RawInv, LogInv
  <2>2. HasLog' /\ stage' # "dead" => \A k \in 1..handled' :
          (Holds(k)' \/ k = inflight') <=> (k \notin failed' /\ k - 1 \notin failed')
    BY <1>3, <1>4 DEF RawInv, LogInv
  <2> QED BY <1>4, <2>1, <2>2 DEF LogInv
<1> QED BY <1>1, <1>2, <1>4, <1>5, QuietStep

LEMMA FinalizeKeeps == RawInv /\ (Finalize \/ Die) => RawInv'
<1> SUFFICES ASSUME RawInv, Finalize \/ Die PROVE RawInv'
  OBVIOUS
<1>0. /\ hasFile \in BOOLEAN /\ ioError \in BOOLEAN /\ plain \in BOOLEAN
      /\ copied \in Seq(Nat) /\ log \in Seq(Nat) /\ stage \in Stages
      /\ gz \in {"absent", "partial", "whole"}
      /\ stage \notin {"reading", "flush"} => inflight = 0
  BY DEF RawInv, TypeOK, LogInv
<1> USE DEF Go, fileVars, gzVars
<1>1. CASE FlushAndDrop
  <2>1. /\ stage = "flush" /\ inflight = 0 /\ stage' \in {"open", "emit"}
        /\ ioError' = FALSE /\ hasFile' = FALSE /\ UNCHANGED readVars
        /\ UNCHANGED <<config, handled, inflight, failed, log, plain, gz, copied>>
        /\ UNCHANGED <<ring, reader>>
    BY <1>1 DEF FlushAndDrop
  <2>2. GzInv' /\ (HasLog' => HasLog) /\ (Stands => Stands')
    BY <2>1 DEF RawInv, GzInv, HasLog, Stands
  <2>3. stage' \in Stages \ {"queued", "reading", "flush"}
    BY <2>1 DEF Stages
  <2> QED BY <1>0, <2>1, <2>2, <2>3, AfterWrites
<1>2. CASE OpenPlain
  <2>1. /\ stage = "open" /\ ((stage' = "create" /\ plain) \/ stage' = "emit")
        /\ UNCHANGED readVars /\ UNCHANGED <<hasFile, ioError>>
        /\ UNCHANGED <<config, handled, inflight, failed, log, plain, gz, copied>>
        /\ UNCHANGED <<ring, reader>>
    BY <1>2 DEF OpenPlain
  <2>2. GzInv' /\ (HasLog' => HasLog) /\ (Stands => Stands')
    BY <2>1 DEF RawInv, GzInv, HasLog, Stands
  <2>3. stage' \in Stages \ {"queued", "reading", "flush"}
    BY <2>1 DEF Stages
  <2> QED BY <1>0, <2>1, <2>2, <2>3, AfterWrites
<1>3. CASE CreateGz
  <2>1. /\ stage = "create"
        /\ (stage' = "copy" /\ gz' = "partial") \/ (stage' = "emit" /\ gz' = gz)
        /\ UNCHANGED readVars /\ UNCHANGED <<hasFile, ioError>>
        /\ UNCHANGED <<config, handled, inflight, failed, log, plain, copied>>
        /\ UNCHANGED <<ring, reader>>
    BY <1>3 DEF CreateGz
  <2>2. plain /\ gz = "absent"
    BY <2>1 DEF RawInv, GzInv
  <2>3. GzInv' /\ (HasLog' => HasLog) /\ (Stands => Stands')
    BY <2>1, <2>2 DEF GzInv, HasLog, Stands
  <2>4. /\ stage' \in Stages \ {"queued", "reading", "flush"}
        /\ gz' \in {"absent", "partial", "whole"} /\ gz # "whole"
    BY <2>1, <2>2 DEF Stages
  <2> QED BY <1>0, <2>1, <2>3, <2>4, AfterWrites
<1>4. CASE CopyAndFinish
  <2>1. /\ stage = "copy"
        /\ \/ stage' = "remove" /\ gz' = "whole" /\ copied' = log
           \/ stage' = "emit" /\ gz' = gz /\ copied' = copied
        /\ UNCHANGED readVars /\ UNCHANGED <<hasFile, ioError>>
        /\ UNCHANGED <<config, handled, inflight, failed, log, plain>>
        /\ UNCHANGED <<ring, reader>>
    BY <1>4 DEF CopyAndFinish
  <2>2. plain /\ gz = "partial"
    BY <2>1 DEF RawInv, GzInv
  <2>3. GzInv' /\ (HasLog' => HasLog) /\ (Stands => Stands')
    BY <2>1, <2>2 DEF GzInv, HasLog, Stands
  <2>4. /\ stage' \in Stages \ {"queued", "reading", "flush"} /\ copied' \in Seq(Nat)
        /\ gz' \in {"absent", "partial", "whole"} /\ gz # "whole"
    BY <1>0, <2>1, <2>2 DEF Stages
  <2> QED BY <1>0, <2>1, <2>3, <2>4, AfterWrites
<1>5. CASE RemovePlain
  <2>1. /\ stage = "remove" /\ stage' = "emit" /\ plain' \in BOOLEAN
        /\ UNCHANGED readVars /\ UNCHANGED <<hasFile, ioError>>
        /\ UNCHANGED <<config, handled, inflight, failed, log, gz, copied>>
        /\ UNCHANGED <<ring, reader>>
    BY <1>5 DEF RemovePlain
  <2>2. gz = "whole" /\ copied = log
    BY <2>1 DEF RawInv, GzInv
  <2>3. GzInv' /\ HasLog /\ Stands'
    BY <2>1, <2>2 DEF GzInv, HasLog, Stands
  <2>4. stage' \in Stages \ {"queued", "reading", "flush"}
    BY <2>1 DEF Stages
  <2> QED BY <1>0, <2>1, <2>3, <2>4, AfterWrites
<1>6. CASE Emit
  <2>1. /\ stage = "emit" /\ stage' = "finalized"
        /\ UNCHANGED readVars /\ UNCHANGED <<hasFile, ioError>>
        /\ UNCHANGED <<config, handled, inflight, failed, log, plain, gz, copied>>
        /\ UNCHANGED <<ring, reader>>
    BY <1>6 DEF Emit
  <2>2. GzInv' /\ (HasLog' => HasLog) /\ (Stands => Stands')
    BY <2>1 DEF RawInv, GzInv, HasLog, Stands
  <2>3. stage' \in Stages \ {"queued", "reading", "flush"}
    BY <2>1 DEF Stages
  <2> QED BY <1>0, <2>1, <2>2, <2>3, AfterWrites
<1>7. CASE Die
  <2>1. /\ stage \notin {"finalized", "dead"} /\ stage' = "dead" /\ inflight' = 0
        /\ UNCHANGED readVars /\ UNCHANGED <<hasFile, ioError>>
        /\ UNCHANGED <<config, handled, failed, log, plain, gz, copied>>
        /\ UNCHANGED <<ring, reader>>
    BY <1>7 DEF Die
  <2>2. ReadInv'
    BY <2>1, ReadersStutter DEF RawInv
  <2>3. RawTypes'
    BY <1>0, <2>1 DEF RawInv, TypeOK, RawTypes, Stages
  <2>4. LogInv'
    BY <2>1 DEF RawInv, LogInv
  <2>5. GzInv' /\ ~Settled /\ (Stands => Stands')
    BY <2>1 DEF RawInv, GzInv, Settled, Stands
  <2> QED BY <2>1, <2>2, <2>3, <2>4, <2>5, QuietStep
<1> QED BY <1>1, <1>2, <1>3, <1>4, <1>5, <1>6, <1>7 DEF Finalize

-----------------------------------------------------------------------------
(* `execra logs`.                                                          *)

LEMMA LogsKeeps == RawInv /\ Logs => RawInv'
<1> SUFFICES ASSUME RawInv, Logs PROVE RawInv'
  OBVIOUS
<1>0. /\ UNCHANGED readVars /\ UNCHANGED <<config, stage, handled, ring>>
      /\ UNCHANGED <<hasFile, inflight, ioError, failed, log>>
      /\ UNCHANGED <<plain, gz, copied>>
  BY DEF Logs, LogsStart, LogsReadPlain, LogsLookGz, LogsReadGz, LogsOnly, fileVars, gzVars
<1>1. /\ reader \in Readers /\ log \in Seq(Nat) /\ Len(log) \in Nat
      /\ copied \in Seq(Nat) /\ Len(copied) \in Nat
  BY LenProperties DEF RawInv, TypeOK
<1>2. /\ gz = "partial" => plain
      /\ gz = "whole" => copied = log
      /\ gz \in {"absent", "partial", "whole"}
  BY DEF RawInv, GzInv, TypeOK
<1>3. ReadInv'
  BY <1>0, ReadersStutter DEF RawInv
<1>4. ASSUME NEW at \in {"text", "error", "none", "gz"}, NEW n \in Nat, Answer(at, n)
      PROVE  /\ reader' \in Readers /\ reader'.at = at /\ reader'.got = n
             /\ reader'.since = reader.since /\ reader'.floor = reader.floor
  BY <1>1, <1>4 DEF Answer, Readers
<1>5. /\ reader.since = "settled" =>
           /\ Settled
           /\ reader.at = "plain" => plain
           /\ reader.at \in {"compressed", "gz"} => ~plain
      /\ reader.since = "open" =>
           /\ Stands /\ reader.floor <= Len(log)
           /\ reader.at \in {"compressed", "gz"} => gz = "whole"
  BY DEF RawInv, ReaderInv
<1>6. (Settled' <=> Settled) /\ (Stands' <=> Stands) /\ (HasLog' <=> HasLog)
  BY <1>0 DEF Settled, Stands, HasLog
<1>7. reader' \in Readers /\ ReaderInv'
  <2>1. CASE LogsStart
    <3>1. /\ reader'.at = (IF plain THEN "plain" ELSE "compressed")
          /\ reader'.since = (CASE Settled -> "settled"
                                [] ~Settled /\ Stands -> "open"
                                [] OTHER -> "before")
          /\ reader'.floor = Len(log) /\ reader'.got = 0
      BY <2>1 DEF LogsStart
    <3>2. reader' \in Readers
      BY <1>1, <2>1 DEF LogsStart, Readers
    <3>3. /\ reader'.since = "settled" => Settled
          /\ reader'.since = "open" => Stands
          /\ reader'.at \in {"plain", "compressed"}
          /\ reader'.at = "plain" <=> plain
      BY <3>1
    <3>4. reader'.since = "open" /\ ~plain => gz = "whole"
      BY <3>3 DEF Stands
    <3> QED BY <1>0, <1>1, <1>6, <3>1, <3>2, <3>3, <3>4 DEF ReaderInv, LogsReadBack
  <2>2. CASE LogsReadPlain
    <3>1. reader.at = "plain"
      BY <2>2 DEF LogsReadPlain
    <3>2. CASE plain
      <4>1. Answer("text", Len(log))
        BY <2>2, <3>2 DEF LogsReadPlain
      <4>2. /\ reader' \in Readers /\ reader'.at = "text" /\ reader'.got = Len(log)
            /\ reader'.since = reader.since /\ reader'.floor = reader.floor
        BY <1>1, <1>4, <4>1
      <4> QED BY <1>0, <1>1, <1>5, <1>6, <4>2 DEF ReaderInv, LogsReadBack, Readers
    <3>3. CASE ~plain
      <4>1. Answer("error", 0)
        BY <2>2, <3>3 DEF LogsReadPlain
      <4>2. /\ reader' \in Readers /\ reader'.at = "error"
            /\ reader'.since = reader.since /\ reader'.floor = reader.floor
        BY <1>4, <4>1
      <4>3. reader.since # "settled"
        BY <1>5, <3>1, <3>3
      <4>4. reader.since = "open" => gz = "whole"
        BY <1>5, <3>3 DEF Stands
      <4> QED BY <1>0, <1>5, <1>6, <4>2, <4>3, <4>4 DEF ReaderInv, LogsReadBack
    <3> QED BY <3>2, <3>3
  <2>3. CASE LogsLookGz
    <3>1. reader.at = "compressed" /\ Answer(IF gz = "absent" THEN "none" ELSE "gz", 0)
      BY <2>3 DEF LogsLookGz
    <3>2. CASE gz = "absent"
      <4>1. /\ reader' \in Readers /\ reader'.at = "none"
            /\ reader'.since = reader.since /\ reader'.floor = reader.floor
        BY <1>4, <3>1, <3>2
      <4>2. reader.since # "open" /\ (reader.since = "settled" => ~HasLog)
        BY <1>5, <3>1, <3>2 DEF HasLog
      <4> QED BY <1>0, <1>5, <1>6, <4>1, <4>2 DEF ReaderInv, LogsReadBack
    <3>3. CASE gz # "absent"
      <4>1. /\ reader' \in Readers /\ reader'.at = "gz"
            /\ reader'.since = reader.since /\ reader'.floor = reader.floor
        BY <1>4, <3>1, <3>3
      <4> QED BY <1>0, <1>5, <1>6, <3>1, <4>1 DEF ReaderInv, LogsReadBack
    <3> QED BY <3>2, <3>3
  <2>4. CASE LogsReadGz
    <3>1. reader.at = "gz"
      BY <2>4 DEF LogsReadGz
    <3>2. CASE gz = "whole"
      <4>1. Answer("text", Len(copied))
        BY <2>4, <3>2 DEF LogsReadGz
      <4>2. /\ reader' \in Readers /\ reader'.at = "text" /\ reader'.got = Len(log)
            /\ reader'.since = reader.since /\ reader'.floor = reader.floor
        BY <1>1, <1>2, <1>4, <3>2, <4>1
      <4> QED BY <1>0, <1>1, <1>5, <1>6, <4>2 DEF ReaderInv, LogsReadBack, Readers
    <3>3. CASE gz # "whole"
      <4>1. gz = "partial"
        BY <2>4, <3>3 DEF LogsReadGz
      <4>2. reader.since \notin {"settled", "open"}
        BY <1>2, <1>5, <3>1, <3>3, <4>1
      <4>3. PICK at \in {"text", "error"}, n \in Nat : Answer(at, n)
        BY <1>1, <2>4, <3>3 DEF LogsReadGz
      <4>4. reader' \in Readers /\ reader'.since = reader.since
        BY <1>4, <4>3
      <4> QED BY <4>2, <4>4 DEF ReaderInv, LogsReadBack
    <3> QED BY <3>2, <3>3
  <2> QED BY <2>1, <2>2, <2>3, <2>4 DEF Logs
<1>8. TypeOK'
  <2>1. ReadTypeOK'
    BY <1>3 DEF ReadInv
  <2> QED BY <1>0, <1>7, <2>1 DEF RawInv, TypeOK
<1>9. LogInv' /\ GzInv'
  BY <1>0 DEF RawInv, LogInv, GzInv, HasLog, Holds
<1>10. RingInv'
  BY <1>0 DEF RawInv, RingInv, Upto, LastOf
<1> QED BY <1>3, <1>7, <1>8, <1>9, <1>10 DEF RawInv

LEMMA RawStutter == RawInv /\ UNCHANGED vars => RawInv'
<1> SUFFICES ASSUME RawInv, UNCHANGED vars PROVE RawInv'
  OBVIOUS
<1>0. /\ UNCHANGED readVars /\ UNCHANGED <<config, stage, handled, ring, reader>>
      /\ UNCHANGED <<hasFile, inflight, ioError, failed, log>>
      /\ UNCHANGED <<plain, gz, copied>>
  BY DEF vars, rawVars, fileVars, gzVars
<1>1. ReadInv'
  BY <1>0, ReadersStutter DEF RawInv
<1>2. TypeOK'
  BY <1>0, <1>1 DEF RawInv, ReadInv, TypeOK
<1>3. LogInv' /\ GzInv'
  BY <1>0 DEF RawInv, LogInv, GzInv, HasLog, Holds
<1>4. RingInv'
  BY <1>0 DEF RawInv, RingInv, Upto, LastOf
<1>5. ReaderInv'
  BY <1>0 DEF RawInv, ReaderInv, LogsReadBack, Settled, Stands, HasLog
<1> QED BY <1>1, <1>2, <1>3, <1>4, <1>5 DEF RawInv

\* What every reachable state satisfies.
THEOREM RawOutputSafe == Spec => []RawInv
<1>1. RawInv /\ [Next]_vars => RawInv'
  BY StartKeeps, ReadingKeeps, LineHandled, WriteEnds, FinalizeKeeps, LogsKeeps,
     RawStutter DEF Next
<1> QED BY <1>1, RawInitHolds, PTL DEF Spec

\* Every variable of the raw output keeps its type.
THEOREM TypeCorrect == Spec => []TypeOK
<1>1. RawInv => TypeOK
  BY DEF RawInv
<1> QED BY <1>1, RawOutputSafe, PTL

\* A job's lines are those of its streams, with the log being written and
\* compressed around them (runtime/driver.rs, drive_job).
THEOREM JobLineForLine == Spec => []LineForLine
<1>1. RawInv => LineForLine
  BY ReadInvLines DEF RawInv
<1> QED BY <1>1, RawOutputSafe, PTL

\* The log lacks a line only when a write failed, and nothing is being written
\* when it is compressed (runtime/raw_output.rs; driver.rs, process_line).
THEOREM LogIsWhole == Spec => []RawOutputIsWhole
<1>1. RawInv => RawOutputIsWhole
  <2> SUFFICES ASSUME RawInv PROVE RawOutputIsWhole
    OBVIOUS
  <2>1. stage \in Stages \ {"reading", "flush"} => inflight = 0
    BY DEF RawInv, LogInv
  <2> QED BY <2>1 DEF RawInv, LogInv, RingInv, Upto, RawOutputIsWhole
<1> QED BY <1>1, RawOutputSafe, PTL

\* `execra logs` prints all a finished job's log has, and asked earlier no
\* less than the log had (execra-cli, main.rs, logs_command).
THEOREM LogsPrintTheLog == Spec => []LogsReadBack
<1>1. RawInv => LogsReadBack
  BY DEF RawInv, ReaderInv
<1> QED BY <1>1, RawOutputSafe, PTL
=============================================================================
