----------------------------- MODULE LineReaders -----------------------------
(***************************************************************************)
(* How drive_job (runtime/driver.rs) turns the two pipes of a program into *)
(* lines: a biased select! over next_line(stdout), next_line(stderr) and   *)
(* the exit. next_line gathers a line in a buffer of its own while the     *)
(* BufReader's position moves on; when another arm wins, the future is     *)
(* dropped and its buffer with it.                                         *)
(***************************************************************************)
EXTENDS Integers, Sequences

CONSTANTS
  MaxItems,    \* bound: what the program writes on both streams together
  ReadErrors   \* may reading a pipe fail?

ASSUME LineReadersAssumption == MaxItems \in Nat /\ ReadErrors \in BOOLEAN

Streams == {"stdout", "stderr"}

\* A stream is a sequence of newlines and of pieces of text without one.
Items == {"text", "nl"}

VARIABLES
  written,      \* written[s]: what was written on stream s
  open,         \* streams some process can still write to
  exited,       \* has the wait task sent the exit?
  pos,          \* pos[s]: items the BufReader of s has handed out
  start,        \* start[s]: where the current next_line future began
  done,         \* stdout_done, stderr_done
  childExited,  \* child_exited
  given         \* the lines given to process_line, as ranges of `written`

readVars == <<written, open, exited, pos, start, done, childExited, given>>
pipeVars == <<written, open, exited>>

Lines == [stream : Streams, from : Nat, to : Nat]

ReadTypeOK ==
  /\ written \in [Streams -> Seq(Items)]
  /\ open \in SUBSET Streams /\ done \in SUBSET Streams
  /\ exited \in BOOLEAN /\ childExited \in BOOLEAN
  /\ pos \in [Streams -> Nat] /\ start \in [Streams -> Nat]
  /\ given \in Seq(Lines)

ReadInit ==
  /\ written = [s \in Streams |-> <<>>] /\ open = Streams /\ exited = FALSE
  /\ pos = [s \in Streams |-> 0] /\ start = [s \in Streams |-> 0]
  /\ done = {} /\ childExited = FALSE /\ given = <<>>

-----------------------------------------------------------------------------
(* The program and its descendants, which may hold a pipe longer.          *)

Write(s, item) ==
  /\ s \in open
  /\ Len(written["stdout"]) + Len(written["stderr"]) < MaxItems
  /\ written' = [written EXCEPT ![s] = Append(@, item)]
  /\ UNCHANGED <<open, exited, pos, start, done, childExited, given>>

Close(s) ==
  /\ s \in open
  /\ open' = open \ {s}
  /\ UNCHANGED <<written, exited, pos, start, done, childExited, given>>

SendExit ==
  /\ ~exited
  /\ exited' = TRUE
  /\ UNCHANGED <<written, open, pos, start, done, childExited, given>>

Program ==
  \/ \E s \in Streams, item \in Items : Write(s, item)
  \/ \E s \in Streams : Close(s)
  \/ SendExit

-----------------------------------------------------------------------------
(* One poll of the select. The reactor may show an arm less than was       *)
(* written; an arm that stays pending has consumed what it was shown.      *)

NoNewline(s, v) ==
  /\ v \in pos[s]..Len(written[s])
  /\ \A i \in (pos[s] + 1)..v : written[s][i] # "nl"

Pends(s, v) == IF s \in done THEN v = pos[s] ELSE NoNewline(s, v)

\* Mutant: the arm consumes all it was shown along with its newline.
WholeChunk(s, v) ==
  /\ v \in (pos[s] + 1)..Len(written[s])
  /\ \E i \in (pos[s] + 1)..v : written[s][i] = "nl"

\* read_until stops at the first newline
ToNewline(s, v) ==
  /\ v \in (pos[s] + 1)..Len(written[s])
  /\ written[s][v] = "nl" /\ NoNewline(s, v - 1)

ToEnd(s, v) == s \notin open /\ v = Len(written[s]) /\ NoNewline(s, v)

\* next_line gives Some(Ok(..)), or None or an error, which end the stream.
Take(s, v) ==
  /\ s \notin done
  /\ \/ /\ ToNewline(s, v) \/ (ToEnd(s, v) /\ v > start[s])
        /\ given' = Append(given, [stream |-> s, from |-> start[s] + 1, to |-> v])
        /\ done' = done
     \/ /\ (ToEnd(s, v) /\ v = start[s]) \/ (ReadErrors /\ NoNewline(s, v))
        /\ done' = done \cup {s}
        /\ given' = given

At(out, err) == [s \in Streams |-> IF s = "stdout" THEN out ELSE err]

\* The loop goes round: every arm gets a new future.
Restart(out, err) == pos' = At(out, err) /\ start' = At(out, err)

Reading == ~(done = Streams /\ childExited)

StdoutWins ==
  /\ Reading
  /\ \E v \in 0..Len(written["stdout"]) :
       Take("stdout", v) /\ Restart(v, pos["stderr"])
  /\ UNCHANGED <<written, open, exited, childExited>>

StderrWins ==
  /\ Reading
  /\ \E o \in 0..Len(written["stdout"]), v \in 0..Len(written["stderr"]) :
       Pends("stdout", o) /\ Take("stderr", v) /\ Restart(o, v)
  /\ UNCHANGED <<written, open, exited, childExited>>

ExitWins ==
  /\ exited /\ ~childExited
  /\ \E o \in 0..Len(written["stdout"]), e \in 0..Len(written["stderr"]) :
       Pends("stdout", o) /\ Pends("stderr", e) /\ Restart(o, e)
  /\ childExited' = TRUE
  /\ UNCHANGED <<written, open, exited, done, given>>

AllPend ==
  /\ Reading
  /\ \E o \in 0..Len(written["stdout"]), e \in 0..Len(written["stderr"]) :
       Pends("stdout", o) /\ Pends("stderr", e) /\ pos' = At(o, e)
  /\ UNCHANGED <<written, open, exited, start, done, childExited, given>>

Poll == StdoutWins \/ StderrWins \/ ExitWins \/ AllPend

ReadNext == Program \/ Poll

ReadSpec == ReadInit /\ [][ReadNext]_readVars

-----------------------------------------------------------------------------
(* Properties.                                                             *)

\* The text of given[i] runs up to its newline, or to the end of its stream.
EndsALine(i) ==
  LET l == given[i] IN
  /\ 1 <= l.from /\ l.from <= l.to /\ l.to <= pos[l.stream]
  /\ \A n \in l.from..(l.to - 1) : written[l.stream][n] # "nl"
  /\ written[l.stream][l.to] = "nl"
       \/ (l.stream \notin open /\ l.to = Len(written[l.stream]))

\* Whatever the interleaving of the two streams, the exit and the futures
\* dropped half way, process_line gets the lines of a stream in their order,
\* each once, none joined to the next: every newline read has ended exactly
\* one line given, and a line given has no newline inside.
LineForLine ==
  /\ \A i \in DOMAIN given : EndsALine(i)
  /\ \A i, k \in DOMAIN given :
       i < k /\ given[i].stream = given[k].stream => given[i].to < given[k].from
  /\ \A s \in Streams : \A n \in 1..pos[s] : written[s][n] = "nl" =>
       \E i \in DOMAIN given : given[i].stream = s /\ given[i].to = n

\* INTERPRETER.md, "Called for each output line, in order": a line given
\* begins where the line begins. The code breaks this: what a dropped
\* next_line had gathered is gone, and the line comes without its beginning.
WholeLines ==
  \A i \in DOMAIN given :
    LET l == given[i]
    IN  l.from = 1 \/ written[l.stream][l.from - 1] = "nl"
=============================================================================
