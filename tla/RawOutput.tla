------------------------------ MODULE RawOutput ------------------------------
(***************************************************************************)
(* What becomes of a job's raw lines: RuntimeBuilder::build resolves the   *)
(* policy, open_raw_log and finalize_raw_log (runtime/raw_output.rs) open, *)
(* flush and compress the log, process_line (runtime/driver.rs) appends to *)
(* it, and `execra logs` (execra-cli) reads it from another process. The   *)
(* lines come from LineReaders. A tokio File hands a write to a background *)
(* thread and reports its failure on the next call.                        *)
(***************************************************************************)
EXTENDS LineReaders

CONSTANTS
  RingCapacity,   \* MEMORY_RAW_CAPACITY (1024)
  DiskFails       \* may an operation on the disk fail?

ASSUME RawOutputAssumption == RingCapacity \in Nat \ {0} /\ DiskFails \in BOOLEAN

Policies == {"Persist", "PersistGzipOnFinalize", "MemoryOnly", "Disabled"}

VARIABLES
  config,     \* the resolved RuntimeConfig
  stage,      \* where drive_job stands, as far as the raw output goes
  hasFile,    \* raw_file is Some
  handled,    \* lines of `given` whose raw output process_line has dealt with
  inflight,   \* the line the background write is busy with, 0 for none
  ioError,    \* the last background write failed, not reported yet
  failed,     \* lines whose background write failed
  plain,      \* is <id>.log in the directory?
  log,        \* what it holds: positions in `given`
  gz,         \* <id>.log.gz: absent, partial or whole
  copied,     \* what a whole <id>.log.gz decodes to
  ring,       \* the lines memory_raw keeps
  reader      \* one invocation of `execra logs`

fileVars == <<hasFile, inflight, ioError, failed, log>>
gzVars == <<plain, gz, copied>>
rawVars == <<config, stage, handled, ring, fileVars, gzVars, reader>>
vars == <<readVars, rawVars>>

Stages == {"queued", "reading", "flush", "open", "create", "copy", "remove",
           "emit", "finalized", "dead"}
NoReader == [at |-> "idle", since |-> "", floor |-> 0, got |-> 0]
Readers == [at : {"idle", "plain", "compressed", "gz", "text", "error", "none"},
            since : {"", "before", "open", "settled"}, floor : Nat, got : Nat]

TypeOK ==
  /\ ReadTypeOK
  /\ config \in [policy : Policies, dir : BOOLEAN] /\ stage \in Stages
  /\ hasFile \in BOOLEAN /\ ioError \in BOOLEAN /\ plain \in BOOLEAN
  /\ handled \in Nat /\ inflight \in Nat /\ failed \in SUBSET Nat
  /\ log \in Seq(Nat) /\ copied \in Seq(Nat) /\ ring \in Seq(Nat)
  /\ gz \in {"absent", "partial", "whole"}
  /\ reader \in Readers

\* RuntimeBuilder::build: a directory alone asks for Persist.
Resolve(asked, dir) ==
  CASE asked # "unset" -> asked
    [] asked = "unset" /\ dir -> "Persist"
    [] OTHER -> "Disabled"

Init ==
  /\ ReadInit
  /\ \E asked \in Policies \cup {"unset"}, dir \in BOOLEAN :
       config = [policy |-> Resolve(asked, dir), dir |-> dir]
  /\ stage = "queued" /\ hasFile = FALSE /\ handled = 0
  /\ inflight = 0 /\ ioError = FALSE /\ failed = {}
  /\ plain = FALSE /\ log = <<>> /\ gz = "absent" /\ copied = <<>>
  /\ ring = <<>> /\ reader = NoReader

-----------------------------------------------------------------------------
(* The driver.                                                             *)

Persists == config.dir /\ config.policy \in {"Persist", "PersistGzipOnFinalize"}

Go(to) == stage' = to

\* open_raw_log; a directory or a file that cannot be made means no log. Then
\* the child is spawned, or cannot be.
Start ==
  /\ stage = "queued"
  /\ \E opened \in IF DiskFails THEN BOOLEAN ELSE {TRUE} :
       /\ hasFile' = (Persists /\ opened)
       /\ plain' = (Persists /\ opened)
  /\ Go("reading") \/ Go("flush")
  /\ UNCHANGED <<readVars, config, handled, inflight, ioError, failed, log,
                 gz, copied, ring, reader>>

Idle == handled = Len(given)

\* Everything is read: on_exit, the outcome and its row come first.
ReadLines ==
  /\ stage = "reading" /\ Idle
  /\ Poll
  /\ stage' = IF done' = Streams /\ childExited' THEN "flush" ELSE "reading"
  /\ UNCHANGED <<config, handled, ring, fileVars, gzVars, reader>>

RunProgram ==
  /\ stage = "reading"
  /\ Program
  /\ UNCHANGED rawVars

\* write_all, its result ignored: it waits for the write before this one, and
\* returns that one's error instead of writing.
WriteAll ==
  IF ioError
  THEN ioError' = FALSE /\ UNCHANGED <<hasFile, inflight, failed, log>>
  ELSE inflight' = handled + 1 /\ UNCHANGED <<hasFile, ioError, failed, log>>

LastOf(s, n) == IF Len(s) > n THEN SubSeq(s, Len(s) - n + 1, Len(s)) ELSE s

\* process_line, up to the OutputAppended it sends
ProcessLine ==
  /\ stage = "reading" /\ ~Idle
  /\ inflight = 0
  /\ IF hasFile THEN WriteAll ELSE UNCHANGED fileVars
  /\ ring' = IF config.policy = "MemoryOnly"
             THEN LastOf(Append(ring, handled + 1), RingCapacity) ELSE ring
  /\ handled' = handled + 1
  /\ UNCHANGED <<readVars, config, stage, gzVars, reader>>

\* tokio's blocking thread
WriteDone ==
  /\ inflight # 0 /\ stage # "dead"
  /\ inflight' = 0
  /\ \/ log' = Append(log, inflight) /\ UNCHANGED <<ioError, failed>>
     \/ /\ DiskFails
        /\ ioError' = TRUE /\ failed' = failed \cup {inflight}
        /\ log' = log
  /\ UNCHANGED <<readVars, config, stage, hasFile, handled, gzVars, ring, reader>>

-----------------------------------------------------------------------------
(* finalize_raw_log: each step may fail, and the next ones are left out.   *)

Compresses == config.dir /\ config.policy = "PersistGzipOnFinalize"

\* Mutant: the file is dropped without a flush.
DropFile ==
  /\ stage = "flush"
  /\ hasFile' = FALSE
  /\ Go(IF Compresses THEN "open" ELSE "emit")
  /\ UNCHANGED <<readVars, config, handled, inflight, ioError, failed, log,
                 gzVars, ring, reader>>

FlushAndDrop ==
  /\ stage = "flush"
  /\ inflight = 0
  /\ ioError' = FALSE /\ hasFile' = FALSE
  /\ Go(IF Compresses THEN "open" ELSE "emit")
  /\ UNCHANGED <<readVars, config, handled, inflight, failed, log, gzVars, ring,
                 reader>>

OpenPlain ==
  /\ stage = "open"
  /\ \/ plain /\ Go("create")
     \/ (~plain \/ DiskFails) /\ Go("emit")
  /\ UNCHANGED <<readVars, config, handled, ring, fileVars, gzVars, reader>>

CreateGz ==
  /\ stage = "create"
  /\ \/ gz' = "partial" /\ Go("copy")
     \/ DiskFails /\ gz' = gz /\ Go("emit")
  /\ UNCHANGED <<readVars, config, handled, ring, fileVars, plain, copied, reader>>

\* Mutant: the log is removed before the encoder has finished.
CopyAndRemove ==
  /\ stage = "copy"
  /\ \/ plain' = FALSE /\ Go("remove")
     \/ DiskFails /\ plain' = plain /\ Go("emit")
  /\ UNCHANGED <<readVars, config, handled, ring, fileVars, gz, copied, reader>>

\* io::copy and encoder.finish
CopyAndFinish ==
  /\ stage = "copy"
  /\ \/ gz' = "whole" /\ copied' = log /\ Go("remove")
     \/ DiskFails /\ UNCHANGED <<gz, copied>> /\ Go("emit")
  /\ UNCHANGED <<readVars, config, handled, ring, fileVars, plain, reader>>

RemovePlain ==
  /\ stage = "remove"
  /\ plain' \in IF DiskFails THEN BOOLEAN ELSE {FALSE}
  /\ Go("emit")
  /\ UNCHANGED <<readVars, config, handled, ring, fileVars, gz, copied, reader>>

Emit ==
  /\ stage = "emit" /\ Go("finalized")
  /\ UNCHANGED <<readVars, config, handled, ring, fileVars, gzVars, reader>>

\* The host process dies, and its threads with it.
Die ==
  /\ stage \notin {"finalized", "dead"}
  /\ Go("dead") /\ inflight' = 0
  /\ UNCHANGED <<readVars, config, hasFile, handled, ioError, failed, log, gzVars,
                 ring, reader>>

-----------------------------------------------------------------------------
(* `execra logs`, in another process.                                      *)

Settled == stage \in {"finalized", "dead"}
Stands == plain \/ gz = "whole"

Answer(at, n) == reader' = [reader EXCEPT !.at = at, !.got = n]
LogsOnly == UNCHANGED <<readVars, config, stage, handled, ring, fileVars, gzVars>>

\* plain.exists()
LogsStart ==
  /\ reader.at = "idle"
  /\ reader' = [at |-> IF plain THEN "plain" ELSE "compressed",
                since |-> CASE Settled -> "settled"
                            [] ~Settled /\ Stands -> "open"
                            [] OTHER -> "before",
                floor |-> Len(log), got |-> 0]
  /\ LogsOnly

\* read_to_string(plain)
LogsReadPlain ==
  /\ reader.at = "plain"
  /\ IF plain THEN Answer("text", Len(log)) ELSE Answer("error", 0)
  /\ LogsOnly

\* gz.exists()
LogsLookGz ==
  /\ reader.at = "compressed"
  /\ Answer(IF gz = "absent" THEN "none" ELSE "gz", 0)
  /\ LogsOnly

\* A partial file ends too soon for the decoder; one that an error cut short
\* is still finished when its encoder is dropped.
LogsReadGz ==
  /\ reader.at = "gz"
  /\ \/ gz = "whole" /\ Answer("text", Len(copied))
     \/ /\ gz = "partial"
        /\ Answer("error", 0) \/ \E n \in 0..Len(log) : Answer("text", n)
  /\ LogsOnly

Logs == LogsStart \/ LogsReadPlain \/ LogsLookGz \/ LogsReadGz

Finalize == FlushAndDrop \/ OpenPlain \/ CreateGz \/ CopyAndFinish \/ RemovePlain
              \/ Emit

Next == Start \/ RunProgram \/ ReadLines \/ ProcessLine \/ WriteDone \/ Finalize
          \/ Die \/ Logs

Spec == Init /\ [][Next]_vars

-----------------------------------------------------------------------------
(* Properties.                                                             *)

HasLog == plain \/ gz # "absent"
Holds(k) == \E i \in DOMAIN log : log[i] = k

\* config.rs, "Append every line to <log_dir>/<job_id>.log as the job runs"
\* and "Keep the last 1024 lines". The log has the lines in the order given.
\* Once process_line is done with a line it is written or being written, but
\* for two: a line whose write failed, and the line after it, which is dropped
\* unwritten when it is told of the failure. No write is under way any more
\* when the log is compressed or the job finalized.
RawOutputIsWhole ==
  /\ \A i, k \in DOMAIN log : i < k => log[i] < log[k]
  /\ HasLog /\ stage # "dead" => \A k \in 1..handled :
       (Holds(k) \/ k = inflight) <=> (k \notin failed /\ k - 1 \notin failed)
  /\ stage \in Stages \ {"reading", "flush"} => inflight = 0
  /\ config.policy = "MemoryOnly" =>
       ring = LastOf([k \in 1..handled |-> k], RingCapacity)

\* `execra logs` on a job that is over, finalized or left by a host that died
\* at any point, prints all its log has. Asked while the job runs, it may be
\* overtaken by the compression and fail, and then the compressed log is
\* whole; it never says there is none, and prints no less than the log had.
LogsReadBack ==
  /\ reader.since = "settled" /\ HasLog =>
       /\ reader.at \notin {"error", "none"}
       /\ reader.at = "text" => reader.got = Len(log)
  /\ reader.since = "open" =>
       /\ reader.at # "none"
       /\ reader.at = "error" => gz = "whole"
       /\ reader.at = "text" => reader.got >= reader.floor
=============================================================================
