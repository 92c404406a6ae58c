# Verification of Execra

Execra (`src/`) is a Rust crate that runs external programs as *jobs*: a
`Runtime` starts each program in its own process group, reads its output line
by line, lets an *interpreter* turn lines into phases, progress, findings and
errors, publishes everything as events, keeps a snapshot of every job, may
persist jobs and events in SQLite, and settles each job on one `Outcome`.
This directory holds TLA+ models of it, the TLC configurations that check them
on small instances, and proofs for TLAPS.

## 1. The system

| Component | Code | State it keeps | Operations |
|---|---|---|---|
| Job lifecycle | `runtime.rs`, `runtime/driver.rs`, `runtime/handle.rs` | job map, snapshots, semaphore permits, cancel tokens, the outcome oneshot; per job the driver's locals (`stdout_done`, `stderr_done`, `child_exited`, `timed_out`) | `spawn`, `cancel`, `job`, `recent`, `running`, awaiting a handle; `drive_job` |
| Wait task | `runtime/wait.rs` | position in its `select!`, the oneshot to the driver | waits for exit, cancellation or timeout; SIGTERM, grace period, SIGKILL |
| Process group | `proc_group.rs` | pgid, or a Job Object handle | `assign`, `terminate`, `kill`, drop |
| Interpreter host | `runtime/driver.rs` 235-578, `interpreter.rs` | `DriverState`: phase stack, findings, summary, known error, disabled flag | `process_line`, `apply_events`, `run_on_exit`, `exit_open_phases`, `compute_outcome` |
| Rule interpreter | `interpret.rs`, `progress.rs` | current phase, notes buffer, last stderr line, whether a known error was emitted | `on_line`, `on_exit` |
| Store | `store.rs` | tables `jobs`, `events`, `findings` | `upsert_job`, `insert_event`, `load_job`, `list_jobs`, `list_events`, `resurrect_stranded_jobs` |
| Builder | `runtime/builder.rs`, `runtime/config.rs` | - | `build`: open the store, resurrect, load history |
| Event stream | `runtime/stream.rs` | a receiver of the broadcast channel (1024 slots) and a job filter | `next`, `poll_next` |
| Tauri forwarder | `tauri.rs` | a `CreepState` and a stream | `forward_events`, `into_future` |
| Queries | `runtime/query.rs`, `store.rs` 197-270 | a filter | `JobsQuery::run` |
| Line readers | `runtime/driver.rs` 158-192, 580-603 | the position of each `BufReader`, the buffer of a pending `next_line` | the `select!` loop over stdout, stderr and the exit |
| Raw output | `runtime/raw_output.rs`, `runtime/driver.rs` 254-275 | a log file with at most one background write, or 1024 lines in memory | open, append, flush, compress by policy |
| Command line | `execra-cli/src/main.rs` | `finalized_seen` | `run`: print events until the outcome; `logs`: read a log back; `ls`, `tail` |
| Command builder, data types | `command.rs`, `finding.rs`, `phase.rs`, `event.rs` | - | construction, serialisation |

**Interaction.** `spawn` runs on the caller's thread: it writes the first row,
puts the snapshot in the map, broadcasts `JobCreated` and starts the driver as
a task. The driver takes a permit, starts the program and the wait task, and
then waits for three independent things: EOF of stdout, EOF of stderr, and the
oneshot from the wait task. Driver and wait task both *emit* events, which is
a broadcast followed by an insert into the store, without a common lock. The
cancel token goes from any thread to the wait task, and is read once more by
the driver when it computes the outcome. Snapshots are shared under a mutex.
The store is shared by all tasks, and by every process that opens the file.

**What is hard.** The driver, the wait task, cancelling threads, the job's
processes and the operating system interleave freely; exit, EOF, cancellation
and timeout arrive in any order; processes fork and keep pipes open after the
leader is gone; reading a pipe, waiting for the child and writing to the store
may fail, and the code goes on; a process that dies leaves rows of unfinished
jobs behind; a subscriber that is slow loses events; a line half read is
dropped with its future; a log is written in the background, compressed in
steps and read by another process meanwhile. `PROJECT.json` lists each of these
at its line, with the properties that cover it.

**What makes each component correct.** Lifecycle: events in order, each once;
outcome, snapshot, row and event agree; permits conserved; every job
finalizes. Wait task and group: the announced cancellation decides the
outcome; a timeout leaves nothing behind. Interpreter host: phases on the bus
are well bracketed whatever the interpreter returns; findings in the outcome
are those broadcast; a panic silences it. Rule interpreter: no notes line is
lost, a failure is explained as configured. Store: a final row stays final;
history after a restart holds finished jobs only. Stream and forwarder: a
filter drops nothing of its job but what lag drops; forwarding ends. Line
readers: each line once, in order, complete. Raw output: the log is the lines
handled, and compression never leaves less than it found. `execra run`: the
outcome is told once, and last.

## 2. Modules

| Module | Content |
|---|---|
| `JobSpec` | abstract: the states of a job, the limit, the outcome and the order in which it becomes visible |
| `JobRuntime` | detailed: `spawn`, `cancel`, driver task, wait task, process group, processes and pipes |
| `JobRuntimeInv` | the inductive invariant of `JobRuntime` |
| `JobRuntimeProofs` | its proof and the safety theorems that follow |
| `JobRefinement` | proof that `JobRuntime` implements `JobSpec` |
| `InterpreterHost` | the part of the driver that hosts an interpreter, under an interpreter that returns anything or panics |
| `InterpreterHostProofs` | its inductive invariant, the proof, and the safety theorems |
| `RuleInterpreter` | `interpret.rs`: `on_line`, `flush_notes`, `on_exit` as operators on the interpreter's own variables |
| `HostedRules` | `InterpreterHost` and `RuleInterpreter` composed: what the interpreter returns is what the driver applies |
| `HostedRulesProofs` | the invariants of the phases and of the bar, the proofs, and two safety theorems |
| `VerdictProofs` | extends `HostedRulesProofs`: the invariants of notes and errors, the proofs, two safety theorems, and the proof that the two composed implement `InterpreterHost` |
| `JobHistory` | the job table over several lives of a host process, and the queries on it |
| `JobHistoryProofs` | its inductive invariant, the proof, and the safety theorems |
| `LineReaders` | the two pipes, the `BufReader`s and the biased `select!`, item by item |
| `RawOutput` | extends `LineReaders`: what becomes of the lines: the log, its compression, `execra logs` |
| `OutputProofs` | the inductive invariants of both, the proofs, and the safety theorems |
| `EventChannel` | the bounded channel, its senders, one job's `EventStream` and the outcome |
| `EventForwarding` | extends `EventChannel`: the Tauri forwarder and the caller that awaits |
| `CommandRun` | extends `EventChannel`: `execra run` |
| `EventConsumers` | the two composed: a job with one client, an awaited task, a spawned task or the command line |
| `EventProofs` | its two inductive invariants, the proofs, and the safety theorems |
| `MCJobRuntime`, `MCInterpreterHost`, `MCHostedRules`, `MCJobHistory`, `MCEventConsumers` | the instances TLC checks; `LineReaders` and `RawOutput` need none |

### How state and actions correspond to the code

**JobRuntime.** `pc[j]` is where the spawning call and then `drive_job` stand,
`wpc[j]` where the wait task stands. A step is the code between two points at
which someone else can intervene: an await, a lock released, a message sent, a
row written. `emit` is therefore two actions (`AnnounceStarted`, `LogStarted`),
and an `update_snapshot` followed by `persist_snapshot` two more
(`MarkExited`, `SaveExited`). `snapshot` is the job map with the snapshots in
it, `row` and `log` the job's row and stored events, `promise` the outcome
oneshot, `exitRx` and `waitStatus` what the wait task sent: how the wait ended
and with which status. `verdict`, `eof` and `childExited` are locals of
`drive_job`. `token` is the cancel token;
`canceller` is a thread that has passed the state check in `cancel` and has
not set the token yet. `proc`, `status`, `holds`, `doomed`, `group` and `pipe`
are the operating system's part and are marked external: a leader and at most
one descendant, each with the write ends it holds, and lines in two pipes.
A read that fails (`ReadFails`) ends its stream as EOF does, whatever is still
in the pipe; `broken` are the streams ended so. A `child.wait()` that fails
(`WaitFails`) is sent on as an exit without status, the leader dead or alive;
such a child was never reaped, and dropping it with the wait task kills it
(`kill_on_drop`, in `CloseGroup`).

The `select!` loop is biased, but a branch is ready only after its waker ran,
so when several branches could be taken the model takes any of them.

**InterpreterHost.** One job, from its first line to its outcome. `stack`,
`findings`, `summary`, `knownError` and `disabled` are the fields of
`DriverState`; `current`, `progress` and `label` are the fields of the
snapshot it writes. `ProcessLine` and `FinishReading` lead to a call, which
either returns any member of `Replies` or panics. `apply_events` is one action
per event kind, each followed by `Emit`, because the code updates the snapshot
under its lock and broadcasts after releasing it. A job with no interpreter is
a job whose `disabled` flag is set at the start. Prompts, warnings and the
rest keep their own actions although they change nothing but the bus.

**RuleInterpreter, HostedRules.** A line is a text and a stream. `Shape` says
what the code's own tests see in a text (blank, separator, trigger, "failed"),
`Match` which rule the table applies and what the rule's template yields, so a
regular expression is its result. Byte progress keeps the code's arithmetic on
the slice of the current phase. A finding's body is the sequence of its lines.
`HostedRules` takes the driver's actions from `InterpreterHost` but not its
constants `Replies` and `Bodies`, which its instance leaves empty: a reply is
what `OnLine` or `OnExit` returns. That these are replies `InterpreterHost`
allows is the theorem `RulesAreHosted`.

**JobHistory.** `rows` is the table, `memory` the job map of each process,
`unsaved` the jobs whose snapshot is ahead of the row, `created` the order of
`created_at_ms`. The three calls of `build` are three actions, since they are
three transactions, and `Die` may fall between any two steps. A query is a
record; `Matches` is `JobsQuery::matches` and `Where` the SQL, with times cut
to milliseconds and the tag compared by `LIKE`. Two jobs share each
millisecond, so the cut matters. With `StoreFaults` the write of a row may fail
and the driver goes on, as `let _ = store.upsert_job(..)` does; `missed` are
the jobs whose last write failed. `spawn` is the exception: without its row
there is no job. What `LIKE` accepts is a constant here, of which the module
assumes only that a tag without backslash and control characters (`PlainTags`)
matches itself. `MCJobHistory` computes it: a tag is a sequence of characters,
`TagsJson` what serde_json makes of it in the row, `Pattern` what the query
makes of it. A control character is escaped by the one and not by the other as
a backslash is, which stands for both.

**LineReaders.** A stream is a sequence of newlines and of pieces of text
without one. `pos` is how much the `BufReader` has handed out, `start` where
the `next_line` future at work began, so what lies between is in the buffer of
that future. `Poll` is one poll of the `select!`: an arm that wins restarts all
three futures, which moves every `start` to its `pos`; an arm that stays
pending keeps what it was shown. The reactor may show less than was written.
`given` are the lines passed on, as ranges of what was written.

**RawOutput.** `stage` is where the driver stands from opening the log to
`Finalized`; `ReadLines` is a poll of `LineReaders` and `ProcessLine` the call
that follows when it gave a line. `inflight` is the one write tokio's `File`
runs in the background, `ioError` the error it keeps for the next call.
Compression is one action per system call that may fail, since another process
may read, or the host die, between any two. `reader` is `execra logs`:
`plain.exists()`, then the read, or `gz.exists()`, then the read. A line is one
write that happens or does not; a failed write leaves nothing in the file.

**EventChannel, EventForwarding, CommandRun, EventConsumers.** `sent` is what
went through the broadcast channel, `rx` the receiver's position; whatever is
more than `Capacity` behind the end has been overwritten and is skipped
(`SkipLag`). A job has one receiver here, so `client` says whose it is.
Progress values are in half percents, so that a tick may or may not change the
whole percent `new * 100.0` rounds to; the cap at 95 % of a slice is rounded
down to that unit. `apc` is the caller, which awaits the handle and then the
forwarder, as `into_future` does, or is absent for a task that was spawned. In
`CommandRun` the `select!` is unbiased: outcome and next event are two actions
without an order.

**JobSpec.** A job is absent, queued, running, exited or finalized; at most
`Limit` jobs hold a slot; a job settles on one outcome, then the outcome is
reported, then delivered; no outcome is `Cancelled` without a request. The
refinement mapping is at the end of `JobRuntime`.

## 3. Plan

Done, in this order, the most important behaviour first: `JobSpec`,
`JobRuntime`, its invariant and proof, the refinement; `InterpreterHost` and
its proof; `RuleInterpreter` inside it, and the proof of the two, up to what of
the lines reaches the outcome, and that the two are an instance of the host;
`JobHistory` and its proof; the channel with the forwarder and the command
line, and their proof; the line readers and raw output, and their proof.

Left, in this order:

1. *Events and findings tables.* What `list_events` returns with a limit, and
   how the findings of a final row relate to the row.
2. *The end of a runtime.* A runtime dropped while jobs run, and a second
   subscriber that comes late.
3. *A second refinement.* The store half of `JobHistory` as an abstract
   specification that `JobRuntime` refines.

## 4. Runs

| Run | Question | Distinct states |
|---|---|---|
| `OneJob` | One timed job on Unix; its program forks, writes, closes pipes and exits in every order while a client cancels, and every store write may fail. The inductive invariant itself; is the order of events kept on the bus and in the store, is a row never ahead, does an announced cancellation decide, does a timeout kill the group, do cancellation and timeout finalize a job whose program never ends? | 523,552 |
| `WindowsJob` | The same in a Job Object whose assignment may fail, and where reading a pipe and `child.wait()` may fail. Does closing the object leave nothing of the group, is all that can be read and reaped read and reaped before the verdict, is a final result visible everywhere it is announced, and do cancellation and timeout finalize? | 546,424 |
| `TwoJobs` | Two jobs, one permit, and a `child.wait()` that may fail. Permits on every path, the limit, the refinement of `JobSpec`; does every accepted job finalize if programs end, and do all jobs once all are cancelled, even the queued ones and even if no program ends? | 264,960 |
| `InterpreterHost` | An interpreter that returns any event, in any order, or panics. Are phases bracketed, closed at the end, and do bus, snapshot and outcome agree? | 2,227,274 |
| `HostedRules` | The rule interpreter in the driver on every program of up to four lines. Are notes whole, is the failure explained as configured, are phases flat, does the bar stay in its slice? | 1,361,944 |
| `JobHistory` | One process at a time, which may die anywhere and whose row writes may fail. Is the history true after the next `build`, does a delivered outcome survive, does a query find every job that matches? | 887,893 |
| `EventConsumers` | A job with one client on a channel that can overtake it: a forwarder with synthetic progress and observers that panic, awaited or left to itself, or `execra run`. What do they see, and do they return? | 380,613 |
| `RawOutput` | A job under each policy, a disk that fails at any call, a host that dies at any point, and `execra logs` at any time. Is every line handled once, is the log whole, is it read back? | 3,549,138 |
| `TornLine` | finding, see section 7 | |
| `LateOutput` | finding | |
| `SurvivingKin` | finding | |
| `TwoHosts` | finding | |

### Bounds, and why they are enough

- *Jobs.* Jobs share nothing but the permits and the store's table. One job
  shows all that happens within a job; two jobs and one permit show waiting.
  What more jobs change (the count of permits) is proved for any number.
- *Lines.* In `JobRuntime` a line is atomic and one line per stream is enough
  to be read before or after the exit, by leader or descendant; any number is
  proved. `RawOutput` reads three items, so that a line of one stream is torn
  by a line of the other, and a ring of one line loses one; `TornLine` shows it
  with four at most. `InterpreterHost` needs two lines because a reply has at
  most two events: three phases can then be open, closed and reopened, with the
  reply of `on_exit`.
- *Rules.* The table has a rule of every kind. Ten lines take every way the
  code branches: trigger, separator, blank, "failed", stderr, and matches of
  two phase rules, a byte count, a known error, a benign and a progress rule.
  No line matches the warning or the summary: like the progress rule they only
  report one event, in arms of the same shape, and two more lines would more
  than double the run. Four lines are a block with a body and something before
  or after it.
- *History.* Three jobs with `LoadLimit` 1 leave jobs that are in the table but
  not in memory; three opens are a crash, a crash during recovery and a
  recovery. Of the tags two differ in case, which `LIKE` does not see, one has
  a quote, which row and pattern both escape, and one a backslash, which the
  row escapes and the pattern does not.
- *Faults.* `OneJob` has store writes that fail, `WindowsJob` reads and waits,
  `TwoJobs` waits. `RuntimeInv` is proved for any combination.
- *Channel.* `Capacity` 1 is the smallest channel, where every burst overtakes
  the receiver; the code's 1024 differs only in how long the burst must be, and
  the properties proved hold of every capacity. Five events are `JobCreated`, a
  phase, an event of another job and `Finalized`. One phase has a slice of 2.5
  percent, long enough for two synthetic values, and one a slice given
  backwards, which arms nothing.

Deadlock is checked except in `EventConsumers`, `RawOutput` and `TornLine`,
where a client that has returned or a log that has been read is the end of the
system. Elsewhere the end is a named stutter (`Quiescent`, `Judged`, `Over`)
whose guard says which states may be the last ones, so a deadlock anywhere else
is an error.

Every property of a passing run has a mutant: a change of one mapped
definition, of the kind a slip of the programmer would be, under which TLC
finds the property violated. The mutants stand beside the definitions they
alter and no action uses them.

## 5. Fairness

`FairSpec` of `JobRuntime` assumes that tokio polls every task that can make
progress, that its timers fire, that a thread inside `spawn` or `cancel`
returns, and that a process with a fatal signal pending dies. Weak fairness per
job is enough: a driver's or wait task's step, once enabled, stays enabled or
gives way to another step of the same task. The exception is `AcquirePermit`,
which another job can disable; but a job is submitted once, so no job can be
passed over for ever, and tokio's semaphore is FIFO anyway. Nothing is assumed
of clients, of programs or of faults (`FaultStep`), so a read or a wait never
has to fail: `CancelFinalizes` and `TimeoutFinalizes` hold for
programs that never end. Only `JobsFinalize` assumes that every process exits,
as its hypothesis `ProgramsEnd`. All of them except a job with a descendant out
of reach (`Escaped`): one outside the group, or one left when the leader's exit
had already ended the wait task. No signal will reach it, it may keep a pipe
open, and the driver waits for EOF.

`EventConsumers` assumes that the driver, the forwarder, the caller and the
command line are polled. Ticks are not fair, and a tick cannot starve the
stream because the forwarder's `select!` is biased to the stream. Events are
not fair either: `ClientsReturn` starts where the outcome has been sent. An
observer's callback returns or panics; one that blocks holds up its forwarder
and whoever awaits it.

`InterpreterHost`, `HostedRules` and `JobHistory` are checked for safety only:
the first two are sequential code that terminates, in the third a process may
die for good. So is `RawOutput`, where the disk and the host may fail at any
step.

## 6. What is proved

TLAPS checks every proof below for all values of the constants.

**JobRuntime** (`JobRuntimeProofs`, from `RuntimeAssumption`). The properties
are not inductive: that `Finalized` on the bus implies a final snapshot, say,
depends on where the driver stands. `RuntimeInv` therefore says, for each point
of the driver and of the wait task, what the snapshot, the bus, the store and
the processes look like there: `SnapshotInv`, `WaitInv`, `StreamInv`,
`StoreInv` and `ProcessInv`. The proof goes action by action; a step of one job
leaves the others `Untouched`, which reduces the invariant of the others to one
lemma. `PermitConservation` needs that a driver enters and leaves the set
`Holders` only where it takes or returns a permit, and cardinality lemmas for
adding and removing one element. From `RuntimeInv` follow `TypeCorrect`,
`PermitsConserved`, `StreamsOrdered`, `HistoryOrdered`, `FinalVisible`,
`CancelDecides`, `Drained`, `TimeoutKills`, `NoneLeft`, `RowBehind` and
`ConcurrencyBounded`.

The heart of `CancelDecides`: `Cancelled` is broadcast only by a wait task
that saw the token, the token is never reset, and the driver cannot compute an
outcome before that wait task has sent the exit, hence not before it left its
`select!`. So the driver's later reading of the token agrees.

**Refinement** (`JobRefinement`). `JobRuntime` implements `JobSpec`: the
initial states map to initial states, and under `RuntimeInv` each action maps
to the abstract action of its name or to a stutter.

**InterpreterHost** (`InterpreterHostProofs`, from `HostAssumption`). `HostInv`
says that what has been announced fixes the rest: the open phases on the bus
are exactly those on the stack, in that order; the snapshot's progress and
label are the latest announced; the driver's findings list those announced and
its known error is the latest (`ToldInv`); the outcome is the one computed from
these, and nothing moves afterwards (`VerdictInv`); and after an announced
panic the interpreter is disabled and has no reply pending. Lemmas say what
appending one event does to the phases open, to the latest text of a kind, to
bracketing and to a list of texts. That a list holds the texts at some
positions in order is stated by an increasing map from the list onto the
positions (`InOrder`, `Listed`), which one more element extends by one: a
filter of the sequence would need induction over its length. Theorems:
`InvariantHolds`, `TypeCorrect`, `PhasesBracketed`, `AllPhasesClosed`,
`SnapshotFollows`, `PanicIsFinal`, `OutcomeAgrees`. `Replies` is any set of
sequences of events, so they hold of every interpreter.

**HostedRules** (`HostedRulesProofs`, from `RuleAssumption`). A reply of the
rule interpreter moves from one phase to the next at most once, the exit before
the entry. `FlatInv` says so of what is left of the reply being applied
(`Tidy`), and that it leads from the driver's stack to the interpreter's
`current_phase` (`Leads`); hence the stack never holds two phases and no pop is
rejected. `SliceInv` adds which phase the stream of events shows to be open,
and for each progress event still to be applied that it is either in the slice
of the phase the reply leads to, with no move after it, or comes while no phase
is open (`Placed`); the arithmetic is the lemma that a ratio of 0 to 100 % of a
slice's width stays within the width. `RuleAssumption` takes from `PhaseModel`
that slices lie in the bar and are not given backwards, and from the rule table
that a `progress` rule has no fraction and that templates yield texts.
Theorems: `FlatPhases`, `BarInSlice`, for every table, phase model,
configuration and output.

**HostedRules, the verdict** (`VerdictProofs`, from `RuleAssumption` and
`HostAssumption`). That the outcome tells the notes and the error of the lines
heard is true only at the end; in between a part of it is in the interpreter's
fields, a part in the reply the driver is applying and a part in the driver's
own. `ReplyInv` says where each may be: a finding stands only first in a reply,
and nothing of a reply is left while the driver reads, closes or judges.
`NotesInv` says that the interpreter is in a block exactly when the lines say
so, that the buffer then holds the lines kept by the one block that is open,
and that the driver's findings, with the one still in the reply, are those of
the other blocks. `ErrorInv` gives each field its reading in the lines heard,
`emitted_known_error`, `fallback_error` and `last_stderr`, and says that the
driver's known error, once the reply is applied, is the last of the rules'
errors, or after the exit the explanation itself. Here it is needed that "none"
is not a text: an empty fallback and one whose text is "none" would look alike.
Theorems: `NotesWhole`, `ErrorExplained`.

**The composition is an instance of the host** (`VerdictProofs`, same
assumptions). `Hosting` is `InterpreterHost` with the events of the rule
interpreter (`RuleEvents`) for replies and sequences of texts for findings. The
lemmas `LineAnswer` and `ExitAnswer` say that a reply consists of such events:
borders of slices and scaled byte ratios are numbers, which needs `SliceInv`,
the buffer is a sequence of texts, which needs `ReplyInv`, and a synthesized
error is a text of a line heard, which needs `ErrorInv`. `RulesAreHosted` is
the refinement; through it `RulesKeepHost` has what `InterpreterHostProofs`
proves of every interpreter: types, brackets, closed phases, current snapshot,
and the outcome that agrees with the events.

**JobHistory** (`JobHistoryProofs`, from `HistoryAssumption` and `Exclusive`).
`StoreInv` says that at most one process is up; that the row of a driven job is
its snapshot, or is unfinished when the last write is due or has failed; that
after the sweep an unfinished row belongs to a driven job or to one that is
`Lost`: its driver told the outcome and is gone, memory has the final snapshot,
and the last write of the row failed; and that a delivered outcome is in the
row, unless that write failed. Theorems: `StoreInvariant`, `HistoryHolds`,
`DeliveredHolds`, `FinalRows`, `TypeCorrect`; `WorkingStore`, that without
`StoreFaults` no row is missed, so that the exceptions of the former are empty;
and, for a finite set of jobs, `QueriesWiden`: for a plain tag and a row that
is not behind, the SQL is wider than the in-memory filter, because cutting both
times to milliseconds keeps their order. `Exclusive` is a hypothesis, not a
guarantee of the code: the run `TwoHosts` shows what happens without it.

**EventConsumers** (`EventProofs`, from `ChannelAssumption`,
`ForwardingAssumption`). The order of what a client saw is not inductive
without the place it has reached. `ConsumersInv` says that `Finalized` is the
last event of its job and is there once the outcome is sent; that a forwarder
has delivered exactly the job's events before its position that were not
overwritten, in increasing order; that it runs until it delivered `Finalized`
or panicked; and that what the command line printed lies before its position,
with `finalized_seen` saying whether `Finalized` is among it. Theorems:
`ConsumersSafe`, `TypeCorrect`, `ForwardsOrdered`, `FinalizedFirst`,
`OutcomeOnce`, for every capacity and bound. A second invariant, `CreepInv`,
adds where the ticker stands: while it is armed, the last event delivered that
moves the ticker entered a phase with a slice, the value lies between the start
of that slice and a cap short of its end, and it is not behind any synthetic
value shown since. Theorem: `CreepContained`.

**LineReaders and RawOutput** (`OutputProofs`, from `LineReadersAssumption`,
`RawOutputAssumption`). `ReadInv` adds to `LineForLine` that what a reader has
consumed since its last line holds no newline, however many futures were
dropped meanwhile. `RawInv` adds that at most one write is under way, and it is
that of the last line handled; that an error kept for the next call belongs to
that line; and, for each stage of the compression, which of the two files
stands and is whole. `ReaderInv` is what `execra logs` may conclude from what
it has looked at. Theorems: `ReadersLineForLine`, `RawOutputSafe`,
`TypeCorrect`, `JobLineForLine`, `LogIsWhole`, `LogsPrintTheLog`.

**Only model-checked.** Every liveness property (`CancelFinalizes`,
`TimeoutFinalizes`, `JobsFinalize`, `CancelAllFinalizes`, `ClientsReturn`):
fairness and `ENABLED` are out of the prover's reach. Every safety property of
a passing run is a theorem. What the `violation` runs refute is not claimed.

## 7. Findings

- **`LateOutput`** (`driver.rs:174`). `Exited` is emitted as soon as the wait
  task reports it; output still in the pipes is broadcast after it.
  `RUNTIME.md` 228-235 lists all output before `Exited`.
- **`SurvivingKin`** (`wait.rs:66`). On Unix the grace period ends when the
  *leader* exits. A descendant that ignores SIGTERM gets no SIGKILL and
  survives a cancelled, finalized job. `RUNTIME.md:216` and `proc_group.rs:1`
  say the group is killed. A timeout does kill the group (`TimeoutKillsGroup`,
  proved), and so does a Job Object (`JobObjectLeavesNone`, proved).
- **`TornLine`** (`driver.rs:586`). When a line of stderr, or the exit, wins
  the `select!` while the beginning of a stdout line has been read, that
  beginning is dropped with its `next_line` future. The interpreter, the log
  and `OutputAppended` get the rest as if it were the line, or nothing at the
  end of the stream. `INTERPRETER.md:13` says `on_line` is called "for each
  output line, in order". What does hold is proved (`JobLineForLine`).
- **`TwoHosts`** (`store.rs:303`). The sweep finalizes every unfinished row,
  also of a process that is alive; the comment says "from a previous process".
  `execra ls` opens the database like any host.

Seen while modelling, without a run of their own:

- When the last write of a row fails, the driver still tells the outcome
  (`driver.rs:617`). Until the process ends, memory and row disagree about the
  job; after the next `build` the row says "host process exited".
  `HistoryIsTrue` and `DeliveredSurvives` say that this is all that can go
  wrong with one process at a time.
- A tag with a backslash or a control character does not match itself in the
  store, unless a `%` in it helps: `store.rs:103` writes the tags as JSON,
  217-219 escape quotes only. The in-memory filter finds it. `with_tag` makes
  no exception for such tags (`tauri.rs:292` "for later filtering");
  `QueriesFindAll` does.
- A read that fails ends its stream (`driver.rs:165`, 171): what the pipe still
  holds, and what is written later, is in no event and no log, and the job may
  still succeed. An error of `child.wait()` counts as an exit without status,
  with the leader perhaps running until the wait task drops it.
- The Tauri forwarder knows what it is delivered (`tauri.rs:466-478`): a phase
  entered after `Cancelled` arms the ticker again, and one whose `PhaseExited`
  lag has swallowed goes on to creep. Progress the job reports itself does not
  move the ticker, which may show less than it.
- A reader who acts on the final row rather than on `Finalized` may meet the
  compression of the log (`driver.rs:220`). `LogsReadBack` gives such a reader
  what it gives one who asks while the job runs.
- `FailureIsExplained` is about the outcome, which keeps the last known error;
  how often the fallback is emitted is not checked.
- Inside a notes block every line that begins with `---` is dropped
  (`interpret.rs:372`); the doc comment (234-237) speaks of the one that
  immediately follows the heading. `NotesAreWhole` says what the code does.
- `execra run` returns when the handle is ready, whatever is still in the
  channel: output sent before `Finalized` may never be printed
  (`main.rs:109-131`).
- `execra logs` that begins before the log exists finds no plain file, then
  perhaps a compressed one that is still being written, and fails; asked for a
  job that is running it may also fail, when the plain file goes away between
  look and read (`LogsReadBack`).
- A line whose background write fails costs the next line as well: `write_all`
  returns the kept error instead of writing, and the driver ignores it.
- Nothing reads the 1024 lines kept in memory, and nothing acts on
  `RetentionPolicy`.
- A queued job is not woken by its cancel token. It waits for its permit
  (`driver.rs:47`), starts its program and terminates it then.
- A cancel that arrives after `compute_outcome` and before the snapshot is
  final returns `Ok` and has no effect (`runtime.rs:191`, `driver.rs:215`).
- A descendant that holds a pipe open keeps the driver waiting for EOF, also
  after a cancellation or a timeout if it is out of the group's reach.
- If `Finalized` is overtaken by a full channel, the await of a Tauri task
  does not return until the channel closes (`FinalizedLost` in
  `ClientsReturn`); `execra run` does return.
- A driver that panics drops the sender of the outcome, and the handle then
  yields `Cancelled`. Driver panics are not modelled; interpreter panics are.

## 8. Not modelled

- *Decoding.* Bytes that are not UTF-8 are replaced by the code and a final
  carriage return is cut off; the text of a line is abstracted to its place.
- *Raw output.* A write that stops half way and leaves a torn line in the file;
  reads and writes of `execra logs` that fail for reasons other than those of
  `RawOutput`.
- *Events and findings tables*: `log` in `JobRuntime` holds what matters of
  the events table. No code of the repository reads the findings table. The
  schema check is a refusal to open.
- *Times of events.* Their order on the bus is that of the broadcasts, which
  need not be that of `at`.
- *Late subscribers.* A stream made after `spawn` misses what was sent before,
  and nothing says otherwise.
- *CLI*: `tail` prints a file that grows; `ls` is the second process of
  `TwoHosts`. Parsing of arguments is left out.
- *Tauri*: setup, managed state and the methods that pass a call on.
- *Writing to stdin*: the task that copies the given bytes to the program
  touches no state of the job.
- *Command builder, data types, serialisation*: data without state.
- *Durations*: a timeout or the end of a grace period may come at any time,
  which covers every duration.
- *Errors of the operating system* other than of reads, waits, spawns, the
  assignment to a Job Object and writes: a signal that cannot be sent, say.
