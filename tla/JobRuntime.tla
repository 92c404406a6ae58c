------------------------------ MODULE JobRuntime ------------------------------
(***************************************************************************)
(* The life of the jobs of one Execra `Runtime`: `Runtime::spawn` and      *)
(* `cancel` (runtime.rs, handle.rs), the driver task of each job           *)
(* (driver.rs, drive_job), its wait task (wait.rs) and the process group   *)
(* the job runs as (proc_group.rs; the operating system's part is          *)
(* external).                                                              *)
(*                                                                         *)
(* A step is the code between two points where another task, the OS or     *)
(* another thread can be seen to intervene: an await, a mutex released, a  *)
(* message sent.  `emit` is two such steps, a broadcast and an insert.     *)
(***************************************************************************)
EXTENDS Integers, Sequences, FiniteSets

CONSTANTS
  Jobs,           \* the jobs ever submitted to this runtime
  MaxConcurrent,  \* RuntimeConfig::max_concurrent, as the caller gave it
  Timed,          \* the jobs whose CommandSpec has a timeout
  MaxLines,       \* bound: complete lines a job's processes write
  Descendants,    \* may the leader fork a descendant?
  JobObject,      \* the Windows process group (else the Unix one)
  StoreFaults,    \* may a store write fail (SQLITE_BUSY, disk full)?
  ReadFaults,     \* may reading a pipe fail?
  WaitFaults      \* may waiting for the child fail?

ASSUME RuntimeAssumption ==
  /\ IsFiniteSet(Jobs)
  /\ MaxConcurrent \in Nat
  /\ Timed \subseteq Jobs
  /\ MaxLines \in Nat
  /\ {Descendants, JobObject, StoreFaults, ReadFaults, WaitFaults}
       \subseteq BOOLEAN

\* Semaphore::new(config.max_concurrent.max(1))
Limit == IF MaxConcurrent > 0 THEN MaxConcurrent ELSE 1

Streams == {"stdout", "stderr"}
Members == {"leader", "kin"}  \* the spawned program, a process it forked
Exits   == {"zero", "other"}  \* other: a non-zero code or a signal
Statuses == Exits \cup {"unknown"}  \* unknown: neither a code nor a signal
Outcomes == {"Succeeded", "Failed", "Timeout", "SpawnFailed", "Cancelled"}
JobStates == {"Absent", "Queued", "Running", "Exited", "Finalized"}
Events == {"JobCreated", "JobStarted", "OutputAppended", "Cancelled",
           "Exited", "Finalized"}

Snapshots == [state : JobStates, exit : Statuses \cup {"none"},
              outcome : Outcomes \cup {"none"}]
NoJob == [state |-> "Absent", exit |-> "none", outcome |-> "none"]

VARIABLES
  permits,      \* free permits of Inner::permits
  snapshot,     \* JobEntry::snapshot; state "Absent" while not in the map
  row,          \* the job's row in the store
  token,        \* is JobEntry::cancel cancelled?
  canceller,    \* a thread inside cancel(): past the state check or not
  bus,          \* the events broadcast for the job, in order
  log,          \* the events the store holds for the job, in order
  promise,      \* what outcome_tx sent, and so what awaiting the handle gives
  pc,           \* where the spawning call, then the driver task, is
  verdict,      \* the driver's local `outcome`
  eof,          \* the streams whose *_done flag is set
  childExited,  \* the driver's local `child_exited`
  wpc,          \* where the wait task is
  exitRx,       \* the oneshot from the wait task to the driver
  waitStatus,   \* the WaitOutcome::status it carries
  proc,         \* external: the processes of the job
  status,       \* external: exit status of the leader
  holds,        \* external: the pipe write ends each process has open
  doomed,       \* external: processes with a fatal signal pending
  group,        \* external: members of the process group or Job Object
  pipe,         \* external: lines written and not yet read
  broken        \* external: the streams a read of which has failed

clientVars == <<token, canceller>>
storeVars  == <<row, log>>
localVars  == <<verdict, eof, childExited>>
waitVars   == <<wpc, exitRx, waitStatus>>
osVars     == <<proc, status, holds, doomed, group, pipe, broken>>
outerVars  == <<clientVars, waitVars, osVars>>
vars == <<permits, snapshot, bus, promise, pc, storeVars, localVars, outerVars>>

DriverPoints ==
  {"idle", "created", "logCreated", "acquire", "fork", "assign", "announce",
   "logStarted", "markRunning", "saveRunning", "startWait", "drain",
   "logExited", "markExited", "saveExited", "markFinal", "saveFinal",
   "emitFinal", "logFinal", "deliver", "release", "done", "refused"}

\* The points at which the driver owns its semaphore permit (`_permit`).
Holding == DriverPoints \ {"idle", "created", "logCreated", "acquire",
                           "done", "refused"}

WaitPoints == {"none", "select", "logCancelled", "terminate", "grace",
               "killed", "timedOut", "sent", "done"}

TypeOK ==
  /\ permits \in Nat
  /\ snapshot \in [Jobs -> Snapshots]
  /\ row \in [Jobs -> Snapshots]
  /\ token \in [Jobs -> BOOLEAN]
  /\ canceller \in [Jobs -> {"out", "checked"}]
  /\ bus \in [Jobs -> Seq(Events)]
  /\ log \in [Jobs -> Seq(Events)]
  /\ promise \in [Jobs -> Outcomes \cup {"none"}]
  /\ pc \in [Jobs -> DriverPoints]
  /\ verdict \in [Jobs -> Outcomes \cup {"none"}]
  /\ eof \in [Jobs -> SUBSET Streams]
  /\ childExited \in [Jobs -> BOOLEAN]
  /\ wpc \in [Jobs -> WaitPoints]
  /\ exitRx \in [Jobs -> {"none", "exited", "timedOut"}]
  /\ waitStatus \in [Jobs -> Statuses \cup {"none"}]
  /\ proc \in [Jobs -> [Members -> {"none", "alive", "dead"}]]
  /\ status \in [Jobs -> Exits \cup {"none"}]
  /\ holds \in [Jobs -> [Members -> SUBSET Streams]]
  /\ doomed \in [Jobs -> SUBSET Members]
  /\ group \in [Jobs -> SUBSET Members]
  /\ pipe \in [Jobs -> [Streams -> Nat]]
  /\ broken \in [Jobs -> SUBSET Streams]

Init ==
  /\ permits = Limit
  /\ snapshot = [j \in Jobs |-> NoJob]
  /\ row = [j \in Jobs |-> NoJob]
  /\ token = [j \in Jobs |-> FALSE]
  /\ canceller = [j \in Jobs |-> "out"]
  /\ bus = [j \in Jobs |-> <<>>]
  /\ log = [j \in Jobs |-> <<>>]
  /\ promise = [j \in Jobs |-> "none"]
  /\ pc = [j \in Jobs |-> "idle"]
  /\ verdict = [j \in Jobs |-> "none"]
  /\ eof = [j \in Jobs |-> {}]
  /\ childExited = [j \in Jobs |-> FALSE]
  /\ wpc = [j \in Jobs |-> "none"]
  /\ exitRx = [j \in Jobs |-> "none"]
  /\ waitStatus = [j \in Jobs |-> "none"]
  /\ proc = [j \in Jobs |-> [m \in Members |-> "none"]]
  /\ status = [j \in Jobs |-> "none"]
  /\ holds = [j \in Jobs |-> [m \in Members |-> {}]]
  /\ doomed = [j \in Jobs |-> {}]
  /\ group = [j \in Jobs |-> {}]
  /\ pipe = [j \in Jobs |-> [s \in Streams |-> 0]]
  /\ broken = [j \in Jobs |-> {}]

-----------------------------------------------------------------------------
\* the jobs whose driver owns a permit
Holders == {j \in Jobs : pc[j] \in Holding}

Goto(j, from, to) == pc[j] = from /\ pc' = [pc EXCEPT ![j] = to]
WaitGoto(j, from, to) == wpc[j] = from /\ wpc' = [wpc EXCEPT ![j] = to]

Broadcast(j, e) == bus' = [bus EXCEPT ![j] = Append(@, e)]

\* Mutant: the insert is retried after a failure that had committed it.
InsertTwice(j, e) ==
  \E n \in {1, 2} : log' = [log EXCEPT ![j] = @ \o [i \in 1..n |-> e]]

\* `let _ = store.insert_event(..)`: an error is dropped.
InsertEvent(j, e) ==
  \/ log' = [log EXCEPT ![j] = Append(@, e)]
  \/ StoreFaults /\ log' = log

\* Mutant: ON CONFLICT DO UPDATE forgets the exit and the outcome.
PersistState(j) == row' = [row EXCEPT ![j].state = snapshot[j].state]

\* upsert_job writes the whole row from the snapshot; an error is dropped.
PersistSnapshot(j) ==
  \/ row' = [row EXCEPT ![j] = snapshot[j]]
  \/ StoreFaults /\ row' = row

Has(s, e) == \E i \in DOMAIN s : s[i] = e
HasSeen(j, e) == Has(bus[j], e)
Stored(j, e) == Has(log[j], e)

-----------------------------------------------------------------------------
(* Steps several places of the code share.                                 *)

\* the two halves of `emit`
EmitSend(j, from, to, e) ==
  /\ Goto(j, from, to)
  /\ Broadcast(j, e)
  /\ UNCHANGED <<permits, snapshot, promise, storeVars, localVars, outerVars>>

EmitInsert(j, from, to, e) ==
  /\ Goto(j, from, to)
  /\ InsertEvent(j, e)
  /\ UNCHANGED <<permits, snapshot, bus, promise, row, localVars, outerVars>>

Update(j, from, to, job) ==
  /\ Goto(j, from, to)
  /\ snapshot' = [snapshot EXCEPT ![j] = job]
  /\ UNCHANGED <<permits, bus, promise, storeVars, localVars, outerVars>>

Persist(j, from, to) ==
  /\ Goto(j, from, to)
  /\ PersistSnapshot(j)
  /\ UNCHANGED <<permits, snapshot, bus, log, promise, localVars, outerVars>>

\* A step of a driver or caller that touches no snapshot, event or row.
Quietly == UNCHANGED <<snapshot, bus, promise, storeVars, clientVars, waitVars>>

-----------------------------------------------------------------------------
(* Runtime::spawn, on the caller's thread.                                 *)

QueuedJob == [NoJob EXCEPT !.state = "Queued"]

SpawnJob(j) ==
  /\ Goto(j, "idle", "created")
  /\ snapshot' = [snapshot EXCEPT ![j] = QueuedJob]
  /\ row' = [row EXCEPT ![j] = QueuedJob]
  /\ UNCHANGED <<permits, bus, log, promise, localVars, outerVars>>

\* upsert_job fails before the job is in the map: spawn returns the error.
SpawnRefused(j) ==
  /\ StoreFaults
  /\ Goto(j, "idle", "refused")
  /\ Quietly /\ UNCHANGED <<permits, localVars, osVars>>

AnnounceCreated(j) == EmitSend(j, "created", "logCreated", "JobCreated")
LogCreated(j) == EmitInsert(j, "logCreated", "acquire", "JobCreated")

(* Runtime::cancel and JobHandle::cancel: the state is checked under the   *)
(* snapshot's lock, the token is set after it is released.  A second call  *)
(* once the token is set changes nothing and is left out.                  *)

CancelCheck(j) ==
  /\ canceller[j] = "out"
  /\ ~token[j]
  /\ snapshot[j].state \notin {"Absent", "Finalized"}
  /\ canceller' = [canceller EXCEPT ![j] = "checked"]
  /\ UNCHANGED <<permits, snapshot, bus, promise, pc, token, storeVars,
                 localVars, waitVars, osVars>>

CancelFire(j) ==
  /\ canceller[j] = "checked"
  /\ canceller' = [canceller EXCEPT ![j] = "out"]
  /\ token' = [token EXCEPT ![j] = TRUE]
  /\ UNCHANGED <<permits, snapshot, bus, promise, pc, storeVars, localVars,
                 waitVars, osVars>>

-----------------------------------------------------------------------------
(* The driver task.                                                        *)

\* Mutant: the permit is taken without waiting for a free one.
AcquireUnchecked(j) ==
  /\ Goto(j, "acquire", "fork")
  /\ permits' = permits - 1
  /\ Quietly /\ UNCHANGED <<localVars, osVars>>

\* The cancel token is not watched while the job queues here.
AcquirePermit(j) ==
  /\ Goto(j, "acquire", "fork")
  /\ permits > 0
  /\ permits' = permits - 1
  /\ Quietly /\ UNCHANGED <<localVars, osVars>>

\* On Unix the child starts as the leader of its own process group.
SpawnChild(j) ==
  /\ Goto(j, "fork", "assign")
  /\ proc' = [proc EXCEPT ![j]["leader"] = "alive"]
  /\ holds' = [holds EXCEPT ![j]["leader"] = Streams]
  /\ group' = [group EXCEPT ![j] = IF JobObject THEN {} ELSE {"leader"}]
  /\ Quietly /\ UNCHANGED <<permits, localVars, status, doomed, pipe, broken>>

SpawnFails(j) ==
  /\ Goto(j, "fork", "markFinal")
  /\ verdict' = [verdict EXCEPT ![j] = "SpawnFailed"]
  /\ Quietly /\ UNCHANGED <<permits, eof, childExited, osVars>>

\* On Windows the running child is put into a Job Object; that may fail, and
\* what it forked before is not in it.
AssignGroup(j) ==
  /\ Goto(j, "assign", "announce")
  /\ group' \in (IF JobObject
                 THEN {group, [group EXCEPT ![j] = {"leader"}]}
                 ELSE {group})
  /\ Quietly
  /\ UNCHANGED <<permits, localVars, proc, status, holds, doomed, pipe,
                 broken>>

AnnounceStarted(j) == EmitSend(j, "announce", "logStarted", "JobStarted")
LogStarted(j) == EmitInsert(j, "logStarted", "markRunning", "JobStarted")
MarkRunning(j) == Update(j, "markRunning", "saveRunning",
                         [snapshot[j] EXCEPT !.state = "Running"])
SaveRunning(j) == Persist(j, "saveRunning", "startWait")

StartWait(j) ==
  /\ Goto(j, "startWait", "drain")
  /\ WaitGoto(j, "none", "select")
  /\ UNCHANGED <<permits, snapshot, bus, promise, clientVars, storeVars,
                 localVars, exitRx, waitStatus, osVars>>

\* The select loop.  It is biased to stdout, then stderr, then the exit; but
\* a stream or the oneshot is polled ready only once the OS or the wait task
\* has woken it, so any of the three may be taken when several are ready.
ReadLine(j, s) ==
  /\ pc[j] = "drain"
  /\ s \notin eof[j]
  /\ pipe[j][s] > 0
  /\ pipe' = [pipe EXCEPT ![j][s] = @ - 1]
  /\ Broadcast(j, "OutputAppended")
  /\ UNCHANGED <<permits, snapshot, promise, pc, clientVars, storeVars,
                 localVars, waitVars, proc, status, holds, doomed, group,
                 broken>>

ReadEof(j, s) ==
  /\ pc[j] = "drain"
  /\ s \notin eof[j]
  /\ pipe[j][s] = 0
  /\ \A m \in Members : s \notin holds[j][m]
  /\ eof' = [eof EXCEPT ![j] = @ \cup {s}]
  /\ Quietly /\ UNCHANGED <<permits, pc, verdict, childExited, osVars>>

\* `_ => stdout_done = true`: an error ends the stream as its end does,
\* whatever the pipe still holds and whoever still writes to it.
ReadFails(j, s) ==
  /\ ReadFaults
  /\ pc[j] = "drain"
  /\ s \notin eof[j]
  /\ eof' = [eof EXCEPT ![j] = @ \cup {s}]
  /\ broken' = [broken EXCEPT ![j] = @ \cup {s}]
  /\ Quietly
  /\ UNCHANGED <<permits, pc, verdict, childExited, proc, status, holds,
                 doomed, group, pipe>>

\* Mutant: the branch is not disabled once the exit has been received.
ReceiveExitAgain(j) ==
  /\ Goto(j, "drain", "logExited")
  /\ exitRx[j] # "none"
  /\ childExited' = [childExited EXCEPT ![j] = TRUE]
  /\ Broadcast(j, "Exited")
  /\ UNCHANGED <<permits, snapshot, promise, storeVars, verdict, eof,
                 outerVars>>

ReceiveExit(j) ==
  /\ Goto(j, "drain", "logExited")
  /\ ~childExited[j]
  /\ exitRx[j] # "none"
  /\ childExited' = [childExited EXCEPT ![j] = TRUE]
  /\ Broadcast(j, "Exited")
  /\ UNCHANGED <<permits, snapshot, promise, storeVars, verdict, eof,
                 outerVars>>

LogExited(j) == EmitInsert(j, "logExited", "markExited", "Exited")
MarkExited(j) == Update(j, "markExited", "saveExited",
                        [snapshot[j] EXCEPT !.state = "Exited",
                                            !.exit = waitStatus[j]])
SaveExited(j) == Persist(j, "saveExited", "drain")

\* Mutant: a successful exit is looked at first.
SuccessFirst(wasCancelled, timedOut, exit) ==
  IF exit = "zero" THEN "Succeeded"
  ELSE IF wasCancelled THEN "Cancelled"
  ELSE IF timedOut THEN "Timeout" ELSE "Failed"

ComputeOutcome(wasCancelled, timedOut, exit) ==
  IF wasCancelled THEN "Cancelled"
  ELSE IF timedOut THEN "Timeout"
  ELSE IF exit = "zero" THEN "Succeeded" ELSE "Failed"

\* The token is read here, once, for the verdict.
Decide(j) ==
  /\ verdict' = [verdict EXCEPT ![j] =
       ComputeOutcome(token[j], exitRx[j] = "timedOut", waitStatus[j])]
  /\ Quietly /\ UNCHANGED <<permits, eof, childExited, osVars>>

\* Mutant: the loop ends with the exit, whatever the pipes still hold.
ConcludeUndrained(j) ==
  Goto(j, "drain", "markFinal") /\ childExited[j] /\ Decide(j)

\* The select loop is over.
Conclude(j) ==
  /\ Goto(j, "drain", "markFinal")
  /\ eof[j] = Streams
  /\ childExited[j]
  /\ Decide(j)

MarkFinal(j) == Update(j, "markFinal", "saveFinal",
                       [snapshot[j] EXCEPT !.state = "Finalized",
                                           !.outcome = verdict[j]])
SaveFinal(j) == Persist(j, "saveFinal", "emitFinal")
AnnounceFinal(j) == EmitSend(j, "emitFinal", "logFinal", "Finalized")
LogFinal(j) == EmitInsert(j, "logFinal", "deliver", "Finalized")

Deliver(j) ==
  /\ Goto(j, "deliver", "release")
  /\ promise' = [promise EXCEPT ![j] = verdict[j]]
  /\ UNCHANGED <<permits, snapshot, bus, storeVars, localVars, outerVars>>

\* Mutant: the early return of the spawn-failure path forgets the permit.
ReleaseIfSpawned(j) ==
  /\ Goto(j, "release", "done")
  /\ permits' = IF verdict[j] = "SpawnFailed" THEN permits ELSE permits + 1
  /\ Quietly /\ UNCHANGED <<localVars, osVars>>

\* drive_job returns, on either path, and drops `_permit`.
ReleasePermit(j) ==
  /\ Goto(j, "release", "done")
  /\ permits' = permits + 1
  /\ Quietly /\ UNCHANGED <<localVars, osVars>>

-----------------------------------------------------------------------------
(* The wait task.                                                          *)

Alive(j) == {m \in Members : proc[j][m] = "alive"}

\* Mutant: kill(pid) instead of killpg(pgid).
LeaderOnly(j) == Alive(j) \cap {"leader"}

\* killpg or TerminateJobObject reaches the group; with no group, start_kill
\* reaches the leader alone.
Targets(j) == Alive(j) \cap (IF group[j] = {} THEN {"leader"} ELSE group[j])

\* A fatal signal reaches the processes hit.
Signal(j, hit) == doomed' = [doomed EXCEPT ![j] = @ \cup hit]

\* Mutant: SIGTERM instead of SIGKILL.
KillPolitely(j) == \E hit \in SUBSET Targets(j) : Signal(j, hit)

Kill(j) == Signal(j, Targets(j))

\* What the wait task leaves alone when it signals.
Elsewhere == UNCHANGED <<permits, snapshot, bus, promise, pc, clientVars,
                         storeVars, localVars, exitRx, waitStatus, proc, status,
                         holds, group, pipe, broken>>

WaitCancelled(j) ==
  /\ token[j]
  /\ WaitGoto(j, "select", "logCancelled")
  /\ Broadcast(j, "Cancelled")
  /\ UNCHANGED <<permits, snapshot, promise, pc, clientVars, storeVars,
                 localVars, exitRx, waitStatus, osVars>>

LogCancelled(j) ==
  /\ WaitGoto(j, "logCancelled", "terminate")
  /\ InsertEvent(j, "Cancelled")
  /\ UNCHANGED <<permits, snapshot, bus, promise, pc, clientVars, row,
                 localVars, exitRx, waitStatus, osVars>>

\* SIGTERM: each target may handle or ignore it.  A Job Object, and a child
\* without a group, can only be killed.
Terminate(j) ==
  /\ WaitGoto(j, "terminate", "grace")
  /\ IF JobObject THEN Kill(j)
                  ELSE \E hit \in SUBSET Targets(j) : Signal(j, hit)
  /\ Elsewhere

GraceExpires(j) == WaitGoto(j, "grace", "killed") /\ Kill(j) /\ Elsewhere

WaitTimeout(j) ==
  j \in Timed /\ WaitGoto(j, "select", "timedOut") /\ Kill(j) /\ Elsewhere

\* child.wait() returns, in whichever branch awaits it, and what it returned
\* is sent.
SendExit(j, st) ==
  /\ wpc[j] \in {"select", "grace", "killed", "timedOut"}
  /\ wpc' = [wpc EXCEPT ![j] = "sent"]
  /\ exitRx' = [exitRx EXCEPT ![j] =
                  IF wpc[j] = "timedOut" THEN "timedOut" ELSE "exited"]
  /\ waitStatus' = [waitStatus EXCEPT ![j] = st]
  /\ UNCHANGED <<permits, snapshot, bus, promise, pc, clientVars, storeVars,
                 localVars, osVars>>

WaitReaps(j) == proc[j]["leader"] = "dead" /\ SendExit(j, status[j])

\* An Err is sent on like an exit, whether or not the leader lives.
WaitFails(j) == WaitFaults /\ SendExit(j, "unknown")

\* Mutant: the Job Object is created without KILL_ON_JOB_CLOSE.
CloseQuietly(j) == WaitGoto(j, "sent", "done") /\ doomed' = doomed /\ Elsewhere

\* drop(proc_group): closing a Job Object kills what is still in it.  The
\* child goes with the task; one that was never reaped is killed on drop.
CloseGroup(j) ==
  /\ WaitGoto(j, "sent", "done")
  /\ Signal(j, Alive(j) \cap
                 ((IF JobObject THEN group[j] ELSE {}) \cup
                  (IF waitStatus[j] = "unknown" THEN {"leader"} ELSE {})))
  /\ Elsewhere

-----------------------------------------------------------------------------
(* The operating system and the job's processes (external).                *)

\* lines the job's processes have written so far
Written(j) == pipe[j]["stdout"] + pipe[j]["stderr"]
                + Cardinality({i \in DOMAIN bus[j] :
                                 bus[j][i] = "OutputAppended"})

Terminated(j, m) ==
  /\ proc' = [proc EXCEPT ![j][m] = "dead"]
  /\ holds' = [holds EXCEPT ![j][m] = {}]

ClientsAndTasks == <<permits, snapshot, bus, promise, pc, clientVars,
                     storeVars, localVars, waitVars>>

Exit(j, m) ==
  /\ m \in Alive(j) \ doomed[j]
  /\ Terminated(j, m)
  /\ IF m = "leader" THEN \E x \in Exits : status' = [status EXCEPT ![j] = x]
                     ELSE status' = status
  /\ UNCHANGED <<ClientsAndTasks, doomed, group, pipe, broken>>

Die(j, m) ==
  /\ m \in Alive(j) \cap doomed[j]
  /\ Terminated(j, m)
  /\ status' = IF m = "leader" THEN [status EXCEPT ![j] = "other"]
                               ELSE status
  /\ UNCHANGED <<ClientsAndTasks, doomed, group, pipe, broken>>

ForkKin(j) ==
  /\ Descendants
  /\ "leader" \in Alive(j) \ doomed[j]
  /\ proc[j]["kin"] = "none"
  /\ proc' = [proc EXCEPT ![j]["kin"] = "alive"]
  /\ \E keep \in SUBSET holds[j]["leader"] :
       holds' = [holds EXCEPT ![j]["kin"] = keep]
  /\ group' = [group EXCEPT ![j] = IF "leader" \in @ THEN @ \cup {"kin"}
                                                     ELSE @]
  /\ UNCHANGED <<ClientsAndTasks, status, doomed, pipe, broken>>

Write(j, m, s) ==
  /\ m \in Alive(j) \ doomed[j]
  /\ s \in holds[j][m]
  /\ Written(j) < MaxLines
  /\ pipe' = [pipe EXCEPT ![j][s] = @ + 1]
  /\ UNCHANGED <<ClientsAndTasks, proc, status, holds, doomed, group, broken>>

Close(j, m, s) ==
  /\ m \in Alive(j) \ doomed[j]
  /\ s \in holds[j][m]
  /\ holds' = [holds EXCEPT ![j][m] = @ \ {s}]
  /\ UNCHANGED <<ClientsAndTasks, proc, status, doomed, group, pipe, broken>>

-----------------------------------------------------------------------------
SpawnStep(j) == SpawnJob(j) \/ SpawnRefused(j)

SpawnTail(j) == AnnounceCreated(j) \/ LogCreated(j)

DriverStep(j) ==
  \/ AcquirePermit(j) \/ SpawnChild(j) \/ SpawnFails(j) \/ AssignGroup(j)
  \/ AnnounceStarted(j) \/ LogStarted(j) \/ MarkRunning(j) \/ SaveRunning(j)
  \/ StartWait(j)
  \/ \E s \in Streams : ReadLine(j, s) \/ ReadEof(j, s)
  \/ ReceiveExit(j) \/ LogExited(j) \/ MarkExited(j) \/ SaveExited(j)
  \/ Conclude(j) \/ MarkFinal(j) \/ SaveFinal(j) \/ AnnounceFinal(j)
  \/ LogFinal(j) \/ Deliver(j) \/ ReleasePermit(j)

WaitStep(j) ==
  \/ WaitCancelled(j) \/ LogCancelled(j) \/ Terminate(j) \/ GraceExpires(j)
  \/ WaitTimeout(j) \/ WaitReaps(j) \/ CloseGroup(j)

ClientStep(j) == CancelCheck(j) \/ CancelFire(j)

ProcessStep(j) ==
  \/ ForkKin(j)
  \/ \E m \in Members :
       \/ Exit(j, m) \/ Die(j, m)
       \/ \E s \in Streams : Write(j, m, s) \/ Close(j, m, s)

\* What need not happen, and so is under no fairness.
FaultStep(j) == WaitFails(j) \/ \E s \in Streams : ReadFails(j, s)

JobStep(j) == \/ SpawnStep(j) \/ SpawnTail(j) \/ DriverStep(j) \/ WaitStep(j)
              \/ FaultStep(j) \/ ClientStep(j) \/ ProcessStep(j)

Finished(j) == pc[j] \in {"done", "refused"}

\* Every job is over: the runtime idles.
Quiescent == (\A j \in Jobs : Finished(j)) /\ UNCHANGED vars

Next == (\E j \in Jobs : JobStep(j)) \/ Quiescent

Spec == Init /\ [][Next]_vars

\* tokio polls every task that can make progress, its timers fire, a thread
\* inside spawn() or cancel() returns, and a process with a fatal signal
\* pending dies.  Whether a program ever exits by itself is not assumed.
Fairness ==
  \A j \in Jobs : /\ WF_vars(SpawnTail(j))
                  /\ WF_vars(DriverStep(j))
                  /\ WF_vars(WaitStep(j))
                  /\ WF_vars(CancelFire(j))
                  /\ \A m \in Members : WF_vars(Die(j, m))

FairSpec == Spec /\ Fairness

\* The programs the jobs run all end by themselves.
ProgramsEnd == \A j \in Jobs, m \in Members : WF_vars(Exit(j, m))

-----------------------------------------------------------------------------
(* Properties.                                                             *)

\* The pairs of events whose order a consumer of the stream relies on.
\* OutputAppended may follow Exited: the pipes drain independently of it.
Precedes ==
  {<<"JobCreated", e>> : e \in Events \ {"JobCreated"}}
    \cup {<<"JobStarted", e>> : e \in Events \ {"JobCreated", "JobStarted"}}
    \cup {<<"Cancelled", "Exited">>}
    \cup {<<e, "Finalized">> : e \in Events \ {"Finalized"}}

Ordered(s) ==
  /\ \A i, k \in DOMAIN s : <<s[i], s[k]>> \in Precedes => i < k
  /\ \A i, k \in DOMAIN s : s[i] = s[k] /\ s[i] # "OutputAppended" => i = k

\* Each job's events are broadcast in the order of RUNTIME.md "Termination
\* Order", as far as two tasks broadcast them: created first, started before
\* any output or cancellation, Cancelled (wait task) before Exited (driver),
\* Finalized last, each of these at most once.
BusOrdered == \A j \in Jobs : Ordered(bus[j])

\* The event history the store keeps for a job is in that order as well,
\* although two tasks insert into it, and even when some inserts fail.
LogOrdered == \A j \in Jobs : Ordered(log[j])

\* Whoever sees Finalized, on the bus or by awaiting the handle, finds the
\* final snapshot and (no store write failing) the final row, all with the
\* same outcome: update_snapshot and persist_snapshot precede emit, emit
\* precedes outcome_tx.send.
FinalIsVisible ==
  \A j \in Jobs :
    /\ HasSeen(j, "Finalized") =>
         /\ snapshot[j].state = "Finalized"
         /\ snapshot[j].outcome # "none"
         /\ StoreFaults \/ row[j] = snapshot[j]
    /\ promise[j] # "none" =>
         /\ HasSeen(j, "Finalized")
         /\ promise[j] = snapshot[j].outcome
         /\ StoreFaults \/ Stored(j, "Finalized")

\* The Cancelled event comes from the wait task and the outcome from the
\* driver; a subscriber that saw the event never sees another outcome.
CancelEventDecides ==
  \A j \in Jobs : HasSeen(j, "Cancelled") /\ verdict[j] # "none"
                    => verdict[j] = "Cancelled"

\* A program that was started is judged only when each of its streams has
\* been read to its end, with no process left that could write more, or has
\* failed to be read, and when its leader has been reaped and the status is
\* known, or waiting for it failed; it succeeds only if it was reaped.
DrainedBeforeVerdict ==
  \A j \in Jobs : verdict[j] \notin {"none", "SpawnFailed"} =>
    /\ \A s \in Streams \ broken[j] :
         pipe[j][s] = 0 /\ \A m \in Members : s \notin holds[j][m]
    /\ \/ waitStatus[j] = "unknown"
       \/ proc[j]["leader"] = "dead" /\ waitStatus[j] = status[j]
    /\ verdict[j] = "Succeeded" =>
         proc[j]["leader"] = "dead" /\ status[j] = "zero"

\* A timeout kills the whole group: no member of it outlives the signal,
\* whatever was forked before.
TimeoutKillsGroup ==
  \A j \in Jobs : (wpc[j] = "timedOut" \/ exitRx[j] = "timedOut")
                    => group[j] \cap Alive(j) \subseteq doomed[j]

\* No more than max(1, max_concurrent) jobs have their program running, not
\* counting one that could not be waited for: the driver takes it for exited.
RunningBounded ==
  Cardinality({j \in Jobs : /\ "leader" \in Alive(j)
                            /\ waitStatus[j] # "unknown"}) <= Limit

\* Permits are neither lost nor invented, on the spawn-failure path either.
PermitConservation == permits + Cardinality(Holders) = Limit

Rank(state) == CASE state = "Absent" -> 0 [] state = "Queued" -> 1
                 [] state = "Running" -> 2 [] state = "Exited" -> 3
                 [] OTHER -> 4

\* Store writes may fail, but a row never shows what the snapshot has not
\* reached, and agrees with it when it shows the same state.
RowNeverAhead ==
  \A j \in Jobs :
    /\ Rank(row[j].state) <= Rank(snapshot[j].state)
    /\ row[j].state = snapshot[j].state => row[j] = snapshot[j]

\* On Windows nothing of the group is left once the wait task is done, even
\* after an exit nobody asked for: "dropping the handle also kills anything
\* still attached" (proc_group.rs).
JobObjectLeavesNone ==
  \A j \in Jobs : JobObject /\ wpc[j] = "done"
                    => group[j] \cap Alive(j) \subseteq doomed[j]

\* The Unix reading of RUNTIME.md:216, "Cancellation kills the process group,
\* not just the leader process": a job that announced its cancellation and
\* finalized has no process left that is not dying.
CancelKillsGroup ==
  \A j \in Jobs : HasSeen(j, "Cancelled") /\ Finished(j)
                    => group[j] \cap Alive(j) \subseteq doomed[j]

\* RUNTIME.md:228-235: output events come before Exited.
OutputBeforeExited ==
  \A j \in Jobs : \A i, k \in DOMAIN bus[j] :
    bus[j][i] = "OutputAppended" /\ bus[j][k] = "Exited" => i < k

Abs == INSTANCE JobSpec WITH
  phase     <- [j \in Jobs |-> snapshot[j].state],
  requested <- {j \in Jobs : token[j]},
  slots     <- Holders,
  outcome   <- [j \in Jobs |-> snapshot[j].outcome],
  reported  <- {j \in Jobs : HasSeen(j, "Finalized")},
  delivered <- promise

\* The runtime keeps the promises of JobSpec.
ImplementsJobSpec == Abs!Spec

\* A descendant no signal of the runtime will reach: it is outside the group,
\* or the leader ended before the group had to be killed.
Escaped(j) == /\ "kin" \in Alive(j) \ doomed[j]
              /\ "kin" \notin group[j] \/ wpc[j] = "done"

\* A cancelled job finalizes, whether or not its programs would ever end,
\* whatever the store loses; only a descendant out of reach holds it up.
CancelFinalizes == \A j \in Jobs : token[j] ~> (Finished(j) \/ Escaped(j))

\* A timed job that was started finalizes.
TimeoutFinalizes ==
  \A j \in Timed : pc[j] = "fork" ~> (Finished(j) \/ Escaped(j))

\* A cancelled job that queues does not watch its token, and waits for a
\* permit like any other; but once all jobs are cancelled they all finalize,
\* whether or not a program would end: the running ones give up their permits
\* in turn, and one that gets a permit after its cancellation is killed.
CancelAllFinalizes ==
  (\A j \in Jobs : token[j] \/ Finished(j))
    ~> ((\A j \in Jobs : Finished(j)) \/ \E j \in Jobs : Escaped(j))

\* If all programs end, so does every submitted job: no permit, message or
\* EOF is lost on any path.
JobsFinalize ==
  ProgramsEnd => \A j \in Jobs : snapshot[j].state = "Queued" ~> Finished(j)
=============================================================================
