---------------------------- MODULE JobRuntimeInv ----------------------------
(***************************************************************************)
(* The inductive invariant of JobRuntime: what each point of the driver    *)
(* and of the wait task says of the rest of the job's state.               *)
(***************************************************************************)
EXTENDS JobRuntime

Queueing == {"created", "logCreated", "acquire", "fork"}
Starting == {"assign", "announce", "logStarted", "markRunning"}
Working  == {"saveRunning", "startWait", "drain", "logExited", "markExited",
             "saveExited"}
Reporting == {"saveFinal", "emitFinal", "logFinal", "deliver", "release",
              "done"}
Reported == {"logFinal", "deliver", "release", "done"}

\* The snapshot follows the driver.
SnapshotInv(j) ==
  /\ pc[j] \in {"idle", "refused"} <=> snapshot[j].state = "Absent"
  /\ snapshot[j].state = "Absent" => snapshot[j] = NoJob
  /\ pc[j] \in Queueing \cup Starting => snapshot[j].state = "Queued"
  /\ pc[j] \in {"saveRunning", "startWait", "logExited", "markExited"}
       => snapshot[j].state = "Running"
  /\ pc[j] = "drain" => snapshot[j].state =
                          IF childExited[j] THEN "Exited" ELSE "Running"
  /\ pc[j] = "saveExited" => snapshot[j].state = "Exited"
  /\ pc[j] = "markFinal" => snapshot[j].state =
       IF verdict[j] = "SpawnFailed" THEN "Queued" ELSE "Exited"
  /\ pc[j] \in Reporting => snapshot[j].state = "Finalized"
  /\ snapshot[j].outcome = IF pc[j] \in Reporting THEN verdict[j] ELSE "none"
  /\ verdict[j] # "none" <=> pc[j] \in Reporting \cup {"markFinal"}
  /\ promise[j] = IF pc[j] \in {"release", "done"} THEN verdict[j] ELSE "none"
  /\ token[j] \/ canceller[j] = "checked" => snapshot[j].state # "Absent"

\* The wait task runs from startWait on, and the driver learns of the exit
\* only through exitRx.
WaitInv(j) ==
  /\ wpc[j] = "none" <=> \/ pc[j] \notin {"drain", "logExited", "markExited",
                                          "saveExited", "markFinal"}
                                         \cup Reporting
                         \/ verdict[j] = "SpawnFailed"
  /\ wpc[j] = "none" => eof[j] = {}
  /\ exitRx[j] # "none" <=> wpc[j] \in {"sent", "done"}
  /\ exitRx[j] # "none" <=> waitStatus[j] # "none"
  /\ waitStatus[j] \in Exits => /\ proc[j]["leader"] = "dead"
                                 /\ waitStatus[j] = status[j]
  /\ childExited[j] => exitRx[j] # "none"
  /\ pc[j] \in {"logExited", "markExited", "saveExited"} => childExited[j]
  /\ verdict[j] \notin {"none", "SpawnFailed"} =>
       childExited[j] /\ eof[j] = Streams
  /\ verdict[j] = "Succeeded" => waitStatus[j] = "zero"

\* What has been broadcast.
StreamInv(j) ==
  /\ Ordered(bus[j])
  /\ HasSeen(j, "JobCreated") <=> pc[j] \notin {"idle", "created", "refused"}
  /\ HasSeen(j, "JobStarted") <=>
       \/ pc[j] \in (Starting \ {"assign", "announce"}) \cup Working
       \/ verdict[j] \notin {"none", "SpawnFailed"}
  /\ HasSeen(j, "OutputAppended") => HasSeen(j, "JobStarted")
  /\ HasSeen(j, "Cancelled") => /\ token[j]
                                /\ wpc[j] \notin {"none", "select"}
  /\ wpc[j] = "logCancelled" => HasSeen(j, "Cancelled")
  /\ HasSeen(j, "Exited") <=> childExited[j]
  /\ HasSeen(j, "Finalized") <=> pc[j] \in Reported
  /\ HasSeen(j, "Cancelled") /\ verdict[j] # "none"
       => verdict[j] = "Cancelled"

\* What the store holds: every event after its broadcast, and the row as it
\* was at some point the snapshot has passed.
StoreInv(j) ==
  /\ Ordered(log[j])
  /\ ~Stored(j, "OutputAppended")
  /\ Stored(j, "JobCreated") =>
       pc[j] \notin {"idle", "created", "logCreated", "refused"}
  /\ Stored(j, "JobStarted") => HasSeen(j, "JobStarted") /\ pc[j] # "logStarted"
  /\ Stored(j, "Cancelled") =>
       /\ HasSeen(j, "Cancelled")
       /\ wpc[j] # "logCancelled"
  /\ Stored(j, "Exited") => childExited[j] /\ pc[j] # "logExited"
  /\ Stored(j, "Finalized") => pc[j] \in {"deliver", "release", "done"}
  /\ Rank(row[j].state) <= Rank(snapshot[j].state)
  /\ row[j].state = snapshot[j].state => row[j] = snapshot[j]
  /\ ~StoreFaults =>
       /\ pc[j] \in Reporting \ {"saveFinal"} => row[j] = snapshot[j]
       /\ pc[j] \in {"deliver", "release", "done"} => Stored(j, "Finalized")

\* The process, its pipes and its group.
ProcessInv(j) ==
  /\ proc[j]["leader"] = "none" <=>
       pc[j] \in {"idle", "refused"} \cup Queueing
         \/ verdict[j] = "SpawnFailed"
  /\ proc[j]["leader"] = "none" => proc[j]["kin"] = "none"
  /\ proc[j]["leader"] = "dead" => status[j] # "none"
  /\ group[j] # {} => "leader" \in group[j]
  /\ \A m \in Members : proc[j][m] # "alive" => holds[j][m] = {}
  /\ \A s \in eof[j] \ broken[j] :
       /\ pipe[j][s] = 0
       /\ \A m \in Members : s \notin holds[j][m]
  /\ wpc[j] = "timedOut" \/ exitRx[j] = "timedOut" =>
       /\ group[j] \cap Alive(j) \subseteq doomed[j]
       /\ "leader" \notin Alive(j) \ doomed[j]
  /\ JobObject /\ wpc[j] = "done" => group[j] \cap Alive(j) \subseteq doomed[j]

JobInv(j) ==
  /\ SnapshotInv(j)
  /\ WaitInv(j)
  /\ StreamInv(j)
  /\ StoreInv(j)
  /\ ProcessInv(j)

\* TypeOK and PermitConservation for the runtime, JobInv for each job.
RuntimeInv == TypeOK /\ PermitConservation /\ \A j \in Jobs : JobInv(j)

\* Nothing of job k changes in this step.
Untouched(k) ==
  /\ snapshot'[k] = snapshot[k]   /\ row'[k] = row[k]
  /\ token'[k] = token[k]         /\ canceller'[k] = canceller[k]
  /\ bus'[k] = bus[k]             /\ log'[k] = log[k]
  /\ promise'[k] = promise[k]     /\ pc'[k] = pc[k]
  /\ verdict'[k] = verdict[k]     /\ eof'[k] = eof[k]
  /\ childExited'[k] = childExited[k]
  /\ wpc'[k] = wpc[k]             /\ exitRx'[k] = exitRx[k]
  /\ proc'[k] = proc[k]           /\ status'[k] = status[k]
  /\ holds'[k] = holds[k]         /\ doomed'[k] = doomed[k]
  /\ group'[k] = group[k]         /\ pipe'[k] = pipe[k]
  /\ waitStatus'[k] = waitStatus[k] /\ broken'[k] = broken[k]
=============================================================================
