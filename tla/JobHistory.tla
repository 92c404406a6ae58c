------------------------------ MODULE JobHistory ------------------------------
(***************************************************************************)
(* The job table of the store over several lives of a host process:        *)
(* RuntimeBuilder::build (builder.rs) opens the file, finalizes what an    *)
(* earlier process left unfinished and loads the history (store.rs); the   *)
(* drivers update their snapshots and rows; a process may die anywhere in  *)
(* between.  A driver is reduced to its snapshots and rows: JobRuntime has *)
(* the rest.                                                               *)
(***************************************************************************)
EXTENDS Integers, Sequences, FiniteSets

CONSTANTS
  Hosts,      \* processes that use the database file
  Jobs,       \* jobs ever submitted
  Exclusive,  \* is the file used by one process at a time?
  LoadLimit,  \* how many jobs `build` loads (10_000 in the code)
  MaxOpens,   \* bound: calls of `build`
  StoreFaults, \* may the write of a row fail (SQLITE_BUSY, disk full)?
  Tags,       \* tags of commands and of queries
  PlainTags,  \* those without a backslash or a control character
  TagOf,      \* TagOf[j]: the tag of job j's command
  Like        \* <<p, t>>: the LIKE pattern made from p matches tags_json of t

ASSUME HistoryAssumption ==
  /\ {Exclusive, StoreFaults} \subseteq BOOLEAN
  /\ {LoadLimit, MaxOpens} \subseteq Nat
  /\ TagOf \in [Jobs -> Tags]
  /\ PlainTags \subseteq Tags
  /\ {<<t, t>> : t \in PlainTags} \subseteq Like

Outcomes == {"Succeeded", "Failed"}   \* what a driver settles on
HostExited == "HostExited"  \* Failed { SpawnFailed { "host process exited" } }
Unfinished == {"queued", "running", "exited"}

NoJob == [state |-> "absent", outcome |-> "none"]
\* A job has an outcome once it is finalized, and not before.
Records == {NoJob} \cup [state : Unfinished, outcome : {"none"}]
             \cup [state : {"finalized"}, outcome : Outcomes \cup {HostExited}]

VARIABLES
  host,       \* where each process is in `build`
  opens,      \* calls of `build` so far
  rows,       \* the table `jobs`
  missed,     \* the jobs whose last row write has failed
  created,    \* the jobs by creation time, ties within a millisecond included
  memory,     \* Inner::jobs of each process
  driving,    \* the jobs whose driver runs, of each process
  unsaved,    \* those of them whose snapshot is ahead of the row
  delivered   \* what awaiting the handle gave

tableVars == <<rows, missed, created>>
processVars == <<memory, driving, unsaved>>
vars == <<host, opens, tableVars, processVars, delivered>>

TypeOK ==
  /\ host \in [Hosts -> {"down", "opened", "swept", "up"}]
  /\ opens \in 0..MaxOpens
  /\ rows \in [Jobs -> Records]
  /\ missed \subseteq Jobs
  /\ created \in Seq(Jobs)
  /\ memory \in [Hosts -> [Jobs -> Records]]
  /\ driving \in [Hosts -> SUBSET Jobs]
  /\ unsaved \in [Hosts -> SUBSET Jobs]
  /\ delivered \in [Jobs -> Outcomes \cup {"none"}]

Nothing == [j \in Jobs |-> NoJob]

Init ==
  /\ host = [h \in Hosts |-> "down"] /\ opens = 0
  /\ rows = Nothing /\ missed = {} /\ created = <<>>
  /\ memory = [h \in Hosts |-> Nothing]
  /\ driving = [h \in Hosts |-> {}]
  /\ unsaved = [h \in Hosts |-> {}]
  /\ delivered = [j \in Jobs |-> "none"]

-----------------------------------------------------------------------------
(* RuntimeBuilder::build: three calls of the store, not one transaction.   *)

Goto(h, from, to) == host[h] = from /\ host' = [host EXCEPT ![h] = to]

OpenStore(h) ==
  /\ Goto(h, "down", "opened")
  /\ Exclusive => \A g \in Hosts : host[g] = "down"
  /\ opens < MaxOpens /\ opens' = opens + 1
  /\ UNCHANGED <<tableVars, processVars, delivered>>

\* Mutant: jobs that were still queued are not swept.
SweepStarted(row) ==
  IF row.state \in {"running", "exited"}
  THEN [state |-> "finalized", outcome |-> HostExited] ELSE row

\* Mutant: the UPDATE sets the state alone.
SweepState(row) ==
  IF row.state \in Unfinished THEN [row EXCEPT !.state = "finalized"] ELSE row

\* Mutant: the UPDATE has no WHERE clause.
SweepAll(row) ==
  IF row # NoJob THEN [state |-> "finalized", outcome |-> HostExited] ELSE row

\* the UPDATE of resurrect_stranded_jobs on one row
Sweep(row) ==
  IF row.state \in Unfinished
  THEN [state |-> "finalized", outcome |-> HostExited] ELSE row

ResurrectStranded(h) ==
  /\ Goto(h, "opened", "swept")
  /\ rows' = [j \in Jobs |-> Sweep(rows[j])]
  /\ UNCHANGED <<opens, missed, created, processVars, delivered>>

\* ORDER BY created_at_ms DESC LIMIT n
Newest(n) == {created[i] : i \in {k \in DOMAIN created : k > Len(created) - n}}

LoadHistory(h) ==
  /\ Goto(h, "swept", "up")
  /\ memory' = [memory EXCEPT ![h] =
       [j \in Jobs |-> IF j \in Newest(LoadLimit) THEN rows[j] ELSE NoJob]]
  /\ UNCHANGED <<opens, tableVars, driving, unsaved, delivered>>

\* The process dies, or closes the file: its drivers are gone.
Die(h) ==
  /\ host[h] # "down"
  /\ host' = [host EXCEPT ![h] = "down"]
  /\ memory' = [memory EXCEPT ![h] = Nothing]
  /\ driving' = [driving EXCEPT ![h] = {}]
  /\ unsaved' = [unsaved EXCEPT ![h] = {}]
  /\ UNCHANGED <<opens, tableVars, delivered>>

-----------------------------------------------------------------------------
(* Jobs.                                                                   *)

Queued == [state |-> "queued", outcome |-> "none"]

\* Runtime::spawn: the row, then the map, then the driver.  The row is there
\* before anything else can be seen of the job: when it cannot be written,
\* spawn returns the error and there is no job.
Spawn(h, j) ==
  /\ host[h] = "up" /\ j \notin {created[i] : i \in DOMAIN created}
  /\ created' = Append(created, j)
  /\ rows' = [rows EXCEPT ![j] = Queued]
  /\ memory' = [memory EXCEPT ![h][j] = Queued]
  /\ driving' = [driving EXCEPT ![h] = @ \cup {j}]
  /\ UNCHANGED <<host, opens, missed, unsaved, delivered>>

\* a successor of a snapshot in drive_job
Follows(old, new) ==
  \/ /\ old.state = "queued"
     /\ new = [state |-> "running", outcome |-> "none"]
  \/ /\ old.state = "running"
     /\ new = [state |-> "exited", outcome |-> "none"]
  \/ /\ old.state = "exited" \/ (old.state = "queued" /\ new.outcome = "Failed")
     /\ new.state = "finalized" /\ new.outcome \in Outcomes

\* update_snapshot
Advance(h, j) ==
  /\ j \in driving[h] \ unsaved[h]
  /\ \E new \in Records : /\ Follows(memory[h][j], new)
                          /\ memory' = [memory EXCEPT ![h][j] = new]
  /\ unsaved' = [unsaved EXCEPT ![h] = @ \cup {j}]
  /\ UNCHANGED <<host, opens, tableVars, driving, delivered>>

\* persist_snapshot: the row is replaced, whatever it held; an error is
\* dropped (`let _ = store.upsert_job(..)`) and the driver goes on.
Persist(h, j) ==
  /\ j \in unsaved[h]
  /\ \/ /\ rows' = [rows EXCEPT ![j] = memory[h][j]]
        /\ missed' = missed \ {j}
     \/ /\ StoreFaults
        /\ missed' = missed \cup {j} /\ rows' = rows
  /\ unsaved' = [unsaved EXCEPT ![h] = @ \ {j}]
  /\ UNCHANGED <<host, opens, created, memory, driving, delivered>>

\* Mutant: the outcome is sent before the row is written.
DeliverEarly(h, j) ==
  /\ j \in driving[h]
  /\ memory[h][j].state = "finalized"
  /\ delivered' = [delivered EXCEPT ![j] = memory[h][j].outcome]
  /\ driving' = [driving EXCEPT ![h] = @ \ {j}]
  /\ UNCHANGED <<host, opens, tableVars, memory, unsaved>>

\* outcome_tx.send and the end of drive_job
Deliver(h, j) ==
  /\ j \in driving[h] \ unsaved[h]
  /\ memory[h][j].state = "finalized"
  /\ delivered' = [delivered EXCEPT ![j] = memory[h][j].outcome]
  /\ driving' = [driving EXCEPT ![h] = @ \ {j}]
  /\ UNCHANGED <<host, opens, tableVars, memory, unsaved>>

HostStep(h) ==
  \/ OpenStore(h) \/ ResurrectStranded(h) \/ LoadHistory(h) \/ Die(h)
  \/ \E j \in Jobs : Spawn(h, j) \/ Advance(h, j) \/ Persist(h, j)
                       \/ Deliver(h, j)

\* Every process is down for good, the bound on opens being reached.
Over == (\A h \in Hosts : host[h] = "down") /\ opens = MaxOpens
          /\ UNCHANGED vars

Next == (\E h \in Hosts : HostStep(h)) \/ Over

Spec == Init /\ [][Next]_vars

-----------------------------------------------------------------------------
(* Runtime::job and JobsQuery::run.                                        *)

\* Runtime::job looks in memory first, then in the store.
JobAt(h, j) == IF memory[h][j] # NoJob THEN memory[h][j] ELSE rows[j]

\* Creation times: two jobs are created in each millisecond, and a query may
\* give a time in between.  The store keeps milliseconds.
CreatedAt(j) == CHOOSE i \in DOMAIN created : created[i] = j
Ms(t) == t \div 2
Present == {j \in Jobs : rows[j] # NoJob}

\* JobsQuery::matches, on a snapshot
Matches(q, j, job) ==
  /\ q.state # "any" => job.state = q.state
  /\ q.after <= CreatedAt(j) /\ CreatedAt(j) <= q.before
  /\ TagOf[j] = q.tag

\* Mutant: the lower bound of the WHERE clause is exclusive.
ExclusiveWhere(q, j) ==
  /\ q.state # "any" => rows[j].state = q.state
  /\ Ms(q.after) < Ms(CreatedAt(j)) /\ Ms(CreatedAt(j)) <= Ms(q.before)
  /\ <<q.tag, TagOf[j]>> \in Like

\* the WHERE clause list_jobs builds
Where(q, j) ==
  /\ q.state # "any" => rows[j].state = q.state
  /\ Ms(q.after) <= Ms(CreatedAt(j)) /\ Ms(CreatedAt(j)) <= Ms(q.before)
  /\ <<q.tag, TagOf[j]>> \in Like

Queries == [state : Unfinished \cup {"any", "finalized"}, tag : Tags,
            after : 1..Cardinality(Jobs), before : 1..Cardinality(Jobs)]

-----------------------------------------------------------------------------
(* Properties.                                                             *)

\* Once `build` has returned, Runtime::job finds every job in the history
\* that the process does not drive itself finalized, whether `build` loaded it
\* or not: a crash between any two steps of spawn, of a driver or of an
\* earlier `build` strands no job.  Memory and table disagree only on a job
\* this very process ended, whose last row write failed: Runtime::job tells
\* the outcome that was awaited, the row still shows an unfinished job.
HistoryIsTrue ==
  \A h \in Hosts, j \in Jobs :
    host[h] = "up" /\ j \notin driving[h] =>
      /\ JobAt(h, j).state \in {"absent", "finalized"}
      /\ JobAt(h, j) # rows[j] => /\ j \in missed
                                 /\ rows[j].state \in Unfinished
                                 /\ JobAt(h, j).outcome = delivered[j]

\* What awaiting a handle gave is what the table says for ever after.  Only
\* when the driver's last row write failed may the row say something else:
\* that the job is unfinished, and after the next `build` that its host
\* process exited, but never the outcome of another ending.
DeliveredSurvives ==
  \A j \in Jobs : delivered[j] # "none" =>
    \/ rows[j] = [state |-> "finalized", outcome |-> delivered[j]]
    \/ /\ j \in missed
       /\ \/ rows[j].state \in Unfinished
          \/ rows[j] = [state |-> "finalized", outcome |-> HostExited]

\* No later driver, sweep or crash changes a row once it is finalized.
FinalRowIsForever ==
  [][\A j \in Jobs : rows[j].state = "finalized" => rows'[j] = rows[j]]_vars

\* A query answered by the store finds every job that the same query answered
\* from memory would find, provided the row is not behind the snapshot and the
\* tag is plain: millisecond columns and LIKE only widen it.  A tag with a
\* backslash or a control character is escaped in tags_json and not in the
\* pattern, so the store may miss the very jobs that carry it.
QueriesFindAll ==
  \A h \in Hosts, j \in Present :
    host[h] = "up" /\ j \notin unsaved[h] \cup missed =>
      \A q \in Queries :
        Matches(q, j, JobAt(h, j)) /\ q.tag \in PlainTags => Where(q, j)

\* store.rs:290-291, "every Running/Exited job from a previous process": the
\* sweep leaves alone the jobs another process is driving.
OnlyPreviousProcesses ==
  \A h \in Hosts, j \in Jobs : j \in driving[h] => rows[j].outcome # HostExited
=============================================================================
