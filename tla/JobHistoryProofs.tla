--------------------------- MODULE JobHistoryProofs ---------------------------
(***************************************************************************)
(* Proofs of the safety properties of JobHistory, for any number of        *)
(* processes, jobs and crashes, when the database file is used by one      *)
(* process at a time.                                                      *)
(*                                                                         *)
(* The argument: a row that is not final belongs to a driver of the one    *)
(* process that is up, to none while no sweep has run yet, or to a job     *)
(* whose driver ended after the last write of the row failed (Lost); so a  *)
(* sweep never meets a driver, and a driver never meets a final row.       *)
(***************************************************************************)
EXTENDS JobHistory, FiniteSetTheorems, SequenceTheorems, TLAPS

Final == {"absent", "finalized"}

\* One process at a time, and what it holds before `build` has returned.
ProcessInv(h) ==
  /\ \A g \in Hosts : host[g] # "down" /\ host[h] # "down" => g = h
  /\ host[h] # "up" => driving[h] = {} /\ memory[h] = Nothing
  /\ unsaved[h] \subseteq driving[h]

\* A job whose driver has told the outcome after the last write of its row
\* failed: the snapshot is final and the row is not.
Lost(h, j) ==
  /\ j \in missed /\ rows[j].state \in Unfinished
  /\ delivered[j] # "none"
  /\ memory[h][j] = [state |-> "finalized", outcome |-> delivered[j]]

\* A driven job: its row is its snapshot, or an earlier one.
DrivenInv(h, j) ==
  j \in driving[h] =>
    /\ memory[h][j].state # "absent" /\ memory[h][j].outcome # HostExited
    /\ delivered[j] = "none"
    /\ IF j \in unsaved[h] \cup missed THEN rows[j].state \in Unfinished
                                        ELSE rows[j] = memory[h][j]

\* A job the process that is up does not drive: it is over.
HistoryInv(h, j) ==
  j \notin driving[h] =>
    /\ host[h] \in {"swept", "up"} => rows[j].state \in Final \/ Lost(h, j)
    /\ memory[h][j] # NoJob => memory[h][j] = rows[j] \/ Lost(h, j)

\* A job never submitted has left no trace; one delivered is in its row,
\* unless the last write of the row failed.
RowInv(j) ==
  /\ (\A i \in DOMAIN created : created[i] # j) =>
       rows[j] = NoJob /\ delivered[j] = "none" /\ j \notin missed
  /\ delivered[j] # "none" =>
       \/ rows[j] = [state |-> "finalized", outcome |-> delivered[j]]
       \/ /\ j \in missed
          /\ \/ rows[j].state \in Unfinished
             \/ rows[j] = [state |-> "finalized", outcome |-> HostExited]

StoreInv ==
  /\ TypeOK
  /\ \A h \in Hosts : ProcessInv(h)
  /\ \A h \in Hosts, j \in Jobs : DrivenInv(h, j) /\ HistoryInv(h, j)
  /\ \A j \in Jobs : RowInv(j)

-----------------------------------------------------------------------------
LEMMA RecordShapes ==
  /\ NoJob \in Records /\ Queued \in Records
  /\ NoJob.state = "absent"
  /\ \A r \in Records :
       /\ r.state \in Unfinished \cup Final
       /\ r.state = "absent" <=> r = NoJob
       /\ r.state \in Unfinished => r.outcome = "none"
       /\ r.state = "finalized" =>
            /\ r.outcome \in Outcomes \cup {HostExited}
            /\ r = [state |-> "finalized", outcome |-> r.outcome]
  BY DEF Records, NoJob, Queued, Unfinished, Final

\* The sweep finalizes what is not final and leaves the rest alone.
LEMMA SweepFinalizes ==
  ASSUME NEW r \in Records
  PROVE  /\ Sweep(r) \in Records /\ Sweep(r).state \in Final
         /\ r.state \in Final => Sweep(r) = r
<1>1. CASE r.state \in Unfinished
  <2>1. Sweep(r) = [state |-> "finalized", outcome |-> HostExited]
    BY <1>1 DEF Sweep
  <2>2. r.state \notin Final
    BY <1>1 DEF Unfinished, Final
  <2> QED BY <2>1, <2>2 DEF Records, Final
<1>2. CASE r.state \notin Unfinished
  <2>1. Sweep(r) = r
    BY <1>2 DEF Sweep
  <2> QED BY <1>2, <2>1, RecordShapes
<1> QED BY <1>1, <1>2

\* While one process is not down the others hold nothing.
LEMMA Alone ==
  ASSUME StoreInv, NEW h \in Hosts, host[h] # "down", NEW g \in Hosts, g # h
  PROVE  /\ host[g] = "down" /\ driving[g] = {} /\ unsaved[g] = {}
         /\ memory[g] = Nothing
<1>1. ProcessInv(h) /\ ProcessInv(g)
  BY DEF StoreInv
<1> QED BY <1>1 DEF ProcessInv

LEMMA InitHolds == Init => StoreInv
<1> SUFFICES ASSUME Init PROVE StoreInv
  OBVIOUS
<1>1. TypeOK
  BY RecordShapes, HistoryAssumption DEF Init, TypeOK, Nothing
<1>2. \A h \in Hosts : ProcessInv(h)
  BY DEF Init, ProcessInv
<1>3. \A h \in Hosts, j \in Jobs : DrivenInv(h, j) /\ HistoryInv(h, j)
  BY DEF Init, DrivenInv, HistoryInv, Nothing
<1>4. \A j \in Jobs : RowInv(j)
  BY DEF Init, RowInv, Nothing
<1> QED BY <1>1, <1>2, <1>3, <1>4 DEF StoreInv

-----------------------------------------------------------------------------
(* RuntimeBuilder::build and the end of a process.                         *)

LEMMA OpenKeeps ==
  ASSUME Exclusive, StoreInv, NEW h \in Hosts, OpenStore(h)
  PROVE  StoreInv'
<1>1. /\ host[h] = "down" /\ host' = [host EXCEPT ![h] = "opened"]
      /\ \A g \in Hosts : host[g] = "down"
      /\ opens < MaxOpens /\ opens' = opens + 1
      /\ UNCHANGED <<rows, missed, created, memory, driving, unsaved,
                     delivered>>
  BY DEF OpenStore, Goto, tableVars, processVars
<1>2. TypeOK'
  BY <1>1, HistoryAssumption DEF StoreInv, TypeOK
<1>3. ASSUME NEW g \in Hosts PROVE ProcessInv(g)'
  BY <1>1 DEF StoreInv, TypeOK, ProcessInv
<1>4. ASSUME NEW g \in Hosts, NEW j \in Jobs
      PROVE  DrivenInv(g, j)' /\ HistoryInv(g, j)'
  BY <1>1 DEF StoreInv, TypeOK, DrivenInv, HistoryInv, Lost
<1>5. ASSUME NEW j \in Jobs PROVE RowInv(j)'
  BY <1>1 DEF StoreInv, RowInv
<1> QED BY <1>2, <1>3, <1>4, <1>5 DEF StoreInv

LEMMA ResurrectKeeps ==
  ASSUME StoreInv, NEW h \in Hosts, ResurrectStranded(h)
  PROVE  StoreInv'
<1>1. /\ host[h] = "opened" /\ host' = [host EXCEPT ![h] = "swept"]
      /\ rows' = [j \in Jobs |-> Sweep(rows[j])]
      /\ UNCHANGED <<opens, missed, created, memory, driving, unsaved,
                     delivered>>
  BY DEF ResurrectStranded, Goto, processVars
<1>2. ASSUME NEW j \in Jobs
      PROVE  /\ rows'[j] \in Records /\ rows'[j].state \in Final
             /\ rows[j].state \in Final => rows'[j] = rows[j]
  BY <1>1, SweepFinalizes DEF StoreInv, TypeOK
<1>3. \A g \in Hosts : driving[g] = {} /\ memory[g] = Nothing
  BY <1>1, Alone DEF StoreInv, ProcessInv
<1>4. TypeOK'
  BY <1>1, <1>2 DEF StoreInv, TypeOK
<1>5. ASSUME NEW g \in Hosts PROVE ProcessInv(g)'
  BY <1>1, <1>3 DEF StoreInv, TypeOK, ProcessInv
<1>6. ASSUME NEW g \in Hosts, NEW j \in Jobs
      PROVE  DrivenInv(g, j)' /\ HistoryInv(g, j)'
  BY <1>1, <1>2, <1>3 DEF DrivenInv, HistoryInv, Lost, Nothing
<1>7. ASSUME NEW j \in Jobs PROVE RowInv(j)'
  <2>1. RowInv(j)
    BY DEF StoreInv
  <2>2. rows[j] = NoJob => rows[j].state \in Final
    BY RecordShapes DEF Final
  <2>3. ASSUME delivered[j] # "none"
        PROVE  \/ rows'[j] = [state |-> "finalized", outcome |-> delivered[j]]
               \/ /\ j \in missed
                  /\ rows'[j] = [state |-> "finalized", outcome |-> HostExited]
    <3>1. CASE rows[j].state \in Unfinished
      <4>1. rows'[j] = [state |-> "finalized", outcome |-> HostExited]
        BY <1>1, <3>1 DEF Sweep
      <4>2. rows[j] # [state |-> "finalized", outcome |-> delivered[j]]
        BY <3>1 DEF Unfinished
      <4> QED BY <2>1, <2>3, <3>1, <4>1, <4>2 DEF RowInv
    <3>2. CASE rows[j].state \notin Unfinished
      <4>1. rows'[j] = rows[j]
        BY <1>1, <3>2 DEF Sweep
      <4> QED BY <2>1, <2>3, <3>2, <4>1 DEF RowInv
    <3> QED BY <3>1, <3>2
  <2> QED BY <1>1, <1>2, <2>1, <2>2, <2>3 DEF RowInv
<1> QED BY <1>4, <1>5, <1>6, <1>7 DEF StoreInv

LEMMA LoadKeeps ==
  ASSUME StoreInv, NEW h \in Hosts, LoadHistory(h)
  PROVE  StoreInv'
<1>1. /\ host[h] = "swept" /\ host' = [host EXCEPT ![h] = "up"]
      /\ memory' = [memory EXCEPT ![h] =
           [j \in Jobs |-> IF j \in Newest(LoadLimit) THEN rows[j] ELSE NoJob]]
      /\ UNCHANGED <<opens, rows, missed, created, driving, unsaved,
                     delivered>>
  BY DEF LoadHistory, Goto, tableVars
<1>2. ASSUME NEW j \in Jobs
      PROVE  memory'[h][j] \in Records /\ memory'[h][j] \in {rows[j], NoJob}
  BY <1>1, RecordShapes DEF StoreInv, TypeOK
<1>3. \A g \in Hosts : /\ driving[g] = {}
                       /\ g # h => host'[g] = "down" /\ memory'[g] = Nothing
  BY <1>1, Alone DEF StoreInv, TypeOK, ProcessInv
<1>4. TypeOK'
  BY <1>1, <1>2, RecordShapes DEF StoreInv, TypeOK
<1>5. ASSUME NEW g \in Hosts PROVE ProcessInv(g)'
  BY <1>1, <1>3 DEF StoreInv, TypeOK, ProcessInv
<1>6. ASSUME NEW g \in Hosts, NEW j \in Jobs
      PROVE  DrivenInv(g, j)' /\ HistoryInv(g, j)'
  <2>0. j \notin driving[h] /\ j \notin driving[g]
    BY <1>3
  <2>1. DrivenInv(g, j)'
    BY <1>1, <2>0 DEF DrivenInv
  <2>2. HistoryInv(h, j)
    BY DEF StoreInv
  <2>3. rows[j].state \in Final
    <3>1. ~Lost(h, j)
      BY <1>1 DEF StoreInv, ProcessInv, Lost, Nothing, NoJob
    <3> QED BY <1>1, <2>0, <2>2, <3>1 DEF HistoryInv
  <2>4. memory'[g][j] # NoJob => memory'[g][j] = rows[j]
    <3>1. CASE g = h
      BY <1>2, <3>1
    <3>2. CASE g # h
      <4>1. memory'[g] = Nothing
        BY <1>3, <3>2
      <4> QED BY <4>1 DEF Nothing
    <3> QED BY <3>1, <3>2
  <2> QED BY <1>1, <2>1, <2>3, <2>4 DEF HistoryInv
<1>7. ASSUME NEW j \in Jobs PROVE RowInv(j)'
  BY <1>1 DEF StoreInv, RowInv
<1> QED BY <1>4, <1>5, <1>6, <1>7 DEF StoreInv

LEMMA DieKeeps ==
  ASSUME StoreInv, NEW h \in Hosts, Die(h)
  PROVE  StoreInv'
<1>1. /\ host[h] # "down" /\ host' = [host EXCEPT ![h] = "down"]
      /\ memory' = [memory EXCEPT ![h] = Nothing]
      /\ driving' = [driving EXCEPT ![h] = {}]
      /\ unsaved' = [unsaved EXCEPT ![h] = {}]
      /\ UNCHANGED <<opens, rows, missed, created, delivered>>
  BY DEF Die, tableVars
<1>2. \A g \in Hosts : /\ host'[g] = "down" /\ driving'[g] = {}
                       /\ unsaved'[g] = {} /\ memory'[g] = Nothing
  BY <1>1, Alone DEF StoreInv, TypeOK
<1>3. TypeOK'
  BY <1>1, RecordShapes DEF StoreInv, TypeOK, Nothing
<1>4. ASSUME NEW g \in Hosts PROVE ProcessInv(g)'
  BY <1>2 DEF ProcessInv, Nothing
<1>5. ASSUME NEW g \in Hosts, NEW j \in Jobs
      PROVE  DrivenInv(g, j)' /\ HistoryInv(g, j)'
  BY <1>2 DEF DrivenInv, HistoryInv, Lost, Nothing
<1>6. ASSUME NEW j \in Jobs PROVE RowInv(j)'
  BY <1>1 DEF StoreInv, RowInv
<1> QED BY <1>3, <1>4, <1>5, <1>6 DEF StoreInv

-----------------------------------------------------------------------------
(* Jobs.  A step touches one job of the one process that is up.            *)

\* A job driven by h: h is up, and nobody else has it.
LEMMA Driver ==
  ASSUME StoreInv, NEW h \in Hosts, NEW j \in driving[h]
  PROVE  host[h] = "up" /\ j \in Jobs
  BY DEF StoreInv, ProcessInv, TypeOK

LEMMA SpawnKeeps ==
  ASSUME StoreInv, NEW h \in Hosts, NEW j \in Jobs, Spawn(h, j)
  PROVE  StoreInv' /\ rows[j].state = "absent"
<1>1. /\ host[h] = "up" /\ \A i \in DOMAIN created : created[i] # j
      /\ created' = Append(created, j)
      /\ rows' = [rows EXCEPT ![j] = Queued]
      /\ memory' = [memory EXCEPT ![h][j] = Queued]
      /\ driving' = [driving EXCEPT ![h] = @ \cup {j}]
      /\ UNCHANGED <<host, opens, missed, unsaved, delivered>>
  BY DEF Spawn
<1>2. /\ rows \in [Jobs -> Records] /\ memory \in [Hosts -> [Jobs -> Records]]
      /\ driving \in [Hosts -> SUBSET Jobs] /\ created \in Seq(Jobs)
      /\ unsaved \in [Hosts -> SUBSET Jobs]
  BY DEF StoreInv, TypeOK
<1>3. rows[j] = NoJob /\ delivered[j] = "none" /\ j \notin missed
  BY <1>1 DEF StoreInv, RowInv
<1>4. j \notin unsaved[h]
  <2>1. j \in unsaved[h] => j \in driving[h] /\ rows[j].state \in Unfinished
    BY DEF StoreInv, ProcessInv, DrivenInv
  <2> QED BY <1>3, <2>1 DEF NoJob, Unfinished
<1>5. TypeOK'
  <2>1. created' \in Seq(Jobs)
    BY <1>1, <1>2
  <2>2. memory' \in [Hosts -> [Jobs -> Records]] /\ rows' \in [Jobs -> Records]
    BY <1>1, <1>2, RecordShapes
  <2> QED BY <1>1, <1>2, <2>1, <2>2 DEF StoreInv, TypeOK
<1>6. \A g \in Hosts : g # h => /\ host'[g] = "down" /\ driving'[g] = {}
                                /\ unsaved'[g] = {} /\ memory'[g] = Nothing
  BY <1>1, <1>2, Alone
<1>7. ASSUME NEW g \in Hosts PROVE ProcessInv(g)'
  BY <1>1, <1>2 DEF StoreInv, ProcessInv
<1>8. ASSUME NEW g \in Hosts, NEW k \in Jobs
      PROVE  DrivenInv(g, k)' /\ HistoryInv(g, k)'
  <2>1. CASE g # h
    BY <1>6, <2>1 DEF DrivenInv, HistoryInv, Lost, Nothing
  <2>2. CASE g = h /\ k # j
    <3>1. /\ memory'[h][k] = memory[h][k] /\ rows'[k] = rows[k]
          /\ k \in driving'[h] <=> k \in driving[h]
      BY <1>1, <1>2, <2>2
    <3>2. DrivenInv(h, k) /\ HistoryInv(h, k)
      BY DEF StoreInv
    <3> QED BY <1>1, <2>2, <3>1, <3>2 DEF DrivenInv, HistoryInv, Lost
  <2>3. CASE g = h /\ k = j
    <3>1. memory'[h][j] = Queued /\ rows'[j] = Queued /\ j \in driving'[h]
      BY <1>1, <1>2
    <3>2. Queued.state # "absent" /\ Queued.outcome # HostExited
      BY DEF Queued, HostExited
    <3> QED BY <1>1, <1>3, <1>4, <2>3, <3>1, <3>2 DEF DrivenInv, HistoryInv
  <2> QED BY <2>1, <2>2, <2>3
<1>9. ASSUME NEW k \in Jobs PROVE RowInv(k)'
  <2>1. RowInv(k)
    BY DEF StoreInv
  <2>2. \E i \in DOMAIN created' : created'[i] = j
    <3>1. /\ Len(created) + 1 \in DOMAIN Append(created, j)
          /\ Append(created, j)[Len(created) + 1] = j
      BY <1>2
    <3> QED BY <1>1, <3>1
  <2>3. \A i \in DOMAIN created : i \in DOMAIN created' /\ created'[i] = created[i]
    <3>1. \A i \in DOMAIN created : /\ i \in DOMAIN Append(created, j)
                                    /\ Append(created, j)[i] = created[i]
      BY <1>2
    <3> QED BY <1>1, <3>1
  <2>4. CASE k = j
    BY <1>1, <1>3, <2>2, <2>4 DEF RowInv
  <2>5. CASE k # j
    BY <1>1, <1>2, <2>1, <2>3, <2>5 DEF RowInv
  <2> QED BY <2>4, <2>5
<1> QED BY <1>3, <1>5, <1>7, <1>8, <1>9 DEF StoreInv, NoJob

LEMMA AdvanceKeeps ==
  ASSUME StoreInv, NEW h \in Hosts, NEW j \in Jobs, Advance(h, j)
  PROVE  StoreInv'
<1>1. PICK new \in Records :
        /\ j \in driving[h] \ unsaved[h]
        /\ Follows(memory[h][j], new)
        /\ memory' = [memory EXCEPT ![h][j] = new]
        /\ unsaved' = [unsaved EXCEPT ![h] = @ \cup {j}]
        /\ UNCHANGED <<host, opens, rows, missed, created, driving, delivered>>
  BY DEF Advance, tableVars
<1>2. /\ rows \in [Jobs -> Records] /\ memory \in [Hosts -> [Jobs -> Records]]
      /\ driving \in [Hosts -> SUBSET Jobs] /\ unsaved \in [Hosts -> SUBSET Jobs]
  BY DEF StoreInv, TypeOK
<1>3. host[h] = "up"
  BY <1>1, Driver
<1>4. rows[j].state \in Unfinished /\ delivered[j] = "none"
  <2>1. /\ delivered[j] = "none"
        /\ rows[j].state \in Unfinished \/ rows[j] = memory[h][j]
    BY <1>1 DEF StoreInv, DrivenInv
  <2> QED BY <1>1, <2>1 DEF Follows, Unfinished
<1>5. new.state # "absent" /\ new.outcome # HostExited
  BY <1>1 DEF Follows, Outcomes, HostExited
<1>6. TypeOK'
  BY <1>1, <1>2 DEF StoreInv, TypeOK
<1>7. \A g \in Hosts : g # h => /\ host'[g] = "down" /\ driving'[g] = {}
                                /\ unsaved'[g] = {} /\ memory'[g] = Nothing
  BY <1>1, <1>2, <1>3, Alone
<1>8. ASSUME NEW g \in Hosts PROVE ProcessInv(g)'
  <2>1. ProcessInv(g)
    BY DEF StoreInv
  <2> QED BY <1>1, <1>2, <1>3, <1>7, <2>1 DEF ProcessInv
<1>9. ASSUME NEW g \in Hosts, NEW k \in Jobs
      PROVE  DrivenInv(g, k)' /\ HistoryInv(g, k)'
  <2>1. CASE g # h
    BY <1>7, <2>1 DEF DrivenInv, HistoryInv, Lost, Nothing
  <2>2. CASE g = h /\ k # j
    <3>1. memory'[h][k] = memory[h][k] /\ (k \in unsaved'[h] <=> k \in unsaved[h])
      BY <1>1, <1>2, <2>2
    <3>2. DrivenInv(h, k) /\ HistoryInv(h, k)
      BY DEF StoreInv
    <3> QED BY <1>1, <2>2, <3>1, <3>2 DEF DrivenInv, HistoryInv, Lost
  <2>3. CASE g = h /\ k = j
    <3>1. memory'[h][j] = new /\ j \in unsaved'[h]
      BY <1>1, <1>2
    <3> QED BY <1>1, <1>4, <1>5, <2>3, <3>1 DEF DrivenInv, HistoryInv
  <2> QED BY <2>1, <2>2, <2>3
<1>10. ASSUME NEW k \in Jobs PROVE RowInv(k)'
  BY <1>1 DEF StoreInv, RowInv
<1> QED BY <1>6, <1>8, <1>9, <1>10 DEF StoreInv

LEMMA PersistKeeps ==
  ASSUME StoreInv, NEW h \in Hosts, NEW j \in Jobs, Persist(h, j)
  PROVE  StoreInv' /\ rows[j].state \in Unfinished
<1>1. /\ j \in unsaved[h]
      /\ \/ /\ rows' = [rows EXCEPT ![j] = memory[h][j]]
            /\ missed' = missed \ {j}
         \/ rows' = rows /\ missed' = missed \cup {j}
      /\ unsaved' = [unsaved EXCEPT ![h] = @ \ {j}]
      /\ UNCHANGED <<host, opens, created, memory, driving, delivered>>
  BY DEF Persist
<1>2. /\ rows \in [Jobs -> Records] /\ memory \in [Hosts -> [Jobs -> Records]]
      /\ driving \in [Hosts -> SUBSET Jobs] /\ unsaved \in [Hosts -> SUBSET Jobs]
  BY DEF StoreInv, TypeOK
<1>3. j \in driving[h] /\ host[h] = "up"
  BY <1>1, Driver DEF StoreInv, ProcessInv
<1>4. /\ rows[j].state \in Unfinished /\ delivered[j] = "none"
      /\ memory[h][j].state # "absent" /\ memory[h][j].outcome # HostExited
  BY <1>1, <1>3 DEF StoreInv, DrivenInv
<1>5. TypeOK'
  <2>1. rows' \in [Jobs -> Records]
    BY <1>1, <1>2
  <2>2. missed' \subseteq Jobs
    BY <1>1 DEF StoreInv, TypeOK
  <2> QED BY <1>1, <1>2, <2>1, <2>2 DEF StoreInv, TypeOK
<1>6. \A g \in Hosts : g # h => /\ host'[g] = "down" /\ driving'[g] = {}
                                /\ unsaved'[g] = {} /\ memory'[g] = Nothing
  BY <1>1, <1>2, <1>3, Alone
<1>7. ASSUME NEW g \in Hosts PROVE ProcessInv(g)'
  <2>1. ProcessInv(g)
    BY DEF StoreInv
  <2> QED BY <1>1, <1>2, <1>6, <2>1 DEF ProcessInv
<1>8. ASSUME NEW g \in Hosts, NEW k \in Jobs
      PROVE  DrivenInv(g, k)' /\ HistoryInv(g, k)'
  <2>1. CASE g # h
    BY <1>6, <2>1 DEF DrivenInv, HistoryInv, Lost, Nothing
  <2>2. CASE g = h /\ k # j
    <3>1. /\ rows'[k] = rows[k] /\ (k \in unsaved'[h] <=> k \in unsaved[h])
          /\ k \in missed' <=> k \in missed
      BY <1>1, <1>2, <2>2
    <3>2. DrivenInv(h, k) /\ HistoryInv(h, k)
      BY DEF StoreInv
    <3> QED BY <1>1, <2>2, <3>1, <3>2 DEF DrivenInv, HistoryInv, Lost
  <2>3. CASE g = h /\ k = j
    <3>1. /\ j \notin unsaved'[h]
          /\ \/ rows'[j] = memory[h][j] /\ j \notin missed'
             \/ rows'[j] = rows[j] /\ j \in missed'
      BY <1>1, <1>2
    <3> QED BY <1>1, <1>3, <1>4, <2>3, <3>1 DEF DrivenInv, HistoryInv
  <2> QED BY <2>1, <2>2, <2>3
<1>9. ASSUME NEW k \in Jobs PROVE RowInv(k)'
  <2>1. RowInv(k) /\ RowInv(j)
    BY DEF StoreInv
  <2>2. \E i \in DOMAIN created : created[i] = j
    <3>1. rows[j] # NoJob
      BY <1>4 DEF NoJob, Unfinished
    <3> QED BY <2>1, <3>1 DEF RowInv
  <2>3. k # j => rows'[k] = rows[k] /\ (k \in missed' <=> k \in missed)
    BY <1>1, <1>2
  <2> QED BY <1>1, <1>4, <2>1, <2>2, <2>3 DEF RowInv
<1> QED BY <1>4, <1>5, <1>7, <1>8, <1>9 DEF StoreInv

LEMMA DeliverKeeps ==
  ASSUME StoreInv, NEW h \in Hosts, NEW j \in Jobs, Deliver(h, j)
  PROVE  StoreInv'
<1>1. /\ j \in driving[h] \ unsaved[h]
      /\ memory[h][j].state = "finalized"
      /\ delivered' = [delivered EXCEPT ![j] = memory[h][j].outcome]
      /\ driving' = [driving EXCEPT ![h] = @ \ {j}]
      /\ UNCHANGED <<host, opens, rows, missed, created, memory, unsaved>>
  BY DEF Deliver, tableVars
<1>2. /\ rows \in [Jobs -> Records] /\ memory \in [Hosts -> [Jobs -> Records]]
      /\ driving \in [Hosts -> SUBSET Jobs] /\ unsaved \in [Hosts -> SUBSET Jobs]
      /\ delivered \in [Jobs -> Outcomes \cup {"none"}]
  BY DEF StoreInv, TypeOK
<1>3. host[h] = "up"
  BY <1>1, Driver
<1>4. /\ \/ rows[j] = memory[h][j]
         \/ j \in missed /\ rows[j].state \in Unfinished
      /\ memory[h][j].outcome # HostExited
  BY <1>1 DEF StoreInv, DrivenInv
<1>5. /\ memory[h][j].outcome \in Outcomes
      /\ memory[h][j] = [state |-> "finalized", outcome |-> memory[h][j].outcome]
  BY <1>1, <1>2, <1>4, RecordShapes
<1>6. TypeOK'
  BY <1>1, <1>2, <1>5 DEF StoreInv, TypeOK
<1>7. \A g \in Hosts : g # h => /\ host'[g] = "down" /\ driving'[g] = {}
                                /\ unsaved'[g] = {} /\ memory'[g] = Nothing
  BY <1>1, <1>2, <1>3, Alone
<1>8. ASSUME NEW g \in Hosts PROVE ProcessInv(g)'
  <2>1. ProcessInv(g)
    BY DEF StoreInv
  <2> QED BY <1>1, <1>2, <1>3, <1>7, <2>1 DEF ProcessInv
<1>9. ASSUME NEW g \in Hosts, NEW k \in Jobs
      PROVE  DrivenInv(g, k)' /\ HistoryInv(g, k)'
  <2>1. CASE g # h
    BY <1>7, <2>1 DEF DrivenInv, HistoryInv, Lost, Nothing
  <2>2. CASE g = h /\ k # j
    <3>1. delivered'[k] = delivered[k] /\ (k \in driving'[h] <=> k \in driving[h])
      BY <1>1, <1>2, <2>2
    <3>2. DrivenInv(h, k) /\ HistoryInv(h, k)
      BY DEF StoreInv
    <3> QED BY <1>1, <2>2, <3>1, <3>2 DEF DrivenInv, HistoryInv, Lost
  <2>3. CASE g = h /\ k = j
    <3>1. j \notin driving'[h]
      BY <1>1, <1>2
    <3>2. delivered'[j] = memory[h][j].outcome /\ memory[h][j].outcome # "none"
      BY <1>1, <1>2, <1>5 DEF Outcomes
    <3>3. \/ rows[j].state \in Final /\ rows[j] = memory[h][j]
          \/ Lost(h, j)'
      BY <1>1, <1>4, <1>5, <3>2 DEF Final, Lost
    <3> QED BY <1>1, <2>3, <3>1, <3>3 DEF DrivenInv, HistoryInv
  <2> QED BY <2>1, <2>2, <2>3
<1>10. ASSUME NEW k \in Jobs PROVE RowInv(k)'
  <2>1. RowInv(k) /\ RowInv(j)
    BY DEF StoreInv
  <2>2. \E i \in DOMAIN created : created[i] = j
    <3>1. rows[j] # NoJob
      BY <1>1, <1>4 DEF NoJob, Unfinished
    <3> QED BY <2>1, <3>1 DEF RowInv
  <2>3. k # j => delivered'[k] = delivered[k]
    BY <1>1, <1>2
  <2>4. delivered'[j] = memory[h][j].outcome
    BY <1>1, <1>2
  <2>5. \/ rows[j] = [state |-> "finalized", outcome |-> delivered'[j]]
        \/ j \in missed /\ rows[j].state \in Unfinished
    BY <1>4, <1>5, <2>4
  <2>6. CASE k = j
    BY <1>1, <2>2, <2>5, <2>6 DEF RowInv
  <2>7. CASE k # j
    BY <1>1, <2>1, <2>3, <2>7 DEF RowInv
  <2> QED BY <2>6, <2>7
<1> QED BY <1>6, <1>8, <1>9, <1>10 DEF StoreInv

-----------------------------------------------------------------------------
(* The theorems.                                                           *)

\* One step: the invariant is kept and no final row changes.
LEMMA NextKeeps ==
  ASSUME Exclusive, StoreInv, [Next]_vars
  PROVE  /\ StoreInv'
         /\ \A j \in Jobs : rows[j].state = "finalized" => rows'[j] = rows[j]
<1> DEFINE Same(k) == rows[k].state = "finalized" => rows'[k] = rows[k]
<1>1. ASSUME NEW h \in Hosts, HostStep(h)
      PROVE  StoreInv' /\ \A k \in Jobs : Same(k)
  <2>1. CASE OpenStore(h)
    BY <2>1, OpenKeeps DEF OpenStore, tableVars
  <2>2. CASE ResurrectStranded(h)
    <3>1. \A k \in Jobs : Same(k)
      BY <2>2, SweepFinalizes DEF ResurrectStranded, StoreInv, TypeOK, Final
    <3> QED BY <2>2, <3>1, ResurrectKeeps
  <2>3. CASE LoadHistory(h)
    BY <2>3, LoadKeeps DEF LoadHistory, tableVars
  <2>4. CASE Die(h)
    BY <2>4, DieKeeps DEF Die, tableVars
  <2>5. ASSUME NEW j \in Jobs, Spawn(h, j) PROVE StoreInv' /\ \A k \in Jobs : Same(k)
    <3>1. rows[j].state = "absent" /\ StoreInv'
      BY <2>5, SpawnKeeps
    <3>2. \A k \in Jobs \ {j} : rows'[k] = rows[k]
      BY <2>5 DEF Spawn, StoreInv, TypeOK
    <3> QED BY <3>1, <3>2
  <2>6. ASSUME NEW j \in Jobs, Advance(h, j)
        PROVE  StoreInv' /\ \A k \in Jobs : Same(k)
    BY <2>6, AdvanceKeeps DEF Advance, tableVars
  <2>7. ASSUME NEW j \in Jobs, Persist(h, j)
        PROVE  StoreInv' /\ \A k \in Jobs : Same(k)
    <3>1. rows[j].state # "finalized" /\ StoreInv'
      BY <2>7, PersistKeeps DEF Unfinished
    <3>2. \A k \in Jobs \ {j} : rows'[k] = rows[k]
      BY <2>7 DEF Persist, StoreInv, TypeOK
    <3> QED BY <3>1, <3>2
  <2>8. ASSUME NEW j \in Jobs, Deliver(h, j)
        PROVE  StoreInv' /\ \A k \in Jobs : Same(k)
    BY <2>8, DeliverKeeps DEF Deliver, tableVars
  <2> HIDE DEF Same
  <2> QED BY <1>1, <2>1, <2>2, <2>3, <2>4, <2>5, <2>6, <2>7, <2>8 DEF HostStep
<1>2. CASE UNCHANGED vars
  <2>1. UNCHANGED <<host, opens, rows, missed, created, memory, driving,
                    unsaved, delivered>>
    BY <1>2 DEF vars, tableVars, processVars
  <2>2. StoreInv'
    BY <2>1 DEF StoreInv, TypeOK, ProcessInv, DrivenInv, HistoryInv, RowInv,
                  Lost
  <2> QED BY <2>1, <2>2
<1> QED BY <1>1, <1>2 DEF Next, Over

\* One process at a time: the invariant of the table and the snapshots, row
\* writes that fail included.
THEOREM StoreInvariant == ASSUME Exclusive PROVE Spec => []StoreInv
<1>1. StoreInv /\ [Next]_vars => StoreInv'
  BY NextKeeps
<1> QED BY <1>1, InitHolds, PTL DEF Spec

\* After `build`, whatever crashes and failed writes came before, Runtime::job
\* finds every job this process does not drive final; memory and table agree
\* on it unless its driver's last row write failed in this very process.
THEOREM HistoryHolds == ASSUME Exclusive PROVE Spec => []HistoryIsTrue
<1>1. ASSUME StoreInv PROVE HistoryIsTrue
  <2> SUFFICES ASSUME NEW h \in Hosts, NEW j \in Jobs, host[h] = "up",
                      j \notin driving[h]
               PROVE  /\ JobAt(h, j).state \in Final
                      /\ JobAt(h, j) # rows[j] =>
                           /\ j \in missed /\ rows[j].state \in Unfinished
                           /\ JobAt(h, j).outcome = delivered[j]
    BY DEF HistoryIsTrue, Final
  <2>1. HistoryInv(h, j)
    BY <1>1 DEF StoreInv
  <2>2. CASE Lost(h, j)
    <3>1. JobAt(h, j) = [state |-> "finalized", outcome |-> delivered[j]]
      BY <2>2 DEF Lost, JobAt, NoJob
    <3> QED BY <2>2, <3>1 DEF Lost, Final
  <2>3. CASE ~Lost(h, j)
    <3>1. JobAt(h, j) = rows[j] /\ rows[j].state \in Final
      BY <2>1, <2>3 DEF HistoryInv, JobAt
    <3> QED BY <3>1
  <2> QED BY <2>2, <2>3
<1> QED BY <1>1, StoreInvariant, PTL

\* An outcome handed to a caller is in the table for good, unless the last
\* write of the row failed: then the row is unfinished or, after a later
\* `build`, says that the host process exited.
THEOREM DeliveredHolds == ASSUME Exclusive PROVE Spec => []DeliveredSurvives
<1>1. StoreInv => DeliveredSurvives
  BY DEF StoreInv, RowInv, DeliveredSurvives
<1> QED BY <1>1, StoreInvariant, PTL

\* A store whose writes succeed misses no row: what the theorems say of missed
\* rows is then empty, and memory and table agree on every job not driven.
THEOREM WorkingStore == ASSUME ~StoreFaults PROVE Spec => [](missed = {})
<1>1. Init => missed = {}
  BY DEF Init
<1>2. missed = {} /\ [Next]_vars => (missed = {})'
  BY DEF Next, vars, Over, tableVars, HostStep, OpenStore, ResurrectStranded,
         LoadHistory, Die, Spawn, Advance, Persist, Deliver
<1> QED BY <1>1, <1>2, PTL DEF Spec

\* No step of any process changes a row that is final, whether or not its
\* write succeeds.
THEOREM FinalRows == ASSUME Exclusive PROVE Spec => FinalRowIsForever
<1>1. StoreInv /\ [Next]_vars
        => [\A j \in Jobs : rows[j].state = "finalized" => rows'[j] = rows[j]]_vars
  BY NextKeeps
<1> QED BY <1>1, StoreInvariant, PTL DEF Spec, FinalRowIsForever

LEMMA MsMonotone ==
  ASSUME NEW a \in Nat, NEW b \in Nat, a <= b PROVE Ms(a) <= Ms(b)
BY DEF Ms

\* What the store answers to a query by a plain tag has every job the answer
\* from memory has, rows whose last write failed or is still to come left out
\* (runtime/query.rs, matches; store.rs, list_jobs).
THEOREM QueriesWiden ==
  ASSUME Exclusive, IsFiniteSet(Jobs) PROVE Spec => []QueriesFindAll
<1>1. StoreInv => QueriesFindAll
  <2> SUFFICES ASSUME StoreInv, NEW h \in Hosts, NEW q \in Queries, NEW j \in Present,
                      host[h] = "up", j \notin unsaved[h] \cup missed,
                      q.tag \in PlainTags, Matches(q, j, JobAt(h, j))
               PROVE  Where(q, j)
    BY DEF QueriesFindAll
  <2>1. j \in Jobs /\ rows[j] # NoJob
    BY DEF Present
  <2>2. JobAt(h, j) = rows[j]
    <3>1. memory[h][j] # NoJob => memory[h][j] = rows[j]
      BY <2>1 DEF StoreInv, DrivenInv, HistoryInv, Lost
    <3> QED BY <3>1 DEF JobAt
  <2>3. CreatedAt(j) \in Nat
    <3>1. \E i \in DOMAIN created : created[i] = j
      BY <2>1 DEF StoreInv, RowInv
    <3>2. CreatedAt(j) \in DOMAIN created
      BY <3>1 DEF CreatedAt
    <3>3. DOMAIN created = 1..Len(created)
      BY LenProperties DEF StoreInv, TypeOK
    <3> QED BY <3>2, <3>3
  <2>4. q.after \in Nat /\ q.before \in Nat
    <3>1. Cardinality(Jobs) \in Nat
      BY FS_CardinalityType
    <3>2. q.after \in 1..Cardinality(Jobs) /\ q.before \in 1..Cardinality(Jobs)
      BY DEF Queries
    <3> QED BY <3>1, <3>2
  <2>5. /\ q.after <= CreatedAt(j) /\ CreatedAt(j) <= q.before
        /\ q.state # "any" => rows[j].state = q.state
        /\ TagOf[j] = q.tag
    BY <2>2 DEF Matches
  <2>6. Ms(q.after) <= Ms(CreatedAt(j)) /\ Ms(CreatedAt(j)) <= Ms(q.before)
    BY <2>3, <2>4, <2>5, MsMonotone
  <2>7. <<q.tag, TagOf[j]>> \in Like
    BY <2>1, <2>5, HistoryAssumption
  <2> QED BY <2>5, <2>6, <2>7 DEF Where
<1> QED BY <1>1, StoreInvariant, PTL

\* Every variable keeps its type.
THEOREM TypeCorrect == ASSUME Exclusive PROVE Spec => []TypeOK
<1>1. StoreInv => TypeOK
  BY DEF StoreInv
<1> QED BY <1>1, StoreInvariant, PTL
=============================================================================
