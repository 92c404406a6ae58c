--------------------------- MODULE JobRuntimeProofs ---------------------------
(***************************************************************************)
(* RuntimeInv is an invariant of JobRuntime, and what follows from it.     *)
(***************************************************************************)
EXTENDS JobRuntimeInv, FiniteSetTheorems, TLAPS

-----------------------------------------------------------------------------
(* Types: the effects several actions share, then the actions.             *)

LEMMA LimitType == Limit \in Nat \ {0}
  BY RuntimeAssumption DEF Limit

LEMMA BroadcastType ==
  ASSUME TypeOK, NEW j \in Jobs, NEW e \in Events, Broadcast(j, e)
  PROVE  bus' \in [Jobs -> Seq(Events)]
  BY DEF TypeOK, Broadcast

LEMMA InsertType ==
  ASSUME TypeOK, NEW j \in Jobs, NEW e \in Events, InsertEvent(j, e)
  PROVE  log' \in [Jobs -> Seq(Events)]
  <1>1. CASE log' = [log EXCEPT ![j] = Append(@, e)]
    <2>1. Append(log[j], e) \in Seq(Events)
      BY DEF TypeOK
    <2> QED BY <1>1, <2>1 DEF TypeOK
  <1>2. CASE log' = log
    BY <1>2 DEF TypeOK
  <1> QED BY <1>1, <1>2 DEF InsertEvent

LEMMA PersistType ==
  ASSUME TypeOK, NEW j \in Jobs, PersistSnapshot(j)
  PROVE  row' \in [Jobs -> Snapshots]
  <1>1. CASE row' = [row EXCEPT ![j] = snapshot[j]]
    BY <1>1 DEF TypeOK
  <1>2. CASE row' = row
    BY <1>2 DEF TypeOK
  <1> QED BY <1>1, <1>2 DEF PersistSnapshot

LEMMA GotoType ==
  ASSUME TypeOK, NEW j \in Jobs, NEW from, NEW to \in DriverPoints,
         Goto(j, from, to)
  PROVE  pc' \in [Jobs -> DriverPoints]
  BY DEF TypeOK, Goto

LEMMA WaitGotoType ==
  ASSUME TypeOK, NEW j \in Jobs, NEW from, NEW to \in WaitPoints,
         WaitGoto(j, from, to)
  PROVE  wpc' \in [Jobs -> WaitPoints]
  BY DEF TypeOK, WaitGoto

\* The three ways update_snapshot is used here.
LEMMA UpdateType ==
  ASSUME NEW r \in Snapshots, NEW st \in JobStates,
         NEW x \in Statuses \cup {"none"}, NEW o \in Outcomes \cup {"none"}
  PROVE  /\ [r EXCEPT !.state = st] \in Snapshots
         /\ [r EXCEPT !.state = st, !.exit = x] \in Snapshots
         /\ [r EXCEPT !.state = st, !.outcome = o] \in Snapshots
  BY DEF Snapshots

LEMMA EmitSendTypeOK ==
  ASSUME TypeOK, NEW j \in Jobs, NEW from, NEW to \in DriverPoints,
         NEW e \in Events, EmitSend(j, from, to, e)
  PROVE  TypeOK'
  BY BroadcastType, GotoType
     DEF EmitSend, TypeOK, storeVars, localVars, outerVars, clientVars,
         waitVars, osVars

LEMMA EmitInsertTypeOK ==
  ASSUME TypeOK, NEW j \in Jobs, NEW from, NEW to \in DriverPoints,
         NEW e \in Events, EmitInsert(j, from, to, e)
  PROVE  TypeOK'
  BY InsertType, GotoType
     DEF EmitInsert, TypeOK, localVars, outerVars, clientVars, waitVars, osVars

LEMMA UpdateTypeOK ==
  ASSUME TypeOK, NEW j \in Jobs, NEW from, NEW to \in DriverPoints,
         NEW job \in Snapshots, Update(j, from, to, job)
  PROVE  TypeOK'
  BY GotoType
     DEF Update, TypeOK, storeVars, localVars, outerVars, clientVars,
         waitVars, osVars

LEMMA PersistTypeOK ==
  ASSUME TypeOK, NEW j \in Jobs, NEW from, NEW to \in DriverPoints,
         Persist(j, from, to)
  PROVE  TypeOK'
  BY PersistType, GotoType
     DEF Persist, TypeOK, localVars, outerVars, clientVars, waitVars, osVars

\* A step that moves the driver and changes no more than the permits, the
\* group and the driver's locals.
LEMMA QuietTypeOK ==
  ASSUME TypeOK, NEW j \in Jobs, NEW from, NEW to \in DriverPoints,
         Goto(j, from, to), Quietly,
         permits' \in Nat,
         verdict' \in [Jobs -> Outcomes \cup {"none"}],
         UNCHANGED <<eof, childExited, status, doomed, pipe, broken>>,
         proc' \in [Jobs -> [Members -> {"none", "alive", "dead"}]],
         holds' \in [Jobs -> [Members -> SUBSET Streams]],
         group' \in [Jobs -> SUBSET Members]
  PROVE  TypeOK'
  BY GotoType DEF Quietly, TypeOK, storeVars, clientVars, waitVars

\* A step of the wait task that signals.
LEMMA SignalTypeOK ==
  ASSUME TypeOK, NEW j \in Jobs, NEW from, NEW to \in WaitPoints,
         WaitGoto(j, from, to), NEW hit \in SUBSET Alive(j), Signal(j, hit),
         Elsewhere
  PROVE  TypeOK'
  BY WaitGotoType
     DEF Signal, Elsewhere, TypeOK, Alive, storeVars, localVars, clientVars

LEMMA InitTypeOK == Init => TypeOK
  BY LimitType DEF Init, TypeOK, NoJob, Snapshots, JobStates, Exits, Statuses, Outcomes,
     DriverPoints, WaitPoints, Streams, Members

LEMMA SpawnTypeOK ==
  ASSUME TypeOK, NEW j \in Jobs, SpawnStep(j) \/ SpawnTail(j)
  PROVE  TypeOK'
  <1>1. CASE SpawnJob(j)
    <2>1. QueuedJob \in Snapshots
      BY DEF QueuedJob, NoJob, Snapshots, JobStates
    <2>2. pc' \in [Jobs -> DriverPoints]
      BY <1>1, GotoType DEF SpawnJob, DriverPoints
    <2> QED BY <1>1, <2>1, <2>2
            DEF SpawnJob, TypeOK, localVars, outerVars, clientVars, waitVars,
                osVars
  <1>2. CASE SpawnRefused(j)
    BY <1>2, QuietTypeOK
       DEF SpawnRefused, TypeOK, localVars, osVars, DriverPoints
  <1>3. CASE AnnounceCreated(j)
    BY <1>3, EmitSendTypeOK DEF AnnounceCreated, DriverPoints, Events
  <1>4. CASE LogCreated(j)
    BY <1>4, EmitInsertTypeOK DEF LogCreated, DriverPoints, Events
  <1> QED BY <1>1, <1>2, <1>3, <1>4 DEF SpawnStep, SpawnTail

LEMMA ClientTypeOK ==
  ASSUME TypeOK, NEW j \in Jobs, ClientStep(j)
  PROVE  TypeOK'
  BY DEF ClientStep, CancelCheck, CancelFire, TypeOK, storeVars, localVars,
     waitVars, osVars

LEMMA ProcessTypeOK ==
  ASSUME TypeOK, NEW j \in Jobs, ProcessStep(j)
  PROVE  TypeOK'
  <1> USE DEF ClientsAndTasks, clientVars, storeVars, localVars, waitVars
  <1>1. ASSUME NEW m \in Members, Exit(j, m) \/ Die(j, m)
        PROVE  TypeOK'
    <2>1. /\ proc' \in [Jobs -> [Members -> {"none", "alive", "dead"}]]
          /\ holds' \in [Jobs -> [Members -> SUBSET Streams]]
      <3>1. Terminated(j, m)
        BY <1>1 DEF Exit, Die
      <3> QED BY <3>1 DEF Terminated, TypeOK
    <2>2. status' \in [Jobs -> Exits \cup {"none"}]
      BY <1>1 DEF Exit, Die, TypeOK, Exits
    <2> QED BY <1>1, <2>1, <2>2 DEF Exit, Die, TypeOK
  <1>2. CASE ForkKin(j)
    <2>1. proc' \in [Jobs -> [Members -> {"none", "alive", "dead"}]]
      BY <1>2 DEF ForkKin, TypeOK, Members
    <2>2. holds' \in [Jobs -> [Members -> SUBSET Streams]]
      BY <1>2 DEF ForkKin, TypeOK, Members
    <2>3. group' \in [Jobs -> SUBSET Members]
      BY <1>2 DEF ForkKin, TypeOK, Members
    <2> QED BY <1>2, <2>1, <2>2, <2>3 DEF ForkKin, TypeOK
  <1>3. ASSUME NEW m \in Members, NEW s \in Streams, Write(j, m, s)
        PROVE  TypeOK'
    BY <1>3 DEF Write, TypeOK
  <1>4. ASSUME NEW m \in Members, NEW s \in Streams, Close(j, m, s)
        PROVE  TypeOK'
    BY <1>4 DEF Close, TypeOK
  <1> QED BY <1>1, <1>2, <1>3, <1>4 DEF ProcessStep

\* The message of the wait task.
LEMMA SendExitTypeOK ==
  ASSUME TypeOK, NEW j \in Jobs, NEW st \in Statuses \cup {"none"},
         SendExit(j, st)
  PROVE  TypeOK'
  BY DEF SendExit, TypeOK, WaitPoints, clientVars, storeVars, localVars, osVars

LEMMA FaultTypeOK ==
  ASSUME TypeOK, NEW j \in Jobs, FaultStep(j)
  PROVE  TypeOK'
  <1>1. CASE WaitFails(j)
    BY <1>1, SendExitTypeOK DEF WaitFails, Statuses
  <1>2. ASSUME NEW s \in Streams, ReadFails(j, s)
        PROVE  TypeOK'
    BY <1>2 DEF ReadFails, Quietly, TypeOK, storeVars, clientVars, waitVars
  <1> QED BY <1>1, <1>2 DEF FaultStep

LEMMA WaitTypeOK ==
  ASSUME TypeOK, NEW j \in Jobs, WaitStep(j)
  PROVE  TypeOK'
  <1>0. Targets(j) \in SUBSET Alive(j)
    BY DEF Targets
  <1>1. CASE WaitCancelled(j)
    <2>1. wpc' \in [Jobs -> WaitPoints] /\ bus' \in [Jobs -> Seq(Events)]
      BY <1>1, WaitGotoType, BroadcastType DEF WaitCancelled, WaitPoints, Events
    <2> QED BY <1>1, <2>1
            DEF WaitCancelled, TypeOK, clientVars, storeVars, localVars, osVars
  <1>2. CASE LogCancelled(j)
    <2>1. wpc' \in [Jobs -> WaitPoints] /\ log' \in [Jobs -> Seq(Events)]
      BY <1>2, WaitGotoType, InsertType DEF LogCancelled, WaitPoints, Events
    <2> QED BY <1>2, <2>1
            DEF LogCancelled, TypeOK, clientVars, localVars, osVars
  <1>3. CASE Terminate(j)
    <2>1. PICK hit \in SUBSET Alive(j) : Signal(j, hit)
      BY <1>0, <1>3 DEF Terminate, Kill
    <2> QED BY <1>3, <2>1, SignalTypeOK DEF Terminate, WaitPoints
  <1>4. CASE GraceExpires(j) \/ WaitTimeout(j)
    BY <1>0, <1>4, SignalTypeOK DEF GraceExpires, WaitTimeout, Kill, WaitPoints
  <1>5. CASE WaitReaps(j)
    <2>1. status[j] \in Statuses \cup {"none"}
      BY DEF TypeOK, Statuses
    <2> QED BY <1>5, <2>1, SendExitTypeOK DEF WaitReaps
  <1>6. CASE CloseGroup(j)
    <2>1. PICK hit \in SUBSET Alive(j) : Signal(j, hit)
      BY <1>6 DEF CloseGroup
    <2> QED BY <1>6, <2>1, SignalTypeOK DEF CloseGroup, WaitPoints
  <1> QED BY <1>1, <1>2, <1>3, <1>4, <1>5, <1>6 DEF WaitStep

LEMMA DriverTypeOK ==
  ASSUME TypeOK, NEW j \in Jobs, DriverStep(j)
  PROVE  TypeOK'
  <1>0. snapshot[j] \in Snapshots
    BY DEF TypeOK
  <1>1. CASE AcquirePermit(j) \/ ReleasePermit(j)
    <2>1. permits' \in Nat
      BY <1>1 DEF AcquirePermit, ReleasePermit, TypeOK
    <2>2. UNCHANGED <<verdict, eof, childExited, proc, status, holds, doomed,
                      group, pipe, broken>>
      BY <1>1 DEF AcquirePermit, ReleasePermit, localVars, osVars
    <2> QED BY <1>1, <2>1, <2>2, QuietTypeOK
            DEF AcquirePermit, ReleasePermit, TypeOK, DriverPoints
  <1>2. CASE SpawnChild(j)
    <2>1. /\ proc' \in [Jobs -> [Members -> {"none", "alive", "dead"}]]
          /\ holds' \in [Jobs -> [Members -> SUBSET Streams]]
          /\ group' \in [Jobs -> SUBSET Members]
      BY <1>2 DEF SpawnChild, TypeOK, Members
    <2> QED BY <1>2, <2>1, QuietTypeOK
            DEF SpawnChild, TypeOK, localVars, DriverPoints
  <1>3. CASE SpawnFails(j) \/ Conclude(j)
    <2>1. verdict' \in [Jobs -> Outcomes \cup {"none"}]
      BY <1>3 DEF SpawnFails, Conclude, Decide, ComputeOutcome, TypeOK, Outcomes
    <2>2. /\ Quietly
          /\ UNCHANGED <<permits, eof, childExited, proc, status, holds, doomed,
                         group, pipe, broken>>
      BY <1>3 DEF SpawnFails, Conclude, Decide, osVars
    <2> QED BY <1>3, <2>1, <2>2, QuietTypeOK
            DEF SpawnFails, Conclude, TypeOK, DriverPoints
  <1>4. CASE AssignGroup(j)
    <2>1. group' \in [Jobs -> SUBSET Members]
      BY <1>4 DEF AssignGroup, TypeOK, Members
    <2> QED BY <1>4, <2>1, QuietTypeOK
            DEF AssignGroup, TypeOK, localVars, DriverPoints
  <1>5. CASE AnnounceStarted(j) \/ AnnounceFinal(j)
    BY <1>5, EmitSendTypeOK
       DEF AnnounceStarted, AnnounceFinal, DriverPoints, Events
  <1>6. CASE LogStarted(j) \/ LogExited(j) \/ LogFinal(j)
    BY <1>6, EmitInsertTypeOK
       DEF LogStarted, LogExited, LogFinal, DriverPoints, Events
  <1>7. CASE MarkRunning(j) \/ MarkExited(j) \/ MarkFinal(j)
    <2>1. /\ waitStatus[j] \in Statuses \cup {"none"}
          /\ verdict[j] \in Outcomes \cup {"none"}
      BY DEF TypeOK
    <2>2. /\ [snapshot[j] EXCEPT !.state = "Running"] \in Snapshots
          /\ [snapshot[j] EXCEPT !.state = "Exited", !.exit = waitStatus[j]]
               \in Snapshots
          /\ [snapshot[j] EXCEPT !.state = "Finalized", !.outcome = verdict[j]]
               \in Snapshots
      BY <1>0, <2>1, UpdateType DEF JobStates
    <2> QED BY <1>7, <2>2, UpdateTypeOK
            DEF MarkRunning, MarkExited, MarkFinal, DriverPoints
  <1>8. CASE SaveRunning(j) \/ SaveExited(j) \/ SaveFinal(j)
    BY <1>8, PersistTypeOK
       DEF SaveRunning, SaveExited, SaveFinal, DriverPoints
  <1>9. CASE StartWait(j)
    <2>1. pc' \in [Jobs -> DriverPoints] /\ wpc' \in [Jobs -> WaitPoints]
      BY <1>9, GotoType, WaitGotoType DEF StartWait, DriverPoints, WaitPoints
    <2> QED BY <1>9, <2>1
            DEF StartWait, TypeOK, clientVars, storeVars, localVars, osVars
  <1>10. CASE ReceiveExit(j)
    <2>1. pc' \in [Jobs -> DriverPoints] /\ bus' \in [Jobs -> Seq(Events)]
      BY <1>10, GotoType, BroadcastType DEF ReceiveExit, DriverPoints, Events
    <2> QED BY <1>10, <2>1
            DEF ReceiveExit, TypeOK, storeVars, outerVars, clientVars,
                waitVars, osVars
  <1>11. CASE Deliver(j)
    <2>1. pc' \in [Jobs -> DriverPoints]
      BY <1>11, GotoType DEF Deliver, DriverPoints
    <2> QED BY <1>11, <2>1
            DEF Deliver, TypeOK, storeVars, localVars, outerVars, clientVars,
                waitVars, osVars
  <1>12. ASSUME NEW s \in Streams, ReadLine(j, s)
         PROVE  TypeOK'
    <2>1. bus' \in [Jobs -> Seq(Events)]
      BY <1>12, BroadcastType DEF ReadLine, Events
    <2>2. pipe' \in [Jobs -> [Streams -> Nat]]
      BY <1>12 DEF ReadLine, TypeOK
    <2> QED BY <1>12, <2>1, <2>2
            DEF ReadLine, TypeOK, clientVars, storeVars, localVars, waitVars
  <1>13. ASSUME NEW s \in Streams, ReadEof(j, s)
         PROVE  TypeOK'
    BY <1>13 DEF ReadEof, Quietly, TypeOK, storeVars, clientVars, waitVars,
       osVars
  <1> QED BY <1>1, <1>2, <1>3, <1>4, <1>5, <1>6, <1>7, <1>8, <1>9, <1>10,
          <1>11, <1>12, <1>13 DEF DriverStep

LEMMA NextTypeOK ==
  ASSUME TypeOK, [Next]_vars
  PROVE  TypeOK'
  <1>1. CASE UNCHANGED vars
    BY <1>1 DEF vars, outerVars, clientVars, storeVars, localVars, waitVars,
       osVars, TypeOK
  <1>2. ASSUME NEW j \in Jobs, JobStep(j)
        PROVE  TypeOK'
    BY <1>2, SpawnTypeOK, DriverTypeOK, WaitTypeOK, FaultTypeOK, ClientTypeOK,
       ProcessTypeOK
       DEF JobStep
  <1> QED BY <1>1, <1>2 DEF Next, Quiescent

\* Every variable keeps its type: no permit count below zero, no event,
\* outcome or state outside what event.rs, outcome.rs and job.rs declare.
THEOREM TypeCorrect == Spec => []TypeOK
  BY InitTypeOK, NextTypeOK, PTL DEF Spec

-----------------------------------------------------------------------------
(* Permits.                                                                *)

LEMMA HoldersFinite == IsFiniteSet(Holders)
  BY RuntimeAssumption, FS_Subset DEF Holders

\* Only AcquirePermit and ReleasePermit move a driver into or out of Holding.
LEMMA HoldersKept ==
  ASSUME TypeOK, NEW j \in Jobs, NEW from, NEW to, Goto(j, from, to),
         from \in Holding <=> to \in Holding
  PROVE  Holders' = Holders
  BY DEF TypeOK, Goto, Holders

LEMMA InitPermits == Init => PermitConservation
  <1> SUFFICES ASSUME Init PROVE PermitConservation
    OBVIOUS
  <1>1. Holders = {}
    BY DEF Init, Holders, Holding
  <1> QED BY <1>1, FS_EmptySet, LimitType DEF Init, PermitConservation

LEMMA AcquireHolds ==
  ASSUME TypeOK, NEW j \in Jobs, AcquirePermit(j)
  PROVE  j \notin Holders /\ Holders' = Holders \cup {j}
  BY DEF AcquirePermit, Goto, TypeOK, Holders, Holding, DriverPoints

LEMMA ReleaseDrops ==
  ASSUME TypeOK, NEW j \in Jobs, ReleasePermit(j)
  PROVE  j \in Holders /\ Holders' = Holders \ {j}
  BY DEF ReleasePermit, Goto, TypeOK, Holders, Holding, DriverPoints

\* Every other step leaves the owners of permits, and the permits, alone.
LEMMA OtherPermits ==
  ASSUME TypeOK, NEW j \in Jobs, JobStep(j), ~AcquirePermit(j),
         ~ReleasePermit(j)
  PROVE  Holders' = Holders /\ permits' = permits
  <1> USE DEF Holding, DriverPoints
  <1>1. CASE SpawnStep(j) \/ SpawnTail(j)
    BY <1>1, HoldersKept DEF SpawnStep, SpawnTail, SpawnJob, SpawnRefused,
       AnnounceCreated, LogCreated, EmitSend, EmitInsert
  <1>2. CASE WaitStep(j) \/ FaultStep(j) \/ ClientStep(j) \/ ProcessStep(j)
    <2>1. permits' = permits /\ pc' = pc
      BY <1>2 DEF WaitStep, WaitCancelled, LogCancelled, Terminate,
         GraceExpires, WaitTimeout, WaitReaps, CloseGroup, Elsewhere,
         FaultStep, WaitFails, SendExit, ReadFails,
         ClientStep, CancelCheck, CancelFire, ProcessStep, ForkKin, Exit, Die,
         Write, Close, ClientsAndTasks
    <2> QED BY <2>1 DEF Holders
  <1>3. CASE SpawnChild(j) \/ SpawnFails(j) \/ AssignGroup(j) \/ StartWait(j)
    BY <1>3, HoldersKept DEF SpawnChild, SpawnFails, AssignGroup, StartWait
  <1>4. CASE \/ AnnounceStarted(j) \/ LogStarted(j) \/ AnnounceFinal(j)
             \/ LogFinal(j) \/ LogExited(j)
    BY <1>4, HoldersKept DEF AnnounceStarted, LogStarted, AnnounceFinal,
       LogFinal, LogExited, EmitSend, EmitInsert
  <1>5. CASE \/ MarkRunning(j) \/ SaveRunning(j) \/ MarkExited(j)
             \/ SaveExited(j) \/ MarkFinal(j) \/ SaveFinal(j)
    BY <1>5, HoldersKept DEF MarkRunning, SaveRunning, MarkExited, SaveExited,
       MarkFinal, SaveFinal, Update, Persist
  <1>6. CASE ReceiveExit(j) \/ Conclude(j) \/ Deliver(j)
    BY <1>6, HoldersKept DEF ReceiveExit, Conclude, Decide, Deliver
  <1>7. ASSUME NEW s \in Streams, ReadLine(j, s) \/ ReadEof(j, s)
        PROVE  Holders' = Holders /\ permits' = permits
    BY <1>7 DEF ReadLine, ReadEof, Holders
  <1> QED BY <1>1, <1>2, <1>3, <1>4, <1>5, <1>6, <1>7
          DEF JobStep, DriverStep

LEMMA NextPermits ==
  ASSUME TypeOK, PermitConservation, [Next]_vars
  PROVE  PermitConservation'
  <1> USE HoldersFinite, FS_CardinalityType DEF PermitConservation
  <1>1. CASE UNCHANGED vars
    BY <1>1 DEF vars, Holders
  <1>2. ASSUME NEW j \in Jobs, JobStep(j)
        PROVE  PermitConservation'
    <2>1. CASE AcquirePermit(j)
      <3>1. Cardinality(Holders') = Cardinality(Holders) + 1
        BY <2>1, AcquireHolds, FS_AddElement
      <3> QED BY <2>1, <3>1 DEF AcquirePermit, TypeOK
    <2>2. CASE ReleasePermit(j)
      <3>1. Cardinality(Holders') = Cardinality(Holders) - 1
        BY <2>2, ReleaseDrops, FS_RemoveElement
      <3> QED BY <2>2, <3>1 DEF ReleasePermit, TypeOK
    <2>3. CASE ~AcquirePermit(j) /\ ~ReleasePermit(j)
      BY <1>2, <2>3, OtherPermits
    <2> QED BY <2>1, <2>2, <2>3
  <1> QED BY <1>1, <1>2 DEF Next, Quiescent

\* Free permits plus drivers that own one is always max(1, max_concurrent):
\* none is lost on the spawn-failure path, none is released twice.
THEOREM PermitsConserved == Spec => []PermitConservation
  <1>1. Init => TypeOK /\ PermitConservation
    BY InitTypeOK, InitPermits
  <1>2. TypeOK /\ PermitConservation /\ [Next]_vars
          => (TypeOK /\ PermitConservation)'
    BY NextTypeOK, NextPermits
  <1> QED BY <1>1, <1>2, PTL DEF Spec

-----------------------------------------------------------------------------
(* A step of one job leaves the others alone.                              *)

LEMMA Frame ==
  ASSUME TypeOK, NEW j \in Jobs, JobStep(j), NEW k \in Jobs \ {j}
  PROVE  Untouched(k)
  <1> USE DEF Untouched, TypeOK, clientVars, storeVars, localVars, waitVars,
              osVars, outerVars, Goto, WaitGoto, Broadcast, InsertEvent,
              PersistSnapshot, EmitSend, EmitInsert, Update, Persist, Quietly
  <1>1. CASE SpawnStep(j) \/ SpawnTail(j)
    BY <1>1 DEF SpawnStep, SpawnTail, SpawnJob, SpawnRefused, AnnounceCreated,
       LogCreated
  <1>2. CASE ClientStep(j)
    BY <1>2 DEF ClientStep, CancelCheck, CancelFire
  <1>3. CASE ProcessStep(j)
    BY <1>3 DEF ProcessStep, ForkKin, Exit, Die, Write, Close, Terminated,
       ClientsAndTasks
  <1>4. CASE WaitStep(j) \/ FaultStep(j)
    BY <1>4 DEF WaitStep, WaitCancelled, LogCancelled, Terminate,
       GraceExpires, WaitTimeout, WaitReaps, CloseGroup, Kill, Signal,
       Elsewhere, FaultStep, WaitFails, SendExit, ReadFails
  <1>5. CASE \/ AcquirePermit(j) \/ SpawnChild(j) \/ SpawnFails(j)
             \/ AssignGroup(j) \/ StartWait(j) \/ Conclude(j)
             \/ ReleasePermit(j)
    BY <1>5 DEF AcquirePermit, SpawnChild, SpawnFails, AssignGroup, StartWait,
       Conclude, Decide, ReleasePermit
  <1>6. CASE \/ AnnounceStarted(j) \/ LogStarted(j) \/ LogExited(j)
             \/ AnnounceFinal(j) \/ LogFinal(j)
    BY <1>6 DEF AnnounceStarted, LogStarted, LogExited, AnnounceFinal, LogFinal
  <1>7. CASE \/ MarkRunning(j) \/ SaveRunning(j) \/ MarkExited(j)
             \/ SaveExited(j) \/ MarkFinal(j) \/ SaveFinal(j)
    BY <1>7 DEF MarkRunning, SaveRunning, MarkExited, SaveExited, MarkFinal,
       SaveFinal
  <1>8. CASE ReceiveExit(j) \/ Deliver(j)
    BY <1>8 DEF ReceiveExit, Deliver
  <1>9. ASSUME NEW s \in Streams, ReadLine(j, s) \/ ReadEof(j, s)
        PROVE  Untouched(k)
    BY <1>9 DEF ReadLine, ReadEof
  <1> HIDE DEF Untouched, TypeOK
  <1> QED BY <1>1, <1>2, <1>3, <1>4, <1>5, <1>6, <1>7, <1>8, <1>9
          DEF JobStep, DriverStep

LEMMA UntouchedKeepsInv ==
  ASSUME NEW k \in Jobs, Untouched(k), JobInv(k)
  PROVE  JobInv(k)'
  <1> USE DEF Untouched, JobInv
  <1>1. SnapshotInv(k)' BY DEF SnapshotInv
  <1>2. WaitInv(k)' BY DEF WaitInv
  <1>3. StreamInv(k)' BY DEF StreamInv, HasSeen
  <1>4. StoreInv(k)' BY DEF StoreInv, Stored, HasSeen
  <1>5. ProcessInv(k)' BY DEF ProcessInv, Alive
  <1> QED BY <1>1, <1>2, <1>3, <1>4, <1>5

-----------------------------------------------------------------------------
(* Sequences of events: what Append adds, and when it keeps the order.     *)

LEMMA AppendHas ==
  ASSUME NEW q \in Seq(Events), NEW e \in Events
  PROVE  \A x : Has(Append(q, e), x) <=> Has(q, x) \/ x = e
  <1> DEFINE r == Append(q, e)
  <1>1. /\ DOMAIN r = 1..(Len(q) + 1)
        /\ DOMAIN q = 1..Len(q)
        /\ Len(q) \in Nat
        /\ r[Len(q) + 1] = e
        /\ \A i \in 1..Len(q) : r[i] = q[i]
    OBVIOUS
  <1> QED BY <1>1 DEF Has

LEMMA AppendOrdered ==
  ASSUME NEW q \in Seq(Events), NEW e \in Events, Ordered(q),
         e # "OutputAppended" => ~Has(q, e),
         \A x \in Events : <<e, x>> \in Precedes => ~Has(q, x)
  PROVE  Ordered(Append(q, e))
  <1> DEFINE r == Append(q, e)
  <1>1. /\ DOMAIN r = 1..(Len(q) + 1)
        /\ DOMAIN q = 1..Len(q)
        /\ Len(q) \in Nat
        /\ r[Len(q) + 1] = e
        /\ \A i \in 1..Len(q) : r[i] = q[i] /\ q[i] \in Events
    OBVIOUS
  <1> HIDE DEF r
  <1>2. ASSUME NEW i \in DOMAIN r, NEW k \in DOMAIN r,
               <<r[i], r[k]>> \in Precedes
        PROVE  i < k
    <2>1. CASE i \in DOMAIN q /\ k \in DOMAIN q
      BY <1>1, <1>2, <2>1 DEF Ordered
    <2>2. CASE i = Len(q) + 1 /\ k \in DOMAIN q
      BY <1>1, <1>2, <2>2 DEF Has
    <2>3. CASE i = Len(q) + 1 /\ k = Len(q) + 1
      BY <1>1, <1>2, <2>3 DEF Precedes, Events
    <2>4. CASE i \in DOMAIN q /\ k = Len(q) + 1
      BY <1>1, <2>4
    <2> QED BY <1>1, <2>1, <2>2, <2>3, <2>4
  <1>3. ASSUME NEW i \in DOMAIN r, NEW k \in DOMAIN r,
               r[i] = r[k], r[i] # "OutputAppended"
        PROVE  i = k
    BY <1>1, <1>3 DEF Ordered, Has
  <1> QED BY <1>2, <1>3 DEF Ordered, r

LEMMA BroadcastKeeps ==
  ASSUME TypeOK, NEW j \in Jobs, NEW e \in Events, Broadcast(j, e)
  PROVE  /\ \A x : HasSeen(j, x)' <=> HasSeen(j, x) \/ x = e
         /\ /\ Ordered(bus[j])
            /\ e # "OutputAppended" => ~HasSeen(j, e)
            /\ \A x \in Events : <<e, x>> \in Precedes => ~HasSeen(j, x)
            => Ordered(bus[j])'
  <1>1. bus[j] \in Seq(Events) /\ bus'[j] = Append(bus[j], e)
    BY DEF TypeOK, Broadcast
  <1> QED BY <1>1, AppendHas, AppendOrdered DEF HasSeen

LEMMA InsertKeeps ==
  ASSUME TypeOK, NEW j \in Jobs, NEW e \in Events, InsertEvent(j, e)
  PROVE  /\ \A x : Stored(j, x)' => Stored(j, x) \/ x = e
         /\ ~StoreFaults => Stored(j, e)'
         /\ /\ Ordered(log[j])
            /\ e # "OutputAppended" => ~Stored(j, e)
            /\ \A x \in Events : <<e, x>> \in Precedes => ~Stored(j, x)
            => Ordered(log[j])'
  <1>1. CASE log' = [log EXCEPT ![j] = Append(@, e)]
    <2>1. log[j] \in Seq(Events) /\ log'[j] = Append(log[j], e)
      BY <1>1 DEF TypeOK
    <2> QED BY <2>1, AppendHas, AppendOrdered DEF Stored
  <1>2. CASE StoreFaults /\ log' = log
    BY <1>2 DEF Stored
  <1> QED BY <1>1, <1>2 DEF InsertEvent

LEMMA PersistKeeps ==
  ASSUME TypeOK, NEW j \in Jobs, PersistSnapshot(j)
  PROVE  row'[j] = snapshot[j] \/ (StoreFaults /\ row'[j] = row[j])
  BY DEF TypeOK, PersistSnapshot

-----------------------------------------------------------------------------
(* JobInv: each part is kept by each step of the job.                      *)

\* The snapshot moves only with the driver's points.
LEMMA SnapshotStep ==
  ASSUME TypeOK, NEW j \in Jobs, JobStep(j), JobInv(j)
  PROVE  SnapshotInv(j)'
  <1> USE DEF JobInv, WaitInv, SnapshotInv, TypeOK, Queueing, Starting,
              Working, Reporting, DriverPoints, Goto, clientVars, storeVars,
              localVars, waitVars, osVars, outerVars
  <1>1. CASE SpawnJob(j) \/ SpawnRefused(j)
    BY <1>1 DEF SpawnJob, QueuedJob, SpawnRefused, Quietly, NoJob
  <1>2. CASE AnnounceCreated(j) \/ AnnounceStarted(j) \/ AnnounceFinal(j)
    BY <1>2 DEF AnnounceCreated, EmitSend, AnnounceStarted, AnnounceFinal
  <1>3. CASE LogCreated(j) \/ LogStarted(j)
    BY <1>3 DEF LogCreated, EmitInsert, LogStarted
  <1>4. CASE LogExited(j) \/ LogFinal(j)
    BY <1>4 DEF LogExited, EmitInsert, LogFinal
  <1>5. CASE MarkRunning(j)
    BY <1>5 DEF MarkRunning, Update
  <1>6. CASE MarkExited(j)
    BY <1>6 DEF MarkExited, Update
  <1>7. CASE MarkFinal(j)
    BY <1>7 DEF MarkFinal, Update
  <1>8. CASE SaveRunning(j) \/ SaveExited(j) \/ SaveFinal(j)
    BY <1>8 DEF SaveRunning, Persist, SaveExited, SaveFinal
  <1>9. CASE AcquirePermit(j) \/ SpawnChild(j) \/ AssignGroup(j)
    BY <1>9 DEF AcquirePermit, Quietly, SpawnChild, AssignGroup
  <1>10. CASE SpawnFails(j) \/ Conclude(j)
    BY <1>10 DEF SpawnFails, Quietly, Conclude, Decide, ComputeOutcome
  <1>11. CASE StartWait(j) \/ ReceiveExit(j)
    BY <1>11 DEF StartWait, ReceiveExit
  <1>12. CASE Deliver(j) \/ ReleasePermit(j)
    BY <1>12 DEF Deliver, ReleasePermit, Quietly
  <1>13. ASSUME NEW s \in Streams,
                ReadLine(j, s) \/ ReadEof(j, s)
         PROVE  SnapshotInv(j)'
    BY <1>13 DEF ReadLine, ReadEof, Quietly
  <1>14. CASE WaitStep(j) \/ FaultStep(j)
    BY <1>14
       DEF WaitStep, WaitCancelled, LogCancelled, Terminate, GraceExpires,
           WaitTimeout, WaitReaps, CloseGroup, Elsewhere, FaultStep,
           WaitFails, SendExit, ReadFails, Quietly
  <1>15. CASE ClientStep(j)
    BY <1>15 DEF ClientStep, CancelCheck, CancelFire
  <1>16. CASE ProcessStep(j)
    BY <1>16
       DEF ProcessStep, ForkKin, Exit, Die, Write, Close, ClientsAndTasks
  <1> HIDE DEF JobInv, SnapshotInv, WaitInv, TypeOK
  <1> QED BY <1>1, <1>2, <1>3, <1>4, <1>5, <1>6, <1>7, <1>8, <1>9, <1>10,
             <1>11, <1>12, <1>13, <1>14, <1>15, <1>16
          DEF JobStep, SpawnStep, SpawnTail, DriverStep, WaitStep, FaultStep,
              ClientStep, ProcessStep

\* The wait task reports an exit once, after the leader is dead.
LEMMA WaitInvStep ==
  ASSUME TypeOK, NEW j \in Jobs, JobStep(j), JobInv(j)
  PROVE  WaitInv(j)'
  <1> USE DEF JobInv, WaitInv, SnapshotInv, TypeOK, Queueing, Starting,
              Working, Reporting, DriverPoints, Goto, WaitPoints, WaitGoto,
              clientVars, storeVars, localVars, waitVars, osVars, outerVars
  <1>1. CASE SpawnJob(j) \/ SpawnRefused(j)
    BY <1>1 DEF SpawnJob, QueuedJob, SpawnRefused, Quietly
  <1>2. CASE AnnounceCreated(j) \/ AnnounceStarted(j) \/ AnnounceFinal(j)
    BY <1>2 DEF AnnounceCreated, EmitSend, AnnounceStarted, AnnounceFinal
  <1>3. CASE LogCreated(j) \/ LogStarted(j)
    BY <1>3 DEF LogCreated, EmitInsert, LogStarted
  <1>4. CASE LogExited(j) \/ LogFinal(j)
    BY <1>4 DEF LogExited, EmitInsert, LogFinal
  <1>5. CASE MarkRunning(j) \/ MarkExited(j) \/ MarkFinal(j)
    BY <1>5 DEF MarkRunning, Update, MarkExited, MarkFinal
  <1>6. CASE SaveRunning(j) \/ SaveExited(j) \/ SaveFinal(j)
    BY <1>6 DEF SaveRunning, Persist, SaveExited, SaveFinal
  <1>7. CASE AcquirePermit(j) \/ SpawnChild(j) \/ AssignGroup(j)
    BY <1>7 DEF AcquirePermit, Quietly, SpawnChild, AssignGroup, Exits
  <1>8. CASE SpawnFails(j) \/ Conclude(j)
    BY <1>8
       DEF SpawnFails, Quietly, Conclude, Decide, ComputeOutcome, Outcomes
  <1>9. CASE StartWait(j)
    BY <1>9 DEF StartWait
  <1>10. CASE ReceiveExit(j)
    BY <1>10 DEF ReceiveExit
  <1>11. CASE Deliver(j) \/ ReleasePermit(j)
    BY <1>11 DEF Deliver, ReleasePermit, Quietly
  <1>12. ASSUME NEW s \in Streams,
                ReadLine(j, s)
         PROVE  WaitInv(j)'
    BY <1>12 DEF ReadLine
  <1>13. ASSUME NEW s \in Streams,
                ReadEof(j, s) \/ ReadFails(j, s)
         PROVE  WaitInv(j)'
    BY <1>13 DEF ReadEof, ReadFails, Quietly
  <1>14. CASE WaitCancelled(j) \/ LogCancelled(j)
    BY <1>14 DEF WaitCancelled, LogCancelled
  <1>15. CASE Terminate(j) \/ GraceExpires(j) \/ WaitTimeout(j)
    BY <1>15 DEF Terminate, Elsewhere, GraceExpires, WaitTimeout
  <1>16. CASE WaitReaps(j) \/ WaitFails(j)
    <2>1. proc[j]["leader"] = "dead" => status[j] # "none"
      BY DEF ProcessInv
    <2> QED BY <1>16, <2>1 DEF WaitReaps, WaitFails, SendExit, Exits
  <1>17. CASE CloseGroup(j)
    BY <1>17 DEF CloseGroup, Elsewhere
  <1>18. CASE ClientStep(j)
    BY <1>18 DEF ClientStep, CancelCheck, CancelFire
  <1>19. ASSUME NEW m \in Members,
                Exit(j, m) \/ Die(j, m)
         PROVE  WaitInv(j)'
    BY <1>19 DEF Exit, ClientsAndTasks, Terminated, Die, Members, Alive
  <1>20. CASE ForkKin(j)
    BY <1>20 DEF ForkKin, ClientsAndTasks, Members
  <1>21. ASSUME NEW m \in Members, NEW s \in Streams,
                Write(j, m, s) \/ Close(j, m, s)
         PROVE  WaitInv(j)'
    BY <1>21 DEF Write, ClientsAndTasks, Close
  <1> HIDE DEF JobInv, SnapshotInv, WaitInv, TypeOK
  <1> QED BY <1>1, <1>2, <1>3, <1>4, <1>5, <1>6, <1>7, <1>8, <1>9, <1>10,
             <1>11, <1>12, <1>13, <1>14, <1>15, <1>16, <1>17, <1>18, <1>19,
             <1>20, <1>21
          DEF JobStep, SpawnStep, SpawnTail, DriverStep, WaitStep, FaultStep,
              ClientStep, ProcessStep

\* Each broadcast comes at its place in the order.
LEMMA StreamStep ==
  ASSUME TypeOK, NEW j \in Jobs, JobStep(j), JobInv(j)
  PROVE  StreamInv(j)'
  <1> USE DEF StreamInv, JobInv, WaitInv, SnapshotInv, TypeOK, Queueing,
              Starting, Working, Reporting, DriverPoints, Goto, Reported,
              WaitPoints, WaitGoto, clientVars, storeVars, localVars,
              waitVars, osVars, outerVars
  <1>1. CASE SpawnJob(j) \/ SpawnRefused(j)
    BY <1>1 DEF SpawnJob, QueuedJob, SpawnRefused, Quietly, HasSeen
  <1>2. CASE AnnounceCreated(j) \/ AnnounceStarted(j) \/ AnnounceFinal(j)
    BY <1>2, BroadcastKeeps
       DEF AnnounceCreated, EmitSend, AnnounceStarted, AnnounceFinal, Events,
           Precedes
  <1>3. CASE \/ LogCreated(j) \/ LogStarted(j) \/ LogExited(j) \/ LogFinal(j)
    BY <1>3
       DEF LogCreated, EmitInsert, LogStarted, LogExited, LogFinal, HasSeen
  <1>4. CASE MarkRunning(j) \/ MarkExited(j) \/ MarkFinal(j)
    BY <1>4 DEF MarkRunning, Update, MarkExited, MarkFinal, HasSeen
  <1>5. CASE SaveRunning(j) \/ SaveExited(j) \/ SaveFinal(j)
    BY <1>5 DEF SaveRunning, Persist, SaveExited, SaveFinal, HasSeen
  <1>6. CASE \/ AcquirePermit(j) \/ SpawnChild(j) \/ AssignGroup(j)
             \/ StartWait(j)
    BY <1>6
       DEF AcquirePermit, Quietly, SpawnChild, AssignGroup, StartWait, HasSeen
  <1>7. CASE SpawnFails(j) \/ Conclude(j)
    BY <1>7
       DEF SpawnFails, Quietly, Conclude, Decide, ComputeOutcome, HasSeen
  <1>8. CASE ReceiveExit(j)
    BY <1>8, BroadcastKeeps DEF ReceiveExit, Events, Precedes
  <1>9. CASE Deliver(j) \/ ReleasePermit(j)
    BY <1>9 DEF Deliver, ReleasePermit, Quietly, HasSeen
  <1>10. ASSUME NEW s \in Streams,
                ReadLine(j, s)
         PROVE  StreamInv(j)'
    BY <1>10, BroadcastKeeps DEF ReadLine, Events, Precedes
  <1>11. ASSUME NEW s \in Streams,
                ReadEof(j, s) \/ ReadFails(j, s)
         PROVE  StreamInv(j)'
    BY <1>11 DEF ReadEof, ReadFails, Quietly, HasSeen
  <1>12. CASE WaitCancelled(j)
    BY <1>12, BroadcastKeeps DEF WaitCancelled, Events, Precedes
  <1>13. CASE \/ LogCancelled(j) \/ Terminate(j) \/ GraceExpires(j)
              \/ WaitTimeout(j) \/ WaitReaps(j) \/ WaitFails(j)
              \/ CloseGroup(j)
    BY <1>13
       DEF LogCancelled, Terminate, Elsewhere, GraceExpires, WaitTimeout,
           WaitReaps, WaitFails, SendExit, CloseGroup, HasSeen
  <1>14. CASE ClientStep(j)
    BY <1>14 DEF ClientStep, CancelCheck, CancelFire, HasSeen
  <1>15. CASE ProcessStep(j)
    BY <1>15
       DEF ProcessStep, ForkKin, Exit, Die, Write, Close, ClientsAndTasks,
           HasSeen
  <1> HIDE DEF JobInv, SnapshotInv, WaitInv, StreamInv, TypeOK
  <1> QED BY <1>1, <1>2, <1>3, <1>4, <1>5, <1>6, <1>7, <1>8, <1>9, <1>10,
             <1>11, <1>12, <1>13, <1>14, <1>15
          DEF JobStep, SpawnStep, SpawnTail, DriverStep, WaitStep, FaultStep,
              ClientStep, ProcessStep

\* Each insert follows its broadcast, and the row follows the snapshot.
LEMMA StoreStep ==
  ASSUME TypeOK, NEW j \in Jobs, JobStep(j), JobInv(j)
  PROVE  StoreInv(j)'
  <1> USE DEF StoreInv, StreamInv, JobInv, WaitInv, SnapshotInv, TypeOK,
              Queueing, Starting, Working, Reporting, DriverPoints, Goto,
              Reported, WaitPoints, WaitGoto, clientVars, storeVars,
              localVars, waitVars, osVars, outerVars
  <1>1. CASE SpawnJob(j)
    <2>1. snapshot[j] = NoJob /\ row'[j] = snapshot'[j]
      BY <1>1 DEF SpawnJob
    <2>2. /\ \A x : HasSeen(j, x)' <=> HasSeen(j, x)
          /\ \A x : Stored(j, x)' <=> Stored(j, x)
      BY <1>1 DEF SpawnJob, HasSeen, Stored
    <2>3. Rank(row[j].state)' <= Rank(snapshot[j].state)'
      BY <2>1 DEF Rank
    <2> QED BY <1>1, <2>1, <2>2, <2>3 DEF SpawnJob
  <1>2. CASE SpawnRefused(j)
    BY <1>2 DEF SpawnRefused, Quietly, HasSeen, Stored
  <1>3. CASE AnnounceCreated(j) \/ AnnounceStarted(j) \/ AnnounceFinal(j)
    <2>1. \A x : HasSeen(j, x) => HasSeen(j, x)'
      BY <1>3, BroadcastKeeps
         DEF AnnounceCreated, EmitSend, AnnounceStarted, AnnounceFinal, Events
    <2>2. /\ UNCHANGED <<log, row, snapshot, wpc, childExited>>
          /\ \A x : Stored(j, x)' <=> Stored(j, x)
      BY <1>3 DEF AnnounceCreated, EmitSend, AnnounceStarted, AnnounceFinal,
         Stored
    <2>3. CASE AnnounceCreated(j)
      BY <2>1, <2>2, <2>3 DEF AnnounceCreated, EmitSend
    <2>4. CASE AnnounceStarted(j)
      BY <2>1, <2>2, <2>4 DEF AnnounceStarted, EmitSend
    <2>5. CASE AnnounceFinal(j)
      BY <2>1, <2>2, <2>5 DEF AnnounceFinal, EmitSend
    <2> QED BY <1>3, <2>3, <2>4, <2>5
  <1>4. CASE \/ LogCreated(j) \/ LogStarted(j) \/ LogExited(j) \/ LogFinal(j)
    BY <1>4, InsertKeeps
       DEF LogCreated, EmitInsert, LogStarted, LogExited, LogFinal, Events,
           Precedes, HasSeen
  <1>5. CASE MarkRunning(j)
    BY <1>5 DEF MarkRunning, Update, HasSeen, Stored, Rank
  <1>6. CASE MarkExited(j)
    BY <1>6 DEF MarkExited, Update, HasSeen, Stored, Rank
  <1>7. CASE MarkFinal(j)
    BY <1>7 DEF MarkFinal, Update, HasSeen, Stored, Rank
  <1>8. CASE SaveRunning(j) \/ SaveExited(j) \/ SaveFinal(j)
    BY <1>8, PersistKeeps
       DEF SaveRunning, Persist, SaveExited, SaveFinal, HasSeen, Stored, Rank
  <1>9. CASE \/ AcquirePermit(j) \/ SpawnChild(j) \/ AssignGroup(j)
             \/ StartWait(j)
    BY <1>9
       DEF AcquirePermit, Quietly, SpawnChild, AssignGroup, StartWait,
           HasSeen, Stored
  <1>10. CASE SpawnFails(j) \/ Conclude(j)
    BY <1>10 DEF SpawnFails, Quietly, Conclude, Decide, HasSeen, Stored
  <1>11. CASE ReceiveExit(j)
    BY <1>11, BroadcastKeeps DEF ReceiveExit, Events, Stored
  <1>12. CASE Deliver(j) \/ ReleasePermit(j)
    BY <1>12 DEF Deliver, ReleasePermit, Quietly, HasSeen, Stored
  <1>13. ASSUME NEW s \in Streams,
                ReadLine(j, s)
         PROVE  StoreInv(j)'
    BY <1>13, BroadcastKeeps DEF ReadLine, Events, Stored
  <1>14. ASSUME NEW s \in Streams,
                ReadEof(j, s) \/ ReadFails(j, s)
         PROVE  StoreInv(j)'
    BY <1>14 DEF ReadEof, ReadFails, Quietly, HasSeen, Stored
  <1>15. CASE WaitCancelled(j)
    BY <1>15, BroadcastKeeps DEF WaitCancelled, Events, Stored
  <1>16. CASE LogCancelled(j)
    <2>1. ~Stored(j, "Cancelled") /\ ~Stored(j, "Exited")
            /\ ~Stored(j, "Finalized")
      BY <1>16 DEF LogCancelled
    <2>2. Ordered(log[j])'
      BY <1>16, <2>1, InsertKeeps DEF LogCancelled, Events, Precedes
    <2>3. \A x : Stored(j, x)' => Stored(j, x) \/ x = "Cancelled"
      BY <1>16, InsertKeeps DEF LogCancelled, Events
    <2>4. \A x : HasSeen(j, x)' <=> HasSeen(j, x)
      BY <1>16 DEF LogCancelled, HasSeen
    <2>5. ~StoreFaults /\ Stored(j, "Finalized") => Stored(j, "Finalized")'
      BY <1>16, AppendHas DEF LogCancelled, InsertEvent, Stored, Events
    <2>6. HasSeen(j, "Cancelled")
      BY <1>16 DEF LogCancelled
    <2> QED BY <1>16, <2>1, <2>2, <2>3, <2>4, <2>5, <2>6 DEF LogCancelled
  <1>17. CASE Terminate(j) \/ GraceExpires(j) \/ WaitTimeout(j)
    BY <1>17
       DEF Terminate, Elsewhere, GraceExpires, WaitTimeout, HasSeen, Stored
  <1>18. CASE WaitReaps(j) \/ WaitFails(j) \/ CloseGroup(j)
    BY <1>18
       DEF WaitReaps, WaitFails, SendExit, CloseGroup, Elsewhere, HasSeen,
           Stored
  <1>19. CASE ClientStep(j)
    BY <1>19 DEF ClientStep, CancelCheck, CancelFire, HasSeen, Stored
  <1>20. CASE ProcessStep(j)
    BY <1>20
       DEF ProcessStep, ForkKin, Exit, Die, Write, Close, ClientsAndTasks,
           HasSeen, Stored
  <1> HIDE DEF JobInv, SnapshotInv, WaitInv, StoreInv, TypeOK
  <1> QED BY <1>1, <1>2, <1>3, <1>4, <1>5, <1>6, <1>7, <1>8, <1>9, <1>10,
             <1>11, <1>12, <1>13, <1>14, <1>15, <1>16, <1>17, <1>18, <1>19,
             <1>20
          DEF JobStep, SpawnStep, SpawnTail, DriverStep, WaitStep, FaultStep,
              ClientStep, ProcessStep

\* Processes, pipes and group.
LEMMA ProcessInvStep ==
  ASSUME TypeOK, NEW j \in Jobs, JobStep(j), JobInv(j)
  PROVE  ProcessInv(j)'
  <1> USE DEF ProcessInv, JobInv, WaitInv, SnapshotInv, TypeOK, Queueing,
              Starting, Working, Reporting, DriverPoints, Goto, WaitPoints,
              WaitGoto, clientVars, storeVars, localVars, waitVars, osVars,
              outerVars, Alive, Members, Streams
  <1>1. CASE SpawnJob(j) \/ SpawnRefused(j)
    BY <1>1 DEF SpawnJob, QueuedJob, SpawnRefused, Quietly
  <1>2. CASE AnnounceCreated(j) \/ AnnounceStarted(j)
    BY <1>2 DEF AnnounceCreated, EmitSend, AnnounceStarted
  <1>3. CASE AnnounceFinal(j)
    BY <1>3 DEF AnnounceFinal, EmitSend
  <1>4. CASE LogCreated(j) \/ LogStarted(j)
    BY <1>4 DEF LogCreated, EmitInsert, LogStarted
  <1>5. CASE LogExited(j)
    BY <1>5 DEF LogExited, EmitInsert
  <1>6. CASE LogFinal(j)
    BY <1>6 DEF LogFinal, EmitInsert
  <1>7. CASE MarkRunning(j) \/ MarkExited(j) \/ MarkFinal(j)
    BY <1>7 DEF MarkRunning, Update, MarkExited, MarkFinal
  <1>8. CASE SaveRunning(j)
    BY <1>8 DEF SaveRunning, Persist
  <1>9. CASE SaveExited(j)
    BY <1>9 DEF SaveExited, Persist
  <1>10. CASE SaveFinal(j)
    BY <1>10 DEF SaveFinal, Persist
  <1>11. CASE AcquirePermit(j)
    BY <1>11 DEF AcquirePermit, Quietly
  <1>12. CASE SpawnChild(j)
    BY <1>12 DEF SpawnChild, Quietly
  <1>13. CASE AssignGroup(j)
    BY <1>13 DEF AssignGroup, Quietly
  <1>14. CASE SpawnFails(j)
    BY <1>14 DEF SpawnFails, Quietly
  <1>15. CASE Conclude(j)
    <2>1. /\ UNCHANGED <<proc, status, holds, eof, pipe, broken, exitRx, wpc,
                         group, doomed>>
          /\ pc[j] = "drain" /\ pc'[j] = "markFinal"
      BY <1>15 DEF Conclude, Decide, Quietly
    <2>2. verdict'[j] # "SpawnFailed"
      BY <1>15 DEF Conclude, Decide, ComputeOutcome
    <2>3. verdict[j] # "SpawnFailed"
      BY <2>1
    <2>4. ProcessInv(j)
      OBVIOUS
    <2> HIDE DEF JobInv, SnapshotInv, WaitInv, TypeOK
    <2> QED BY <2>1, <2>2, <2>3, <2>4
  <1>16. CASE StartWait(j)
    BY <1>16 DEF StartWait
  <1>17. CASE ReceiveExit(j)
    BY <1>17 DEF ReceiveExit
  <1>18. CASE Deliver(j)
    BY <1>18 DEF Deliver
  <1>19. CASE ReleasePermit(j)
    BY <1>19 DEF ReleasePermit, Quietly
  <1>20. ASSUME NEW s \in Streams,
                ReadLine(j, s)
         PROVE  ProcessInv(j)'
    BY <1>20 DEF ReadLine
  <1>21. ASSUME NEW s \in Streams,
                ReadEof(j, s)
         PROVE  ProcessInv(j)'
    BY <1>21 DEF ReadEof, Quietly
  <1>35. ASSUME NEW s \in Streams,
                ReadFails(j, s)
         PROVE  ProcessInv(j)'
    <2>1. UNCHANGED <<pc, verdict, proc, status, holds, pipe, exitRx, wpc,
                      group, doomed>>
      BY <1>35 DEF ReadFails, Quietly
    <2>2. eof'[j] \ broken'[j] \subseteq eof[j] \ broken[j]
      BY <1>35 DEF ReadFails
    <2>3. ProcessInv(j)
      OBVIOUS
    <2> HIDE DEF JobInv, SnapshotInv, WaitInv, TypeOK
    <2> QED BY <2>1, <2>2, <2>3
  <1>22. CASE WaitCancelled(j)
    BY <1>22 DEF WaitCancelled
  <1>23. CASE LogCancelled(j)
    BY <1>23 DEF LogCancelled
  <1>24. CASE Terminate(j)
    BY <1>24 DEF Terminate, Elsewhere, Kill, Signal, Targets
  <1>25. CASE GraceExpires(j)
    BY <1>25 DEF GraceExpires, Elsewhere, Kill, Signal, Targets
  <1>26. CASE WaitTimeout(j)
    BY <1>26 DEF WaitTimeout, Elsewhere, Kill, Signal, Targets
  <1>27. ASSUME NEW st, SendExit(j, st)
         PROVE  ProcessInv(j)'
    <2>1. /\ UNCHANGED <<pc, verdict, proc, status, holds, eof, pipe, broken,
                         group, doomed>>
          /\ wpc'[j] = "sent"
          /\ exitRx'[j] = "timedOut" => wpc[j] = "timedOut"
      BY <1>27 DEF SendExit
    <2>2. ProcessInv(j)
      OBVIOUS
    <2> HIDE DEF JobInv, SnapshotInv, WaitInv, TypeOK
    <2> QED BY <2>1, <2>2
  <1>28. CASE CloseGroup(j)
    BY <1>28 DEF CloseGroup, Elsewhere, Signal
  <1>29. CASE ClientStep(j)
    <2>1. UNCHANGED <<pc, verdict, proc, status, holds, eof, pipe, broken,
                      exitRx, wpc, group, doomed>>
      BY <1>29 DEF ClientStep, CancelCheck, CancelFire
    <2>2. ProcessInv(j)
      OBVIOUS
    <2> HIDE DEF JobInv, SnapshotInv, WaitInv, TypeOK
    <2> QED BY <2>1, <2>2
  <1>30. ASSUME NEW m \in Members,
                Exit(j, m)
         PROVE  ProcessInv(j)'
    BY <1>30 DEF Exit, ClientsAndTasks, Terminated, Exits
  <1>31. ASSUME NEW m \in Members,
                Die(j, m)
         PROVE  ProcessInv(j)'
    BY <1>31 DEF Die, ClientsAndTasks, Terminated
  <1>32. CASE ForkKin(j)
    BY <1>32 DEF ForkKin, ClientsAndTasks
  <1>33. ASSUME NEW m \in Members, NEW s \in Streams,
                Write(j, m, s)
         PROVE  ProcessInv(j)'
    BY <1>33 DEF Write, ClientsAndTasks
  <1>34. ASSUME NEW m \in Members, NEW s \in Streams,
                Close(j, m, s)
         PROVE  ProcessInv(j)'
    BY <1>34 DEF Close, ClientsAndTasks
  <1> HIDE DEF JobInv, SnapshotInv, WaitInv, ProcessInv, TypeOK
  <1> QED BY <1>1, <1>2, <1>3, <1>4, <1>5, <1>6, <1>7, <1>8, <1>9, <1>10,
             <1>11, <1>12, <1>13, <1>14, <1>15, <1>16, <1>17, <1>18, <1>19,
             <1>20, <1>21, <1>22, <1>23, <1>24, <1>25, <1>26, <1>27, <1>28,
             <1>29, <1>30, <1>31, <1>32, <1>33, <1>34, <1>35
          DEF JobStep, SpawnStep, SpawnTail, DriverStep, WaitStep, WaitReaps,
              WaitFails, FaultStep, ClientStep, ProcessStep

LEMMA InitJobInv == Init => \A j \in Jobs : JobInv(j)
  <1> SUFFICES ASSUME Init, NEW j \in Jobs PROVE JobInv(j)
    OBVIOUS
  <1> USE DEF Init, NoJob, Queueing, Starting, Working, Reporting, Reported
  <1>1. \A e : ~HasSeen(j, e) /\ ~Stored(j, e)
    BY DEF HasSeen, Stored, Has
  <1>2. Ordered(bus[j]) /\ Ordered(log[j])
    BY DEF Ordered
  <1>3. SnapshotInv(j) /\ WaitInv(j)
    BY DEF SnapshotInv, WaitInv, Exits
  <1>4. StreamInv(j) /\ StoreInv(j)
    BY <1>1, <1>2 DEF StreamInv, StoreInv, Rank
  <1>5. ProcessInv(j)
    BY DEF ProcessInv, Alive, Members, Streams
  <1> QED BY <1>3, <1>4, <1>5 DEF JobInv

LEMMA NextJobInv ==
  ASSUME TypeOK, \A j \in Jobs : JobInv(j), [Next]_vars
  PROVE  \A j \in Jobs : JobInv(j)'
  <1>1. CASE UNCHANGED vars
    <2>1. \A k \in Jobs : Untouched(k)
      BY <1>1 DEF vars, outerVars, clientVars, storeVars, localVars,
         waitVars, osVars,
         Untouched
    <2> QED BY <2>1, UntouchedKeepsInv
  <1>2. ASSUME NEW j \in Jobs, JobStep(j), NEW k \in Jobs
        PROVE  JobInv(k)'
    <2>1. CASE k = j
      BY <1>2, <2>1, SnapshotStep, WaitInvStep, StreamStep, StoreStep,
         ProcessInvStep DEF JobInv
    <2>2. CASE k # j
      BY <1>2, <2>2, Frame, UntouchedKeepsInv
    <2> QED BY <2>1, <2>2
  <1> QED BY <1>1, <1>2 DEF Next, Quiescent

\* The inductive invariant holds of every runtime, whatever its jobs, limit,
\* timeouts, platform and store faults.
THEOREM RuntimeInvariant == Spec => []RuntimeInv
  <1>1. Init => RuntimeInv
    BY InitTypeOK, InitPermits, InitJobInv DEF RuntimeInv
  <1>2. RuntimeInv /\ [Next]_vars => RuntimeInv'
    BY NextTypeOK, NextPermits, NextJobInv DEF RuntimeInv
  <1> QED BY <1>1, <1>2, PTL DEF Spec

-----------------------------------------------------------------------------
(* What follows from the invariant.                                        *)

LEMMA InvImpliesOrdered == RuntimeInv => BusOrdered /\ LogOrdered
  BY DEF RuntimeInv, JobInv, StreamInv, StoreInv, BusOrdered, LogOrdered

\* However the driver, the wait task and failing inserts interleave, each
\* job's events are broadcast and stored in the documented order.
THEOREM StreamsOrdered == Spec => [](BusOrdered /\ LogOrdered)
  BY RuntimeInvariant, InvImpliesOrdered, PTL

\* The stored history of a job is in the order of its broadcasts, although the
\* driver and the wait task both insert into it and inserts may fail.
THEOREM HistoryOrdered == Spec => []LogOrdered
  BY StreamsOrdered, PTL

LEMMA InvImpliesVisible == RuntimeInv => FinalIsVisible
  <1> SUFFICES ASSUME RuntimeInv, NEW j \in Jobs
               PROVE  /\ HasSeen(j, "Finalized") =>
                           /\ snapshot[j].state = "Finalized"
                           /\ snapshot[j].outcome # "none"
                           /\ StoreFaults \/ row[j] = snapshot[j]
                      /\ promise[j] # "none" =>
                           /\ HasSeen(j, "Finalized")
                           /\ promise[j] = snapshot[j].outcome
                           /\ StoreFaults \/ Stored(j, "Finalized")
    BY DEF FinalIsVisible
  <1>1. SnapshotInv(j) /\ StreamInv(j) /\ StoreInv(j)
    BY DEF RuntimeInv, JobInv
  <1>2. HasSeen(j, "Finalized") <=> pc[j] \in Reported
    BY <1>1 DEF StreamInv
  <1>3. Reported \subseteq Reporting \ {"saveFinal"}
    BY DEF Reported, Reporting
  <1>4. pc[j] \in Reported => /\ snapshot[j].state = "Finalized"
                              /\ snapshot[j].outcome # "none"
    BY <1>1, <1>3 DEF SnapshotInv
  <1>5. pc[j] \in Reported => StoreFaults \/ row[j] = snapshot[j]
    BY <1>1, <1>3 DEF StoreInv
  <1>6. promise[j] # "none" =>
          pc[j] \in {"release", "done"} /\ promise[j] = snapshot[j].outcome
    BY <1>1 DEF SnapshotInv, Reporting
  <1>7. pc[j] \in {"release", "done"} =>
          pc[j] \in Reported /\ (StoreFaults \/ Stored(j, "Finalized"))
    BY <1>1 DEF StoreInv, Reported
  <1> QED BY <1>2, <1>4, <1>5, <1>6, <1>7

\* A consumer of Finalized, or of the awaited handle, never finds a snapshot,
\* a row or an event history that is behind it.
THEOREM FinalVisible == Spec => []FinalIsVisible
  BY RuntimeInvariant, InvImpliesVisible, PTL

LEMMA InvImpliesDecides == RuntimeInv => CancelEventDecides
  BY DEF RuntimeInv, JobInv, StreamInv, CancelEventDecides

\* The wait task's Cancelled event and the driver's outcome never disagree.
THEOREM CancelDecides == Spec => []CancelEventDecides
  BY RuntimeInvariant, InvImpliesDecides, PTL

LEMMA InvImpliesDrained == RuntimeInv => DrainedBeforeVerdict
  BY DEF RuntimeInv, JobInv, WaitInv, ProcessInv, DrainedBeforeVerdict,
         TypeOK, Statuses, Exits

\* No program is judged before it is dead and its output has been read, but
\* for what a read error hides, or a wait error leaves alive; none succeeds
\* that has not exited with zero.
THEOREM Drained == Spec => []DrainedBeforeVerdict
  BY RuntimeInvariant, InvImpliesDrained, PTL

LEMMA InvImpliesTimeoutKills == RuntimeInv => TimeoutKillsGroup
  BY DEF RuntimeInv, JobInv, ProcessInv, TimeoutKillsGroup

\* A timeout leaves no member of the group alive without a fatal signal.
THEOREM TimeoutKills == Spec => []TimeoutKillsGroup
  BY RuntimeInvariant, InvImpliesTimeoutKills, PTL

LEMMA InvImpliesNoneLeft == RuntimeInv => JobObjectLeavesNone
  BY DEF RuntimeInv, JobInv, ProcessInv, JobObjectLeavesNone

\* On Windows closing the Job Object kills what the leader left behind.
THEOREM NoneLeft == Spec => []JobObjectLeavesNone
  BY RuntimeInvariant, InvImpliesNoneLeft, PTL

LEMMA InvImpliesRow == RuntimeInv => RowNeverAhead
  BY DEF RuntimeInv, JobInv, StoreInv, RowNeverAhead

\* Whatever store writes fail, a row is a snapshot the job has passed.
THEOREM RowBehind == Spec => []RowNeverAhead
  BY RuntimeInvariant, InvImpliesRow, PTL

LEMMA InvImpliesBounded == RuntimeInv => RunningBounded
  <1> SUFFICES ASSUME RuntimeInv PROVE RunningBounded
    OBVIOUS
  <1> DEFINE live == {j \in Jobs : /\ "leader" \in Alive(j)
                                   /\ waitStatus[j] # "unknown"}
  <1>1. live \subseteq Holders
    <2> SUFFICES ASSUME NEW j \in Jobs, "leader" \in Alive(j),
                        waitStatus[j] # "unknown"
                 PROVE  pc[j] \in Holding
      BY DEF Holders
    <2>1. proc[j]["leader"] = "alive"
      BY DEF Alive
    <2>2. WaitInv(j) /\ ProcessInv(j) /\ pc[j] \in DriverPoints
          /\ SnapshotInv(j)
      BY DEF RuntimeInv, JobInv, TypeOK
    <2>0. waitStatus[j] \in Statuses \cup {"none"}
      BY DEF RuntimeInv, TypeOK
    <2>3. verdict[j] = "none"
      BY <2>0, <2>1, <2>2 DEF WaitInv, ProcessInv, Statuses
    <2>4. pc[j] \notin Reporting
      BY <2>2, <2>3 DEF SnapshotInv
    <2> QED BY <2>1, <2>2, <2>4 DEF ProcessInv, Holding, Queueing, Reporting
  <1>2. Cardinality(live) <= Cardinality(Holders)
    BY <1>1, HoldersFinite, FS_Subset
  <1>3. permits \in Nat /\ Cardinality(Holders) \in Nat
        /\ permits + Cardinality(Holders) = Limit
    BY HoldersFinite, FS_CardinalityType
       DEF RuntimeInv, TypeOK, PermitConservation
  <1>4. Cardinality(live) \in Nat
    BY <1>1, HoldersFinite, FS_Subset, FS_CardinalityType
  <1> QED BY <1>2, <1>3, <1>4, LimitType DEF RunningBounded

\* At most max(1, max_concurrent) programs run at once: a permit is given
\* back only after the program it was taken for is dead, or could not be
\* waited for.
THEOREM ConcurrencyBounded == Spec => []RunningBounded
  BY RuntimeInvariant, InvImpliesBounded, PTL
=============================================================================
