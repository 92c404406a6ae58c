--------------------------- MODULE JobRefinement ---------------------------
(***************************************************************************)
(* JobRuntime implements JobSpec, for every value of its constants.        *)
(***************************************************************************)
EXTENDS JobRuntimeProofs

\* The abstract variables that are not a variable of JobRuntime.
PhaseOf     == [j \in Jobs |-> snapshot[j].state]
OutcomeOf   == [j \in Jobs |-> snapshot[j].outcome]
RequestedBy == {j \in Jobs : token[j]}
ReportedOf  == {j \in Jobs : HasSeen(j, "Finalized")}

AbstractStutter == /\ PhaseOf' = PhaseOf
                   /\ RequestedBy' = RequestedBy
                   /\ Holders' = Holders
                   /\ verdict' = verdict
                   /\ OutcomeOf' = OutcomeOf
                   /\ ReportedOf' = ReportedOf
                   /\ promise' = promise

AbstractStep(j) ==
  \/ Abs!Submit(j) \/ Abs!Request(j) \/ Abs!Claim(j) \/ Abs!Run(j)
  \/ Abs!ObserveExit(j) \/ Abs!Decide(j) \/ Abs!Publish(j) \/ Abs!Report(j)
  \/ Abs!Deliver(j) \/ Abs!Leave(j)

\* The two assumptions of JobSpec, for the values it is given here.
LEMMA AbsAssumption == IsFiniteSet(Jobs) /\ Limit \in Nat \ {0}
  BY RuntimeAssumption, LimitType

\* JobSpec counts with its own instance of FiniteSets.
LEMMA SameCardinality == \A S : Abs!Cardinality(S) = Cardinality(S)
  BY DEF Abs!Cardinality, Cardinality

LEMMA StutterIsUnchanged == AbstractStutter => UNCHANGED Abs!vars
  BY DEF AbstractStutter, Abs!vars, PhaseOf, RequestedBy, OutcomeOf, ReportedOf

LEMMA AbstractStepIsNext ==
  ASSUME NEW j \in Jobs, AbstractStep(j)
  PROVE  Abs!Next
  BY DEF AbstractStep, Abs!Next

-----------------------------------------------------------------------------
(* What a step does to the abstract variables.                             *)

\* Only the broadcast of Finalized reports a job.
LEMMA ReportedKept ==
  ASSUME TypeOK, NEW j \in Jobs, NEW e \in Events \ {"Finalized"},
         Broadcast(j, e)
  PROVE  ReportedOf' = ReportedOf
  <1>1. ASSUME NEW k \in Jobs
        PROVE  HasSeen(k, "Finalized")' <=> HasSeen(k, "Finalized")
    <2>1. CASE k = j
      BY <2>1, BroadcastKeeps
    <2>2. CASE k # j
      BY <2>2 DEF TypeOK, Broadcast, HasSeen
    <2> QED BY <2>1, <2>2
  <1> QED BY <1>1 DEF ReportedOf

LEMMA ReportedAdds ==
  ASSUME TypeOK, NEW j \in Jobs, Broadcast(j, "Finalized")
  PROVE  ReportedOf' = ReportedOf \cup {j}
  <1>1. ASSUME NEW k \in Jobs
        PROVE  HasSeen(k, "Finalized")' <=> HasSeen(k, "Finalized") \/ k = j
    <2>1. CASE k = j
      BY <2>1, BroadcastKeeps DEF Events
    <2>2. CASE k # j
      BY <2>2 DEF TypeOK, Broadcast, HasSeen
    <2> QED BY <2>1, <2>2
  <1> QED BY <1>1 DEF ReportedOf

\* update_snapshot, seen through PhaseOf and OutcomeOf.
LEMMA PhaseUpdate ==
  ASSUME TypeOK, NEW j \in Jobs, NEW st \in JobStates,
         \/ snapshot' = [snapshot EXCEPT ![j] = [snapshot[j] EXCEPT !.state = st]]
         \/ snapshot' = [snapshot EXCEPT ![j] =
                           [snapshot[j] EXCEPT !.state = st, !.exit = waitStatus[j]]]
  PROVE  PhaseOf' = [PhaseOf EXCEPT ![j] = st] /\ OutcomeOf' = OutcomeOf
  <1>1. ASSUME NEW k \in Jobs
        PROVE  /\ snapshot'[k].state = IF k = j THEN st ELSE snapshot[k].state
               /\ snapshot'[k].outcome = snapshot[k].outcome
    <2>1. CASE snapshot' = [snapshot EXCEPT ![j] =
                             [snapshot[j] EXCEPT !.state = st]]
      BY <2>1 DEF TypeOK, Snapshots
    <2>2. CASE snapshot' = [snapshot EXCEPT ![j] =
                             [snapshot[j] EXCEPT !.state = st, !.exit = waitStatus[j]]]
      BY <2>2 DEF TypeOK, Snapshots
    <2> QED BY <2>1, <2>2
  <1> QED BY <1>1 DEF PhaseOf, OutcomeOf

LEMMA OutcomeUpdate ==
  ASSUME TypeOK, NEW j \in Jobs, NEW st \in JobStates,
         snapshot' = [snapshot EXCEPT ![j] =
                        [snapshot[j] EXCEPT !.state = st, !.outcome = verdict[j]]]
  PROVE  /\ PhaseOf' = [PhaseOf EXCEPT ![j] = st]
         /\ OutcomeOf' = [OutcomeOf EXCEPT ![j] = verdict[j]]
  <1>1. ASSUME NEW k \in Jobs
        PROVE  /\ snapshot'[k].state = IF k = j THEN st ELSE snapshot[k].state
               /\ snapshot'[k].outcome =
                    IF k = j THEN verdict[j] ELSE snapshot[k].outcome
    BY DEF TypeOK, Snapshots
  <1> QED BY <1>1 DEF PhaseOf, OutcomeOf

-----------------------------------------------------------------------------
(* Each step of a job is a step of JobSpec or a stutter.                   *)

LEMMA SilentSteps ==
  ASSUME TypeOK, NEW j \in Jobs,
         \/ SpawnRefused(j) \/ SpawnTail(j) \/ CancelCheck(j) \/ WaitStep(j)
         \/ FaultStep(j) \/ ProcessStep(j)
  PROVE  AbstractStutter
  <1> USE DEF AbstractStutter, clientVars, storeVars, localVars, waitVars,
              osVars, outerVars, PhaseOf, OutcomeOf, RequestedBy
  <1>1. CASE SpawnRefused(j)
    BY <1>1, HoldersKept DEF SpawnRefused, Quietly, Holding, DriverPoints,
       ReportedOf, HasSeen
  <1>2. CASE AnnounceCreated(j)
    BY <1>2, HoldersKept, ReportedKept DEF AnnounceCreated, EmitSend, Holding,
       DriverPoints, Events
  <1>3. CASE LogCreated(j)
    BY <1>3, HoldersKept DEF LogCreated, EmitInsert, Holding, DriverPoints,
       ReportedOf, HasSeen
  <1>4. CASE WaitCancelled(j)
    BY <1>4, ReportedKept DEF WaitCancelled, Events, Holders
  <1>5. CASE \/ LogCancelled(j) \/ Terminate(j) \/ GraceExpires(j)
             \/ WaitTimeout(j) \/ WaitReaps(j) \/ WaitFails(j)
             \/ CloseGroup(j) \/ CancelCheck(j)
    BY <1>5 DEF LogCancelled, Terminate, GraceExpires, WaitTimeout, WaitReaps,
       WaitFails, SendExit, CloseGroup, CancelCheck, Elsewhere, ReportedOf,
       HasSeen, Holders
  <1>6. CASE ProcessStep(j)
    BY <1>6 DEF ProcessStep, ForkKin, Exit, Die, Write, Close,
       ClientsAndTasks, ReportedOf, HasSeen, Holders
  <1>7. ASSUME NEW s \in Streams, ReadFails(j, s)
        PROVE  AbstractStutter
    BY <1>7 DEF ReadFails, Quietly, ReportedOf, HasSeen, Holders
  <1> QED BY <1>1, <1>2, <1>3, <1>4, <1>5, <1>6, <1>7
          DEF SpawnTail, WaitStep, FaultStep

LEMMA SilentDriverSteps ==
  ASSUME TypeOK, NEW j \in Jobs,
         \/ SpawnChild(j) \/ AssignGroup(j) \/ AnnounceStarted(j)
         \/ LogStarted(j) \/ SaveRunning(j) \/ StartWait(j) \/ ReceiveExit(j)
         \/ LogExited(j) \/ SaveExited(j) \/ SaveFinal(j) \/ LogFinal(j)
         \/ \E s \in Streams : ReadLine(j, s) \/ ReadEof(j, s)
  PROVE  AbstractStutter
  <1> USE DEF AbstractStutter, clientVars, storeVars, localVars, waitVars,
              osVars, outerVars, PhaseOf, OutcomeOf, RequestedBy, Holding,
              DriverPoints
  <1>1. CASE SpawnChild(j) \/ AssignGroup(j) \/ StartWait(j)
    BY <1>1, HoldersKept
       DEF SpawnChild, AssignGroup, StartWait, Quietly, ReportedOf, HasSeen
  <1>2. CASE AnnounceStarted(j)
    BY <1>2, HoldersKept, ReportedKept DEF AnnounceStarted, EmitSend, Events
  <1>3. CASE ReceiveExit(j)
    BY <1>3, HoldersKept, ReportedKept DEF ReceiveExit, Events
  <1>4. CASE LogStarted(j) \/ LogExited(j) \/ LogFinal(j)
    BY <1>4, HoldersKept
       DEF LogStarted, LogExited, LogFinal, EmitInsert, ReportedOf, HasSeen
  <1>5. CASE SaveRunning(j) \/ SaveExited(j) \/ SaveFinal(j)
    BY <1>5, HoldersKept
       DEF SaveRunning, SaveExited, SaveFinal, Persist, ReportedOf, HasSeen
  <1>6. ASSUME NEW s \in Streams, ReadLine(j, s)
        PROVE  AbstractStutter
    BY <1>6, ReportedKept DEF ReadLine, Events, Holders
  <1>7. ASSUME NEW s \in Streams, ReadEof(j, s)
        PROVE  AbstractStutter
    BY <1>7 DEF ReadEof, Quietly, ReportedOf, HasSeen, Holders
  <1> QED BY <1>1, <1>2, <1>3, <1>4, <1>5, <1>6, <1>7

LEMMA VisibleSteps ==
  ASSUME RuntimeInv, NEW j \in Jobs,
         \/ SpawnJob(j) \/ CancelFire(j) \/ AcquirePermit(j) \/ SpawnFails(j)
         \/ MarkRunning(j) \/ MarkExited(j) \/ Conclude(j) \/ MarkFinal(j)
         \/ AnnounceFinal(j) \/ Deliver(j) \/ ReleasePermit(j)
  PROVE  AbstractStep(j)
  <1>0. /\ TypeOK /\ PermitConservation
        /\ SnapshotInv(j) /\ StreamInv(j) /\ WaitInv(j)
    BY DEF RuntimeInv, JobInv
  <1>a. j \in Holders <=> pc[j] \in Holding
    BY DEF Holders
  <1>b. /\ PhaseOf[j] = snapshot[j].state
        /\ OutcomeOf[j] = snapshot[j].outcome
        /\ j \in RequestedBy <=> token[j]
        /\ j \in ReportedOf <=> HasSeen(j, "Finalized")
    BY DEF PhaseOf, OutcomeOf, RequestedBy, ReportedOf
  <1> USE DEF clientVars, storeVars, localVars, waitVars, osVars, outerVars,
              EmitSend, Update, Quietly, Decide
  <1>1. CASE SpawnJob(j)
    <2>3. /\ PhaseOf' = [PhaseOf EXCEPT ![j] = "Queued"]
          /\ OutcomeOf' = OutcomeOf
      <3>1. snapshot[j] = NoJob
        BY <1>0, <1>1 DEF SpawnJob, Goto, SnapshotInv
      <3> QED BY <1>0, <1>1, <3>1, PhaseUpdate DEF SpawnJob, QueuedJob, JobStates
    <2>4. PhaseOf[j] = "Absent"
      BY <1>0, <1>1, <1>b DEF SpawnJob, Goto, SnapshotInv
    <2>5. Holders' = Holders /\ ReportedOf' = ReportedOf
          /\ RequestedBy' = RequestedBy
      BY <1>0, <1>1, HoldersKept DEF SpawnJob, Holding, DriverPoints,
         ReportedOf, HasSeen, RequestedBy
    <2>6. Abs!Submit(j)
      BY <1>1, <2>3, <2>4, <2>5 DEF Abs!Submit, SpawnJob, PhaseOf, OutcomeOf,
         RequestedBy, ReportedOf
    <2> QED BY <2>6 DEF AbstractStep
  <1>2. CASE CancelFire(j)
    <2>1. PhaseOf[j] # "Absent"
      BY <1>0, <1>2, <1>b DEF CancelFire, SnapshotInv
    <2>2. RequestedBy' = RequestedBy \cup {j}
      BY <1>0, <1>2 DEF CancelFire, TypeOK, RequestedBy
    <2>3. /\ Holders' = Holders /\ ReportedOf' = ReportedOf
          /\ PhaseOf' = PhaseOf /\ OutcomeOf' = OutcomeOf
      BY <1>2 DEF CancelFire, Holders, ReportedOf, HasSeen, PhaseOf, OutcomeOf
    <2>4. Abs!Request(j)
      BY <1>2, <2>1, <2>2, <2>3 DEF Abs!Request, CancelFire, PhaseOf,
         OutcomeOf, RequestedBy, ReportedOf
    <2> QED BY <2>4 DEF AbstractStep
  <1>3. CASE AcquirePermit(j)
    <2>1. PhaseOf[j] = "Queued" /\ j \notin Holders
      BY <1>0, <1>3, <1>a, <1>b DEF AcquirePermit, Goto, SnapshotInv,
         Queueing, Holding
    <2>2. Cardinality(Holders) < Limit
      BY <1>0, <1>3, HoldersFinite, FS_CardinalityType, LimitType
         DEF AcquirePermit, PermitConservation, TypeOK
    <2>3. Holders' = Holders \cup {j}
      BY <1>0, <1>3 DEF AcquirePermit, Goto, TypeOK, Holders, Holding,
         DriverPoints
    <2>4. /\ RequestedBy' = RequestedBy /\ ReportedOf' = ReportedOf
          /\ PhaseOf' = PhaseOf /\ OutcomeOf' = OutcomeOf
      BY <1>3 DEF AcquirePermit, RequestedBy, ReportedOf, HasSeen, PhaseOf,
         OutcomeOf
    <2>5. UNCHANGED <<verdict, promise>>
      BY <1>3 DEF AcquirePermit
    <2>6. Abs!Claim(j)
      BY <2>1, <2>2, <2>3, <2>4, <2>5, SameCardinality DEF Abs!Claim, PhaseOf, OutcomeOf,
         RequestedBy, ReportedOf
    <2> QED BY <2>6 DEF AbstractStep
  <1>4. CASE SpawnFails(j) \/ Conclude(j)
    <2>1. j \in Holders /\ verdict[j] = "none"
      BY <1>0, <1>4, <1>a DEF SpawnFails, Conclude, Goto, SnapshotInv,
         Holding, DriverPoints, Reporting
    <2>2. Holders' = Holders
      BY <1>0, <1>4, HoldersKept DEF SpawnFails, Conclude, Holding,
         DriverPoints
    <2>3. /\ RequestedBy' = RequestedBy /\ ReportedOf' = ReportedOf
          /\ PhaseOf' = PhaseOf /\ OutcomeOf' = OutcomeOf
      BY <1>4 DEF SpawnFails, Conclude, RequestedBy, ReportedOf, HasSeen,
         PhaseOf, OutcomeOf
    <2>4. CASE SpawnFails(j)
      <3>1. PhaseOf[j] = "Queued"
        BY <1>0, <1>b, <2>4 DEF SpawnFails, Goto, SnapshotInv, Queueing
      <3> QED BY <2>1, <2>2, <2>3, <2>4, <3>1 DEF Abs!Decide, SpawnFails,
              PhaseOf, OutcomeOf, RequestedBy, ReportedOf, AbstractStep
    <2>5. CASE Conclude(j)
      <3>1. PhaseOf[j] = "Exited"
        BY <1>0, <1>b, <2>5 DEF Conclude, Goto, SnapshotInv
      <3>2. ComputeOutcome(token[j], exitRx[j] = "timedOut", waitStatus[j])
              \in IF j \in RequestedBy THEN {"Cancelled"} ELSE Abs!OwnEnds
        BY <1>b DEF ComputeOutcome, Abs!OwnEnds
      <3>3. \E o \in (IF j \in RequestedBy THEN {"Cancelled"}
                                           ELSE Abs!OwnEnds) :
              verdict' = [verdict EXCEPT ![j] = o]
        BY <2>5, <3>2 DEF Conclude
      <3> QED BY <2>1, <2>2, <2>3, <2>5, <3>1, <3>3 DEF Abs!Decide, Conclude,
              PhaseOf, OutcomeOf, RequestedBy, ReportedOf, AbstractStep
    <2> QED BY <1>4, <2>4, <2>5
  <1>5. CASE MarkRunning(j)
    <2>3. /\ PhaseOf' = [PhaseOf EXCEPT ![j] = "Running"]
          /\ OutcomeOf' = OutcomeOf
      BY <1>0, <1>5, PhaseUpdate DEF MarkRunning, JobStates
    <2>4. PhaseOf[j] = "Queued" /\ j \in Holders /\ verdict[j] = "none"
      BY <1>0, <1>5, <1>a, <1>b DEF MarkRunning, Goto, SnapshotInv, Starting,
         Holding, DriverPoints, Reporting
    <2>5. Holders' = Holders /\ ReportedOf' = ReportedOf
          /\ RequestedBy' = RequestedBy
      BY <1>0, <1>5, HoldersKept DEF MarkRunning, Holding, DriverPoints,
         ReportedOf, HasSeen, RequestedBy
    <2>6. Abs!Run(j)
      BY <1>5, <2>3, <2>4, <2>5 DEF Abs!Run, MarkRunning, PhaseOf, OutcomeOf,
         RequestedBy, ReportedOf
    <2> QED BY <2>6 DEF AbstractStep
  <1>6. CASE MarkExited(j)
    <2>3. /\ PhaseOf' = [PhaseOf EXCEPT ![j] = "Exited"]
          /\ OutcomeOf' = OutcomeOf
      BY <1>0, <1>6, PhaseUpdate DEF MarkExited, JobStates
    <2>4. PhaseOf[j] = "Running"
      BY <1>0, <1>6, <1>b DEF MarkExited, Goto, SnapshotInv
    <2>5. Holders' = Holders /\ ReportedOf' = ReportedOf
          /\ RequestedBy' = RequestedBy
      BY <1>0, <1>6, HoldersKept DEF MarkExited, Holding, DriverPoints,
         ReportedOf, HasSeen, RequestedBy
    <2>6. Abs!ObserveExit(j)
      BY <1>6, <2>3, <2>4, <2>5 DEF Abs!ObserveExit, MarkExited, PhaseOf,
         OutcomeOf, RequestedBy, ReportedOf
    <2> QED BY <2>6 DEF AbstractStep
  <1>7. CASE MarkFinal(j)
    <2>3. /\ PhaseOf' = [PhaseOf EXCEPT ![j] = "Finalized"]
          /\ OutcomeOf' = [OutcomeOf EXCEPT ![j] = verdict[j]]
      BY <1>0, <1>7, OutcomeUpdate DEF MarkFinal, JobStates
    <2>4. PhaseOf[j] # "Finalized" /\ verdict[j] # "none"
      BY <1>0, <1>7, <1>b DEF MarkFinal, Goto, SnapshotInv
    <2>5. Holders' = Holders /\ ReportedOf' = ReportedOf
          /\ RequestedBy' = RequestedBy
      BY <1>0, <1>7, HoldersKept DEF MarkFinal, Holding, DriverPoints,
         ReportedOf, HasSeen, RequestedBy
    <2>6. Abs!Publish(j)
      BY <1>7, <2>3, <2>4, <2>5 DEF Abs!Publish, MarkFinal, PhaseOf,
         OutcomeOf, RequestedBy, ReportedOf
    <2> QED BY <2>6 DEF AbstractStep
  <1>8. CASE AnnounceFinal(j)
    <2>1. PhaseOf[j] = "Finalized" /\ j \notin ReportedOf
      BY <1>0, <1>8, <1>b DEF AnnounceFinal, Goto, SnapshotInv, StreamInv,
         Reporting, Reported
    <2>2. ReportedOf' = ReportedOf \cup {j}
      BY <1>0, <1>8, ReportedAdds DEF AnnounceFinal
    <2>3. Holders' = Holders
      BY <1>0, <1>8, HoldersKept DEF AnnounceFinal, Holding, DriverPoints
    <2>4. /\ RequestedBy' = RequestedBy
          /\ PhaseOf' = PhaseOf /\ OutcomeOf' = OutcomeOf
      BY <1>8 DEF AnnounceFinal, RequestedBy, PhaseOf, OutcomeOf
    <2>5. Abs!Report(j)
      BY <1>8, <2>1, <2>2, <2>3, <2>4 DEF Abs!Report, AnnounceFinal, PhaseOf,
         OutcomeOf, RequestedBy, ReportedOf
    <2> QED BY <2>5 DEF AbstractStep
  <1>9. CASE Deliver(j)
    <2>1. /\ j \in ReportedOf /\ promise[j] = "none"
          /\ OutcomeOf[j] = verdict[j]
      BY <1>0, <1>9, <1>b DEF Deliver, Goto, SnapshotInv, StreamInv,
         Reporting, Reported
    <2>2. Holders' = Holders
      BY <1>0, <1>9, HoldersKept DEF Deliver, Holding, DriverPoints
    <2>3. /\ RequestedBy' = RequestedBy /\ ReportedOf' = ReportedOf
          /\ PhaseOf' = PhaseOf /\ OutcomeOf' = OutcomeOf
      BY <1>9 DEF Deliver, RequestedBy, ReportedOf, HasSeen, PhaseOf,
         OutcomeOf
    <2>4. promise' = [promise EXCEPT ![j] = OutcomeOf[j]]
      BY <1>9, <2>1 DEF Deliver
    <2>5. Abs!Deliver(j)
      BY <1>9, <2>1, <2>2, <2>3, <2>4 DEF Abs!Deliver, Deliver, PhaseOf,
         OutcomeOf, RequestedBy, ReportedOf
    <2> QED BY <2>5 DEF AbstractStep
  <1>10. CASE ReleasePermit(j)
    <2>1. promise[j] # "none" /\ j \in Holders
      BY <1>0, <1>10, <1>a DEF ReleasePermit, Goto, SnapshotInv, Reporting,
         Holding, DriverPoints
    <2>2. Holders' = Holders \ {j}
      BY <1>0, <1>10 DEF ReleasePermit, Goto, TypeOK, Holders, Holding,
         DriverPoints
    <2>3. /\ RequestedBy' = RequestedBy /\ ReportedOf' = ReportedOf
          /\ PhaseOf' = PhaseOf /\ OutcomeOf' = OutcomeOf
      BY <1>10 DEF ReleasePermit, RequestedBy, ReportedOf, HasSeen, PhaseOf,
         OutcomeOf
    <2>4. Abs!Leave(j)
      BY <1>10, <2>1, <2>2, <2>3 DEF Abs!Leave, ReleasePermit, PhaseOf,
         OutcomeOf, RequestedBy, ReportedOf
    <2> QED BY <2>4 DEF AbstractStep
  <1> QED BY <1>1, <1>2, <1>3, <1>4, <1>5, <1>6, <1>7, <1>8, <1>9, <1>10

LEMMA InitRefines == Init => Abs!Init
  <1> SUFFICES ASSUME Init PROVE Abs!Init
    OBVIOUS
  <1>1. Holders = {}
    BY DEF Init, Holders, Holding
  <1>2. \A j \in Jobs : ~HasSeen(j, "Finalized")
    BY DEF Init, HasSeen, Has
  <1> QED BY <1>1, <1>2 DEF Init, Abs!Init, NoJob

LEMMA NextRefines ==
  ASSUME RuntimeInv, [Next]_vars
  PROVE  [Abs!Next]_(Abs!vars)
  <1>1. CASE UNCHANGED vars
    <2>1. AbstractStutter
      BY <1>1 DEF vars, clientVars, outerVars, localVars, AbstractStutter, PhaseOf,
         OutcomeOf, RequestedBy, ReportedOf, HasSeen, Holders
    <2> QED BY <2>1, StutterIsUnchanged
  <1>2. ASSUME NEW j \in Jobs, JobStep(j)
        PROVE  [Abs!Next]_(Abs!vars)
    <2>1. TypeOK
      BY DEF RuntimeInv
    <2>2. AbstractStutter \/ AbstractStep(j)
      BY <1>2, <2>1, SilentSteps, SilentDriverSteps, VisibleSteps
         DEF JobStep, SpawnStep, ClientStep, DriverStep
    <2> QED BY <2>2, StutterIsUnchanged, AbstractStepIsNext
  <1> QED BY <1>1, <1>2 DEF Next, Quiescent

\* JobRuntime keeps the promises of JobSpec, whatever the interleaving of
\* spawning and cancelling callers, drivers, wait tasks and processes.
THEOREM Refinement == Spec => ImplementsJobSpec
  <1>1. RuntimeInv /\ [Next]_vars => [Abs!Next]_(Abs!vars)
    BY NextRefines
  <1> QED BY InitRefines, <1>1, RuntimeInvariant, PTL
          DEF Spec, ImplementsJobSpec, Abs!Spec
=============================================================================
