-------------------------------- MODULE JobSpec --------------------------------
(***************************************************************************)
(* What a Runtime promises of a job, without its tasks, its process or its *)
(* store: the states it goes through, the limit on the jobs that run at    *)
(* once, the outcome it settles on and the order in which the outcome      *)
(* becomes visible: the snapshot, then the Finalized event, then the       *)
(* awaited handle, and only then the place of the job for another.         *)
(***************************************************************************)
EXTENDS Naturals, FiniteSets

CONSTANTS Jobs,   \* the jobs ever submitted
          Limit   \* how many may run at once

VARIABLES
  phase,      \* the state `Runtime::job` shows
  requested,  \* the jobs whose cancellation has been requested
  slots,      \* the jobs that own a place
  verdict,    \* the outcome settled on, "none" before
  outcome,    \* the outcome `Runtime::job` shows
  reported,   \* the jobs whose Finalized event has been broadcast
  delivered   \* the outcome that awaiting the handle gives

vars == <<phase, requested, slots, verdict, outcome, reported, delivered>>

Phases == {"Absent", "Queued", "Running", "Exited", "Finalized"}
OwnEnds == {"Succeeded", "Failed", "Timeout"}
Outcomes == OwnEnds \cup {"SpawnFailed", "Cancelled"}

Init ==
  /\ phase = [j \in Jobs |-> "Absent"]
  /\ requested = {}
  /\ slots = {}
  /\ verdict = [j \in Jobs |-> "none"]
  /\ outcome = [j \in Jobs |-> "none"]
  /\ reported = {}
  /\ delivered = [j \in Jobs |-> "none"]

Submit(j) ==
  /\ phase[j] = "Absent"
  /\ phase' = [phase EXCEPT ![j] = "Queued"]
  /\ UNCHANGED <<requested, slots, verdict, outcome, reported, delivered>>

Request(j) ==
  /\ phase[j] # "Absent"
  /\ requested' = requested \cup {j}
  /\ UNCHANGED <<phase, slots, verdict, outcome, reported, delivered>>

Claim(j) ==
  /\ phase[j] = "Queued"
  /\ j \notin slots
  /\ Cardinality(slots) < Limit
  /\ slots' = slots \cup {j}
  /\ UNCHANGED <<phase, requested, verdict, outcome, reported, delivered>>

Run(j) ==
  /\ phase[j] = "Queued"
  /\ j \in slots
  /\ verdict[j] = "none"
  /\ phase' = [phase EXCEPT ![j] = "Running"]
  /\ UNCHANGED <<requested, slots, verdict, outcome, reported, delivered>>

ObserveExit(j) ==
  /\ phase[j] = "Running"
  /\ phase' = [phase EXCEPT ![j] = "Exited"]
  /\ UNCHANGED <<requested, slots, verdict, outcome, reported, delivered>>

\* A program that never started fails; one that ended is cancelled if that
\* was requested before now, and is judged by how it ended otherwise.
Decide(j) ==
  /\ j \in slots
  /\ verdict[j] = "none"
  /\ \/ /\ phase[j] = "Queued"
        /\ verdict' = [verdict EXCEPT ![j] = "SpawnFailed"]
     \/ /\ phase[j] = "Exited"
        /\ \E o \in (IF j \in requested THEN {"Cancelled"} ELSE OwnEnds) :
             verdict' = [verdict EXCEPT ![j] = o]
  /\ UNCHANGED <<phase, requested, slots, outcome, reported, delivered>>

Publish(j) ==
  /\ verdict[j] # "none"
  /\ phase[j] # "Finalized"
  /\ phase' = [phase EXCEPT ![j] = "Finalized"]
  /\ outcome' = [outcome EXCEPT ![j] = verdict[j]]
  /\ UNCHANGED <<requested, slots, verdict, reported, delivered>>

Report(j) ==
  /\ phase[j] = "Finalized"
  /\ j \notin reported
  /\ reported' = reported \cup {j}
  /\ UNCHANGED <<phase, requested, slots, verdict, outcome, delivered>>

Deliver(j) ==
  /\ j \in reported
  /\ delivered[j] = "none"
  /\ delivered' = [delivered EXCEPT ![j] = outcome[j]]
  /\ UNCHANGED <<phase, requested, slots, verdict, outcome, reported>>

Leave(j) ==
  /\ delivered[j] # "none"
  /\ j \in slots
  /\ slots' = slots \ {j}
  /\ UNCHANGED <<phase, requested, verdict, outcome, reported, delivered>>

Next == \E j \in Jobs :
          \/ Submit(j) \/ Request(j) \/ Claim(j) \/ Run(j) \/ ObserveExit(j)
          \/ Decide(j) \/ Publish(j) \/ Report(j) \/ Deliver(j) \/ Leave(j)

Spec == Init /\ [][Next]_vars
=============================================================================
