---------------------------- MODULE EventConsumers ----------------------------
(***************************************************************************)
(* The clients of a job's events composed with its channel: a Tauri task   *)
(* that is awaited, one that is spawned and left, and `execra run`.        *)
(***************************************************************************)
EXTENDS EventForwarding, CommandRun

VARIABLE client

vars == <<chanVars, forwardVars, commandVars, client>>

TypeOK ==
  /\ ChannelTypeOK /\ ForwardTypeOK /\ CommandTypeOK
  /\ client \in {"awaited", "spawned", "command"}

Init ==
  /\ ChannelInit
  /\ client \in {"awaited", "spawned", "command"}
  /\ ForwardInit(client # "command", client = "awaited")
  /\ CommandInit(client = "command")

Job == (Senders \/ Promise) /\ UNCHANGED <<forwardVars, commandVars, client>>

Task == (Forwarder \/ Caller) /\ UNCHANGED <<commandVars, client>>

Run == Command /\ UNCHANGED <<forwardVars, client>>

Next == Job \/ Task \/ Run

Spec == Init /\ [][Next]_vars

\* tokio polls the driver and the clients; the forwarder's biased select reads
\* an event that is there before it ticks again.
Fairness ==
  /\ WF_vars(Promise /\ Job)
  /\ WF_vars(Caller /\ Task)
  /\ WF_vars(ForwarderReads /\ Task)
  /\ WF_vars(Run)

FairSpec == Spec /\ Fairness

-----------------------------------------------------------------------------

\* Once its job has an outcome, an awaited task and `execra run` return, a
\* spawned task's forwarder stops, whether or not an observer panics; only a
\* channel full of other events that overtook Finalized can hold a forwarder
\* up, and that never holds up `execra run`.  A callback is taken to return or
\* to panic: one that blocks holds up its forwarder, and the awaited task.
ClientsReturn ==
  promised ~>
    CASE client = "awaited" -> apc = "returned" \/ FinalizedLost
      [] client = "spawned" -> fpc # "running" \/ FinalizedLost
      [] client = "command" -> cpc = "returned"
=============================================================================
