---------------------------- MODULE EventForwarding ----------------------------
(***************************************************************************)
(* A task of the Tauri plugin (tauri.rs): the forwarder reads the job's    *)
(* events and delivers them to observers and channel, with synthetic       *)
(* progress in between; into_future waits for the job and then for the     *)
(* forwarder, spawn leaves the forwarder to itself.                        *)
(***************************************************************************)
EXTENDS EventChannel

CONSTANTS
  Slice,      \* Slice[p]: <<start, end>> the creep function gives, or NoSlice
  Observers   \* may an observer callback panic?

\* Fractions are in halves of a percent.
NoSlice == <<>>

ASSUME ForwardingAssumption ==
  /\ Observers \in BOOLEAN
  /\ \A p \in Phases : Slice[p] # NoSlice => Slice[p] \in (0..200) \X (0..200)

VARIABLES
  got,       \* what the forwarder has delivered
  creep,     \* the forwarder's `state`, NoCreep for None
  fpc,       \* the forwarder: running, finished or panicked, or none
  apc        \* into_future: awaits the handle, then the forwarder, or none

forwardVars == <<got, creep, fpc, apc>>

NoCreep == [armed |-> FALSE, cur |-> 0, cap |-> 0]

ForwardTypeOK ==
  /\ got \in Seq([kind : {"real", "synthetic"}, at : Nat])
  /\ creep \in [armed : BOOLEAN, cur : 0..200, cap : 0..200]
  /\ creep.armed => creep.cur <= creep.cap
  /\ fpc \in {"none", "running", "finished", "panicked"}
  /\ apc \in {"none", "handle", "forwarder", "returned"}

ForwardInit(forwards, awaits) ==
  /\ got = <<>> /\ creep = NoCreep
  /\ fpc = IF forwards THEN "running" ELSE "none"
  /\ apc = IF awaits THEN "handle" ELSE "none"

-----------------------------------------------------------------------------
(* forward_events: a biased select over the stream and the ticker.         *)

\* Mutant: a slice the function gives backwards is taken as it is.
CreepUnfiltered(p) ==
  IF Slice[p] = NoSlice THEN NoCreep
  ELSE [armed |-> TRUE, cur |-> Slice[p][1],
        cap |-> Slice[p][1] + (95 * (Slice[p][2] - Slice[p][1])) \div 100]

CreepFor(p) ==
  IF Slice[p] = NoSlice \/ Slice[p][1] >= Slice[p][2] THEN NoCreep
  ELSE [armed |-> TRUE, cur |-> Slice[p][1],
        cap |-> Slice[p][1] + (95 * (Slice[p][2] - Slice[p][1])) \div 100]

\* Mutant: only the end of a phase disarms the ticker.
RearmUnlessExited(e) ==
  CASE e.kind = "PhaseEntered" -> CreepFor(e.arg)
    [] e.kind = "PhaseExited" -> NoCreep
    [] OTHER -> creep

Rearm(e) ==
  CASE e.kind = "PhaseEntered" -> CreepFor(e.arg)
    [] e.kind \in {"PhaseExited", "Cancelled", "Finalized"} -> NoCreep
    [] OTHER -> creep

ForwarderSkips ==
  /\ fpc = "running"
  /\ SkipLag \/ SkipOther
  /\ UNCHANGED forwardVars

Deliver(kind, at) == got' = Append(got, [kind |-> kind, at |-> at])

\* Mutant: Finalized ends the loop before it is delivered.
StopFirst ==
  /\ fpc = "running" /\ Receive
  /\ creep' = Rearm(sent[rx])
  /\ IF sent[rx].kind = "Finalized"
     THEN got' = got /\ fpc' = "finished"
     ELSE Deliver("real", rx) /\ fpc' = "running"
  /\ apc' = apc

\* Mutant: the loop goes on after Finalized.
NeverStop ==
  /\ fpc = "running" /\ Receive
  /\ creep' = Rearm(sent[rx])
  /\ Deliver("real", rx)
  /\ UNCHANGED <<fpc, apc>>

Forward ==
  /\ fpc = "running" /\ Receive
  /\ creep' = Rearm(sent[rx])
  /\ Deliver("real", rx)
  /\ fpc' = IF sent[rx].kind = "Finalized" THEN "finished" ELSE "running"
  /\ apc' = apc

\* a callback panics on an event or a tick, and the task with it
ObserverPanics ==
  /\ Observers
  /\ fpc = "running"
  /\ creep.armed \/ Ready
  /\ fpc' = "panicked" /\ creep' = NoCreep
  /\ UNCHANGED <<chanVars, got, apc>>

\* (new * 100.0).round(), half away from zero
Percent(v) == (v + 1) \div 2

\* CreepState::tick: at most 2% of the way to the cap, delivered when the
\* whole percent changed. A tick that moves less than a unit is a stutter.
Tick ==
  /\ fpc = "running" /\ creep.armed
  /\ IF creep.cur >= creep.cap
     THEN creep' = NoCreep /\ got' = got
     ELSE \E step \in 1..((creep.cap - creep.cur + 49) \div 50) :
            LET new == creep.cur + step IN
            /\ creep' = [creep EXCEPT !.cur = new]
            /\ IF Percent(new) = Percent(creep.cur) THEN got' = got
               ELSE Deliver("synthetic", new)
  /\ UNCHANGED <<chanVars, fpc, apc>>

-----------------------------------------------------------------------------
(* TaskBuilder::into_future.                                               *)

HandleReady ==
  /\ apc = "handle" /\ promised
  /\ apc' = "forwarder"
  /\ UNCHANGED <<chanVars, got, creep, fpc>>

\* `let _ = forwarder.await`: a panic of the task is ignored.
ForwarderJoined ==
  /\ apc = "forwarder" /\ fpc # "running"
  /\ apc' = "returned"
  /\ UNCHANGED <<chanVars, got, creep, fpc>>

ForwarderReads == ForwarderSkips \/ Forward \/ ObserverPanics
Forwarder == ForwarderReads \/ Tick
Caller == HandleReady \/ ForwarderJoined

-----------------------------------------------------------------------------
(* Properties.                                                             *)

Delivered == {got[i].at : i \in {k \in DOMAIN got : got[k].kind = "real"}}

\* Observers get this job's events only, in the order sent, each once, from
\* the first one on; they miss one only when the channel has overwritten it.
ForwardsInOrder ==
  /\ Delivered \subseteq Own
  /\ \A i, k \in DOMAIN got :
       got[i].kind = "real" /\ got[k].kind = "real" /\ i < k
         => got[i].at < got[k].at
  /\ fpc # "none" =>
       \A n \in Own \ Delivered : n >= rx \/ n <= Len(sent) - Capacity

\* got[k] arms the ticker or disarms it; all other events leave it alone.
Moves(k) ==
  /\ got[k].kind = "real"
  /\ sent[got[k].at].kind \in {"PhaseEntered", "PhaseExited", "Cancelled", "Finalized"}

\* Of the first n events delivered, got[k] is the last that moves the ticker,
\* and it enters a phase.
Opened(k, n) ==
  /\ k \in 1..n
  /\ got[k].kind = "real" /\ sent[got[k].at].kind = "PhaseEntered"
  /\ \A m \in (k + 1)..n : ~Moves(m)

\* Between the delivery of a PhaseExited, Cancelled or Finalized and that of
\* the next PhaseEntered there is no synthetic progress. After a PhaseEntered
\* it lies strictly inside that phase's slice and rises with every value
\* delivered, whatever other events (kind Output) come in between; progress the
\* job itself reports is among those and not compared. A phase entered after
\* Cancelled counts, and one whose end was lost to lag stays open: the ticker
\* knows what is delivered and nothing else.
CreepIsContained ==
  \A i \in DOMAIN got : got[i].kind = "synthetic" =>
    \E k \in 1..(i - 1) :
      /\ Opened(k, i - 1)
      /\ \A m \in (k + 1)..(i - 1) :
           got[m].kind = "synthetic" => got[m].at < got[i].at
      /\ LET slice == Slice[sent[got[k].at].arg]
         IN  slice # NoSlice /\ slice[1] < got[i].at /\ got[i].at < slice[2]

\* RUNTIME.md, "Execra waits for observers/channel forwarding to see
\* `Finalized` before returning the `Outcome`".
FinalizedBeforeReturn ==
  apc = "returned" => \/ fpc = "panicked"
                      \/ \E n \in Delivered : sent[n].kind = "Finalized"
=============================================================================
