----------------------------- MODULE EventChannel -----------------------------
(***************************************************************************)
(* The broadcast channel of a Runtime as one job's subscriber sees it: the *)
(* job's driver and other jobs send, an EventStream (stream.rs) receives,  *)
(* and after Finalized the driver sends the outcome to the JobHandle.      *)
(***************************************************************************)
EXTENDS Integers, Sequences

CONSTANTS
  Capacity,    \* slots of the broadcast channel (1024 in the code)
  Phases,      \* phases the job may enter
  MaxEvents    \* bound: events sent

ASSUME ChannelAssumption == Capacity \in Nat \ {0} /\ MaxEvents \in Nat

VARIABLES
  sent,      \* all events sent on the channel since the job's receiver exists
  promised,  \* has the driver sent the outcome?
  rx         \* position of the receiver in `sent`

chanVars == <<sent, promised, rx>>

Ev(kind, arg) == [kind |-> kind, arg |-> arg]
Kinds == {"JobCreated", "PhaseEntered", "PhaseExited", "Output", "Cancelled",
          "Finalized", "Other"}

ChannelTypeOK ==
  /\ sent \in Seq([kind : Kinds, arg : Phases \cup {""}])
  /\ promised \in BOOLEAN
  /\ rx \in 1..(Len(sent) + 1)

\* spawn subscribes before it sends JobCreated.
ChannelInit == sent = <<>> /\ promised = FALSE /\ rx = 1

-----------------------------------------------------------------------------
(* The senders: this job's events in their order, and anything else.       *)

Has(kind) == \E i \in DOMAIN sent : sent[i].kind = kind
Count(kind) == Len(SelectSeq(sent, LAMBDA e : e.kind = kind))

Send(e) ==
  /\ Len(sent) < MaxEvents
  /\ sent' = Append(sent, e)
  /\ UNCHANGED <<promised, rx>>

SendCreated == ~Has("JobCreated") /\ Send(Ev("JobCreated", ""))

SendOther == Send(Ev("Other", ""))

JobRuns == Has("JobCreated") /\ ~Has("Finalized")

SendPhase ==
  /\ JobRuns
  /\ \/ \E p \in Phases : Send(Ev("PhaseEntered", p))
     \/ /\ Count("PhaseEntered") > Count("PhaseExited")
        /\ Send(Ev("PhaseExited", ""))

SendOutput == JobRuns /\ Send(Ev("Output", ""))

SendCancelled == JobRuns /\ ~Has("Cancelled") /\ Send(Ev("Cancelled", ""))

SendFinalized ==
  /\ JobRuns
  /\ Count("PhaseEntered") = Count("PhaseExited")
  /\ Send(Ev("Finalized", ""))

\* outcome_tx.send, after Finalized
Promise ==
  /\ Has("Finalized") /\ ~promised
  /\ promised' = TRUE
  /\ UNCHANGED <<sent, rx>>

Senders == SendCreated \/ SendPhase \/ SendOutput \/ SendCancelled
             \/ SendFinalized \/ SendOther

-----------------------------------------------------------------------------
(* EventStream::next.                                                      *)

Lagging == Len(sent) - rx >= Capacity

\* Mutant: the receiver subscribes again and misses what is kept.
SkipToEnd == Lagging /\ rx' = Len(sent) + 1 /\ UNCHANGED <<sent, promised>>

\* The receiver was overtaken: what is gone is skipped without a word.
SkipLag ==
  /\ Lagging
  /\ rx' = Len(sent) - Capacity + 1
  /\ UNCHANGED <<sent, promised>>

\* An event of another job is filtered out.
SkipOther ==
  /\ ~Lagging
  /\ rx <= Len(sent) /\ sent[rx].kind = "Other"
  /\ rx' = rx + 1
  /\ UNCHANGED <<sent, promised>>

Ready == ~Lagging /\ rx <= Len(sent) /\ sent[rx].kind # "Other"

\* next() returns sent[rx]
Receive == Ready /\ rx' = rx + 1 /\ UNCHANGED <<sent, promised>>

Own == {i \in DOMAIN sent : sent[i].kind # "Other"}

\* the channel overwrote Finalized before it was read
FinalizedLost ==
  \E n \in DOMAIN sent : sent[n].kind = "Finalized" /\ n <= Len(sent) - Capacity
=============================================================================
