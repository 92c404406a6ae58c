----------------------------- MODULE EventProofs -----------------------------
(***************************************************************************)
(* Proofs of the safety properties of EventConsumers, for a channel of any *)
(* capacity, any phases and any number of events.                          *)
(*                                                                         *)
(* The argument: Finalized is the job's last event, and a consumer has     *)
(* taken exactly the events before its position, in their order, except    *)
(* those the channel had overwritten when it came to them.                 *)
(***************************************************************************)
EXTENDS EventConsumers, SequenceTheorems, TLAPS

\* Finalized comes once, after JobCreated, and no event of the job after it.
SentInv ==
  /\ Has("Finalized") => Has("JobCreated")
  /\ \A i, k \in DOMAIN sent :
       sent[i].kind = "Finalized" /\ i < k => sent[k].kind = "Other"
  /\ \A i \in DOMAIN sent : sent[i].kind = "PhaseEntered" => sent[i].arg \in Phases

\* Which of the clients there is.
ClientInv ==
  /\ fpc = "none" <=> client = "command"
  /\ cpc # "none" <=> client = "command"
  /\ apc # "none" => client = "awaited"

Real(i) == got[i].kind = "real"

\* What the forwarder has delivered.
ForwardInv ==
  /\ \A i \in DOMAIN got : Real(i) =>
       got[i].at \in 1..(rx - 1) /\ sent[got[i].at].kind # "Other"
  /\ \A i, k \in DOMAIN got : Real(i) /\ Real(k) /\ i < k => got[i].at < got[k].at
  /\ fpc # "none" => \A n \in Own :
       n < rx /\ n > Len(sent) - Capacity => \E i \in DOMAIN got : Real(i) /\ got[i].at = n
  /\ fpc = "finished" =>
       \E i \in DOMAIN got : Real(i) /\ sent[got[i].at].kind = "Finalized"
  /\ apc = "returned" => fpc # "running"

Event(i) == printed[i].what = "event"

\* What `execra run` has printed.
CommandInv ==
  /\ \A i \in DOMAIN printed : Event(i) =>
       printed[i].at \in 1..(rx - 1) /\ sent[printed[i].at].kind # "Other"
  /\ \A i, k \in DOMAIN printed :
       Event(i) /\ Event(k) /\ i < k => printed[i].at < printed[k].at
  /\ \A i \in DOMAIN printed : Reports(i) => i = Len(printed)
  /\ cpc = "returned" => printed # <<>> /\ Reports(Len(printed))
  /\ cpc = "running" /\ (~json \/ ~finalized_seen) =>
       \A i \in DOMAIN printed : ~Reports(i)
  /\ json /\ finalized_seen => printed # <<>> /\ Reports(Len(printed))
  /\ finalized_seen => \E n \in 1..(rx - 1) : sent[n].kind = "Finalized"

ConsumersInv ==
  TypeOK /\ SentInv /\ ClientInv /\ ForwardInv /\ CommandInv

-----------------------------------------------------------------------------
LEMMA Grows ==
  ASSUME NEW S, NEW s \in Seq(S), NEW e \in S
  PROVE  /\ Append(s, e) \in Seq(S)
         /\ Len(s) \in Nat /\ DOMAIN s = 1..Len(s)
         /\ Len(Append(s, e)) = Len(s) + 1
         /\ DOMAIN Append(s, e) = 1..(Len(s) + 1)
         /\ \A i \in 1..Len(s) : Append(s, e)[i] = s[i]
         /\ Append(s, e)[Len(s) + 1] = e
<1>1. Append(s, e) \in Seq(S)
  BY AppendProperties
<1> QED BY <1>1, AppendProperties, LenProperties

Events == [kind : Kinds, arg : Phases \cup {""}]

\* The slice of a phase is armed within the percentages.
LEMMA CreepTyped ==
  ASSUME NEW p \in Phases
  PROVE  /\ CreepFor(p) \in [armed : BOOLEAN, cur : 0..200, cap : 0..200]
         /\ CreepFor(p).armed => CreepFor(p).cur <= CreepFor(p).cap
<1>1. CASE Slice[p] = NoSlice \/ Slice[p][1] >= Slice[p][2]
  <2>1. CreepFor(p) = NoCreep
    BY <1>1 DEF CreepFor
  <2> QED BY <2>1 DEF NoCreep
<1>2. CASE ~(Slice[p] = NoSlice \/ Slice[p][1] >= Slice[p][2])
  <2> DEFINE a == Slice[p][1]
             b == Slice[p][2]
             c == a + (95 * (b - a)) \div 100
  <2>1. a \in 0..200 /\ b \in 0..200
    <3>1. Slice[p] \in (0..200) \X (0..200)
      BY <1>2, ForwardingAssumption
    <3> QED BY <3>1
  <2>2. a < b
    <3>1. ~(a >= b)
      BY <1>2
    <3> HIDE DEF a, b
    <3> QED BY <2>1, <3>1
  <2>3. c \in 0..200 /\ a <= c
    <3> HIDE DEF a, b
    <3> QED BY <2>1, <2>2
  <2>4. CreepFor(p) = [armed |-> TRUE, cur |-> a, cap |-> c]
    BY <1>2 DEF CreepFor
  <2> HIDE DEF a, b, c
  <2> QED BY <2>1, <2>3, <2>4
<1> QED BY <1>1, <1>2

LEMMA InitHolds == Init => ConsumersInv
<1> SUFFICES ASSUME Init PROVE ConsumersInv
  OBVIOUS
<1>0. /\ sent = <<>> /\ promised = FALSE /\ rx = 1
      /\ client \in {"awaited", "spawned", "command"}
      /\ got = <<>> /\ creep = NoCreep /\ printed = <<>> /\ finalized_seen = FALSE
  BY DEF Init, ChannelInit, ForwardInit, CommandInit
<1>1. /\ fpc \in {"none", "running"} /\ (fpc = "none" <=> client = "command")
      /\ apc \in {"none", "handle"} /\ (apc = "handle" <=> client = "awaited")
  BY DEF Init, ForwardInit
<1>2. /\ json \in BOOLEAN
      /\ cpc \in {"none", "running"} /\ (cpc = "running" <=> client = "command")
  <2>1. json \in IF client = "command" THEN BOOLEAN ELSE {FALSE}
    BY DEF Init, CommandInit
  <2>2. json \in BOOLEAN
    BY <2>1, Zenon
  <2>3. cpc = IF client = "command" THEN "running" ELSE "none"
    BY DEF Init, CommandInit
  <2> QED BY <2>2, <2>3
<1>3. TypeOK
  <2>1. ChannelTypeOK
    <3>1. sent \in Seq(Events) /\ Len(sent) = 0
      BY <1>0, EmptySeq
    <3>2. rx \in 1..(Len(sent) + 1)
      BY <1>0, <3>1
    <3> QED BY <1>0, <3>1, <3>2, Zenon DEF ChannelTypeOK, Events
  <2>2. ForwardTypeOK
    <3>1. creep \in [armed : BOOLEAN, cur : 0..200, cap : 0..200] /\ ~creep.armed
      BY <1>0 DEF NoCreep
    <3>2. got \in Seq([kind : {"real", "synthetic"}, at : Nat])
      BY <1>0, EmptySeq
    <3> QED BY <1>1, <3>1, <3>2 DEF ForwardTypeOK
  <2>3. CommandTypeOK
    BY <1>0, <1>2, EmptySeq DEF CommandTypeOK
  <2> QED BY <1>0, <2>1, <2>2, <2>3 DEF TypeOK
<1>4. DOMAIN sent = {} /\ DOMAIN got = {} /\ DOMAIN printed = {}
  BY <1>0
<1>5. SentInv
  BY <1>4 DEF SentInv, Has
<1>6. ClientInv
  BY <1>0, <1>1, <1>2 DEF ClientInv
<1>7. ForwardInv
  BY <1>1, <1>4 DEF ForwardInv, Own, Real
<1>8. CommandInv
  BY <1>0, <1>2, <1>4 DEF CommandInv, Event, Reports
<1> QED BY <1>3, <1>5, <1>6, <1>7, <1>8 DEF ConsumersInv

-----------------------------------------------------------------------------
(* A step of the senders: what was sent stays, and rx.                     *)

\* what every sender does
Sends(e) ==
  /\ sent' = Append(sent, e) /\ UNCHANGED <<promised, rx>>
  /\ e \in Events
  /\ e.kind = "Other" \/ ~Has("Finalized")
  /\ e.kind = "Finalized" => Has("JobCreated")
  /\ e.kind = "PhaseEntered" => e.arg \in Phases
  /\ e.kind = "JobCreated" => ~Has("JobCreated")
  /\ e.kind \notin {"JobCreated", "Other"} => Has("JobCreated")

LEMMA SenderSends ==
  ASSUME ConsumersInv, Senders PROVE \E e : Sends(e)
<1>0. ASSUME NEW k \in Kinds, NEW a \in Phases \cup {""}, Send(Ev(k, a)),
             k = "Other" \/ ~Has("Finalized"), k = "Finalized" => Has("JobCreated"),
             k = "PhaseEntered" => a \in Phases,
             k = "JobCreated" => ~Has("JobCreated"),
             k \notin {"JobCreated", "Other"} => Has("JobCreated")
      PROVE  Sends(Ev(k, a))
  <2>1. Ev(k, a) \in Events /\ Ev(k, a).kind = k /\ Ev(k, a).arg = a
    BY DEF Events, Ev
  <2> QED BY <1>0, <2>1 DEF Send, Sends
<1>1. CASE SendCreated
  <2>1. ~Has("Finalized")
    BY <1>1 DEF SendCreated, ConsumersInv, SentInv
  <2> QED BY <1>0, <1>1, <2>1 DEF SendCreated, Kinds
<1>2. CASE SendPhase
  BY <1>0, <1>2 DEF SendPhase, JobRuns, Kinds
<1>3. CASE SendOutput
  BY <1>0, <1>3 DEF SendOutput, JobRuns, Kinds
<1>4. CASE SendCancelled
  BY <1>0, <1>4 DEF SendCancelled, JobRuns, Kinds
<1>5. CASE SendFinalized
  BY <1>0, <1>5 DEF SendFinalized, JobRuns, Kinds
<1>6. CASE SendOther
  BY <1>0, <1>6 DEF SendOther, Kinds
<1> QED BY <1>1, <1>2, <1>3, <1>4, <1>5, <1>6 DEF Senders

LEMMA SendKeeps ==
  ASSUME ConsumersInv, NEW e, Sends(e), UNCHANGED <<forwardVars, commandVars, client>>
  PROVE  ConsumersInv'
<1> DEFINE n == Len(sent)
<1>0. /\ sent \in Seq(Events) /\ e \in Events /\ sent' = Append(sent, e)
      /\ rx' = rx /\ promised' = promised /\ UNCHANGED <<got, creep, fpc, apc>>
      /\ UNCHANGED <<json, printed, finalized_seen, cpc, client>>
  BY DEF ConsumersInv, TypeOK, ChannelTypeOK, Events, Sends, forwardVars, commandVars
<1>1. /\ sent' \in Seq(Events) /\ n \in Nat /\ DOMAIN sent = 1..n
      /\ Len(sent') = n + 1 /\ DOMAIN sent' = 1..(n + 1) /\ sent'[n + 1] = e
      /\ \A i \in 1..n : sent'[i] = sent[i]
  BY <1>0, Grows
<1> HIDE DEF n
<1>2. rx \in 1..(n + 1) /\ Capacity \in Nat
  BY ChannelAssumption DEF ConsumersInv, TypeOK, ChannelTypeOK, n
<1>3. \A i \in 1..(rx - 1) : i \in DOMAIN sent /\ sent'[i] = sent[i]
  BY <1>1, <1>2
<1>4. TypeOK'
  <2>1. ChannelTypeOK'
    <3>1. promised' \in BOOLEAN
      BY <1>0, Zenon DEF ConsumersInv, TypeOK, ChannelTypeOK
    <3>2. rx' \in 1..(Len(sent') + 1)
      BY <1>0, <1>1, <1>2
    <3> QED BY <1>1, <3>1, <3>2, Zenon DEF ChannelTypeOK, Events
  <2>2. ForwardTypeOK'
    BY <1>0 DEF ConsumersInv, TypeOK, ForwardTypeOK
  <2>3. CommandTypeOK'
    BY <1>0 DEF ConsumersInv, TypeOK, CommandTypeOK
  <2> QED BY <1>0, <2>1, <2>2, <2>3 DEF ConsumersInv, TypeOK
<1>5. SentInv'
  <2>1. Has("JobCreated") => Has("JobCreated")'
    BY <1>1 DEF Has
  <2>2. Has("Finalized")' => Has("Finalized") \/ e.kind = "Finalized"
    BY <1>1 DEF Has
  <2>3. (Has("Finalized") => Has("JobCreated"))'
    BY <2>1, <2>2 DEF ConsumersInv, SentInv, Sends
  <2>4. ASSUME NEW i \in DOMAIN sent', NEW k \in DOMAIN sent',
               sent'[i].kind = "Finalized", i < k
        PROVE  sent'[k].kind = "Other"
    <3>1. i \in 1..n /\ sent[i].kind = "Finalized" /\ Has("Finalized")
      BY <1>1, <2>4 DEF Has
    <3>2. CASE k = n + 1
      BY <1>1, <3>1, <3>2 DEF Sends
    <3>3. CASE k \in 1..n
      <4>1. sent[k].kind = "Other"
        BY <1>1, <2>4, <3>1, <3>3 DEF ConsumersInv, SentInv
      <4> QED BY <1>1, <3>3, <4>1
    <3> QED BY <1>1, <3>2, <3>3
  <2>5. \A i \in DOMAIN sent' : sent'[i].kind = "PhaseEntered" => sent'[i].arg \in Phases
    BY <1>1 DEF ConsumersInv, SentInv, Sends
  <2> QED BY <2>3, <2>4, <2>5 DEF SentInv
<1>6. ClientInv'
  BY <1>0 DEF ConsumersInv, ClientInv
<1>7. ForwardInv'
  <2>1. \A i \in DOMAIN got : Real(i) => Real(i)' /\ sent'[got[i].at] = sent[got[i].at]
    BY <1>0, <1>3 DEF ConsumersInv, ForwardInv, Real
  <2>2. \A i \in DOMAIN got : Real(i)' => Real(i)
    BY <1>0 DEF Real
  <2>3. \A i \in Own' : i < rx => i \in Own
    BY <1>1, <1>2 DEF Own
  <2>4. \A i \in DOMAIN got : Real(i) =>
          got[i].at \in 1..(rx - 1) /\ sent'[got[i].at].kind # "Other"
    BY <2>1 DEF ConsumersInv, ForwardInv
  <2>5. \A i, k \in DOMAIN got : Real(i) /\ Real(k) /\ i < k => got[i].at < got[k].at
    BY DEF ConsumersInv, ForwardInv
  <2>6. fpc # "none" => \A m \in Own' : m < rx /\ m > Len(sent') - Capacity
          => \E i \in DOMAIN got : Real(i) /\ got[i].at = m
    <3> SUFFICES ASSUME fpc # "none", NEW m \in Own', m < rx, m > Len(sent') - Capacity
                 PROVE  \E i \in DOMAIN got : Real(i) /\ got[i].at = m
      OBVIOUS
    <3>1. m \in Own /\ m > n - Capacity
      BY <1>1, <1>2, <2>3 DEF Own
    <3> QED BY <3>1 DEF ConsumersInv, ForwardInv, n
  <2>7. fpc = "finished" =>
          \E i \in DOMAIN got : Real(i) /\ sent'[got[i].at].kind = "Finalized"
    BY <2>1 DEF ConsumersInv, ForwardInv
  <2> QED BY <1>0, <2>4, <2>5, <2>6, <2>7 DEF ConsumersInv, ForwardInv, Real
<1>8. CommandInv'
  <2>1. \A i \in DOMAIN printed : (Event(i)' <=> Event(i)) /\ (Reports(i)' <=> Reports(i))
    <3>1. printed \in Seq([what : {"event", "outcome"}, at : Nat])
      BY DEF ConsumersInv, TypeOK, CommandTypeOK
    <3>2. \A i \in DOMAIN printed : printed[i].what = "outcome" \/ Event(i)
      <4> SUFFICES ASSUME NEW i \in DOMAIN printed
                   PROVE  printed[i].what = "outcome" \/ Event(i)
        OBVIOUS
      <4>1. DOMAIN printed = 1..Len(printed)
        BY <3>1, LenProperties
      <4>2. printed[i] \in [what : {"event", "outcome"}, at : Nat]
        BY <3>1, <4>1, ElementOfSeq
      <4> QED BY <4>2 DEF Event
    <3> QED BY <1>0, <1>3, <3>2 DEF ConsumersInv, CommandInv, Reports, Event
  <2>2. printed # <<>> => Len(printed) \in DOMAIN printed
    BY LenProperties, EmptySeq DEF ConsumersInv, TypeOK, CommandTypeOK
  <2>3. \A i \in DOMAIN printed : Event(i) =>
          printed[i].at \in 1..(rx - 1) /\ sent'[printed[i].at].kind # "Other"
    BY <1>3 DEF ConsumersInv, CommandInv
  <2>4. finalized_seen => \E m \in 1..(rx - 1) : sent'[m].kind = "Finalized"
    BY <1>3 DEF ConsumersInv, CommandInv
  <2>5. /\ cpc = "returned" => printed # <<>> /\ Reports(Len(printed))'
        /\ json /\ finalized_seen => printed # <<>> /\ Reports(Len(printed))'
    BY <1>0, <2>1, <2>2 DEF ConsumersInv, CommandInv
  <2> QED BY <1>0, <2>1, <2>3, <2>4, <2>5 DEF ConsumersInv, CommandInv
<1> QED BY <1>4, <1>5, <1>6, <1>7, <1>8 DEF ConsumersInv
-----------------------------------------------------------------------------
(* The receiver moves: past what is gone, or past another job's event.     *)

LEMMA Further ==
  ASSUME NEW a \in Nat, NEW b \in Nat, a < b
  PROVE  \A m \in 1..(a - 1) : m \in 1..(b - 1)
OBVIOUS

\* A receiver of the channel never goes back.
Skips ==
  /\ UNCHANGED <<sent, promised, forwardVars, commandVars, client>>
  /\ rx' \in 1..(Len(sent) + 1) /\ rx < rx'
  /\ \A m \in Own : rx <= m /\ m < rx' => m <= Len(sent) - Capacity

LEMMA SkipMoves ==
  ASSUME ConsumersInv, SkipLag \/ SkipOther,
         UNCHANGED <<forwardVars, commandVars, client>>
  PROVE  Skips
<1>1. /\ rx \in 1..(Len(sent) + 1) /\ Capacity \in Nat \ {0} /\ Len(sent) \in Nat
      /\ DOMAIN sent = 1..Len(sent)
  BY ChannelAssumption, LenProperties DEF ConsumersInv, TypeOK, ChannelTypeOK
<1>2. CASE SkipLag
  BY <1>1, <1>2 DEF SkipLag, Lagging, Skips, Own
<1>3. CASE SkipOther
  BY <1>1, <1>3 DEF SkipOther, Lagging, Skips, Own
<1> QED BY <1>2, <1>3

LEMMA SkipKeeps == ConsumersInv /\ Skips => ConsumersInv'
<1> SUFFICES ASSUME ConsumersInv, Skips PROVE ConsumersInv'
  OBVIOUS
<1>0. /\ UNCHANGED <<sent, promised, got, creep, fpc, apc>>
      /\ UNCHANGED <<json, printed, finalized_seen, cpc, client>>
  BY DEF Skips, forwardVars, commandVars
<1>1. /\ rx \in Nat /\ rx' \in Nat /\ rx' \in 1..(Len(sent) + 1) /\ rx < rx'
      /\ Own \subseteq Nat /\ Len(sent) \in Nat /\ Capacity \in Nat
      /\ \A m \in Own : rx <= m /\ m < rx' => m <= Len(sent) - Capacity
  <2>1. DOMAIN sent = 1..Len(sent) /\ Len(sent) \in Nat /\ rx \in 1..(Len(sent) + 1)
    BY LenProperties DEF ConsumersInv, TypeOK, ChannelTypeOK
  <2>2. Capacity \in Nat
    BY ChannelAssumption
  <2> QED BY <2>1, <2>2 DEF Skips, Own
<1>2. \A m \in 1..(rx - 1) : m \in 1..(rx' - 1)
  <2>1. rx \in Nat /\ rx' \in Nat /\ rx < rx'
    BY <1>1
  <2> QED BY <2>1, Further
<1>3. TypeOK'
  <2>1. ChannelTypeOK'
    BY <1>0, <1>1, Zenon DEF ConsumersInv, TypeOK, ChannelTypeOK
  <2>2. ForwardTypeOK'
    BY <1>0 DEF ConsumersInv, TypeOK, ForwardTypeOK
  <2>3. CommandTypeOK'
    BY <1>0 DEF ConsumersInv, TypeOK, CommandTypeOK
  <2> QED BY <1>0, <2>1, <2>2, <2>3 DEF ConsumersInv, TypeOK
<1>4. SentInv' /\ ClientInv'
  BY <1>0 DEF ConsumersInv, SentInv, ClientInv, Has
<1>5. ForwardInv'
  <2>1. \A i \in DOMAIN got : Real(i) =>
          got[i].at \in 1..(rx' - 1) /\ sent[got[i].at].kind # "Other"
    BY <1>2 DEF ConsumersInv, ForwardInv
  <2>2. fpc # "none" => \A m \in Own : m < rx' /\ m > Len(sent) - Capacity
          => \E i \in DOMAIN got : Real(i) /\ got[i].at = m
    <3>1. \A m \in Own : m < rx' /\ m > Len(sent) - Capacity => m < rx
      BY <1>1
    <3> QED BY <3>1 DEF ConsumersInv, ForwardInv
  <2> QED BY <1>0, <2>1, <2>2 DEF ConsumersInv, ForwardInv, Real, Own
<1>6. CommandInv'
  <2>1. \A i \in DOMAIN printed : Event(i) =>
          printed[i].at \in 1..(rx' - 1) /\ sent[printed[i].at].kind # "Other"
    BY <1>2 DEF ConsumersInv, CommandInv
  <2>2. finalized_seen => \E m \in 1..(rx' - 1) : sent[m].kind = "Finalized"
    BY <1>2 DEF ConsumersInv, CommandInv
  <2> QED BY <1>0, <2>1, <2>2 DEF ConsumersInv, CommandInv, Event, Reports
<1> QED BY <1>3, <1>4, <1>5, <1>6 DEF ConsumersInv
-----------------------------------------------------------------------------
(* A step of the task that owns the forwarder.                             *)

\* 2% of the way, rounded up, does not pass the end.
LEMMA StepStays ==
  ASSUME NEW a \in 0..200, NEW b \in 0..200, a < b,
         NEW step \in 1..((b - a + 49) \div 50)
  PROVE  a + step \in 0..200 /\ a + step <= b
<1> DEFINE d == b - a
<1>1. d \in 1..200
  OBVIOUS
<1>2. (d + 49) \div 50 <= d
  <2> HIDE DEF d
  <2> QED BY <1>1
<1>3. step \in Int /\ 1 <= step /\ step <= d
  <2>1. (d + 49) \div 50 \in Int
    BY <1>1
  <2> QED BY <1>1, <1>2, <2>1
<1> QED BY <1>3

\* A step that delivers at most a synthetic event and reads none.
LEMMA TickKeeps ==
  ASSUME ConsumersInv, Tick, UNCHANGED <<commandVars, client>>
  PROVE  ConsumersInv'
<1> DEFINE Item == [kind : {"real", "synthetic"}, at : Nat]
<1>0. /\ UNCHANGED <<sent, promised, rx, fpc, apc>> /\ fpc = "running"
      /\ UNCHANGED <<json, printed, finalized_seen, cpc, client>>
  BY DEF Tick, chanVars, commandVars
<1>1. /\ creep \in [armed : BOOLEAN, cur : 0..200, cap : 0..200]
      /\ got \in Seq(Item) /\ apc \in {"none", "handle", "forwarder", "returned"}
  BY DEF ConsumersInv, TypeOK, ForwardTypeOK
<1>2. /\ creep' \in [armed : BOOLEAN, cur : 0..200, cap : 0..200]
      /\ creep'.armed => creep'.cur <= creep'.cap
      /\ \/ got' = got
         \/ \E at \in Nat : got' = Append(got, [kind |-> "synthetic", at |-> at])
  <2>1. CASE creep.cur >= creep.cap
    <3>1. creep' = NoCreep /\ got' = got
      BY <2>1 DEF Tick
    <3> QED BY <3>1 DEF NoCreep
  <2>2. CASE ~(creep.cur >= creep.cap)
    <3>2. creep.cur \in 0..200 /\ creep.cap \in 0..200 /\ creep.armed \in BOOLEAN
      BY <1>1
    <3>0. creep.cur < creep.cap
      <4>1. creep.cur \in Int /\ creep.cap \in Int
        BY <3>2
      <4> QED BY <2>2, <4>1
    <3>1. PICK step \in 1..((creep.cap - creep.cur + 49) \div 50) :
            /\ creep' = [creep EXCEPT !.cur = creep.cur + step]
            /\ \/ got' = got
               \/ got' = Append(got, [kind |-> "synthetic", at |-> creep.cur + step])
      BY <2>2 DEF Tick, Deliver
    <3>3. creep.cur + step \in 0..200 /\ creep.cur + step <= creep.cap
      BY <3>0, <3>2, StepStays
    <3>4. /\ creep'.cur = creep.cur + step /\ creep'.cap = creep.cap
          /\ creep' \in [armed : BOOLEAN, cur : 0..200, cap : 0..200]
      BY <1>1, <3>1, <3>3
    <3>5. creep.cur + step \in Nat
      BY <3>3
    <3> QED BY <3>1, <3>3, <3>4, <3>5, Zenon
  <2> QED BY <2>1, <2>2
<1>3. /\ got' \in Seq(Item)
      /\ \A i \in DOMAIN got : i \in DOMAIN got' /\ got'[i] = got[i]
      /\ \A i \in DOMAIN got' : Real(i)' => i \in DOMAIN got /\ got'[i] = got[i]
  <2>1. CASE got' = got
    BY <1>1, <2>1
  <2>2. ASSUME NEW at \in Nat, got' = Append(got, [kind |-> "synthetic", at |-> at])
        PROVE  <1>3!:
    <3>1. [kind |-> "synthetic", at |-> at] \in Item
      OBVIOUS
    <3> HIDE DEF Item
    <3> QED BY <1>1, <2>2, <3>1, Grows DEF Real
  <2> QED BY <1>2, <2>1, <2>2
<1>4. TypeOK'
  <2>1. ChannelTypeOK'
    BY <1>0, Zenon DEF ConsumersInv, TypeOK, ChannelTypeOK
  <2>2. ForwardTypeOK'
    BY <1>0, <1>1, <1>2, <1>3 DEF ForwardTypeOK
  <2>3. CommandTypeOK'
    BY <1>0 DEF ConsumersInv, TypeOK, CommandTypeOK
  <2> QED BY <1>0, <2>1, <2>2, <2>3 DEF ConsumersInv, TypeOK
<1>5. SentInv' /\ ClientInv'
  BY <1>0 DEF ConsumersInv, SentInv, ClientInv, Has
<1>6. ForwardInv'
  BY <1>0, <1>3 DEF ConsumersInv, ForwardInv, Real, Own
<1>7. CommandInv'
  BY <1>0 DEF ConsumersInv, CommandInv, Event, Reports
<1> QED BY <1>4, <1>5, <1>6, <1>7 DEF ConsumersInv
\* The event the receiver returns: the next one, and of this job.
LEMMA ReceiveMoves ==
  ASSUME ConsumersInv, Receive
  PROVE  /\ UNCHANGED <<sent, promised>> /\ rx' = rx + 1 /\ rx \in Own
         /\ rx \in Nat /\ rx' \in 1..(Len(sent) + 1)
         /\ sent[rx] \in Events /\ sent[rx].kind # "Other"
         /\ \A m \in 1..(rx - 1) : m \in 1..(rx' - 1)
<1>1. /\ DOMAIN sent = 1..Len(sent) /\ Len(sent) \in Nat /\ rx \in 1..(Len(sent) + 1)
      /\ sent \in Seq(Events)
  BY LenProperties DEF ConsumersInv, TypeOK, ChannelTypeOK, Events
<1>2. /\ rx <= Len(sent) /\ sent[rx].kind # "Other" /\ rx' = rx + 1
      /\ UNCHANGED <<sent, promised>>
  BY DEF Receive, Ready
<1>3. rx \in 1..Len(sent) /\ rx' \in 1..(Len(sent) + 1)
  BY <1>1, <1>2
<1>4. sent[rx] \in Events
  BY <1>1, <1>3, ElementOfSeq
<1> QED BY <1>1, <1>2, <1>3, <1>4, Further DEF Own

LEMMA ForwardKeeps ==
  ASSUME ConsumersInv, Forward, UNCHANGED <<commandVars, client>>
  PROVE  ConsumersInv'
<1> DEFINE Item == [kind : {"real", "synthetic"}, at : Nat]
           x == [kind |-> "real", at |-> rx]
<1>0. /\ UNCHANGED <<sent, promised, apc, json, printed, finalized_seen, cpc, client>>
      /\ fpc = "running" /\ rx' = rx + 1 /\ rx \in Own /\ rx \in Nat
      /\ rx' \in 1..(Len(sent) + 1) /\ sent[rx] \in Events
      /\ \A m \in 1..(rx - 1) : m \in 1..(rx' - 1)
      /\ got' = Append(got, x) /\ creep' = Rearm(sent[rx])
      /\ fpc' = IF sent[rx].kind = "Finalized" THEN "finished" ELSE "running"
  BY ReceiveMoves DEF Forward, Deliver, commandVars
<1>1. got \in Seq(Item) /\ x \in Item
  BY <1>0 DEF ConsumersInv, TypeOK, ForwardTypeOK
<1> PICK n \in Nat : n = Len(got)
  BY <1>1, LenProperties
<1>2. /\ got' \in Seq(Item) /\ n \in Nat /\ DOMAIN got = 1..n /\ DOMAIN got' = 1..(n + 1)
      /\ \A i \in 1..n : got'[i] = got[i]
      /\ got'[n + 1] = x
  <2> HIDE DEF Item, x
  <2> QED BY <1>0, <1>1, Grows
<1>3. /\ creep' \in [armed : BOOLEAN, cur : 0..200, cap : 0..200]
      /\ creep'.armed => creep'.cur <= creep'.cap
  <2>1. creep \in [armed : BOOLEAN, cur : 0..200, cap : 0..200]
        /\ (creep.armed => creep.cur <= creep.cap)
    BY DEF ConsumersInv, TypeOK, ForwardTypeOK
  <2>2. CASE sent[rx].kind = "PhaseEntered"
    <3>1. creep' = CreepFor(sent[rx].arg)
      BY <1>0, <2>2 DEF Rearm
    <3>2. sent[rx].arg \in Phases
      BY <1>0, <2>2 DEF ConsumersInv, SentInv, Own
    <3> QED BY <3>1, <3>2, CreepTyped
  <2>3. CASE sent[rx].kind \in {"PhaseExited", "Cancelled", "Finalized"}
    <3>1. creep' = NoCreep
      BY <1>0, <2>3 DEF Rearm
    <3> QED BY <3>1 DEF NoCreep
  <2>4. CASE sent[rx].kind \notin {"PhaseEntered", "PhaseExited", "Cancelled", "Finalized"}
    <3>1. creep' = creep
      BY <1>0, <2>4 DEF Rearm
    <3> QED BY <2>1, <3>1
  <2> QED BY <2>2, <2>3, <2>4
<1>4. TypeOK'
  <2>1. ChannelTypeOK'
    BY <1>0, Zenon DEF ConsumersInv, TypeOK, ChannelTypeOK
  <2>2. ForwardTypeOK'
    BY <1>0, <1>2, <1>3 DEF ConsumersInv, TypeOK, ForwardTypeOK
  <2>3. CommandTypeOK'
    BY <1>0 DEF ConsumersInv, TypeOK, CommandTypeOK
  <2> QED BY <1>0, <2>1, <2>2, <2>3 DEF ConsumersInv, TypeOK
<1>5. SentInv' /\ ClientInv'
  BY <1>0 DEF ConsumersInv, SentInv, ClientInv, Has
<1>6. ForwardInv'
  <2>1. \A i \in 1..n : Real(i)' <=> Real(i)
    BY <1>2 DEF Real
  <2>2. Real(n + 1)' /\ got'[n + 1].at = rx
    <3>1. got'[n + 1].kind = "real" /\ got'[n + 1].at = rx
      BY <1>2
    <3> QED BY <3>1 DEF Real
  <2>3. \A i \in DOMAIN got' : Real(i)' =>
          got'[i].at \in 1..(rx' - 1) /\ sent[got'[i].at].kind # "Other"
    <3>1. rx \in 1..(rx' - 1) /\ sent[rx].kind # "Other"
      BY <1>0 DEF Own
    <3>2. \A i \in 1..n : Real(i)' =>
            got[i].at \in 1..(rx - 1) /\ sent[got[i].at].kind # "Other"
      BY <1>2, <2>1 DEF ConsumersInv, ForwardInv
    <3>3. \A i \in 1..n : Real(i)' =>
            got'[i].at \in 1..(rx' - 1) /\ sent[got'[i].at].kind # "Other"
      BY <1>0, <1>2, <3>2
    <3> QED BY <1>2, <2>2, <3>1, <3>3
  <2>4. \A i, k \in DOMAIN got' :
          Real(i)' /\ Real(k)' /\ i < k => got'[i].at < got'[k].at
    <3>1. \A i \in 1..n : Real(i) => got[i].at < rx
      <4>1. \A i \in 1..n : Real(i) => got[i].at \in 1..(rx - 1)
        BY <1>2 DEF ConsumersInv, ForwardInv
      <4> QED BY <1>0, <4>1
    <3> SUFFICES ASSUME NEW i \in 1..(n + 1), NEW k \in 1..(n + 1),
                        Real(i)', Real(k)', i < k
                 PROVE  got'[i].at < got'[k].at
      BY <1>2
    <3>2. i \in 1..n /\ Real(i)
      BY <1>2, <2>1
    <3>3. CASE k = n + 1
      BY <1>2, <2>2, <3>1, <3>2, <3>3
    <3>4. CASE k \in 1..n
      BY <1>2, <2>1, <3>2, <3>4 DEF ConsumersInv, ForwardInv
    <3> QED BY <1>2, <3>3, <3>4
  <2>5. \A m \in Own : m < rx' /\ m > Len(sent) - Capacity
          => \E i \in DOMAIN got' : Real(i)' /\ got'[i].at = m
    <3> SUFFICES ASSUME NEW m \in Own, m < rx', m > Len(sent) - Capacity
                 PROVE  \E i \in DOMAIN got' : Real(i)' /\ got'[i].at = m
      OBVIOUS
    <3>1. m \in Nat
      <4>1. DOMAIN sent = 1..Len(sent)
        BY LenProperties DEF ConsumersInv, TypeOK, ChannelTypeOK
      <4> QED BY <4>1 DEF Own
    <3>2. CASE m = rx
      <4>1. n + 1 \in DOMAIN got'
        BY <1>2
      <4> QED BY <2>2, <3>2, <4>1
    <3>3. CASE m < rx
      BY <1>0, <1>2, <2>1, <3>3 DEF ConsumersInv, ForwardInv
    <3> QED BY <1>0, <3>1, <3>2, <3>3
  <2>6. fpc' = "finished" =>
          \E i \in DOMAIN got' : Real(i)' /\ sent[got'[i].at].kind = "Finalized"
    <3>1. n + 1 \in DOMAIN got'
      BY <1>2
    <3> QED BY <1>0, <2>2, <3>1
  <2>7. apc' # "returned"
    BY <1>0 DEF ConsumersInv, ForwardInv
  <2> QED BY <1>0, <2>3, <2>4, <2>5, <2>6, <2>7 DEF ForwardInv, Own, Real
<1>7. CommandInv'
  <2>1. cpc = "none" /\ finalized_seen' = finalized_seen
    BY <1>0 DEF ConsumersInv, ClientInv
  <2>2. \A i \in DOMAIN printed : Event(i) =>
          printed[i].at \in 1..(rx' - 1) /\ sent[printed[i].at].kind # "Other"
    BY <1>0 DEF ConsumersInv, CommandInv
  <2>3. finalized_seen => \E m \in 1..(rx' - 1) : sent[m].kind = "Finalized"
    BY <1>0 DEF ConsumersInv, CommandInv
  <2> QED BY <1>0, <2>2, <2>3 DEF ConsumersInv, CommandInv, Event, Reports
<1> QED BY <1>4, <1>5, <1>6, <1>7 DEF ConsumersInv
\* The forwarder's panic and the steps of the caller deliver nothing.
LEMMA CallerKeeps ==
  ASSUME ConsumersInv, ObserverPanics \/ Caller, UNCHANGED <<commandVars, client>>
  PROVE  ConsumersInv'
<1>0. /\ UNCHANGED <<sent, promised, rx, got>>
      /\ UNCHANGED <<json, printed, finalized_seen, cpc, client>>
  BY DEF ObserverPanics, Caller, HandleReady, ForwarderJoined, chanVars, commandVars
<1>1. \/ /\ fpc = "running" /\ fpc' = "panicked" /\ creep' = NoCreep /\ apc' = apc
      \/ /\ fpc' = fpc /\ creep' = creep /\ apc # "none"
         /\ \/ apc' = "forwarder"
            \/ apc' = "returned" /\ fpc # "running"
  BY DEF ObserverPanics, Caller, HandleReady, ForwarderJoined
<1>2. TypeOK'
  <2>1. ChannelTypeOK'
    BY <1>0, Zenon DEF ConsumersInv, TypeOK, ChannelTypeOK
  <2>2. ForwardTypeOK'
    <3>1. NoCreep \in [armed : BOOLEAN, cur : 0..200, cap : 0..200] /\ ~NoCreep.armed
      BY DEF NoCreep
    <3> QED BY <1>0, <1>1, <3>1 DEF ConsumersInv, TypeOK, ForwardTypeOK
  <2>3. CommandTypeOK'
    BY <1>0 DEF ConsumersInv, TypeOK, CommandTypeOK
  <2> QED BY <1>0, <2>1, <2>2, <2>3 DEF ConsumersInv, TypeOK
<1>3. SentInv' /\ ClientInv'
  BY <1>0, <1>1 DEF ConsumersInv, SentInv, ClientInv, Has
<1>4. ForwardInv'
  BY <1>0, <1>1 DEF ConsumersInv, ForwardInv, Real, Own
<1>5. CommandInv'
  BY <1>0 DEF ConsumersInv, CommandInv, Event, Reports
<1> QED BY <1>2, <1>3, <1>4, <1>5 DEF ConsumersInv

-----------------------------------------------------------------------------
(* A step of `execra run`.                                                 *)

LEMMA PrintEventKeeps ==
  ASSUME ConsumersInv, PrintEvent, UNCHANGED <<forwardVars, client>>
  PROVE  ConsumersInv'
<1> DEFINE Item == [what : {"event", "outcome"}, at : Nat]
           x == [what |-> "event", at |-> rx]
<1>0. /\ UNCHANGED <<sent, promised, json, cpc, client>> /\ UNCHANGED <<got, creep, fpc, apc>>
      /\ cpc = "running" /\ rx' = rx + 1 /\ rx \in Own /\ rx \in Nat
      /\ rx' \in 1..(Len(sent) + 1)
      /\ \A m \in 1..(rx - 1) : m \in 1..(rx' - 1)
      /\ printed' = IF json \/ sent[rx].kind = "Output" THEN Append(printed, x) ELSE printed
      /\ finalized_seen' = (finalized_seen \/ sent[rx].kind = "Finalized")
  BY ReceiveMoves DEF PrintEvent, forwardVars
<1>1. /\ printed \in Seq(Item) /\ x \in Item
      /\ rx \in 1..(rx' - 1) /\ sent[rx].kind # "Other" /\ rx \in DOMAIN sent
  BY <1>0 DEF ConsumersInv, TypeOK, CommandTypeOK, Own
<1> PICK n \in Nat : n = Len(printed)
  BY <1>1, LenProperties
<1> DEFINE prints == json \/ sent[rx].kind = "Output"
<1>2. /\ n = Len(printed) /\ DOMAIN printed = 1..n /\ printed' \in Seq(Item)
      /\ prints => /\ Len(printed') = n + 1 /\ DOMAIN printed' = 1..(n + 1)
                   /\ \A i \in 1..n : printed'[i] = printed[i]
                   /\ printed'[n + 1] = x
      /\ ~prints => printed' = printed
  <2>1. /\ n = Len(printed) /\ DOMAIN printed = 1..n
    BY <1>1, LenProperties
  <2>2. /\ Append(printed, x) \in Seq(Item) /\ Len(Append(printed, x)) = n + 1
        /\ DOMAIN Append(printed, x) = 1..(n + 1)
        /\ \A i \in 1..n : Append(printed, x)[i] = printed[i]
        /\ Append(printed, x)[n + 1] = x
    <3> HIDE DEF Item, x
    <3> QED BY <1>1, <2>1, Grows
  <2> QED BY <1>0, <1>1, <2>1, <2>2, Zenon
<1>3. TypeOK'
  <2>1. ChannelTypeOK'
    BY <1>0, Zenon DEF ConsumersInv, TypeOK, ChannelTypeOK
  <2>2. ForwardTypeOK'
    BY <1>0 DEF ConsumersInv, TypeOK, ForwardTypeOK
  <2>3. json' \in BOOLEAN /\ finalized_seen' \in BOOLEAN
    BY <1>0, Zenon DEF ConsumersInv, TypeOK, CommandTypeOK
  <2>4. CommandTypeOK'
    BY <1>0, <1>2, <2>3, Zenon DEF ConsumersInv, TypeOK, CommandTypeOK
  <2> QED BY <1>0, <2>1, <2>2, <2>4 DEF ConsumersInv, TypeOK
<1>4. SentInv' /\ ClientInv'
  BY <1>0 DEF ConsumersInv, SentInv, ClientInv, Has
<1>5. ForwardInv'
  <2>1. fpc = "none"
    BY <1>0 DEF ConsumersInv, ClientInv
  <2>2. \A i \in DOMAIN got : Real(i) =>
          got[i].at \in 1..(rx' - 1) /\ sent[got[i].at].kind # "Other"
    BY <1>0 DEF ConsumersInv, ForwardInv
  <2> QED BY <1>0, <2>1, <2>2 DEF ConsumersInv, ForwardInv, Real
<1>6. \A i \in 1..n : (Event(i)' <=> Event(i)) /\ (Reports(i)' <=> Reports(i))
                      /\ printed'[i] = printed[i] /\ i \in DOMAIN printed'
  <2>1. \A i \in 1..n : printed'[i] = printed[i] /\ i \in DOMAIN printed'
    BY <1>2
  <2> QED BY <1>0, <2>1 DEF Event, Reports
<1>7. prints => /\ Event(n + 1)' /\ printed'[n + 1].at = rx
                /\ Reports(n + 1)' <=> sent[rx].kind = "Finalized"
  <2>1. prints => printed'[n + 1].what = "event" /\ printed'[n + 1].at = rx
    BY <1>2
  <2> QED BY <1>0, <2>1 DEF Event, Reports
<1>8. \A i \in DOMAIN printed' : i \in 1..n \/ (prints /\ i = n + 1)
  BY <1>2
\* Finalized, once read, is the last event the receiver returns.
<1>9. ~finalized_seen
  <2> SUFFICES ASSUME finalized_seen PROVE FALSE
    OBVIOUS
  <2>1. PICK m \in 1..(rx - 1) : sent[m].kind = "Finalized"
    BY DEF ConsumersInv, CommandInv
  <2>2. m \in DOMAIN sent /\ m < rx
    <3>1. DOMAIN sent = 1..Len(sent) /\ rx \in 1..(Len(sent) + 1)
      BY LenProperties DEF ConsumersInv, TypeOK, ChannelTypeOK
    <3> QED BY <3>1
  <2> QED BY <1>1, <2>1, <2>2 DEF ConsumersInv, SentInv
<1>10. CommandInv'
  <2>1. \A i \in 1..n : ~Reports(i)
    BY <1>0, <1>2, <1>9 DEF ConsumersInv, CommandInv
  <2>2. finalized_seen' <=> sent[rx].kind = "Finalized"
    BY <1>0, <1>9
  <2>3. \A i \in DOMAIN printed' : Event(i)' =>
          printed'[i].at \in 1..(rx' - 1) /\ sent[printed'[i].at].kind # "Other"
    <3>1. \A i \in 1..n : Event(i) =>
            printed[i].at \in 1..(rx' - 1) /\ sent[printed[i].at].kind # "Other"
      BY <1>0, <1>2 DEF ConsumersInv, CommandInv
    <3> QED BY <1>1, <1>6, <1>7, <1>8, <3>1
  <2>4. \A i, k \in DOMAIN printed' :
          Event(i)' /\ Event(k)' /\ i < k => printed'[i].at < printed'[k].at
    <3>1. \A i \in 1..n : Event(i) => printed[i].at < rx
      <4>1. \A i \in 1..n : Event(i) => printed[i].at \in 1..(rx - 1)
        BY <1>2 DEF ConsumersInv, CommandInv
      <4> QED BY <1>0, <4>1
    <3> SUFFICES ASSUME NEW i \in DOMAIN printed', NEW k \in DOMAIN printed',
                        Event(i)', Event(k)', i < k
                 PROVE  printed'[i].at < printed'[k].at
      OBVIOUS
    <3>2. i \in 1..n
      BY <1>8
    <3>3. CASE k \in 1..n
      BY <1>2, <1>6, <3>2, <3>3 DEF ConsumersInv, CommandInv
    <3>4. CASE prints /\ k = n + 1
      BY <1>6, <1>7, <3>1, <3>2, <3>4
    <3> QED BY <1>8, <3>3, <3>4
  <2>5. \A i \in DOMAIN printed' : Reports(i)' =>
          sent[rx].kind = "Finalized" /\ prints /\ i = n + 1
    BY <1>6, <1>7, <1>8, <2>1
  <2>6. \A i \in DOMAIN printed' : Reports(i)' => i = Len(printed')
    BY <1>2, <2>5
  <2>7. ~json \/ ~finalized_seen' => \A i \in DOMAIN printed' : ~Reports(i)'
    BY <2>2, <2>5
  <2>8. json /\ finalized_seen' => printed' # <<>> /\ Reports(Len(printed))'
    <3> SUFFICES ASSUME json, finalized_seen'
                 PROVE  printed' # <<>> /\ Reports(Len(printed))'
      OBVIOUS
    <3>1. Len(printed') = n + 1 /\ printed'[n + 1].at = rx /\ sent[rx].kind = "Finalized"
      BY <1>2, <1>7, <2>2
    <3>2. printed' # <<>>
      BY <3>1, EmptySeq
    <3>3. sent'[printed'[Len(printed')].at].kind = "Finalized"
      BY <1>0, <3>1
    <3> QED BY <3>2, <3>3 DEF Reports
  <2>9. finalized_seen' => \E m \in 1..(rx' - 1) : sent[m].kind = "Finalized"
    BY <1>1, <2>2
  <2>10. cpc' = "running" /\ json' = json /\ sent' = sent
    BY <1>0
  <2> HIDE DEF prints, x, Item
  <2> QED BY <2>3, <2>4, <2>6, <2>7, <2>8, <2>9, <2>10 DEF CommandInv, Event
<1> QED BY <1>3, <1>4, <1>5, <1>10 DEF ConsumersInv

LEMMA PrintOutcomeKeeps ==
  ASSUME ConsumersInv, PrintOutcome, UNCHANGED <<forwardVars, client>>
  PROVE  ConsumersInv'
<1> DEFINE Item == [what : {"event", "outcome"}, at : Nat]
           x == [what |-> "outcome", at |-> 0]
<1>0. /\ UNCHANGED <<sent, promised, rx, json, finalized_seen, client>>
      /\ UNCHANGED <<got, creep, fpc, apc>> /\ cpc = "running" /\ cpc' = "returned"
      /\ printed' = IF json /\ finalized_seen THEN printed ELSE Append(printed, x)
  BY DEF PrintOutcome, forwardVars, chanVars
<1>1. printed \in Seq(Item) /\ x \in Item
  BY DEF ConsumersInv, TypeOK, CommandTypeOK
<1> PICK n \in Nat : n = Len(printed)
  BY <1>1, LenProperties
<1>2. /\ n = Len(printed) /\ DOMAIN printed = 1..n
      /\ Append(printed, x) \in Seq(Item) /\ Len(Append(printed, x)) = n + 1
      /\ DOMAIN Append(printed, x) = 1..(n + 1)
      /\ \A i \in 1..n : Append(printed, x)[i] = printed[i]
      /\ Append(printed, x)[n + 1] = x
  <2>1. n = Len(printed) /\ DOMAIN printed = 1..n
    BY <1>1, LenProperties
  <2> HIDE DEF Item, x
  <2> QED BY <1>1, <2>1, Grows
<1>3. TypeOK'
  <2>1. ChannelTypeOK'
    BY <1>0, Zenon DEF ConsumersInv, TypeOK, ChannelTypeOK
  <2>2. ForwardTypeOK'
    BY <1>0 DEF ConsumersInv, TypeOK, ForwardTypeOK
  <2>3. json' \in BOOLEAN /\ finalized_seen' \in BOOLEAN
    BY <1>0, Zenon DEF ConsumersInv, TypeOK, CommandTypeOK
  <2>4. printed' \in Seq(Item)
    BY <1>0, <1>1, <1>2, Zenon
  <2>5. CommandTypeOK'
    BY <1>0, <2>3, <2>4, Zenon DEF CommandTypeOK
  <2> QED BY <1>0, <2>1, <2>2, <2>5 DEF ConsumersInv, TypeOK
<1>4. SentInv' /\ ClientInv'
  BY <1>0 DEF ConsumersInv, SentInv, ClientInv, Has
<1>5. ForwardInv'
  BY <1>0 DEF ConsumersInv, ForwardInv, Real, Own
<1>6. CommandInv'
  <2>1. CASE json /\ finalized_seen
    <3>1. printed' = printed /\ printed # <<>> /\ Reports(Len(printed))
      BY <1>0, <2>1 DEF ConsumersInv, CommandInv
    <3> QED BY <1>0, <3>1 DEF ConsumersInv, CommandInv, Event, Reports
  <2>2. CASE ~(json /\ finalized_seen)
    <3>1. printed' = Append(printed, x)
      BY <1>0, <2>2
    <3>2. /\ Len(printed') = n + 1 /\ DOMAIN printed' = 1..(n + 1)
          /\ printed'[n + 1].what = "outcome"
          /\ \A i \in 1..n : printed'[i] = printed[i]
      BY <1>2, <3>1
    <3>3. \A i \in 1..n : (Event(i)' <=> Event(i)) /\ (Reports(i)' <=> Reports(i))
      BY <1>0, <3>2 DEF Event, Reports
    <3>4. ~Event(n + 1)' /\ Reports(n + 1)'
      BY <3>2 DEF Event, Reports
    <3>5. \A i \in 1..n : ~Reports(i)
      BY <1>0, <1>2, <2>2 DEF ConsumersInv, CommandInv
    <3>6. \A i \in DOMAIN printed' : i \in 1..n \/ i = n + 1
      BY <3>2
    <3>7. printed' # <<>> /\ Reports(Len(printed))'
      <4>1. printed' # <<>>
        BY <3>2, EmptySeq
      <4>2. printed'[Len(printed')].what = "outcome"
        BY <3>2
      <4> QED BY <4>1, <4>2 DEF Reports
    <3>8. \A i \in DOMAIN printed' : Event(i)' =>
            printed'[i].at \in 1..(rx - 1) /\ sent[printed'[i].at].kind # "Other"
      BY <1>2, <3>2, <3>3, <3>4, <3>6 DEF ConsumersInv, CommandInv
    <3>9. \A i, k \in DOMAIN printed' :
            Event(i)' /\ Event(k)' /\ i < k => printed'[i].at < printed'[k].at
      BY <1>2, <3>2, <3>3, <3>4, <3>6 DEF ConsumersInv, CommandInv
    <3>10. \A i \in DOMAIN printed' : Reports(i)' => i = Len(printed')
      BY <3>2, <3>3, <3>5, <3>6
    <3>11. finalized_seen' => \E m \in 1..(rx - 1) : sent[m].kind = "Finalized"
      BY <1>0 DEF ConsumersInv, CommandInv
    <3> HIDE DEF x, Item
    <3> QED BY <1>0, <3>7, <3>8, <3>9, <3>10, <3>11 DEF CommandInv, Event
  <2> QED BY <2>1, <2>2
<1> QED BY <1>3, <1>4, <1>5, <1>6 DEF ConsumersInv

-----------------------------------------------------------------------------
LEMMA PromiseKeeps ==
  ASSUME ConsumersInv, Promise, UNCHANGED <<forwardVars, commandVars, client>>
  PROVE  ConsumersInv'
<1>0. /\ UNCHANGED <<sent, rx, client>> /\ promised' = TRUE
      /\ UNCHANGED <<got, creep, fpc, apc>> /\ UNCHANGED <<json, printed, finalized_seen, cpc>>
  BY DEF Promise, forwardVars, commandVars
<1>1. TypeOK'
  <2>1. ChannelTypeOK'
    BY <1>0, Zenon DEF ConsumersInv, TypeOK, ChannelTypeOK
  <2> QED BY <1>0, <2>1 DEF ConsumersInv, TypeOK, ForwardTypeOK, CommandTypeOK
<1>2. SentInv' /\ ClientInv'
  BY <1>0 DEF ConsumersInv, SentInv, ClientInv, Has
<1>3. ForwardInv'
  BY <1>0 DEF ConsumersInv, ForwardInv, Real, Own
<1>4. CommandInv'
  BY <1>0 DEF ConsumersInv, CommandInv, Event, Reports
<1> QED BY <1>1, <1>2, <1>3, <1>4 DEF ConsumersInv

LEMMA StutterKeeps == ConsumersInv /\ UNCHANGED vars => ConsumersInv'
<1> SUFFICES ASSUME ConsumersInv, UNCHANGED vars PROVE ConsumersInv'
  OBVIOUS
<1>0. /\ UNCHANGED <<sent, promised, rx, client>> /\ UNCHANGED <<got, creep, fpc, apc>>
      /\ UNCHANGED <<json, printed, finalized_seen, cpc>>
  BY DEF vars, chanVars, forwardVars, commandVars
<1>1. TypeOK'
  <2>1. ChannelTypeOK'
    BY <1>0, Zenon DEF ConsumersInv, TypeOK, ChannelTypeOK
  <2>2. ForwardTypeOK'
    BY <1>0 DEF ConsumersInv, TypeOK, ForwardTypeOK
  <2>3. CommandTypeOK'
    BY <1>0 DEF ConsumersInv, TypeOK, CommandTypeOK
  <2> QED BY <1>0, <2>1, <2>2, <2>3 DEF ConsumersInv, TypeOK
<1>2. SentInv' /\ ClientInv'
  BY <1>0 DEF ConsumersInv, SentInv, ClientInv, Has
<1>3. ForwardInv'
  BY <1>0 DEF ConsumersInv, ForwardInv, Real, Own
<1>4. CommandInv'
  BY <1>0 DEF ConsumersInv, CommandInv, Event, Reports
<1> QED BY <1>1, <1>2, <1>3, <1>4 DEF ConsumersInv

LEMMA StepKeeps == ConsumersInv /\ [Next]_vars => ConsumersInv'
<1> SUFFICES ASSUME ConsumersInv, [Next]_vars PROVE ConsumersInv'
  OBVIOUS
<1>1. CASE Job
  <2>1. CASE Senders
    <3>1. PICK e : Sends(e)
      BY <2>1, SenderSends
    <3> QED BY <1>1, <3>1, SendKeeps DEF Job
  <2>2. CASE Promise
    BY <1>1, <2>2, PromiseKeeps DEF Job
  <2> QED BY <1>1, <2>1, <2>2 DEF Job
<1>2. CASE Task
  <2>1. UNCHANGED <<commandVars, client>>
    BY <1>2 DEF Task
  <2>2. CASE ForwarderSkips
    BY <2>1, <2>2, SkipMoves, SkipKeeps DEF ForwarderSkips
  <2>3. CASE Forward
    BY <2>1, <2>3, ForwardKeeps
  <2>4. CASE Tick
    BY <2>1, <2>4, TickKeeps
  <2>5. CASE ObserverPanics \/ Caller
    BY <2>1, <2>5, CallerKeeps
  <2> QED BY <1>2, <2>2, <2>3, <2>4, <2>5 DEF Task, Forwarder, ForwarderReads
<1>3. CASE Run
  <2>1. UNCHANGED <<forwardVars, client>>
    BY <1>3 DEF Run
  <2>2. CASE CommandSkips
    BY <2>1, <2>2, SkipMoves, SkipKeeps DEF CommandSkips
  <2>3. CASE PrintEvent
    BY <2>1, <2>3, PrintEventKeeps
  <2>4. CASE PrintOutcome
    BY <2>1, <2>4, PrintOutcomeKeeps
  <2> QED BY <1>3, <2>2, <2>3, <2>4 DEF Run, Command
<1>4. CASE UNCHANGED vars
  BY <1>4, StutterKeeps
<1> QED BY <1>1, <1>2, <1>3, <1>4 DEF Next

\* What every reachable state satisfies.
THEOREM ConsumersSafe == Spec => []ConsumersInv
BY InitHolds, StepKeeps, PTL DEF Spec

\* Every variable of the consumers keeps its type.
THEOREM TypeCorrect == Spec => []TypeOK
<1>1. ConsumersInv => TypeOK
  BY DEF ConsumersInv
<1> QED BY <1>1, ConsumersSafe, PTL

\* Observers get the job's events in order, each once, and miss one only when
\* the channel has overwritten it (tauri.rs, forward_events; stream.rs, next).
THEOREM ForwardsOrdered == Spec => []ForwardsInOrder
<1>1. ConsumersInv => ForwardsInOrder
  <2> SUFFICES ASSUME ConsumersInv PROVE ForwardsInOrder
    OBVIOUS
  <2>1. /\ DOMAIN sent = 1..Len(sent) /\ Len(sent) \in Nat /\ rx \in 1..(Len(sent) + 1)
        /\ Capacity \in Nat
    BY ChannelAssumption, LenProperties DEF ConsumersInv, TypeOK, ChannelTypeOK
  <2>2. Delivered \subseteq Own
    BY <2>1 DEF Delivered, Own, ConsumersInv, ForwardInv, Real
  <2>3. \A i, k \in DOMAIN got :
          got[i].kind = "real" /\ got[k].kind = "real" /\ i < k => got[i].at < got[k].at
    BY DEF ConsumersInv, ForwardInv, Real
  <2>4. ASSUME fpc # "none", NEW m \in Own \ Delivered
        PROVE  m >= rx \/ m <= Len(sent) - Capacity
    <3>1. m \in 1..Len(sent)
      BY <2>1 DEF Own
    <3>2. ~\E i \in DOMAIN got : Real(i) /\ got[i].at = m
      BY DEF Delivered, Real
    <3>3. ~(m < rx /\ m > Len(sent) - Capacity)
      BY <2>4, <3>2 DEF ConsumersInv, ForwardInv
    <3> QED BY <2>1, <3>1, <3>3
  <2> QED BY <2>2, <2>3, <2>4 DEF ForwardsInOrder
<1> QED BY <1>1, ConsumersSafe, PTL

\* An awaited task returns only after its observers have seen Finalized, or
\* one of them has panicked (tauri.rs, TaskBuilder::into_future).
THEOREM FinalizedFirst == Spec => []FinalizedBeforeReturn
<1>1. ConsumersInv => FinalizedBeforeReturn
  <2> SUFFICES ASSUME ConsumersInv, apc = "returned", fpc # "panicked"
               PROVE  \E n \in Delivered : sent[n].kind = "Finalized"
    BY DEF FinalizedBeforeReturn
  <2>1. fpc = "finished"
    BY DEF ConsumersInv, TypeOK, ForwardTypeOK, ClientInv, ForwardInv
  <2>2. PICK i \in DOMAIN got : Real(i) /\ sent[got[i].at].kind = "Finalized"
    BY <2>1 DEF ConsumersInv, ForwardInv
  <2> QED BY <2>2 DEF Delivered, Real
<1> QED BY <1>1, ConsumersSafe, PTL

\* `execra run` prints its job's events in order and tells the outcome exactly
\* once, last (execra-cli, main.rs, run_command).
THEOREM OutcomeOnce == Spec => []OutcomeToldOnce
<1>1. ConsumersInv => OutcomeToldOnce
  <2> SUFFICES ASSUME ConsumersInv PROVE OutcomeToldOnce
    OBVIOUS
  <2>1. DOMAIN sent = 1..Len(sent) /\ rx \in 1..(Len(sent) + 1)
    BY LenProperties DEF ConsumersInv, TypeOK, ChannelTypeOK
  <2>2. \A i \in DOMAIN printed : printed[i].what = "event" => printed[i].at \in Own
    BY <2>1 DEF Own, ConsumersInv, CommandInv, Event
  <2> QED BY <2>2 DEF OutcomeToldOnce, ConsumersInv, CommandInv, Event
<1> QED BY <1>1, ConsumersSafe, PTL

-----------------------------------------------------------------------------
(* Synthetic progress stays within its phase, for any slices.  While the   *)
(* ticker is armed, the last event delivered that moves it entered a       *)
(* phase, the value ticks between the start of its slice and a cap short   *)
(* of the end, and it never falls behind what was delivered since.         *)

Source(k) == sent[got[k].at]

\* A value at which the slice of phase e.arg has begun and not ended.
Spans(e, from, to) ==
  /\ Slice[e.arg] # NoSlice
  /\ Slice[e.arg][1] <= from /\ to < Slice[e.arg][2]

\* What was delivered of synthetic progress after position k is below v.
Above(k, n, v) == \A m \in (k + 1)..n : ~Real(m) => got[m].at < v

\* The synthetic event at i is where it belongs.
Inside(i) == \E k \in Nat :
  /\ Opened(k, i - 1) /\ Above(k, i - 1, got[i].at)
  /\ Spans(Source(k), got[i].at - 1, got[i].at)

\* The next one will be.
Armed == \E k \in Nat :
  /\ Opened(k, Len(got)) /\ Above(k, Len(got), creep.cur + 1)
  /\ Spans(Source(k), creep.cur, creep.cap)

DeliveredInside == \A i \in DOMAIN got : ~Real(i) => Inside(i)

CreepInv == DeliveredInside /\ (creep.armed => Armed)

-----------------------------------------------------------------------------
(* What holds of the events delivered so far.                              *)

Items == [kind : {"real", "synthetic"}, at : Nat]

LEMMA GotTyped ==
  ConsumersInv => /\ got \in Seq(Items) /\ Len(got) \in Nat
                  /\ DOMAIN got = 1..Len(got)
                  /\ \A i \in DOMAIN got : got[i] \in Items
<1> SUFFICES ASSUME ConsumersInv
             PROVE  /\ got \in Seq(Items) /\ Len(got) \in Nat
                    /\ DOMAIN got = 1..Len(got)
                    /\ \A i \in DOMAIN got : got[i] \in Items
  OBVIOUS
<1>1. got \in Seq(Items)
  BY DEF ConsumersInv, TypeOK, ForwardTypeOK, Items
<1>2. Len(got) \in Nat /\ DOMAIN got = 1..Len(got)
  BY <1>1, LenProperties
<1> QED BY <1>1, <1>2, ElementOfSeq

\* Events are not changed once sent, so what was inside its phase stays there.
LEMMA SentKept ==
  ASSUME ConsumersInv, [Next]_vars
  PROVE  \A n \in 1..(rx - 1) : sent'[n] = sent[n]
<1>1. /\ sent \in Seq(Events) /\ DOMAIN sent = 1..Len(sent) /\ Len(sent) \in Nat
      /\ rx \in 1..(Len(sent) + 1)
  BY LenProperties DEF ConsumersInv, TypeOK, ChannelTypeOK, Events
<1>2. CASE sent' = sent
  BY <1>2
<1>3. CASE Senders
  <2>1. PICK e : Sends(e)
    BY <1>3, SenderSends
  <2>2. e \in Events /\ sent' = Append(sent, e)
    BY <2>1 DEF Sends
  <2>3. \A i \in 1..Len(sent) : sent'[i] = sent[i]
    BY <1>1, <2>2, Grows
  <2> QED BY <1>1, <2>3
<1> QED
  BY <1>2, <1>3
  DEF Next, Job, Promise, Task, Run, vars, chanVars, Forwarder, ForwarderReads,
      ForwarderSkips, SkipLag, SkipOther, Forward, Receive, ObserverPanics, Tick,
      Caller, HandleReady, ForwarderJoined, Command, CommandSkips, PrintEvent,
      PrintOutcome

\* A step that only appends to `got` leaves open what is.
LEMMA OpenedKept ==
  ASSUME ConsumersInv, [Next]_vars, \A m \in DOMAIN got : got'[m] = got[m],
         NEW n \in 0..Len(got), NEW k \in Nat, Opened(k, n)
  PROVE  /\ Opened(k, n)' /\ Source(k)' = Source(k)
         /\ k \in 1..n /\ k \in DOMAIN got /\ Real(k)
         /\ Source(k).kind = "PhaseEntered" /\ Source(k) \in Events
         /\ Source(k).arg \in Phases
         /\ \A m \in (k + 1)..n : got'[m] = got[m]
<1>1. /\ Len(got) \in Nat /\ DOMAIN got = 1..Len(got) /\ k \in 1..n
      /\ got[k].kind = "real" /\ sent[got[k].at].kind = "PhaseEntered"
      /\ \A m \in (k + 1)..n : ~Moves(m)
  BY GotTyped DEF Opened
<1>2. \A m \in 1..n : m \in DOMAIN got /\ got'[m] = got[m]
  BY <1>1
<1>3. \A m \in 1..n : Real(m) => sent'[got'[m].at] = sent[got[m].at]
  BY <1>2, SentKept DEF ConsumersInv, ForwardInv
<1>4. \A m \in (k + 1)..n : m \in 1..n
  BY <1>1
<1>5. \A m \in (k + 1)..n : ~Moves(m)'
  BY <1>1, <1>2, <1>3, <1>4 DEF Moves, Real
<1>6. /\ Source(k)' = Source(k)
      /\ got'[k].kind = "real" /\ sent'[got'[k].at].kind = "PhaseEntered"
  BY <1>1, <1>2, <1>3 DEF Source, Real
<1>7. Source(k) \in Events /\ Source(k).arg \in Phases
  <2>1. got[k].at \in 1..(rx - 1)
    BY <1>1, <1>2 DEF ConsumersInv, ForwardInv, Real
  <2>2. /\ sent \in Seq(Events) /\ DOMAIN sent = 1..Len(sent)
        /\ Len(sent) \in Nat /\ rx \in 1..(Len(sent) + 1)
    BY LenProperties DEF ConsumersInv, TypeOK, ChannelTypeOK, Events
  <2>3. got[k].at \in DOMAIN sent
    BY <2>1, <2>2
  <2>4. sent[got[k].at] \in Events
    BY <2>2, <2>3, ElementOfSeq
  <2>5. sent[got[k].at].arg \in Phases
    BY <1>1, <2>3 DEF ConsumersInv, SentInv
  <2> QED BY <2>4, <2>5 DEF Source
<1>8. Opened(k, n)'
  BY <1>1, <1>5, <1>6 DEF Opened
<1>9. Source(k).kind = "PhaseEntered" /\ Real(k)
  BY <1>1 DEF Source, Real
<1> QED BY <1>1, <1>2, <1>4, <1>6, <1>7, <1>8, <1>9

\* Such a step keeps what was delivered inside.
LEMMA InsideKept ==
  ASSUME ConsumersInv, [Next]_vars, DeliveredInside,
         NEW i \in DOMAIN got, ~Real(i),
         \A m \in DOMAIN got : got'[m] = got[m]
  PROVE  Inside(i)'
<1>1. PICK k \in Nat :
        /\ Opened(k, i - 1) /\ Above(k, i - 1, got[i].at)
        /\ Spans(Source(k), got[i].at - 1, got[i].at)
  BY DEF DeliveredInside, Inside
<1>2. i - 1 \in 0..Len(got)
  BY GotTyped
<1>3. /\ Opened(k, i - 1)' /\ Source(k)' = Source(k)
      /\ \A m \in (k + 1)..(i - 1) : got'[m] = got[m]
  BY <1>1, <1>2, OpenedKept
<1>4. got'[i] = got[i]
  OBVIOUS
<1>5. Above(k, i - 1, got[i].at)'
  BY <1>1, <1>3, <1>4 DEF Above, Real
<1>6. Spans(Source(k), got[i].at - 1, got[i].at)'
  BY <1>1, <1>3, <1>4 DEF Spans
<1> QED BY <1>3, <1>5, <1>6 DEF Inside

\* A step that delivers nothing, and leaves the ticker or disarms it.
LEMMA NothingDelivered ==
  ASSUME ConsumersInv, CreepInv, [Next]_vars, got' = got,
         creep' = creep \/ creep' = NoCreep
  PROVE  CreepInv'
<1>1. DeliveredInside'
  BY InsideKept DEF CreepInv, DeliveredInside, Real
<1>2. ASSUME creep'.armed PROVE Armed'
  <2>1. creep' = creep /\ creep.armed
    BY <1>2 DEF NoCreep
  <2> PICK n \in Nat : n = Len(got)
    BY GotTyped
  <2>0. n \in 0..Len(got)
    OBVIOUS
  <2>2. PICK k \in Nat :
          /\ Opened(k, n) /\ Above(k, n, creep.cur + 1)
          /\ Spans(Source(k), creep.cur, creep.cap)
    BY <2>1 DEF CreepInv, Armed
  <2>3. Opened(k, n)' /\ Source(k)' = Source(k)
    BY <2>0, <2>2, OpenedKept
  <2>4. Above(k, n, creep.cur + 1)' /\ Spans(Source(k), creep.cur, creep.cap)'
    BY <2>1, <2>2, <2>3 DEF Above, Real, Spans
  <2>5. Len(got)' = n
    OBVIOUS
  <2> QED BY <2>3, <2>4, <2>5 DEF Armed
<1> QED BY <1>1, <1>2 DEF CreepInv

-----------------------------------------------------------------------------
(* A tick.                                                                 *)

LEMMA SpansWiden ==
  ASSUME NEW e \in Events, e.arg \in Phases, NEW from \in Int, NEW to \in Int,
         NEW later \in Int, NEW sooner \in Int, from <= later, sooner <= to,
         Spans(e, from, to)
  PROVE  Spans(e, later, sooner)
<1> DEFINE a == Slice[e.arg][1]
           b == Slice[e.arg][2]
<1>1. Slice[e.arg] # NoSlice /\ a <= from /\ to < b
  BY DEF Spans
<1>2. a \in 0..200 /\ b \in 0..200
  <2>1. Slice[e.arg] \in (0..200) \X (0..200)
    BY <1>1, ForwardingAssumption
  <2> QED BY <2>1
<1> HIDE DEF a, b
<1>3. a <= later /\ sooner < b
  BY <1>1, <1>2
<1> QED BY <1>1, <1>3 DEF a, b, Spans

LEMMA StepMoves ==
  ASSUME NEW a \in 0..200, NEW b \in 0..200, ~(a >= b),
         NEW step \in 1..((b - a + 49) \div 50)
  PROVE  \E new \in Nat : /\ new = a + step /\ a <= new - 1 /\ new <= b
                           /\ a <= new /\ new - 1 \in Int
<1>1. a + step \in 0..200 /\ a + step <= b
  <2>1. a < b
    OBVIOUS
  <2> QED BY <2>1, StepStays
<1>2. step \in Int /\ 1 <= step
  <2>1. (b - a + 49) \div 50 \in Int
    OBVIOUS
  <2> QED BY <2>1
<1>3. /\ a <= (a + step) - 1 /\ a + step \in Nat
      /\ a <= a + step /\ (a + step) - 1 \in Int
  BY <1>1, <1>2
<1> QED BY <1>1, <1>3

LEMMA CreepTypes ==
  ConsumersInv => /\ creep.cur \in 0..200 /\ creep.cap \in 0..200
                  /\ creep.cur \in Int /\ creep.cap \in Int
                  /\ creep.cap <= creep.cap
<1>1. ConsumersInv => creep.cur \in 0..200 /\ creep.cap \in 0..200
  BY DEF ConsumersInv, TypeOK, ForwardTypeOK
<1> QED BY <1>1

LEMMA TickDelivers ==
  ASSUME ConsumersInv, CreepInv, Tick, [Next]_vars
  PROVE  CreepInv'
<1>1. CASE creep.cur >= creep.cap
  BY <1>1, NothingDelivered DEF Tick
<1>2. CASE ~(creep.cur >= creep.cap)
  <2>1. /\ creep.armed /\ sent' = sent
        /\ creep \in [armed : BOOLEAN, cur : 0..200, cap : 0..200]
    BY DEF Tick, chanVars, ConsumersInv, TypeOK, ForwardTypeOK
  <2> PICK n \in Nat : n = Len(got) /\ DOMAIN got = 1..n
    BY GotTyped
  <2>0. n \in 0..Len(got)
    OBVIOUS
  <2>2. PICK k \in Nat :
          /\ Opened(k, n) /\ Above(k, n, creep.cur + 1)
          /\ Spans(Source(k), creep.cur, creep.cap)
    BY <2>1 DEF CreepInv, Armed
  <2>3. PICK step \in 1..((creep.cap - creep.cur + 49) \div 50) :
          /\ creep' = [creep EXCEPT !.cur = creep.cur + step]
          /\ \/ got' = got
             \/ got' = Append(got, [kind |-> "synthetic", at |-> creep.cur + step])
    BY <1>2 DEF Tick, Deliver
  <2> PICK new \in Nat :
           /\ new = creep.cur + step /\ creep.cur <= new - 1 /\ new <= creep.cap
           /\ creep.cur <= new /\ new - 1 \in Int
    BY <1>2, <2>1, <2>3, CreepTypes, StepMoves
  <2>4. creep'.cur = new /\ creep'.cap = creep.cap /\ creep.cur \in Int /\ creep.cap \in Int
    <3>1. creep'.cur = creep.cur + step /\ creep'.cap = creep.cap
      BY <2>1, <2>3
    <3> QED BY <3>1, CreepTypes, Zenon
  <2>5. /\ got \in Seq(Items) /\ \A m \in 1..n : got[m] \in Items
        /\ \A m \in DOMAIN got : got'[m] = got[m]
    <3>1. [kind |-> "synthetic", at |-> new] \in Items
      BY DEF Items
    <3> QED BY <2>3, <3>1, GotTyped, Grows
  <2>6. /\ Opened(k, n)' /\ Source(k)' = Source(k) /\ k \in 1..n
        /\ Source(k) \in Events /\ Source(k).arg \in Phases
        /\ \A m \in (k + 1)..n : got'[m] = got[m] /\ m \in 1..n
    <3>1. k \in 1..n => \A m \in (k + 1)..n : m \in 1..n
      OBVIOUS
    <3> QED BY <2>0, <2>2, <2>5, <3>1, OpenedKept
  <2>7. Spans(Source(k), new - 1, new) /\ Spans(Source(k), new, creep.cap)
    <3>1. /\ creep.cur <= new - 1 /\ new - 1 \in Int /\ creep.cap <= creep.cap
          /\ creep.cur <= new /\ new <= creep.cap
      BY CreepTypes, Zenon
    <3>2. new \in Int
      OBVIOUS
    <3>3. Spans(Source(k), new - 1, new)
      BY <2>2, <2>4, <2>6, <3>1, <3>2, SpansWiden
    <3>4. Spans(Source(k), new, creep.cap)
      BY <2>2, <2>4, <2>6, <3>1, <3>2, SpansWiden
    <3> QED BY <3>3, <3>4
  <2>8. Above(k, n, new) /\ Above(k, n, new + 1)
    <3> SUFFICES ASSUME NEW m \in (k + 1)..n, ~Real(m)
                 PROVE  got[m].at < new /\ got[m].at < new + 1
      BY DEF Above
    <3>1. got[m].at < creep.cur + 1 /\ got[m] \in Items
      BY <2>2, <2>5, <2>6 DEF Above
    <3>2. got[m].at \in Nat
      BY <3>1 DEF Items
    <3> DEFINE g == got[m].at
               c == creep.cur
    <3>3. g \in Nat /\ c \in Int /\ c <= new - 1 /\ g < c + 1
      BY <2>4, <3>1, <3>2
    <3> HIDE DEF g, c
    <3>4. g < new /\ g < new + 1
      BY <3>3
    <3> QED BY <3>4 DEF g
  <2>9. Above(k, n, new)' /\ Above(k, n, new + 1)'
    BY <2>6, <2>8 DEF Above, Real
  <2>10. \A i \in DOMAIN got : ~Real(i) => Inside(i)'
    BY <2>5, InsideKept DEF CreepInv
  <2>11. CASE got' = got
    <3>1. DeliveredInside'
      BY <2>10, <2>11 DEF DeliveredInside, Real
    <3>2. Spans(Source(k), creep.cur, creep.cap)'
      BY <2>4, <2>6, <2>7 DEF Spans
    <3>3. Above(k, n, creep.cur + 1)'
      BY <2>4, <2>9 DEF Above, Real
    <3>4. Len(got)' = n
      BY <2>11
    <3>5. Armed'
      BY <2>6, <3>2, <3>3, <3>4 DEF Armed
    <3> QED BY <3>1, <3>5 DEF CreepInv
  <2>12. CASE got' = Append(got, [kind |-> "synthetic", at |-> creep.cur + step])
    <3> DEFINE x == [kind |-> "synthetic", at |-> new]
    <3>1. x \in Items /\ got' = Append(got, x) /\ x.at = new /\ x.kind = "synthetic"
      BY <2>12 DEF Items
    <3> HIDE DEF x
    <3>2. /\ Len(got') = n + 1 /\ DOMAIN got' = 1..(n + 1) /\ got'[n + 1] = x
      BY <2>5, <3>1, Grows
    <3>3. ~Real(n + 1)' /\ \A m \in 1..n : Real(m)' <=> Real(m)
      BY <2>5, <3>1, <3>2 DEF Real
    <3>4. ~Moves(n + 1)'
      BY <3>1, <3>2 DEF Moves
    <3>5. /\ k \in 1..(n + 1) /\ (n + 1) - 1 = n
          /\ \A m \in (k + 1)..(n + 1) : m \in (k + 1)..n \/ m = n + 1
      BY <2>6
    <3>6. Opened(k, n + 1)'
      BY <2>6, <3>4, <3>5 DEF Opened
    <3>7. Above(k, n + 1, new + 1)'
      BY <2>9, <3>1, <3>2, <3>5 DEF Above
    <3>8. Inside(n + 1)'
      <4>1. got'[n + 1].at = new
        BY <3>1, <3>2
      <4>2. Above(k, n, got[n + 1].at)'
        BY <2>9, <4>1 DEF Above, Real
      <4>3. Spans(Source(k), got[n + 1].at - 1, got[n + 1].at)'
        BY <2>6, <2>7, <4>1 DEF Spans
      <4> QED BY <2>6, <3>5, <4>2, <4>3 DEF Inside
    <3>9. DeliveredInside'
      <4>1. ASSUME NEW i \in DOMAIN got', ~Real(i)' PROVE Inside(i)'
        <5>1. CASE i = n + 1
          BY <3>8, <5>1
        <5>2. CASE i \in 1..n
          BY <2>10, <3>3, <4>1, <5>2
        <5> QED BY <3>2, <5>1, <5>2
      <4> QED BY <4>1 DEF DeliveredInside
    <3>10. Above(k, n + 1, creep.cur + 1)'
      BY <2>4, <3>7 DEF Above, Real
    <3>11. Spans(Source(k), creep.cur, creep.cap)'
      BY <2>4, <2>6, <2>7 DEF Spans
    <3>12. Armed'
      BY <3>2, <3>6, <3>10, <3>11 DEF Armed
    <3> QED BY <3>9, <3>12 DEF CreepInv
  <2> QED BY <2>3, <2>11, <2>12
<1> QED BY <1>1, <1>2

-----------------------------------------------------------------------------
(* An event is delivered.                                                  *)

\* The ticker that a phase arms starts with its slice.
LEMMA CreepSpans ==
  ASSUME NEW e \in Events, e.kind = "PhaseEntered", e.arg \in Phases,
         CreepFor(e.arg).armed
  PROVE  Spans(e, CreepFor(e.arg).cur, CreepFor(e.arg).cap)
<1> DEFINE a == Slice[e.arg][1]
           b == Slice[e.arg][2]
           c == a + (95 * (b - a)) \div 100
<1>1. Slice[e.arg] # NoSlice /\ ~(a >= b)
  BY DEF CreepFor, NoCreep
<1>2. a \in 0..200 /\ b \in 0..200
  <2>1. Slice[e.arg] \in (0..200) \X (0..200)
    BY <1>1, ForwardingAssumption
  <2> QED BY <2>1
<1>3. CreepFor(e.arg) = [armed |-> TRUE, cur |-> a, cap |-> c]
  BY <1>1 DEF CreepFor
<1>4. a <= a /\ c < b
  <2> HIDE DEF a, b
  <2> QED BY <1>1, <1>2
<1> HIDE DEF c
<1> QED BY <1>1, <1>3, <1>4 DEF Spans

LEMMA ForwardDelivers ==
  ASSUME ConsumersInv, CreepInv, Forward, [Next]_vars
  PROVE  CreepInv'
<1> DEFINE x == [kind |-> "real", at |-> rx]
<1>1. /\ sent' = sent /\ rx \in Nat /\ sent[rx] \in Events /\ rx \in DOMAIN sent
      /\ sent[rx].kind # "Other"
      /\ got' = Append(got, x) /\ creep' = Rearm(sent[rx])
      /\ x.kind = "real" /\ x.at = rx /\ x \in Items
  BY ReceiveMoves DEF Forward, Deliver, Own, Items
<1> PICK n \in Nat : n = Len(got) /\ DOMAIN got = 1..n
  BY GotTyped
<1>0. n \in 0..Len(got)
  OBVIOUS
<1> HIDE DEF x
<1>2. /\ Len(got') = n + 1 /\ DOMAIN got' = 1..(n + 1) /\ got'[n + 1] = x
      /\ \A m \in DOMAIN got : got'[m] = got[m]
  BY <1>1, GotTyped, Grows
<1>3. Real(n + 1)' /\ Source(n + 1)' = sent[rx] /\ \A m \in 1..n : Real(m)' <=> Real(m)
  BY <1>1, <1>2 DEF Real, Source
<1>4. DeliveredInside'
  <2>1. \A i \in DOMAIN got : ~Real(i) => Inside(i)'
    BY <1>2, InsideKept DEF CreepInv
  <2> QED BY <1>2, <1>3, <2>1 DEF DeliveredInside
<1>5. ASSUME creep'.armed PROVE Armed'
  <2>1. CASE sent[rx].kind = "PhaseEntered"
    <3>1. creep' = CreepFor(sent[rx].arg) /\ sent[rx].arg \in Phases
      BY <1>1, <2>1 DEF Rearm, ConsumersInv, SentInv
    <3>2. Spans(Source(n + 1), creep.cur, creep.cap)'
      <4>1. Spans(sent[rx], creep'.cur, creep'.cap)
        BY <1>1, <1>5, <2>1, <3>1, CreepSpans
      <4> QED BY <1>3, <4>1 DEF Spans
    <3>3. \A m \in ((n + 1) + 1)..(n + 1) : FALSE
      OBVIOUS
    <3>4. Opened(n + 1, n + 1)'
      BY <1>1, <1>2, <2>1, <3>3 DEF Opened
    <3>5. Above(n + 1, n + 1, creep.cur + 1)'
      BY <3>3 DEF Above
    <3>6. n + 1 \in Nat
      OBVIOUS
    <3> QED BY <1>2, <3>2, <3>4, <3>5, <3>6 DEF Armed
  <2>2. CASE sent[rx].kind \in {"PhaseExited", "Cancelled", "Finalized"}
    <3>1. creep' = NoCreep
      BY <1>1, <2>2 DEF Rearm
    <3> QED BY <1>5, <3>1 DEF NoCreep
  <2>3. CASE sent[rx].kind \notin {"PhaseEntered", "PhaseExited", "Cancelled", "Finalized"}
    <3>1. creep' = creep /\ creep.armed
      BY <1>1, <1>5, <2>3 DEF Rearm
    <3>2. PICK k \in Nat :
            /\ Opened(k, n) /\ Above(k, n, creep.cur + 1)
            /\ Spans(Source(k), creep.cur, creep.cap)
      BY <3>1 DEF CreepInv, Armed
    <3>3. /\ Opened(k, n)' /\ Source(k)' = Source(k) /\ k \in 1..n
          /\ \A m \in (k + 1)..n : got'[m] = got[m]
      BY <1>0, <1>2, <3>2, OpenedKept
    <3>4. /\ k \in 1..(n + 1)
          /\ \A m \in (k + 1)..(n + 1) : m \in (k + 1)..n \/ m = n + 1
      BY <3>3
    <3>5. ~Moves(n + 1)'
      BY <1>1, <1>2, <2>3 DEF Moves
    <3>6. Opened(k, n + 1)'
      BY <3>3, <3>4, <3>5 DEF Opened
    <3>7. Above(k, n + 1, creep.cur + 1)'
      BY <1>3, <3>1, <3>2, <3>3, <3>4 DEF Above, Real
    <3>8. Spans(Source(k), creep.cur, creep.cap)'
      BY <3>1, <3>2, <3>3 DEF Spans
    <3> QED BY <1>2, <3>6, <3>7, <3>8 DEF Armed
  <2> QED BY <2>1, <2>2, <2>3
<1> QED BY <1>4, <1>5 DEF CreepInv

-----------------------------------------------------------------------------
LEMMA CreepStep == ConsumersInv /\ CreepInv /\ [Next]_vars => CreepInv'
<1> SUFFICES ASSUME ConsumersInv, CreepInv, [Next]_vars PROVE CreepInv'
  OBVIOUS
<1>1. CASE got' = got /\ (creep' = creep \/ creep' = NoCreep)
  BY <1>1, NothingDelivered
<1> HIDE DEF CreepInv
<1> QED
  BY <1>1, ForwardDelivers, TickDelivers
  DEF Next, Job, Task, Run, vars, forwardVars, Forwarder, ForwarderReads,
      ForwarderSkips, ObserverPanics, Caller, HandleReady, ForwarderJoined

LEMMA CreepInitially == Init => CreepInv
<1> SUFFICES ASSUME Init PROVE CreepInv
  OBVIOUS
<1>1. got = <<>> /\ creep = NoCreep
  BY DEF Init, ForwardInit
<1>2. DOMAIN got = {} /\ ~creep.armed
  BY <1>1 DEF NoCreep
<1> QED BY <1>2 DEF CreepInv, DeliveredInside

\* What observers see of synthetic progress follows the PhaseEntered of a phase
\* with a slice, with no event that disarms the ticker delivered in between; it
\* lies inside that slice and rises (tauri.rs, CreepState and forward_events).
THEOREM CreepContained == Spec => []CreepIsContained
<1>1. ConsumersInv /\ CreepInv => CreepIsContained
  <2> SUFFICES ASSUME ConsumersInv, CreepInv, NEW i \in DOMAIN got,
                      got[i].kind = "synthetic"
               PROVE
                 \E k \in 1..(i - 1) :
                   /\ Opened(k, i - 1)
                   /\ \A m \in (k + 1)..(i - 1) :
                        got[m].kind = "synthetic" => got[m].at < got[i].at
                   /\ LET slice == Slice[sent[got[k].at].arg]
                      IN  /\ slice # NoSlice
                          /\ slice[1] < got[i].at /\ got[i].at < slice[2]
    BY DEF CreepIsContained
  <2>1. PICK k \in Nat :
          /\ Opened(k, i - 1) /\ Above(k, i - 1, got[i].at)
          /\ Spans(Source(k), got[i].at - 1, got[i].at)
    BY DEF CreepInv, DeliveredInside, Inside, Real
  <2>2. \A m \in (k + 1)..(i - 1) : got[m].kind = "synthetic" => got[m].at < got[i].at
    BY <2>1 DEF Above, Real
  <2> DEFINE slice == Slice[sent[got[k].at].arg]
  <2>3. /\ k \in 1..(i - 1) /\ sent[got[k].at].kind = "PhaseEntered"
        /\ got[k].kind = "real"
    BY <2>1 DEF Opened
  <2>4. slice # NoSlice /\ slice[1] <= got[i].at - 1 /\ got[i].at < slice[2]
    BY <2>1 DEF Spans, Source
  <2>5. slice[1] \in 0..200
    <3>1. i \in 1..Len(got) /\ Len(got) \in Nat /\ DOMAIN got = 1..Len(got)
      BY GotTyped
    <3>2. k \in DOMAIN got
      BY <2>3, <3>1
    <3>3. got[k].at \in 1..(rx - 1)
      BY <2>3, <3>2 DEF ConsumersInv, ForwardInv, Real
    <3>4. DOMAIN sent = 1..Len(sent) /\ Len(sent) \in Nat /\ rx \in 1..(Len(sent) + 1)
      BY LenProperties DEF ConsumersInv, TypeOK, ChannelTypeOK
    <3>5. got[k].at \in DOMAIN sent
      BY <3>3, <3>4
    <3>6. sent[got[k].at].arg \in Phases
      BY <2>3, <3>5 DEF ConsumersInv, SentInv
    <3>7. slice \in (0..200) \X (0..200)
      BY <2>4, <3>6, ForwardingAssumption
    <3> QED BY <3>7
  <2>6. got[i].at \in Nat
    BY GotTyped DEF Items
  <2> HIDE DEF slice
  <2>7. slice[1] < got[i].at
    BY <2>4, <2>5, <2>6
  <2>8. slice # NoSlice /\ slice[1] < got[i].at /\ got[i].at < slice[2]
    BY <2>4, <2>7
  <2> QED BY <2>1, <2>2, <2>3, <2>8 DEF slice
<1>2. ConsumersInv /\ CreepInv /\ [Next]_vars => ConsumersInv' /\ CreepInv'
  BY StepKeeps, CreepStep
<1>3. Init => ConsumersInv /\ CreepInv
  BY InitHolds, CreepInitially
<1> QED BY <1>1, <1>2, <1>3, PTL DEF Spec
=============================================================================
