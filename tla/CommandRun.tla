------------------------------ MODULE CommandRun ------------------------------
(***************************************************************************)
(* `execra run` (execra-cli, main.rs): a loop that selects, in no fixed    *)
(* order, between the next event of its job and the job's outcome.         *)
(***************************************************************************)
EXTENDS EventChannel

VARIABLES
  json,           \* --json
  printed,        \* what it has printed, and whether event or outcome
  finalized_seen,
  cpc             \* running, returned or none

commandVars == <<json, printed, finalized_seen, cpc>>

CommandTypeOK ==
  /\ json \in BOOLEAN /\ finalized_seen \in BOOLEAN
  /\ printed \in Seq([what : {"event", "outcome"}, at : Nat])
  /\ cpc \in {"none", "running", "returned"}

CommandInit(runs) ==
  /\ json \in IF runs THEN BOOLEAN ELSE {FALSE}
  /\ printed = <<>> /\ finalized_seen = FALSE
  /\ cpc = IF runs THEN "running" ELSE "none"

-----------------------------------------------------------------------------

CommandSkips ==
  /\ cpc = "running"
  /\ SkipLag \/ SkipOther
  /\ UNCHANGED commandVars

\* print_event: as text, only the lines the program printed
PrintEvent ==
  /\ cpc = "running" /\ Receive
  /\ printed' = IF json \/ sent[rx].kind = "Output"
                THEN Append(printed, [what |-> "event", at |-> rx])
                ELSE printed
  /\ finalized_seen' = (finalized_seen \/ sent[rx].kind = "Finalized")
  /\ UNCHANGED <<json, cpc>>

\* Mutant: the outcome is printed whether Finalized was or not.
PrintOutcomeAlways ==
  /\ cpc = "running" /\ promised
  /\ printed' = Append(printed, [what |-> "outcome", at |-> 0])
  /\ cpc' = "returned"
  /\ UNCHANGED <<chanVars, json, finalized_seen>>

\* The handle is ready: the events still in the channel are not printed. As
\* JSON the outcome is a Finalized of its own, unless one has been printed.
PrintOutcome ==
  /\ cpc = "running" /\ promised
  /\ printed' = IF json /\ finalized_seen THEN printed
                ELSE Append(printed, [what |-> "outcome", at |-> 0])
  /\ cpc' = "returned"
  /\ UNCHANGED <<chanVars, json, finalized_seen>>

Command == CommandSkips \/ PrintEvent \/ PrintOutcome

-----------------------------------------------------------------------------
(* Properties.                                                             *)

Reports(i) ==
  \/ printed[i].what = "outcome"
  \/ sent[printed[i].at].kind = "Finalized"

\* The command prints its job's events in the order sent, each once, and none
\* of another job. When it returns it has told the outcome exactly once,
\* whether it had read Finalized, had yet to read it or had lost it to the
\* channel, and told it last.
OutcomeToldOnce ==
  /\ \A i \in DOMAIN printed : printed[i].what = "event" => printed[i].at \in Own
  /\ \A i, k \in DOMAIN printed :
       i < k /\ printed[i].what = "event" /\ printed[k].what = "event"
         => printed[i].at < printed[k].at
  /\ \A i \in DOMAIN printed : Reports(i) => i = Len(printed)
  /\ cpc = "returned" => printed # <<>> /\ Reports(Len(printed))
=============================================================================
