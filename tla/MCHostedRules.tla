----------------------------- MODULE MCHostedRules -----------------------------
(***************************************************************************)
(* Instances of HostedRules for TLC: a table with a rule of every kind,    *)
(* two phases with slices and one without.                                 *)
(***************************************************************************)
EXTENDS HostedRules, TLC

Rule(kind, arg) == [kind |-> kind, arg |-> arg]
Unruled == [kind |-> "none"]

MCMatch ==
  "Notes" :> Unruled @@ "---" :> Unruled @@ "(empty)" :> Unruled @@ "failed" :> Unruled
  @@ "prepare" :> Rule("EnterPhase", "prepare")
  @@ "download" :> Rule("EnterPhase", "download")
  @@ "extract" :> Rule("EnterPhase", "extract")
  @@ "4/5 MB" :> Rule("ByteProgressMb", [done |-> 4, total |-> 5])
  @@ "0/0 MB" :> Rule("ByteProgressMb", [done |-> 0, total |-> 0])
  @@ "bad hash" :> Rule("KnownError", "bad hash")
  @@ "held" :> Rule("Warning", "held")
  @@ "waiting" :> Rule("Progress", NoBar)
  @@ "2 pinned" :> Rule("Summary", "2 pinned")
  @@ "ok" :> Rule("Benign", "none")

MCTexts == DOMAIN MCMatch

MCShape ==
  [t \in MCTexts |->
     CASE t = "Notes" -> "trigger" [] t = "---" -> "separator"
       [] t = "(empty)" -> "empty" [] t = "failed" -> "failed" [] OTHER -> "other"]

MCSlice ==
  "prepare" :> <<>> @@ "download" :> <<0, 50>> @@ "extract" :> <<50, 100>>

MCFallback == [from_failed_line |-> TRUE, from_stderr |-> TRUE]

OnStream(texts, stream) == [text : texts, stream : {stream}]

\* Only last_stderr looks at the stream. Of the rules that Report hands on as
\* they are, the lines match the one for progress, whose bar has no fraction.
MCLines ==
  OnStream({"Notes", "(empty)", "failed", "prepare", "download", "4/5 MB", "ok"},
           "stdout")
    \cup OnStream({"waiting", "bad hash", "---"}, "stderr")
=============================================================================
