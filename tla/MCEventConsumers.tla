--------------------------- MODULE MCEventConsumers ---------------------------
(***************************************************************************)
(* An instance of EventConsumers for TLC: one phase with a slice of two    *)
(* and a half percent, and one whose slice is given backwards.             *)
(***************************************************************************)
EXTENDS EventConsumers, TLC

MCPhases == {"hash", "install"}
MCSlice == "hash" :> <<11, 16>> @@ "install" :> <<16, 11>>
=============================================================================
