------------------------------ MODULE MCJobRuntime ------------------------------
(***************************************************************************)
(* Instances of JobRuntime for TLC.                                        *)
(***************************************************************************)
EXTENDS JobRuntimeInv, TLC

\* The jobs are interchangeable as long as all or none of them is timed.
JobSymmetry == Permutations(Jobs)
=============================================================================
