--------------------------- MODULE MCFinalizeMerge ---------------------------
(* Small instances of FinalizeMerge for TLC. *)
EXTENDS FinalizeMerge, TLC

\* Processes are interchangeable in the safety runs.
ProcSymmetry == Permutations(Procs)
=============================================================================
