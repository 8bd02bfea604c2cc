-------------------------- MODULE MCRepositoryLocks --------------------------
(* Small instances of RepositoryLocks for TLC. *)
EXTENDS RepositoryLocks, TLC

\* Process slots are interchangeable.
ProcSymmetry == Permutations(Procs)
=============================================================================
