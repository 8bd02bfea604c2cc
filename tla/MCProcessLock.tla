---------------------------- MODULE MCProcessLock ----------------------------
(* Small instances of ProcessLock for TLC. *)
EXTENDS ProcessLock, TLC

\* Inode numbers are interchangeable.
InodeSymmetry == Permutations(Inodes)
=============================================================================
