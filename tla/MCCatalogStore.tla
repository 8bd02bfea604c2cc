--------------------------- MODULE MCCatalogStore ---------------------------
(* A small instance of CatalogStore for TLC. *)
EXTENDS CatalogStore, TLC

\* The ledger is known by its number of lines; Lines bounds them.
CONSTANTS Lines, ledger, artifact

MCFiles == {ledger, artifact}
MCRank == [f \in MCFiles |-> IF f = ledger THEN 0 ELSE 1]
MCValues == 0 .. Lines
MCAppends == {<<n, n + 1>> : n \in 0 .. Lines - 1}

\* A version with an empty ledger.
MCInit == InitWith([f \in Files |-> 0])
MCSpec == MCInit /\ [][Next]_vars

\* Process slots are interchangeable.
ProcSymmetry == Permutations(Procs)
=============================================================================
