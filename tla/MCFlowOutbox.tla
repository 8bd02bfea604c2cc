---------------------------- MODULE MCFlowOutbox ----------------------------
(* A small instance of FlowOutbox for TLC. *)
EXTENDS FlowOutbox, TLC

CONSTANTS p1, p2, k1, k2, m1, m2

MCProcs == {p1, p2}
MCKeys == {k1, k2}
MCMessages == {m1, m2}
MCSymmetry == Permutations(MCProcs) \cup Permutations(MCKeys) \cup Permutations(MCMessages)
=============================================================================
