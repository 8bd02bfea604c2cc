---------------------------- MODULE MCFlowVersion ----------------------------
(* Small instances of FlowVersion for TLC. *)
EXTENDS FlowVersion

CONSTANTS p1, p2, t1, t2

MCProcs == {p1, p2}
MCTasks == {t1, t2}

\* Both slots may admit the same task, and one of them another one.
MCWants == (p1 :> {t1}) @@ (p2 :> {t1, t2})
\* What the files hold: sequences of Activities, of tasks, of snapshots.
MCValues ==
  BoundedSeq(MCTasks \cup {Note}, MaxOrder) \cup BoundedSeq(BoundedSeq(MCTasks, MaxOrder), MaxOrder + 1)
MCAppends == {}
=============================================================================
