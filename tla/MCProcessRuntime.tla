--------------------------- MODULE MCProcessRuntime ---------------------------
(* A small instance of ProcessRuntime for TLC: one call with every failure, and *)
(* a call with another one nested in it, with one kind of failure at a time.    *)
EXTENDS ProcessRuntime, TLC

CONSTANTS p1

MCProcs == {p1}
MCCalls == 1 .. 2
MCLineage == <<None, 1>>
MCScenarios == {Events \ {"nest"}} \cup {{event, "nest"} : event \in {"die", "leave", "kill"}}
===============================================================================
