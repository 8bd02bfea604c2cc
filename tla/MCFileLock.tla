----------------------------- MODULE MCFileLock -----------------------------
(* A small instance of FileLock for TLC. *)
EXTENDS FileLock

CONSTANTS p1, p2

\* Process p1 makes call 1, whose body makes call 2, and meanwhile call 4;
\* p2 makes call 3. Two of them wait for ever, two have a timeout.
MCProcs == {p1, p2}
MCCalls == 1 .. 4
MCProcOf == <<p1, p1, p2, p1>>
MCCaller == <<None, 1, None, None>>
MCTimeout == <<2, Infinity, Infinity, 3>>
=============================================================================
