----------------------------- MODULE LockService -----------------------------
(***************************************************************************)
(* What one process-owned lock promises to the code that uses it: at any   *)
(* time it is free or names exactly one owner, an owner is a process birth *)
(* with a token of its own, the owner alone gives a lock back while it     *)
(* lives, and only the lock of an owner that no longer exists is taken     *)
(* away by somebody else.                                                  *)
(*                                                                         *)
(* ProcessLock is the file protocol that implements it; RepositoryLocks    *)
(* builds on it.                                                           *)
(***************************************************************************)
EXTENDS Naturals

CONSTANTS
  Procs,  \* process slots: a slot whose process ends is reused by a later birth
  None    \* "no owner"

\* An owner record: the identity of a process birth (pid, boot and start
\* fingerprint) and the random token of one acquisition.
Owners == [proc : Procs, birth : Nat, token : Nat]

VARIABLES
  holder,  \* the owner the lock names, or None
  birth    \* birth[p]: which birth of slot p is running now

lockVars == <<holder, birth>>

\* assess: an owner is live while the birth it names is the one running.
Live(o) == birth[o.proc] = o.birth

LockTypeOK ==
  /\ holder \in Owners \cup {None}
  /\ birth \in [Procs -> Nat]

LockInit ==
  /\ holder = None
  /\ birth = [p \in Procs |-> 0]

\* A running process takes the free lock as owner o.
TakeAs(o) ==
  /\ holder = None
  /\ Live(o)
  /\ holder' = o
  /\ UNCHANGED birth

Take(p) ==
  /\ holder' \in Owners
  /\ holder'.proc = p
  /\ TakeAs(holder')

\* The live owner gives the lock back.
Drop(p) ==
  /\ holder # None
  /\ holder.proc = p
  /\ Live(holder)
  /\ holder' = None
  /\ UNCHANGED birth

\* The lock of an owner that is gone is cleared by somebody else.
Reclaim ==
  /\ holder # None
  /\ ~Live(holder)
  /\ holder' = None
  /\ UNCHANGED birth

\* The process in slot p ends; what it owned stays named.
Die(p) ==
  /\ birth' = [birth EXCEPT ![p] = @ + 1]
  /\ UNCHANGED holder

LockNext ==
  \/ \E p \in Procs : Take(p) \/ Drop(p) \/ Die(p)
  \/ Reclaim

LockSpec == LockInit /\ [][LockNext]_lockVars
=============================================================================
