------------------------------ MODULE FileLock ------------------------------
(***************************************************************************)
(* The waiting file lock of src/lib/file-lock.js.                          *)
(*                                                                         *)
(* FileLock retries a process-owned lock until a timeout, refuses at once  *)
(* when its own process is the owner, and gives the lock back after the    *)
(* body of runExclusive, whatever became of the body. Its users are the    *)
(* artifact catalog, the flow state store and the leases; several calls of *)
(* one process may be under way at once, because bodies may be             *)
(* asynchronous and may call code that takes the same lock again.          *)
(*                                                                         *)
(* The process-owned lock is an instance of LockService.                   *)
(***************************************************************************)
EXTENDS Naturals

CONSTANTS
  Procs,     \* process slots
  None,      \* null
  Calls,     \* calls of runExclusive; the number stands for the owner token
  ProcOf,    \* ProcOf[c]: the slot in which call c is made
  Caller,    \* Caller[c]: the call whose body makes c and waits for it, or None
  Infinity,  \* the timeout of a policy that waits for ever
  Timeout,   \* Timeout[c]: timeoutMs of the call's wait policy, or Infinity
  Interval,  \* intervalMs of the wait policies
  Faults,    \* whether the process lock may fail
  MaxBirth   \* bound: births per slot

ASSUME FileLockAssumption ==
  /\ Calls \subseteq Nat
  /\ None \notin Calls
  /\ None \notin [proc : Procs, birth : Nat, token : Nat]
  /\ ProcOf \in [Calls -> Procs]
  /\ Caller \in [Calls -> Calls \cup {None}]
  /\ \A c \in Calls : Caller[c] # None => ProcOf[Caller[c]] = ProcOf[c]
  /\ Infinity \notin Nat
  /\ Timeout \in [Calls -> Nat \cup {Infinity}]
  /\ Interval \in Nat \ {0}
  /\ Faults \in BOOLEAN
  /\ MaxBirth \in Nat

VARIABLES
  holder,  \* the owner the lock file names, or None
  birth,   \* which birth of the slot is running
  pc,      \* where the call is
  waited,  \* elapsedSince(startedAt), counted up to the timeout
  seen,    \* the live owner in the conflict that acquire threw, or None
  result   \* how the body, then the whole call, ended

vars == <<holder, birth, pc, waited, seen, result>>

Lock == INSTANCE LockService

Owners == [proc : Procs, birth : Nat, token : Nat]
Labels == {"uncalled", "attempt", "conflict", "sleep", "body", "release", "ended", "dead"}
Errors == {"reentrant", "timeout", "lockError", "residueError", "bodyError", "releaseError", "bothErrors"}
Results == {"none", "ok"} \cup Errors

TypeOK ==
  /\ holder \in Owners \cup {None}
  /\ birth \in [Procs -> Nat]
  /\ pc \in [Calls -> Labels]
  /\ waited \in [Calls -> Nat]
  /\ seen \in [Calls -> Owners \cup {None}]
  /\ result \in [Calls -> Results]

Init ==
  /\ holder = None
  /\ birth = [p \in Procs |-> 0]
  /\ pc = [c \in Calls |-> "uncalled"]
  /\ waited = [c \in Calls |-> 0]
  /\ seen = [c \in Calls |-> None]
  /\ result = [c \in Calls |-> "none"]

-----------------------------------------------------------------------------
Live(o) == birth[o.proc] = o.birth
NewOwner(c) == [proc |-> ProcOf[c], birth |-> birth[ProcOf[c]], token |-> c]
Owns(c) == holder = NewOwner(c)
Running(c) == pc[c] \notin {"uncalled", "ended", "dead"}

Goto(c, label) == pc' = [pc EXCEPT ![c] = label]
End(c, r) ==
  /\ Goto(c, "ended")
  /\ result' = [result EXCEPT ![c] = r]

\* acquire() notes the time and enters its loop. A nested call is made by the
\* body of its caller.
Start(c) ==
  /\ pc[c] = "uncalled"
  /\ Caller[c] # None => pc[Caller[c]] = "body"
  /\ Goto(c, "attempt")
  /\ UNCHANGED <<holder, birth, waited, seen, result>>

\* #acquireAttempt: processLock.acquire clears a dead owner ...
AttemptReclaim(c) ==
  /\ pc[c] = "attempt"
  /\ Lock!Reclaim
  /\ UNCHANGED <<pc, waited, seen, result>>

\* ... takes the free lock and returns ...
AttemptTake(c) ==
  /\ pc[c] = "attempt"
  /\ Lock!TakeAs(NewOwner(c))
  /\ Goto(c, "body")
  /\ UNCHANGED <<waited, seen, result>>

\* ... throws the conflict with a live owner ...
AttemptConflict(c) ==
  /\ pc[c] = "attempt"
  /\ holder # None
  /\ Live(holder)
  /\ seen' = [seen EXCEPT ![c] = holder]
  /\ Goto(c, "conflict")
  /\ UNCHANGED <<holder, birth, waited, result>>

\* Mutant: the error of a failed publication does not look for what it left.
AttemptFailsSilently(c) ==
  /\ pc[c] = "attempt"
  /\ Faults
  /\ \/ UNCHANGED <<holder, birth>>
     \/ Lock!TakeAs(NewOwner(c))
  /\ End(c, "lockError")
  /\ UNCHANGED <<waited, seen>>

\* ... or throws anything else, which is thrown on. #publish takes the lock back
\* when it fails after its link; when that fails too, the lock of the living
\* process stays, and the error says so in residue.visible.
AttemptFails(c) ==
  /\ pc[c] = "attempt"
  /\ Faults
  /\ \/ End(c, "lockError") /\ UNCHANGED <<holder, birth>>
     \/ End(c, "residueError") /\ Lock!TakeAs(NewOwner(c))
  /\ UNCHANGED <<waited, seen>>

\* Mutant: only the very same acquisition counts as the own process.
HeldByCurrentCall(c) == seen[c].token = c

\* #isHeldByCurrentProcess compares the birth of the owner in the conflict.
HeldByCurrentProcess(c) ==
  /\ seen[c].proc = ProcOf[c]
  /\ seen[c].birth = birth[ProcOf[c]]

TimedOut(c) == Timeout[c] # Infinity /\ waited[c] >= Timeout[c]

\* Mutant: a reentrant call is let in.
ConflictReentrantEnters(c) ==
  /\ pc[c] = "conflict"
  /\ HeldByCurrentProcess(c)
  /\ Goto(c, "body")
  /\ UNCHANGED <<holder, birth, waited, seen, result>>

ConflictReentrant(c) ==
  /\ pc[c] = "conflict"
  /\ HeldByCurrentProcess(c)
  /\ End(c, "reentrant")
  /\ UNCHANGED <<holder, birth, waited, seen>>

ConflictTimeout(c) ==
  /\ pc[c] = "conflict"
  /\ ~HeldByCurrentProcess(c)
  /\ TimedOut(c)
  /\ End(c, "timeout")
  /\ UNCHANGED <<holder, birth, waited, seen>>

ConflictRetry(c) ==
  /\ pc[c] = "conflict"
  /\ ~HeldByCurrentProcess(c)
  /\ ~TimedOut(c)
  /\ Goto(c, "sleep")
  /\ UNCHANGED <<holder, birth, waited, seen, result>>

\* Mutant: sleeps out the whole timeout at once.
WakeAtTimeout(c) ==
  /\ pc[c] = "sleep"
  /\ waited' = [waited EXCEPT ![c] = Timeout[c]]
  /\ Goto(c, "attempt")
  /\ UNCHANGED <<holder, birth, seen, result>>

\* The sleep lasts min(intervalMs, timeoutMs - waitedMs), or longer when the
\* process is not scheduled. After it there is always another attempt.
Wake(c) ==
  /\ pc[c] = "sleep"
  /\ IF Timeout[c] = Infinity
       THEN UNCHANGED waited
       ELSE \E now \in waited[c] + 1 .. Timeout[c] :
              /\ now >= waited[c] + Interval \/ now = Timeout[c]
              /\ waited' = [waited EXCEPT ![c] = now]
  /\ Goto(c, "attempt")
  /\ UNCHANGED <<holder, birth, seen, result>>

\* runExclusive: the body returns or throws once the calls it made have ended.
BodyEnds(c, r) ==
  /\ pc[c] = "body"
  /\ \A d \in Calls : Caller[d] = c => ~Running(d)
  /\ result' = [result EXCEPT ![c] = r]
  /\ Goto(c, "release")
  /\ UNCHANGED <<holder, birth, waited, seen>>

\* #releaseAfter: the lock is given back, and the body's error is thrown on.
Release(c) ==
  /\ pc[c] = "release"
  /\ Owns(c)
  /\ Lock!Drop(ProcOf[c])
  /\ End(c, result[c])
  /\ UNCHANGED <<waited, seen>>

\* The error of the release, together with the body's if there is one.
ReleaseErrorOf(c) == IF result[c] = "bodyError" THEN "bothErrors" ELSE "releaseError"

\* release throws with the lock file in place, or after its removal.
ReleaseFails(c) ==
  /\ pc[c] = "release"
  /\ Faults
  /\ \/ UNCHANGED <<holder, birth>>
     \/ Owns(c) /\ Lock!Drop(ProcOf[c])
  /\ End(c, ReleaseErrorOf(c))
  /\ UNCHANGED <<waited, seen>>

\* The process ends, with every call in it; the slot is used by a later one.
Crash(p) ==
  /\ birth[p] < MaxBirth
  /\ Lock!Die(p)
  /\ pc' = [c \in Calls |-> IF ProcOf[c] = p /\ pc[c] # "uncalled" THEN "dead" ELSE pc[c]]
  /\ UNCHANGED <<waited, seen, result>>

Step(c) ==
  \/ AttemptReclaim(c) \/ AttemptTake(c) \/ AttemptConflict(c) \/ AttemptFails(c)
  \/ ConflictReentrant(c) \/ ConflictTimeout(c) \/ ConflictRetry(c)
  \/ Wake(c)
  \/ BodyEnds(c, "ok") \/ BodyEnds(c, "bodyError")
  \/ Release(c) \/ ReleaseFails(c)

Next ==
  \/ \E c \in Calls : Start(c) \/ Step(c)
  \/ \E p \in Procs : Crash(p)

Spec == Init /\ [][Next]_vars

\* A running process goes on with each of its calls, and a body that has
\* called again gets its answer and ends.
FairSpec == Spec /\ \A c \in Calls : WF_vars(Step(c))

-----------------------------------------------------------------------------
(* Properties.                                                             *)

\* runExclusive runs one body at a time, and the lock file names the running
\* one from the end of acquire to the release, however many calls of its own
\* process or of others come and go meanwhile.
BodyOwnsLock == \A c \in Calls : pc[c] \in {"body", "release"} => Owns(c)

\* A call that has ended, by its return, a timeout, a refusal as reentrant or an
\* error, leaves no lock of a living process behind, unless its error says that a
\* lock may be left: the error of its release, or that of an acquire that could
\* not take its own publication back.
LeftLockReported ==
  holder # None /\ Live(holder) =>
    \/ pc[holder.token] \in {"body", "release"}
    \/ result[holder.token] \in {"releaseError", "bothErrors", "residueError"}

\* A call made inside the body of another one is never told that it waited too
\* long, and never gets the lock: acquire() refuses it as reentrant, so that a
\* process does not wait for itself. Only errors of the lock itself come first.
NestedCallRefused ==
  \A c \in Calls :
    Caller[c] # None /\ pc[c] \notin {"uncalled", "dead"} =>
      pc[c] \in {"attempt", "conflict"} \/ result[c] \in {"reentrant", "lockError"}

\* Every call of acquire ends, in the body, with an error or with its process,
\* unless a failed release or acquire has left the lock with a process that
\* lives on: a waiter without a timeout then waits for that process to end.
LockStuck == holder # None /\ pc[holder.token] = "ended"
AcquireEnds ==
  \A c \in Calls :
    pc[c] = "attempt" ~> pc[c] \in {"body", "release", "ended", "dead"} \/ LockStuck

=============================================================================
