----------------------------- MODULE ProcessLock -----------------------------
(***************************************************************************)
(* The file protocol of ProcessLock (src/lib/process-lock.js).             *)
(*                                                                         *)
(* A lock is a file at lockPath that names its owner. It is published by   *)
(* hard-linking a completely written temporary file to lockPath, and taken *)
(* away by unlinking the PATH. Processes interleave between any two system *)
(* calls that another process can observe; a process may die at any point, *)
(* and system calls may fail. Inode numbers are reused by the file system  *)
(* as soon as no name refers to them.                                      *)
(*                                                                         *)
(* Left out: malformed or foreign lock files ("corrupt") and a replaced    *)
(* lock directory (RealDirectoryAuthority). Both only add refusals.        *)
(***************************************************************************)
EXTENDS Naturals, FiniteSets

CONSTANTS
  Procs,                \* process slots
  Inodes,               \* inode numbers of the lock directory
  None,                 \* null
  Reclaimers,           \* slots whose acquire passes reclaimStale = true
  MAX_ACQUIRE_ATTEMPTS,
  MAX_OWNER_OBSERVATION_ATTEMPTS,
  IoFaults,             \* whether system calls may fail
  MaxPublish,           \* bound: owner tokens ever drawn
  MaxBirth              \* bound: births per slot

Owners == [proc : Procs, birth : Nat, token : Nat]

ASSUME ConstantsAssumption ==
  /\ None \notin Owners
  /\ None \notin Inodes
  /\ Reclaimers \subseteq Procs
  /\ MAX_ACQUIRE_ATTEMPTS \in Nat \ {0}
  /\ MAX_OWNER_OBSERVATION_ATTEMPTS \in Nat \ {0}
  /\ IoFaults \in BOOLEAN
  /\ MaxPublish \in Nat
  /\ MaxBirth \in Nat

VARIABLES
  \* the directory
  lockPath,      \* the inode that lockPath names, or None
  content,       \* content[i]: the owner record written in inode i
  temps,         \* inodes named by some owner temporary file
  \* the processes
  birth,         \* which birth of the slot is running
  serial,        \* tokens drawn so far (crypto.randomUUID never repeats)
  pc,            \* next system call of the process
  ctx,           \* which caller the running inspect() returns to
  attempt,       \* attempt counter of acquire
  observations,  \* attempt counter of inspect
  stat,          \* inode observed by inspect
  seen,          \* owner read by inspect, None when there is no lock
  existing,      \* [ino, owner] that acquire wants to reclaim
  processIdentity, lockIdentity,  \* the fields of the ProcessLock object
  residue        \* an error of #publish reported its own lock as visible residue

dirVars   == <<lockPath, content, temps>>
callVars  == <<ctx, attempt, observations, stat, seen, existing>>
ownVars   == <<processIdentity, lockIdentity>>
vars == <<dirVars, birth, serial, pc, callVars, ownVars, residue>>

NoExisting == [ino |-> None, owner |-> None]

Labels == {"idle", "lstat", "read", "relstat", "decide", "removeUnlink",
           "publish", "link", "validate", "tempUnlink", "cleanup",
           "cleanupUnlink", "held", "releaseUnlink"}
Callers == {"none", "initial", "loop", "remove", "final", "release"}

TypeOK ==
  /\ lockPath \in Inodes \cup {None}
  /\ content \in [Inodes -> Owners \cup {None}]
  /\ temps \subseteq Inodes
  /\ birth \in [Procs -> Nat]
  /\ serial \in Nat
  /\ pc \in [Procs -> Labels]
  /\ ctx \in [Procs -> Callers]
  /\ attempt \in [Procs -> 0 .. MAX_ACQUIRE_ATTEMPTS]
  /\ observations \in [Procs -> 0 .. (MAX_OWNER_OBSERVATION_ATTEMPTS - 1)]
  /\ stat \in [Procs -> Inodes \cup {None}]
  /\ seen \in [Procs -> Owners \cup {None}]
  /\ existing \in [Procs -> [ino : Inodes \cup {None}, owner : Owners \cup {None}]]
  /\ processIdentity \in [Procs -> Owners \cup {None}]
  /\ lockIdentity \in [Procs -> Inodes \cup {None}]
  /\ residue \in [Procs -> BOOLEAN]

Init ==
  /\ lockPath = None
  /\ content = [i \in Inodes |-> None]
  /\ temps = {}
  /\ birth = [p \in Procs |-> 0]
  /\ serial = 0
  /\ pc = [p \in Procs |-> "idle"]
  /\ ctx = [p \in Procs |-> "none"]
  /\ attempt = [p \in Procs |-> 0]
  /\ observations = [p \in Procs |-> 0]
  /\ stat = [p \in Procs |-> None]
  /\ seen = [p \in Procs |-> None]
  /\ existing = [p \in Procs |-> NoExisting]
  /\ processIdentity = [p \in Procs |-> None]
  /\ lockIdentity = [p \in Procs |-> None]
  /\ residue = [p \in Procs |-> FALSE]

-----------------------------------------------------------------------------
(* Process identity: an owner is live while its birth runs. A pid that is  *)
(* gone and a pid that was reused both mean stale; an identity that cannot *)
(* be read means unknown.                                                  *)

Live(o) == birth[o.proc] = o.birth

\* Mutant: an owner that cannot be assessed counts as stale.
assessUnknownAsStale(o) ==
  {IF Live(o) THEN "live" ELSE "stale"} \cup (IF IoFaults THEN {"stale"} ELSE {})

assess(o) ==
  {IF Live(o) THEN "live" ELSE "stale"} \cup (IF IoFaults THEN {"unknown"} ELSE {})

sameFile(left, right) == left = right

-----------------------------------------------------------------------------
(* Control helpers.                                                        *)

Goto(p, label) == pc' = [pc EXCEPT ![p] = label]

\* acquire or release returns or throws: its locals are gone.
Return(p, label) ==
  /\ Goto(p, label)
  /\ ctx' = [ctx EXCEPT ![p] = "none"]
  /\ attempt' = [attempt EXCEPT ![p] = 0]
  /\ observations' = [observations EXCEPT ![p] = 0]
  /\ stat' = [stat EXCEPT ![p] = None]
  /\ seen' = [seen EXCEPT ![p] = None]
  /\ existing' = [existing EXCEPT ![p] = NoExisting]

\* Call inspect() on behalf of a caller.
Inspect(p, caller) ==
  /\ Goto(p, "lstat")
  /\ ctx' = [ctx EXCEPT ![p] = caller]
  /\ observations' = [observations EXCEPT ![p] = 0]
  /\ stat' = [stat EXCEPT ![p] = None]
  /\ seen' = [seen EXCEPT ![p] = None]

\* `continue` in the loop of acquire, and the inspection after the loop.
NextAttempt(p) ==
  /\ attempt' = [attempt EXCEPT ![p] = @ + 1]
  /\ existing' = [existing EXCEPT ![p] = NoExisting]
  /\ Inspect(p, IF attempt[p] + 1 < MAX_ACQUIRE_ATTEMPTS THEN "loop" ELSE "final")

ForgetIdentity(p) ==
  /\ processIdentity' = [processIdentity EXCEPT ![p] = None]
  /\ lockIdentity' = [lockIdentity EXCEPT ![p] = None]

-----------------------------------------------------------------------------
(* inspect(): lstat, open and read, lstat again. The descriptor is opened, *)
(* checked, read and closed in one step: what others do meanwhile is seen  *)
(* by the second lstat.                                                    *)

Lstat(p) ==
  /\ pc[p] = "lstat"
  /\ stat' = [stat EXCEPT ![p] = lockPath]
  /\ Goto(p, IF lockPath = None THEN "decide" ELSE "read")
  /\ UNCHANGED <<dirVars, birth, serial, ctx, attempt, observations, seen, existing, ownVars, residue>>

\* Mutant: one observation too many.
ObservationChangedOneMore(p) ==
  IF observations[p] + 1 <= MAX_OWNER_OBSERVATION_ATTEMPTS
  THEN /\ Goto(p, "lstat")
       /\ observations' = [observations EXCEPT ![p] = @ + 1]
       /\ stat' = [stat EXCEPT ![p] = None]
       /\ seen' = [seen EXCEPT ![p] = None]
       /\ UNCHANGED <<ctx, attempt, existing>>
  ELSE Return(p, IF ctx[p] = "release" THEN "held" ELSE "idle")

\* The owner observation changed: retry, or throw "transition-failed" out of
\* the caller (a failed release leaves the object's fields as they are).
ObservationChanged(p) ==
  IF observations[p] + 1 < MAX_OWNER_OBSERVATION_ATTEMPTS
  THEN /\ Goto(p, "lstat")
       /\ observations' = [observations EXCEPT ![p] = @ + 1]
       /\ stat' = [stat EXCEPT ![p] = None]
       /\ seen' = [seen EXCEPT ![p] = None]
       /\ UNCHANGED <<ctx, attempt, existing>>
  ELSE Return(p, IF ctx[p] = "release" THEN "held" ELSE "idle")

ReadOwner(p) ==
  /\ pc[p] = "read"
  /\ \/ /\ sameFile(lockPath, stat[p])
        /\ seen' = [seen EXCEPT ![p] = content[lockPath]]
        /\ Goto(p, "relstat")
        /\ UNCHANGED <<ctx, attempt, observations, stat, existing>>
     \/ /\ ~sameFile(lockPath, stat[p])
        /\ ObservationChanged(p)
  /\ UNCHANGED <<dirVars, birth, serial, ownVars, residue>>

Relstat(p) ==
  /\ pc[p] = "relstat"
  /\ \/ /\ sameFile(lockPath, stat[p])
        /\ Goto(p, "decide")
        /\ UNCHANGED callVars
     \/ /\ ~sameFile(lockPath, stat[p])
        /\ ObservationChanged(p)
  /\ UNCHANGED <<dirVars, birth, serial, ownVars, residue>>

\* A system call of inspect() fails: its caller throws, a failed release
\* leaves the object's fields as they are.
InspectFails(p) ==
  /\ pc[p] \in {"lstat", "read", "relstat"}
  /\ IoFaults
  /\ Return(p, IF ctx[p] = "release" THEN "held" ELSE "idle")
  /\ UNCHANGED <<dirVars, birth, serial, ownVars, residue>>

-----------------------------------------------------------------------------
(* acquire(): what the process does with the inspection's result.          *)

StartAcquire(p) ==
  /\ pc[p] = "idle"
  /\ Inspect(p, "initial")
  /\ UNCHANGED <<dirVars, birth, serial, attempt, existing, ownVars, residue>>

\* The two ways acquire goes on or throws on an observed owner.
MayReclaim(p) ==
  seen[p] # None /\ p \in Reclaimers /\ "stale" \in assess(seen[p])
MayConflict(p) ==
  seen[p] # None /\ (p \notin Reclaimers \/ \E s \in assess(seen[p]) : s # "stale")

\* The inspection before the loop, then assertAvailable.
DecideInitial(p) ==
  /\ pc[p] = "decide" /\ ctx[p] = "initial"
  /\ \/ /\ seen[p] = None \/ MayReclaim(p)
        /\ Inspect(p, "loop")
        /\ UNCHANGED <<attempt, existing>>
     \/ /\ MayConflict(p)
        /\ Return(p, "idle")
     \/ /\ IoFaults
        /\ Return(p, "idle")
  /\ UNCHANGED <<dirVars, birth, serial, ownVars, residue>>

\* Mutant: the stale lock is unlinked without a second inspection.
DecideLoopAtOnce(p) ==
  /\ pc[p] = "decide" /\ ctx[p] = "loop"
  /\ \/ /\ seen[p] = None
        /\ Goto(p, "publish")
     \/ /\ MayReclaim(p)
        /\ Goto(p, "removeUnlink")
  /\ UNCHANGED callVars
  /\ UNCHANGED <<dirVars, birth, serial, ownVars, residue>>

DecideLoop(p) ==
  /\ pc[p] = "decide" /\ ctx[p] = "loop"
  /\ \/ /\ seen[p] = None
        /\ Goto(p, "publish")
        /\ UNCHANGED callVars
     \/ /\ MayReclaim(p)
        /\ existing' = [existing EXCEPT ![p] = [ino |-> stat[p], owner |-> seen[p]]]
        /\ Inspect(p, "remove")
        /\ UNCHANGED attempt
     \/ /\ MayConflict(p)
        /\ Return(p, "idle")
  /\ UNCHANGED <<dirVars, birth, serial, ownVars, residue>>

DecideFinal(p) ==
  /\ pc[p] = "decide" /\ ctx[p] = "final"
  /\ Return(p, "idle")
  /\ UNCHANGED <<dirVars, birth, serial, ownVars, residue>>

\* #removeStale: the second inspection must still show the same inode and
\* token, and the owner must still be stale.
SameOwner(p) ==
  /\ seen[p] # None
  /\ sameFile(stat[p], existing[p].ino)
  /\ seen[p].token = existing[p].owner.token

\* Mutant: the first inspection is trusted, whoever owns the lock now.
DecideRemoveTrusting(p) ==
  /\ pc[p] = "decide" /\ ctx[p] = "remove"
  /\ seen[p] # None
  /\ Goto(p, "removeUnlink")
  /\ UNCHANGED callVars
  /\ UNCHANGED <<dirVars, birth, serial, ownVars, residue>>

DecideRemove(p) ==
  /\ pc[p] = "decide" /\ ctx[p] = "remove"
  /\ \/ /\ ~SameOwner(p)
        /\ NextAttempt(p)
     \/ /\ SameOwner(p)
        /\ "stale" \in assess(seen[p])
        /\ Goto(p, "removeUnlink")
        /\ UNCHANGED callVars
     \/ /\ SameOwner(p)
        /\ \E s \in assess(seen[p]) : s # "stale"
        /\ Return(p, "idle")
  /\ UNCHANGED <<dirVars, birth, serial, ownVars, residue>>

\* unlink of the path, whatever it names by now; then the directory fsync.
RemoveStale(p) ==
  /\ pc[p] = "removeUnlink"
  /\ \/ /\ lockPath # None
        /\ lockPath' = None
        /\ \/ Goto(p, "publish") /\ UNCHANGED callVars
           \/ IoFaults /\ Return(p, "idle")
     \/ /\ lockPath = None \/ IoFaults
        /\ UNCHANGED lockPath
        /\ Return(p, "idle")
  /\ UNCHANGED <<content, temps, birth, serial, ownVars, residue>>

-----------------------------------------------------------------------------
(* #publish().                                                             *)

FreeInodes == Inodes \ (temps \cup {lockPath})

\* Draw a token, write and sync the temporary file, remember its inode.
Publish(p) ==
  /\ pc[p] = "publish"
  /\ serial < MaxPublish
  /\ serial' = serial + 1
  /\ \E i \in FreeInodes :
       LET owner == [proc |-> p, birth |-> birth[p], token |-> serial + 1] IN
       /\ content' = [content EXCEPT ![i] = owner]
       /\ temps' = temps \cup {i}
       /\ processIdentity' = [processIdentity EXCEPT ![p] = owner]
       /\ lockIdentity' = [lockIdentity EXCEPT ![p] = i]
  /\ Goto(p, "link")
  /\ UNCHANGED <<lockPath, birth, callVars, residue>>

\* A step before the link fails; the temporary file may be left behind.
PublishFails(p) ==
  /\ pc[p] = "publish"
  /\ IoFaults
  /\ temps' = temps \/ \E i \in FreeInodes : temps' = temps \cup {i}
  /\ Return(p, "idle")
  /\ ForgetIdentity(p)
  /\ UNCHANGED <<lockPath, content, birth, serial, residue>>

\* Mutant: publishing with rename, which replaces an existing lock.
LinkReplacing(p) ==
  /\ pc[p] = "link"
  /\ lockPath' = lockIdentity[p]
  /\ Goto(p, "validate")
  /\ UNCHANGED <<content, temps, birth, serial, callVars, ownVars, residue>>

\* linkSync succeeds only where no lock is.
Link(p) ==
  /\ pc[p] = "link"
  /\ lockPath = None
  /\ lockPath' = lockIdentity[p]
  /\ Goto(p, "validate")
  /\ UNCHANGED <<content, temps, birth, serial, callVars, ownVars, residue>>

\* EEXIST: the temporary file is removed and acquire tries again.
LinkExists(p) ==
  /\ pc[p] = "link"
  /\ lockPath # None
  /\ temps' = temps \ {lockIdentity[p]}
  /\ ForgetIdentity(p)
  /\ NextAttempt(p)
  /\ UNCHANGED <<lockPath, content, birth, serial, residue>>

\* Another error of the link, or of the removal of the temporary file.
LinkFails(p) ==
  /\ pc[p] = "link"
  /\ IoFaults
  /\ temps' \in {temps, temps \ {lockIdentity[p]}}
  /\ Return(p, "idle")
  /\ ForgetIdentity(p)
  /\ UNCHANGED <<lockPath, content, birth, serial, residue>>

\* lstat of the published name.
Validate(p) ==
  /\ pc[p] = "validate"
  /\ \/ /\ sameFile(lockPath, lockIdentity[p])
        /\ Goto(p, "tempUnlink")
        /\ UNCHANGED temps
     \/ /\ ~sameFile(lockPath, lockIdentity[p]) \/ IoFaults
        /\ Goto(p, "cleanup")
        /\ \/ temps' = temps \ {lockIdentity[p]}
           \/ IoFaults /\ temps' = temps
  /\ UNCHANGED <<lockPath, content, birth, serial, callVars, ownVars, residue>>

\* Remove the temporary name, fsync the directory: acquire has the lock.
FinishPublish(p) ==
  /\ pc[p] = "tempUnlink"
  /\ temps' = temps \ {lockIdentity[p]}
  /\ Return(p, "held")
  /\ UNCHANGED <<lockPath, content, birth, serial, ownVars, residue>>

\* That unlink or fsync fails after the lock became visible.
FinishPublishFails(p) ==
  /\ pc[p] = "tempUnlink"
  /\ IoFaults
  /\ temps' \in {temps, temps \ {lockIdentity[p]}}
  /\ Goto(p, "cleanup")
  /\ UNCHANGED <<lockPath, content, birth, serial, callVars, ownVars, residue>>

\* The error path of #publish: lstat, and unlink only one's own inode.
Cleanup(p) ==
  /\ pc[p] = "cleanup"
  /\ \/ /\ sameFile(lockPath, lockIdentity[p])
        /\ Goto(p, "cleanupUnlink")
        /\ UNCHANGED <<callVars, ownVars, residue>>
     \/ /\ ~sameFile(lockPath, lockIdentity[p]) \/ IoFaults
        /\ residue' = [residue EXCEPT ![p] = lockPath # None]
        /\ ForgetIdentity(p)
        /\ Return(p, "idle")
  /\ UNCHANGED <<dirVars, birth, serial>>

\* Mutant: a failed removal of the published lock is not reported.
CleanupUnlinkSilent(p) ==
  /\ pc[p] = "cleanupUnlink"
  /\ lockPath' = None \/ (IoFaults /\ lockPath' = lockPath)
  /\ ForgetIdentity(p)
  /\ Return(p, "idle")
  /\ UNCHANGED <<content, temps, birth, serial, residue>>

CleanupUnlink(p) ==
  /\ pc[p] = "cleanupUnlink"
  /\ lockPath' = None \/ (IoFaults /\ lockPath' = lockPath)
  /\ residue' = [residue EXCEPT ![p] = lockPath' # None]
  /\ ForgetIdentity(p)
  /\ Return(p, "idle")
  /\ UNCHANGED <<content, temps, birth, serial>>

-----------------------------------------------------------------------------
(* release().                                                              *)

StartRelease(p) ==
  /\ pc[p] = "held"
  /\ Inspect(p, "release")
  /\ UNCHANGED <<dirVars, birth, serial, attempt, existing, ownVars, residue>>

\* Inode and token must be the object's own, else "ownership-changed".
OwnsVisibleLock(p) ==
  /\ seen[p] # None
  /\ sameFile(stat[p], lockIdentity[p])
  /\ seen[p].token = processIdentity[p].token

DecideRelease(p) ==
  /\ pc[p] = "decide" /\ ctx[p] = "release"
  /\ \/ /\ OwnsVisibleLock(p)
        /\ Goto(p, "releaseUnlink")
        /\ UNCHANGED callVars
     \/ /\ ~OwnsVisibleLock(p)
        /\ Return(p, "held")
  /\ UNCHANGED <<dirVars, birth, serial, ownVars, residue>>

ReleaseUnlink(p) ==
  /\ pc[p] = "releaseUnlink"
  /\ \/ /\ lockPath # None
        /\ lockPath' = None
        /\ ForgetIdentity(p)
        /\ Return(p, "idle")
     \/ /\ lockPath = None \/ IoFaults
        /\ UNCHANGED <<lockPath, ownVars>>
        /\ Return(p, "held")
  /\ UNCHANGED <<content, temps, birth, serial, residue>>

-----------------------------------------------------------------------------
\* The process dies: its memory is gone, its files stay.
Crash(p) ==
  /\ birth[p] < MaxBirth
  /\ birth' = [birth EXCEPT ![p] = @ + 1]
  /\ residue' = [residue EXCEPT ![p] = FALSE]
  /\ ForgetIdentity(p)
  /\ Return(p, "idle")
  /\ UNCHANGED <<dirVars, serial>>

Step(p) ==
  \/ Lstat(p) \/ ReadOwner(p) \/ Relstat(p) \/ InspectFails(p)
  \/ DecideInitial(p) \/ DecideLoop(p) \/ DecideRemove(p) \/ DecideFinal(p)
  \/ RemoveStale(p)
  \/ Publish(p) \/ PublishFails(p)
  \/ Link(p) \/ LinkExists(p) \/ LinkFails(p)
  \/ Validate(p) \/ FinishPublish(p) \/ FinishPublishFails(p)
  \/ Cleanup(p) \/ CleanupUnlink(p)
  \/ DecideRelease(p) \/ ReleaseUnlink(p)

Next == \E p \in Procs : StartAcquire(p) \/ StartRelease(p) \/ Step(p) \/ Crash(p)

Spec == Init /\ [][Next]_vars

-----------------------------------------------------------------------------
(* Properties.                                                             *)

\* acquire has returned and release has not removed the lock yet.
Holds(p) == pc[p] \in {"held", "releaseUnlink"} \/ ctx[p] = "release"

\* Two processes never hold the lock at once: linkSync in #publish is the only
\* way in, and every unlink of the path removes one's own or a dead record.
MutualExclusion == \A p, q \in Procs : Holds(p) /\ Holds(q) => p = q

\* While a process holds the lock, lockPath names the very file it published:
\* the inode and the token release() is going to compare.
HolderRecordIntact ==
  \A p \in Procs : Holds(p) =>
    /\ lockPath = lockIdentity[p]
    /\ lockPath # None
    /\ content[lockPath] = processIdentity[p]

\* When #removeStale reaches its unlink, the path names no live owner: the lock
\* of a process that runs is never the one unlinked as stale.
ReclaimsOnlyStale ==
  \A p \in Procs :
    pc[p] = "removeUnlink" /\ lockPath # None => ~Live(content[lockPath])

\* A lock of a running process that the process itself no longer knows of
\* (its fields were cleared) was reported to the caller as visible residue.
ForgottenLockReported ==
  \A p \in Procs :
    /\ lockPath # None
    /\ content[lockPath].proc = p
    /\ Live(content[lockPath])
    /\ processIdentity[p] = None
    => residue[p]

-----------------------------------------------------------------------------
(* The file protocol implements the abstract lock: the owner it names is   *)
(* the record in the file that lockPath names.                             *)
holder == IF lockPath = None THEN None ELSE content[lockPath]

Abstract == INSTANCE LockService

\* Seen through lockPath, every step is a step of LockService: only the live
\* owner frees its lock, everybody else only takes away a dead owner's.
ImplementsLockService == Abstract!LockSpec
=============================================================================
