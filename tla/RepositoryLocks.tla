--------------------------- MODULE RepositoryLocks ---------------------------
(***************************************************************************)
(* The two repository-wide locks of src/lib/repository-maintenance-lock.js *)
(*                                                                         *)
(* Repository maintenance and flow operations exclude each other with two  *)
(* process-owned locks: each side takes its own lock first and then looks  *)
(* at the other's, so that of two that start together at least one backs   *)
(* off. Code called by a maintenance owner may run a flow operation with   *)
(* the owner's token; code called by a flow operation may run a nested one *)
(* with that operation's token, borrowing its lock.                        *)
(*                                                                         *)
(* Each lock is an instance of LockService, what ProcessLock promises.     *)
(***************************************************************************)
EXTENDS Naturals

CONSTANTS
  Procs,     \* process slots
  None,      \* null
  Faults,    \* whether an inspection, an acquire or a release may fail
  MaxToken,  \* bound: owner tokens ever drawn
  MaxBirth   \* bound: births per slot

Owners == [proc : Procs, birth : Nat, token : Nat]

ASSUME RepositoryAssumption ==
  /\ None \notin Owners
  /\ None \notin Nat
  /\ Faults \in BOOLEAN
  /\ MaxToken \in Nat
  /\ MaxBirth \in Nat

VARIABLES
  maintenance,    \* owner named by .repository-maintenance.lock, or None
  flowOperation,  \* owner named by .repository-flow-operation.lock, or None
  birth,          \* which birth of the slot is running
  serial,         \* tokens drawn so far
  mpc,            \* where the slot's RepositoryMaintenanceLock is
  fpc,            \* where the slot's RepositoryFlowOperationLock is
  mToken,         \* identity of the maintenance lock object
  fToken,         \* identity of the flow-operation lock object
  grant,          \* maintenanceOwnerToken given to the flow-operation lock
  nested,         \* acquiredOwnerToken of a nested, borrowing lock object
  residue         \* locks that failed acquisitions reported as left behind

lockState == <<maintenance, flowOperation, birth, serial>>
mVars == <<mpc, mToken>>
fVars == <<fpc, fToken, grant, nested>>
vars == <<lockState, mVars, fVars, residue>>

Maintenance == INSTANCE LockService WITH holder <- maintenance
FlowOperation == INSTANCE LockService WITH holder <- flowOperation

Tokens == Nat \cup {None}
MLabels == {"idle", "acquire", "check", "held", "backoff"}
FLabels == {"idle", "before", "acquire", "after", "held", "backoff",
            "nestedBefore", "nestedInspect", "nested"}

\* "...Lock": acquire's own release failed, its object can still release.
\* "...Visible": the core acquire failed after publishing, its object cannot.
Residues == {"maintenanceLock", "maintenanceVisible",
             "flowOperationLock", "flowOperationVisible"}

TypeOK ==
  /\ maintenance \in Owners \cup {None}
  /\ flowOperation \in Owners \cup {None}
  /\ birth \in [Procs -> Nat]
  /\ serial \in Nat
  /\ mpc \in [Procs -> MLabels]
  /\ fpc \in [Procs -> FLabels]
  /\ mToken \in [Procs -> Tokens]
  /\ fToken \in [Procs -> Tokens]
  /\ grant \in [Procs -> Tokens]
  /\ nested \in [Procs -> Tokens]
  /\ residue \in [Procs -> SUBSET Residues]

Init ==
  /\ maintenance = None
  /\ flowOperation = None
  /\ birth = [p \in Procs |-> 0]
  /\ serial = 0
  /\ mpc = [p \in Procs |-> "idle"]
  /\ fpc = [p \in Procs |-> "idle"]
  /\ mToken = [p \in Procs |-> None]
  /\ fToken = [p \in Procs |-> None]
  /\ grant = [p \in Procs |-> None]
  /\ nested = [p \in Procs |-> None]
  /\ residue = [p \in Procs |-> {}]

-----------------------------------------------------------------------------
Live(o) == birth[o.proc] = o.birth

NewOwner(p) == [proc |-> p, birth |-> birth[p], token |-> serial + 1]

MGoto(p, label) == mpc' = [mpc EXCEPT ![p] = label]
FGoto(p, label) == fpc' = [fpc EXCEPT ![p] = label]

\* inspectForeign(lock, allowedOwnerToken) can find no conflict: the lock is
\* free, or names the live owner of the allowed token.
Permits(owner, allowed) ==
  \/ owner = None
  \/ owner # None /\ allowed # None /\ owner.token = allowed /\ Live(owner)

\* It can report a conflict: a foreign owner, dead or alive, or the allowed
\* owner when it is not live. It can throw: the lock cannot be read, or the
\* allowed owner cannot be assessed. Its callers treat both alike.
Refuses(owner, allowed) ==
  \/ owner # None /\ (allowed = None \/ owner.token # allowed \/ ~Live(owner))
  \/ Faults

-----------------------------------------------------------------------------
(* RepositoryMaintenanceLock.                                              *)

\* acquire() is called outside any flow operation of the process.
StartMaintenance(p) ==
  /\ mpc[p] = "idle" /\ fpc[p] = "idle"
  /\ MGoto(p, "acquire")
  /\ UNCHANGED <<lockState, mToken, fVars, residue>>

\* The core lock: clear a dead owner, take a free lock, or give up.
MaintenanceReclaim(p) ==
  /\ mpc[p] = "acquire"
  /\ Maintenance!Reclaim
  /\ UNCHANGED <<flowOperation, serial, mVars, fVars, residue>>

MaintenanceTake(p) ==
  /\ mpc[p] = "acquire"
  /\ serial < MaxToken
  /\ Maintenance!TakeAs(NewOwner(p))
  /\ serial' = serial + 1
  /\ mToken' = [mToken EXCEPT ![p] = serial + 1]
  /\ MGoto(p, "check")
  /\ UNCHANGED <<flowOperation, fVars, residue>>

\* The core acquire publishes the lock, fails, and cannot remove it again.
MaintenanceTakeFails(p) ==
  /\ mpc[p] = "acquire"
  /\ Faults
  /\ serial < MaxToken
  /\ Maintenance!TakeAs(NewOwner(p))
  /\ serial' = serial + 1
  /\ residue' = [residue EXCEPT ![p] = @ \cup {"maintenanceVisible"}]
  /\ MGoto(p, "idle")
  /\ UNCHANGED <<flowOperation, mToken, fVars>>

MaintenanceBusy(p) ==
  /\ mpc[p] = "acquire"
  /\ (maintenance # None /\ Live(maintenance)) \/ Faults
  /\ MGoto(p, "idle")
  /\ UNCHANGED <<lockState, mToken, fVars, residue>>

\* Any flow-operation owner, dead or alive, makes maintenance back off.
MaintenanceCheck(p) ==
  /\ mpc[p] = "check"
  /\ \/ Permits(flowOperation, None) /\ MGoto(p, "held")
     \/ Refuses(flowOperation, None) /\ MGoto(p, "backoff")
  /\ UNCHANGED <<lockState, mToken, fVars, residue>>

\* release() of the core lock, after a conflict or by the caller, thrown
\* errors after its unlink included. A release that fails before the unlink
\* keeps the lock; after a conflict that is reported as residue.
MaintenanceRelease(p) ==
  /\ \/ mpc[p] = "backoff"
     \/ mpc[p] = "held" /\ fpc[p] = "idle"
  /\ Maintenance!Drop(p)
  /\ mToken' = [mToken EXCEPT ![p] = None]
  /\ MGoto(p, "idle")
  /\ UNCHANGED <<flowOperation, serial, fVars, residue>>

\* Mutant: the residue is reported under a key of no lock.
MaintenanceBackoffFailsMislabelled(p) ==
  /\ mpc[p] = "backoff"
  /\ Faults
  /\ residue' = [residue EXCEPT ![p] = @ \cup {"lock"}]
  /\ mToken' = [mToken EXCEPT ![p] = None]
  /\ MGoto(p, "idle")
  /\ UNCHANGED <<lockState, fVars>>

MaintenanceBackoffFails(p) ==
  /\ mpc[p] = "backoff"
  /\ Faults
  /\ residue' = [residue EXCEPT ![p] = @ \cup {"maintenanceLock"}]
  /\ mToken' = [mToken EXCEPT ![p] = None]
  /\ MGoto(p, "idle")
  /\ UNCHANGED <<lockState, fVars>>

\* The caller calls release() again on the object whose release failed.
MaintenanceReleaseAgain(p) ==
  /\ "maintenanceLock" \in residue[p]
  /\ Maintenance!Drop(p)
  /\ residue' = [residue EXCEPT ![p] = @ \ {"maintenanceLock"}]
  /\ UNCHANGED <<flowOperation, serial, mVars, fVars>>

-----------------------------------------------------------------------------
(* RepositoryFlowOperationLock.                                            *)

\* The process was given no maintenance token, or that of the maintenance
\* owner on whose behalf it runs (itself, or the process that called it).
Grantable ==
  {None} \cup {mToken[m] : m \in {n \in Procs : mpc[n] = "held"}}

StartFlow(p) ==
  /\ fpc[p] = "idle" /\ mpc[p] \in {"idle", "held"}
  /\ \E t \in Grantable : grant' = [grant EXCEPT ![p] = t]
  /\ FGoto(p, "before")
  /\ UNCHANGED <<lockState, mVars, fToken, nested, residue>>

\* acquire throws: nothing of it remains.
FlowThrows(p) ==
  /\ FGoto(p, "idle")
  /\ grant' = [grant EXCEPT ![p] = None]

\* First look at the maintenance lock.
FlowBefore(p) ==
  /\ fpc[p] = "before"
  /\ \/ Permits(maintenance, grant[p]) /\ FGoto(p, "acquire") /\ UNCHANGED grant
     \/ Refuses(maintenance, grant[p]) /\ FlowThrows(p)
  /\ UNCHANGED <<lockState, mVars, fToken, nested, residue>>

FlowReclaim(p) ==
  /\ fpc[p] = "acquire"
  /\ FlowOperation!Reclaim
  /\ UNCHANGED <<maintenance, serial, mVars, fVars, residue>>

FlowTake(p) ==
  /\ fpc[p] = "acquire"
  /\ serial < MaxToken
  /\ FlowOperation!TakeAs(NewOwner(p))
  /\ serial' = serial + 1
  /\ fToken' = [fToken EXCEPT ![p] = serial + 1]
  /\ FGoto(p, "after")
  /\ UNCHANGED <<maintenance, mVars, grant, nested, residue>>

FlowTakeFails(p) ==
  /\ fpc[p] = "acquire"
  /\ Faults
  /\ serial < MaxToken
  /\ FlowOperation!TakeAs(NewOwner(p))
  /\ serial' = serial + 1
  /\ residue' = [residue EXCEPT ![p] = @ \cup {"flowOperationVisible"}]
  /\ FlowThrows(p)
  /\ UNCHANGED <<maintenance, mVars, fToken, nested>>

FlowBusy(p) ==
  /\ fpc[p] = "acquire"
  /\ (flowOperation # None /\ Live(flowOperation)) \/ Faults
  /\ FlowThrows(p)
  /\ UNCHANGED <<lockState, mVars, fToken, nested, residue>>

\* Mutant: no second look at the maintenance lock.
FlowAfterUnchecked(p) ==
  /\ fpc[p] = "after"
  /\ FGoto(p, "held")
  /\ UNCHANGED <<lockState, mVars, fToken, grant, nested, residue>>

\* Second look at the maintenance lock, now that the own lock is visible.
FlowAfter(p) ==
  /\ fpc[p] = "after"
  /\ \/ Permits(maintenance, grant[p]) /\ FGoto(p, "held")
     \/ Refuses(maintenance, grant[p]) /\ FGoto(p, "backoff")
  /\ UNCHANGED <<lockState, mVars, fToken, grant, nested, residue>>

FlowRelease(p) ==
  /\ fpc[p] \in {"held", "backoff"}
  /\ FlowOperation!Drop(p)
  /\ fToken' = [fToken EXCEPT ![p] = None]
  /\ FlowThrows(p)
  /\ UNCHANGED <<maintenance, serial, mVars, nested, residue>>

\* Mutant: the failed release after a conflict goes unreported.
FlowBackoffFailsSilently(p) ==
  /\ fpc[p] = "backoff"
  /\ Faults
  /\ fToken' = [fToken EXCEPT ![p] = None]
  /\ FlowThrows(p)
  /\ UNCHANGED <<lockState, mVars, nested, residue>>

FlowBackoffFails(p) ==
  /\ fpc[p] = "backoff"
  /\ Faults
  /\ residue' = [residue EXCEPT ![p] = @ \cup {"flowOperationLock"}]
  /\ fToken' = [fToken EXCEPT ![p] = None]
  /\ FlowThrows(p)
  /\ UNCHANGED <<lockState, mVars, nested>>

FlowReleaseAgain(p) ==
  /\ "flowOperationLock" \in residue[p]
  /\ FlowOperation!Drop(p)
  /\ residue' = [residue EXCEPT ![p] = @ \ {"flowOperationLock"}]
  /\ UNCHANGED <<maintenance, serial, mVars, fVars>>

-----------------------------------------------------------------------------
(* A nested operation of the same process: a second lock object with       *)
(* operationOwnerToken = the outer token and no maintenance token.         *)

StartNested(p) ==
  /\ fpc[p] = "held"
  /\ FGoto(p, "nestedBefore")
  /\ UNCHANGED <<lockState, mVars, fToken, grant, nested, residue>>

NestedBefore(p) ==
  /\ fpc[p] = "nestedBefore"
  /\ \/ Permits(maintenance, None) /\ FGoto(p, "nestedInspect")
     \/ Refuses(maintenance, None) /\ FGoto(p, "held")
  /\ UNCHANGED <<lockState, mVars, fToken, grant, nested, residue>>

\* Borrow the lock if its live owner has the given token, else throw.
NestedInspect(p) ==
  /\ fpc[p] = "nestedInspect"
  /\ \/ /\ flowOperation # None /\ flowOperation.token = fToken[p] /\ Live(flowOperation)
        /\ nested' = [nested EXCEPT ![p] = fToken[p]]
        /\ FGoto(p, "nested")
     \/ /\ flowOperation = None \/ flowOperation.token # fToken[p] \/ ~Live(flowOperation) \/ Faults
        /\ FGoto(p, "held")
        /\ UNCHANGED nested
  /\ UNCHANGED <<lockState, mVars, fToken, grant, residue>>

\* Mutant: the borrowing object releases the canonical lock.
NestedReleaseCanonical(p) ==
  /\ fpc[p] = "nested"
  /\ FlowOperation!Drop(p)
  /\ nested' = [nested EXCEPT ![p] = None]
  /\ FGoto(p, "held")
  /\ UNCHANGED <<maintenance, serial, mVars, fToken, grant, residue>>

\* release() of a borrowing object only forgets the token.
NestedRelease(p) ==
  /\ fpc[p] = "nested"
  /\ nested' = [nested EXCEPT ![p] = None]
  /\ FGoto(p, "held")
  /\ UNCHANGED <<lockState, mVars, fToken, grant, residue>>

-----------------------------------------------------------------------------
\* The process dies: its locks stay and are stale from now on.
Crash(p) ==
  /\ birth[p] < MaxBirth
  /\ Maintenance!Die(p)
  /\ MGoto(p, "idle") /\ FGoto(p, "idle")
  /\ mToken' = [mToken EXCEPT ![p] = None]
  /\ fToken' = [fToken EXCEPT ![p] = None]
  /\ grant' = [grant EXCEPT ![p] = None]
  /\ nested' = [nested EXCEPT ![p] = None]
  /\ residue' = [residue EXCEPT ![p] = {}]
  /\ UNCHANGED <<flowOperation, serial>>

Next ==
  \E p \in Procs :
    \/ StartMaintenance(p) \/ MaintenanceReclaim(p) \/ MaintenanceTake(p)
    \/ MaintenanceTakeFails(p) \/ MaintenanceBusy(p) \/ MaintenanceCheck(p) \/ MaintenanceRelease(p)
    \/ MaintenanceBackoffFails(p) \/ MaintenanceReleaseAgain(p)
    \/ StartFlow(p) \/ FlowBefore(p) \/ FlowReclaim(p) \/ FlowTake(p)
    \/ FlowTakeFails(p) \/ FlowBusy(p) \/ FlowAfter(p) \/ FlowRelease(p) \/ FlowBackoffFails(p)
    \/ FlowReleaseAgain(p)
    \/ StartNested(p) \/ NestedBefore(p) \/ NestedInspect(p) \/ NestedRelease(p)
    \/ Crash(p)

Spec == Init /\ [][Next]_vars

-----------------------------------------------------------------------------
(* Properties.                                                             *)

InMaintenance(p) == mpc[p] = "held"
InFlowOperation(p) == fpc[p] \in {"held", "nestedBefore", "nestedInspect", "nested"}

\* Once both acquires have returned, repository maintenance and a flow
\* operation run at the same time only if the operation was given the token of
\* that very maintenance, however the two double checks interleave.
MaintenanceExcludesFlow ==
  \A p, q \in Procs :
    InMaintenance(p) /\ InFlowOperation(q) => grant[q] = mToken[p]

\* assertOwned() of a flow operation succeeds until the operation itself
\* releases: nothing, nested operations included, takes its lock away.
FlowOperationOwned ==
  \A p \in Procs : InFlowOperation(p) =>
    /\ flowOperation # None
    /\ flowOperation.token = fToken[p]
    /\ Live(flowOperation)

\* A running process that is in neither operation leaves no lock behind,
\* unless the failed acquisition reported which one (error.residue).
NoSilentResidue ==
  \A p \in Procs :
    /\ maintenance # None /\ maintenance.proc = p /\ Live(maintenance)
       /\ mpc[p] \in {"idle", "acquire"}
         => "maintenanceLock" \in residue[p] \/ "maintenanceVisible" \in residue[p]
    /\ flowOperation # None /\ flowOperation.proc = p /\ Live(flowOperation)
       /\ fpc[p] \in {"idle", "before", "acquire"}
         => "flowOperationLock" \in residue[p] \/ "flowOperationVisible" \in residue[p]
=============================================================================
