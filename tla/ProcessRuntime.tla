--------------------------- MODULE ProcessRuntime ---------------------------
(***************************************************************************)
(* ProcessExecutionRuntime of src/lib/process-execution-runtime.js, and    *)
(* executeManagedProcess of src/lib/managed-process.js, which runs one     *)
(* physical call under it.                                                 *)
(*                                                                         *)
(* A checkout has one owner lock and one registry of executions. A command *)
(* that owns the lock opens an execution (an owner epoch), whose calls are *)
(* registered before anything is started: intent, launcher registered,     *)
(* start permitted, stopped with a receipt. It closes the execution by     *)
(* stopping every call that has no receipt. When the command dies, the     *)
(* next owner of the lock does that for it. The provider of a call may be  *)
(* a sennel command itself, which borrows the execution and registers      *)
(* nested calls, with launchers and groups of their own.                   *)
(*                                                                         *)
(* A body under the admission lock is one step; recovery evidence is held  *)
(* for a while. save() marks the registry before it writes it: after an    *)
(* interrupted save the mark stays, and nobody reads the registry again.   *)
(*                                                                         *)
(* Bindings, outcomes and the archive of closed executions are left out:   *)
(* all they do here is to refuse more. The owner lock is an instance of    *)
(* LockService.                                                            *)
(***************************************************************************)
EXTENDS ManagedLauncher, Sequences, FiniteSetsExt

CONSTANTS
  Procs,     \* process slots of commands that own a checkout
  None,      \* null
  Lineage,   \* bound: Lineage[c] is the call whose process makes call c, None for the owner
  MaxEpoch,  \* bound: executions; the last one makes no calls
  MaxBirth   \* bound: births per slot

ASSUME RuntimeAssumption ==
  /\ Calls \subseteq Nat
  /\ None \notin Calls
  /\ Lineage \in [Calls -> Calls \cup {None}]
  /\ \A c \in Calls : Lineage[c] # None => Lineage[c] < c
  /\ Forking \subseteq Calls
  /\ None \notin [proc : Procs, birth : Nat, token : Nat]
  /\ Scenarios \subseteq SUBSET Events
  /\ MaxEpoch \in Nat
  /\ MaxBirth \in Nat

VARIABLES
  holder,      \* owner.lock: the owner it names, or None
  birth,       \* which birth of the slot is running
  owners,      \* owners[e]: coordinatorIdentity of execution e; the last one is the newest
  slot,        \* the newest execution is unfinished
  accepting,   \* it accepts calls and start permits
  execution,   \* execution[c]: the execution of a reserved call, 0 before
  status,      \* the status of the call in the registry, "none" before
  borrowed,    \* the call's descendant has borrowed the execution and is among its members
  failure,     \* the registry has a controlFailure for the call
  transition,  \* transition.json is there
  pc,          \* where a command is in acquire, close or withRecoveryEvidence
  task         \* where executeManagedProcess is for the call

lockVars == <<holder, birth>>
rootVars == <<owners, slot, accepting>>
callVars == <<execution, status, borrowed, failure>>
runtimeVars == <<lockVars, rootVars, callVars, transition, scenario, pc, task>>
storeVars == <<transition, scenario>>
vars == <<launcherVars, lockVars, rootVars, callVars, storeVars, pc, task>>

OwnerLock == INSTANCE LockService

Owners == [proc : Procs, birth : Nat, token : Nat]
Unfinished == {"reserved", "launched", "permitted", "waiting"}
StopLabels == {"stopping", "awaiting"}

TypeOK ==
  /\ LauncherTypeOK
  /\ holder \in Owners \cup {None}
  /\ birth \in [Procs -> Nat]
  /\ owners \in Seq(Owners)
  /\ slot \in BOOLEAN
  /\ accepting \in BOOLEAN
  /\ execution \in [Calls -> 0 .. Len(owners)]
  /\ status \in [Calls -> {"none", "intent", "registered", "running", "stopped"}]
  /\ borrowed \in [Calls -> BOOLEAN]
  /\ failure \in [Calls -> BOOLEAN]
  /\ transition \in BOOLEAN
  /\ pc \in [Procs -> {"idle", "acquired", "open", "evidence", "closed", "failed"} \cup StopLabels]
  /\ task \in [Calls -> Unfinished \cup {"none", "ok", "error", "reported"}]

Init ==
  /\ LauncherInit
  /\ OwnerLock!LockInit
  /\ owners = << >>
  /\ slot = FALSE
  /\ accepting = FALSE
  /\ execution = [c \in Calls |-> 0]
  /\ status = [c \in Calls |-> "none"]
  /\ borrowed = [c \in Calls |-> FALSE]
  /\ failure = [c \in Calls |-> FALSE]
  /\ transition = FALSE
  /\ pc = [p \in Procs |-> "idle"]
  /\ task = [c \in Calls |-> "none"]

-----------------------------------------------------------------------------
Epoch == Len(owners)
Live(o) == birth[o.proc] = o.birth
Self(p) == [proc |-> p, birth |-> birth[p], token |-> 0]
Mine(p) == slot /\ owners[Epoch] = Self(p)
Goto(p, label) == pc' = [pc EXCEPT ![p] = label]

Reserved(c) == execution[c] # 0
Current(c) == slot /\ execution[c] = Epoch
Children(c) == {d \in Calls : Reserved(d) /\ Lineage[d] = c}

\* Calls of the open execution without a receipt, in the order of the registry.
Unreceipted == {c \in Calls : Current(c) /\ status[c] # "stopped"}
NextCall == Min(Unreceipted)

\* The births that the registry and the launcher's record know, the launcher apart.
Members(c) == seen[c] \/ borrowed[c]

\* Who runs executeManagedProcess: the command that owns the execution, or the
\* nested command among the parent's processes.
TaskAlive(c) ==
  IF Lineage[c] = None THEN Live(owners[execution[c]])
  ELSE descendant[Lineage[c]] \in Alive

\* The admission lock is free; the registry is readable.
AdmissionFree == \A p \in Procs : pc[p] # "evidence"
Enter == AdmissionFree /\ ~transition

\* #authenticateDelegation: a live owner, a running parent call, its launcher alive
\* and the nested command in its group.
Delegated(c) ==
  /\ Live(owners[Epoch])
  /\ status[c] = "running"
  /\ LauncherAlive(c)
  /\ descendant[c] = "grouped"

\* #assertAccepting of the runtime that runs the call.
Accepting(c) ==
  /\ Current(c) /\ accepting
  /\ Lineage[c] # None => Delegated(Lineage[c])

-----------------------------------------------------------------------------
(* Commands that own the checkout.                                         *)

\* The lock of a dead owner is reclaimed and taken; somebody else may come between.
ReclaimOwner(p) ==
  /\ pc[p] = "idle"
  /\ OwnerLock!Reclaim
  /\ UNCHANGED <<launcherVars, rootVars, callVars, storeVars, pc, task>>

AcquireOwner(p) ==
  /\ pc[p] = "idle"
  /\ OwnerLock!TakeAs(Self(p))
  /\ Goto(p, "acquired")
  /\ UNCHANGED <<launcherVars, rootVars, callVars, storeVars, task>>

\* The end of acquire(): no execution is unfinished, and a new one is opened.
Open(p) ==
  /\ pc[p] = "acquired" /\ Enter /\ ~slot
  /\ Epoch < MaxEpoch
  /\ owners' = Append(owners, Self(p))
  /\ slot' = TRUE /\ accepting' = TRUE
  /\ Goto(p, "open")
  /\ UNCHANGED <<launcherVars, lockVars, callVars, storeVars, task>>

\* acquire() or withRecoveryEvidence refuses: another binding, an unknown identity,
\* an unreadable registry.
GiveUp(p) ==
  /\ pc[p] = "acquired"
  /\ OwnerLock!Drop(p)
  /\ Goto(p, "idle")
  /\ UNCHANGED <<launcherVars, rootVars, callVars, storeVars, task>>

\* #stopRoot, of the own execution for close() and sealForCheckoutHandoff(), or of
\* the execution a dead command has left: it accepts nothing any more.
StopRoot(p) ==
  /\ \/ pc[p] = "open" /\ Mine(p)
     \/ pc[p] = "acquired" /\ slot /\ ~Live(owners[Epoch])
  /\ Enter
  /\ accepting' = FALSE
  /\ Goto(p, "stopping")
  /\ UNCHANGED <<launcherVars, lockVars, owners, slot, callVars, storeVars, task>>

\* An intent is stopped only through the launcher that its greeting names, which
\* must be alive unless this is a recovery.
CanRegister(p, c) == rec[c] # "none" /\ (Mine(p) => LauncherAlive(c))

\* Mutant: an intent without a greeting counts as never started.
StopUngreeted(p) ==
  /\ pc[p] = "stopping" /\ Enter /\ Unreceipted # {}
  /\ LET c == NextCall IN
       /\ Claim(c)
       /\ IF rec[c] = "none"
            THEN status' = Set(status, c, "stopped") /\ UNCHANGED pc
            ELSE /\ status' = Set(status, c, IF status[c] = "intent" THEN "registered" ELSE status[c])
                 /\ Goto(p, "awaiting")
  /\ UNCHANGED <<launcher, rec, controlFailure, provider, descendant, seen, startRequest,
                 lockVars, rootVars, execution, borrowed, failure, storeVars, task>>

\* The first part for each call: the stop decision is claimed, a launcher that has
\* greeted is registered.
StopCall(p) ==
  /\ pc[p] = "stopping" /\ Enter /\ Unreceipted # {}
  /\ LET c == NextCall IN
       /\ status[c] = "intent" => CanRegister(p, c)
       /\ Claim(c)
       /\ status' = Set(status, c, IF status[c] = "intent" THEN "registered" ELSE status[c])
  /\ Goto(p, "awaiting")
  /\ UNCHANGED <<launcher, rec, controlFailure, provider, descendant, seen, startRequest,
                 lockVars, rootVars, execution, borrowed, failure, storeVars, task>>

\* The second part: its processes have ended with a sealed outcome, or the live
\* launcher is asked to end them, and nobody else signals the group. The receipt is
\* written after the registry's own members have been observed as well.
SettleCall(p) ==
  /\ pc[p] = "awaiting" /\ Enter
  /\ LET c == NextCall IN
       /\ Settled(c) /\ Stopped(c, Members(c))
       /\ status' = Set(status, c, "stopped")
  /\ Goto(p, "stopping")
  /\ UNCHANGED <<launcherVars, lockVars, rootVars, execution, borrowed, failure, storeVars, task>>

\* Every call has its receipt: the execution is closed. A recovery goes on to open
\* its own; close() and a sealed reservation go on to release the lock.
CloseRoot(p) ==
  /\ pc[p] = "stopping" /\ Enter /\ Unreceipted = {}
  /\ slot' = FALSE
  /\ Goto(p, IF Mine(p) THEN "closed" ELSE "acquired")
  /\ UNCHANGED <<launcherVars, lockVars, owners, accepting, callVars, storeVars, task>>

\* Mutant: the stop deadline does not end the wait.
RefusedWithoutDeadline(p) ==
  \/ transition
  \/ /\ Unreceipted # {}
     /\ LET c == NextCall IN
          IF pc[p] = "stopping"
            THEN status[c] = "intent" /\ ~CanRegister(p, c)
            ELSE \/ controlFailure[c]
                 \/ ~LauncherAlive(c) /\ ~(Settled(c) /\ Stopped(c, Members(c)))

\* What #stopRoot refuses: an unreadable registry, an intent nobody answers for, a
\* failed or unsealed record, survivors without a launcher, the stop deadline.
Refused(p) ==
  \/ transition
  \/ /\ Unreceipted # {}
     /\ LET c == NextCall IN
          IF pc[p] = "stopping"
            THEN status[c] = "intent" /\ ~CanRegister(p, c)
            ELSE \/ stopOp[c] = "expired"
                 \/ controlFailure[c]
                 \/ ~LauncherAlive(c) /\ ~(Settled(c) /\ Stopped(c, Members(c)))

\* A recovery gives the lock back; the command whose close() failed keeps it until
\* it ends. The failure that #recordStopFailure saves is read by finishCall alone,
\* which an execution that is being stopped refuses: it is left out.
StopFails(p) ==
  /\ IF Mine(p)
       THEN Goto(p, "failed") /\ UNCHANGED lockVars
       ELSE Goto(p, "idle") /\ OwnerLock!Drop(p)
  /\ UNCHANGED <<launcherVars, rootVars, callVars, storeVars, task>>

Refuse(p) == pc[p] \in StopLabels /\ Refused(p) /\ StopFails(p)
StopErrs(p) == pc[p] \in StopLabels /\ "observe" \in scenario /\ StopFails(p)

\* Mutant: executions that are unfinished are not looked into.
EvidenceOfClosed(p) ==
  /\ pc[p] = "acquired" /\ (slot => ~Live(owners[Epoch]))
  /\ Enter /\ Epoch > 0
  /\ \A c \in Calls : Reserved(c) /\ execution[c] # Epoch => status[c] = "stopped"
  /\ Goto(p, "evidence")
  /\ UNCHANGED <<launcherVars, lockVars, rootVars, callVars, storeVars, task>>

\* withRecoveryEvidence, by a command that takes the owner lock for it, or by the
\* owner of the open execution: every reserved call has a receipt, and the admission
\* lock is kept while the caller commits its recovery.
Evidence(p) ==
  /\ \/ pc[p] = "acquired" /\ (slot => ~Live(owners[Epoch]))
     \/ pc[p] = "open" /\ Mine(p) /\ accepting
  /\ Enter /\ Epoch > 0
  /\ \A c \in Calls : Reserved(c) => status[c] = "stopped"
  /\ Goto(p, "evidence")
  /\ UNCHANGED <<launcherVars, lockVars, rootVars, callVars, storeVars, task>>

EvidenceEnds(p) ==
  /\ pc[p] = "evidence"
  /\ IF Mine(p)
       THEN Goto(p, "open") /\ UNCHANGED lockVars
       ELSE Goto(p, "idle") /\ OwnerLock!Drop(p)
  /\ UNCHANGED <<launcherVars, rootVars, callVars, storeVars, task>>

\* The rest of close(), or the release of the reservation.
Release(p) ==
  /\ pc[p] = "closed"
  /\ OwnerLock!Drop(p)
  /\ Goto(p, "idle")
  /\ UNCHANGED <<launcherVars, rootVars, callVars, storeVars, task>>

\* The command ends, with everything it was doing.
Die(p) ==
  /\ "die" \in scenario /\ birth[p] < MaxBirth
  /\ OwnerLock!Die(p)
  /\ Goto(p, "idle")
  /\ task' = [c \in Calls |->
       IF Reserved(c) /\ Lineage[c] = None /\ owners[execution[c]] = Self(p) /\ task[c] \in Unfinished
         THEN "error" ELSE task[c]]
  /\ UNCHANGED <<launcherVars, rootVars, callVars, storeVars>>

\* save() or archiveClosed() does not come to its end.
SaveInterrupted ==
  /\ "save" \in scenario
  /\ ~transition
  /\ \E p \in Procs : pc[p] \in {"acquired", "open"} \cup StopLabels
  /\ transition' = TRUE
  /\ UNCHANGED <<launcherVars, lockVars, rootVars, callVars, scenario, pc, task>>

-----------------------------------------------------------------------------
(* Physical calls.                                                         *)

\* Mutant: a call is bound to the epoch that the registry would give out next.
ReserveNextEpoch(c) ==
  /\ ~Reserved(c) /\ Epoch < MaxEpoch
  /\ Enter /\ slot /\ accepting
  /\ Lineage[c] = None /\ Live(owners[Epoch])
  /\ execution' = Set(execution, c, Epoch + 1)
  /\ status' = Set(status, c, "intent")
  /\ task' = Set(task, c, "reserved")
  /\ UNCHANGED <<launcherVars, lockVars, rootVars, borrowed, failure, storeVars, pc>>

\* reserveCall, by the owner, also while its close() is about to begin, or by the
\* nested command that has borrowed the execution.
Reserve(c) ==
  /\ ~Reserved(c) /\ Epoch < MaxEpoch
  /\ Enter /\ slot /\ accepting
  /\ IF Lineage[c] = None
       THEN Live(owners[Epoch])
       ELSE LET d == Lineage[c] IN borrowed[d] /\ Current(d) /\ Delegated(d)
  /\ execution' = Set(execution, c, Epoch)
  /\ status' = Set(status, c, "intent")
  /\ task' = Set(task, c, "reserved")
  /\ UNCHANGED <<launcherVars, lockVars, rootVars, borrowed, failure, storeVars, pc>>

\* acquire() in the environment of a call: the nested command becomes a member.
Borrow(c) ==
  /\ "nest" \in scenario /\ \E d \in Calls : Lineage[d] = c
  /\ Enter /\ Current(c) /\ accepting /\ Delegated(c)
  /\ ~borrowed[c]
  /\ borrowed' = Set(borrowed, c, TRUE)
  /\ UNCHANGED <<launcherVars, lockVars, rootVars, execution, status, failure, storeVars, pc, task>>

\* The launcher is spawned, detached, once the intent is on record.
Launch(c) ==
  /\ task[c] = "reserved" /\ TaskAlive(c)
  /\ launcher' = Set(launcher, c, "up")
  /\ task' = Set(task, c, "launched")
  /\ UNCHANGED <<rec, controlFailure, provider, descendant, seen, stopOp, startRequest,
                 lockVars, rootVars, callVars, storeVars, pc>>

\* authorizeStart: the live launcher that has greeted is registered and, in a second
\* save under the same admission, permitted to start, unless something fails between.
AuthorizeStart(c) ==
  /\ task[c] = "launched" /\ TaskAlive(c)
  /\ rec[c] # "none" /\ LauncherAlive(c)
  /\ Enter /\ Accepting(c) /\ status[c] = "intent"
  /\ \/ status' = Set(status, c, "running") /\ task' = Set(task, c, "permitted")
     \/ /\ scenario \cap {"die", "error", "save"} # {}
        /\ status' = Set(status, c, "registered") /\ task' = Set(task, c, "error")
  /\ UNCHANGED <<launcherVars, lockVars, rootVars, execution, borrowed, failure, storeVars, pc>>

\* The start request, which may arrive late.
SendStart(c) ==
  /\ task[c] = "permitted" /\ TaskAlive(c)
  /\ startRequest' = Set(startRequest, c, TRUE)
  /\ task' = Set(task, c, "waiting")
  /\ UNCHANGED <<launcher, rec, controlFailure, provider, descendant, seen, stopOp,
                 lockVars, rootVars, callVars, storeVars, pc>>

\* beginCallStop after a timeout or an abort, or after a failed request, which is saved
\* with it; the launcher is asked to stop, and the wait goes on.
BeginCallStop(c) ==
  /\ task[c] \in {"permitted", "waiting"} /\ TaskAlive(c)
  /\ Enter /\ Current(c)
  /\ Claim(c)
  /\ \/ UNCHANGED failure
     \/ "error" \in scenario /\ failure' = Set(failure, c, TRUE)
  /\ task' = Set(task, c, "waiting")
  /\ UNCHANGED <<launcher, rec, controlFailure, provider, descendant, seen, startRequest,
                 lockVars, rootVars, execution, status, borrowed, storeVars, pc>>

\* Mutant: finishCall answers for its own call only.
NoLineage(c) == ~failure[c]

\* #assertSubtreeSettled.
SubtreeSettled(c) ==
  /\ \A d \in Children(c) : status[d] = "stopped"
  /\ \A d \in Children(c) \cup {c} : ~failure[d]

\* readManagedSettlement finds the sealed outcome of a stopped group, and finishCall
\* writes the receipt, then answers. A second finishCall, after a communication
\* failure, finds the receipt, repeats the answer and writes nothing; no caller asks
\* for notStarted.
FinishCall(c) ==
  /\ task[c] = "waiting" /\ TaskAlive(c)
  /\ Enter /\ Accepting(c)
  /\ Settled(c) /\ Stopped(c, Members(c))
  /\ status' = Set(status, c, "stopped")
  /\ task' = Set(task, c, IF SubtreeSettled(c) THEN "ok" ELSE "error")
  /\ UNCHANGED <<launcherVars, lockVars, rootVars, execution, borrowed, failure, storeVars, pc>>

\* Whatever else goes wrong: the call ends with an error, which recordCallControlFailure
\* saves while the execution accepts.
TaskFails(c) ==
  /\ "error" \in scenario
  /\ task[c] \in Unfinished
  /\ TaskAlive(c) /\ AdmissionFree
  /\ failure' = IF Enter /\ Accepting(c) THEN Set(failure, c, TRUE) ELSE failure
  /\ task' = Set(task, c, "error")
  /\ UNCHANGED <<launcherVars, lockVars, rootVars, execution, status, borrowed, storeVars, pc>>

\* reportDelegatedControlFailure: a nested failure becomes the parent's.
Report(c) ==
  /\ task[c] = "error" /\ Lineage[c] # None /\ TaskAlive(c)
  /\ Enter /\ Accepting(c)
  /\ failure' = Set(failure, Lineage[c], TRUE)
  /\ task' = Set(task, c, "reported")
  /\ UNCHANGED <<launcherVars, lockVars, rootVars, execution, status, borrowed, storeVars, pc>>

StopStep(p) == StopCall(p) \/ SettleCall(p) \/ CloseRoot(p) \/ Refuse(p)
Command(p) ==
  \/ ReclaimOwner(p) \/ AcquireOwner(p) \/ Open(p) \/ GiveUp(p) \/ StopRoot(p)
  \/ StopStep(p) \/ StopErrs(p) \/ Evidence(p) \/ EvidenceEnds(p) \/ Release(p) \/ Die(p)
Execute(c) ==
  \/ Reserve(c) \/ Borrow(c) \/ Launch(c) \/ AuthorizeStart(c) \/ SendStart(c)
  \/ BeginCallStop(c) \/ FinishCall(c) \/ TaskFails(c) \/ Report(c)
Physical(c) ==
  /\ Supervise(c) \/ Environment(c)
  /\ UNCHANGED runtimeVars

Next ==
  \/ \E p \in Procs : Command(p)
  \/ \E c \in Calls : Execute(c) \/ Physical(c)
  \/ SaveInterrupted

Spec == Init /\ [][Next]_vars

\* A launcher's timers fire; a stop deadline passes; a command that stops an execution
\* goes on; whoever holds the admission lock for its evidence leaves it.
Fairness ==
  /\ \A c \in Calls :
       /\ WF_vars(Supervise(c) /\ UNCHANGED runtimeVars)
       /\ WF_vars(Expire(c) /\ UNCHANGED runtimeVars)
  /\ \A p \in Procs : WF_vars(StopStep(p)) /\ WF_vars(EvidenceEnds(p))

FairSpec == Spec /\ Fairness

-----------------------------------------------------------------------------
(* Properties.                                                             *)

\* The launcher and every process of the call have ended, except for one that has left
\* the group and that neither the launcher nor the registry ever knew of.
Quiet(c) ==
  /\ ~LauncherAlive(c) /\ provider[c] \notin Alive
  /\ descendant[c] \in Alive => descendant[c] = "left" /\ ~Members(c)

\* A stop receipt is final: the launcher, everything in its group and every birth on
\* record have ended, and neither a start request that arrives late nor a fork brings
\* anything of the call back.
StopReceiptIsFinal ==
  \A c \in Calls : status[c] = "stopped" => Quiet(c)

\* Executions of a checkout do not overlap: when an execution is open, or none is,
\* nothing of an earlier one is running, launchers that never got a permit and nested
\* calls included, whoever died in between.
ExecutionsDoNotOverlap ==
  \A c \in Calls : Reserved(c) /\ ~Current(c) => Quiet(c)

\* While a recovery is committed on the evidence of withRecoveryEvidence, no process
\* of any reserved call is running.
EvidenceMeansQuiet ==
  \A p \in Procs : pc[p] = "evidence" => \A c \in Calls : Reserved(c) => Quiet(c)

\* A call that finishCall has answered with its receipt has stopped with all its nested
\* calls, and no nested call is added to it later.
SuccessCoversLineage ==
  \A c \in Calls : task[c] = "ok" =>
    \A d \in Children(c) \cup {c} : status[d] = "stopped" /\ Quiet(d)

\* close() and a recovery come to an end, with the execution closed or a refusal.
StopEnds ==
  \A p \in Procs : pc[p] \in StopLabels ~> pc[p] \notin StopLabels

\* A launcher does not stay behind: it ends by its own timers, coordinator or not,
\* unless it has lost sight of its group or a descendant has left it.
LauncherEnds ==
  \A c \in Calls : launcher[c] = "up" ~>
    (launcher[c] \in {"dead", "blocked"} \/ descendant[c] = "left")
=============================================================================
