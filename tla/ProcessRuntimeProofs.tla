------------------------- MODULE ProcessRuntimeProofs -------------------------
(***************************************************************************)
(* Proofs about ProcessRuntime and ManagedLauncher for any commands, calls *)
(* and lineages, any number of executions and births, and every set of     *)
(* events. The argument: a call whose launcher has ended and whose known   *)
(* processes have ended stays so, because only a live launcher starts a    *)
(* provider, only a live provider forks, and only the record of a live     *)
(* launcher, or a nested command under one, adds members. A receipt is     *)
(* written in such a state only, and it is never taken back; so what is    *)
(* left is that the registry asks for receipts where it must.              *)
(***************************************************************************)
EXTENDS ProcessRuntime, TLAPS

\* A command that is past the acquisition owns the checkout.
OwnerInv == \A p \in Procs : pc[p] # "idle" => holder = Self(p)

\* How far executeManagedProcess, the launcher and its record are for a call.
ProgressInv ==
  \A c \in Calls :
    /\ task[c] = "none" <=> ~Reserved(c)
    /\ task[c] \in {"none", "reserved"} => launcher[c] = "none"
    /\ launcher[c] = "none" => rec[c] = "none"

\* An execution that is unfinished has an epoch.
EpochInv == slot => Epoch > 0

\* The call is over: its launcher has been there, and is gone with all it knew.
Over(c) == launcher[c] = "dead" /\ Quiet(c)

ReceiptInv == \A c \in Calls : status[c] = "stopped" => Over(c)

\* Where every call in question has a receipt: outside the open execution, while
\* recovery evidence is held, and in the lineage of a call that has succeeded.
ClosedInv == \A c \in Calls : Reserved(c) /\ ~Current(c) => status[c] = "stopped"

EvidenceInv ==
  \A p \in Procs : pc[p] = "evidence" => \A c \in Calls : Reserved(c) => status[c] = "stopped"

LineageInv ==
  \A c \in Calls : task[c] = "ok" =>
    /\ status[c] = "stopped"
    /\ \A d \in Children(c) : status[d] = "stopped"

IInv ==
  /\ TypeOK
  /\ OwnerInv
  /\ EpochInv
  /\ ProgressInv
  /\ ReceiptInv
  /\ ClosedInv
  /\ EvidenceInv
  /\ LineageInv

\* Two commands are never past the acquisition of the owner lock at once.
OneCommand ==
  \A p, q \in Procs : pc[p] # "idle" /\ pc[q] # "idle" => p = q

-----------------------------------------------------------------------------
(* The launcher and its processes.                                         *)

\* What every step of a launcher and of its processes keeps: no launcher appears or is
\* forgotten, a record is that of a launcher, and what is over stays over.
Kept ==
  \A d \in Calls :
    /\ launcher'[d] = "none" <=> launcher[d] = "none"
    /\ rec'[d] # "none" => rec[d] # "none" \/ launcher[d] # "none"
    /\ Over(d) => Over(d)'

\* The types of the launcher's variables, one step at a time.
LEMMA PhysicalType ==
  ASSUME LauncherTypeOK, NEW c \in Calls, Supervise(c) \/ Environment(c), UNCHANGED scenario
  PROVE  LauncherTypeOK'
<1> USE DEF LauncherTypeOK, Group, Alive, Set
<1>1. CASE Greet(c)
  BY <1>1 DEF Greet, LauncherAlive
<1>2. CASE Start(c)
  BY <1>2 DEF Start
<1>3. CASE Poll(c)
  BY <1>3 DEF Poll, Blocked, CaptureFails, Captured
<1>4. CASE PollFinish(c)
  BY <1>4 DEF PollFinish, Finishing, OthersStopped
<1>5. CASE OnStop(c)
  BY <1>5 DEF OnStop, Stop, StopAtDeadline, Blocked, Finishing, Claim, Captured
<1>6. CASE OnOutputLimit(c)
  BY <1>6 DEF OnOutputLimit, Stop, StopAtDeadline, Blocked, Finishing, Claim, Captured
<1>7. CASE Grace(c)
  BY <1>7 DEF Grace, StopAtDeadline, Blocked, Finishing, Captured
<1>8. CASE KillGroup(c)
  BY <1>8 DEF KillGroup, StopAtDeadline, Blocked, Finishing, Captured
<1>9. CASE Fork(c)
  BY <1>9 DEF Fork
<1>10. CASE ProviderMoves(c)
  BY <1>10 DEF ProviderMoves
<1>11. CASE DescendantMoves(c)
  BY <1>11 DEF DescendantMoves
<1>12. CASE Fails(c)
  BY <1>12 DEF Fails, Blocked
<1>13. CASE Killed(c)
  BY <1>13 DEF Killed, LauncherAlive
<1>14. CASE Expire(c)
  BY <1>14 DEF Expire
<1>15. QED
  BY <1>1, <1>2, <1>3, <1>4, <1>5, <1>6, <1>7, <1>8, <1>9, <1>10, <1>11, <1>12, <1>13, <1>14 DEF Supervise, Environment

\* The steps of a launcher and its processes keep what Kept says.
LEMMA PhysicalKeeps ==
  ASSUME LauncherTypeOK, NEW c \in Calls, Supervise(c) \/ Environment(c), UNCHANGED borrowed
  PROVE  Kept
<1> USE DEF LauncherTypeOK, Kept, Over, Quiet, Members, LauncherAlive, Alive, Set
<1>1. CASE Greet(c)
  BY <1>1 DEF Greet
<1>2. CASE Start(c)
  BY <1>2 DEF Start
<1>3. CASE Poll(c)
  BY <1>3 DEF Poll, Blocked, CaptureFails, Captured
<1>4. CASE PollFinish(c)
  BY <1>4 DEF PollFinish, Finishing, OthersStopped
<1>5. CASE OnStop(c)
  BY <1>5 DEF OnStop, Stop, StopAtDeadline, Blocked, Finishing, Claim, Captured
<1>6. CASE OnOutputLimit(c)
  BY <1>6 DEF OnOutputLimit, Stop, StopAtDeadline, Blocked, Finishing, Claim, Captured
<1>7. CASE Grace(c)
  BY <1>7 DEF Grace, StopAtDeadline, Blocked, Finishing, Captured
<1>8. CASE KillGroup(c)
  BY <1>8 DEF KillGroup, StopAtDeadline, Blocked, Finishing, Captured
<1>9. CASE Fork(c)
  BY <1>9 DEF Fork
<1>10. CASE ProviderMoves(c)
  BY <1>10 DEF ProviderMoves
<1>11. CASE DescendantMoves(c)
  BY <1>11 DEF DescendantMoves
<1>12. CASE Fails(c)
  BY <1>12 DEF Fails, Blocked
<1>13. CASE Killed(c)
  BY <1>13 DEF Killed
<1>14. CASE Expire(c)
  BY <1>14 DEF Expire
<1>15. QED
  BY <1>1, <1>2, <1>3, <1>4, <1>5, <1>6, <1>7, <1>8, <1>9, <1>10, <1>11, <1>12, <1>13, <1>14 DEF Supervise, Environment

-----------------------------------------------------------------------------
(* The types and the owner lock.                                           *)

\* The identity of a command tells its slot and its birth, and is not null.
LEMMA OwnerOfProc ==
  ASSUME TypeOK
  PROVE  /\ \A p \in Procs : Self(p) \in Owners /\ Self(p) # None
         /\ \A p \in Procs : Self(p).proc = p /\ Self(p).birth = birth[p]
         /\ \A p, q \in Procs : Self(p) = Self(q) => p = q
<1>1. \A p \in Procs : Self(p) \in Owners
  BY DEF TypeOK, Self, Owners
<1>2. \A p \in Procs : Self(p).proc = p /\ Self(p).birth = birth[p]
  BY DEF Self
<1>3. None \notin Owners
  BY RuntimeAssumption DEF Owners
<1>4. QED
  BY <1>1, <1>2, <1>3

\* How a stop that fails, and the end of recovery evidence, leave the owner lock.
LEMMA LockKeptOrDropped ==
  ASSUME NEW p \in Procs, Refuse(p) \/ StopErrs(p) \/ EvidenceEnds(p)
  PROVE  /\ UNCHANGED <<launcherVars, birth, rootVars, callVars, storeVars, task>>
         /\ \/ UNCHANGED holder /\ \E label \in {"failed", "open"} : Goto(p, label)
            \/ OwnerLock!Drop(p) /\ Goto(p, "idle")
<1>1. CASE Mine(p)
  BY <1>1 DEF Refuse, StopErrs, EvidenceEnds, StopFails, lockVars
<1>2. CASE ~Mine(p)
  BY <1>2 DEF Refuse, StopErrs, EvidenceEnds, StopFails, OwnerLock!Drop
<1>3. QED
  BY <1>1, <1>2

\* The types are kept.
LEMMA TypeStep ==
  IInv /\ [Next]_vars => TypeOK'
<1> SUFFICES ASSUME IInv, [Next]_vars
             PROVE  TypeOK'
  OBVIOUS
<1>t. TypeOK
  BY DEF IInv
<1>s. \A p \in Procs : Self(p) \in Owners
  BY <1>t, OwnerOfProc
<1> USE DEF TypeOK, LauncherTypeOK, Group, Unfinished, StopLabels, Set, launcherVars, lockVars, rootVars, callVars, storeVars
<1>1. ASSUME NEW p \in Procs, ReclaimOwner(p)
      PROVE  TypeOK'
  BY <1>1, <1>t DEF ReclaimOwner, OwnerLock!Reclaim
<1>2. ASSUME NEW p \in Procs, AcquireOwner(p)
      PROVE  TypeOK'
  BY <1>2, <1>t, <1>s DEF AcquireOwner, OwnerLock!TakeAs, Goto
<1>3. ASSUME NEW p \in Procs, Open(p)
      PROVE  TypeOK'
  <2>1. Self(p) \in Owners
    BY <1>s
  <2>2. owners' \in Seq(Owners) /\ Len(owners') = Len(owners) + 1 /\ Len(owners) \in Nat
    BY <1>3, <1>t, <2>1 DEF Open
  <2>3. execution' \in [Calls -> 0 .. Len(owners')]
    BY <1>3, <1>t, <2>2 DEF Open
  <2>4. QED
    BY <1>3, <1>t, <2>2, <2>3 DEF Open, Goto
<1>4. ASSUME NEW p \in Procs, GiveUp(p)
      PROVE  TypeOK'
  BY <1>4, <1>t DEF GiveUp, OwnerLock!Drop, Goto
<1>5. ASSUME NEW p \in Procs, StopRoot(p)
      PROVE  TypeOK'
  BY <1>5, <1>t DEF StopRoot, Goto
<1>6. ASSUME NEW p \in Procs, StopCall(p)
      PROVE  TypeOK'
  BY <1>6, <1>t DEF StopCall, Goto, Claim
<1>7. ASSUME NEW p \in Procs, SettleCall(p)
      PROVE  TypeOK'
  BY <1>7, <1>t DEF SettleCall, Goto, Settled, Stopped
<1>8. ASSUME NEW p \in Procs, CloseRoot(p)
      PROVE  TypeOK'
  BY <1>8, <1>t DEF CloseRoot, Goto
<1>9. ASSUME NEW p \in Procs, Refuse(p)
      PROVE  TypeOK'
  <2>1. /\ UNCHANGED <<launcherVars, birth, rootVars, callVars, storeVars, task>>
        /\ holder' \in {holder, None}
        /\ \E label \in {"failed", "open", "idle"} : pc' = [pc EXCEPT ![p] = label]
    BY <1>9, LockKeptOrDropped DEF OwnerLock!Drop, Goto
  <2>2. pc' \in [Procs -> {"idle", "acquired", "open", "evidence", "closed", "failed"} \cup StopLabels]
    BY <1>t, <2>1
  <2>3. QED
    BY <1>t, <2>1, <2>2
<1>10. ASSUME NEW p \in Procs, StopErrs(p)
      PROVE  TypeOK'
  <2>1. /\ UNCHANGED <<launcherVars, birth, rootVars, callVars, storeVars, task>>
        /\ holder' \in {holder, None}
        /\ \E label \in {"failed", "open", "idle"} : pc' = [pc EXCEPT ![p] = label]
    BY <1>10, LockKeptOrDropped DEF OwnerLock!Drop, Goto
  <2>2. pc' \in [Procs -> {"idle", "acquired", "open", "evidence", "closed", "failed"} \cup StopLabels]
    BY <1>t, <2>1
  <2>3. QED
    BY <1>t, <2>1, <2>2
<1>11. ASSUME NEW p \in Procs, Evidence(p)
      PROVE  TypeOK'
  BY <1>11, <1>t DEF Evidence, Goto
<1>12. ASSUME NEW p \in Procs, EvidenceEnds(p)
      PROVE  TypeOK'
  <2>1. /\ UNCHANGED <<launcherVars, birth, rootVars, callVars, storeVars, task>>
        /\ holder' \in {holder, None}
        /\ \E label \in {"failed", "open", "idle"} : pc' = [pc EXCEPT ![p] = label]
    BY <1>12, LockKeptOrDropped DEF OwnerLock!Drop, Goto
  <2>2. pc' \in [Procs -> {"idle", "acquired", "open", "evidence", "closed", "failed"} \cup StopLabels]
    BY <1>t, <2>1
  <2>3. QED
    BY <1>t, <2>1, <2>2
<1>13. ASSUME NEW p \in Procs, Release(p)
      PROVE  TypeOK'
  BY <1>13, <1>t DEF Release, OwnerLock!Drop, Goto
<1>14. ASSUME NEW p \in Procs, Die(p)
      PROVE  TypeOK'
  BY <1>14, <1>t DEF Die, OwnerLock!Die, Goto
<1>15. ASSUME NEW c \in Calls, Reserve(c)
      PROVE  TypeOK'
  <2>1. Len(owners) \in Nat
    BY <1>t
  <2>2. execution' \in [Calls -> 0 .. Len(owners)]
    BY <1>15, <1>t, <2>1 DEF Reserve, Epoch
  <2>3. QED
    BY <1>15, <1>t, <2>2 DEF Reserve
<1>16. ASSUME NEW c \in Calls, Borrow(c)
      PROVE  TypeOK'
  BY <1>16, <1>t DEF Borrow
<1>17. ASSUME NEW c \in Calls, Launch(c)
      PROVE  TypeOK'
  BY <1>17, <1>t DEF Launch
<1>18. ASSUME NEW c \in Calls, AuthorizeStart(c)
      PROVE  TypeOK'
  BY <1>18, <1>t DEF AuthorizeStart
<1>19. ASSUME NEW c \in Calls, SendStart(c)
      PROVE  TypeOK'
  BY <1>19, <1>t DEF SendStart
<1>20. ASSUME NEW c \in Calls, BeginCallStop(c)
      PROVE  TypeOK'
  BY <1>20, <1>t DEF BeginCallStop, Claim
<1>21. ASSUME NEW c \in Calls, FinishCall(c)
      PROVE  TypeOK'
  BY <1>21, <1>t DEF FinishCall, Settled, Stopped
<1>22. ASSUME NEW c \in Calls, TaskFails(c)
      PROVE  TypeOK'
  BY <1>22, <1>t DEF TaskFails
<1>23. ASSUME NEW c \in Calls, Report(c)
      PROVE  TypeOK'
  BY <1>23, <1>t DEF Report
<1>24. ASSUME NEW c \in Calls, Physical(c)
      PROVE  TypeOK'
  <2>1. LauncherTypeOK'
    BY <1>24, <1>t, PhysicalType DEF Physical, runtimeVars
  <2>2. QED
    BY <1>24, <1>t, <2>1 DEF Physical, runtimeVars
<1>25. CASE SaveInterrupted
  BY <1>25, <1>t DEF SaveInterrupted
<1>26. CASE UNCHANGED vars
  BY <1>26, <1>t DEF vars
<1>27. QED
  BY <1>1, <1>2, <1>3, <1>4, <1>5, <1>6, <1>7, <1>8, <1>9, <1>10, <1>11, <1>12, <1>13, <1>14, <1>15, <1>16, <1>17, <1>18, <1>19, <1>20, <1>21, <1>22, <1>23, <1>24, <1>25, <1>26
  DEF Next, Command, StopStep, Execute

\* Whatever a command does, it does as the owner of the checkout.
LEMMA OwnerStep ==
  IInv /\ [Next]_vars => OwnerInv'
<1> SUFFICES ASSUME IInv, [Next]_vars
             PROVE  OwnerInv'
  OBVIOUS
<1>t. pc \in [Procs -> {"idle", "acquired", "open", "evidence", "closed", "failed"} \cup StopLabels]
  BY DEF IInv, TypeOK
<1>b. birth \in [Procs -> Nat]
  BY DEF IInv, TypeOK
<1>i. OwnerInv
  BY DEF IInv
<1>s. /\ \A p \in Procs : Self(p) \in Owners /\ Self(p) # None
      /\ \A p \in Procs : Self(p).proc = p /\ Self(p).birth = birth[p]
      /\ \A p, q \in Procs : Self(p) = Self(q) => p = q
  BY OwnerOfProc DEF IInv
<1>k. ASSUME UNCHANGED lockVars,
             \A q \in Procs : pc'[q] # "idle" => pc[q] # "idle"
      PROVE  OwnerInv'
  BY <1>k, <1>i DEF OwnerInv, Self, lockVars
<1>d. ASSUME NEW p \in Procs, OwnerLock!Drop(p), Goto(p, "idle")
      PROVE  OwnerInv'
  <2>1. \A q \in Procs : q # p => pc[q] = "idle"
    BY <1>d, <1>i, <1>s DEF OwnerInv, OwnerLock!Drop
  <2>2. \A q \in Procs : pc'[q] = "idle"
    BY <1>d, <1>t, <2>1 DEF Goto
  <2>3. QED
    BY <2>2 DEF OwnerInv
<1> USE DEF launcherVars, lockVars, rootVars, callVars, storeVars
<1>1. ASSUME NEW p \in Procs, ReclaimOwner(p)
      PROVE  OwnerInv'
  <2>1. \A q \in Procs : pc[q] = "idle"
    BY <1>1, <1>i, <1>s DEF ReclaimOwner, OwnerLock!Reclaim, OwnerLock!Live, OwnerInv
  <2>2. QED
    BY <1>1, <2>1 DEF ReclaimOwner, OwnerInv
<1>2. ASSUME NEW p \in Procs, AcquireOwner(p)
      PROVE  OwnerInv'
  <2>1. \A q \in Procs : pc[q] = "idle"
    BY <1>2, <1>i, <1>s DEF AcquireOwner, OwnerLock!TakeAs, OwnerInv
  <2>2. \A q \in Procs : pc'[q] # "idle" => q = p
    BY <1>2, <1>t, <2>1 DEF AcquireOwner, Goto
  <2>3. QED
    BY <1>2, <2>2 DEF AcquireOwner, OwnerLock!TakeAs, OwnerInv, Self
<1>3. ASSUME NEW p \in Procs, Open(p)
      PROVE  OwnerInv'
  BY <1>3, <1>t, <1>k DEF Open, Goto
<1>4. ASSUME NEW p \in Procs, GiveUp(p)
      PROVE  OwnerInv'
  BY <1>4, <1>d DEF GiveUp
<1>5. ASSUME NEW p \in Procs, StopRoot(p)
      PROVE  OwnerInv'
  BY <1>5, <1>t, <1>k DEF StopRoot, Goto
<1>6. ASSUME NEW p \in Procs, StopCall(p)
      PROVE  OwnerInv'
  BY <1>6, <1>t, <1>k DEF StopCall, Goto, Claim, Set, StopLabels
<1>7. ASSUME NEW p \in Procs, SettleCall(p)
      PROVE  OwnerInv'
  BY <1>7, <1>t, <1>k DEF SettleCall, Goto, Set, Settled, Stopped, StopLabels
<1>8. ASSUME NEW p \in Procs, CloseRoot(p)
      PROVE  OwnerInv'
  BY <1>8, <1>t, <1>k DEF CloseRoot, Goto, StopLabels
<1>9. ASSUME NEW p \in Procs, Refuse(p)
      PROVE  OwnerInv'
  <2>1. CASE UNCHANGED holder /\ \E label \in {"failed", "open"} : Goto(p, label)
    <3>1. pc[p] # "idle"
      BY <1>9 DEF Refuse, StopLabels
    <3>2. UNCHANGED lockVars
      BY <1>9, <2>1, LockKeptOrDropped
    <3>3. QED
      BY <2>1, <3>1, <3>2, <1>k, <1>t DEF Goto
  <2>2. CASE OwnerLock!Drop(p) /\ Goto(p, "idle")
    BY <2>2, <1>d
  <2>3. QED
    BY <1>9, <2>1, <2>2, LockKeptOrDropped
<1>10. ASSUME NEW p \in Procs, StopErrs(p)
      PROVE  OwnerInv'
  <2>1. CASE UNCHANGED holder /\ \E label \in {"failed", "open"} : Goto(p, label)
    <3>1. pc[p] # "idle"
      BY <1>10 DEF StopErrs, StopLabels
    <3>2. UNCHANGED lockVars
      BY <1>10, <2>1, LockKeptOrDropped
    <3>3. QED
      BY <2>1, <3>1, <3>2, <1>k, <1>t DEF Goto
  <2>2. CASE OwnerLock!Drop(p) /\ Goto(p, "idle")
    BY <2>2, <1>d
  <2>3. QED
    BY <1>10, <2>1, <2>2, LockKeptOrDropped
<1>11. ASSUME NEW p \in Procs, Evidence(p)
      PROVE  OwnerInv'
  BY <1>11, <1>t, <1>k DEF Evidence, Goto
<1>12. ASSUME NEW p \in Procs, EvidenceEnds(p)
      PROVE  OwnerInv'
  <2>1. CASE UNCHANGED holder /\ \E label \in {"failed", "open"} : Goto(p, label)
    <3>1. pc[p] # "idle"
      BY <1>12 DEF EvidenceEnds
    <3>2. UNCHANGED lockVars
      BY <1>12, <2>1, LockKeptOrDropped
    <3>3. QED
      BY <2>1, <3>1, <3>2, <1>k, <1>t DEF Goto
  <2>2. CASE OwnerLock!Drop(p) /\ Goto(p, "idle")
    BY <2>2, <1>d
  <2>3. QED
    BY <1>12, <2>1, <2>2, LockKeptOrDropped
<1>13. ASSUME NEW p \in Procs, Release(p)
      PROVE  OwnerInv'
  BY <1>13, <1>d DEF Release
<1>14. ASSUME NEW p \in Procs, Die(p)
      PROVE  OwnerInv'
  <2>1. \A q \in Procs : pc'[q] # "idle" => q # p /\ pc[q] # "idle"
    BY <1>14, <1>t DEF Die, Goto
  <2>2. \A q \in Procs : q # p => Self(q)' = Self(q)
    BY <1>14, <1>b DEF Die, OwnerLock!Die, Self
  <2>3. QED
    BY <1>14, <1>i, <2>1, <2>2 DEF Die, OwnerLock!Die, OwnerInv
<1>15. ASSUME NEW c \in Calls, Reserve(c)
      PROVE  OwnerInv'
  BY <1>15, <1>t, <1>k DEF Reserve, Set
<1>16. ASSUME NEW c \in Calls, Borrow(c)
      PROVE  OwnerInv'
  BY <1>16, <1>t, <1>k DEF Borrow, Set
<1>17. ASSUME NEW c \in Calls, Launch(c)
      PROVE  OwnerInv'
  BY <1>17, <1>t, <1>k DEF Launch, Set
<1>18. ASSUME NEW c \in Calls, AuthorizeStart(c)
      PROVE  OwnerInv'
  BY <1>18, <1>t, <1>k DEF AuthorizeStart, Set
<1>19. ASSUME NEW c \in Calls, SendStart(c)
      PROVE  OwnerInv'
  BY <1>19, <1>t, <1>k DEF SendStart, Set
<1>20. ASSUME NEW c \in Calls, BeginCallStop(c)
      PROVE  OwnerInv'
  BY <1>20, <1>t, <1>k DEF BeginCallStop, Set, Claim
<1>21. ASSUME NEW c \in Calls, FinishCall(c)
      PROVE  OwnerInv'
  BY <1>21, <1>t, <1>k DEF FinishCall, Set, Settled, Stopped
<1>22. ASSUME NEW c \in Calls, TaskFails(c)
      PROVE  OwnerInv'
  BY <1>22, <1>t, <1>k DEF TaskFails, Set
<1>23. ASSUME NEW c \in Calls, Report(c)
      PROVE  OwnerInv'
  BY <1>23, <1>t, <1>k DEF Report, Set
<1>24. ASSUME NEW c \in Calls, Physical(c)
      PROVE  OwnerInv'
  BY <1>24, <1>k DEF Physical, runtimeVars
<1>25. CASE SaveInterrupted
  BY <1>25, <1>t, <1>k DEF SaveInterrupted
<1>26. CASE UNCHANGED vars
  BY <1>26, <1>t, <1>k DEF vars
<1>27. QED
  BY <1>1, <1>2, <1>3, <1>4, <1>5, <1>6, <1>7, <1>8, <1>9, <1>10, <1>11, <1>12, <1>13, <1>14, <1>15, <1>16, <1>17, <1>18, <1>19, <1>20, <1>21, <1>22, <1>23, <1>24, <1>25, <1>26
  DEF Next, Command, StopStep, Execute

-----------------------------------------------------------------------------
(* Calls that are over, and their receipts.                                *)

\* A call that is over stays over.
LEMMA OverStays ==
  IInv /\ [Next]_vars => \A d \in Calls : Over(d) => Over(d)'
<1> SUFFICES ASSUME IInv, [Next]_vars
             PROVE  \A d \in Calls : Over(d) => Over(d)'
  OBVIOUS
<1>t. /\ launcher \in [Calls -> {"none", "up", "blocked", "dead"}]
      /\ borrowed \in [Calls -> BOOLEAN]
      /\ status \in [Calls -> {"none", "intent", "registered", "running", "stopped"}]
      /\ task \in [Calls -> Unfinished \cup {"none", "ok", "error", "reported"}]
      /\ execution \in [Calls -> 0 .. Len(owners)]
      /\ Len(owners) \in Nat
  BY DEF IInv, TypeOK, LauncherTypeOK
<1>p. ProgressInv
  BY DEF IInv
<1>k. ASSUME UNCHANGED <<launcher, provider, descendant, seen, borrowed>>
      PROVE  \A d \in Calls : Over(d) => Over(d)'
  BY <1>k DEF Over, Quiet, Members, LauncherAlive
<1> USE DEF launcherVars, lockVars, rootVars, callVars, storeVars
<1>1. ASSUME NEW p \in Procs, ReclaimOwner(p)
      PROVE  \A d \in Calls : Over(d) => Over(d)'
  BY <1>1, <1>k DEF ReclaimOwner
<1>2. ASSUME NEW p \in Procs, AcquireOwner(p)
      PROVE  \A d \in Calls : Over(d) => Over(d)'
  BY <1>2, <1>k DEF AcquireOwner
<1>3. ASSUME NEW p \in Procs, Open(p)
      PROVE  \A d \in Calls : Over(d) => Over(d)'
  BY <1>3, <1>k DEF Open
<1>4. ASSUME NEW p \in Procs, GiveUp(p)
      PROVE  \A d \in Calls : Over(d) => Over(d)'
  BY <1>4, <1>k DEF GiveUp
<1>5. ASSUME NEW p \in Procs, StopRoot(p)
      PROVE  \A d \in Calls : Over(d) => Over(d)'
  BY <1>5, <1>k DEF StopRoot
<1>6. ASSUME NEW p \in Procs, StopCall(p)
      PROVE  \A d \in Calls : Over(d) => Over(d)'
  BY <1>6, <1>k DEF StopCall
<1>7. ASSUME NEW p \in Procs, SettleCall(p)
      PROVE  \A d \in Calls : Over(d) => Over(d)'
  BY <1>7, <1>k DEF SettleCall
<1>8. ASSUME NEW p \in Procs, CloseRoot(p)
      PROVE  \A d \in Calls : Over(d) => Over(d)'
  BY <1>8, <1>k DEF CloseRoot
<1>9. ASSUME NEW p \in Procs, Refuse(p)
      PROVE  \A d \in Calls : Over(d) => Over(d)'
  BY <1>9, <1>k, LockKeptOrDropped
<1>10. ASSUME NEW p \in Procs, StopErrs(p)
      PROVE  \A d \in Calls : Over(d) => Over(d)'
  BY <1>10, <1>k, LockKeptOrDropped
<1>11. ASSUME NEW p \in Procs, Evidence(p)
      PROVE  \A d \in Calls : Over(d) => Over(d)'
  BY <1>11, <1>k DEF Evidence
<1>12. ASSUME NEW p \in Procs, EvidenceEnds(p)
      PROVE  \A d \in Calls : Over(d) => Over(d)'
  BY <1>12, <1>k, LockKeptOrDropped
<1>13. ASSUME NEW p \in Procs, Release(p)
      PROVE  \A d \in Calls : Over(d) => Over(d)'
  BY <1>13, <1>k DEF Release
<1>14. ASSUME NEW p \in Procs, Die(p)
      PROVE  \A d \in Calls : Over(d) => Over(d)'
  BY <1>14, <1>k DEF Die
<1>15. ASSUME NEW c \in Calls, Reserve(c)
      PROVE  \A d \in Calls : Over(d) => Over(d)'
  BY <1>15, <1>k DEF Reserve
<1>16. ASSUME NEW c \in Calls, Borrow(c)
      PROVE  \A d \in Calls : Over(d) => Over(d)'
  BY <1>16, <1>t DEF Borrow, Delegated, LauncherAlive, Set, Over, Quiet, Members
<1>17. ASSUME NEW c \in Calls, Launch(c)
      PROVE  \A d \in Calls : Over(d) => Over(d)'
  <2>1. \A d \in Calls : Over(d) => d # c
    BY <1>17, <1>p DEF Launch, ProgressInv, Over
  <2>2. \A d \in Calls : d # c => launcher'[d] = launcher[d]
    BY <1>17, <1>t DEF Launch, Set
  <2>3. QED
    BY <1>17, <2>1, <2>2 DEF Launch, Over, Quiet, Members, LauncherAlive
<1>18. ASSUME NEW c \in Calls, AuthorizeStart(c)
      PROVE  \A d \in Calls : Over(d) => Over(d)'
  BY <1>18, <1>k DEF AuthorizeStart
<1>19. ASSUME NEW c \in Calls, SendStart(c)
      PROVE  \A d \in Calls : Over(d) => Over(d)'
  BY <1>19, <1>k DEF SendStart
<1>20. ASSUME NEW c \in Calls, BeginCallStop(c)
      PROVE  \A d \in Calls : Over(d) => Over(d)'
  BY <1>20, <1>k DEF BeginCallStop
<1>21. ASSUME NEW c \in Calls, FinishCall(c)
      PROVE  \A d \in Calls : Over(d) => Over(d)'
  BY <1>21, <1>k DEF FinishCall
<1>22. ASSUME NEW c \in Calls, TaskFails(c)
      PROVE  \A d \in Calls : Over(d) => Over(d)'
  BY <1>22, <1>k DEF TaskFails
<1>23. ASSUME NEW c \in Calls, Report(c)
      PROVE  \A d \in Calls : Over(d) => Over(d)'
  BY <1>23, <1>k DEF Report
<1>24. ASSUME NEW c \in Calls, Physical(c)
      PROVE  \A d \in Calls : Over(d) => Over(d)'
  BY <1>24, PhysicalKeeps DEF Kept, Physical, runtimeVars, IInv, TypeOK
<1>25. CASE SaveInterrupted
  BY <1>25, <1>k DEF SaveInterrupted
<1>26. CASE UNCHANGED vars
  BY <1>26, <1>k DEF vars
<1>27. QED
  BY <1>1, <1>2, <1>3, <1>4, <1>5, <1>6, <1>7, <1>8, <1>9, <1>10, <1>11, <1>12, <1>13, <1>14, <1>15, <1>16, <1>17, <1>18, <1>19, <1>20, <1>21, <1>22, <1>23, <1>24, <1>25, <1>26
  DEF Next, Command, StopStep, Execute

\* How far a call, its launcher and its record are is kept.
LEMMA ProgressStep ==
  IInv /\ [Next]_vars => ProgressInv'
<1> SUFFICES ASSUME IInv, [Next]_vars
             PROVE  ProgressInv'
  OBVIOUS
<1>t. /\ launcher \in [Calls -> {"none", "up", "blocked", "dead"}]
      /\ borrowed \in [Calls -> BOOLEAN]
      /\ status \in [Calls -> {"none", "intent", "registered", "running", "stopped"}]
      /\ task \in [Calls -> Unfinished \cup {"none", "ok", "error", "reported"}]
      /\ execution \in [Calls -> 0 .. Len(owners)]
      /\ Len(owners) \in Nat
  BY DEF IInv, TypeOK, LauncherTypeOK
<1>p. ProgressInv
  BY DEF IInv
<1>k. ASSUME UNCHANGED <<task, execution, launcher, rec>>
      PROVE  ProgressInv'
  BY <1>k, <1>p DEF ProgressInv, Reserved
<1> USE DEF launcherVars, lockVars, rootVars, callVars, storeVars
<1>1. ASSUME NEW p \in Procs, ReclaimOwner(p)
      PROVE  ProgressInv'
  BY <1>1, <1>k DEF ReclaimOwner
<1>2. ASSUME NEW p \in Procs, AcquireOwner(p)
      PROVE  ProgressInv'
  BY <1>2, <1>k DEF AcquireOwner
<1>3. ASSUME NEW p \in Procs, Open(p)
      PROVE  ProgressInv'
  BY <1>3, <1>k DEF Open
<1>4. ASSUME NEW p \in Procs, GiveUp(p)
      PROVE  ProgressInv'
  BY <1>4, <1>k DEF GiveUp
<1>5. ASSUME NEW p \in Procs, StopRoot(p)
      PROVE  ProgressInv'
  BY <1>5, <1>k DEF StopRoot
<1>6. ASSUME NEW p \in Procs, StopCall(p)
      PROVE  ProgressInv'
  BY <1>6, <1>k DEF StopCall
<1>7. ASSUME NEW p \in Procs, SettleCall(p)
      PROVE  ProgressInv'
  BY <1>7, <1>k DEF SettleCall
<1>8. ASSUME NEW p \in Procs, CloseRoot(p)
      PROVE  ProgressInv'
  BY <1>8, <1>k DEF CloseRoot
<1>9. ASSUME NEW p \in Procs, Refuse(p)
      PROVE  ProgressInv'
  BY <1>9, <1>k, LockKeptOrDropped
<1>10. ASSUME NEW p \in Procs, StopErrs(p)
      PROVE  ProgressInv'
  BY <1>10, <1>k, LockKeptOrDropped
<1>11. ASSUME NEW p \in Procs, Evidence(p)
      PROVE  ProgressInv'
  BY <1>11, <1>k DEF Evidence
<1>12. ASSUME NEW p \in Procs, EvidenceEnds(p)
      PROVE  ProgressInv'
  BY <1>12, <1>k, LockKeptOrDropped
<1>13. ASSUME NEW p \in Procs, Release(p)
      PROVE  ProgressInv'
  BY <1>13, <1>k DEF Release
<1>14. ASSUME NEW p \in Procs, Die(p)
      PROVE  ProgressInv'
  BY <1>14, <1>t, <1>p DEF Die, ProgressInv, Reserved, Set, Unfinished
<1>15. ASSUME NEW c \in Calls, Reserve(c)
      PROVE  ProgressInv'
  <2>1. Epoch \in Nat /\ Epoch # 0
    BY <1>15, <1>t DEF Reserve, IInv, EpochInv, Epoch
  <2>2. QED
    BY <1>15, <1>t, <1>p, <2>1 DEF Reserve, ProgressInv, Reserved, Set, Unfinished
<1>16. ASSUME NEW c \in Calls, Borrow(c)
      PROVE  ProgressInv'
  BY <1>16, <1>k DEF Borrow
<1>17. ASSUME NEW c \in Calls, Launch(c)
      PROVE  ProgressInv'
  BY <1>17, <1>t, <1>p DEF Launch, ProgressInv, Reserved, Set, Unfinished
<1>18. ASSUME NEW c \in Calls, AuthorizeStart(c)
      PROVE  ProgressInv'
  BY <1>18, <1>t, <1>p DEF AuthorizeStart, ProgressInv, Reserved, Set, Unfinished
<1>19. ASSUME NEW c \in Calls, SendStart(c)
      PROVE  ProgressInv'
  BY <1>19, <1>t, <1>p DEF SendStart, ProgressInv, Reserved, Set, Unfinished
<1>20. ASSUME NEW c \in Calls, BeginCallStop(c)
      PROVE  ProgressInv'
  BY <1>20, <1>t, <1>p DEF BeginCallStop, ProgressInv, Reserved, Set, Unfinished
<1>21. ASSUME NEW c \in Calls, FinishCall(c)
      PROVE  ProgressInv'
  BY <1>21, <1>t, <1>p DEF FinishCall, ProgressInv, Reserved, Set, Unfinished
<1>22. ASSUME NEW c \in Calls, TaskFails(c)
      PROVE  ProgressInv'
  BY <1>22, <1>t, <1>p DEF TaskFails, ProgressInv, Reserved, Set, Unfinished
<1>23. ASSUME NEW c \in Calls, Report(c)
      PROVE  ProgressInv'
  BY <1>23, <1>t, <1>p DEF Report, ProgressInv, Reserved, Set, Unfinished
<1>24. ASSUME NEW c \in Calls, Physical(c)
      PROVE  ProgressInv'
  <2>1. Kept
    BY <1>24, PhysicalKeeps DEF Physical, runtimeVars, IInv, TypeOK
  <2>2. QED
    BY <1>24, <1>t, <1>p, <2>1 DEF ProgressInv, Reserved, Kept, Physical, runtimeVars
<1>25. CASE SaveInterrupted
  BY <1>25, <1>k DEF SaveInterrupted
<1>26. CASE UNCHANGED vars
  BY <1>26, <1>k DEF vars
<1>27. QED
  BY <1>1, <1>2, <1>3, <1>4, <1>5, <1>6, <1>7, <1>8, <1>9, <1>10, <1>11, <1>12, <1>13, <1>14, <1>15, <1>16, <1>17, <1>18, <1>19, <1>20, <1>21, <1>22, <1>23, <1>24, <1>25, <1>26
  DEF Next, Command, StopStep, Execute

\* A receipt is not taken back.
LEMMA ReceiptsStay ==
  IInv /\ [Next]_vars => \A d \in Calls : status[d] = "stopped" => status'[d] = "stopped"
<1> SUFFICES ASSUME IInv, [Next]_vars
             PROVE  \A d \in Calls : status[d] = "stopped" => status'[d] = "stopped"
  OBVIOUS
<1>t. /\ launcher \in [Calls -> {"none", "up", "blocked", "dead"}]
      /\ borrowed \in [Calls -> BOOLEAN]
      /\ status \in [Calls -> {"none", "intent", "registered", "running", "stopped"}]
      /\ task \in [Calls -> Unfinished \cup {"none", "ok", "error", "reported"}]
      /\ execution \in [Calls -> 0 .. Len(owners)]
      /\ Len(owners) \in Nat
  BY DEF IInv, TypeOK, LauncherTypeOK
<1>p. ProgressInv
  BY DEF IInv
<1>r. ReceiptInv
  BY DEF IInv
<1>k. ASSUME UNCHANGED status
      PROVE  \A d \in Calls : status[d] = "stopped" => status'[d] = "stopped"
  BY <1>k
<1> USE DEF launcherVars, lockVars, rootVars, callVars, storeVars
<1>1. ASSUME NEW p \in Procs, ReclaimOwner(p)
      PROVE  \A d \in Calls : status[d] = "stopped" => status'[d] = "stopped"
  BY <1>1, <1>k DEF ReclaimOwner
<1>2. ASSUME NEW p \in Procs, AcquireOwner(p)
      PROVE  \A d \in Calls : status[d] = "stopped" => status'[d] = "stopped"
  BY <1>2, <1>k DEF AcquireOwner
<1>3. ASSUME NEW p \in Procs, Open(p)
      PROVE  \A d \in Calls : status[d] = "stopped" => status'[d] = "stopped"
  BY <1>3, <1>k DEF Open
<1>4. ASSUME NEW p \in Procs, GiveUp(p)
      PROVE  \A d \in Calls : status[d] = "stopped" => status'[d] = "stopped"
  BY <1>4, <1>k DEF GiveUp
<1>5. ASSUME NEW p \in Procs, StopRoot(p)
      PROVE  \A d \in Calls : status[d] = "stopped" => status'[d] = "stopped"
  BY <1>5, <1>k DEF StopRoot
<1>6. ASSUME NEW p \in Procs, StopCall(p)
      PROVE  \A d \in Calls : status[d] = "stopped" => status'[d] = "stopped"
  BY <1>6, <1>t DEF StopCall, Set
<1>7. ASSUME NEW p \in Procs, SettleCall(p)
      PROVE  \A d \in Calls : status[d] = "stopped" => status'[d] = "stopped"
  BY <1>7, <1>t DEF SettleCall, Set
<1>8. ASSUME NEW p \in Procs, CloseRoot(p)
      PROVE  \A d \in Calls : status[d] = "stopped" => status'[d] = "stopped"
  BY <1>8, <1>k DEF CloseRoot
<1>9. ASSUME NEW p \in Procs, Refuse(p)
      PROVE  \A d \in Calls : status[d] = "stopped" => status'[d] = "stopped"
  BY <1>9, <1>k, LockKeptOrDropped
<1>10. ASSUME NEW p \in Procs, StopErrs(p)
      PROVE  \A d \in Calls : status[d] = "stopped" => status'[d] = "stopped"
  BY <1>10, <1>k, LockKeptOrDropped
<1>11. ASSUME NEW p \in Procs, Evidence(p)
      PROVE  \A d \in Calls : status[d] = "stopped" => status'[d] = "stopped"
  BY <1>11, <1>k DEF Evidence
<1>12. ASSUME NEW p \in Procs, EvidenceEnds(p)
      PROVE  \A d \in Calls : status[d] = "stopped" => status'[d] = "stopped"
  BY <1>12, <1>k, LockKeptOrDropped
<1>13. ASSUME NEW p \in Procs, Release(p)
      PROVE  \A d \in Calls : status[d] = "stopped" => status'[d] = "stopped"
  BY <1>13, <1>k DEF Release
<1>14. ASSUME NEW p \in Procs, Die(p)
      PROVE  \A d \in Calls : status[d] = "stopped" => status'[d] = "stopped"
  BY <1>14, <1>k DEF Die
<1>15. ASSUME NEW c \in Calls, Reserve(c)
      PROVE  \A d \in Calls : status[d] = "stopped" => status'[d] = "stopped"
  <2>1. status[c] # "stopped"
    BY <1>15, <1>p, <1>r DEF Reserve, ProgressInv, ReceiptInv, Over
  <2>2. QED
    BY <1>15, <1>t, <2>1 DEF Reserve, Set
<1>16. ASSUME NEW c \in Calls, Borrow(c)
      PROVE  \A d \in Calls : status[d] = "stopped" => status'[d] = "stopped"
  BY <1>16, <1>k DEF Borrow
<1>17. ASSUME NEW c \in Calls, Launch(c)
      PROVE  \A d \in Calls : status[d] = "stopped" => status'[d] = "stopped"
  BY <1>17, <1>k DEF Launch
<1>18. ASSUME NEW c \in Calls, AuthorizeStart(c)
      PROVE  \A d \in Calls : status[d] = "stopped" => status'[d] = "stopped"
  BY <1>18, <1>t DEF AuthorizeStart, Set
<1>19. ASSUME NEW c \in Calls, SendStart(c)
      PROVE  \A d \in Calls : status[d] = "stopped" => status'[d] = "stopped"
  BY <1>19, <1>k DEF SendStart
<1>20. ASSUME NEW c \in Calls, BeginCallStop(c)
      PROVE  \A d \in Calls : status[d] = "stopped" => status'[d] = "stopped"
  BY <1>20, <1>k DEF BeginCallStop
<1>21. ASSUME NEW c \in Calls, FinishCall(c)
      PROVE  \A d \in Calls : status[d] = "stopped" => status'[d] = "stopped"
  BY <1>21, <1>t DEF FinishCall, Set
<1>22. ASSUME NEW c \in Calls, TaskFails(c)
      PROVE  \A d \in Calls : status[d] = "stopped" => status'[d] = "stopped"
  BY <1>22, <1>k DEF TaskFails
<1>23. ASSUME NEW c \in Calls, Report(c)
      PROVE  \A d \in Calls : status[d] = "stopped" => status'[d] = "stopped"
  BY <1>23, <1>k DEF Report
<1>24. ASSUME NEW c \in Calls, Physical(c)
      PROVE  \A d \in Calls : status[d] = "stopped" => status'[d] = "stopped"
  BY <1>24, <1>k DEF Physical, runtimeVars
<1>25. CASE SaveInterrupted
  BY <1>25, <1>k DEF SaveInterrupted
<1>26. CASE UNCHANGED vars
  BY <1>26, <1>k DEF vars
<1>27. QED
  BY <1>1, <1>2, <1>3, <1>4, <1>5, <1>6, <1>7, <1>8, <1>9, <1>10, <1>11, <1>12, <1>13, <1>14, <1>15, <1>16, <1>17, <1>18, <1>19, <1>20, <1>21, <1>22, <1>23, <1>24, <1>25, <1>26
  DEF Next, Command, StopStep, Execute

\* What a receipt is written on is over, and a call that had its launcher is reserved.
LEMMA SettledIsOver ==
  ASSUME IInv, NEW c \in Calls, Settled(c), Stopped(c, Members(c))
  PROVE  Over(c) /\ Reserved(c)
<1>1. launcher[c] \in {"none", "up", "blocked", "dead"}
  BY DEF IInv, TypeOK, LauncherTypeOK
<1>2. launcher[c] # "none" /\ Reserved(c)
  BY DEF IInv, ProgressInv, Settled
<1>3. Quiet(c)
  BY DEF Stopped, OthersStopped, Quiet, Alive
<1>4. QED
  BY <1>1, <1>2, <1>3 DEF Stopped, LauncherAlive, Over

\* A receipt says that the call is over.
LEMMA ReceiptStep ==
  IInv /\ [Next]_vars => ReceiptInv'
<1> SUFFICES ASSUME IInv, [Next]_vars
             PROVE  ReceiptInv'
  OBVIOUS
<1>t. /\ launcher \in [Calls -> {"none", "up", "blocked", "dead"}]
      /\ borrowed \in [Calls -> BOOLEAN]
      /\ status \in [Calls -> {"none", "intent", "registered", "running", "stopped"}]
      /\ task \in [Calls -> Unfinished \cup {"none", "ok", "error", "reported"}]
      /\ execution \in [Calls -> 0 .. Len(owners)]
      /\ Len(owners) \in Nat
  BY DEF IInv, TypeOK, LauncherTypeOK
<1>p. ProgressInv
  BY DEF IInv
<1>r. ReceiptInv
  BY DEF IInv
<1>o. \A d \in Calls : Over(d) => Over(d)'
  BY OverStays
<1>n. ASSUME \A d \in Calls : status'[d] = "stopped" => status[d] = "stopped"
      PROVE  ReceiptInv'
  BY <1>n, <1>r, <1>o DEF ReceiptInv
<1>k. ASSUME UNCHANGED status
      PROVE  ReceiptInv'
  BY <1>k, <1>n
<1> USE DEF launcherVars, lockVars, rootVars, callVars, storeVars
<1>1. ASSUME NEW p \in Procs, ReclaimOwner(p)
      PROVE  ReceiptInv'
  BY <1>1, <1>k DEF ReclaimOwner
<1>2. ASSUME NEW p \in Procs, AcquireOwner(p)
      PROVE  ReceiptInv'
  BY <1>2, <1>k DEF AcquireOwner
<1>3. ASSUME NEW p \in Procs, Open(p)
      PROVE  ReceiptInv'
  BY <1>3, <1>k DEF Open
<1>4. ASSUME NEW p \in Procs, GiveUp(p)
      PROVE  ReceiptInv'
  BY <1>4, <1>k DEF GiveUp
<1>5. ASSUME NEW p \in Procs, StopRoot(p)
      PROVE  ReceiptInv'
  BY <1>5, <1>k DEF StopRoot
<1>6. ASSUME NEW p \in Procs, StopCall(p)
      PROVE  ReceiptInv'
  BY <1>6, <1>t, <1>n DEF StopCall, Set
<1>7. ASSUME NEW p \in Procs, SettleCall(p)
      PROVE  ReceiptInv'
  <2>1. NextCall \in Calls => Over(NextCall)
    BY <1>7, SettledIsOver DEF SettleCall
  <2>2. \A d \in Calls : d # NextCall => status'[d] = status[d]
    BY <1>7, <1>t DEF SettleCall, Set
  <2>3. QED
    BY <1>o, <2>1, <2>2, <1>r DEF ReceiptInv
<1>8. ASSUME NEW p \in Procs, CloseRoot(p)
      PROVE  ReceiptInv'
  BY <1>8, <1>k DEF CloseRoot
<1>9. ASSUME NEW p \in Procs, Refuse(p)
      PROVE  ReceiptInv'
  BY <1>9, <1>k, LockKeptOrDropped
<1>10. ASSUME NEW p \in Procs, StopErrs(p)
      PROVE  ReceiptInv'
  BY <1>10, <1>k, LockKeptOrDropped
<1>11. ASSUME NEW p \in Procs, Evidence(p)
      PROVE  ReceiptInv'
  BY <1>11, <1>k DEF Evidence
<1>12. ASSUME NEW p \in Procs, EvidenceEnds(p)
      PROVE  ReceiptInv'
  BY <1>12, <1>k, LockKeptOrDropped
<1>13. ASSUME NEW p \in Procs, Release(p)
      PROVE  ReceiptInv'
  BY <1>13, <1>k DEF Release
<1>14. ASSUME NEW p \in Procs, Die(p)
      PROVE  ReceiptInv'
  BY <1>14, <1>k DEF Die
<1>15. ASSUME NEW c \in Calls, Reserve(c)
      PROVE  ReceiptInv'
  BY <1>15, <1>t, <1>n DEF Reserve, Set
<1>16. ASSUME NEW c \in Calls, Borrow(c)
      PROVE  ReceiptInv'
  BY <1>16, <1>k DEF Borrow
<1>17. ASSUME NEW c \in Calls, Launch(c)
      PROVE  ReceiptInv'
  BY <1>17, <1>k DEF Launch
<1>18. ASSUME NEW c \in Calls, AuthorizeStart(c)
      PROVE  ReceiptInv'
  BY <1>18, <1>t, <1>n DEF AuthorizeStart, Set
<1>19. ASSUME NEW c \in Calls, SendStart(c)
      PROVE  ReceiptInv'
  BY <1>19, <1>k DEF SendStart
<1>20. ASSUME NEW c \in Calls, BeginCallStop(c)
      PROVE  ReceiptInv'
  BY <1>20, <1>k DEF BeginCallStop
<1>21. ASSUME NEW c \in Calls, FinishCall(c)
      PROVE  ReceiptInv'
  <2>1. Over(c)
    BY <1>21, SettledIsOver DEF FinishCall
  <2>2. \A d \in Calls : d # c => status'[d] = status[d]
    BY <1>21, <1>t DEF FinishCall, Set
  <2>3. QED
    BY <1>o, <2>1, <2>2, <1>r DEF ReceiptInv
<1>22. ASSUME NEW c \in Calls, TaskFails(c)
      PROVE  ReceiptInv'
  BY <1>22, <1>k DEF TaskFails
<1>23. ASSUME NEW c \in Calls, Report(c)
      PROVE  ReceiptInv'
  BY <1>23, <1>k DEF Report
<1>24. ASSUME NEW c \in Calls, Physical(c)
      PROVE  ReceiptInv'
  BY <1>24, <1>k DEF Physical, runtimeVars
<1>25. CASE SaveInterrupted
  BY <1>25, <1>k DEF SaveInterrupted
<1>26. CASE UNCHANGED vars
  BY <1>26, <1>k DEF vars
<1>27. QED
  BY <1>1, <1>2, <1>3, <1>4, <1>5, <1>6, <1>7, <1>8, <1>9, <1>10, <1>11, <1>12, <1>13, <1>14, <1>15, <1>16, <1>17, <1>18, <1>19, <1>20, <1>21, <1>22, <1>23, <1>24, <1>25, <1>26
  DEF Next, Command, StopStep, Execute

-----------------------------------------------------------------------------
(* Where receipts are asked for.                                           *)

\* An execution that is unfinished has an epoch.
LEMMA EpochStep ==
  IInv /\ [Next]_vars => EpochInv'
<1> SUFFICES ASSUME IInv, [Next]_vars
             PROVE  EpochInv'
  OBVIOUS
<1>t. owners \in Seq(Owners) /\ Len(owners) \in Nat
  BY DEF IInv, TypeOK
<1>e. EpochInv
  BY DEF IInv
<1>k. ASSUME UNCHANGED <<owners, slot>>
      PROVE  EpochInv'
  BY <1>k, <1>e DEF EpochInv, Epoch
<1> USE DEF launcherVars, lockVars, rootVars, callVars, storeVars
<1>1. ASSUME NEW p \in Procs, ReclaimOwner(p)
      PROVE  EpochInv'
  BY <1>1, <1>k DEF ReclaimOwner
<1>2. ASSUME NEW p \in Procs, AcquireOwner(p)
      PROVE  EpochInv'
  BY <1>2, <1>k DEF AcquireOwner
<1>3. ASSUME NEW p \in Procs, Open(p)
      PROVE  EpochInv'
  <2>1. Len(owners') = Len(owners) + 1
    BY <1>3, <1>t DEF Open
  <2>2. QED
    BY <1>t, <2>1 DEF EpochInv, Epoch
<1>4. ASSUME NEW p \in Procs, GiveUp(p)
      PROVE  EpochInv'
  BY <1>4, <1>k DEF GiveUp
<1>5. ASSUME NEW p \in Procs, StopRoot(p)
      PROVE  EpochInv'
  BY <1>5, <1>k DEF StopRoot
<1>6. ASSUME NEW p \in Procs, StopCall(p)
      PROVE  EpochInv'
  BY <1>6, <1>k DEF StopCall
<1>7. ASSUME NEW p \in Procs, SettleCall(p)
      PROVE  EpochInv'
  BY <1>7, <1>k DEF SettleCall
<1>8. ASSUME NEW p \in Procs, CloseRoot(p)
      PROVE  EpochInv'
  BY <1>8, <1>t, <1>e DEF CloseRoot, EpochInv, Epoch
<1>9. ASSUME NEW p \in Procs, Refuse(p)
      PROVE  EpochInv'
  BY <1>9, <1>k, LockKeptOrDropped
<1>10. ASSUME NEW p \in Procs, StopErrs(p)
      PROVE  EpochInv'
  BY <1>10, <1>k, LockKeptOrDropped
<1>11. ASSUME NEW p \in Procs, Evidence(p)
      PROVE  EpochInv'
  BY <1>11, <1>k DEF Evidence
<1>12. ASSUME NEW p \in Procs, EvidenceEnds(p)
      PROVE  EpochInv'
  BY <1>12, <1>k, LockKeptOrDropped
<1>13. ASSUME NEW p \in Procs, Release(p)
      PROVE  EpochInv'
  BY <1>13, <1>k DEF Release
<1>14. ASSUME NEW p \in Procs, Die(p)
      PROVE  EpochInv'
  BY <1>14, <1>k DEF Die
<1>15. ASSUME NEW c \in Calls, Reserve(c)
      PROVE  EpochInv'
  BY <1>15, <1>t, <1>e DEF Reserve, EpochInv, Epoch
<1>16. ASSUME NEW c \in Calls, Borrow(c)
      PROVE  EpochInv'
  BY <1>16, <1>k DEF Borrow
<1>17. ASSUME NEW c \in Calls, Launch(c)
      PROVE  EpochInv'
  BY <1>17, <1>k DEF Launch
<1>18. ASSUME NEW c \in Calls, AuthorizeStart(c)
      PROVE  EpochInv'
  BY <1>18, <1>k DEF AuthorizeStart
<1>19. ASSUME NEW c \in Calls, SendStart(c)
      PROVE  EpochInv'
  BY <1>19, <1>k DEF SendStart
<1>20. ASSUME NEW c \in Calls, BeginCallStop(c)
      PROVE  EpochInv'
  BY <1>20, <1>k DEF BeginCallStop
<1>21. ASSUME NEW c \in Calls, FinishCall(c)
      PROVE  EpochInv'
  BY <1>21, <1>k DEF FinishCall
<1>22. ASSUME NEW c \in Calls, TaskFails(c)
      PROVE  EpochInv'
  BY <1>22, <1>k DEF TaskFails
<1>23. ASSUME NEW c \in Calls, Report(c)
      PROVE  EpochInv'
  BY <1>23, <1>k DEF Report
<1>24. ASSUME NEW c \in Calls, Physical(c)
      PROVE  EpochInv'
  BY <1>24, <1>k DEF Physical, runtimeVars
<1>25. CASE SaveInterrupted
  BY <1>25, <1>k DEF SaveInterrupted
<1>26. CASE UNCHANGED vars
  BY <1>26, <1>k DEF vars
<1>27. QED
  BY <1>1, <1>2, <1>3, <1>4, <1>5, <1>6, <1>7, <1>8, <1>9, <1>10, <1>11, <1>12, <1>13, <1>14, <1>15, <1>16, <1>17, <1>18, <1>19, <1>20, <1>21, <1>22, <1>23, <1>24, <1>25, <1>26
  DEF Next, Command, StopStep, Execute

\* Calls outside the open execution have their receipts.
LEMMA ClosedStep ==
  IInv /\ [Next]_vars => ClosedInv'
<1> SUFFICES ASSUME IInv, [Next]_vars
             PROVE  ClosedInv'
  OBVIOUS
<1>t. /\ launcher \in [Calls -> {"none", "up", "blocked", "dead"}]
      /\ borrowed \in [Calls -> BOOLEAN]
      /\ status \in [Calls -> {"none", "intent", "registered", "running", "stopped"}]
      /\ task \in [Calls -> Unfinished \cup {"none", "ok", "error", "reported"}]
      /\ execution \in [Calls -> 0 .. Len(owners)]
      /\ Len(owners) \in Nat
  BY DEF IInv, TypeOK, LauncherTypeOK
<1>p. ProgressInv
  BY DEF IInv
<1>u. owners \in Seq(Owners)
  BY DEF IInv, TypeOK
<1>c. ClosedInv
  BY DEF IInv
<1>s. \A d \in Calls : status[d] = "stopped" => status'[d] = "stopped"
  BY ReceiptsStay
<1>k. ASSUME UNCHANGED <<owners, slot, execution>>
      PROVE  ClosedInv'
  BY <1>k, <1>c, <1>s DEF ClosedInv, Reserved, Current, Epoch
<1> USE DEF launcherVars, lockVars, rootVars, callVars, storeVars
<1>1. ASSUME NEW p \in Procs, ReclaimOwner(p)
      PROVE  ClosedInv'
  BY <1>1, <1>k DEF ReclaimOwner
<1>2. ASSUME NEW p \in Procs, AcquireOwner(p)
      PROVE  ClosedInv'
  BY <1>2, <1>k DEF AcquireOwner
<1>3. ASSUME NEW p \in Procs, Open(p)
      PROVE  ClosedInv'
  <2>1. Len(owners') = Len(owners) + 1
    BY <1>3, <1>u DEF Open
  <2>2. QED
    BY <1>3, <1>t, <1>c, <1>s, <2>1 DEF Open, ClosedInv, Current, Reserved, Epoch
<1>4. ASSUME NEW p \in Procs, GiveUp(p)
      PROVE  ClosedInv'
  BY <1>4, <1>k DEF GiveUp
<1>5. ASSUME NEW p \in Procs, StopRoot(p)
      PROVE  ClosedInv'
  BY <1>5, <1>k DEF StopRoot
<1>6. ASSUME NEW p \in Procs, StopCall(p)
      PROVE  ClosedInv'
  BY <1>6, <1>k DEF StopCall
<1>7. ASSUME NEW p \in Procs, SettleCall(p)
      PROVE  ClosedInv'
  BY <1>7, <1>k DEF SettleCall
<1>8. ASSUME NEW p \in Procs, CloseRoot(p)
      PROVE  ClosedInv'
  <2>1. \A d \in Calls : Current(d) => status[d] = "stopped"
    BY <1>8 DEF CloseRoot, Unreceipted
  <2>2. \A d \in Calls : Reserved(d)' <=> Reserved(d)
    BY <1>8 DEF CloseRoot, Reserved
  <2>3. QED
    BY <1>c, <1>s, <2>1, <2>2 DEF ClosedInv
<1>9. ASSUME NEW p \in Procs, Refuse(p)
      PROVE  ClosedInv'
  BY <1>9, <1>k, LockKeptOrDropped
<1>10. ASSUME NEW p \in Procs, StopErrs(p)
      PROVE  ClosedInv'
  BY <1>10, <1>k, LockKeptOrDropped
<1>11. ASSUME NEW p \in Procs, Evidence(p)
      PROVE  ClosedInv'
  BY <1>11, <1>k DEF Evidence
<1>12. ASSUME NEW p \in Procs, EvidenceEnds(p)
      PROVE  ClosedInv'
  BY <1>12, <1>k, LockKeptOrDropped
<1>13. ASSUME NEW p \in Procs, Release(p)
      PROVE  ClosedInv'
  BY <1>13, <1>k DEF Release
<1>14. ASSUME NEW p \in Procs, Die(p)
      PROVE  ClosedInv'
  BY <1>14, <1>k DEF Die
<1>15. ASSUME NEW c \in Calls, Reserve(c)
      PROVE  ClosedInv'
  <2>1. Current(c)'
    BY <1>15, <1>t DEF Reserve, Current, Epoch, Set
  <2>2. \A d \in Calls : d # c => (Reserved(d)' <=> Reserved(d)) /\ (Current(d)' <=> Current(d))
    BY <1>15, <1>t DEF Reserve, Reserved, Current, Epoch, Set
  <2>3. QED
    BY <1>c, <1>s, <2>1, <2>2 DEF ClosedInv
<1>16. ASSUME NEW c \in Calls, Borrow(c)
      PROVE  ClosedInv'
  BY <1>16, <1>k DEF Borrow
<1>17. ASSUME NEW c \in Calls, Launch(c)
      PROVE  ClosedInv'
  BY <1>17, <1>k DEF Launch
<1>18. ASSUME NEW c \in Calls, AuthorizeStart(c)
      PROVE  ClosedInv'
  BY <1>18, <1>k DEF AuthorizeStart
<1>19. ASSUME NEW c \in Calls, SendStart(c)
      PROVE  ClosedInv'
  BY <1>19, <1>k DEF SendStart
<1>20. ASSUME NEW c \in Calls, BeginCallStop(c)
      PROVE  ClosedInv'
  BY <1>20, <1>k DEF BeginCallStop
<1>21. ASSUME NEW c \in Calls, FinishCall(c)
      PROVE  ClosedInv'
  BY <1>21, <1>k DEF FinishCall
<1>22. ASSUME NEW c \in Calls, TaskFails(c)
      PROVE  ClosedInv'
  BY <1>22, <1>k DEF TaskFails
<1>23. ASSUME NEW c \in Calls, Report(c)
      PROVE  ClosedInv'
  BY <1>23, <1>k DEF Report
<1>24. ASSUME NEW c \in Calls, Physical(c)
      PROVE  ClosedInv'
  BY <1>24, <1>k DEF Physical, runtimeVars
<1>25. CASE SaveInterrupted
  BY <1>25, <1>k DEF SaveInterrupted
<1>26. CASE UNCHANGED vars
  BY <1>26, <1>k DEF vars
<1>27. QED
  BY <1>1, <1>2, <1>3, <1>4, <1>5, <1>6, <1>7, <1>8, <1>9, <1>10, <1>11, <1>12, <1>13, <1>14, <1>15, <1>16, <1>17, <1>18, <1>19, <1>20, <1>21, <1>22, <1>23, <1>24, <1>25, <1>26
  DEF Next, Command, StopStep, Execute

\* While recovery evidence is held no call is added.
LEMMA EvidenceStep ==
  IInv /\ [Next]_vars => EvidenceInv'
<1> SUFFICES ASSUME IInv, [Next]_vars
             PROVE  EvidenceInv'
  OBVIOUS
<1>pc. pc \in [Procs -> {"idle", "acquired", "open", "evidence", "closed", "failed"} \cup StopLabels]
  BY DEF IInv, TypeOK
<1>e. EvidenceInv
  BY DEF IInv
<1>s. \A d \in Calls : status[d] = "stopped" => status'[d] = "stopped"
  BY ReceiptsStay
<1>k. ASSUME UNCHANGED execution,
             \A q \in Procs : pc'[q] = "evidence" => pc[q] = "evidence"
      PROVE  EvidenceInv'
  BY <1>k, <1>e, <1>s DEF EvidenceInv, Reserved
<1> USE DEF launcherVars, lockVars, rootVars, callVars, storeVars
<1>1. ASSUME NEW p \in Procs, ReclaimOwner(p)
      PROVE  EvidenceInv'
  BY <1>1, <1>k, <1>pc DEF ReclaimOwner, Goto
<1>2. ASSUME NEW p \in Procs, AcquireOwner(p)
      PROVE  EvidenceInv'
  BY <1>2, <1>k, <1>pc DEF AcquireOwner, Goto
<1>3. ASSUME NEW p \in Procs, Open(p)
      PROVE  EvidenceInv'
  BY <1>3, <1>k, <1>pc DEF Open, Goto
<1>4. ASSUME NEW p \in Procs, GiveUp(p)
      PROVE  EvidenceInv'
  BY <1>4, <1>k, <1>pc DEF GiveUp, Goto
<1>5. ASSUME NEW p \in Procs, StopRoot(p)
      PROVE  EvidenceInv'
  BY <1>5, <1>k, <1>pc DEF StopRoot, Goto
<1>6. ASSUME NEW p \in Procs, StopCall(p)
      PROVE  EvidenceInv'
  BY <1>6, <1>k, <1>pc DEF StopCall, Goto
<1>7. ASSUME NEW p \in Procs, SettleCall(p)
      PROVE  EvidenceInv'
  BY <1>7, <1>k, <1>pc DEF SettleCall, Goto
<1>8. ASSUME NEW p \in Procs, CloseRoot(p)
      PROVE  EvidenceInv'
  BY <1>8, <1>k, <1>pc DEF CloseRoot, Goto
<1>9. ASSUME NEW p \in Procs, Refuse(p)
      PROVE  EvidenceInv'
  BY <1>9, <1>k, <1>pc, LockKeptOrDropped DEF Goto
<1>10. ASSUME NEW p \in Procs, StopErrs(p)
      PROVE  EvidenceInv'
  BY <1>10, <1>k, <1>pc, LockKeptOrDropped DEF Goto
<1>11. ASSUME NEW p \in Procs, Evidence(p)
      PROVE  EvidenceInv'
  <2>1. \A d \in Calls : Reserved(d) => status[d] = "stopped"
    BY <1>11 DEF Evidence
  <2>2. UNCHANGED execution
    BY <1>11 DEF Evidence
  <2>3. QED
    BY <1>s, <2>1, <2>2 DEF EvidenceInv, Reserved
<1>12. ASSUME NEW p \in Procs, EvidenceEnds(p)
      PROVE  EvidenceInv'
  BY <1>12, <1>k, <1>pc, LockKeptOrDropped DEF Goto
<1>13. ASSUME NEW p \in Procs, Release(p)
      PROVE  EvidenceInv'
  BY <1>13, <1>k, <1>pc DEF Release, Goto
<1>14. ASSUME NEW p \in Procs, Die(p)
      PROVE  EvidenceInv'
  BY <1>14, <1>k, <1>pc DEF Die, Goto
<1>15. ASSUME NEW c \in Calls, Reserve(c)
      PROVE  EvidenceInv'
  <2>1. \A q \in Procs : pc'[q] # "evidence"
    BY <1>15 DEF Reserve, Enter, AdmissionFree
  <2>2. QED
    BY <2>1 DEF EvidenceInv
<1>16. ASSUME NEW c \in Calls, Borrow(c)
      PROVE  EvidenceInv'
  BY <1>16, <1>k DEF Borrow
<1>17. ASSUME NEW c \in Calls, Launch(c)
      PROVE  EvidenceInv'
  BY <1>17, <1>k DEF Launch
<1>18. ASSUME NEW c \in Calls, AuthorizeStart(c)
      PROVE  EvidenceInv'
  BY <1>18, <1>k DEF AuthorizeStart
<1>19. ASSUME NEW c \in Calls, SendStart(c)
      PROVE  EvidenceInv'
  BY <1>19, <1>k DEF SendStart
<1>20. ASSUME NEW c \in Calls, BeginCallStop(c)
      PROVE  EvidenceInv'
  BY <1>20, <1>k DEF BeginCallStop
<1>21. ASSUME NEW c \in Calls, FinishCall(c)
      PROVE  EvidenceInv'
  BY <1>21, <1>k DEF FinishCall
<1>22. ASSUME NEW c \in Calls, TaskFails(c)
      PROVE  EvidenceInv'
  BY <1>22, <1>k DEF TaskFails
<1>23. ASSUME NEW c \in Calls, Report(c)
      PROVE  EvidenceInv'
  BY <1>23, <1>k DEF Report
<1>24. ASSUME NEW c \in Calls, Physical(c)
      PROVE  EvidenceInv'
  BY <1>24, <1>k DEF Physical, runtimeVars
<1>25. CASE SaveInterrupted
  BY <1>25, <1>k DEF SaveInterrupted
<1>26. CASE UNCHANGED vars
  BY <1>26, <1>k DEF vars
<1>27. QED
  BY <1>1, <1>2, <1>3, <1>4, <1>5, <1>6, <1>7, <1>8, <1>9, <1>10, <1>11, <1>12, <1>13, <1>14, <1>15, <1>16, <1>17, <1>18, <1>19, <1>20, <1>21, <1>22, <1>23, <1>24, <1>25, <1>26
  DEF Next, Command, StopStep, Execute

\* A call that has succeeded gets no nested call any more.
LEMMA LineageStep ==
  IInv /\ [Next]_vars => LineageInv'
<1> SUFFICES ASSUME IInv, [Next]_vars
             PROVE  LineageInv'
  OBVIOUS
<1>t. /\ launcher \in [Calls -> {"none", "up", "blocked", "dead"}]
      /\ borrowed \in [Calls -> BOOLEAN]
      /\ status \in [Calls -> {"none", "intent", "registered", "running", "stopped"}]
      /\ task \in [Calls -> Unfinished \cup {"none", "ok", "error", "reported"}]
      /\ execution \in [Calls -> 0 .. Len(owners)]
      /\ Len(owners) \in Nat
  BY DEF IInv, TypeOK, LauncherTypeOK
<1>p. ProgressInv
  BY DEF IInv
<1>a. None \notin Calls
  BY RuntimeAssumption
<1>l. LineageInv
  BY DEF IInv
<1>s. \A d \in Calls : status[d] = "stopped" => status'[d] = "stopped"
  BY ReceiptsStay
<1>k. ASSUME UNCHANGED execution,
             \A d \in Calls : task'[d] = "ok" => task[d] = "ok"
      PROVE  LineageInv'
  <2>1. \A d \in Calls : Children(d)' = Children(d)
    BY <1>k DEF Children, Reserved
  <2>2. QED
    BY <1>k, <1>l, <1>s, <2>1 DEF LineageInv, Children
<1> USE DEF launcherVars, lockVars, rootVars, callVars, storeVars
<1>1. ASSUME NEW p \in Procs, ReclaimOwner(p)
      PROVE  LineageInv'
  BY <1>1, <1>k DEF ReclaimOwner
<1>2. ASSUME NEW p \in Procs, AcquireOwner(p)
      PROVE  LineageInv'
  BY <1>2, <1>k DEF AcquireOwner
<1>3. ASSUME NEW p \in Procs, Open(p)
      PROVE  LineageInv'
  BY <1>3, <1>k DEF Open
<1>4. ASSUME NEW p \in Procs, GiveUp(p)
      PROVE  LineageInv'
  BY <1>4, <1>k DEF GiveUp
<1>5. ASSUME NEW p \in Procs, StopRoot(p)
      PROVE  LineageInv'
  BY <1>5, <1>k DEF StopRoot
<1>6. ASSUME NEW p \in Procs, StopCall(p)
      PROVE  LineageInv'
  BY <1>6, <1>k DEF StopCall
<1>7. ASSUME NEW p \in Procs, SettleCall(p)
      PROVE  LineageInv'
  BY <1>7, <1>k DEF SettleCall
<1>8. ASSUME NEW p \in Procs, CloseRoot(p)
      PROVE  LineageInv'
  BY <1>8, <1>k DEF CloseRoot
<1>9. ASSUME NEW p \in Procs, Refuse(p)
      PROVE  LineageInv'
  BY <1>9, <1>k, LockKeptOrDropped
<1>10. ASSUME NEW p \in Procs, StopErrs(p)
      PROVE  LineageInv'
  BY <1>10, <1>k, LockKeptOrDropped
<1>11. ASSUME NEW p \in Procs, Evidence(p)
      PROVE  LineageInv'
  BY <1>11, <1>k DEF Evidence
<1>12. ASSUME NEW p \in Procs, EvidenceEnds(p)
      PROVE  LineageInv'
  BY <1>12, <1>k, LockKeptOrDropped
<1>13. ASSUME NEW p \in Procs, Release(p)
      PROVE  LineageInv'
  BY <1>13, <1>k DEF Release
<1>14. ASSUME NEW p \in Procs, Die(p)
      PROVE  LineageInv'
  BY <1>14, <1>k, <1>t DEF Die, Set, Unfinished
<1>15. ASSUME NEW c \in Calls, Reserve(c)
      PROVE  LineageInv'
  <2>1. \A d \in Calls : task'[d] = "ok" => task[d] = "ok" /\ d # c
    BY <1>15, <1>t DEF Reserve, Set
  <2>2. \A d \in Calls : task[d] = "ok" => Lineage[c] # d
    BY <1>15, <1>l, <1>a DEF Reserve, Delegated, LineageInv
  <2>3. \A d \in Calls : task[d] = "ok" => Children(d)' = Children(d)
    BY <1>15, <1>t, <2>2 DEF Reserve, Children, Reserved, Set
  <2>4. QED
    BY <1>l, <1>s, <2>1, <2>3 DEF LineageInv, Children
<1>16. ASSUME NEW c \in Calls, Borrow(c)
      PROVE  LineageInv'
  BY <1>16, <1>k DEF Borrow
<1>17. ASSUME NEW c \in Calls, Launch(c)
      PROVE  LineageInv'
  BY <1>17, <1>k, <1>t DEF Launch, Set, Unfinished
<1>18. ASSUME NEW c \in Calls, AuthorizeStart(c)
      PROVE  LineageInv'
  BY <1>18, <1>k, <1>t DEF AuthorizeStart, Set, Unfinished
<1>19. ASSUME NEW c \in Calls, SendStart(c)
      PROVE  LineageInv'
  BY <1>19, <1>k, <1>t DEF SendStart, Set, Unfinished
<1>20. ASSUME NEW c \in Calls, BeginCallStop(c)
      PROVE  LineageInv'
  BY <1>20, <1>k, <1>t DEF BeginCallStop, Set, Unfinished
<1>21. ASSUME NEW c \in Calls, FinishCall(c)
      PROVE  LineageInv'
  <2>1. status'[c] = "stopped" /\ (task'[c] = "ok" => SubtreeSettled(c))
    BY <1>21, <1>t DEF FinishCall, Set
  <2>2. \A d \in Calls : d # c => task'[d] = task[d]
    BY <1>21, <1>t DEF FinishCall, Set
  <2>3. \A d \in Calls : Children(d)' = Children(d)
    BY <1>21 DEF FinishCall, Children, Reserved
  <2>4. \A d, e \in Calls : e \in Children(d) => e \in Calls
    BY DEF Children
  <2>5. QED
    BY <1>l, <1>s, <2>1, <2>2, <2>3, <2>4 DEF LineageInv, SubtreeSettled, Children
<1>22. ASSUME NEW c \in Calls, TaskFails(c)
      PROVE  LineageInv'
  BY <1>22, <1>k, <1>t DEF TaskFails, Set, Unfinished
<1>23. ASSUME NEW c \in Calls, Report(c)
      PROVE  LineageInv'
  BY <1>23, <1>k, <1>t DEF Report, Set, Unfinished
<1>24. ASSUME NEW c \in Calls, Physical(c)
      PROVE  LineageInv'
  BY <1>24, <1>k DEF Physical, runtimeVars
<1>25. CASE SaveInterrupted
  BY <1>25, <1>k DEF SaveInterrupted
<1>26. CASE UNCHANGED vars
  BY <1>26, <1>k DEF vars
<1>27. QED
  BY <1>1, <1>2, <1>3, <1>4, <1>5, <1>6, <1>7, <1>8, <1>9, <1>10, <1>11, <1>12, <1>13, <1>14, <1>15, <1>16, <1>17, <1>18, <1>19, <1>20, <1>21, <1>22, <1>23, <1>24, <1>25, <1>26
  DEF Next, Command, StopStep, Execute

-----------------------------------------------------------------------------
(* The theorems.                                                           *)

LEMMA InitInv == Init => IInv
<1> SUFFICES ASSUME Init
             PROVE  IInv
  OBVIOUS
<1> USE DEF Init, LauncherInit, OwnerLock!LockInit
<1>1. TypeOK
  <2>1. LauncherTypeOK
    BY DEF LauncherTypeOK, Group
  <2>2. owners \in Seq(Owners) /\ Len(owners) = 0
    OBVIOUS
  <2>3. execution \in [Calls -> 0 .. Len(owners)]
    BY <2>2
  <2>4. slot \in BOOLEAN /\ accepting \in BOOLEAN /\ transition \in BOOLEAN
    BY Zenon
  <2>5. QED
    BY <2>1, <2>2, <2>3, <2>4 DEF TypeOK, Unfinished, StopLabels
<1>2. OwnerInv /\ EvidenceInv
  BY DEF OwnerInv, EvidenceInv
<1>3. ProgressInv /\ EpochInv
  BY DEF ProgressInv, EpochInv, Reserved
<1>4. ReceiptInv /\ ClosedInv /\ LineageInv
  BY DEF ReceiptInv, ClosedInv, LineageInv, Reserved
<1>5. QED
  BY <1>1, <1>2, <1>3, <1>4 DEF IInv

LEMMA NextInv == IInv /\ [Next]_vars => IInv'
  BY TypeStep, OwnerStep, EpochStep, ProgressStep, ReceiptStep, ClosedStep, EvidenceStep, LineageStep
  DEF IInv

LEMMA Invariance == Spec => []IInv
  BY InitInv, NextInv, PTL DEF Spec

\* Every variable of the runtime and of the launchers keeps its type.
THEOREM TypeCorrect == Spec => []TypeOK
<1>1. IInv => TypeOK
  BY DEF IInv
<1>2. QED
  BY <1>1, Invariance, PTL

\* acquire, close and withRecoveryEvidence: one command at a time works on a checkout,
\* whoever dies and however often the lock of a dead owner is reclaimed.
THEOREM OneCommandHolds == Spec => []OneCommand
<1>1. IInv => OneCommand
  BY OwnerOfProc DEF IInv, OwnerInv, OneCommand
<1>2. QED
  BY <1>1, Invariance, PTL

\* finishCall and #stopRoot: what has a stop receipt has ended for good.
THEOREM StopReceiptIsFinalHolds == Spec => []StopReceiptIsFinal
<1>1. IInv => StopReceiptIsFinal
  BY DEF IInv, ReceiptInv, Over, StopReceiptIsFinal
<1>2. QED
  BY <1>1, Invariance, PTL

\* acquire and #stopRoot: an execution is closed, and the next one opened, only when
\* nothing of it runs.
THEOREM ExecutionsDoNotOverlapHolds == Spec => []ExecutionsDoNotOverlap
<1>1. IInv => ExecutionsDoNotOverlap
  BY DEF IInv, ReceiptInv, ClosedInv, Over, ExecutionsDoNotOverlap
<1>2. QED
  BY <1>1, Invariance, PTL

\* withRecoveryEvidence: nothing runs, or is reserved, while its caller commits.
THEOREM EvidenceMeansQuietHolds == Spec => []EvidenceMeansQuiet
<1>1. IInv => EvidenceMeansQuiet
  BY DEF IInv, ReceiptInv, EvidenceInv, Over, EvidenceMeansQuiet
<1>2. QED
  BY <1>1, Invariance, PTL

\* finishCall and #assertSubtreeSettled: a call that has succeeded answers for its
\* nested calls, also for those that are reserved while it ends.
THEOREM SuccessCoversLineageHolds == Spec => []SuccessCoversLineage
<1>1. IInv => SuccessCoversLineage
  BY DEF IInv, ReceiptInv, LineageInv, Over, SuccessCoversLineage, Children
<1>2. QED
  BY <1>1, Invariance, PTL

===============================================================================
