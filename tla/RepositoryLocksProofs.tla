------------------------ MODULE RepositoryLocksProofs ------------------------
(***************************************************************************)
(* Proofs about RepositoryLocks for any number of processes, tokens and    *)
(* births, with and without faults. The inductive invariant says, for each *)
(* of the two locks, who the lock names at every point of its protocol.    *)
(***************************************************************************)
EXTENDS RepositoryLocks, TLAPS

OwnsMaintenance(p) == mpc[p] \in {"check", "held", "backoff"}
OwnsFlowOperation(p) == fpc[p] \notin {"idle", "before", "acquire"}

OwnerOf(p, token) == [proc |-> p, birth |-> birth[p], token |-> token]

\* The lock names the process from the core acquire to the core release.
NamedInv ==
  \A p \in Procs :
    /\ OwnsMaintenance(p) => maintenance = OwnerOf(p, mToken[p]) /\ mToken[p] \in Nat
    /\ OwnsFlowOperation(p) => flowOperation = OwnerOf(p, fToken[p]) /\ fToken[p] \in Nat

\* No record is younger than the running birth of its slot.
BirthInv ==
  /\ maintenance # None => maintenance.birth <= birth[maintenance.proc]
  /\ flowOperation # None => flowOperation.birth <= birth[flowOperation.proc]

\* Reported residue is there, is the process's own, and is reported once.
ResidueInv ==
  \A p \in Procs :
    /\ ("maintenanceLock" \in residue[p] \/ "maintenanceVisible" \in residue[p]) =>
         /\ maintenance # None /\ maintenance.proc = p /\ Live(maintenance)
         /\ ~OwnsMaintenance(p)
         /\ ~("maintenanceLock" \in residue[p] /\ "maintenanceVisible" \in residue[p])
    /\ ("flowOperationLock" \in residue[p] \/ "flowOperationVisible" \in residue[p]) =>
         /\ flowOperation # None /\ flowOperation.proc = p /\ Live(flowOperation)
         /\ ~OwnsFlowOperation(p)
         /\ ~("flowOperationLock" \in residue[p] /\ "flowOperationVisible" \in residue[p])

IInv ==
  /\ TypeOK
  /\ NamedInv
  /\ BirthInv
  /\ ResidueInv
  /\ NoSilentResidue
  /\ MaintenanceExcludesFlow

-----------------------------------------------------------------------------
\* Every step keeps the types.
LEMMA TypeStep ==
  TypeOK /\ [Next]_vars => TypeOK'
<1> SUFFICES ASSUME TypeOK, [Next]_vars
             PROVE  TypeOK'
  OBVIOUS
<1> USE DEF TypeOK, Tokens, Owners, Residues, MLabels, FLabels
<1>1. ASSUME NEW p \in Procs, StartMaintenance(p)
     PROVE  TypeOK'
  BY <1>1, RepositoryAssumption DEF StartMaintenance, MGoto, lockState, fVars
<1>2. ASSUME NEW p \in Procs, MaintenanceReclaim(p)
     PROVE  TypeOK'
  BY <1>2, RepositoryAssumption DEF MaintenanceReclaim, Maintenance!Reclaim, mVars, fVars
<1>3. ASSUME NEW p \in Procs, MaintenanceTake(p)
     PROVE  TypeOK'
  BY <1>3, RepositoryAssumption DEF MaintenanceTake, Maintenance!TakeAs, NewOwner, MGoto, fVars
<1>4. ASSUME NEW p \in Procs, MaintenanceTakeFails(p)
     PROVE  TypeOK'
  BY <1>4, RepositoryAssumption DEF MaintenanceTakeFails, Maintenance!TakeAs, NewOwner, MGoto, fVars
<1>5. ASSUME NEW p \in Procs, MaintenanceBusy(p)
     PROVE  TypeOK'
  BY <1>5, RepositoryAssumption DEF MaintenanceBusy, MGoto, lockState, fVars
<1>6. ASSUME NEW p \in Procs, MaintenanceCheck(p)
     PROVE  TypeOK'
  BY <1>6, RepositoryAssumption DEF MaintenanceCheck, MGoto, lockState, fVars
<1>7. ASSUME NEW p \in Procs, MaintenanceRelease(p)
     PROVE  TypeOK'
  BY <1>7, RepositoryAssumption DEF MaintenanceRelease, Maintenance!Drop, MGoto, fVars
<1>8. ASSUME NEW p \in Procs, MaintenanceBackoffFails(p)
     PROVE  TypeOK'
  BY <1>8, RepositoryAssumption DEF MaintenanceBackoffFails, MGoto, lockState, fVars
<1>9. ASSUME NEW p \in Procs, MaintenanceReleaseAgain(p)
     PROVE  TypeOK'
  BY <1>9, RepositoryAssumption DEF MaintenanceReleaseAgain, Maintenance!Drop, mVars, fVars
<1>10. ASSUME NEW p \in Procs, StartFlow(p)
     PROVE  TypeOK'
  BY <1>10, RepositoryAssumption DEF StartFlow, Grantable, FGoto, lockState, mVars
<1>11. ASSUME NEW p \in Procs, FlowBefore(p)
     PROVE  TypeOK'
  BY <1>11, RepositoryAssumption DEF FlowBefore, FGoto, FlowThrows, lockState, mVars
<1>12. ASSUME NEW p \in Procs, FlowReclaim(p)
     PROVE  TypeOK'
  BY <1>12, RepositoryAssumption DEF FlowReclaim, FlowOperation!Reclaim, mVars, fVars
<1>13. ASSUME NEW p \in Procs, FlowTake(p)
     PROVE  TypeOK'
  BY <1>13, RepositoryAssumption DEF FlowTake, FlowOperation!TakeAs, NewOwner, FGoto, mVars
<1>14. ASSUME NEW p \in Procs, FlowTakeFails(p)
     PROVE  TypeOK'
  BY <1>14, RepositoryAssumption DEF FlowTakeFails, FlowOperation!TakeAs, NewOwner, FGoto, FlowThrows, mVars
<1>15. ASSUME NEW p \in Procs, FlowBusy(p)
     PROVE  TypeOK'
  BY <1>15, RepositoryAssumption DEF FlowBusy, FGoto, FlowThrows, lockState, mVars
<1>16. ASSUME NEW p \in Procs, FlowAfter(p)
     PROVE  TypeOK'
  BY <1>16, RepositoryAssumption DEF FlowAfter, FGoto, lockState, mVars
<1>17. ASSUME NEW p \in Procs, FlowRelease(p)
     PROVE  TypeOK'
  BY <1>17, RepositoryAssumption DEF FlowRelease, FlowOperation!Drop, FGoto, FlowThrows, mVars
<1>18. ASSUME NEW p \in Procs, FlowBackoffFails(p)
     PROVE  TypeOK'
  BY <1>18, RepositoryAssumption DEF FlowBackoffFails, FGoto, FlowThrows, lockState, mVars
<1>19. ASSUME NEW p \in Procs, FlowReleaseAgain(p)
     PROVE  TypeOK'
  BY <1>19, RepositoryAssumption DEF FlowReleaseAgain, FlowOperation!Drop, mVars, fVars
<1>20. ASSUME NEW p \in Procs, StartNested(p)
     PROVE  TypeOK'
  BY <1>20, RepositoryAssumption DEF StartNested, FGoto, lockState, mVars
<1>21. ASSUME NEW p \in Procs, NestedBefore(p)
     PROVE  TypeOK'
  BY <1>21, RepositoryAssumption DEF NestedBefore, FGoto, lockState, mVars
<1>22. ASSUME NEW p \in Procs, NestedInspect(p)
     PROVE  TypeOK'
  BY <1>22, RepositoryAssumption DEF NestedInspect, FGoto, lockState, mVars
<1>23. ASSUME NEW p \in Procs, NestedRelease(p)
     PROVE  TypeOK'
  BY <1>23, RepositoryAssumption DEF NestedRelease, FGoto, lockState, mVars
<1>24. ASSUME NEW p \in Procs, Crash(p)
     PROVE  TypeOK'
  BY <1>24, RepositoryAssumption DEF Crash, Maintenance!Die, MGoto, FGoto
<1>25. CASE UNCHANGED vars
  BY <1>25 DEF vars, lockState, mVars, fVars
<1>26. QED
  BY <1>1, <1>2, <1>3, <1>4, <1>5, <1>6, <1>7, <1>8, <1>9, <1>10, <1>11, <1>12, <1>13, <1>14, <1>15, <1>16, <1>17, <1>18, <1>19, <1>20, <1>21, <1>22, <1>23, <1>24, <1>25 DEF Next

\* Every step keeps the inductive invariant.
LEMMA InvStep ==
  IInv /\ [Next]_vars => IInv'
<1> SUFFICES ASSUME IInv, [Next]_vars
             PROVE  IInv'
  OBVIOUS
<1>t. TypeOK'
  BY TypeStep DEF IInv
<1> USE <1>t, RepositoryAssumption DEF IInv, TypeOK, Tokens, Owners
<1>1. ASSUME NEW p \in Procs, StartMaintenance(p)
     PROVE  IInv'
  BY <1>1 DEF StartMaintenance, MGoto, lockState, fVars, NamedInv, BirthInv, ResidueInv, NoSilentResidue, MaintenanceExcludesFlow, InMaintenance, InFlowOperation, OwnsMaintenance, OwnsFlowOperation, OwnerOf, Live
<1>2. ASSUME NEW p \in Procs, MaintenanceReclaim(p)
     PROVE  IInv'
  <2>1. NamedInv'
    BY <1>2 DEF MaintenanceReclaim, Maintenance!Reclaim, Maintenance!Live, mVars, fVars, NamedInv, OwnsMaintenance, OwnsFlowOperation, OwnerOf, ResidueInv, Live
  <2>2. BirthInv'
    BY <1>2 DEF MaintenanceReclaim, Maintenance!Reclaim, Maintenance!Live, mVars, fVars, BirthInv
  <2>3. ResidueInv'
    BY <1>2 DEF MaintenanceReclaim, Maintenance!Reclaim, Maintenance!Live, mVars, fVars, ResidueInv, NamedInv, OwnsMaintenance, OwnsFlowOperation, OwnerOf, Live, BirthInv
  <2>4. NoSilentResidue'
    BY <1>2 DEF MaintenanceReclaim, Maintenance!Reclaim, Maintenance!Live, mVars, fVars, NoSilentResidue, NamedInv, OwnsMaintenance, OwnsFlowOperation, OwnerOf, Live, BirthInv, ResidueInv
  <2>5. MaintenanceExcludesFlow'
    BY <1>2 DEF MaintenanceReclaim, Maintenance!Reclaim, Maintenance!Live, mVars, fVars, MaintenanceExcludesFlow, InMaintenance, InFlowOperation, NamedInv, OwnsMaintenance, OwnsFlowOperation, OwnerOf
  <2>6. QED
    BY <2>1, <2>2, <2>3, <2>4, <2>5 DEF IInv
<1>3. ASSUME NEW p \in Procs, MaintenanceTake(p)
     PROVE  IInv'
  <2>1. NamedInv'
    BY <1>3 DEF MaintenanceTake, Maintenance!TakeAs, Maintenance!Live, NewOwner, MGoto, fVars, NamedInv, OwnsMaintenance, OwnsFlowOperation, OwnerOf, ResidueInv, Live
  <2>2. BirthInv'
    BY <1>3 DEF MaintenanceTake, Maintenance!TakeAs, Maintenance!Live, NewOwner, MGoto, fVars, BirthInv
  <2>3. ResidueInv'
    BY <1>3 DEF MaintenanceTake, Maintenance!TakeAs, Maintenance!Live, NewOwner, MGoto, fVars, ResidueInv, NamedInv, OwnsMaintenance, OwnsFlowOperation, OwnerOf, Live, BirthInv
  <2>4. NoSilentResidue'
    BY <1>3 DEF MaintenanceTake, Maintenance!TakeAs, Maintenance!Live, NewOwner, MGoto, fVars, NoSilentResidue, NamedInv, OwnsMaintenance, OwnsFlowOperation, OwnerOf, Live, BirthInv, ResidueInv
  <2>5. MaintenanceExcludesFlow'
    BY <1>3 DEF MaintenanceTake, Maintenance!TakeAs, Maintenance!Live, NewOwner, MGoto, fVars, MaintenanceExcludesFlow, InMaintenance, InFlowOperation, NamedInv, OwnsMaintenance, OwnsFlowOperation, OwnerOf
  <2>6. QED
    BY <2>1, <2>2, <2>3, <2>4, <2>5 DEF IInv
<1>4. ASSUME NEW p \in Procs, MaintenanceTakeFails(p)
     PROVE  IInv'
  <2>1. NamedInv'
    BY <1>4 DEF MaintenanceTakeFails, Maintenance!TakeAs, Maintenance!Live, NewOwner, MGoto, fVars, NamedInv, OwnsMaintenance, OwnsFlowOperation, OwnerOf, ResidueInv, Live
  <2>2. BirthInv'
    BY <1>4 DEF MaintenanceTakeFails, Maintenance!TakeAs, Maintenance!Live, NewOwner, MGoto, fVars, BirthInv
  <2>3. ResidueInv'
    BY <1>4 DEF MaintenanceTakeFails, Maintenance!TakeAs, Maintenance!Live, NewOwner, MGoto, fVars, ResidueInv, NamedInv, OwnsMaintenance, OwnsFlowOperation, OwnerOf, Live, BirthInv
  <2>4. NoSilentResidue'
    BY <1>4 DEF MaintenanceTakeFails, Maintenance!TakeAs, Maintenance!Live, NewOwner, MGoto, fVars, NoSilentResidue, NamedInv, OwnsMaintenance, OwnsFlowOperation, OwnerOf, Live, BirthInv, ResidueInv
  <2>5. MaintenanceExcludesFlow'
    BY <1>4 DEF MaintenanceTakeFails, Maintenance!TakeAs, Maintenance!Live, NewOwner, MGoto, fVars, MaintenanceExcludesFlow, InMaintenance, InFlowOperation, NamedInv, OwnsMaintenance, OwnsFlowOperation, OwnerOf
  <2>6. QED
    BY <2>1, <2>2, <2>3, <2>4, <2>5 DEF IInv
<1>5. ASSUME NEW p \in Procs, MaintenanceBusy(p)
     PROVE  IInv'
  BY <1>5 DEF MaintenanceBusy, MGoto, lockState, fVars, NamedInv, BirthInv, ResidueInv, NoSilentResidue, MaintenanceExcludesFlow, InMaintenance, InFlowOperation, OwnsMaintenance, OwnsFlowOperation, OwnerOf, Live
<1>6. ASSUME NEW p \in Procs, MaintenanceCheck(p)
     PROVE  IInv'
  BY <1>6 DEF MaintenanceCheck, Permits, MGoto, lockState, fVars, NamedInv, BirthInv, ResidueInv, NoSilentResidue, MaintenanceExcludesFlow, InMaintenance, InFlowOperation, OwnsMaintenance, OwnsFlowOperation, OwnerOf, Live
<1>7. ASSUME NEW p \in Procs, MaintenanceRelease(p)
     PROVE  IInv'
  <2>1. NamedInv'
    BY <1>7 DEF MaintenanceRelease, Maintenance!Drop, Maintenance!Live, MGoto, fVars, NamedInv, OwnsMaintenance, OwnsFlowOperation, OwnerOf, ResidueInv, Live
  <2>2. BirthInv'
    BY <1>7 DEF MaintenanceRelease, Maintenance!Drop, Maintenance!Live, MGoto, fVars, BirthInv
  <2>3. ResidueInv'
    BY <1>7 DEF MaintenanceRelease, Maintenance!Drop, Maintenance!Live, MGoto, fVars, ResidueInv, NamedInv, OwnsMaintenance, OwnsFlowOperation, OwnerOf, Live, BirthInv
  <2>4. NoSilentResidue'
    BY <1>7 DEF MaintenanceRelease, Maintenance!Drop, Maintenance!Live, MGoto, fVars, NoSilentResidue, NamedInv, OwnsMaintenance, OwnsFlowOperation, OwnerOf, Live, BirthInv, ResidueInv
  <2>5. MaintenanceExcludesFlow'
    BY <1>7 DEF MaintenanceRelease, Maintenance!Drop, Maintenance!Live, MGoto, fVars, MaintenanceExcludesFlow, InMaintenance, InFlowOperation, NamedInv, OwnsMaintenance, OwnsFlowOperation, OwnerOf
  <2>6. QED
    BY <2>1, <2>2, <2>3, <2>4, <2>5 DEF IInv
<1>8. ASSUME NEW p \in Procs, MaintenanceBackoffFails(p)
     PROVE  IInv'
  <2>1. NamedInv'
    BY <1>8 DEF MaintenanceBackoffFails, MGoto, lockState, fVars, NamedInv, OwnsMaintenance, OwnsFlowOperation, OwnerOf, ResidueInv, Live
  <2>2. BirthInv'
    BY <1>8 DEF MaintenanceBackoffFails, MGoto, lockState, fVars, BirthInv
  <2>3. ResidueInv'
    BY <1>8 DEF MaintenanceBackoffFails, MGoto, lockState, fVars, ResidueInv, NamedInv, OwnsMaintenance, OwnsFlowOperation, OwnerOf, Live, BirthInv
  <2>4. NoSilentResidue'
    BY <1>8 DEF MaintenanceBackoffFails, MGoto, lockState, fVars, NoSilentResidue, NamedInv, OwnsMaintenance, OwnsFlowOperation, OwnerOf, Live, BirthInv, ResidueInv
  <2>5. MaintenanceExcludesFlow'
    BY <1>8 DEF MaintenanceBackoffFails, MGoto, lockState, fVars, MaintenanceExcludesFlow, InMaintenance, InFlowOperation, NamedInv, OwnsMaintenance, OwnsFlowOperation, OwnerOf
  <2>6. QED
    BY <2>1, <2>2, <2>3, <2>4, <2>5 DEF IInv
<1>9. ASSUME NEW p \in Procs, MaintenanceReleaseAgain(p)
     PROVE  IInv'
  <2>1. NamedInv'
    BY <1>9 DEF MaintenanceReleaseAgain, Maintenance!Drop, Maintenance!Live, mVars, fVars, NamedInv, OwnsMaintenance, OwnsFlowOperation, OwnerOf, ResidueInv, Live
  <2>2. BirthInv'
    BY <1>9 DEF MaintenanceReleaseAgain, Maintenance!Drop, Maintenance!Live, mVars, fVars, BirthInv
  <2>3. ResidueInv'
    BY <1>9 DEF MaintenanceReleaseAgain, Maintenance!Drop, Maintenance!Live, mVars, fVars, ResidueInv, NamedInv, OwnsMaintenance, OwnsFlowOperation, OwnerOf, Live, BirthInv
  <2>4. NoSilentResidue'
    BY <1>9 DEF MaintenanceReleaseAgain, Maintenance!Drop, Maintenance!Live, mVars, fVars, NoSilentResidue, NamedInv, OwnsMaintenance, OwnsFlowOperation, OwnerOf, Live, BirthInv, ResidueInv
  <2>5. MaintenanceExcludesFlow'
    BY <1>9 DEF MaintenanceReleaseAgain, Maintenance!Drop, Maintenance!Live, mVars, fVars, MaintenanceExcludesFlow, InMaintenance, InFlowOperation, NamedInv, OwnsMaintenance, OwnsFlowOperation, OwnerOf
  <2>6. QED
    BY <2>1, <2>2, <2>3, <2>4, <2>5 DEF IInv
<1>10. ASSUME NEW p \in Procs, StartFlow(p)
     PROVE  IInv'
  BY <1>10 DEF StartFlow, Grantable, FGoto, lockState, mVars, NamedInv, BirthInv, ResidueInv, NoSilentResidue, MaintenanceExcludesFlow, InMaintenance, InFlowOperation, OwnsMaintenance, OwnsFlowOperation, OwnerOf, Live
<1>11. ASSUME NEW p \in Procs, FlowBefore(p)
     PROVE  IInv'
  BY <1>11 DEF FlowBefore, FGoto, FlowThrows, lockState, mVars, NamedInv, BirthInv, ResidueInv, NoSilentResidue, MaintenanceExcludesFlow, InMaintenance, InFlowOperation, OwnsMaintenance, OwnsFlowOperation, OwnerOf, Live
<1>12. ASSUME NEW p \in Procs, FlowReclaim(p)
     PROVE  IInv'
  <2>1. NamedInv'
    BY <1>12 DEF FlowReclaim, FlowOperation!Reclaim, FlowOperation!Live, mVars, fVars, NamedInv, OwnsMaintenance, OwnsFlowOperation, OwnerOf, ResidueInv, Live
  <2>2. BirthInv'
    BY <1>12 DEF FlowReclaim, FlowOperation!Reclaim, FlowOperation!Live, mVars, fVars, BirthInv
  <2>3. ResidueInv'
    BY <1>12 DEF FlowReclaim, FlowOperation!Reclaim, FlowOperation!Live, mVars, fVars, ResidueInv, NamedInv, OwnsMaintenance, OwnsFlowOperation, OwnerOf, Live, BirthInv
  <2>4. NoSilentResidue'
    BY <1>12 DEF FlowReclaim, FlowOperation!Reclaim, FlowOperation!Live, mVars, fVars, NoSilentResidue, NamedInv, OwnsMaintenance, OwnsFlowOperation, OwnerOf, Live, BirthInv, ResidueInv
  <2>5. MaintenanceExcludesFlow'
    BY <1>12 DEF FlowReclaim, FlowOperation!Reclaim, FlowOperation!Live, mVars, fVars, MaintenanceExcludesFlow, InMaintenance, InFlowOperation, NamedInv, OwnsMaintenance, OwnsFlowOperation, OwnerOf
  <2>6. QED
    BY <2>1, <2>2, <2>3, <2>4, <2>5 DEF IInv
<1>13. ASSUME NEW p \in Procs, FlowTake(p)
     PROVE  IInv'
  <2>1. NamedInv'
    BY <1>13 DEF FlowTake, FlowOperation!TakeAs, FlowOperation!Live, NewOwner, FGoto, mVars, NamedInv, OwnsMaintenance, OwnsFlowOperation, OwnerOf, ResidueInv, Live
  <2>2. BirthInv'
    BY <1>13 DEF FlowTake, FlowOperation!TakeAs, FlowOperation!Live, NewOwner, FGoto, mVars, BirthInv
  <2>3. ResidueInv'
    BY <1>13 DEF FlowTake, FlowOperation!TakeAs, FlowOperation!Live, NewOwner, FGoto, mVars, ResidueInv, NamedInv, OwnsMaintenance, OwnsFlowOperation, OwnerOf, Live, BirthInv
  <2>4. NoSilentResidue'
    BY <1>13 DEF FlowTake, FlowOperation!TakeAs, FlowOperation!Live, NewOwner, FGoto, mVars, NoSilentResidue, NamedInv, OwnsMaintenance, OwnsFlowOperation, OwnerOf, Live, BirthInv, ResidueInv
  <2>5. MaintenanceExcludesFlow'
    BY <1>13 DEF FlowTake, FlowOperation!TakeAs, FlowOperation!Live, NewOwner, FGoto, mVars, MaintenanceExcludesFlow, InMaintenance, InFlowOperation, NamedInv, OwnsMaintenance, OwnsFlowOperation, OwnerOf
  <2>6. QED
    BY <2>1, <2>2, <2>3, <2>4, <2>5 DEF IInv
<1>14. ASSUME NEW p \in Procs, FlowTakeFails(p)
     PROVE  IInv'
  <2>1. NamedInv'
    BY <1>14 DEF FlowTakeFails, FlowOperation!TakeAs, FlowOperation!Live, NewOwner, FGoto, FlowThrows, mVars, NamedInv, OwnsMaintenance, OwnsFlowOperation, OwnerOf, ResidueInv, Live
  <2>2. BirthInv'
    BY <1>14 DEF FlowTakeFails, FlowOperation!TakeAs, FlowOperation!Live, NewOwner, FGoto, FlowThrows, mVars, BirthInv
  <2>3. ResidueInv'
    BY <1>14 DEF FlowTakeFails, FlowOperation!TakeAs, FlowOperation!Live, NewOwner, FGoto, FlowThrows, mVars, ResidueInv, NamedInv, OwnsMaintenance, OwnsFlowOperation, OwnerOf, Live, BirthInv
  <2>4. NoSilentResidue'
    BY <1>14 DEF FlowTakeFails, FlowOperation!TakeAs, FlowOperation!Live, NewOwner, FGoto, FlowThrows, mVars, NoSilentResidue, NamedInv, OwnsMaintenance, OwnsFlowOperation, OwnerOf, Live, BirthInv, ResidueInv
  <2>5. MaintenanceExcludesFlow'
    BY <1>14 DEF FlowTakeFails, FlowOperation!TakeAs, FlowOperation!Live, NewOwner, FGoto, FlowThrows, mVars, MaintenanceExcludesFlow, InMaintenance, InFlowOperation, NamedInv, OwnsMaintenance, OwnsFlowOperation, OwnerOf
  <2>6. QED
    BY <2>1, <2>2, <2>3, <2>4, <2>5 DEF IInv
<1>15. ASSUME NEW p \in Procs, FlowBusy(p)
     PROVE  IInv'
  BY <1>15 DEF FlowBusy, FGoto, FlowThrows, lockState, mVars, NamedInv, BirthInv, ResidueInv, NoSilentResidue, MaintenanceExcludesFlow, InMaintenance, InFlowOperation, OwnsMaintenance, OwnsFlowOperation, OwnerOf, Live
<1>16. ASSUME NEW p \in Procs, FlowAfter(p)
     PROVE  IInv'
  BY <1>16 DEF FlowAfter, Permits, FGoto, lockState, mVars, NamedInv, BirthInv, ResidueInv, NoSilentResidue, MaintenanceExcludesFlow, InMaintenance, InFlowOperation, OwnsMaintenance, OwnsFlowOperation, OwnerOf, Live
<1>17. ASSUME NEW p \in Procs, FlowRelease(p)
     PROVE  IInv'
  <2>1. NamedInv'
    BY <1>17 DEF FlowRelease, FlowOperation!Drop, FlowOperation!Live, FGoto, FlowThrows, mVars, NamedInv, OwnsMaintenance, OwnsFlowOperation, OwnerOf, ResidueInv, Live
  <2>2. BirthInv'
    BY <1>17 DEF FlowRelease, FlowOperation!Drop, FlowOperation!Live, FGoto, FlowThrows, mVars, BirthInv
  <2>3. ResidueInv'
    BY <1>17 DEF FlowRelease, FlowOperation!Drop, FlowOperation!Live, FGoto, FlowThrows, mVars, ResidueInv, NamedInv, OwnsMaintenance, OwnsFlowOperation, OwnerOf, Live, BirthInv
  <2>4. NoSilentResidue'
    BY <1>17 DEF FlowRelease, FlowOperation!Drop, FlowOperation!Live, FGoto, FlowThrows, mVars, NoSilentResidue, NamedInv, OwnsMaintenance, OwnsFlowOperation, OwnerOf, Live, BirthInv, ResidueInv
  <2>5. MaintenanceExcludesFlow'
    BY <1>17 DEF FlowRelease, FlowOperation!Drop, FlowOperation!Live, FGoto, FlowThrows, mVars, MaintenanceExcludesFlow, InMaintenance, InFlowOperation, NamedInv, OwnsMaintenance, OwnsFlowOperation, OwnerOf
  <2>6. QED
    BY <2>1, <2>2, <2>3, <2>4, <2>5 DEF IInv
<1>18. ASSUME NEW p \in Procs, FlowBackoffFails(p)
     PROVE  IInv'
  <2>1. NamedInv'
    BY <1>18 DEF FlowBackoffFails, FGoto, FlowThrows, lockState, mVars, NamedInv, OwnsMaintenance, OwnsFlowOperation, OwnerOf, ResidueInv, Live
  <2>2. BirthInv'
    BY <1>18 DEF FlowBackoffFails, FGoto, FlowThrows, lockState, mVars, BirthInv
  <2>3. ResidueInv'
    BY <1>18 DEF FlowBackoffFails, FGoto, FlowThrows, lockState, mVars, ResidueInv, NamedInv, OwnsMaintenance, OwnsFlowOperation, OwnerOf, Live, BirthInv
  <2>4. NoSilentResidue'
    BY <1>18 DEF FlowBackoffFails, FGoto, FlowThrows, lockState, mVars, NoSilentResidue, NamedInv, OwnsMaintenance, OwnsFlowOperation, OwnerOf, Live, BirthInv, ResidueInv
  <2>5. MaintenanceExcludesFlow'
    BY <1>18 DEF FlowBackoffFails, FGoto, FlowThrows, lockState, mVars, MaintenanceExcludesFlow, InMaintenance, InFlowOperation, NamedInv, OwnsMaintenance, OwnsFlowOperation, OwnerOf
  <2>6. QED
    BY <2>1, <2>2, <2>3, <2>4, <2>5 DEF IInv
<1>19. ASSUME NEW p \in Procs, FlowReleaseAgain(p)
     PROVE  IInv'
  <2>1. NamedInv'
    BY <1>19 DEF FlowReleaseAgain, FlowOperation!Drop, FlowOperation!Live, mVars, fVars, NamedInv, OwnsMaintenance, OwnsFlowOperation, OwnerOf, ResidueInv, Live
  <2>2. BirthInv'
    BY <1>19 DEF FlowReleaseAgain, FlowOperation!Drop, FlowOperation!Live, mVars, fVars, BirthInv
  <2>3. ResidueInv'
    BY <1>19 DEF FlowReleaseAgain, FlowOperation!Drop, FlowOperation!Live, mVars, fVars, ResidueInv, NamedInv, OwnsMaintenance, OwnsFlowOperation, OwnerOf, Live, BirthInv
  <2>4. NoSilentResidue'
    BY <1>19 DEF FlowReleaseAgain, FlowOperation!Drop, FlowOperation!Live, mVars, fVars, NoSilentResidue, NamedInv, OwnsMaintenance, OwnsFlowOperation, OwnerOf, Live, BirthInv, ResidueInv
  <2>5. MaintenanceExcludesFlow'
    BY <1>19 DEF FlowReleaseAgain, FlowOperation!Drop, FlowOperation!Live, mVars, fVars, MaintenanceExcludesFlow, InMaintenance, InFlowOperation, NamedInv, OwnsMaintenance, OwnsFlowOperation, OwnerOf
  <2>6. QED
    BY <2>1, <2>2, <2>3, <2>4, <2>5 DEF IInv
<1>20. ASSUME NEW p \in Procs, StartNested(p)
     PROVE  IInv'
  BY <1>20 DEF StartNested, FGoto, lockState, mVars, NamedInv, BirthInv, ResidueInv, NoSilentResidue, MaintenanceExcludesFlow, InMaintenance, InFlowOperation, OwnsMaintenance, OwnsFlowOperation, OwnerOf, Live
<1>21. ASSUME NEW p \in Procs, NestedBefore(p)
     PROVE  IInv'
  BY <1>21 DEF NestedBefore, FGoto, lockState, mVars, NamedInv, BirthInv, ResidueInv, NoSilentResidue, MaintenanceExcludesFlow, InMaintenance, InFlowOperation, OwnsMaintenance, OwnsFlowOperation, OwnerOf, Live
<1>22. ASSUME NEW p \in Procs, NestedInspect(p)
     PROVE  IInv'
  BY <1>22 DEF NestedInspect, FGoto, lockState, mVars, NamedInv, BirthInv, ResidueInv, NoSilentResidue, MaintenanceExcludesFlow, InMaintenance, InFlowOperation, OwnsMaintenance, OwnsFlowOperation, OwnerOf, Live
<1>23. ASSUME NEW p \in Procs, NestedRelease(p)
     PROVE  IInv'
  BY <1>23 DEF NestedRelease, FGoto, lockState, mVars, NamedInv, BirthInv, ResidueInv, NoSilentResidue, MaintenanceExcludesFlow, InMaintenance, InFlowOperation, OwnsMaintenance, OwnsFlowOperation, OwnerOf, Live
<1>24. ASSUME NEW p \in Procs, Crash(p)
     PROVE  IInv'
  <2>1. NamedInv'
    BY <1>24 DEF Crash, Maintenance!Die, MGoto, FGoto, NamedInv, OwnsMaintenance, OwnsFlowOperation, OwnerOf, ResidueInv, Live
  <2>2. BirthInv'
    BY <1>24 DEF Crash, Maintenance!Die, MGoto, FGoto, BirthInv
  <2>3. ResidueInv'
    BY <1>24 DEF Crash, Maintenance!Die, MGoto, FGoto, ResidueInv, NamedInv, OwnsMaintenance, OwnsFlowOperation, OwnerOf, Live, BirthInv
  <2>4. NoSilentResidue'
    BY <1>24 DEF Crash, Maintenance!Die, MGoto, FGoto, NoSilentResidue, NamedInv, OwnsMaintenance, OwnsFlowOperation, OwnerOf, Live, BirthInv, ResidueInv
  <2>5. MaintenanceExcludesFlow'
    BY <1>24 DEF Crash, Maintenance!Die, MGoto, FGoto, MaintenanceExcludesFlow, InMaintenance, InFlowOperation, NamedInv, OwnsMaintenance, OwnsFlowOperation, OwnerOf
  <2>6. QED
    BY <2>1, <2>2, <2>3, <2>4, <2>5 DEF IInv
<1>25. CASE UNCHANGED vars
  BY <1>25 DEF vars, lockState, mVars, fVars, NamedInv, BirthInv, ResidueInv, NoSilentResidue, MaintenanceExcludesFlow, InMaintenance, InFlowOperation, OwnsMaintenance, OwnsFlowOperation, OwnerOf, Live
<1>26. QED
  BY <1>1, <1>2, <1>3, <1>4, <1>5, <1>6, <1>7, <1>8, <1>9, <1>10, <1>11, <1>12, <1>13, <1>14, <1>15, <1>16, <1>17, <1>18, <1>19, <1>20, <1>21, <1>22, <1>23, <1>24, <1>25 DEF Next

\* It holds initially.
LEMMA InvInit ==
  Init => IInv
BY RepositoryAssumption
  DEF Init, IInv, TypeOK, Tokens, Owners, Residues, MLabels, FLabels, NamedInv,
      BirthInv, ResidueInv, NoSilentResidue, MaintenanceExcludesFlow,
      InMaintenance, InFlowOperation, OwnsMaintenance, OwnsFlowOperation

\* Hence it always holds.
LEMMA Invariant ==
  Spec => []IInv
BY InvInit, InvStep, PTL DEF Spec

-----------------------------------------------------------------------------
\* Every variable keeps its type in every execution.
THEOREM TypeCorrect ==
  Spec => []TypeOK
<1>1. IInv => TypeOK
  BY DEF IInv
<1>2. QED
  BY <1>1, Invariant, PTL

\* The two double checks of the acquire methods exclude maintenance and
\* foreign flow operations, for any number of processes.
THEOREM MaintenanceExcludesFlowHolds ==
  Spec => []MaintenanceExcludesFlow
<1>1. IInv => MaintenanceExcludesFlow
  BY DEF IInv
<1>2. QED
  BY <1>1, Invariant, PTL

\* assertOwned() cannot fail inside a flow operation, nested or not.
THEOREM FlowOperationOwnedHolds ==
  Spec => []FlowOperationOwned
<1>1. IInv => FlowOperationOwned
  BY RepositoryAssumption
    DEF IInv, NamedInv, FlowOperationOwned, InFlowOperation, OwnsFlowOperation,
        OwnerOf, Live, Owners, TypeOK
<1>2. QED
  BY <1>1, Invariant, PTL

\* A failed acquisition leaves a lock only if its error says so.
THEOREM NoSilentResidueHolds ==
  Spec => []NoSilentResidue
<1>1. IInv => NoSilentResidue
  BY DEF IInv
<1>2. QED
  BY <1>1, Invariant, PTL
=============================================================================
