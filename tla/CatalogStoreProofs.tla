-------------------------- MODULE CatalogStoreProofs --------------------------
(***************************************************************************)
(* Proofs about CatalogStore for any processes, files, contents, number of *)
(* failing system calls and deaths. The inductive invariant says that only *)
(* the owner of the catalog lock is past its acquisition, and what the     *)
(* files, the catalog and the journal are at each point of its work.       *)
(*                                                                         *)
(* The types and the lock hold for every publication. That the files       *)
(* settle to the catalog, and with it the refinement, holds while every    *)
(* publication changes something (Republish = FALSE): with republications  *)
(* it does not, as the run catalog_republication shows.                    *)
(***************************************************************************)
EXTENDS CatalogStore, TLAPS

Locked == Labels \ {"idle", "acquire"}

\* Past the acquisition a process owns the lock.
LockInv == \A p \in Procs : pc[p] \in Locked => holder = NewOwner(p)

\* Where the process-local mark is set and where it is not, and what a call may
\* answer.
ActiveInv ==
  \A p \in Procs :
    /\ pc[p] \in {"retire", "operate"} => ~active[p]
    /\ pc[p] \in {"write", "save", "finish", "unwind"} => active[p]
    /\ pc[p] \in {"write", "save", "finish"} => op[p].kind = "publish"
    /\ pc[p] = "release" => outcome[p] \in {"ok", "uncertain", "failed", "rejected"}

\* A publication differs from the catalog it expects or from a file it requires.
Differs(o) ==
  \/ \E f \in DOMAIN o.writes \cap DOMAIN o.expects : o.writes[f] # o.expects[f]
  \/ \E f \in DOMAIN o.writes \cap DOMAIN o.requires : o.writes[f] # o.requires[f]

\* The operations that a caller may ask for, and the steps of the store for any caller
\* of it: those of this module's Next and those of FlowVersion.
Asked(o) == o \in Ops /\ (~Republish /\ o.kind = "publish" => Differs(o))

StoreNext ==
  \E p \in Procs : (\E o : Asked(o) /\ Start(p, o)) \/ Step(p) \/ Crash(p)

ChangeInv ==
  ~Republish => \A p \in Procs : op[p].kind = "publish" => Differs(op[p])

\* What a publication makes of the catalog, when the files of S are still to write.
Written(p, S) ==
  [f \in Files |-> IF f \in DOMAIN op[p].writes \ S THEN op[p].writes[f] ELSE catalog[f]]

\* The journal of a transaction that has not reached its commit point.
Undecided ==
  /\ journal # None
  /\ journal.baseline = catalog
  /\ ~Republish => ~JournalCommitted

WriteInv(p) == pc[p] = "write" =>
  /\ Undecided /\ journal.target = None /\ image[p] = catalog
  /\ todo[p] \subseteq DOMAIN op[p].writes
  /\ tree = Written(p, todo[p])
  /\ Agrees(catalog, op[p].expects)
  /\ ~Unwritten(p) => Agrees(catalog, op[p].requires)

SaveInv(p) == pc[p] = "save" =>
  /\ Undecided /\ journal.target = tree /\ image[p] = catalog
  /\ tree = Written(p, {})
  /\ Agrees(catalog, op[p].expects)
  /\ DOMAIN op[p].writes # {} => Agrees(catalog, op[p].requires)

RestoreInv(p) == pc[p] \in {"unlink", "rewrite"} =>
  /\ Undecided
  /\ active[p] => image[p] = catalog

SettledInv(p) ==
  /\ pc[p] \in {"retire", "unwind", "finish"} => journal # None /\ tree = catalog
  /\ pc[p] = "operate" => journal = None

\* The image of the journal is that of the catalog before the transaction.
JournalInv == journal # None => journal.image = journal.baseline

Phase(p) == WriteInv(p) /\ SaveInv(p) /\ RestoreInv(p) /\ SettledInv(p)

PhaseInv == \A p \in Procs : Phase(p)

IInv ==
  /\ TypeOK
  /\ LockInv
  /\ ActiveInv
  /\ ChangeInv
  /\ JournalInv
  /\ PhaseInv
  /\ ~Republish => SettlesToCatalog

-----------------------------------------------------------------------------
(* The lock.                                                               *)

\* An owner record tells the process, and is not null; a tree is not null either.
LEMMA OwnerOfProc ==
  ASSUME TypeOK
  PROVE  /\ \A p \in Procs : NewOwner(p) \in Owners /\ NewOwner(p) # None
         /\ \A p, q \in Procs : NewOwner(p) = NewOwner(q) => p = q
         /\ \A p \in Procs : NewOwner(p).proc = p /\ NewOwner(p).birth = birth[p]
<1>1. \A p \in Procs : NewOwner(p) \in Owners
  BY DEF TypeOK, NewOwner, Owners
<1>2. \A p \in Procs : NewOwner(p).proc = p /\ NewOwner(p).birth = birth[p]
  BY DEF NewOwner
<1>3. None \notin Owners
  BY CatalogAssumption DEF Owners
<1>4. QED
  BY <1>1, <1>2, <1>3

\* One process at a time is past the acquisition.
LEMMA Alone ==
  ASSUME TypeOK, LockInv, NEW p \in Procs, NEW q \in Procs, pc[p] \in Locked, pc[q] \in Locked
  PROVE  p = q
  BY OwnerOfProc DEF LockInv

\* Every step keeps the lock with the process that is past its acquisition.
LEMMA LockStep ==
  IInv /\ [StoreNext]_vars => LockInv'
<1> SUFFICES ASSUME IInv, [StoreNext]_vars
             PROVE  LockInv'
  OBVIOUS
<1>o. /\ \A p \in Procs : NewOwner(p) \in Owners /\ NewOwner(p) # None
      /\ \A p, q \in Procs : NewOwner(p) = NewOwner(q) => p = q
      /\ \A p \in Procs : NewOwner(p).proc = p /\ NewOwner(p).birth = birth[p]
  BY OwnerOfProc DEF IInv
<1>t. pc \in [Procs -> Labels] /\ birth \in [Procs -> Nat] /\ LockInv
  BY DEF IInv, TypeOK
<1>k. ASSUME UNCHANGED lockVars,
             \A q \in Procs : pc'[q] \in Locked => pc[q] \in Locked
      PROVE  LockInv'
  BY <1>k, <1>t DEF LockInv, lockVars, NewOwner
<1>1. ASSUME NEW p \in Procs, NEW o, Asked(o), Start(p, o)
      PROVE  LockInv'
  BY <1>1, <1>k, <1>t DEF Start, Goto, Locked, Labels
<1>4. ASSUME NEW p \in Procs, AcquireReclaim(p)
      PROVE  LockInv'
  <2>1. \A q \in Procs : pc[q] \notin Locked
    BY <1>4, <1>o, <1>t DEF AcquireReclaim, Lock!Reclaim, Lock!Live, LockInv
  <2>2. QED
    BY <1>4, <2>1 DEF AcquireReclaim, LockInv
<1>5. ASSUME NEW p \in Procs, AcquireTake(p)
      PROVE  LockInv'
  <2>1. \A q \in Procs : pc[q] \notin Locked
    BY <1>5, <1>o, <1>t DEF AcquireTake, Lock!TakeAs, LockInv
  <2>2. holder' = NewOwner(p) /\ UNCHANGED birth
    BY <1>5 DEF AcquireTake, Lock!TakeAs
  <2>3. \A q \in Procs \ {p} : pc'[q] \notin Locked
    BY <1>5, <1>t, <2>1 DEF AcquireTake, Goto
  <2>4. QED
    BY <2>2, <2>3 DEF LockInv, NewOwner
<1>6. ASSUME NEW p \in Procs, AcquireBusy(p)
      PROVE  LockInv'
  BY <1>6, <1>k, <1>t DEF AcquireBusy, Return, Goto, Locked, Labels
<1>7. ASSUME NEW p \in Procs, Release(p)
      PROVE  LockInv'
  <2>1. \A q \in Procs : pc'[q] \notin Locked
    BY <1>7, <1>t, <1>o DEF Release, Return, Goto, LockInv, Locked, Labels
  <2>2. QED
    BY <2>1 DEF LockInv
<1>8. ASSUME NEW p \in Procs, ReleaseFails(p)
      PROVE  LockInv'
  <2>1. \A q \in Procs : pc'[q] \notin Locked
    BY <1>8, <1>t, <1>o DEF ReleaseFails, Return, Goto, LockInv, Locked, Labels
  <2>2. QED
    BY <2>1 DEF LockInv
<1>9. ASSUME NEW p \in Procs, RecoverNested(p)
      PROVE  LockInv'
  BY <1>9, <1>k, <1>t DEF RecoverNested, Leave, Goto, Locked, Labels
<1>10. ASSUME NEW p \in Procs, RecoverNothing(p)
      PROVE  LockInv'
  BY <1>10, <1>k, <1>t DEF RecoverNothing, Goto, Locked, Labels
<1>11. ASSUME NEW p \in Procs, RecoverCommitted(p)
      PROVE  LockInv'
  BY <1>11, <1>k, <1>t DEF RecoverCommitted, Leave, Goto, Locked, Labels
<1>12. ASSUME NEW p \in Procs, RecoverUncommitted(p)
      PROVE  LockInv'
  BY <1>12, <1>k, <1>t DEF RecoverUncommitted, Leave, Goto, Locked, Labels
<1>13. ASSUME NEW p \in Procs, Retire(p)
      PROVE  LockInv'
  BY <1>13, <1>k, <1>t DEF Retire, Goto, Locked, Labels
<1>14. ASSUME NEW p \in Procs, RetireFails(p)
      PROVE  LockInv'
  BY <1>14, <1>k, <1>t DEF RetireFails, Leave, Fault, Goto, Locked, Labels
<1>15. ASSUME NEW p \in Procs, RestoreUnlink(p)
      PROVE  LockInv'
  BY <1>15, <1>k, <1>t DEF RestoreUnlink, Goto, Locked, Labels
<1>16. ASSUME NEW p \in Procs, RestoreUnlinked(p)
      PROVE  LockInv'
  BY <1>16, <1>k, <1>t DEF RestoreUnlinked, Goto, Locked, Labels
<1>17. ASSUME NEW p \in Procs, RestoreWrite(p)
      PROVE  LockInv'
  BY <1>17, <1>k, <1>t DEF RestoreWrite, Goto, Locked, Labels
<1>18. ASSUME NEW p \in Procs, RestoreDone(p)
      PROVE  LockInv'
  BY <1>18, <1>k, <1>t DEF RestoreDone, Goto, Locked, Labels
<1>19. ASSUME NEW p \in Procs, RestoreFails(p)
      PROVE  LockInv'
  BY <1>19, <1>k, <1>t DEF RestoreFails, Leave, Fault, Goto, Locked, Labels
<1>20. ASSUME NEW p \in Procs, Read(p)
      PROVE  LockInv'
  BY <1>20, <1>k, <1>t DEF Read, Leave, Goto, Locked, Labels
<1>21. ASSUME NEW p \in Procs, PublishRejected(p)
      PROVE  LockInv'
  BY <1>21, <1>k, <1>t DEF PublishRejected, Leave, Goto, Locked, Labels
<1>22. ASSUME NEW p \in Procs, BeginTransaction(p)
      PROVE  LockInv'
  BY <1>22, <1>k, <1>t DEF BeginTransaction, Goto, Locked, Labels
<1>23. ASSUME NEW p \in Procs, BeginFails(p)
      PROVE  LockInv'
  BY <1>23, <1>k, <1>t DEF BeginFails, Leave, Fault, Goto, Locked, Labels
<1>24. ASSUME NEW p \in Procs, WriteFile(p)
      PROVE  LockInv'
  BY <1>24, <1>k, <1>t DEF WriteFile, Goto, Locked, Labels
<1>25. ASSUME NEW p \in Procs, WriteTears(p)
      PROVE  LockInv'
  BY <1>25, <1>k, <1>t DEF WriteTears, Fault, Goto, Locked, Labels
<1>26. ASSUME NEW p \in Procs, WriteFails(p)
      PROVE  LockInv'
  BY <1>26, <1>k, <1>t DEF WriteFails, Fault, Goto, Locked, Labels
<1>27. ASSUME NEW p \in Procs, Prepare(p)
      PROVE  LockInv'
  BY <1>27, <1>k, <1>t DEF Prepare, Goto, Locked, Labels
<1>28. ASSUME NEW p \in Procs, PrepareFails(p)
      PROVE  LockInv'
  BY <1>28, <1>k, <1>t DEF PrepareFails, Fault, Goto, Locked, Labels
<1>29. ASSUME NEW p \in Procs, Save(p)
      PROVE  LockInv'
  BY <1>29, <1>k, <1>t DEF Save, Goto, Locked, Labels
<1>30. ASSUME NEW p \in Procs, SaveFails(p)
      PROVE  LockInv'
  BY <1>30, <1>k, <1>t DEF SaveFails, Fault, Goto, Locked, Labels
<1>31. ASSUME NEW p \in Procs, SaveUncertain(p)
      PROVE  LockInv'
  BY <1>31, <1>k, <1>t DEF SaveUncertain, Leave, Fault, Goto, Locked, Labels
<1>32. ASSUME NEW p \in Procs, Finish(p)
      PROVE  LockInv'
  BY <1>32, <1>k, <1>t DEF Finish, Leave, Goto, Locked, Labels
<1>33. ASSUME NEW p \in Procs, FinishFails(p)
      PROVE  LockInv'
  BY <1>33, <1>k, <1>t DEF FinishFails, Leave, Fault, Goto, Locked, Labels
<1>34. ASSUME NEW p \in Procs, Unwind(p)
      PROVE  LockInv'
  BY <1>34, <1>k, <1>t DEF Unwind, Leave, Goto, Locked, Labels
<1>35. ASSUME NEW p \in Procs, UnwindFails(p)
      PROVE  LockInv'
  BY <1>35, <1>k, <1>t DEF UnwindFails, Leave, Fault, Goto, Locked, Labels
<1>36. ASSUME NEW p \in Procs, Crash(p)
      PROVE  LockInv'
  <2>1. \A q \in Procs \ {p} : pc'[q] = pc[q] /\ birth'[q] = birth[q]
    BY <1>36, <1>t DEF Crash, Lock!Die, Return, Goto
  <2>2. pc'[p] \notin Locked
    BY <1>36, <1>t DEF Crash, Return, Goto, Locked
  <2>3. UNCHANGED holder
    BY <1>36 DEF Crash, Lock!Die
  <2>4. QED
    BY <1>t, <2>1, <2>2, <2>3 DEF LockInv, NewOwner
<1>37. CASE UNCHANGED vars
  BY <1>37, <1>k DEF vars
<1>38. QED
  BY <1>1, <1>4, <1>5, <1>6, <1>7, <1>8, <1>9, <1>10, <1>11, <1>12, <1>13,
     <1>14, <1>15, <1>16, <1>17, <1>18, <1>19, <1>20, <1>21, <1>22, <1>23, <1>24,
     <1>25, <1>26, <1>27, <1>28, <1>29, <1>30, <1>31, <1>32, <1>33, <1>34, <1>35,
     <1>36, <1>37 DEF StoreNext, Step


-----------------------------------------------------------------------------
(* The types.                                                              *)

\* An image is a tree, and neither is null.
LEMMA ImageTypes ==
  /\ Images \subseteq Trees
  /\ None \notin Images
  /\ \A m \in Images : \A f \in Files : m[f] \in Values \cup {Missing}
  /\ Missing \in Contents /\ Torn \in Contents /\ Values \subseteq Contents
<1>1. Missing \in Contents /\ Torn \in Contents /\ Values \subseteq Contents
  BY DEF Contents
<1>2. Images \subseteq Trees
  BY DEF Images, Trees, Contents
<1>3. None \notin Images
  BY <1>2, CatalogAssumption
<1>4. \A m \in Images : \A f \in Files : m[f] \in Values \cup {Missing}
  BY DEF Images
<1>5. QED
  BY <1>1, <1>2, <1>3, <1>4

Journals == [baseline : Images, target : Images \cup {None}, image : Images]

\* A partial tree tells what some files hold.
LEMMA PartialTypes ==
  \A w \in Partial : DOMAIN w \subseteq Files /\ \A f \in DOMAIN w : w[f] \in Values \cup {Missing}
  BY DEF Partial

\* What a publication has written, and what it will have, is an image.
LEMMA WrittenTypes ==
  ASSUME TypeOK, NEW p \in Procs, NEW S
  PROVE  Written(p, S) \in Images
<1>1. op[p].writes \in Partial
  BY DEF TypeOK, Ops
<1>2. \A f \in DOMAIN op[p].writes : op[p].writes[f] \in Values \cup {Missing}
  BY <1>1, PartialTypes
<1>3. catalog \in Images
  BY DEF TypeOK
<1>4. QED
  BY <1>2, <1>3 DEF Written, Images

\* A restore puts the files of the catalog back.
LEMMA RestoredImage ==
  ASSUME IInv, NEW p \in Procs, pc[p] \in {"unlink", "rewrite"}
  PROVE  ImageOf(p) = catalog /\ journal # None /\ journal.image = catalog
  BY DEF IInv, PhaseInv, Phase, RestoreInv, Undecided, JournalInv, ImageOf

\* When everything is written, the new catalog describes the files.
LEMMA PreparedCatalog ==
  ASSUME IInv, NEW p \in Procs, pc[p] = "write", todo[p] = {}
  PROVE  /\ NewCatalog(p) = tree /\ tree = Written(p, {}) /\ tree \in Images
         /\ journal \in Journals /\ journal.baseline = catalog
<1>1. tree = Written(p, {}) /\ journal # None /\ journal.baseline = catalog
  BY DEF IInv, PhaseInv, Phase, WriteInv, Undecided
<1>2. tree \in Images
  BY <1>1, WrittenTypes DEF IInv
<1>3. \A f \in Files : NewCatalog(p)[f] = Written(p, {})[f]
  BY <1>1 DEF NewCatalog, Written
<1>4. NewCatalog(p) = Written(p, {})
  BY <1>3 DEF NewCatalog, Written
<1>5. QED
  BY <1>1, <1>2, <1>4 DEF IInv, TypeOK, Journals

\* The types of the disk and of the processes.
DiskTypeOK ==
  /\ tree \in Trees
  /\ catalog \in Images
  /\ journal \in Journals \cup {None}

ProcTypeOK ==
  /\ holder \in Owners \cup {None}
  /\ birth \in [Procs -> Nat]
  /\ pc \in [Procs -> Labels]
  /\ op \in [Procs -> Ops]
  /\ todo \in [Procs -> SUBSET Files]
  /\ image \in [Procs -> Images \cup {None}]
  /\ active \in [Procs -> BOOLEAN]
  /\ view \in [Procs -> Images \cup {None}]
  /\ outcome \in [Procs -> Outcomes]
  /\ faults \in Nat

\* Every step keeps the types of the disk.
LEMMA DiskTypeStep ==
  IInv /\ [StoreNext]_vars => DiskTypeOK'
<1> SUFFICES ASSUME IInv, [StoreNext]_vars
             PROVE  DiskTypeOK'
  OBVIOUS
<1>t. DiskTypeOK /\ ProcTypeOK
  BY DEF IInv, TypeOK, DiskTypeOK, ProcTypeOK, Journals
<1>k. UNCHANGED disk => DiskTypeOK'
  BY <1>t DEF DiskTypeOK, disk
<1>m. /\ Images \subseteq Trees
      /\ Missing \in Contents /\ Torn \in Contents /\ Values \subseteq Contents
  BY ImageTypes
<1>1. ASSUME NEW p \in Procs, NEW o, Asked(o), Start(p, o)
      PROVE  DiskTypeOK'
  BY <1>1, <1>k DEF Start
<1>4. ASSUME NEW p \in Procs, AcquireReclaim(p)
      PROVE  DiskTypeOK'
  BY <1>4, <1>k DEF AcquireReclaim, Lock!Reclaim
<1>5. ASSUME NEW p \in Procs, AcquireTake(p)
      PROVE  DiskTypeOK'
  BY <1>5, <1>k DEF AcquireTake, Lock!TakeAs
<1>6. ASSUME NEW p \in Procs, AcquireBusy(p)
      PROVE  DiskTypeOK'
  BY <1>6, <1>k DEF AcquireBusy, Return
<1>7. ASSUME NEW p \in Procs, Release(p)
      PROVE  DiskTypeOK'
  BY <1>7, <1>k DEF Release, Return, Lock!Drop
<1>8. ASSUME NEW p \in Procs, ReleaseFails(p)
      PROVE  DiskTypeOK'
  BY <1>8, <1>k DEF ReleaseFails, Return, Lock!Drop, Fault
<1>9. ASSUME NEW p \in Procs, RecoverNested(p)
      PROVE  DiskTypeOK'
  BY <1>9, <1>k DEF RecoverNested, Leave
<1>10. ASSUME NEW p \in Procs, RecoverNothing(p)
      PROVE  DiskTypeOK'
  BY <1>10, <1>k DEF RecoverNothing
<1>11. ASSUME NEW p \in Procs, RecoverCommitted(p)
      PROVE  DiskTypeOK'
  BY <1>11, <1>k DEF RecoverCommitted, Leave
<1>12. ASSUME NEW p \in Procs, RecoverUncommitted(p)
      PROVE  DiskTypeOK'
  BY <1>12, <1>k DEF RecoverUncommitted, Leave
<1>13. ASSUME NEW p \in Procs, Retire(p)
      PROVE  DiskTypeOK'
  BY <1>13, <1>t DEF Retire, DiskTypeOK
<1>14. ASSUME NEW p \in Procs, RetireFails(p)
      PROVE  DiskTypeOK'
  BY <1>14, <1>t DEF RetireFails, DiskTypeOK
<1>15. ASSUME NEW p \in Procs, RestoreUnlink(p)
      PROVE  DiskTypeOK'
  BY <1>15, <1>t, <1>m DEF RestoreUnlink, DiskTypeOK, Trees
<1>16. ASSUME NEW p \in Procs, RestoreUnlinked(p)
      PROVE  DiskTypeOK'
  BY <1>16, <1>k DEF RestoreUnlinked
<1>17. ASSUME NEW p \in Procs, RestoreWrite(p)
      PROVE  DiskTypeOK'
  <2>1. ImageOf(p) \in Trees
    BY <1>17, <1>t, <1>m, RestoredImage DEF RestoreWrite, DiskTypeOK
  <2>2. \A f \in Files : ImageOf(p)[f] \in Contents
    BY <2>1 DEF Trees
  <2>3. QED
    BY <1>17, <1>t, <1>m, <2>2 DEF RestoreWrite, DiskTypeOK, Trees
<1>18. ASSUME NEW p \in Procs, RestoreDone(p)
      PROVE  DiskTypeOK'
  BY <1>18, <1>k DEF RestoreDone
<1>19. ASSUME NEW p \in Procs, RestoreFails(p)
      PROVE  DiskTypeOK'
  BY <1>19, <1>k DEF RestoreFails, Leave, Fault
<1>20. ASSUME NEW p \in Procs, Read(p)
      PROVE  DiskTypeOK'
  BY <1>20, <1>k DEF Read, Leave
<1>21. ASSUME NEW p \in Procs, PublishRejected(p)
      PROVE  DiskTypeOK'
  BY <1>21, <1>k DEF PublishRejected, Leave
<1>22. ASSUME NEW p \in Procs, BeginTransaction(p)
      PROVE  DiskTypeOK'
  BY <1>22, <1>t, <1>m DEF BeginTransaction, Admitted, NewJournal, DiskTypeOK, Journals
<1>23. ASSUME NEW p \in Procs, BeginFails(p)
      PROVE  DiskTypeOK'
  BY <1>23, <1>t, <1>m DEF BeginFails, Admitted, NewJournal, DiskTypeOK, Journals
<1>24. ASSUME NEW p \in Procs, WriteFile(p)
      PROVE  DiskTypeOK'
  <2>1. todo[p] \subseteq DOMAIN op[p].writes /\ op[p].writes \in Partial
    BY <1>24, <1>t DEF WriteFile, ProcTypeOK, Ops, IInv, PhaseInv, Phase, WriteInv
  <2>2. \A f \in NextToWrite(p) : f \in Files /\ op[p].writes[f] \in Contents
    BY <1>m, <2>1, PartialTypes DEF NextToWrite
  <2>3. QED
    BY <1>24, <1>t, <2>2 DEF WriteFile, DiskTypeOK, Trees
<1>25. ASSUME NEW p \in Procs, WriteTears(p)
      PROVE  DiskTypeOK'
  BY <1>25, <1>t, <1>m DEF WriteTears, DiskTypeOK, Trees
<1>26. ASSUME NEW p \in Procs, WriteFails(p)
      PROVE  DiskTypeOK'
  BY <1>26, <1>k DEF WriteFails, Fault
<1>27. ASSUME NEW p \in Procs, Prepare(p)
      PROVE  DiskTypeOK'
  <2>1. NewCatalog(p) \in Images /\ journal \in Journals
    BY <1>27, PreparedCatalog DEF Prepare
  <2>2. QED
    BY <1>27, <1>t, <2>1 DEF Prepare, DiskTypeOK, Journals
<1>28. ASSUME NEW p \in Procs, PrepareFails(p)
      PROVE  DiskTypeOK'
  <2>1. NewCatalog(p) \in Images /\ journal \in Journals
    BY <1>28, PreparedCatalog DEF PrepareFails
  <2>2. QED
    BY <1>28, <1>t, <2>1 DEF PrepareFails, DiskTypeOK, Journals
<1>29. ASSUME NEW p \in Procs, Save(p)
      PROVE  DiskTypeOK'
  <2>1. journal.target = Written(p, {})
    BY <1>29 DEF Save, IInv, PhaseInv, Phase, SaveInv
  <2>2. journal.target \in Images
    BY <2>1, WrittenTypes DEF IInv
  <2>3. QED
    BY <1>29, <1>t, <2>2 DEF Save, DiskTypeOK
<1>30. ASSUME NEW p \in Procs, SaveFails(p)
      PROVE  DiskTypeOK'
  BY <1>30, <1>k DEF SaveFails, Fault
<1>31. ASSUME NEW p \in Procs, SaveUncertain(p)
      PROVE  DiskTypeOK'
  <2>1. journal.target = Written(p, {})
    BY <1>31 DEF SaveUncertain, IInv, PhaseInv, Phase, SaveInv
  <2>2. journal.target \in Images
    BY <2>1, WrittenTypes DEF IInv
  <2>3. QED
    BY <1>31, <1>t, <2>2 DEF SaveUncertain, DiskTypeOK
<1>32. ASSUME NEW p \in Procs, Finish(p)
      PROVE  DiskTypeOK'
  BY <1>32, <1>t DEF Finish, DiskTypeOK
<1>33. ASSUME NEW p \in Procs, FinishFails(p)
      PROVE  DiskTypeOK'
  BY <1>33, <1>t DEF FinishFails, DiskTypeOK
<1>34. ASSUME NEW p \in Procs, Unwind(p)
      PROVE  DiskTypeOK'
  BY <1>34, <1>t DEF Unwind, DiskTypeOK
<1>35. ASSUME NEW p \in Procs, UnwindFails(p)
      PROVE  DiskTypeOK'
  BY <1>35, <1>t DEF UnwindFails, DiskTypeOK
<1>36. ASSUME NEW p \in Procs, Crash(p)
      PROVE  DiskTypeOK'
  BY <1>36, <1>k DEF Crash, Return, Lock!Die
<1>37. CASE UNCHANGED vars
  BY <1>37, <1>k DEF vars
<1>38. QED
  BY <1>1, <1>4, <1>5, <1>6, <1>7, <1>8, <1>9, <1>10, <1>11, <1>12, <1>13,
     <1>14, <1>15, <1>16, <1>17, <1>18, <1>19, <1>20, <1>21, <1>22, <1>23, <1>24,
     <1>25, <1>26, <1>27, <1>28, <1>29, <1>30, <1>31, <1>32, <1>33, <1>34, <1>35,
     <1>36, <1>37 DEF StoreNext, Step

\* The operations that are called for.
LEMMA OpTypes ==
  /\ \A S \in SUBSET Files : \A w \in [S -> Values \cup {Missing}] : w \in Partial
  /\ NoFiles \in Partial
  /\ ReadOp \in Ops
  /\ \A w, e, r \in Partial : Publication(w, e, r) \in Ops
<1>1. \A S \in SUBSET Files : \A w \in [S -> Values \cup {Missing}] : w \in Partial
  BY DEF Partial
<1>2. NoFiles \in [{} -> Values \cup {Missing}]
  BY DEF NoFiles
<1>3. NoFiles \in Partial
  BY <1>1, <1>2
<1>4. QED
  BY <1>1, <1>3 DEF ReadOp, Publication, Ops

\* Every step keeps the types of the processes.
LEMMA ProcTypeStep ==
  IInv /\ [StoreNext]_vars => ProcTypeOK'
<1> SUFFICES ASSUME IInv, [StoreNext]_vars
             PROVE  ProcTypeOK'
  OBVIOUS
<1>t. DiskTypeOK /\ ProcTypeOK
  BY DEF IInv, TypeOK, DiskTypeOK, ProcTypeOK, Journals
<1>o. \A p \in Procs : NewOwner(p) \in Owners
  BY OwnerOfProc DEF IInv
<1>r. ReadOp \in Ops
  BY OpTypes
<1>s. ASSUME NEW p \in Procs, NEW o \in Ops, Start(p, o)
      PROVE  ProcTypeOK'
  BY <1>s, <1>t DEF Start, Goto, ProcTypeOK, Labels, Outcomes, lockVars
<1>1. ASSUME NEW p \in Procs, NEW o, Asked(o), Start(p, o)
      PROVE  ProcTypeOK'
  BY <1>1, <1>s DEF Asked
<1>4. ASSUME NEW p \in Procs, AcquireReclaim(p)
      PROVE  ProcTypeOK'
  BY <1>4, <1>t DEF AcquireReclaim, Lock!Reclaim, Goto, ProcTypeOK, Labels, Outcomes, lockVars, local
<1>5. ASSUME NEW p \in Procs, AcquireTake(p)
      PROVE  ProcTypeOK'
  BY <1>5, <1>t, <1>o DEF AcquireTake, Lock!TakeAs, Goto, ProcTypeOK, Labels, Outcomes, lockVars, local
<1>6. ASSUME NEW p \in Procs, AcquireBusy(p)
      PROVE  ProcTypeOK'
  BY <1>6, <1>t, <1>r DEF AcquireBusy, Return, Goto, ProcTypeOK, Labels, Outcomes, lockVars, local
<1>7. ASSUME NEW p \in Procs, Release(p)
      PROVE  ProcTypeOK'
  BY <1>7, <1>t, <1>r DEF Release, Return, Lock!Drop, Goto, ProcTypeOK, Labels, Outcomes, lockVars, local
<1>8. ASSUME NEW p \in Procs, ReleaseFails(p)
      PROVE  ProcTypeOK'
  BY <1>8, <1>t, <1>r DEF ReleaseFails, Return, Lock!Drop, Fault, Goto, ProcTypeOK, Labels, Outcomes, lockVars, local
<1>9. ASSUME NEW p \in Procs, RecoverNested(p)
      PROVE  ProcTypeOK'
  BY <1>9, <1>t DEF RecoverNested, Leave, Goto, ProcTypeOK, Labels, Outcomes, lockVars, local
<1>10. ASSUME NEW p \in Procs, RecoverNothing(p)
      PROVE  ProcTypeOK'
  BY <1>10, <1>t DEF RecoverNothing, Goto, ProcTypeOK, Labels, Outcomes, lockVars, local
<1>11. ASSUME NEW p \in Procs, RecoverCommitted(p)
      PROVE  ProcTypeOK'
  BY <1>11, <1>t DEF RecoverCommitted, Leave, Goto, ProcTypeOK, Labels, Outcomes, lockVars, local
<1>12. ASSUME NEW p \in Procs, RecoverUncommitted(p)
      PROVE  ProcTypeOK'
  BY <1>12, <1>t DEF RecoverUncommitted, Leave, Goto, ProcTypeOK, Labels, Outcomes, lockVars, local
<1>13. ASSUME NEW p \in Procs, Retire(p)
      PROVE  ProcTypeOK'
  BY <1>13, <1>t DEF Retire, Goto, ProcTypeOK, Labels, Outcomes, lockVars, local
<1>14. ASSUME NEW p \in Procs, RetireFails(p)
      PROVE  ProcTypeOK'
  BY <1>14, <1>t DEF RetireFails, Leave, Fault, Goto, ProcTypeOK, Labels, Outcomes, lockVars, local
<1>15. ASSUME NEW p \in Procs, RestoreUnlink(p)
      PROVE  ProcTypeOK'
  BY <1>15, <1>t DEF RestoreUnlink, Goto, ProcTypeOK, Labels, Outcomes, lockVars, local
<1>16. ASSUME NEW p \in Procs, RestoreUnlinked(p)
      PROVE  ProcTypeOK'
  BY <1>16, <1>t DEF RestoreUnlinked, Goto, ProcTypeOK, Labels, Outcomes, lockVars, local
<1>17. ASSUME NEW p \in Procs, RestoreWrite(p)
      PROVE  ProcTypeOK'
  BY <1>17, <1>t DEF RestoreWrite, Goto, ProcTypeOK, Labels, Outcomes, lockVars, local
<1>18. ASSUME NEW p \in Procs, RestoreDone(p)
      PROVE  ProcTypeOK'
  BY <1>18, <1>t DEF RestoreDone, Goto, ProcTypeOK, Labels, Outcomes, lockVars, local
<1>19. ASSUME NEW p \in Procs, RestoreFails(p)
      PROVE  ProcTypeOK'
  BY <1>19, <1>t DEF RestoreFails, Leave, Fault, Goto, ProcTypeOK, Labels, Outcomes, lockVars, local
<1>20. ASSUME NEW p \in Procs, Read(p)
      PROVE  ProcTypeOK'
  BY <1>20, <1>t DEF Read, Leave, DiskTypeOK, Goto, ProcTypeOK, Labels, Outcomes, lockVars, local
<1>21. ASSUME NEW p \in Procs, PublishRejected(p)
      PROVE  ProcTypeOK'
  BY <1>21, <1>t DEF PublishRejected, Leave, Goto, ProcTypeOK, Labels, Outcomes, lockVars, local
<1>22. ASSUME NEW p \in Procs, BeginTransaction(p)
      PROVE  ProcTypeOK'
  BY <1>22, <1>t, PartialTypes DEF BeginTransaction, Admitted, DiskTypeOK, Ops, Goto, ProcTypeOK, Labels, Outcomes, lockVars, local
<1>23. ASSUME NEW p \in Procs, BeginFails(p)
      PROVE  ProcTypeOK'
  BY <1>23, <1>t DEF BeginFails, Leave, Fault, Goto, ProcTypeOK, Labels, Outcomes, lockVars, local
<1>24. ASSUME NEW p \in Procs, WriteFile(p)
      PROVE  ProcTypeOK'
  BY <1>24, <1>t DEF WriteFile, Goto, ProcTypeOK, Labels, Outcomes, lockVars, local
<1>25. ASSUME NEW p \in Procs, WriteTears(p)
      PROVE  ProcTypeOK'
  BY <1>25, <1>t DEF WriteTears, Fault, Goto, ProcTypeOK, Labels, Outcomes, lockVars, local
<1>26. ASSUME NEW p \in Procs, WriteFails(p)
      PROVE  ProcTypeOK'
  BY <1>26, <1>t DEF WriteFails, Fault, Goto, ProcTypeOK, Labels, Outcomes, lockVars, local
<1>27. ASSUME NEW p \in Procs, Prepare(p)
      PROVE  ProcTypeOK'
  BY <1>27, <1>t DEF Prepare, Goto, ProcTypeOK, Labels, Outcomes, lockVars, local
<1>28. ASSUME NEW p \in Procs, PrepareFails(p)
      PROVE  ProcTypeOK'
  BY <1>28, <1>t DEF PrepareFails, Fault, Goto, ProcTypeOK, Labels, Outcomes, lockVars, local
<1>29. ASSUME NEW p \in Procs, Save(p)
      PROVE  ProcTypeOK'
  BY <1>29, <1>t DEF Save, Goto, ProcTypeOK, Labels, Outcomes, lockVars, local
<1>30. ASSUME NEW p \in Procs, SaveFails(p)
      PROVE  ProcTypeOK'
  BY <1>30, <1>t DEF SaveFails, Fault, Goto, ProcTypeOK, Labels, Outcomes, lockVars, local
<1>31. ASSUME NEW p \in Procs, SaveUncertain(p)
      PROVE  ProcTypeOK'
  BY <1>31, <1>t DEF SaveUncertain, Leave, Fault, Goto, ProcTypeOK, Labels, Outcomes, lockVars, local
<1>32. ASSUME NEW p \in Procs, Finish(p)
      PROVE  ProcTypeOK'
  BY <1>32, <1>t DEF Finish, Leave, Goto, ProcTypeOK, Labels, Outcomes, lockVars, local
<1>33. ASSUME NEW p \in Procs, FinishFails(p)
      PROVE  ProcTypeOK'
  BY <1>33, <1>t DEF FinishFails, Leave, Fault, Goto, ProcTypeOK, Labels, Outcomes, lockVars, local
<1>34. ASSUME NEW p \in Procs, Unwind(p)
      PROVE  ProcTypeOK'
  BY <1>34, <1>t DEF Unwind, Leave, Goto, ProcTypeOK, Labels, Outcomes, lockVars, local
<1>35. ASSUME NEW p \in Procs, UnwindFails(p)
      PROVE  ProcTypeOK'
  BY <1>35, <1>t DEF UnwindFails, Leave, Fault, Goto, ProcTypeOK, Labels, Outcomes, lockVars, local
<1>36. ASSUME NEW p \in Procs, Crash(p)
      PROVE  ProcTypeOK'
  BY <1>36, <1>t, <1>r DEF Crash, Return, Lock!Die, Goto, ProcTypeOK, Labels, Outcomes, lockVars, local
<1>37. CASE UNCHANGED vars
  BY <1>37, <1>t DEF vars, Goto, ProcTypeOK, Labels, Outcomes, lockVars, local
<1>38. QED
  BY <1>1, <1>4, <1>5, <1>6, <1>7, <1>8, <1>9, <1>10, <1>11, <1>12, <1>13,
     <1>14, <1>15, <1>16, <1>17, <1>18, <1>19, <1>20, <1>21, <1>22, <1>23, <1>24,
     <1>25, <1>26, <1>27, <1>28, <1>29, <1>30, <1>31, <1>32, <1>33, <1>34, <1>35,
     <1>36, <1>37 DEF StoreNext, Step

-----------------------------------------------------------------------------
(* The mark of the process, its operation and its answer.                  *)

\* Every step keeps the publications changing something.
LEMMA ChangeStep ==
  IInv /\ [StoreNext]_vars => ChangeInv'
<1> SUFFICES ASSUME IInv, [StoreNext]_vars, ~Republish
             PROVE  ChangeInv'
  BY DEF ChangeInv
<1>t. op \in [Procs -> Ops] /\ \A p \in Procs : op[p].kind = "publish" => Differs(op[p])
  BY DEF IInv, TypeOK, ChangeInv
<1>k. UNCHANGED op => ChangeInv'
  BY <1>t DEF ChangeInv
<1>s. ASSUME NEW p \in Procs, NEW o, op' = [op EXCEPT ![p] = o],
             o.kind = "publish" => Differs(o)
      PROVE  ChangeInv'
  BY <1>s, <1>t DEF ChangeInv
<1>r. ReadOp.kind # "publish"
  BY DEF ReadOp
<1>1. ASSUME NEW p \in Procs, NEW o, Asked(o), Start(p, o)
      PROVE  ChangeInv'
  BY <1>1, <1>s DEF Asked, Start
<1>4. ASSUME NEW p \in Procs, AcquireReclaim(p)
      PROVE  ChangeInv'
  BY <1>4, <1>k DEF AcquireReclaim, local
<1>5. ASSUME NEW p \in Procs, AcquireTake(p)
      PROVE  ChangeInv'
  BY <1>5, <1>k DEF AcquireTake, local
<1>6. ASSUME NEW p \in Procs, AcquireBusy(p)
      PROVE  ChangeInv'
  BY <1>6, <1>s, <1>r DEF AcquireBusy, Return
<1>7. ASSUME NEW p \in Procs, Release(p)
      PROVE  ChangeInv'
  BY <1>7, <1>s, <1>r DEF Release, Return
<1>8. ASSUME NEW p \in Procs, ReleaseFails(p)
      PROVE  ChangeInv'
  BY <1>8, <1>s, <1>r DEF ReleaseFails, Return
<1>9. ASSUME NEW p \in Procs, RecoverNested(p)
      PROVE  ChangeInv'
  BY <1>9, <1>k DEF RecoverNested, local
<1>10. ASSUME NEW p \in Procs, RecoverNothing(p)
      PROVE  ChangeInv'
  BY <1>10, <1>k DEF RecoverNothing, local
<1>11. ASSUME NEW p \in Procs, RecoverCommitted(p)
      PROVE  ChangeInv'
  BY <1>11, <1>k DEF RecoverCommitted, local
<1>12. ASSUME NEW p \in Procs, RecoverUncommitted(p)
      PROVE  ChangeInv'
  BY <1>12, <1>k DEF RecoverUncommitted, local
<1>13. ASSUME NEW p \in Procs, Retire(p)
      PROVE  ChangeInv'
  BY <1>13, <1>k DEF Retire, local
<1>14. ASSUME NEW p \in Procs, RetireFails(p)
      PROVE  ChangeInv'
  BY <1>14, <1>k DEF RetireFails, local
<1>15. ASSUME NEW p \in Procs, RestoreUnlink(p)
      PROVE  ChangeInv'
  BY <1>15, <1>k DEF RestoreUnlink, local
<1>16. ASSUME NEW p \in Procs, RestoreUnlinked(p)
      PROVE  ChangeInv'
  BY <1>16, <1>k DEF RestoreUnlinked, local
<1>17. ASSUME NEW p \in Procs, RestoreWrite(p)
      PROVE  ChangeInv'
  BY <1>17, <1>k DEF RestoreWrite, local
<1>18. ASSUME NEW p \in Procs, RestoreDone(p)
      PROVE  ChangeInv'
  BY <1>18, <1>k DEF RestoreDone, local
<1>19. ASSUME NEW p \in Procs, RestoreFails(p)
      PROVE  ChangeInv'
  BY <1>19, <1>k DEF RestoreFails, local
<1>20. ASSUME NEW p \in Procs, Read(p)
      PROVE  ChangeInv'
  BY <1>20, <1>k DEF Read, local
<1>21. ASSUME NEW p \in Procs, PublishRejected(p)
      PROVE  ChangeInv'
  BY <1>21, <1>k DEF PublishRejected, local
<1>22. ASSUME NEW p \in Procs, BeginTransaction(p)
      PROVE  ChangeInv'
  BY <1>22, <1>k DEF BeginTransaction, local
<1>23. ASSUME NEW p \in Procs, BeginFails(p)
      PROVE  ChangeInv'
  BY <1>23, <1>k DEF BeginFails, local
<1>24. ASSUME NEW p \in Procs, WriteFile(p)
      PROVE  ChangeInv'
  BY <1>24, <1>k DEF WriteFile, local
<1>25. ASSUME NEW p \in Procs, WriteTears(p)
      PROVE  ChangeInv'
  BY <1>25, <1>k DEF WriteTears, local
<1>26. ASSUME NEW p \in Procs, WriteFails(p)
      PROVE  ChangeInv'
  BY <1>26, <1>k DEF WriteFails, local
<1>27. ASSUME NEW p \in Procs, Prepare(p)
      PROVE  ChangeInv'
  BY <1>27, <1>k DEF Prepare, local
<1>28. ASSUME NEW p \in Procs, PrepareFails(p)
      PROVE  ChangeInv'
  BY <1>28, <1>k DEF PrepareFails, local
<1>29. ASSUME NEW p \in Procs, Save(p)
      PROVE  ChangeInv'
  BY <1>29, <1>k DEF Save, local
<1>30. ASSUME NEW p \in Procs, SaveFails(p)
      PROVE  ChangeInv'
  BY <1>30, <1>k DEF SaveFails, local
<1>31. ASSUME NEW p \in Procs, SaveUncertain(p)
      PROVE  ChangeInv'
  BY <1>31, <1>k DEF SaveUncertain, local
<1>32. ASSUME NEW p \in Procs, Finish(p)
      PROVE  ChangeInv'
  BY <1>32, <1>k DEF Finish, local
<1>33. ASSUME NEW p \in Procs, FinishFails(p)
      PROVE  ChangeInv'
  BY <1>33, <1>k DEF FinishFails, local
<1>34. ASSUME NEW p \in Procs, Unwind(p)
      PROVE  ChangeInv'
  BY <1>34, <1>k DEF Unwind, local
<1>35. ASSUME NEW p \in Procs, UnwindFails(p)
      PROVE  ChangeInv'
  BY <1>35, <1>k DEF UnwindFails, local
<1>36. ASSUME NEW p \in Procs, Crash(p)
      PROVE  ChangeInv'
  BY <1>36, <1>s, <1>r DEF Crash, Return
<1>37. CASE UNCHANGED vars
  BY <1>37, <1>k DEF vars, local
<1>38. QED
  BY <1>1, <1>4, <1>5, <1>6, <1>7, <1>8, <1>9, <1>10, <1>11, <1>12, <1>13,
     <1>14, <1>15, <1>16, <1>17, <1>18, <1>19, <1>20, <1>21, <1>22, <1>23, <1>24,
     <1>25, <1>26, <1>27, <1>28, <1>29, <1>30, <1>31, <1>32, <1>33, <1>34, <1>35,
     <1>36, <1>37 DEF StoreNext, Step

\* Every step keeps the mark of the process and its answer where they belong.
LEMMA ActiveStep ==
  IInv /\ [StoreNext]_vars => ActiveInv'
<1> SUFFICES ASSUME IInv, [StoreNext]_vars
             PROVE  ActiveInv'
  OBVIOUS
<1>t. ProcTypeOK /\ ActiveInv
  BY DEF IInv, TypeOK, ProcTypeOK
<1>1. ASSUME NEW p \in Procs, NEW o, Asked(o), Start(p, o)
      PROVE  ActiveInv'
  BY <1>1, <1>t DEF Start, Goto, ActiveInv, ProcTypeOK, local
<1>4. ASSUME NEW p \in Procs, AcquireReclaim(p)
      PROVE  ActiveInv'
  BY <1>4, <1>t DEF AcquireReclaim, Lock!Reclaim, Goto, ActiveInv, ProcTypeOK, local
<1>5. ASSUME NEW p \in Procs, AcquireTake(p)
      PROVE  ActiveInv'
  BY <1>5, <1>t DEF AcquireTake, Lock!TakeAs, Goto, ActiveInv, ProcTypeOK, local
<1>6. ASSUME NEW p \in Procs, AcquireBusy(p)
      PROVE  ActiveInv'
  BY <1>6, <1>t DEF AcquireBusy, Return, Goto, ActiveInv, ProcTypeOK, local
<1>7. ASSUME NEW p \in Procs, Release(p)
      PROVE  ActiveInv'
  BY <1>7, <1>t DEF Release, Return, Lock!Drop, Goto, ActiveInv, ProcTypeOK, local
<1>8. ASSUME NEW p \in Procs, ReleaseFails(p)
      PROVE  ActiveInv'
  BY <1>8, <1>t DEF ReleaseFails, Return, Lock!Drop, Fault, Goto, ActiveInv, ProcTypeOK, local
<1>9. ASSUME NEW p \in Procs, RecoverNested(p)
      PROVE  ActiveInv'
  BY <1>9, <1>t DEF RecoverNested, Leave, Goto, ActiveInv, ProcTypeOK, local
<1>10. ASSUME NEW p \in Procs, RecoverNothing(p)
      PROVE  ActiveInv'
  BY <1>10, <1>t DEF RecoverNothing, Goto, ActiveInv, ProcTypeOK, local
<1>11. ASSUME NEW p \in Procs, RecoverCommitted(p)
      PROVE  ActiveInv'
  BY <1>11, <1>t DEF RecoverCommitted, Leave, Goto, ActiveInv, ProcTypeOK, local
<1>12. ASSUME NEW p \in Procs, RecoverUncommitted(p)
      PROVE  ActiveInv'
  BY <1>12, <1>t DEF RecoverUncommitted, Leave, Goto, ActiveInv, ProcTypeOK, local
<1>13. ASSUME NEW p \in Procs, Retire(p)
      PROVE  ActiveInv'
  BY <1>13, <1>t DEF Retire, Goto, ActiveInv, ProcTypeOK, local
<1>14. ASSUME NEW p \in Procs, RetireFails(p)
      PROVE  ActiveInv'
  BY <1>14, <1>t DEF RetireFails, Leave, Fault, Goto, ActiveInv, ProcTypeOK, local
<1>15. ASSUME NEW p \in Procs, RestoreUnlink(p)
      PROVE  ActiveInv'
  BY <1>15, <1>t DEF RestoreUnlink, Goto, ActiveInv, ProcTypeOK, local
<1>16. ASSUME NEW p \in Procs, RestoreUnlinked(p)
      PROVE  ActiveInv'
  BY <1>16, <1>t DEF RestoreUnlinked, Goto, ActiveInv, ProcTypeOK, local
<1>17. ASSUME NEW p \in Procs, RestoreWrite(p)
      PROVE  ActiveInv'
  BY <1>17, <1>t DEF RestoreWrite, Goto, ActiveInv, ProcTypeOK, local
<1>18. ASSUME NEW p \in Procs, RestoreDone(p)
      PROVE  ActiveInv'
  BY <1>18, <1>t DEF RestoreDone, Goto, ActiveInv, ProcTypeOK, local
<1>19. ASSUME NEW p \in Procs, RestoreFails(p)
      PROVE  ActiveInv'
  BY <1>19, <1>t DEF RestoreFails, Leave, Fault, Goto, ActiveInv, ProcTypeOK, local
<1>20. ASSUME NEW p \in Procs, Read(p)
      PROVE  ActiveInv'
  BY <1>20, <1>t DEF Read, Leave, Goto, ActiveInv, ProcTypeOK, local
<1>21. ASSUME NEW p \in Procs, PublishRejected(p)
      PROVE  ActiveInv'
  BY <1>21, <1>t DEF PublishRejected, Leave, Goto, ActiveInv, ProcTypeOK, local
<1>22. ASSUME NEW p \in Procs, BeginTransaction(p)
      PROVE  ActiveInv'
  BY <1>22, <1>t DEF BeginTransaction, Goto, ActiveInv, ProcTypeOK, local
<1>23. ASSUME NEW p \in Procs, BeginFails(p)
      PROVE  ActiveInv'
  BY <1>23, <1>t DEF BeginFails, Leave, Fault, Goto, ActiveInv, ProcTypeOK, local
<1>24. ASSUME NEW p \in Procs, WriteFile(p)
      PROVE  ActiveInv'
  BY <1>24, <1>t DEF WriteFile, Goto, ActiveInv, ProcTypeOK, local
<1>25. ASSUME NEW p \in Procs, WriteTears(p)
      PROVE  ActiveInv'
  BY <1>25, <1>t DEF WriteTears, Fault, Goto, ActiveInv, ProcTypeOK, local
<1>26. ASSUME NEW p \in Procs, WriteFails(p)
      PROVE  ActiveInv'
  BY <1>26, <1>t DEF WriteFails, Fault, Goto, ActiveInv, ProcTypeOK, local
<1>27. ASSUME NEW p \in Procs, Prepare(p)
      PROVE  ActiveInv'
  BY <1>27, <1>t DEF Prepare, Goto, ActiveInv, ProcTypeOK, local
<1>28. ASSUME NEW p \in Procs, PrepareFails(p)
      PROVE  ActiveInv'
  BY <1>28, <1>t DEF PrepareFails, Fault, Goto, ActiveInv, ProcTypeOK, local
<1>29. ASSUME NEW p \in Procs, Save(p)
      PROVE  ActiveInv'
  BY <1>29, <1>t DEF Save, Goto, ActiveInv, ProcTypeOK, local
<1>30. ASSUME NEW p \in Procs, SaveFails(p)
      PROVE  ActiveInv'
  BY <1>30, <1>t DEF SaveFails, Fault, Goto, ActiveInv, ProcTypeOK, local
<1>31. ASSUME NEW p \in Procs, SaveUncertain(p)
      PROVE  ActiveInv'
  BY <1>31, <1>t DEF SaveUncertain, Leave, Fault, Goto, ActiveInv, ProcTypeOK, local
<1>32. ASSUME NEW p \in Procs, Finish(p)
      PROVE  ActiveInv'
  BY <1>32, <1>t DEF Finish, Leave, Goto, ActiveInv, ProcTypeOK, local
<1>33. ASSUME NEW p \in Procs, FinishFails(p)
      PROVE  ActiveInv'
  BY <1>33, <1>t DEF FinishFails, Leave, Fault, Goto, ActiveInv, ProcTypeOK, local
<1>34. ASSUME NEW p \in Procs, Unwind(p)
      PROVE  ActiveInv'
  BY <1>34, <1>t DEF Unwind, Leave, Goto, ActiveInv, ProcTypeOK, local
<1>35. ASSUME NEW p \in Procs, UnwindFails(p)
      PROVE  ActiveInv'
  BY <1>35, <1>t DEF UnwindFails, Leave, Fault, Goto, ActiveInv, ProcTypeOK, local
<1>36. ASSUME NEW p \in Procs, Crash(p)
      PROVE  ActiveInv'
  BY <1>36, <1>t DEF Crash, Return, Lock!Die, Goto, ActiveInv, ProcTypeOK, local
<1>37. CASE UNCHANGED vars
  BY <1>37, <1>t DEF vars, local, ActiveInv
<1>38. QED
  BY <1>1, <1>4, <1>5, <1>6, <1>7, <1>8, <1>9, <1>10, <1>11, <1>12, <1>13,
     <1>14, <1>15, <1>16, <1>17, <1>18, <1>19, <1>20, <1>21, <1>22, <1>23, <1>24,
     <1>25, <1>26, <1>27, <1>28, <1>29, <1>30, <1>31, <1>32, <1>33, <1>34, <1>35,
     <1>36, <1>37 DEF StoreNext, Step

-----------------------------------------------------------------------------
(* The files, the catalog and the journal.                                 *)

\* A step of p leaves what the other processes keep for themselves alone.
OwnStep(p) ==
  \A q \in Procs \ {p} :
    /\ pc'[q] = pc[q] /\ op'[q] = op[q] /\ todo'[q] = todo[q]
    /\ image'[q] = image[q] /\ active'[q] = active[q]

\* A process that enters or leaves the lock is in no phase.
LEMMA NoPhase ==
  ASSUME NEW p, pc'[p] \in {"idle", "acquire", "recover", "release"}
  PROVE  Phase(p)'
  BY DEF Phase, WriteInv, SaveInv, RestoreInv, SettledInv

\* The phases depend on the disk and on what the process keeps for itself.
LEMMA PhaseKept ==
  ASSUME NEW p \in Procs, Phase(p), UNCHANGED disk,
         pc'[p] = pc[p], op'[p] = op[p], todo'[p] = todo[p],
         image'[p] = image[p], active'[p] = active[p]
  PROVE  Phase(p)'
<1>1. /\ UNCHANGED <<tree, catalog, journal>>
      /\ Undecided' = Undecided
  BY DEF disk, Undecided, JournalCommitted
<1>2. Unwritten(p)' = Unwritten(p) /\ \A S : Written(p, S)' = Written(p, S)
  BY <1>1 DEF Unwritten, Written
<1>3. WriteInv(p)'
  BY <1>1, <1>2 DEF Phase, WriteInv, Agrees
<1>4. SaveInv(p)'
  BY <1>1, <1>2 DEF Phase, SaveInv, Agrees
<1>5. RestoreInv(p)' /\ SettledInv(p)'
  BY <1>1 DEF Phase, RestoreInv, SettledInv
<1>6. QED
  BY <1>3, <1>4, <1>5 DEF Phase

\* A step of p disturbs nobody else: it leaves the disk alone, or p owns the lock.
LEMMA OthersKept ==
  ASSUME IInv, NEW p \in Procs, OwnStep(p), UNCHANGED disk \/ pc[p] \in Locked
  PROVE  \A q \in Procs \ {p} : Phase(q)'
<1> SUFFICES ASSUME NEW q \in Procs \ {p}
             PROVE  Phase(q)'
  OBVIOUS
<1>1. /\ pc'[q] = pc[q] /\ op'[q] = op[q] /\ todo'[q] = todo[q]
      /\ image'[q] = image[q] /\ active'[q] = active[q]
  BY DEF OwnStep
<1>2. CASE UNCHANGED disk
  BY <1>1, <1>2, PhaseKept DEF IInv, PhaseInv
<1>3. CASE pc[p] \in Locked
  <2>1. pc[q] \in Labels
    BY DEF IInv, TypeOK
  <2>2. pc'[q] \in {"idle", "acquire"}
    BY <1>1, <1>3, <2>1, Alone DEF IInv, Locked
  <2>3. QED
    BY <2>2 DEF Phase, WriteInv, SaveInv, RestoreInv, SettledInv
<1>4. QED
  BY <1>2, <1>3

DiskInv ==
  /\ JournalInv
  /\ PhaseInv
  /\ ~Republish => SettlesToCatalog

\* A step of p keeps the invariant of the disk if it keeps p's phase.
LEMMA DiskKept ==
  ASSUME IInv, NEW p \in Procs, OwnStep(p), UNCHANGED disk, Phase(p)'
  PROVE  DiskInv'
<1>1. PhaseInv'
  BY OthersKept DEF PhaseInv
<1>2. JournalInv' /\ (~Republish => SettlesToCatalog')
  BY DEF IInv, disk, JournalInv, SettlesToCatalog, Settled, JournalCommitted
<1>3. QED
  BY <1>1, <1>2 DEF DiskInv

\* The same for a step under the lock that changes the disk.
LEMMA DiskChanged ==
  ASSUME IInv, NEW p \in Procs, OwnStep(p), pc[p] \in Locked, Phase(p)',
         JournalInv', ~Republish => SettlesToCatalog'
  PROVE  DiskInv'
<1>1. PhaseInv'
  BY OthersKept DEF PhaseInv
<1>2. QED
  BY <1>1 DEF DiskInv

\* Without republications, what is written differs from the catalog.
LEMMA WrittenDiffers ==
  ASSUME IInv, ~Republish, NEW p \in Procs, pc[p] = "write", todo[p] = {}
  PROVE  Written(p, {}) # catalog
<1>1. /\ Differs(op[p]) /\ op[p].writes \in Partial
      /\ Agrees(catalog, op[p].expects)
      /\ ~Unwritten(p) => Agrees(catalog, op[p].requires)
  BY DEF IInv, ChangeInv, ActiveInv, PhaseInv, Phase, WriteInv, TypeOK, Ops
<1>2. DOMAIN op[p].writes \subseteq Files
  BY <1>1, PartialTypes
<1>3. PICK f \in DOMAIN op[p].writes : op[p].writes[f] # catalog[f]
  <2>1. CASE \E f \in DOMAIN op[p].writes \cap DOMAIN op[p].expects :
               op[p].writes[f] # op[p].expects[f]
    BY <1>1, <2>1 DEF Agrees
  <2>2. CASE \E f \in DOMAIN op[p].writes \cap DOMAIN op[p].requires :
               op[p].writes[f] # op[p].requires[f]
    <3>1. ~Unwritten(p)
      BY <2>2 DEF Unwritten
    <3>2. QED
      BY <1>1, <2>2, <3>1 DEF Agrees
  <2>3. QED
    BY <1>1, <2>1, <2>2 DEF Differs
<1>4. Written(p, {})[f] = op[p].writes[f]
  BY <1>2, <1>3 DEF Written
<1>5. QED
  BY <1>3, <1>4

\* Every step keeps the files, the catalog and the journal in their phase.
LEMMA DiskStep ==
  IInv /\ [StoreNext]_vars => DiskInv'
<1> SUFFICES ASSUME IInv, [StoreNext]_vars
             PROVE  DiskInv'
  OBVIOUS
<1>t. ProcTypeOK /\ DiskTypeOK
  BY DEF IInv, TypeOK, DiskTypeOK, ProcTypeOK, Journals
<1>n. ASSUME NEW p \in Procs, OwnStep(p), UNCHANGED disk,
             pc'[p] \in {"idle", "acquire", "recover", "release"}
      PROVE  DiskInv'
  BY <1>n, NoPhase, DiskKept
<1>m. None \notin Images /\ None \notin Journals
  BY ImageTypes, CatalogAssumption DEF Journals
<1>p. \A p \in Procs : Phase(p)
  BY DEF IInv, PhaseInv
<1>j. JournalInv /\ (~Republish => SettlesToCatalog)
  BY DEF IInv
<1>1. ASSUME NEW p \in Procs, NEW o, Asked(o), Start(p, o)
      PROVE  DiskInv'
  <2>1. OwnStep(p) /\ UNCHANGED disk /\ pc'[p] = "acquire"
    BY <1>1, <1>t DEF Start, OwnStep, ProcTypeOK, Goto, local
  <2>2. QED
    BY <1>n, <2>1
<1>4. ASSUME NEW p \in Procs, AcquireReclaim(p)
      PROVE  DiskInv'
  <2>1. OwnStep(p)
    BY <1>4, <1>t DEF AcquireReclaim, Lock!Reclaim, OwnStep, ProcTypeOK, Goto, local
  <2>2. UNCHANGED disk /\ pc'[p] \in {"idle", "acquire", "recover", "release"}
    BY <1>4, <1>t DEF AcquireReclaim, Lock!Reclaim, Goto, ProcTypeOK, disk
  <2>3. QED
    BY <1>n, <2>1, <2>2
<1>5. ASSUME NEW p \in Procs, AcquireTake(p)
      PROVE  DiskInv'
  <2>1. OwnStep(p)
    BY <1>5, <1>t DEF AcquireTake, Lock!TakeAs, OwnStep, ProcTypeOK, Goto, local
  <2>2. UNCHANGED disk /\ pc'[p] \in {"idle", "acquire", "recover", "release"}
    BY <1>5, <1>t DEF AcquireTake, Lock!TakeAs, Goto, ProcTypeOK, disk
  <2>3. QED
    BY <1>n, <2>1, <2>2
<1>6. ASSUME NEW p \in Procs, AcquireBusy(p)
      PROVE  DiskInv'
  <2>1. OwnStep(p)
    BY <1>6, <1>t DEF AcquireBusy, Return, OwnStep, ProcTypeOK, Goto, local
  <2>2. UNCHANGED disk /\ pc'[p] \in {"idle", "acquire", "recover", "release"}
    BY <1>6, <1>t DEF AcquireBusy, Return, Goto, ProcTypeOK, disk
  <2>3. QED
    BY <1>n, <2>1, <2>2
<1>7. ASSUME NEW p \in Procs, Release(p)
      PROVE  DiskInv'
  <2>1. OwnStep(p)
    BY <1>7, <1>t DEF Release, Return, Lock!Drop, OwnStep, ProcTypeOK, Goto, local
  <2>2. UNCHANGED disk /\ pc'[p] \in {"idle", "acquire", "recover", "release"}
    BY <1>7, <1>t DEF Release, Return, Lock!Drop, Goto, ProcTypeOK, disk
  <2>3. QED
    BY <1>n, <2>1, <2>2
<1>8. ASSUME NEW p \in Procs, ReleaseFails(p)
      PROVE  DiskInv'
  <2>1. OwnStep(p)
    BY <1>8, <1>t DEF ReleaseFails, Return, Lock!Drop, Fault, OwnStep, ProcTypeOK, Goto, local
  <2>2. UNCHANGED disk /\ pc'[p] \in {"idle", "acquire", "recover", "release"}
    BY <1>8, <1>t DEF ReleaseFails, Return, Lock!Drop, Fault, Goto, ProcTypeOK, disk
  <2>3. QED
    BY <1>n, <2>1, <2>2
<1>9. ASSUME NEW p \in Procs, RecoverNested(p)
      PROVE  DiskInv'
  <2>1. OwnStep(p)
    BY <1>9, <1>t DEF RecoverNested, Leave, OwnStep, ProcTypeOK, Goto, local
  <2>2. UNCHANGED disk /\ pc'[p] \in {"idle", "acquire", "recover", "release"}
    BY <1>9, <1>t DEF RecoverNested, Leave, Goto, ProcTypeOK, disk
  <2>3. QED
    BY <1>n, <2>1, <2>2
<1>10. ASSUME NEW p \in Procs, RecoverNothing(p)
      PROVE  DiskInv'
  <2>1. OwnStep(p)
    BY <1>10, <1>t DEF RecoverNothing, OwnStep, ProcTypeOK, Goto, local
  <2>2. UNCHANGED disk /\ pc'[p] = "operate" /\ journal' = None
    BY <1>10, <1>t DEF RecoverNothing, Goto, ProcTypeOK, disk
  <2>3. Phase(p)'
    BY <2>2 DEF Phase, WriteInv, SaveInv, RestoreInv, SettledInv
  <2>4. QED
    BY <2>1, <2>2, <2>3, DiskKept
<1>11. ASSUME NEW p \in Procs, RecoverCommitted(p)
      PROVE  DiskInv'
  <2>1. OwnStep(p)
    BY <1>11, <1>t DEF RecoverCommitted, Leave, OwnStep, ProcTypeOK, Goto, local
  <2>2. CASE tree = catalog
    <3>1. UNCHANGED disk /\ pc'[p] = "retire" /\ journal' # None /\ tree' = catalog'
      BY <1>11, <1>t, <2>2 DEF RecoverCommitted, Goto, ProcTypeOK, disk
    <3>2. Phase(p)'
      BY <3>1 DEF Phase, WriteInv, SaveInv, RestoreInv, SettledInv
    <3>3. QED
      BY <2>1, <3>1, <3>2, DiskKept
  <2>3. CASE tree # catalog
    BY <1>11, <1>n, <1>t, <2>1, <2>3 DEF RecoverCommitted, Leave, Goto, ProcTypeOK
  <2>4. QED
    BY <2>2, <2>3
<1>12. ASSUME NEW p \in Procs, RecoverUncommitted(p)
      PROVE  DiskInv'
  <2>1. OwnStep(p)
    BY <1>12, <1>t DEF RecoverUncommitted, Leave, OwnStep, ProcTypeOK, Goto, local
  <2>2. CASE catalog = journal.baseline
    <3>1. UNCHANGED disk /\ pc'[p] = "unlink" /\ ~active[p] /\ UNCHANGED active
      BY <1>12, <1>t, <2>2 DEF RecoverUncommitted, Goto, ProcTypeOK, local
    <3>2. Undecided'
      BY <1>12, <2>2, <3>1 DEF RecoverUncommitted, Undecided, JournalCommitted, disk
    <3>3. Phase(p)'
      BY <3>1, <3>2 DEF Phase, WriteInv, SaveInv, RestoreInv, SettledInv
    <3>4. QED
      BY <2>1, <3>1, <3>3, DiskKept
  <2>3. CASE catalog # journal.baseline
    BY <1>12, <1>n, <1>t, <2>1, <2>3 DEF RecoverUncommitted, Leave, Goto, ProcTypeOK
  <2>4. QED
    BY <2>2, <2>3
<1>13. ASSUME NEW p \in Procs, Retire(p)
      PROVE  DiskInv'
  <2>1. OwnStep(p)
    BY <1>13, <1>t DEF Retire, OwnStep, ProcTypeOK, Goto, local
  <2>2. pc[p] \in Locked
    BY <1>13 DEF Retire, Locked, Labels
  <2>3. /\ journal' = None /\ UNCHANGED <<tree, catalog>>
        /\ pc'[p] = "operate" /\ tree = catalog
    BY <1>13, <1>t, <1>p DEF Retire, Goto, ProcTypeOK, Phase, SettledInv
  <2>4. Phase(p)'
    BY <2>3 DEF Phase, WriteInv, SaveInv, RestoreInv, SettledInv
  <2>5. JournalInv' /\ (~Republish => SettlesToCatalog')
    BY <1>j, <2>3 DEF JournalInv, SettlesToCatalog, Settled, JournalCommitted
  <2>6. QED
    BY <2>1, <2>2, <2>4, <2>5, DiskChanged
<1>14. ASSUME NEW p \in Procs, RetireFails(p)
      PROVE  DiskInv'
  <2>1. OwnStep(p)
    BY <1>14, <1>t DEF RetireFails, Leave, Fault, OwnStep, ProcTypeOK, Goto, local
  <2>2. pc[p] \in Locked
    BY <1>14 DEF RetireFails, Locked, Labels
  <2>3. /\ journal' \in {journal, None} /\ UNCHANGED <<tree, catalog>>
        /\ pc'[p] = "release" /\ tree = catalog
    BY <1>14, <1>t, <1>p DEF RetireFails, Leave, Goto, ProcTypeOK, Phase, SettledInv
  <2>4. Phase(p)'
    BY <2>3 DEF Phase, WriteInv, SaveInv, RestoreInv, SettledInv
  <2>5. JournalInv' /\ (~Republish => SettlesToCatalog')
    BY <1>j, <2>3 DEF JournalInv, SettlesToCatalog, Settled, JournalCommitted
  <2>6. QED
    BY <2>1, <2>2, <2>4, <2>5, DiskChanged
<1>15. ASSUME NEW p \in Procs, RestoreUnlink(p)
      PROVE  DiskInv'
  <2>1. OwnStep(p)
    BY <1>15, <1>t DEF RestoreUnlink, OwnStep, ProcTypeOK, Goto, local
  <2>2. pc[p] \in Locked
    BY <1>15 DEF RestoreUnlink, Locked, Labels
  <2>3. /\ UNCHANGED <<catalog, journal, image, active>>
        /\ pc'[p] \in {"unlink", "rewrite"}
    BY <1>15 DEF RestoreUnlink, local
  <2>4. Undecided /\ (active[p] => image[p] = catalog)
    BY <1>15, <1>p DEF RestoreUnlink, Phase, RestoreInv
  <2>5. Undecided' /\ JournalInv' /\ (~Republish => SettlesToCatalog')
    BY <1>j, <2>3, <2>4 DEF Undecided, JournalInv, SettlesToCatalog, Settled, JournalCommitted
  <2>6. Phase(p)'
    BY <2>3, <2>4, <2>5 DEF Phase, WriteInv, SaveInv, RestoreInv, SettledInv
  <2>7. QED
    BY <2>1, <2>2, <2>5, <2>6, DiskChanged
<1>16. ASSUME NEW p \in Procs, RestoreUnlinked(p)
      PROVE  DiskInv'
  <2>1. OwnStep(p)
    BY <1>16, <1>t DEF RestoreUnlinked, OwnStep, ProcTypeOK, Goto, local
  <2>2. UNCHANGED disk /\ pc'[p] = "rewrite" /\ UNCHANGED <<image, active>>
    BY <1>16, <1>t DEF RestoreUnlinked, Goto, ProcTypeOK, local
  <2>3. Undecided /\ (active[p] => image[p] = catalog)
    BY <1>16, <1>p DEF RestoreUnlinked, Phase, RestoreInv
  <2>4. Undecided'
    BY <2>2, <2>3 DEF Undecided, JournalCommitted, disk
  <2>5. Phase(p)'
    BY <2>2, <2>3, <2>4 DEF Phase, WriteInv, SaveInv, RestoreInv, SettledInv, disk
  <2>6. QED
    BY <2>1, <2>2, <2>5, DiskKept
<1>17. ASSUME NEW p \in Procs, RestoreWrite(p)
      PROVE  DiskInv'
  <2>1. OwnStep(p)
    BY <1>17, <1>t DEF RestoreWrite, OwnStep, ProcTypeOK, Goto, local
  <2>2. pc[p] \in Locked
    BY <1>17 DEF RestoreWrite, Locked, Labels
  <2>3. /\ UNCHANGED <<catalog, journal, image, active>>
        /\ pc'[p] \in {"unlink", "rewrite"}
    BY <1>17 DEF RestoreWrite, local
  <2>4. Undecided /\ (active[p] => image[p] = catalog)
    BY <1>17, <1>p DEF RestoreWrite, Phase, RestoreInv
  <2>5. Undecided' /\ JournalInv' /\ (~Republish => SettlesToCatalog')
    BY <1>j, <2>3, <2>4 DEF Undecided, JournalInv, SettlesToCatalog, Settled, JournalCommitted
  <2>6. Phase(p)'
    BY <2>3, <2>4, <2>5 DEF Phase, WriteInv, SaveInv, RestoreInv, SettledInv
  <2>7. QED
    BY <2>1, <2>2, <2>5, <2>6, DiskChanged
<1>18. ASSUME NEW p \in Procs, RestoreDone(p)
      PROVE  DiskInv'
  <2>1. OwnStep(p)
    BY <1>18, <1>t DEF RestoreDone, OwnStep, ProcTypeOK, Goto, local
  <2>2. UNCHANGED disk /\ pc'[p] \in {"unwind", "retire"}
    BY <1>18, <1>t DEF RestoreDone, Goto, ProcTypeOK
  <2>3. tree = catalog /\ journal # None
    BY <1>18, RestoredImage DEF RestoreDone
  <2>4. Phase(p)'
    BY <2>2, <2>3 DEF Phase, WriteInv, SaveInv, RestoreInv, SettledInv, disk
  <2>5. QED
    BY <2>1, <2>2, <2>4, DiskKept
<1>19. ASSUME NEW p \in Procs, RestoreFails(p)
      PROVE  DiskInv'
  <2>1. OwnStep(p)
    BY <1>19, <1>t DEF RestoreFails, Leave, Fault, OwnStep, ProcTypeOK, Goto, local
  <2>2. UNCHANGED disk /\ pc'[p] \in {"idle", "acquire", "recover", "release"}
    BY <1>19, <1>t DEF RestoreFails, Leave, Fault, Goto, ProcTypeOK, disk
  <2>3. QED
    BY <1>n, <2>1, <2>2
<1>20. ASSUME NEW p \in Procs, Read(p)
      PROVE  DiskInv'
  <2>1. OwnStep(p)
    BY <1>20, <1>t DEF Read, Leave, OwnStep, ProcTypeOK, Goto, local
  <2>2. UNCHANGED disk /\ pc'[p] \in {"idle", "acquire", "recover", "release"}
    BY <1>20, <1>t DEF Read, Leave, Goto, ProcTypeOK, disk
  <2>3. QED
    BY <1>n, <2>1, <2>2
<1>21. ASSUME NEW p \in Procs, PublishRejected(p)
      PROVE  DiskInv'
  <2>1. OwnStep(p)
    BY <1>21, <1>t DEF PublishRejected, Leave, OwnStep, ProcTypeOK, Goto, local
  <2>2. UNCHANGED disk /\ pc'[p] \in {"idle", "acquire", "recover", "release"}
    BY <1>21, <1>t DEF PublishRejected, Leave, Goto, ProcTypeOK, disk
  <2>3. QED
    BY <1>n, <2>1, <2>2
<1>22. ASSUME NEW p \in Procs, BeginTransaction(p)
      PROVE  DiskInv'
  <2>1. OwnStep(p)
    BY <1>22, <1>t DEF BeginTransaction, OwnStep, ProcTypeOK, Goto, local
  <2>2. pc[p] \in Locked
    BY <1>22 DEF BeginTransaction, Locked, Labels
  <2>3. /\ journal' = NewJournal /\ UNCHANGED <<tree, catalog, op>>
        /\ pc'[p] = "write" /\ tree = catalog /\ image'[p] = catalog
        /\ todo'[p] = DOMAIN op[p].writes
        /\ Agrees(catalog, op[p].expects)
    BY <1>22, <1>t DEF BeginTransaction, Goto, ProcTypeOK, Admitted
  <2>4. NewJournal \in Journals /\ NewJournal # None
    BY <1>t, <1>m, <2>3 DEF NewJournal, Journals, DiskTypeOK
  <2>5. /\ journal' # None /\ journal'.target = None
        /\ journal'.baseline = catalog /\ journal'.image = catalog
    BY <2>3, <2>4 DEF NewJournal
  <2>6. Undecided' /\ JournalInv' /\ (~Republish => SettlesToCatalog')
    BY <2>3, <2>5 DEF Undecided, JournalInv, SettlesToCatalog, Settled, JournalCommitted
  <2>7. tree' = Written(p, todo[p])'
    <3>1. \A f \in Files : Written(p, todo[p])'[f] = catalog[f]
      BY <2>3 DEF Written
    <3>2. tree \in [Files -> Values \cup {Missing}]
      BY <1>t, <2>3 DEF DiskTypeOK, Images
    <3>3. QED
      BY <2>3, <3>1, <3>2 DEF Written
  <2>8. WriteInv(p)'
    BY <2>3, <2>5, <2>6, <2>7 DEF WriteInv, Unwritten, Agrees
  <2>9. Phase(p)'
    BY <2>3, <2>8 DEF Phase, SaveInv, RestoreInv, SettledInv
  <2>10. QED
    BY <2>1, <2>2, <2>6, <2>9, DiskChanged
<1>23. ASSUME NEW p \in Procs, BeginFails(p)
      PROVE  DiskInv'
  <2>1. OwnStep(p)
    BY <1>23, <1>t DEF BeginFails, Leave, Fault, OwnStep, ProcTypeOK, Goto, local
  <2>2. pc[p] \in Locked
    BY <1>23 DEF BeginFails, Locked, Labels
  <2>3. /\ journal' \in {NewJournal, None} /\ UNCHANGED <<tree, catalog>>
        /\ pc'[p] = "release" /\ tree = catalog
    BY <1>23, <1>t DEF BeginFails, Leave, Goto, ProcTypeOK, Admitted
  <2>4. Phase(p)'
    BY <2>3 DEF Phase, WriteInv, SaveInv, RestoreInv, SettledInv
  <2>5. JournalInv' /\ (~Republish => SettlesToCatalog')
    BY <2>3 DEF JournalInv, SettlesToCatalog, Settled, JournalCommitted, NewJournal
  <2>6. QED
    BY <2>1, <2>2, <2>4, <2>5, DiskChanged
<1>24. ASSUME NEW p \in Procs, WriteFile(p)
      PROVE  DiskInv'
  <2>1. OwnStep(p)
    BY <1>24, <1>t DEF WriteFile, OwnStep, ProcTypeOK, Goto, local
  <2>2. pc[p] \in Locked
    BY <1>24 DEF WriteFile, Locked, Labels
  <2>3. PICK f \in NextToWrite(p) : /\ tree' = [tree EXCEPT ![f] = op[p].writes[f]]
                                   /\ todo' = [todo EXCEPT ![p] = @ \ {f}]
    BY <1>24 DEF WriteFile
  <2>4. UNCHANGED <<catalog, journal, pc, op, image>> /\ pc[p] = "write"
    BY <1>24 DEF WriteFile
  <2>5. WriteInv(p) /\ op[p].writes \in Partial /\ tree \in Trees
    BY <1>p, <1>t DEF Phase, ProcTypeOK, DiskTypeOK, Ops
  <2>6. /\ f \in todo[p] /\ todo[p] \subseteq DOMAIN op[p].writes
        /\ Unwritten(p) => Agrees(tree, op[p].requires)
    BY <2>3, <2>4, <2>5 DEF NextToWrite, WriteInv
  <2>7. DOMAIN op[p].writes \subseteq Files
    BY <2>5, PartialTypes
  <2>8. Undecided' /\ JournalInv' /\ (~Republish => SettlesToCatalog')
    BY <1>j, <2>4, <2>5 DEF WriteInv, Undecided, JournalInv, SettlesToCatalog, Settled, JournalCommitted
  <2>9. todo'[p] = todo[p] \ {f}
    BY <1>t, <2>3 DEF ProcTypeOK
  <2>10. tree' = Written(p, todo[p])'
    <3>1. tree = Written(p, todo[p])
      BY <2>4, <2>5 DEF WriteInv
    <3>2. \A g \in Files : tree'[g] = Written(p, todo[p])'[g]
      BY <2>3, <2>4, <2>6, <2>7, <2>9, <3>1 DEF Written
    <3>3. tree' \in [Files -> Contents]
      BY DiskTypeStep DEF DiskTypeOK, Trees
    <3>4. QED
      BY <3>2, <3>3 DEF Written
  <2>11. Agrees(catalog, op[p].requires)
    <3>1. CASE Unwritten(p)
      <4>1. \A g \in Files : tree[g] = catalog[g]
        BY <2>4, <2>5, <3>1 DEF WriteInv, Written, Unwritten
      <4>2. DOMAIN op[p].requires \subseteq Files
        BY <1>t, PartialTypes DEF ProcTypeOK, Ops
      <4>3. QED
        BY <2>6, <3>1, <4>1, <4>2 DEF Agrees
    <3>2. CASE ~Unwritten(p)
      BY <2>4, <2>5, <3>2 DEF WriteInv
    <3>3. QED
      BY <3>1, <3>2
  <2>12. WriteInv(p)'
    BY <2>4, <2>5, <2>8, <2>9, <2>10, <2>11 DEF WriteInv, Agrees
  <2>13. Phase(p)'
    BY <2>4, <2>12 DEF Phase, SaveInv, RestoreInv, SettledInv
  <2>14. QED
    BY <2>1, <2>2, <2>8, <2>13, DiskChanged
<1>25. ASSUME NEW p \in Procs, WriteTears(p)
      PROVE  DiskInv'
  <2>1. OwnStep(p)
    BY <1>25, <1>t DEF WriteTears, Fault, OwnStep, ProcTypeOK, Goto, local
  <2>2. pc[p] \in Locked
    BY <1>25 DEF WriteTears, Locked, Labels
  <2>3. /\ UNCHANGED <<catalog, journal, image, active>>
        /\ pc'[p] = "unlink"
    BY <1>25, <1>t DEF WriteTears, Goto, ProcTypeOK, local
  <2>4. Undecided /\ image[p] = catalog
    BY <1>25, <1>p DEF WriteTears, Phase, WriteInv
  <2>5. Undecided' /\ JournalInv' /\ (~Republish => SettlesToCatalog')
    BY <1>j, <2>3, <2>4 DEF Undecided, JournalInv, SettlesToCatalog, Settled, JournalCommitted
  <2>6. Phase(p)'
    BY <2>3, <2>4, <2>5 DEF Phase, WriteInv, SaveInv, RestoreInv, SettledInv
  <2>7. QED
    BY <2>1, <2>2, <2>5, <2>6, DiskChanged
<1>26. ASSUME NEW p \in Procs, WriteFails(p)
      PROVE  DiskInv'
  <2>1. OwnStep(p)
    BY <1>26, <1>t DEF WriteFails, Fault, OwnStep, ProcTypeOK, Goto, local
  <2>2. UNCHANGED disk /\ pc'[p] = "unlink" /\ UNCHANGED <<image, active>>
    BY <1>26, <1>t DEF WriteFails, Goto, ProcTypeOK, local
  <2>3. Undecided /\ image[p] = catalog
    BY <1>26, <1>p DEF WriteFails, Phase, WriteInv
  <2>4. Undecided'
    BY <2>2, <2>3 DEF Undecided, JournalCommitted, disk
  <2>5. Phase(p)'
    BY <2>2, <2>3, <2>4 DEF Phase, WriteInv, SaveInv, RestoreInv, SettledInv, disk
  <2>6. QED
    BY <2>1, <2>2, <2>5, DiskKept
<1>27. ASSUME NEW p \in Procs, Prepare(p)
      PROVE  DiskInv'
  <2>1. OwnStep(p)
    BY <1>27, <1>t DEF Prepare, OwnStep, ProcTypeOK, Goto, local
  <2>2. pc[p] \in Locked
    BY <1>27 DEF Prepare, Locked, Labels
  <2>3. /\ journal' = [journal EXCEPT !.target = NewCatalog(p)]
        /\ UNCHANGED <<tree, catalog, op, image, active>>
        /\ pc'[p] = "save" /\ pc[p] = "write" /\ todo[p] = {}
    BY <1>27, <1>t DEF Prepare, Goto, ProcTypeOK, local
  <2>4. /\ NewCatalog(p) = tree /\ tree = Written(p, {}) /\ tree \in Images
        /\ journal \in Journals /\ journal.baseline = catalog
    BY <2>3, PreparedCatalog
  <2>5. /\ Agrees(catalog, op[p].expects) /\ image[p] = catalog
        /\ DOMAIN op[p].writes # {} => Agrees(catalog, op[p].requires)
    BY <1>p, <2>3 DEF Phase, WriteInv, Unwritten
  <2>6. /\ journal' \in Journals /\ journal' # None /\ journal'.target = tree
        /\ journal'.baseline = catalog /\ journal'.image = catalog
    <3>1. journal.image = catalog
      BY <1>j, <1>m, <2>4 DEF JournalInv
    <3>2. QED
      BY <1>m, <2>3, <2>4, <3>1 DEF Journals
  <2>7. ~Republish => tree # catalog
    BY <2>3, <2>4, WrittenDiffers
  <2>8. Undecided' /\ JournalInv' /\ (~Republish => SettlesToCatalog')
    BY <2>3, <2>6, <2>7 DEF Undecided, JournalInv, SettlesToCatalog, Settled, JournalCommitted
  <2>9. Phase(p)'
    <3>1. Written(p, {})' = Written(p, {})
      BY <2>3 DEF Written
    <3>2. SaveInv(p)'
      BY <2>3, <2>4, <2>5, <2>6, <2>8, <3>1 DEF SaveInv, Agrees
    <3>3. QED
      BY <2>3, <3>2 DEF Phase, WriteInv, RestoreInv, SettledInv
  <2>10. QED
    BY <2>1, <2>2, <2>8, <2>9, DiskChanged
<1>28. ASSUME NEW p \in Procs, PrepareFails(p)
      PROVE  DiskInv'
  <2>1. OwnStep(p)
    BY <1>28, <1>t DEF PrepareFails, Fault, OwnStep, ProcTypeOK, Goto, local
  <2>2. pc[p] \in Locked
    BY <1>28 DEF PrepareFails, Locked, Labels
  <2>3. /\ journal' = [journal EXCEPT !.target = NewCatalog(p)]
        /\ UNCHANGED <<tree, catalog, op, image, active>>
        /\ pc'[p] = "unlink" /\ pc[p] = "write" /\ todo[p] = {}
    BY <1>28, <1>t DEF PrepareFails, Goto, ProcTypeOK, local
  <2>4. /\ NewCatalog(p) = tree /\ tree = Written(p, {}) /\ tree \in Images
        /\ journal \in Journals /\ journal.baseline = catalog
    BY <2>3, PreparedCatalog
  <2>5. Agrees(catalog, op[p].expects) /\ image[p] = catalog
    BY <1>p, <2>3 DEF Phase, WriteInv
  <2>6. /\ journal' \in Journals /\ journal' # None /\ journal'.target = tree
        /\ journal'.baseline = catalog /\ journal'.image = catalog
    <3>1. journal.image = catalog
      BY <1>j, <1>m, <2>4 DEF JournalInv
    <3>2. QED
      BY <1>m, <2>3, <2>4, <3>1 DEF Journals
  <2>7. ~Republish => tree # catalog
    BY <2>3, <2>4, WrittenDiffers
  <2>8. Undecided' /\ JournalInv' /\ (~Republish => SettlesToCatalog')
    BY <2>3, <2>6, <2>7 DEF Undecided, JournalInv, SettlesToCatalog, Settled, JournalCommitted
  <2>9. Phase(p)'
    BY <2>3, <2>5, <2>8 DEF Phase, WriteInv, SaveInv, RestoreInv, SettledInv
  <2>10. QED
    BY <2>1, <2>2, <2>8, <2>9, DiskChanged
<1>29. ASSUME NEW p \in Procs, Save(p)
      PROVE  DiskInv'
  <2>1. OwnStep(p)
    BY <1>29, <1>t DEF Save, OwnStep, ProcTypeOK, Goto, local
  <2>2. pc[p] \in Locked
    BY <1>29 DEF Save, Locked, Labels
  <2>3. /\ catalog' = journal.target /\ UNCHANGED <<tree, journal>>
        /\ pc'[p] = "finish"
    BY <1>29, <1>t DEF Save, Goto, ProcTypeOK
  <2>4. journal # None /\ journal.target = tree /\ tree \in Images
    BY <1>29, <1>p, WrittenTypes DEF Save, Phase, SaveInv, Undecided, IInv
  <2>5. catalog' = tree' /\ journal' # None /\ JournalCommitted'
    BY <1>m, <2>3, <2>4 DEF JournalCommitted
  <2>6. JournalInv' /\ (~Republish => SettlesToCatalog')
    BY <1>j, <2>3, <2>5 DEF JournalInv, SettlesToCatalog, Settled
  <2>7. Phase(p)'
    BY <2>3, <2>5 DEF Phase, WriteInv, SaveInv, RestoreInv, SettledInv
  <2>8. QED
    BY <2>1, <2>2, <2>6, <2>7, DiskChanged
<1>30. ASSUME NEW p \in Procs, SaveFails(p)
      PROVE  DiskInv'
  <2>1. OwnStep(p)
    BY <1>30, <1>t DEF SaveFails, Fault, OwnStep, ProcTypeOK, Goto, local
  <2>2. UNCHANGED disk /\ pc'[p] = "unlink" /\ UNCHANGED <<image, active>>
    BY <1>30, <1>t DEF SaveFails, Goto, ProcTypeOK, local
  <2>3. Undecided /\ image[p] = catalog
    BY <1>30, <1>p DEF SaveFails, Phase, SaveInv
  <2>4. Undecided'
    BY <2>2, <2>3 DEF Undecided, JournalCommitted, disk
  <2>5. Phase(p)'
    BY <2>2, <2>3, <2>4 DEF Phase, WriteInv, SaveInv, RestoreInv, SettledInv, disk
  <2>6. QED
    BY <2>1, <2>2, <2>5, DiskKept
<1>31. ASSUME NEW p \in Procs, SaveUncertain(p)
      PROVE  DiskInv'
  <2>1. OwnStep(p)
    BY <1>31, <1>t DEF SaveUncertain, Leave, Fault, OwnStep, ProcTypeOK, Goto, local
  <2>2. pc[p] \in Locked
    BY <1>31 DEF SaveUncertain, Locked, Labels
  <2>3. /\ catalog' = journal.target /\ UNCHANGED <<tree, journal>>
        /\ pc'[p] = "release"
    BY <1>31, <1>t DEF SaveUncertain, Leave, Goto, ProcTypeOK
  <2>4. journal # None /\ journal.target = tree /\ tree \in Images
    BY <1>31, <1>p, WrittenTypes DEF SaveUncertain, Phase, SaveInv, Undecided, IInv
  <2>5. catalog' = tree' /\ journal' # None /\ JournalCommitted'
    BY <1>m, <2>3, <2>4 DEF JournalCommitted
  <2>6. JournalInv' /\ (~Republish => SettlesToCatalog')
    BY <1>j, <2>3, <2>5 DEF JournalInv, SettlesToCatalog, Settled
  <2>7. Phase(p)'
    BY <2>3, <2>5 DEF Phase, WriteInv, SaveInv, RestoreInv, SettledInv
  <2>8. QED
    BY <2>1, <2>2, <2>6, <2>7, DiskChanged
<1>32. ASSUME NEW p \in Procs, Finish(p)
      PROVE  DiskInv'
  <2>1. OwnStep(p)
    BY <1>32, <1>t DEF Finish, Leave, OwnStep, ProcTypeOK, Goto, local
  <2>2. pc[p] \in Locked
    BY <1>32 DEF Finish, Locked, Labels
  <2>3. /\ journal' = None /\ UNCHANGED <<tree, catalog>>
        /\ pc'[p] = "release" /\ tree = catalog
    BY <1>32, <1>t, <1>p DEF Finish, Leave, Goto, ProcTypeOK, Phase, SettledInv
  <2>4. Phase(p)'
    BY <2>3 DEF Phase, WriteInv, SaveInv, RestoreInv, SettledInv
  <2>5. JournalInv' /\ (~Republish => SettlesToCatalog')
    BY <1>j, <2>3 DEF JournalInv, SettlesToCatalog, Settled, JournalCommitted
  <2>6. QED
    BY <2>1, <2>2, <2>4, <2>5, DiskChanged
<1>33. ASSUME NEW p \in Procs, FinishFails(p)
      PROVE  DiskInv'
  <2>1. OwnStep(p)
    BY <1>33, <1>t DEF FinishFails, Leave, Fault, OwnStep, ProcTypeOK, Goto, local
  <2>2. pc[p] \in Locked
    BY <1>33 DEF FinishFails, Locked, Labels
  <2>3. /\ journal' \in {journal, None} /\ UNCHANGED <<tree, catalog>>
        /\ pc'[p] = "release" /\ tree = catalog
    BY <1>33, <1>t, <1>p DEF FinishFails, Leave, Goto, ProcTypeOK, Phase, SettledInv
  <2>4. Phase(p)'
    BY <2>3 DEF Phase, WriteInv, SaveInv, RestoreInv, SettledInv
  <2>5. JournalInv' /\ (~Republish => SettlesToCatalog')
    BY <1>j, <2>3 DEF JournalInv, SettlesToCatalog, Settled, JournalCommitted
  <2>6. QED
    BY <2>1, <2>2, <2>4, <2>5, DiskChanged
<1>34. ASSUME NEW p \in Procs, Unwind(p)
      PROVE  DiskInv'
  <2>1. OwnStep(p)
    BY <1>34, <1>t DEF Unwind, Leave, OwnStep, ProcTypeOK, Goto, local
  <2>2. pc[p] \in Locked
    BY <1>34 DEF Unwind, Locked, Labels
  <2>3. /\ journal' = None /\ UNCHANGED <<tree, catalog>>
        /\ pc'[p] = "release" /\ tree = catalog
    BY <1>34, <1>t, <1>p DEF Unwind, Leave, Goto, ProcTypeOK, Phase, SettledInv
  <2>4. Phase(p)'
    BY <2>3 DEF Phase, WriteInv, SaveInv, RestoreInv, SettledInv
  <2>5. JournalInv' /\ (~Republish => SettlesToCatalog')
    BY <1>j, <2>3 DEF JournalInv, SettlesToCatalog, Settled, JournalCommitted
  <2>6. QED
    BY <2>1, <2>2, <2>4, <2>5, DiskChanged
<1>35. ASSUME NEW p \in Procs, UnwindFails(p)
      PROVE  DiskInv'
  <2>1. OwnStep(p)
    BY <1>35, <1>t DEF UnwindFails, Leave, Fault, OwnStep, ProcTypeOK, Goto, local
  <2>2. pc[p] \in Locked
    BY <1>35 DEF UnwindFails, Locked, Labels
  <2>3. /\ journal' \in {journal, None} /\ UNCHANGED <<tree, catalog>>
        /\ pc'[p] = "release" /\ tree = catalog
    BY <1>35, <1>t, <1>p DEF UnwindFails, Leave, Goto, ProcTypeOK, Phase, SettledInv
  <2>4. Phase(p)'
    BY <2>3 DEF Phase, WriteInv, SaveInv, RestoreInv, SettledInv
  <2>5. JournalInv' /\ (~Republish => SettlesToCatalog')
    BY <1>j, <2>3 DEF JournalInv, SettlesToCatalog, Settled, JournalCommitted
  <2>6. QED
    BY <2>1, <2>2, <2>4, <2>5, DiskChanged
<1>36. ASSUME NEW p \in Procs, Crash(p)
      PROVE  DiskInv'
  <2>1. OwnStep(p)
    BY <1>36, <1>t DEF Crash, Return, Lock!Die, OwnStep, ProcTypeOK, Goto, local
  <2>2. UNCHANGED disk /\ pc'[p] \in {"idle", "acquire", "recover", "release"}
    BY <1>36, <1>t DEF Crash, Return, Lock!Die, Goto, ProcTypeOK, disk
  <2>3. QED
    BY <1>n, <2>1, <2>2
<1>37. CASE UNCHANGED vars
  <2>1. UNCHANGED disk /\ \A p \in Procs : Phase(p)'
    BY <1>37, <1>p, PhaseKept DEF vars, local
  <2>2. QED
    BY <1>j, <2>1 DEF DiskInv, PhaseInv, JournalInv, SettlesToCatalog, Settled, JournalCommitted, disk
<1>38. QED
  BY <1>1, <1>4, <1>5, <1>6, <1>7, <1>8, <1>9, <1>10, <1>11, <1>12, <1>13,
     <1>14, <1>15, <1>16, <1>17, <1>18, <1>19, <1>20, <1>21, <1>22, <1>23, <1>24,
     <1>25, <1>26, <1>27, <1>28, <1>29, <1>30, <1>31, <1>32, <1>33, <1>34, <1>35,
     <1>36, <1>37 DEF StoreNext, Step

-----------------------------------------------------------------------------
(* The callers of this module.                                             *)

\* A publication of an Activity changes the ledger.
LEMMA ActivityAsked ==
  ASSUME TypeOK, NEW p \in Procs, StartActivity(p)
  PROVE  \E o : Asked(o) /\ Start(p, o)
<1>1. PICK S \in SUBSET (Files \ {Ledger}), after \in Values :
        /\ <<view[p][Ledger], after>> \in Appends
        /\ \E w \in [S \cup {Ledger} -> Values \cup {Missing}], expected \in {NoFiles, view[p]} :
             /\ w[Ledger] = after
             /\ Start(p, Publication(w, expected, [f \in {Ledger} |-> view[p][Ledger]]))
  BY DEF StartActivity
<1>2. PICK w \in [S \cup {Ledger} -> Values \cup {Missing}], expected \in {NoFiles, view[p]} :
        /\ w[Ledger] = after
        /\ Start(p, Publication(w, expected, [f \in {Ledger} |-> view[p][Ledger]]))
  BY <1>1
<1>3. view[p][Ledger] # after
  BY <1>1, CatalogAssumption
<1>4. Differs(Publication(w, expected, [f \in {Ledger} |-> view[p][Ledger]]))
  BY <1>2, <1>3 DEF Differs, Publication
<1>5. view[p] \in Images /\ S \cup {Ledger} \in SUBSET Files /\ {Ledger} \in SUBSET Files
  BY CatalogAssumption DEF StartActivity, TypeOK
<1>6. view[p][Ledger] \in Values \cup {Missing} /\ view[p] \in [Files -> Values \cup {Missing}]
  BY <1>5, CatalogAssumption DEF Images
<1>7. w \in Partial /\ expected \in Partial
  BY <1>2, <1>5, <1>6, OpTypes
<1>8. [f \in {Ledger} |-> view[p][Ledger]] \in [{Ledger} -> Values \cup {Missing}]
  BY <1>6
<1>9. [f \in {Ledger} |-> view[p][Ledger]] \in Partial
  BY <1>5, <1>8, OpTypes
<1>10. Publication(w, expected, [f \in {Ledger} |-> view[p][Ledger]]) \in Ops
  BY <1>7, <1>9, OpTypes
<1>11. QED
  BY <1>2, <1>4, <1>10 DEF Asked

\* A publication without an Activity changes a file, unless republications are allowed.
LEMMA PlainAsked ==
  ASSUME TypeOK, NEW p \in Procs, StartPlain(p)
  PROVE  \E o : Asked(o) /\ Start(p, o)
<1>1. PICK S \in SUBSET (Files \ {Ledger}), expected \in {NoFiles, view[p]} \ {None} :
        \E w \in [S -> Values \cup {Missing}] :
          /\ Republish \/ (expected = view[p] /\ ~Agrees(expected, w))
          /\ Start(p, Publication(w, expected, NoFiles))
  BY DEF StartPlain
<1>2. PICK w \in [S -> Values \cup {Missing}] :
        /\ Republish \/ (expected = view[p] /\ ~Agrees(expected, w))
        /\ Start(p, Publication(w, expected, NoFiles))
  BY <1>1
<1>3. expected = NoFiles \/ expected \in [Files -> Values \cup {Missing}]
  BY <1>1 DEF TypeOK, Images
<1>4. w \in Partial /\ expected \in Partial
  BY <1>2, <1>3, OpTypes
<1>5. Publication(w, expected, NoFiles) \in Ops
  BY <1>4, OpTypes
<1>6. ASSUME ~Republish
      PROVE  Differs(Publication(w, expected, NoFiles))
  <2>1. expected = view[p] /\ ~Agrees(expected, w)
    BY <1>2, <1>6
  <2>2. expected \in Images
    BY <1>1, <2>1 DEF TypeOK
  <2>3. PICK f \in DOMAIN w : expected[f] # w[f]
    BY <2>1 DEF Agrees
  <2>4. f \in DOMAIN expected
    BY <2>2, <2>3 DEF Images
  <2>5. QED
    BY <2>3, <2>4 DEF Differs, Publication
<1>7. QED
  BY <1>2, <1>5, <1>6 DEF Asked

\* The steps of this module are steps of the store.
LEMMA NextIsStoreNext ==
  TypeOK /\ [Next]_vars => [StoreNext]_vars
<1>1. ASSUME NEW p \in Procs, StartRead(p)
      PROVE  \E o : Asked(o) /\ Start(p, o)
  <2>1. Asked(ReadOp)
    BY OpTypes DEF Asked, ReadOp
  <2>2. QED
    BY <1>1, <2>1 DEF StartRead
<1>2. QED
  BY <1>1, ActivityAsked, PlainAsked DEF Next, StoreNext

-----------------------------------------------------------------------------
(* The theorems.                                                           *)

\* The inductive invariant holds at the start ...
LEMMA InvInit ==
  ASSUME NEW t \in Images, InitWith(t)
  PROVE  IInv
<1>2. DiskTypeOK
  BY ImageTypes DEF InitWith, DiskTypeOK
<1>3. ProcTypeOK
  BY OpTypes DEF InitWith, Lock!LockInit, ProcTypeOK, Labels, Outcomes
<1>4. TypeOK
  BY <1>2, <1>3 DEF TypeOK, DiskTypeOK, ProcTypeOK, Journals
<1>5. LockInv /\ PhaseInv
  BY DEF InitWith, LockInv, Locked, PhaseInv, Phase, WriteInv, SaveInv, RestoreInv, SettledInv
<1>6. ActiveInv /\ ChangeInv
  BY DEF InitWith, ActiveInv, ChangeInv, ReadOp
<1>7. JournalInv /\ SettlesToCatalog
  BY DEF InitWith, JournalInv, SettlesToCatalog, Settled
<1>8. QED
  BY <1>4, <1>5, <1>6, <1>7 DEF IInv

\* ... and every step keeps it.
LEMMA InvStep ==
  IInv /\ [StoreNext]_vars => IInv'
<1>1. DiskTypeOK' /\ ProcTypeOK' => TypeOK'
  BY DEF TypeOK, DiskTypeOK, ProcTypeOK, Journals
<1>2. QED
  BY <1>1, DiskTypeStep, ProcTypeStep, LockStep, ActiveStep, ChangeStep, DiskStep DEF IInv, DiskInv

LEMMA Invariant ==
  Spec => []IInv
<1>1. [Files -> Values] \subseteq Images
  BY DEF Images
<1>2. Init => IInv
  BY <1>1, InvInit DEF Init
<1>3. IInv => TypeOK
  BY DEF IInv
<1>4. QED
  BY <1>2, <1>3, NextIsStoreNext, InvStep, PTL DEF Spec

\* Files, catalog, journal and processes keep their types through every failure and
\* death; in particular the catalog never describes a partly written file.
THEOREM TypeCorrect ==
  Spec => []TypeOK
<1>1. IInv => TypeOK
  BY DEF IInv
<1>2. QED
  BY <1>1, Invariant, PTL

\* Whatever publication is interrupted by an error or a death, the next access to
\* the catalog finds or restores exactly the files that the catalog describes, if no
\* publication leaves everything as it was.
THEOREM SettlesToCatalogHolds ==
  ASSUME ~Republish
  PROVE  Spec => []SettlesToCatalog
<1>1. IInv => SettlesToCatalog
  BY DEF IInv
<1>2. QED
  BY <1>1, Invariant, PTL

-----------------------------------------------------------------------------
(* Refinement: every step of the transaction protocol is a step of         *)
(* VersionTree. The contents of the version are those of the catalog.      *)

\* A step of p changes the answers of nobody else.
Own(p) == OwnStep(p) /\ \A q \in Procs \ {p} : outcome'[q] = outcome[q]

\* Functions that differ at one argument, and functions that do not differ.
LEMMA FunctionUpdate ==
  ASSUME NEW S, NEW f, NEW g, f = [x \in S |-> f[x]], g = [x \in S |-> g[x]],
         NEW y \in S, \A x \in S \ {y} : g[x] = f[x]
  PROVE  /\ g = [f EXCEPT ![y] = g[y]]
         /\ g[y] = f[y] => g = f
  OBVIOUS

\* The other processes do and have asked what they did and had.
LEMMA OthersSame ==
  ASSUME NEW p \in Procs, Own(p)
  PROVE  /\ statusBar' = [statusBar EXCEPT ![p] = statusBar'[p]]
         /\ answerBar' = [answerBar EXCEPT ![p] = answerBar'[p]]
         /\ Version!OthersAsk(p)
<1>1. ASSUME NEW q \in Procs \ {p}
      PROVE  /\ statusBar'[q] = statusBar[q]
             /\ answerBar'[q] = answerBar[q]
             /\ askedBar'[q] = askedBar[q]
  <2>1. pc'[q] = pc[q] /\ op'[q] = op[q] /\ outcome'[q] = outcome[q]
    BY DEF Own, OwnStep
  <2>2. Applied(q)' = Applied(q)
    BY <2>1 DEF Applied
  <2>3. QED
    BY <2>1, <2>2 DEF statusBar, answerBar, askedBar
<1>2. QED
  <2>1. /\ statusBar = [q \in Procs |-> statusBar[q]] /\ statusBar' = [q \in Procs |-> statusBar'[q]]
        /\ answerBar = [q \in Procs |-> answerBar[q]] /\ answerBar' = [q \in Procs |-> answerBar'[q]]
    BY DEF statusBar, answerBar
  <2>2. statusBar' = [statusBar EXCEPT ![p] = statusBar'[p]]
    BY <1>1, <2>1, FunctionUpdate
  <2>3. answerBar' = [answerBar EXCEPT ![p] = answerBar'[p]]
    BY <1>1, <2>1, FunctionUpdate
  <2>4. QED
    BY <1>1, <2>2, <2>3 DEF Version!OthersAsk

\* A step inside a call that neither commits nor returns.
LEMMA InsideStutters ==
  ASSUME Settled = catalog, Settled' = catalog', NEW p \in Procs, Own(p),
         UNCHANGED <<catalog, view>>, op'[p] = op[p], pc[p] # "idle", pc'[p] # "idle",
         Applied(p)' <=> Applied(p)
  PROVE  UNCHANGED Version!versionVars
<1>1. statusBar'[p] = statusBar[p] /\ answerBar'[p] = answerBar[p] /\ askedBar'[p] = askedBar[p]
  BY DEF statusBar, answerBar, askedBar
<1>2. statusBar' = statusBar /\ answerBar' = answerBar
  <2>1. statusBar = [q \in Procs |-> statusBar[q]] /\ answerBar = [q \in Procs |-> answerBar[q]]
    BY DEF statusBar, answerBar
  <2>2. statusBar' = [statusBar EXCEPT ![p] = statusBar[p]]
    BY <1>1, OthersSame
  <2>3. answerBar' = [answerBar EXCEPT ![p] = answerBar[p]]
    BY <1>1, OthersSame
  <2>4. QED
    BY <2>1, <2>2, <2>3
<1>3. \A q \in Procs : askedBar'[q] = askedBar[q]
  BY <1>1, OthersSame DEF Version!OthersAsk
<1>4. askedBar' = askedBar
  BY <1>3 DEF askedBar
<1>5. QED
  BY <1>2, <1>4 DEF Version!versionVars

\* A call begins.
LEMMA StartAsks ==
  ASSUME Settled = catalog, Settled' = catalog', TypeOK, NEW p \in Procs, NEW o, Start(p, o)
  PROVE  Version!Ask(p)
<1>1. Own(p)
  BY DEF Start, Own, OwnStep, Goto, TypeOK
<1>2. pc[p] = "idle" /\ pc'[p] = "acquire" /\ UNCHANGED catalog
      /\ view' = [view EXCEPT ![p] = None]
  BY DEF Start, Goto, TypeOK, disk
<1>3. statusBar[p] = "idle" /\ answerBar'[p] = "none"
  BY <1>2 DEF statusBar, answerBar
<1>4. statusBar'[p] \in {"reading", "publishing"}
  BY <1>2 DEF statusBar, Applied
<1>5. QED
  BY <1>1, <1>2, <1>3, <1>4, OthersSame DEF Version!Ask

\* A call ends, with an answer that tells whether it has taken effect.
LEMMA EndAnswers ==
  ASSUME Settled = catalog, Settled' = catalog', NEW p \in Procs, Own(p),
         UNCHANGED <<catalog, view>>, pc[p] # "idle", pc'[p] = "idle",
         op[p].kind \in {"read", "publish"},
         outcome'[p] \in {"ok", "uncertain", "failed", "rejected", "busy"},
         Applied(p) <=> outcome'[p] \in {"ok", "uncertain"}
  PROVE  Version!Answer(p)
<1>1. statusBar'[p] = "idle" /\ answerBar'[p] = outcome'[p]
  BY DEF statusBar, answerBar
<1>2. statusBar[p] \in IF outcome'[p] \in {"ok", "uncertain"} THEN {"applied", "seen"}
                       ELSE {"publishing", "reading"}
  BY DEF statusBar
<1>3. QED
  BY <1>1, <1>2, OthersSame DEF Version!Answer

\* Every step is a step or a stutter of the version.
LEMMA StepRefines ==
  ASSUME ~Republish, IInv, IInv', [StoreNext]_vars
  PROVE  [Version!VersionNext]_Version!versionVars
<1> DEFINE Refined == [Version!VersionNext]_Version!versionVars
<1>c. Settled = catalog /\ Settled' = catalog'
  BY DEF IInv, SettlesToCatalog
<1>t. ProcTypeOK /\ TypeOK
  BY DEF IInv, TypeOK, ProcTypeOK
<1>a. ActiveInv
  BY DEF IInv
<1>i. ASSUME NEW p \in Procs, Own(p), UNCHANGED <<catalog, view>>, op'[p] = op[p],
             pc[p] # "idle", pc'[p] # "idle", Applied(p)' <=> Applied(p)
      PROVE  Refined
  BY <1>c, <1>i, InsideStutters
<1>s. ASSUME NEW p \in Procs, NEW o, Start(p, o)
      PROVE  Refined
  BY <1>c, <1>t, <1>s, StartAsks DEF Version!VersionNext
<1>e. ASSUME NEW p \in Procs, Own(p), UNCHANGED <<catalog, view>>, pc[p] # "idle", pc'[p] = "idle",
             outcome'[p] \in {"ok", "uncertain", "failed", "rejected", "busy"},
             Applied(p) <=> outcome'[p] \in {"ok", "uncertain"}
      PROVE  Refined
  <2>1. op[p].kind \in {"read", "publish"}
    BY <1>t DEF ProcTypeOK, Ops
  <2>2. QED
    BY <1>c, <1>e, <2>1, EndAnswers DEF Version!VersionNext
<1> HIDE DEF Refined
<1>1. ASSUME NEW p \in Procs, NEW o, Asked(o), Start(p, o)
      PROVE  Refined
  BY <1>1, <1>s
<1>4. ASSUME NEW p \in Procs, AcquireReclaim(p)
      PROVE  Refined
  <2>1. Own(p)
    BY <1>4, <1>t DEF AcquireReclaim, Lock!Reclaim, Own, OwnStep, ProcTypeOK, Goto, local
  <2>2. /\ UNCHANGED <<catalog, view>> /\ op'[p] = op[p]
        /\ pc[p] # "idle" /\ pc'[p] # "idle" /\ (Applied(p)' <=> Applied(p))
    BY <1>4, <1>t DEF AcquireReclaim, Lock!Reclaim, Goto, ProcTypeOK, local, disk, Applied
  <2>3. QED
    BY <1>i, <2>1, <2>2
<1>5. ASSUME NEW p \in Procs, AcquireTake(p)
      PROVE  Refined
  <2>1. Own(p)
    BY <1>5, <1>t DEF AcquireTake, Lock!TakeAs, Own, OwnStep, ProcTypeOK, Goto, local
  <2>2. /\ UNCHANGED <<catalog, view>> /\ op'[p] = op[p]
        /\ pc[p] # "idle" /\ pc'[p] # "idle" /\ (Applied(p)' <=> Applied(p))
    BY <1>5, <1>t DEF AcquireTake, Lock!TakeAs, Goto, ProcTypeOK, local, disk, Applied
  <2>3. QED
    BY <1>i, <2>1, <2>2
<1>6. ASSUME NEW p \in Procs, AcquireBusy(p)
      PROVE  Refined
  <2>1. Own(p)
    BY <1>6, <1>t DEF AcquireBusy, Return, Own, OwnStep, ProcTypeOK, Goto, local
  <2>2. pc[p] = "acquire" /\ pc'[p] = "idle" /\ outcome'[p] = "busy" /\ UNCHANGED <<catalog, view>>
    BY <1>6, <1>t DEF AcquireBusy, Return, Goto, ProcTypeOK, disk
  <2>3. QED
    BY <1>e, <2>1, <2>2 DEF Applied
<1>7. ASSUME NEW p \in Procs, Release(p)
      PROVE  Refined
  <2>1. Own(p)
    BY <1>7, <1>t DEF Release, Return, Lock!Drop, Own, OwnStep, ProcTypeOK, Goto, local
  <2>2. /\ pc[p] = "release" /\ pc'[p] = "idle" /\ UNCHANGED <<catalog, view>>
        /\ outcome'[p] = outcome[p]
    BY <1>7, <1>t DEF Release, Return, Goto, ProcTypeOK, disk
  <2>3. outcome[p] \in {"ok", "uncertain", "failed", "rejected"}
    BY <1>a, <2>2 DEF ActiveInv
  <2>4. QED
    BY <1>e, <2>1, <2>2, <2>3 DEF Applied
<1>8. ASSUME NEW p \in Procs, ReleaseFails(p)
      PROVE  Refined
  <2>1. Own(p)
    BY <1>8, <1>t DEF ReleaseFails, Return, Lock!Drop, Fault, Own, OwnStep, ProcTypeOK, Goto, local
  <2>2. /\ pc[p] = "release" /\ pc'[p] = "idle" /\ UNCHANGED <<catalog, view>>
        /\ outcome'[p] = (IF outcome[p] = "ok" THEN "uncertain" ELSE outcome[p])
    BY <1>8, <1>t DEF ReleaseFails, Return, Goto, ProcTypeOK, disk
  <2>3. outcome[p] \in {"ok", "uncertain", "failed", "rejected"}
    BY <1>a, <2>2 DEF ActiveInv
  <2>4. QED
    BY <1>e, <2>1, <2>2, <2>3 DEF Applied
<1>9. ASSUME NEW p \in Procs, RecoverNested(p)
      PROVE  Refined
  <2>1. Own(p)
    BY <1>9, <1>t DEF RecoverNested, Leave, Own, OwnStep, ProcTypeOK, Goto, local
  <2>2. /\ UNCHANGED <<catalog, view>> /\ op'[p] = op[p]
        /\ pc[p] # "idle" /\ pc'[p] # "idle" /\ (Applied(p)' <=> Applied(p))
    BY <1>9, <1>t DEF RecoverNested, Leave, Goto, ProcTypeOK, local, disk, Applied
  <2>3. QED
    BY <1>i, <2>1, <2>2
<1>10. ASSUME NEW p \in Procs, RecoverNothing(p)
      PROVE  Refined
  <2>1. Own(p)
    BY <1>10, <1>t DEF RecoverNothing, Own, OwnStep, ProcTypeOK, Goto, local
  <2>2. /\ UNCHANGED <<catalog, view>> /\ op'[p] = op[p]
        /\ pc[p] # "idle" /\ pc'[p] # "idle" /\ (Applied(p)' <=> Applied(p))
    BY <1>10, <1>t DEF RecoverNothing, Goto, ProcTypeOK, local, disk, Applied
  <2>3. QED
    BY <1>i, <2>1, <2>2
<1>11. ASSUME NEW p \in Procs, RecoverCommitted(p)
      PROVE  Refined
  <2>1. Own(p)
    BY <1>11, <1>t DEF RecoverCommitted, Leave, Own, OwnStep, ProcTypeOK, Goto, local
  <2>2. /\ UNCHANGED <<catalog, view>> /\ op'[p] = op[p]
        /\ pc[p] # "idle" /\ pc'[p] # "idle" /\ (Applied(p)' <=> Applied(p))
    BY <1>11, <1>t DEF RecoverCommitted, Leave, Goto, ProcTypeOK, local, disk, Applied
  <2>3. QED
    BY <1>i, <2>1, <2>2
<1>12. ASSUME NEW p \in Procs, RecoverUncommitted(p)
      PROVE  Refined
  <2>1. Own(p)
    BY <1>12, <1>t DEF RecoverUncommitted, Leave, Own, OwnStep, ProcTypeOK, Goto, local
  <2>2. /\ UNCHANGED <<catalog, view>> /\ op'[p] = op[p]
        /\ pc[p] # "idle" /\ pc'[p] # "idle" /\ (Applied(p)' <=> Applied(p))
    BY <1>12, <1>t DEF RecoverUncommitted, Leave, Goto, ProcTypeOK, local, disk, Applied
  <2>3. QED
    BY <1>i, <2>1, <2>2
<1>13. ASSUME NEW p \in Procs, Retire(p)
      PROVE  Refined
  <2>1. Own(p)
    BY <1>13, <1>t DEF Retire, Own, OwnStep, ProcTypeOK, Goto, local
  <2>2. /\ UNCHANGED <<catalog, view>> /\ op'[p] = op[p]
        /\ pc[p] # "idle" /\ pc'[p] # "idle" /\ (Applied(p)' <=> Applied(p))
    BY <1>13, <1>t DEF Retire, Goto, ProcTypeOK, local, disk, Applied
  <2>3. QED
    BY <1>i, <2>1, <2>2
<1>14. ASSUME NEW p \in Procs, RetireFails(p)
      PROVE  Refined
  <2>1. Own(p)
    BY <1>14, <1>t DEF RetireFails, Leave, Fault, Own, OwnStep, ProcTypeOK, Goto, local
  <2>2. /\ UNCHANGED <<catalog, view>> /\ op'[p] = op[p]
        /\ pc[p] # "idle" /\ pc'[p] # "idle" /\ (Applied(p)' <=> Applied(p))
    BY <1>14, <1>t DEF RetireFails, Leave, Fault, Goto, ProcTypeOK, local, disk, Applied
  <2>3. QED
    BY <1>i, <2>1, <2>2
<1>15. ASSUME NEW p \in Procs, RestoreUnlink(p)
      PROVE  Refined
  <2>1. Own(p)
    BY <1>15, <1>t DEF RestoreUnlink, Own, OwnStep, ProcTypeOK, Goto, local
  <2>2. /\ UNCHANGED <<catalog, view>> /\ op'[p] = op[p]
        /\ pc[p] # "idle" /\ pc'[p] # "idle" /\ (Applied(p)' <=> Applied(p))
    BY <1>15, <1>t DEF RestoreUnlink, Goto, ProcTypeOK, local, disk, Applied
  <2>3. QED
    BY <1>i, <2>1, <2>2
<1>16. ASSUME NEW p \in Procs, RestoreUnlinked(p)
      PROVE  Refined
  <2>1. Own(p)
    BY <1>16, <1>t DEF RestoreUnlinked, Own, OwnStep, ProcTypeOK, Goto, local
  <2>2. /\ UNCHANGED <<catalog, view>> /\ op'[p] = op[p]
        /\ pc[p] # "idle" /\ pc'[p] # "idle" /\ (Applied(p)' <=> Applied(p))
    BY <1>16, <1>t DEF RestoreUnlinked, Goto, ProcTypeOK, local, disk, Applied
  <2>3. QED
    BY <1>i, <2>1, <2>2
<1>17. ASSUME NEW p \in Procs, RestoreWrite(p)
      PROVE  Refined
  <2>1. Own(p)
    BY <1>17, <1>t DEF RestoreWrite, Own, OwnStep, ProcTypeOK, Goto, local
  <2>2. /\ UNCHANGED <<catalog, view>> /\ op'[p] = op[p]
        /\ pc[p] # "idle" /\ pc'[p] # "idle" /\ (Applied(p)' <=> Applied(p))
    BY <1>17, <1>t DEF RestoreWrite, Goto, ProcTypeOK, local, disk, Applied
  <2>3. QED
    BY <1>i, <2>1, <2>2
<1>18. ASSUME NEW p \in Procs, RestoreDone(p)
      PROVE  Refined
  <2>1. Own(p)
    BY <1>18, <1>t DEF RestoreDone, Own, OwnStep, ProcTypeOK, Goto, local
  <2>2. /\ UNCHANGED <<catalog, view>> /\ op'[p] = op[p]
        /\ pc[p] # "idle" /\ pc'[p] # "idle" /\ (Applied(p)' <=> Applied(p))
    BY <1>18, <1>t DEF RestoreDone, Goto, ProcTypeOK, local, disk, Applied
  <2>3. QED
    BY <1>i, <2>1, <2>2
<1>19. ASSUME NEW p \in Procs, RestoreFails(p)
      PROVE  Refined
  <2>1. Own(p)
    BY <1>19, <1>t DEF RestoreFails, Leave, Fault, Own, OwnStep, ProcTypeOK, Goto, local
  <2>2. /\ UNCHANGED <<catalog, view>> /\ op'[p] = op[p]
        /\ pc[p] # "idle" /\ pc'[p] # "idle" /\ (Applied(p)' <=> Applied(p))
    BY <1>19, <1>t DEF RestoreFails, Leave, Fault, Goto, ProcTypeOK, local, disk, Applied
  <2>3. QED
    BY <1>i, <2>1, <2>2
<1>20. ASSUME NEW p \in Procs, Read(p)
      PROVE  Refined
  <2>1. Own(p)
    BY <1>20, <1>t DEF Read, Leave, Own, OwnStep, ProcTypeOK, Goto, local
  <2>2. pc[p] = "operate" /\ pc'[p] = "release" /\ UNCHANGED <<catalog, op>> /\ op[p].kind = "read"
    BY <1>20, <1>t DEF Read, Leave, Goto, ProcTypeOK, disk
  <2>3. CASE tree = catalog
    <3>1. view' = [view EXCEPT ![p] = catalog] /\ outcome'[p] = "ok"
      BY <1>20, <1>t, <2>3 DEF Read, Leave, ProcTypeOK
    <3>2. statusBar[p] = "reading" /\ statusBar'[p] = "seen" /\ answerBar'[p] = answerBar[p]
      BY <2>2, <3>1 DEF statusBar, answerBar, Applied
    <3>3. askedBar' = askedBar
      BY <2>2 DEF askedBar
    <3>4. answerBar' = answerBar
      BY <2>1, <3>2, OthersSame DEF answerBar
    <3>5. Version!See(p)
      BY <1>c, <2>1, <2>2, <3>1, <3>2, <3>3, <3>4, OthersSame DEF Version!See
    <3>6. QED
      BY <3>5 DEF Refined, Version!VersionNext
  <2>4. CASE tree # catalog
    <3>1. UNCHANGED view /\ outcome'[p] = "failed"
      BY <1>20, <1>t, <2>4 DEF Read, Leave, ProcTypeOK
    <3>2. QED
      BY <1>i, <2>1, <2>2, <3>1 DEF Applied
  <2>5. QED
    BY <2>3, <2>4
<1>21. ASSUME NEW p \in Procs, PublishRejected(p)
      PROVE  Refined
  <2>1. Own(p)
    BY <1>21, <1>t DEF PublishRejected, Leave, Own, OwnStep, ProcTypeOK, Goto, local
  <2>2. /\ UNCHANGED <<catalog, view>> /\ op'[p] = op[p]
        /\ pc[p] # "idle" /\ pc'[p] # "idle" /\ (Applied(p)' <=> Applied(p))
    BY <1>21, <1>t DEF PublishRejected, Leave, Goto, ProcTypeOK, local, disk, Applied
  <2>3. QED
    BY <1>i, <2>1, <2>2
<1>22. ASSUME NEW p \in Procs, BeginTransaction(p)
      PROVE  Refined
  <2>1. Own(p)
    BY <1>22, <1>t DEF BeginTransaction, Own, OwnStep, ProcTypeOK, Goto, local
  <2>2. /\ UNCHANGED <<catalog, view>> /\ op'[p] = op[p]
        /\ pc[p] # "idle" /\ pc'[p] # "idle" /\ (Applied(p)' <=> Applied(p))
    BY <1>22, <1>t DEF BeginTransaction, Goto, ProcTypeOK, local, disk, Applied
  <2>3. QED
    BY <1>i, <2>1, <2>2
<1>23. ASSUME NEW p \in Procs, BeginFails(p)
      PROVE  Refined
  <2>1. Own(p)
    BY <1>23, <1>t DEF BeginFails, Leave, Fault, Own, OwnStep, ProcTypeOK, Goto, local
  <2>2. /\ UNCHANGED <<catalog, view>> /\ op'[p] = op[p]
        /\ pc[p] # "idle" /\ pc'[p] # "idle" /\ (Applied(p)' <=> Applied(p))
    BY <1>23, <1>t DEF BeginFails, Leave, Fault, Goto, ProcTypeOK, local, disk, Applied
  <2>3. QED
    BY <1>i, <2>1, <2>2
<1>24. ASSUME NEW p \in Procs, WriteFile(p)
      PROVE  Refined
  <2>1. Own(p)
    BY <1>24, <1>t DEF WriteFile, Own, OwnStep, ProcTypeOK, Goto, local
  <2>2. /\ UNCHANGED <<catalog, view>> /\ op'[p] = op[p]
        /\ pc[p] # "idle" /\ pc'[p] # "idle" /\ (Applied(p)' <=> Applied(p))
    BY <1>24, <1>t DEF WriteFile, Goto, ProcTypeOK, local, disk, Applied
  <2>3. QED
    BY <1>i, <2>1, <2>2
<1>25. ASSUME NEW p \in Procs, WriteTears(p)
      PROVE  Refined
  <2>1. Own(p)
    BY <1>25, <1>t DEF WriteTears, Fault, Own, OwnStep, ProcTypeOK, Goto, local
  <2>2. /\ UNCHANGED <<catalog, view>> /\ op'[p] = op[p]
        /\ pc[p] # "idle" /\ pc'[p] # "idle" /\ (Applied(p)' <=> Applied(p))
    BY <1>25, <1>t DEF WriteTears, Fault, Goto, ProcTypeOK, local, disk, Applied
  <2>3. QED
    BY <1>i, <2>1, <2>2
<1>26. ASSUME NEW p \in Procs, WriteFails(p)
      PROVE  Refined
  <2>1. Own(p)
    BY <1>26, <1>t DEF WriteFails, Fault, Own, OwnStep, ProcTypeOK, Goto, local
  <2>2. /\ UNCHANGED <<catalog, view>> /\ op'[p] = op[p]
        /\ pc[p] # "idle" /\ pc'[p] # "idle" /\ (Applied(p)' <=> Applied(p))
    BY <1>26, <1>t DEF WriteFails, Fault, Goto, ProcTypeOK, local, disk, Applied
  <2>3. QED
    BY <1>i, <2>1, <2>2
<1>27. ASSUME NEW p \in Procs, Prepare(p)
      PROVE  Refined
  <2>1. Own(p)
    BY <1>27, <1>t DEF Prepare, Own, OwnStep, ProcTypeOK, Goto, local
  <2>2. /\ UNCHANGED <<catalog, view>> /\ op'[p] = op[p]
        /\ pc[p] # "idle" /\ pc'[p] # "idle" /\ (Applied(p)' <=> Applied(p))
    BY <1>27, <1>t DEF Prepare, Goto, ProcTypeOK, local, disk, Applied
  <2>3. QED
    BY <1>i, <2>1, <2>2
<1>28. ASSUME NEW p \in Procs, PrepareFails(p)
      PROVE  Refined
  <2>1. Own(p)
    BY <1>28, <1>t DEF PrepareFails, Fault, Own, OwnStep, ProcTypeOK, Goto, local
  <2>2. /\ UNCHANGED <<catalog, view>> /\ op'[p] = op[p]
        /\ pc[p] # "idle" /\ pc'[p] # "idle" /\ (Applied(p)' <=> Applied(p))
    BY <1>28, <1>t DEF PrepareFails, Fault, Goto, ProcTypeOK, local, disk, Applied
  <2>3. QED
    BY <1>i, <2>1, <2>2
<1>29. ASSUME NEW p \in Procs, Save(p)
      PROVE  Refined
  <2>1. Own(p)
    BY <1>29, <1>t DEF Save, Own, OwnStep, ProcTypeOK, Goto, local
  <2>2. /\ catalog' = journal.target /\ UNCHANGED <<view, op>> /\ pc[p] = "save"
        /\ pc'[p] = "finish"
    BY <1>29, <1>t DEF Save, Goto, ProcTypeOK, local
  <2>3. op[p].kind = "publish"
    BY <1>a, <2>2 DEF ActiveInv
  <2>4. journal.target = Written(p, {}) /\ Agrees(catalog, op[p].expects)
    BY <2>2 DEF IInv, PhaseInv, Phase, SaveInv
  <2>5. /\ askedBar[p].writes = op[p].writes /\ askedBar[p].expects = op[p].expects
        /\ askedBar' = askedBar
    BY <2>2 DEF askedBar
  <2>6. catalog' = Version!Replace(catalog, askedBar[p].writes)
    BY <2>2, <2>4, <2>5 DEF Version!Replace, Written
  <2>7. statusBar[p] = "publishing" /\ statusBar'[p] = "applied" /\ answerBar'[p] = answerBar[p]
    BY <2>2, <2>3 DEF statusBar, answerBar, Applied
  <2>8. answerBar' = answerBar
    BY <2>1, <2>7, OthersSame DEF answerBar
  <2>9. Version!Apply(p)
    BY <1>c, <2>1, <2>2, <2>4, <2>5, <2>6, <2>7, <2>8, OthersSame DEF Version!Apply, Agrees
  <2>10. QED
    BY <2>9 DEF Refined, Version!VersionNext
<1>30. ASSUME NEW p \in Procs, SaveFails(p)
      PROVE  Refined
  <2>1. Own(p)
    BY <1>30, <1>t DEF SaveFails, Fault, Own, OwnStep, ProcTypeOK, Goto, local
  <2>2. /\ UNCHANGED <<catalog, view>> /\ op'[p] = op[p]
        /\ pc[p] # "idle" /\ pc'[p] # "idle" /\ (Applied(p)' <=> Applied(p))
    BY <1>30, <1>t DEF SaveFails, Fault, Goto, ProcTypeOK, local, disk, Applied
  <2>3. QED
    BY <1>i, <2>1, <2>2
<1>31. ASSUME NEW p \in Procs, SaveUncertain(p)
      PROVE  Refined
  <2>1. Own(p)
    BY <1>31, <1>t DEF SaveUncertain, Leave, Fault, Own, OwnStep, ProcTypeOK, Goto, local
  <2>2. /\ catalog' = journal.target /\ UNCHANGED <<view, op>> /\ pc[p] = "save"
        /\ pc'[p] = "release" /\ outcome'[p] = "uncertain"
    BY <1>31, <1>t DEF SaveUncertain, Leave, Fault, Goto, ProcTypeOK, local
  <2>3. op[p].kind = "publish"
    BY <1>a, <2>2 DEF ActiveInv
  <2>4. journal.target = Written(p, {}) /\ Agrees(catalog, op[p].expects)
    BY <2>2 DEF IInv, PhaseInv, Phase, SaveInv
  <2>5. /\ askedBar[p].writes = op[p].writes /\ askedBar[p].expects = op[p].expects
        /\ askedBar' = askedBar
    BY <2>2 DEF askedBar
  <2>6. catalog' = Version!Replace(catalog, askedBar[p].writes)
    BY <2>2, <2>4, <2>5 DEF Version!Replace, Written
  <2>7. statusBar[p] = "publishing" /\ statusBar'[p] = "applied" /\ answerBar'[p] = answerBar[p]
    BY <2>2, <2>3 DEF statusBar, answerBar, Applied
  <2>8. answerBar' = answerBar
    BY <2>1, <2>7, OthersSame DEF answerBar
  <2>9. Version!Apply(p)
    BY <1>c, <2>1, <2>2, <2>4, <2>5, <2>6, <2>7, <2>8, OthersSame DEF Version!Apply, Agrees
  <2>10. QED
    BY <2>9 DEF Refined, Version!VersionNext
<1>32. ASSUME NEW p \in Procs, Finish(p)
      PROVE  Refined
  <2>1. Own(p)
    BY <1>32, <1>t DEF Finish, Leave, Own, OwnStep, ProcTypeOK, Goto, local
  <2>2. /\ UNCHANGED <<catalog, view>> /\ op'[p] = op[p]
        /\ pc[p] # "idle" /\ pc'[p] # "idle" /\ (Applied(p)' <=> Applied(p))
    BY <1>32, <1>t DEF Finish, Leave, Goto, ProcTypeOK, local, disk, Applied
  <2>3. QED
    BY <1>i, <2>1, <2>2
<1>33. ASSUME NEW p \in Procs, FinishFails(p)
      PROVE  Refined
  <2>1. Own(p)
    BY <1>33, <1>t DEF FinishFails, Leave, Fault, Own, OwnStep, ProcTypeOK, Goto, local
  <2>2. /\ UNCHANGED <<catalog, view>> /\ op'[p] = op[p]
        /\ pc[p] # "idle" /\ pc'[p] # "idle" /\ (Applied(p)' <=> Applied(p))
    BY <1>33, <1>t DEF FinishFails, Leave, Fault, Goto, ProcTypeOK, local, disk, Applied
  <2>3. QED
    BY <1>i, <2>1, <2>2
<1>34. ASSUME NEW p \in Procs, Unwind(p)
      PROVE  Refined
  <2>1. Own(p)
    BY <1>34, <1>t DEF Unwind, Leave, Own, OwnStep, ProcTypeOK, Goto, local
  <2>2. /\ UNCHANGED <<catalog, view>> /\ op'[p] = op[p]
        /\ pc[p] # "idle" /\ pc'[p] # "idle" /\ (Applied(p)' <=> Applied(p))
    BY <1>34, <1>t DEF Unwind, Leave, Goto, ProcTypeOK, local, disk, Applied
  <2>3. QED
    BY <1>i, <2>1, <2>2
<1>35. ASSUME NEW p \in Procs, UnwindFails(p)
      PROVE  Refined
  <2>1. Own(p)
    BY <1>35, <1>t DEF UnwindFails, Leave, Fault, Own, OwnStep, ProcTypeOK, Goto, local
  <2>2. /\ UNCHANGED <<catalog, view>> /\ op'[p] = op[p]
        /\ pc[p] # "idle" /\ pc'[p] # "idle" /\ (Applied(p)' <=> Applied(p))
    BY <1>35, <1>t DEF UnwindFails, Leave, Fault, Goto, ProcTypeOK, local, disk, Applied
  <2>3. QED
    BY <1>i, <2>1, <2>2
<1>36. ASSUME NEW p \in Procs, Crash(p)
      PROVE  Refined
  <2>1. Own(p)
    BY <1>36, <1>t DEF Crash, Return, Lock!Die, Own, OwnStep, ProcTypeOK, Goto, local
  <2>2. /\ UNCHANGED catalog /\ view' = [view EXCEPT ![p] = None]
        /\ pc'[p] = "idle" /\ outcome'[p] = "none"
    BY <1>36, <1>t DEF Crash, Return, Goto, ProcTypeOK, disk
  <2>3. statusBar'[p] = "idle" /\ answerBar'[p] = "none"
    BY <2>2 DEF statusBar, answerBar
  <2>4. Version!Die(p)
    BY <1>c, <2>1, <2>2, <2>3, OthersSame DEF Version!Die
  <2>5. QED
    BY <2>4 DEF Refined, Version!VersionNext
<1>37. CASE UNCHANGED vars
  <2>1. UNCHANGED Version!versionVars
    BY <1>c, <1>37 DEF vars, local, disk, Version!versionVars, statusBar, answerBar, askedBar, Applied
  <2>2. QED
    BY <2>1 DEF Refined
<1>38. QED
  BY <1>1, <1>4, <1>5, <1>6, <1>7, <1>8, <1>9, <1>10, <1>11, <1>12, <1>13,
     <1>14, <1>15, <1>16, <1>17, <1>18, <1>19, <1>20, <1>21, <1>22, <1>23, <1>24,
     <1>25, <1>26, <1>27, <1>28, <1>29, <1>30, <1>31, <1>32, <1>33, <1>34, <1>35,
     <1>36, <1>37 DEF StoreNext, Step, Refined

\* The catalog store implements the version that it promises: publications are atomic
\* through failures and deaths, take effect on the catalog they were planned on and
\* are answered truthfully, and reads see committed content.
THEOREM Implements ==
  ASSUME ~Republish
  PROVE  Spec => ImplementsVersionTree
<1>1. Init => Version!VersionInit
  BY DEF Init, InitWith, Version!VersionInit, statusBar, answerBar
<1>2. IInv /\ IInv' /\ [Next]_vars => [Version!VersionNext]_Version!versionVars
  BY NextIsStoreNext, StepRefines DEF IInv
<1>3. QED
  BY <1>1, <1>2, Invariant, PTL DEF Spec, ImplementsVersionTree, Version!VersionSpec
=============================================================================
