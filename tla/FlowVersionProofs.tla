-------------------------- MODULE FlowVersionProofs --------------------------
(***************************************************************************)
(* Proofs about FlowVersion for any commands, tasks, number of Activities, *)
(* failing system calls and deaths, on top of what CatalogStoreProofs      *)
(* shows of the store for any caller of it.                                *)
(*                                                                         *)
(* The argument: a publication takes effect only on the ledger that its    *)
(* Activity was decided on, and every publication makes the ledger longer. *)
(* So between the decision and the effect nobody else's publication has    *)
(* taken effect, and what a command read without the lock in between was   *)
(* the committed specification or one that a publication which has not     *)
(* taken effect, and was planned on the same ledger, has written.          *)
(*                                                                         *)
(* Values is a parameter of CatalogStore that FlowSpec does not use: it is *)
(* the type of its files. The hypothesis FlowValues fixes it: a file may   *)
(* hold every sequence of Activities, of tasks and of snapshots.           *)
(***************************************************************************)
EXTENDS FlowVersion, CatalogStoreProofs

Ledgers == Seq(Tasks \cup {Note})
Specs == Seq(Tasks)
Histories == Seq(Specs)

\* What a file may hold, for a flow.
FlowValues == Ledgers \subseteq Values /\ Specs \subseteq Values /\ Histories \subseteq Values

Plans == [activity : Tasks \cup {Note}, ledger : Ledgers, next : Specs, current : Specs]

\* A committed version.
Committed(t) ==
  /\ t.activities \in Ledgers
  /\ t.flow \in Ledgers
  /\ t.spec \in Specs
  /\ t.revisions \in Histories

FlowTypeInv ==
  /\ stage \in [Procs -> Stages]
  /\ plan \in [Procs -> Plans]
  /\ Committed(catalog)
  /\ \A p \in Procs : view[p] # None => Committed(view[p])
  /\ tree.spec \in Specs \cup {Missing, Torn}

\* What a command is doing in the store, and for which kind of Activity.
StageInv ==
  \A p \in Procs :
    /\ stage[p] \in {"start", "loaded", "checked", "next", "current"} => pc[p] = "idle"
    /\ pc[p] = "idle" => op[p].kind = "read"
    /\ op[p].kind = "publish" => stage[p] = "publish"
    /\ stage[p] \in {"checked", "next", "current", "authority"} => plan[p].activity # Note

\* What a publication is about to write.
PublishInv ==
  \A p \in Procs : op[p].kind = "publish" =>
    /\ op[p].requires = OrderCheck(p)
    /\ {"activities", "flow"} \subseteq DOMAIN op[p].writes
    /\ op[p].writes["activities"] = NewLedger(p)
    /\ op[p].writes["flow"] = NewLedger(p)
    /\ "spec" \in DOMAIN op[p].writes => op[p].writes["spec"] = plan[p].next
    /\ "spec" \in DOMAIN op[p].writes <=> plan[p].activity # Note
    /\ "revisions" \in DOMAIN op[p].writes <=> plan[p].activity # Note /\ ~Unchanged(p)
    /\ "revisions" \in DOMAIN op[p].writes =>
         /\ "revisions" \in DOMAIN op[p].expects
         /\ op[p].expects["revisions"] \in Histories
         /\ op[p].writes["revisions"] = Append(op[p].expects["revisions"], plan[p].next)

\* Ledgers only grow: what was read is not longer than what is committed.
GrowthInv ==
  \A p \in Procs :
    /\ Len(plan[p].ledger) <= Len(catalog.activities)
    /\ view[p] # None => Len(view[p].activities) <= Len(catalog.activities)

\* Specification s has the tasks of specification c.
Covers(s, c) == \A t \in Tasks : Contains(c, t) => Contains(s, t)

\* The stages in which the specification with the Task has been planned, and in
\* which it has been compared with another read.
Planned(p) == stage[p] \in {"next", "current", "authority", "publish"} /\ plan[p].activity # Note
Compared(p) == stage[p] \in {"current", "authority", "publish"} /\ plan[p].activity # Note

\* The Activity has been decided on the committed ledger.
UpToDate(p) == plan[p].ledger = catalog.activities

\* What is read, planned or half written loses no task.
TasksInv ==
  /\ Readable("spec") => Covers(tree.spec, catalog.spec)
  /\ \A p \in Procs : Planned(p) =>
       /\ Contains(plan[p].next, plan[p].activity)
       /\ UpToDate(p) => Covers(plan[p].next, catalog.spec)
  /\ AdmittedTasksSpecified

Uninterrupted == faults = 0 /\ \A p \in Procs : birth[p] = 0

\* A publication has written some of its files and has not taken effect.
Midway(q) == pc[q] \in {"write", "save"} /\ ~Unwritten(q)
OtherMidway(p) == \E q \in Procs \ {p} : Midway(q)

\* Without a failure or a death, what a command has read is the committed
\* specification, or somebody is about to make its plan out of date.
CleanInv ==
  Uninterrupted =>
    /\ SpecIsLastRevision
    /\ Readable("spec") => tree.spec = catalog.spec \/ \E q \in Procs : Midway(q)
    /\ \A p \in Procs : UpToDate(p) /\ ~OtherMidway(p) =>
         /\ Planned(p) => plan[p].next = WithTask(catalog.spec, plan[p].activity)
         /\ Compared(p) => plan[p].current = catalog.spec

FlowIInv ==
  /\ IInv
  /\ FlowTypeInv
  /\ StageInv
  /\ PublishInv
  /\ GrowthInv
  /\ TasksInv
  /\ CleanInv

-----------------------------------------------------------------------------
(* Sequences, and the files of a flow.                                     *)

LEMMA ContainsAppend ==
  ASSUME NEW S, NEW s \in Seq(S), NEW e
  PROVE  /\ Contains(Append(s, e), e)
         /\ \A x : Contains(s, x) => Contains(Append(s, e), x)
         /\ \A x : Contains(Append(s, e), x) => Contains(s, x) \/ x = e
<1>1. /\ Len(Append(s, e)) = Len(s) + 1 /\ Len(s) \in Nat
      /\ \A i \in 1 .. Len(s) : Append(s, e)[i] = s[i]
      /\ Append(s, e)[Len(s) + 1] = e
  OBVIOUS
<1>2. QED
  BY <1>1 DEF Contains

LEMMA WithTaskFacts ==
  ASSUME NEW s \in Specs, NEW t \in Tasks
  PROVE  /\ WithTask(s, t) \in Specs
         /\ Contains(WithTask(s, t), t)
         /\ \A x : Contains(s, x) => Contains(WithTask(s, t), x)
  BY ContainsAppend DEF WithTask, Specs

\* A longer sequence has the shorter one as its prefix, and is another one.
LEMMA AppendGrows ==
  ASSUME NEW S, NEW s \in Seq(S), NEW e \in S
  PROVE  /\ Append(s, e) \in Seq(S)
         /\ Len(Append(s, e)) = Len(s) + 1
         /\ Append(s, e) # s
         /\ IsPrefix(s, Append(s, e))
         /\ IsPrefix(s, s)
         /\ Last(Append(s, e)) = e
<1>1. /\ Append(s, e) \in Seq(S) /\ Len(Append(s, e)) = Len(s) + 1 /\ Len(s) \in Nat
      /\ \A i \in 1 .. Len(s) : Append(s, e)[i] = s[i]
      /\ Append(s, e)[Len(s) + 1] = e
  OBVIOUS
<1>2. SubSeq(s, 1, Len(s)) = SubSeq(Append(s, e), 1, Len(s))
  BY <1>1
<1>3. QED
  BY <1>1, <1>2 DEF IsPrefix, Last

LEMMA FilesOfFlow ==
  /\ "activities" \in Files /\ "flow" \in Files /\ "spec" \in Files /\ "revisions" \in Files
  /\ Files = {"activities", "flow", "spec", "revisions"}
  BY FlowAssumption DEF FlowFiles

-----------------------------------------------------------------------------
(* What a step of the store means for the specification.                   *)

\* A step of p inside a call: nobody else is touched, and the call goes on or ends.
CallStep(p) ==
  /\ OwnStep(p)
  /\ pc[p] # "idle"
  /\ op'[p] \in {op[p], ReadOp}
  /\ pc'[p] = "idle" => op'[p] = ReadOp
  /\ view' \in {view, [view EXCEPT ![p] = catalog]}
  /\ UNCHANGED birth
  /\ faults' = 0 => faults = 0

\* It leaves spec.json alone, or restores it; it writes the planned one; it commits.
SpecKept(p) ==
  /\ UNCHANGED catalog
  /\ tree'.spec \in {tree.spec, Missing, Torn, catalog.spec}
  /\ faults' = 0 /\ Midway(p) => Midway(p)'
SpecWritten(p) ==
  /\ UNCHANGED catalog
  /\ op[p].kind = "publish"
  /\ "spec" \in DOMAIN op[p].writes
  /\ tree'.spec = op[p].writes["spec"]
  /\ Agrees(catalog, op[p].requires)
  /\ Midway(p)'
Commits(p) ==
  /\ pc[p] = "save"
  /\ catalog' = tree
  /\ UNCHANGED <<tree, view>>

\* One step of the store at a time.
LEMMA StepEffect ==
  ASSUME IInv, IInv', NEW p \in Procs, Step(p)
  PROVE  CallStep(p) /\ (SpecKept(p) \/ SpecWritten(p) \/ Commits(p))
<1> DEFINE Effect == CallStep(p) /\ (SpecKept(p) \/ SpecWritten(p) \/ Commits(p))
<1>t. ProcTypeOK /\ DiskTypeOK
  BY DEF IInv, TypeOK, ProcTypeOK, DiskTypeOK, Journals
<1>f. "spec" \in Files /\ tree \in [Files -> Contents] /\ catalog \in [Files -> Values \cup {Missing}]
  BY <1>t, FilesOfFlow DEF DiskTypeOK, Trees, Images
<1>k. ASSUME CallStep(p), UNCHANGED disk, pc[p] \notin {"write", "save"}
      PROVE  Effect
  BY <1>k DEF SpecKept, Midway, disk
<1>d. ASSUME CallStep(p), UNCHANGED <<tree, catalog>>, pc[p] \notin {"write", "save"}
      PROVE  Effect
  BY <1>d DEF SpecKept, Midway
<1>x. ASSUME CallStep(p), UNCHANGED catalog, tree'.spec \in {tree.spec, Missing, Torn}, faults' # 0
      PROVE  Effect
  BY <1>x DEF SpecKept
<1> SUFFICES Effect
  OBVIOUS
<1> HIDE DEF Effect
<1> USE DEF CallStep, OwnStep, ProcTypeOK, Goto, local, disk, lockVars
<1>1. CASE AcquireReclaim(p)
  <2>1. CallStep(p)
    BY <1>1, <1>t DEF AcquireReclaim, Lock!Reclaim
  <2>2. UNCHANGED disk /\ pc[p] \notin {"write", "save"}
    BY <1>1 DEF AcquireReclaim
  <2>3. QED
    BY <2>1, <2>2, <1>k
<1>2. CASE AcquireTake(p)
  <2>1. CallStep(p)
    BY <1>2, <1>t DEF AcquireTake, Lock!TakeAs
  <2>2. UNCHANGED disk /\ pc[p] \notin {"write", "save"}
    BY <1>2 DEF AcquireTake
  <2>3. QED
    BY <2>1, <2>2, <1>k
<1>3. CASE AcquireBusy(p)
  <2>1. CallStep(p)
    BY <1>3, <1>t DEF AcquireBusy, Return
  <2>2. UNCHANGED disk /\ pc[p] \notin {"write", "save"}
    BY <1>3 DEF AcquireBusy
  <2>3. QED
    BY <2>1, <2>2, <1>k
<1>4. CASE Release(p)
  <2>1. CallStep(p)
    BY <1>4, <1>t DEF Release, Return, Lock!Drop
  <2>2. UNCHANGED disk /\ pc[p] \notin {"write", "save"}
    BY <1>4 DEF Release
  <2>3. QED
    BY <2>1, <2>2, <1>k
<1>5. CASE ReleaseFails(p)
  <2>1. CallStep(p)
    BY <1>5, <1>t DEF ReleaseFails, Return, Lock!Drop, Fault
  <2>2. UNCHANGED disk /\ pc[p] \notin {"write", "save"}
    BY <1>5 DEF ReleaseFails
  <2>3. QED
    BY <2>1, <2>2, <1>k
<1>6. CASE RecoverNested(p)
  <2>1. CallStep(p)
    BY <1>6, <1>t DEF RecoverNested, Leave
  <2>2. UNCHANGED disk /\ pc[p] \notin {"write", "save"}
    BY <1>6 DEF RecoverNested
  <2>3. QED
    BY <2>1, <2>2, <1>k
<1>7. CASE RecoverNothing(p)
  <2>1. CallStep(p)
    BY <1>7, <1>t DEF RecoverNothing
  <2>2. UNCHANGED disk /\ pc[p] \notin {"write", "save"}
    BY <1>7 DEF RecoverNothing
  <2>3. QED
    BY <2>1, <2>2, <1>k
<1>8. CASE RecoverCommitted(p)
  <2>1. CallStep(p)
    BY <1>8, <1>t DEF RecoverCommitted, Leave
  <2>2. UNCHANGED disk /\ pc[p] \notin {"write", "save"}
    BY <1>8 DEF RecoverCommitted
  <2>3. QED
    BY <2>1, <2>2, <1>k
<1>9. CASE RecoverUncommitted(p)
  <2>1. CallStep(p)
    BY <1>9, <1>t DEF RecoverUncommitted, Leave
  <2>2. UNCHANGED disk /\ pc[p] \notin {"write", "save"}
    BY <1>9 DEF RecoverUncommitted
  <2>3. QED
    BY <2>1, <2>2, <1>k
<1>10. CASE Retire(p)
  <2>1. CallStep(p)
    BY <1>10, <1>t DEF Retire
  <2>2. UNCHANGED <<tree, catalog>> /\ pc[p] \notin {"write", "save"}
    BY <1>10 DEF Retire
  <2>3. QED
    BY <2>1, <2>2, <1>d
<1>11. CASE RetireFails(p)
  <2>1. CallStep(p)
    BY <1>11, <1>t DEF RetireFails, Leave, Fault
  <2>2. UNCHANGED <<tree, catalog>> /\ pc[p] \notin {"write", "save"}
    BY <1>11 DEF RetireFails
  <2>3. QED
    BY <2>1, <2>2, <1>d
<1>12. CASE RestoreUnlink(p)
  <2>1. CallStep(p)
    BY <1>12, <1>t DEF RestoreUnlink
  <2>2. UNCHANGED catalog /\ tree'.spec \in {tree.spec, Missing}
    BY <1>12, <1>f DEF RestoreUnlink
  <2>3. ~Midway(p)
    BY <1>12 DEF RestoreUnlink, Midway
  <2>4. QED
    BY <2>1, <2>2, <2>3 DEF Effect, SpecKept
<1>13. CASE RestoreUnlinked(p)
  <2>1. CallStep(p)
    BY <1>13, <1>t DEF RestoreUnlinked
  <2>2. UNCHANGED disk /\ pc[p] \notin {"write", "save"}
    BY <1>13 DEF RestoreUnlinked
  <2>3. QED
    BY <2>1, <2>2, <1>k
<1>14. CASE RestoreWrite(p)
  <2>1. CallStep(p)
    BY <1>14, <1>t DEF RestoreWrite
  <2>2. ImageOf(p) = catalog
    BY <1>14, RestoredImage DEF RestoreWrite
  <2>3. UNCHANGED catalog /\ tree'.spec \in {tree.spec, Torn, catalog.spec}
    BY <1>14, <1>f, <2>2 DEF RestoreWrite
  <2>4. ~Midway(p)
    BY <1>14 DEF RestoreWrite, Midway
  <2>5. QED
    BY <2>1, <2>3, <2>4 DEF Effect, SpecKept
<1>15. CASE RestoreDone(p)
  <2>1. CallStep(p)
    BY <1>15, <1>t DEF RestoreDone
  <2>2. UNCHANGED disk /\ pc[p] \notin {"write", "save"}
    BY <1>15 DEF RestoreDone
  <2>3. QED
    BY <2>1, <2>2, <1>k
<1>16. CASE RestoreFails(p)
  <2>1. CallStep(p)
    BY <1>16, <1>t DEF RestoreFails, Leave, Fault
  <2>2. UNCHANGED disk /\ pc[p] \notin {"write", "save"}
    BY <1>16 DEF RestoreFails
  <2>3. QED
    BY <2>1, <2>2, <1>k
<1>17. CASE Read(p)
  <2>1. CallStep(p)
    BY <1>17, <1>t DEF Read, Leave
  <2>2. UNCHANGED disk /\ pc[p] \notin {"write", "save"}
    BY <1>17 DEF Read
  <2>3. QED
    BY <2>1, <2>2, <1>k
<1>18. CASE PublishRejected(p)
  <2>1. CallStep(p)
    BY <1>18, <1>t DEF PublishRejected, Leave
  <2>2. UNCHANGED disk /\ pc[p] \notin {"write", "save"}
    BY <1>18 DEF PublishRejected
  <2>3. QED
    BY <2>1, <2>2, <1>k
<1>19. CASE BeginTransaction(p)
  <2>1. CallStep(p)
    BY <1>19, <1>t DEF BeginTransaction
  <2>2. UNCHANGED <<tree, catalog>> /\ pc[p] \notin {"write", "save"}
    BY <1>19 DEF BeginTransaction
  <2>3. QED
    BY <2>1, <2>2, <1>d
<1>20. CASE BeginFails(p)
  <2>1. CallStep(p)
    BY <1>20, <1>t DEF BeginFails, Leave, Fault
  <2>2. UNCHANGED <<tree, catalog>> /\ pc[p] \notin {"write", "save"}
    BY <1>20 DEF BeginFails
  <2>3. QED
    BY <2>1, <2>2, <1>d
<1>21. CASE WriteFile(p)
  <2>1. CallStep(p)
    BY <1>21, <1>t DEF WriteFile
  <2>2. PICK f \in NextToWrite(p) :
          /\ tree' = [tree EXCEPT ![f] = op[p].writes[f]]
          /\ todo' = [todo EXCEPT ![p] = @ \ {f}]
    BY <1>21 DEF WriteFile
  <2>3. f \in todo[p] /\ todo[p] \subseteq DOMAIN op[p].writes
    BY <1>21, <2>2 DEF WriteFile, NextToWrite, IInv, PhaseInv, Phase, WriteInv
  <2>4. Midway(p)' /\ pc'[p] = "write" /\ ~Unwritten(p)'
    BY <1>21, <1>t, <2>2, <2>3 DEF WriteFile, Midway, Unwritten
  <2>5. UNCHANGED <<catalog, op>> /\ pc[p] = "write" /\ op[p].kind = "publish"
    BY <1>21 DEF WriteFile, IInv, ActiveInv
  <2>6. WriteInv(p)'
    BY DEF IInv, PhaseInv, Phase
  <2>7. Agrees(catalog, op[p].requires)
    BY <2>4, <2>5, <2>6 DEF WriteInv, Agrees
  <2>8. CASE f = "spec"
    <3>1. tree'.spec = op[p].writes["spec"] /\ "spec" \in DOMAIN op[p].writes
      BY <1>f, <2>2, <2>3, <2>8
    <3>2. SpecWritten(p)
      BY <2>4, <2>5, <2>7, <3>1 DEF SpecWritten
    <3>3. QED
      BY <2>1, <3>2 DEF Effect
  <2>9. CASE f # "spec"
    <3>1. tree'.spec = tree.spec
      BY <1>f, <2>2, <2>9
    <3>2. SpecKept(p)
      BY <2>4, <2>5, <3>1 DEF SpecKept
    <3>3. QED
      BY <2>1, <3>2 DEF Effect
  <2>10. QED
    BY <2>8, <2>9
<1>22. CASE WriteTears(p)
  <2>1. CallStep(p)
    BY <1>22, <1>t DEF WriteTears, Fault
  <2>2. UNCHANGED catalog /\ tree'.spec \in {tree.spec, Torn} /\ faults' # 0
    BY <1>22, <1>f, <1>t DEF WriteTears, Fault
  <2>3. QED
    BY <2>1, <2>2, <1>x
<1>23. CASE WriteFails(p)
  <2>1. CallStep(p)
    BY <1>23, <1>t DEF WriteFails, Fault
  <2>2. UNCHANGED <<tree, catalog>> /\ (Unwritten(p) \/ faults' # 0)
    BY <1>23, <1>t DEF WriteFails, Fault
  <2>3. SpecKept(p)
    BY <2>2 DEF SpecKept, Midway
  <2>4. QED
    BY <2>1, <2>3 DEF Effect
<1>24. CASE Prepare(p)
  <2>1. CallStep(p)
    BY <1>24, <1>t DEF Prepare
  <2>2. UNCHANGED <<tree, catalog, op, todo>> /\ pc'[p] = "save"
    BY <1>24, <1>t DEF Prepare
  <2>3. SpecKept(p)
    BY <2>2 DEF SpecKept, Midway, Unwritten
  <2>4. QED
    BY <2>1, <2>3 DEF Effect
<1>25. CASE PrepareFails(p)
  <2>1. CallStep(p) /\ UNCHANGED <<tree, catalog>> /\ faults' # 0
    BY <1>25, <1>t DEF PrepareFails, Fault
  <2>2. QED
    BY <2>1, <1>x
<1>26. CASE Save(p)
  <2>1. CallStep(p)
    BY <1>26, <1>t DEF Save
  <2>2. journal.target = tree
    BY <1>26 DEF Save, IInv, PhaseInv, Phase, SaveInv
  <2>3. Commits(p)
    BY <1>26, <2>2 DEF Save, Commits
  <2>4. QED
    BY <2>1, <2>3 DEF Effect
<1>27. CASE SaveFails(p)
  <2>1. CallStep(p) /\ UNCHANGED <<tree, catalog>> /\ faults' # 0
    BY <1>27, <1>t DEF SaveFails, Fault
  <2>2. QED
    BY <2>1, <1>x
<1>28. CASE SaveUncertain(p)
  <2>1. CallStep(p)
    BY <1>28, <1>t DEF SaveUncertain, Leave, Fault
  <2>2. journal.target = tree
    BY <1>28 DEF SaveUncertain, IInv, PhaseInv, Phase, SaveInv
  <2>3. Commits(p)
    BY <1>28, <2>2 DEF SaveUncertain, Commits
  <2>4. QED
    BY <2>1, <2>3 DEF Effect
<1>29. CASE Finish(p)
  <2>1. CallStep(p)
    BY <1>29, <1>t DEF Finish, Leave
  <2>2. UNCHANGED <<tree, catalog>> /\ pc[p] \notin {"write", "save"}
    BY <1>29 DEF Finish
  <2>3. QED
    BY <2>1, <2>2, <1>d
<1>30. CASE FinishFails(p)
  <2>1. CallStep(p)
    BY <1>30, <1>t DEF FinishFails, Leave, Fault
  <2>2. UNCHANGED <<tree, catalog>> /\ pc[p] \notin {"write", "save"}
    BY <1>30 DEF FinishFails
  <2>3. QED
    BY <2>1, <2>2, <1>d
<1>31. CASE Unwind(p)
  <2>1. CallStep(p)
    BY <1>31, <1>t DEF Unwind, Leave
  <2>2. UNCHANGED <<tree, catalog>> /\ pc[p] \notin {"write", "save"}
    BY <1>31 DEF Unwind
  <2>3. QED
    BY <2>1, <2>2, <1>d
<1>32. CASE UnwindFails(p)
  <2>1. CallStep(p)
    BY <1>32, <1>t DEF UnwindFails, Leave, Fault
  <2>2. UNCHANGED <<tree, catalog>> /\ pc[p] \notin {"write", "save"}
    BY <1>32 DEF UnwindFails
  <2>3. QED
    BY <2>1, <2>2, <1>d
<1>33. QED
  BY <1>1, <1>2, <1>3, <1>4, <1>5, <1>6, <1>7, <1>8, <1>9, <1>10, <1>11, <1>12, <1>13, <1>14, <1>15, <1>16, <1>17, <1>18, <1>19, <1>20, <1>21, <1>22, <1>23, <1>24, <1>25, <1>26, <1>27, <1>28, <1>29, <1>30, <1>31, <1>32 DEF Step

-----------------------------------------------------------------------------
(* Publications of a flow.                                                 *)

\* What a publication writes and insists on, by file.
LEMMA StateFiles ==
  ASSUME NEW p \in Procs
  PROVE  /\ DOMAIN StateWrites(p) = {"activities", "flow"}
         /\ StateWrites(p)["activities"] = NewLedger(p) /\ StateWrites(p)["flow"] = NewLedger(p)
         /\ DOMAIN OrderCheck(p) = {"activities", "flow"}
         /\ OrderCheck(p)["activities"] = plan[p].ledger
  BY DEF StateWrites, OrderCheck, BaseLedger

LEMMA SpecFiles ==
  ASSUME NEW p \in Procs, NEW revisions \in Histories
  PROVE  /\ DOMAIN SpecWrites(p, revisions) =
              {"activities", "flow", "spec"} \cup (IF Unchanged(p) THEN {} ELSE {"revisions"})
         /\ SpecWrites(p, revisions)["activities"] = NewLedger(p)
         /\ SpecWrites(p, revisions)["flow"] = NewLedger(p)
         /\ SpecWrites(p, revisions)["spec"] = plan[p].next
         /\ ~Unchanged(p) => SpecWrites(p, revisions)["revisions"] = Append(revisions, plan[p].next)
<1>1. CASE Unchanged(p)
  BY <1>1 DEF SpecWrites, FlowFiles
<1>2. CASE ~Unchanged(p)
  BY <1>2 DEF SpecWrites, FlowFiles
<1>3. QED
  BY <1>1, <1>2

\* The Activity follows the ledger it was decided on.
LEMMA LedgerOfPlan ==
  ASSUME FlowTypeInv, NEW p \in Procs
  PROVE  /\ plan[p].ledger \in Ledgers /\ plan[p].activity \in Tasks \cup {Note}
         /\ plan[p].next \in Specs /\ plan[p].current \in Specs
         /\ NewLedger(p) = Append(plan[p].ledger, plan[p].activity)
         /\ NewLedger(p) \in Ledgers
         /\ NewLedger(p) # plan[p].ledger
         /\ Len(NewLedger(p)) = Len(plan[p].ledger) + 1
<1>1. /\ plan[p].ledger \in Ledgers /\ plan[p].activity \in Tasks \cup {Note}
      /\ plan[p].next \in Specs /\ plan[p].current \in Specs
  BY DEF FlowTypeInv, Plans
<1>2. NewLedger(p) = Append(plan[p].ledger, plan[p].activity)
  BY DEF NewLedger, BaseLedger
<1>3. QED
  BY <1>1, <1>2, AppendGrows DEF Ledgers

\* Every publication of a flow is one that the store may be asked for.
LEMMA NoteAsked ==
  ASSUME FlowValues, FlowTypeInv, NEW p \in Procs, PublishNote(p)
  PROVE  \E o : Asked(o) /\ Start(p, o)
<1> DEFINE o == Publication(StateWrites(p), NoFiles, OrderCheck(p))
<1>1. NewLedger(p) \in Values /\ plan[p].ledger \in Values /\ NewLedger(p) # plan[p].ledger
  BY LedgerOfPlan DEF FlowValues
<1>2. {"activities", "flow"} \in SUBSET Files
  BY FilesOfFlow
<1>3. /\ StateWrites(p) \in [{"activities", "flow"} -> Values \cup {Missing}]
      /\ OrderCheck(p) \in [{"activities", "flow"} -> Values \cup {Missing}]
  BY <1>1 DEF StateWrites, OrderCheck, BaseLedger
<1>4. o \in Ops
  BY <1>2, <1>3, OpTypes
<1>5. Differs(o)
  <2>1. o.writes = StateWrites(p) /\ o.requires = OrderCheck(p)
    BY DEF Publication
  <2>2. /\ "activities" \in DOMAIN o.writes \cap DOMAIN o.requires
        /\ o.writes["activities"] # o.requires["activities"]
    BY <1>1, <2>1, StateFiles
  <2>3. QED
    BY <2>2 DEF Differs
<1>6. QED
  BY <1>4, <1>5 DEF PublishNote, Asked

LEMMA TaskAsked ==
  ASSUME FlowValues, TypeOK, FlowTypeInv, NEW p \in Procs, PublishTask(p)
  PROVE  \E o : Asked(o) /\ Start(p, o)
<1> DEFINE r == view[p].revisions
           e == [f \in {"spec", "revisions"} |-> view[p][f]]
           o == Publication(SpecWrites(p, r), e, OrderCheck(p))
           D == {"activities", "flow", "spec"} \cup (IF Unchanged(p) THEN {} ELSE {"revisions"})
<1>1. /\ NewLedger(p) \in Values /\ plan[p].ledger \in Values /\ NewLedger(p) # plan[p].ledger
      /\ plan[p].next \in Specs
  BY LedgerOfPlan DEF FlowValues
<1>2. {"activities", "flow"} \in SUBSET Files /\ D \in SUBSET Files /\ {"spec", "revisions"} \in SUBSET Files
  BY FilesOfFlow
<1>3. view[p].revisions \in Histories /\ view[p].spec \in Specs
  BY DEF PublishTask, Loaded, FlowTypeInv, Committed
<1>4. Append(r, plan[p].next) \in Values /\ plan[p].next \in Values
  BY <1>1, <1>3, AppendGrows DEF FlowValues, Histories
<1>5. OrderCheck(p) \in [{"activities", "flow"} -> Values \cup {Missing}]
  BY <1>1 DEF OrderCheck, BaseLedger
<1>6. e \in [{"spec", "revisions"} -> Values \cup {Missing}]
  BY <1>3 DEF FlowValues
<1>7. SpecWrites(p, r) \in [D -> Values \cup {Missing}]
  <2>1. SpecWrites(p, r) = [f \in D |-> SpecWrites(p, r)[f]]
    BY DEF SpecWrites, FlowFiles
  <2>2. \A f \in D : SpecWrites(p, r)[f] \in Values
    BY <1>1, <1>3, <1>4, SpecFiles
  <2>3. QED
    BY <2>1, <2>2
<1>8. SpecWrites(p, r) \in Partial /\ e \in Partial /\ OrderCheck(p) \in Partial
  BY <1>2, <1>5, <1>6, <1>7, OpTypes
<1>9. o \in Ops
  BY <1>8, OpTypes
<1>10. Differs(o)
  <2>1. o.writes = SpecWrites(p, r) /\ o.requires = OrderCheck(p)
    BY DEF Publication
  <2>2. /\ "activities" \in DOMAIN o.writes \cap DOMAIN o.requires
        /\ o.writes["activities"] # o.requires["activities"]
    BY <1>1, <1>3, <2>1, StateFiles, SpecFiles
  <2>3. QED
    BY <2>2 DEF Differs
<1>11. QED
  BY <1>9, <1>10 DEF PublishTask, Asked

\* The steps of a flow are steps of the store.
LEMMA FlowStepsStore ==
  ASSUME FlowValues, FlowIInv, [FlowNext]_flowVars
  PROVE  [StoreNext]_vars
<1>1. ASSUME NEW p \in Procs, StartRead(p)
      PROVE  \E o : Asked(o) /\ Start(p, o)
  <2>1. Asked(ReadOp)
    BY OpTypes DEF Asked, ReadOp
  <2>2. QED
    BY <1>1, <2>1 DEF StartRead
<1>2. ASSUME NEW p \in Procs, FlowStep(p) \/ FlowCrash(p)
      PROVE  [StoreNext]_vars
  <2>1. CASE Load(p) \/ ReadAuthority(p)
    BY <1>1, <2>1 DEF Load, ReadAuthority, StoreNext
  <2>2. CASE PublishNote(p)
    BY <2>2, NoteAsked DEF FlowIInv, StoreNext
  <2>3. CASE PublishTask(p)
    BY <2>3, TaskAsked DEF FlowIInv, IInv, StoreNext
  <2>4. CASE Decide(p) \/ LoadFails(p) \/ CheckStore(p) \/ ReadNext(p) \/ ReadCurrent(p)
             \/ TaskRefused(p) \/ Published(p)
    BY <2>4 DEF Decide, LoadFails, CheckStore, ReadNext, ReadCurrent, TaskRefused, Published
  <2>5. CASE Step(p) \/ FlowCrash(p)
    BY <2>5 DEF FlowCrash, StoreNext
  <2>6. QED
    BY <1>2, <2>1, <2>2, <2>3, <2>4, <2>5 DEF FlowStep
<1>3. QED
  BY <1>2 DEF FlowNext, flowVars

\* What is about to take effect: the committed ledger with the Activity, and for a Task
\* the planned specification, with its snapshot unless it was found unchanged.
LEMMA CommitWrites ==
  ASSUME FlowIInv, NEW p \in Procs, pc[p] = "save"
  PROVE  /\ op[p].kind = "publish" /\ stage[p] = "publish"
         /\ UpToDate(p)
         /\ tree.activities = Append(catalog.activities, plan[p].activity)
         /\ tree.flow = tree.activities
         /\ tree.spec = IF plan[p].activity # Note THEN plan[p].next ELSE catalog.spec
         /\ tree.revisions = IF plan[p].activity # Note /\ ~Unchanged(p)
                               THEN Append(catalog.revisions, plan[p].next) ELSE catalog.revisions
<1>1. op[p].kind = "publish" /\ SaveInv(p)
  BY DEF FlowIInv, IInv, ActiveInv, PhaseInv, Phase
<1>2. /\ stage[p] = "publish"
      /\ op[p].requires = OrderCheck(p)
      /\ {"activities", "flow"} \subseteq DOMAIN op[p].writes
      /\ op[p].writes["activities"] = NewLedger(p)
      /\ op[p].writes["flow"] = NewLedger(p)
  BY <1>1 DEF FlowIInv, StageInv, PublishInv
<1>3. /\ tree = Written(p, {}) /\ Agrees(catalog, op[p].expects)
      /\ Agrees(catalog, op[p].requires)
  BY <1>1, <1>2 DEF SaveInv
<1>4. UpToDate(p)
  <2>1. catalog["activities"] = op[p].requires["activities"]
    BY <1>2, <1>3, StateFiles DEF Agrees
  <2>2. QED
    BY <1>2, <2>1, StateFiles DEF UpToDate
<1>5. tree.activities = NewLedger(p) /\ tree.flow = NewLedger(p)
  BY <1>2, <1>3, FilesOfFlow DEF Written
<1>6. NewLedger(p) = Append(catalog.activities, plan[p].activity)
  BY <1>4 DEF NewLedger, BaseLedger, UpToDate
<1>7. tree.spec = IF plan[p].activity # Note THEN plan[p].next ELSE catalog.spec
  <2>1. /\ "spec" \in DOMAIN op[p].writes => op[p].writes["spec"] = plan[p].next
        /\ "spec" \in DOMAIN op[p].writes <=> plan[p].activity # Note
    BY <1>1 DEF FlowIInv, PublishInv
  <2>2. QED
    BY <1>3, <2>1, FilesOfFlow DEF Written
<1>8. tree.revisions = IF plan[p].activity # Note /\ ~Unchanged(p)
                         THEN Append(catalog.revisions, plan[p].next) ELSE catalog.revisions
  <2>1. /\ "revisions" \in DOMAIN op[p].writes <=> plan[p].activity # Note /\ ~Unchanged(p)
        /\ "revisions" \in DOMAIN op[p].writes =>
             /\ "revisions" \in DOMAIN op[p].expects
             /\ op[p].writes["revisions"] = Append(op[p].expects["revisions"], plan[p].next)
    BY <1>1 DEF FlowIInv, PublishInv
  <2>2. "revisions" \in DOMAIN op[p].writes => catalog.revisions = op[p].expects["revisions"]
    BY <1>3, <2>1 DEF Agrees
  <2>3. QED
    BY <1>3, <2>1, <2>2, FilesOfFlow DEF Written
<1>9. QED
  BY <1>1, <1>2, <1>4, <1>5, <1>6, <1>7, <1>8

-----------------------------------------------------------------------------
(* The steps of a flow, sorted by what they do.                            *)

\* The command ends outside the store; it has checked the state; it has planned the
\* specification; it has read the current one; it is in a call.
Ends(p) == pc[p] = "idle" /\ GiveUp(p) /\ UNCHANGED vars
Checks(p) ==
  /\ stage[p] = "loaded" /\ plan[p].activity # Note
  /\ Move(p, "checked")
  /\ UNCHANGED <<vars, plan>>
PlansNext(p) ==
  /\ stage[p] = "checked" /\ Readable("spec")
  /\ plan' = [plan EXCEPT ![p].next = WithTask(tree.spec, plan[p].activity)]
  /\ Move(p, "next")
  /\ UNCHANGED vars
PlansCurrent(p) ==
  /\ stage[p] = "next" /\ Readable("spec")
  /\ plan' = [plan EXCEPT ![p].current = tree.spec]
  /\ Move(p, "current")
  /\ UNCHANGED vars
InStore(p) ==
  /\ CallStep(p)
  /\ SpecKept(p) \/ SpecWritten(p) \/ Commits(p)
  /\ UNCHANGED <<stage, plan>>

FlowCase(p) ==
  \/ Ends(p) \/ Load(p) \/ ReadAuthority(p) \/ Decide(p) \/ Checks(p) \/ PlansNext(p)
  \/ PlansCurrent(p) \/ PublishNote(p) \/ PublishTask(p) \/ InStore(p) \/ FlowCrash(p)

LEMMA FlowCases ==
  ASSUME FlowValues, FlowIInv, [FlowNext]_flowVars
  PROVE  IInv' /\ (UNCHANGED flowVars \/ \E p \in Procs : FlowCase(p))
<1>1. IInv'
  BY FlowStepsStore, InvStep DEF FlowIInv
<1>2. ASSUME NEW p \in Procs, FlowStep(p) \/ FlowCrash(p)
      PROVE  FlowCase(p)
  <2>s. stage[p] \in {"loaded", "checked", "next"} => pc[p] = "idle"
    BY DEF FlowIInv, StageInv
  <2>1. CASE Load(p) \/ Decide(p) \/ ReadAuthority(p) \/ PublishNote(p) \/ PublishTask(p) \/ FlowCrash(p)
    BY <2>1 DEF FlowCase
  <2>2. CASE LoadFails(p) \/ TaskRefused(p) \/ Published(p)
    BY <2>2 DEF FlowCase, Ends, LoadFails, TaskRefused, Published, Loaded, NotLoaded
  <2>3. CASE CheckStore(p)
    BY <2>3, <2>s DEF FlowCase, Ends, Checks, CheckStore
  <2>4. CASE ReadNext(p)
    BY <2>4, <2>s DEF FlowCase, Ends, PlansNext, ReadNext
  <2>5. CASE ReadCurrent(p)
    BY <2>5, <2>s DEF FlowCase, Ends, PlansCurrent, ReadCurrent
  <2>6. CASE Step(p) /\ UNCHANGED <<stage, plan>>
    BY <1>1, <2>6, StepEffect DEF FlowIInv, FlowCase, InStore
  <2>7. QED
    BY <1>2, <2>1, <2>2, <2>3, <2>4, <2>5, <2>6 DEF FlowStep
<1>3. QED
  BY <1>1, <1>2 DEF FlowNext

\* The types are kept.
LEMMA FlowTypeStep ==
  ASSUME FlowValues, FlowIInv, [FlowNext]_flowVars
  PROVE  FlowTypeInv'
<1>t. FlowTypeInv /\ view \in [Procs -> Images \cup {None}]
  BY DEF FlowIInv, IInv, TypeOK
<1>i. IInv
  BY DEF FlowIInv
<1>n. NoPlan \in Plans
  BY DEF NoPlan, Plans, Ledgers, Specs
<1>k. ASSUME stage' \in [Procs -> Stages], plan' \in [Procs -> Plans],
             UNCHANGED <<tree, catalog>>,
             \A q \in Procs : view'[q] # None => view'[q] = view[q]
      PROVE  FlowTypeInv'
  BY <1>k, <1>t DEF FlowTypeInv
<1>v. ASSUME NEW p \in Procs, view' = [view EXCEPT ![p] = None]
      PROVE  \A q \in Procs : view'[q] # None => view'[q] = view[q]
  BY <1>v, <1>t
<1>1. ASSUME NEW p \in Procs, Ends(p)
      PROVE  FlowTypeInv'
  <2>1. stage' \in [Procs -> Stages] /\ plan' \in [Procs -> Plans]
    BY <1>1, <1>t, <1>n DEF Ends, GiveUp, Move, FlowTypeInv, Stages
  <2>2. QED
    BY <1>1, <1>k, <2>1 DEF Ends, vars, disk, local
<1>2. ASSUME NEW p \in Procs, Load(p)
      PROVE  FlowTypeInv'
  BY <1>2, <1>k, <1>t, <1>v DEF Load, StartRead, Start, Move, FlowTypeInv, Stages, disk
<1>3. ASSUME NEW p \in Procs, ReadAuthority(p)
      PROVE  FlowTypeInv'
  BY <1>3, <1>k, <1>t, <1>v DEF ReadAuthority, StartRead, Start, Move, FlowTypeInv, Stages, disk
<1>4. ASSUME NEW p \in Procs, Decide(p)
      PROVE  FlowTypeInv'
  <2>1. PICK a \in Wants[p] \cup {Note} :
          plan' = [plan EXCEPT ![p] = [NoPlan EXCEPT !.activity = a, !.ledger = view[p].activities]]
    BY <1>4 DEF Decide
  <2>2. a \in Tasks \cup {Note}
    BY FlowAssumption
  <2>3. view[p].activities \in Ledgers
    BY <1>4, <1>t DEF Decide, Loaded, FlowTypeInv, Committed
  <2>4. [NoPlan EXCEPT !.activity = a, !.ledger = view[p].activities] \in Plans
    BY <1>n, <2>2, <2>3 DEF Plans
  <2>5. stage' \in [Procs -> Stages] /\ plan' \in [Procs -> Plans]
    BY <1>4, <1>t, <2>1, <2>4 DEF Decide, Move, FlowTypeInv, Stages
  <2>6. QED
    BY <1>4, <1>k, <2>5 DEF Decide, vars, disk, local
<1>5. ASSUME NEW p \in Procs, Checks(p)
      PROVE  FlowTypeInv'
  BY <1>5, <1>k, <1>t DEF Checks, Move, FlowTypeInv, Stages, vars, disk, local
<1>6. ASSUME NEW p \in Procs, PlansNext(p)
      PROVE  FlowTypeInv'
  <2>1. plan[p] \in Plans /\ tree.spec \in Specs /\ plan[p].activity \in Tasks
    BY <1>6, <1>t DEF PlansNext, Readable, FlowTypeInv, FlowIInv, StageInv, Plans
  <2>2. WithTask(tree.spec, plan[p].activity) \in Specs
    BY <2>1, WithTaskFacts
  <2>3. stage' \in [Procs -> Stages] /\ plan' \in [Procs -> Plans]
    BY <1>6, <1>t, <2>1, <2>2 DEF PlansNext, Move, FlowTypeInv, Stages, Plans
  <2>4. QED
    BY <1>6, <1>k, <2>3 DEF PlansNext, vars, disk, local
<1>7. ASSUME NEW p \in Procs, PlansCurrent(p)
      PROVE  FlowTypeInv'
  <2>1. plan[p] \in Plans /\ tree.spec \in Specs
    BY <1>7, <1>t DEF PlansCurrent, Readable, FlowTypeInv
  <2>2. stage' \in [Procs -> Stages] /\ plan' \in [Procs -> Plans]
    BY <1>7, <1>t, <2>1 DEF PlansCurrent, Move, FlowTypeInv, Stages, Plans
  <2>3. QED
    BY <1>7, <1>k, <2>2 DEF PlansCurrent, vars, disk, local
<1>8. ASSUME NEW p \in Procs, PublishNote(p)
      PROVE  FlowTypeInv'
  BY <1>8, <1>k, <1>t, <1>v DEF PublishNote, StartRead, Start, Move, FlowTypeInv, Stages, disk
<1>9. ASSUME NEW p \in Procs, PublishTask(p)
      PROVE  FlowTypeInv'
  BY <1>9, <1>k, <1>t, <1>v DEF PublishTask, StartRead, Start, Move, FlowTypeInv, Stages, disk
<1>10. ASSUME NEW p \in Procs, InStore(p)
      PROVE  FlowTypeInv'
  <2>1. \A q \in Procs : view'[q] # None => Committed(view'[q])
    BY <1>10, <1>t DEF InStore, CallStep, FlowTypeInv
  <2>2. stage' \in [Procs -> Stages] /\ plan' \in [Procs -> Plans]
    BY <1>10, <1>t DEF InStore, FlowTypeInv
  <2>3. CASE SpecKept(p)
    <3>1. tree'.spec \in Specs \cup {Missing, Torn} /\ Committed(catalog')
      BY <1>t, <2>3 DEF SpecKept, FlowTypeInv, Committed
    <3>2. QED
      BY <2>1, <2>2, <3>1 DEF FlowTypeInv, Committed
  <2>4. CASE SpecWritten(p)
    <3>1. tree'.spec = plan[p].next
      BY <2>4 DEF SpecWritten, FlowIInv, PublishInv
    <3>2. tree'.spec \in Specs
      BY <1>t, <3>1, LedgerOfPlan
    <3>3. Committed(catalog')
      BY <1>t, <2>4 DEF SpecWritten, FlowTypeInv
    <3>4. QED
      BY <2>1, <2>2, <3>2, <3>3 DEF FlowTypeInv, Committed
  <2>5. CASE Commits(p)
    <3>1. /\ catalog.activities \in Ledgers /\ catalog.spec \in Specs /\ catalog.revisions \in Histories
          /\ plan[p].activity \in Tasks \cup {Note} /\ plan[p].next \in Specs
      BY <1>t, LedgerOfPlan DEF FlowTypeInv, Committed
    <3>2. /\ Append(catalog.activities, plan[p].activity) \in Ledgers
          /\ Append(catalog.revisions, plan[p].next) \in Histories
      BY <3>1 DEF Ledgers, Histories
    <3>3. /\ tree.activities \in Ledgers /\ tree.flow \in Ledgers
          /\ tree.spec \in Specs /\ tree.revisions \in Histories
      BY <2>5, <3>1, <3>2, CommitWrites DEF Commits
    <3>4. Committed(catalog') /\ tree'.spec \in Specs
      BY <2>5, <3>3 DEF Commits, Committed
    <3>5. QED
      BY <2>1, <2>2, <3>4 DEF FlowTypeInv, Committed
  <2>6. QED
    BY <1>10, <2>3, <2>4, <2>5 DEF InStore
<1>11. ASSUME NEW p \in Procs, FlowCrash(p)
      PROVE  FlowTypeInv'
  <2>1. stage' \in [Procs -> Stages] /\ plan' \in [Procs -> Plans]
    BY <1>11, <1>t, <1>n DEF FlowCrash, GiveUp, Move, FlowTypeInv, Stages
  <2>2. QED
    BY <1>11, <1>k, <1>v, <2>1 DEF FlowCrash, Crash, disk
<1>12. CASE UNCHANGED flowVars
  BY <1>12, <1>k, <1>t DEF flowVars, vars, disk, local, FlowTypeInv
<1>13. QED
  BY <1>1, <1>2, <1>3, <1>4, <1>5, <1>6, <1>7, <1>8, <1>9, <1>10, <1>11, <1>12, FlowCases DEF FlowCase

\* What a command does in the store is kept.
LEMMA StageStep ==
  ASSUME FlowValues, FlowIInv, [FlowNext]_flowVars
  PROVE  StageInv'
<1>t. FlowTypeInv /\ view \in [Procs -> Images \cup {None}]
  BY DEF FlowIInv, IInv, TypeOK
<1>i. IInv
  BY DEF FlowIInv
<1>f. stage \in [Procs -> Stages] /\ plan \in [Procs -> Plans] /\ op \in [Procs -> Ops] /\ pc \in [Procs -> Labels]
  BY <1>t, <1>i DEF FlowTypeInv, IInv, TypeOK
<1>r. ReadOp.kind = "read"
  BY DEF ReadOp
<1>s. StageInv
  BY DEF FlowIInv
<1>1. ASSUME NEW p \in Procs, Ends(p)
      PROVE  StageInv'
  BY <1>1, <1>f, <1>s, <1>r DEF Ends, StageInv, Move, GiveUp, NoPlan, vars, disk, local
<1>2. ASSUME NEW p \in Procs, Load(p)
      PROVE  StageInv'
  BY <1>2, <1>f, <1>s, <1>r DEF Load, StageInv, Move, GiveUp, NoPlan, vars, disk, local, StartRead, Start, Goto
<1>3. ASSUME NEW p \in Procs, ReadAuthority(p)
      PROVE  StageInv'
  BY <1>3, <1>f, <1>s, <1>r DEF ReadAuthority, StageInv, Move, GiveUp, NoPlan, vars, disk, local, StartRead, Start, Goto
<1>4. ASSUME NEW p \in Procs, Decide(p)
      PROVE  StageInv'
  BY <1>4, <1>f, <1>s, <1>r DEF Decide, StageInv, Move, GiveUp, NoPlan, vars, disk, local, Loaded
<1>5. ASSUME NEW p \in Procs, Checks(p)
      PROVE  StageInv'
  BY <1>5, <1>f, <1>s, <1>r DEF Checks, StageInv, Move, GiveUp, NoPlan, vars, disk, local
<1>6. ASSUME NEW p \in Procs, PlansNext(p)
      PROVE  StageInv'
  BY <1>6, <1>f, <1>s, <1>r DEF PlansNext, StageInv, Move, GiveUp, NoPlan, vars, disk, local, Plans
<1>7. ASSUME NEW p \in Procs, PlansCurrent(p)
      PROVE  StageInv'
  BY <1>7, <1>f, <1>s, <1>r DEF PlansCurrent, StageInv, Move, GiveUp, NoPlan, vars, disk, local, Plans
<1>8. ASSUME NEW p \in Procs, PublishNote(p)
      PROVE  StageInv'
  BY <1>8, <1>f, <1>s, <1>r DEF PublishNote, StageInv, Move, GiveUp, NoPlan, vars, disk, local, Publication, Start, Goto
<1>9. ASSUME NEW p \in Procs, PublishTask(p)
      PROVE  StageInv'
  BY <1>9, <1>f, <1>s, <1>r DEF PublishTask, StageInv, Move, GiveUp, NoPlan, vars, disk, local, Publication, Start, Goto
<1>10. ASSUME NEW p \in Procs, InStore(p)
      PROVE  StageInv'
  <2>1. \A q \in Procs \ {p} : pc'[q] = pc[q] /\ op'[q] = op[q]
    BY <1>10 DEF InStore, CallStep, OwnStep
  <2>2. /\ pc[p] # "idle" /\ op'[p] \in {op[p], ReadOp}
        /\ pc'[p] = "idle" => op'[p] = ReadOp
        /\ stage' = stage /\ plan' = plan
    BY <1>10 DEF InStore, CallStep
  <2>3. QED
    BY <1>s, <1>r, <2>1, <2>2 DEF StageInv
<1>11. ASSUME NEW p \in Procs, FlowCrash(p)
      PROVE  StageInv'
  BY <1>11, <1>f, <1>s, <1>r DEF FlowCrash, StageInv, Move, GiveUp, NoPlan, vars, disk, local, Crash, Return, Goto
<1>12. CASE UNCHANGED flowVars
  BY <1>12, <1>f, <1>s, <1>r DEF flowVars, StageInv, Move, GiveUp, NoPlan, vars, disk, local
<1>13. QED
  BY <1>1, <1>2, <1>3, <1>4, <1>5, <1>6, <1>7, <1>8, <1>9, <1>10, <1>11, <1>12, FlowCases DEF FlowCase

\* What is about to be written is kept.
LEMMA PublishStep ==
  ASSUME FlowValues, FlowIInv, [FlowNext]_flowVars
  PROVE  PublishInv'
<1>t. FlowTypeInv /\ view \in [Procs -> Images \cup {None}]
  BY DEF FlowIInv, IInv, TypeOK
<1>i. IInv
  BY DEF FlowIInv
<1>f. stage \in [Procs -> Stages] /\ plan \in [Procs -> Plans] /\ op \in [Procs -> Ops] /\ pc \in [Procs -> Labels]
  BY <1>t, <1>i DEF FlowTypeInv, IInv, TypeOK
<1>r. ReadOp.kind = "read"
  BY DEF ReadOp
<1>s. StageInv
  BY DEF FlowIInv
<1>p. PublishInv
  BY DEF FlowIInv
<1>o. ASSUME NEW q \in Procs, op'[q] = op[q], plan'[q] = plan[q]
      PROVE  /\ OrderCheck(q)' = OrderCheck(q)
             /\ NewLedger(q)' = NewLedger(q)
             /\ Unchanged(q)' <=> Unchanged(q)
  BY <1>o DEF OrderCheck, NewLedger, BaseLedger, Unchanged
<1>k. ASSUME \A q \in Procs :
               \/ op'[q].kind # "publish"
               \/ op'[q] = op[q] /\ plan'[q] = plan[q]
      PROVE  PublishInv'
  BY <1>k, <1>o, <1>p DEF PublishInv
<1>1. ASSUME NEW p \in Procs, Ends(p)
      PROVE  PublishInv'
  <2>1. \A q \in Procs : op'[q] = op[q] /\ (q # p => plan'[q] = plan[q])
    BY <1>1, <1>f DEF Ends, GiveUp, vars, local
  <2>2. op[p].kind # "publish"
    BY <1>1, <1>s, <1>f, <1>r DEF Ends, GiveUp, StageInv
  <2>3. QED
    BY <1>k, <2>1, <2>2
<1>2. ASSUME NEW p \in Procs, Load(p)
      PROVE  PublishInv'
  <2>1. /\ \A q \in Procs \ {p} : op'[q] = op[q]
        /\ op'[p].kind = "read"
        /\ UNCHANGED plan
    BY <1>2, <1>f, <1>r DEF Load, StartRead, Start
  <2>2. QED
    BY <1>k, <2>1
<1>3. ASSUME NEW p \in Procs, ReadAuthority(p)
      PROVE  PublishInv'
  <2>1. /\ \A q \in Procs \ {p} : op'[q] = op[q]
        /\ op'[p].kind = "read"
        /\ UNCHANGED plan
    BY <1>3, <1>f, <1>r DEF ReadAuthority, StartRead, Start
  <2>2. QED
    BY <1>k, <2>1
<1>4. ASSUME NEW p \in Procs, Decide(p)
      PROVE  PublishInv'
  <2>1. \A q \in Procs : op'[q] = op[q] /\ (q # p => plan'[q] = plan[q])
    BY <1>4, <1>f DEF Decide, Loaded, vars, local
  <2>2. op[p].kind # "publish"
    BY <1>4, <1>s, <1>f, <1>r DEF Decide, Loaded, StageInv
  <2>3. QED
    BY <1>k, <2>1, <2>2
<1>5. ASSUME NEW p \in Procs, Checks(p)
      PROVE  PublishInv'
  <2>1. \A q \in Procs : op'[q] = op[q] /\ (q # p => plan'[q] = plan[q])
    BY <1>5, <1>f DEF Checks, vars, local
  <2>2. op[p].kind # "publish"
    BY <1>5, <1>s, <1>f, <1>r DEF Checks, StageInv
  <2>3. QED
    BY <1>k, <2>1, <2>2
<1>6. ASSUME NEW p \in Procs, PlansNext(p)
      PROVE  PublishInv'
  <2>1. \A q \in Procs : op'[q] = op[q] /\ (q # p => plan'[q] = plan[q])
    BY <1>6, <1>f DEF PlansNext, vars, local
  <2>2. op[p].kind # "publish"
    BY <1>6, <1>s, <1>f, <1>r DEF PlansNext, StageInv
  <2>3. QED
    BY <1>k, <2>1, <2>2
<1>7. ASSUME NEW p \in Procs, PlansCurrent(p)
      PROVE  PublishInv'
  <2>1. \A q \in Procs : op'[q] = op[q] /\ (q # p => plan'[q] = plan[q])
    BY <1>7, <1>f DEF PlansCurrent, vars, local
  <2>2. op[p].kind # "publish"
    BY <1>7, <1>s, <1>f, <1>r DEF PlansCurrent, StageInv
  <2>3. QED
    BY <1>k, <2>1, <2>2
<1>8. ASSUME NEW p \in Procs, PublishNote(p)
      PROVE  PublishInv'
  <2> DEFINE o == Publication(StateWrites(p), NoFiles, OrderCheck(p))
  <2>1. /\ op' = [op EXCEPT ![p] = o] /\ UNCHANGED plan /\ plan[p].activity = Note
    BY <1>8 DEF PublishNote, Start
  <2>2. o.writes = StateWrites(p) /\ o.requires = OrderCheck(p)
    BY DEF Publication
  <2>3. /\ op'[p].writes = StateWrites(p) /\ op'[p].requires = OrderCheck(p)
        /\ \A q \in Procs \ {p} : op'[q] = op[q] /\ plan'[q] = plan[q]
    BY <1>f, <2>1, <2>2
  <2>4. OrderCheck(p)' = OrderCheck(p) /\ NewLedger(p)' = NewLedger(p) /\ plan'[p].activity = Note
    BY <2>1 DEF OrderCheck, NewLedger, BaseLedger
  <2>5. /\ op'[p].requires = OrderCheck(p)'
        /\ DOMAIN op'[p].writes = {"activities", "flow"}
        /\ op'[p].writes["activities"] = NewLedger(p)' /\ op'[p].writes["flow"] = NewLedger(p)'
    BY <2>3, <2>4, StateFiles
  <2>6. ASSUME NEW q \in Procs \ {p}
        PROVE  /\ op'[q] = op[q] /\ plan'[q] = plan[q]
               /\ OrderCheck(q)' = OrderCheck(q) /\ NewLedger(q)' = NewLedger(q)
               /\ Unchanged(q)' <=> Unchanged(q)
    BY <1>o, <2>3
  <2>7. QED
    BY <1>p, <2>4, <2>5, <2>6 DEF PublishInv
<1>9. ASSUME NEW p \in Procs, PublishTask(p)
      PROVE  PublishInv'
  <2> DEFINE r == view[p].revisions
             e == [f \in {"spec", "revisions"} |-> view[p][f]]
             o == Publication(SpecWrites(p, r), e, OrderCheck(p))
  <2>1. op' = [op EXCEPT ![p] = o] /\ UNCHANGED plan /\ stage[p] = "authority" /\ view[p] # None
    BY <1>9 DEF PublishTask, Start, Loaded
  <2>2. plan[p].activity # Note /\ r \in Histories
    BY <1>s, <1>t, <2>1 DEF StageInv, FlowTypeInv, Committed
  <2>3. o.writes = SpecWrites(p, r) /\ o.requires = OrderCheck(p) /\ o.expects = e
    BY DEF Publication
  <2>4. /\ op'[p].writes = SpecWrites(p, r) /\ op'[p].requires = OrderCheck(p) /\ op'[p].expects = e
        /\ \A q \in Procs \ {p} : op'[q] = op[q] /\ plan'[q] = plan[q]
    BY <1>f, <2>1, <2>3
  <2>5. /\ OrderCheck(p)' = OrderCheck(p) /\ NewLedger(p)' = NewLedger(p)
        /\ plan'[p] = plan[p] /\ (Unchanged(p)' <=> Unchanged(p))
    BY <2>1 DEF OrderCheck, NewLedger, BaseLedger, Unchanged
  <2>6. "revisions" \in DOMAIN e /\ e["revisions"] = r
    OBVIOUS
  <2> HIDE DEF r, e, o
  <2>f. /\ DOMAIN SpecWrites(p, r) =
             {"activities", "flow", "spec"} \cup (IF Unchanged(p) THEN {} ELSE {"revisions"})
        /\ SpecWrites(p, r)["activities"] = NewLedger(p) /\ SpecWrites(p, r)["flow"] = NewLedger(p)
        /\ SpecWrites(p, r)["spec"] = plan[p].next
        /\ ~Unchanged(p) => SpecWrites(p, r)["revisions"] = Append(r, plan[p].next)
    BY <2>2, SpecFiles
  <2>7. /\ op'[p].requires = OrderCheck(p)'
        /\ {"activities", "flow"} \subseteq DOMAIN op'[p].writes
        /\ op'[p].writes["activities"] = NewLedger(p)' /\ op'[p].writes["flow"] = NewLedger(p)'
        /\ "spec" \in DOMAIN op'[p].writes /\ op'[p].writes["spec"] = plan'[p].next
        /\ "revisions" \in DOMAIN op'[p].writes <=> ~Unchanged(p)'
        /\ ~Unchanged(p)' => op'[p].writes["revisions"] = Append(r, plan'[p].next)
    BY <2>4, <2>5, <2>f
  <2>8. /\ "revisions" \in DOMAIN op'[p].expects /\ op'[p].expects["revisions"] = r
        /\ plan'[p].activity # Note
    BY <2>2, <2>4, <2>5, <2>6
  <2>9. ASSUME NEW q \in Procs \ {p}
        PROVE  /\ op'[q] = op[q] /\ plan'[q] = plan[q]
               /\ OrderCheck(q)' = OrderCheck(q) /\ NewLedger(q)' = NewLedger(q)
               /\ Unchanged(q)' <=> Unchanged(q)
    BY <1>o, <2>4
  <2>10. QED
    BY <1>p, <2>2, <2>7, <2>8, <2>9 DEF PublishInv
<1>10. ASSUME NEW p \in Procs, InStore(p)
      PROVE  PublishInv'
  <2>1. /\ \A q \in Procs \ {p} : op'[q] = op[q]
        /\ op'[p] \in {op[p], ReadOp}
        /\ UNCHANGED plan
    BY <1>10 DEF InStore, CallStep, OwnStep
  <2>2. QED
    BY <1>k, <1>r, <2>1
<1>11. ASSUME NEW p \in Procs, FlowCrash(p)
      PROVE  PublishInv'
  <2>1. /\ \A q \in Procs \ {p} : op'[q] = op[q] /\ plan'[q] = plan[q]
        /\ op'[p].kind = "read"
    BY <1>11, <1>f, <1>r DEF FlowCrash, Crash, Return, GiveUp
  <2>2. QED
    BY <1>k, <2>1
<1>12. CASE UNCHANGED flowVars
  BY <1>12, <1>k DEF flowVars, vars, local
<1>13. QED
  BY <1>1, <1>2, <1>3, <1>4, <1>5, <1>6, <1>7, <1>8, <1>9, <1>10, <1>11, <1>12, FlowCases DEF FlowCase

\* Nothing that was read is longer than what is committed.
LEMMA GrowthStep ==
  ASSUME FlowValues, FlowIInv, [FlowNext]_flowVars
  PROVE  GrowthInv'
<1>t. FlowTypeInv /\ view \in [Procs -> Images \cup {None}]
  BY DEF FlowIInv, IInv, TypeOK
<1>i. IInv
  BY DEF FlowIInv
<1>f. stage \in [Procs -> Stages] /\ plan \in [Procs -> Plans] /\ op \in [Procs -> Ops] /\ pc \in [Procs -> Labels]
  BY <1>t, <1>i DEF FlowTypeInv, IInv, TypeOK
<1>r. ReadOp.kind = "read"
  BY DEF ReadOp
<1>s. StageInv
  BY DEF FlowIInv
<1>g. GrowthInv
  BY DEF FlowIInv
<1>n. Len(NoPlan.ledger) = 0 /\ Len(catalog.activities) \in Nat
  BY <1>t DEF NoPlan, FlowTypeInv, Committed, Ledgers
<1>k. ASSUME UNCHANGED vars, \A q \in Procs : plan'[q].ledger = plan[q].ledger \/ Len(plan'[q].ledger) = 0
      PROVE  GrowthInv'
  BY <1>k, <1>g, <1>n DEF GrowthInv, vars, disk, local
<1>1. ASSUME NEW p \in Procs, Ends(p)
      PROVE  GrowthInv'
  BY <1>1, <1>k, <1>f, <1>n DEF Ends, GiveUp
<1>2. ASSUME NEW p \in Procs, Load(p)
      PROVE  GrowthInv'
  <2>1. UNCHANGED <<catalog, plan>> /\ view' = [view EXCEPT ![p] = None]
    BY <1>2 DEF Load, StartRead, Start, disk
  <2>2. QED
    BY <1>g, <1>t, <2>1 DEF GrowthInv
<1>3. ASSUME NEW p \in Procs, ReadAuthority(p)
      PROVE  GrowthInv'
  <2>1. UNCHANGED <<catalog, plan>> /\ view' = [view EXCEPT ![p] = None]
    BY <1>3 DEF ReadAuthority, StartRead, Start, disk
  <2>2. QED
    BY <1>g, <1>t, <2>1 DEF GrowthInv
<1>4. ASSUME NEW p \in Procs, Decide(p)
      PROVE  GrowthInv'
  <2>1. /\ UNCHANGED vars /\ view[p] # None
        /\ \A q \in Procs \ {p} : plan'[q] = plan[q]
        /\ plan'[p].ledger = view[p].activities
    BY <1>4, <1>f DEF Decide, Loaded, NoPlan
  <2>2. QED
    BY <1>g, <2>1 DEF GrowthInv, vars, disk, local
<1>5. ASSUME NEW p \in Procs, Checks(p)
      PROVE  GrowthInv'
  BY <1>5, <1>k DEF Checks
<1>6. ASSUME NEW p \in Procs, PlansNext(p)
      PROVE  GrowthInv'
  BY <1>6, <1>k, <1>f DEF PlansNext, Plans
<1>7. ASSUME NEW p \in Procs, PlansCurrent(p)
      PROVE  GrowthInv'
  BY <1>7, <1>k, <1>f DEF PlansCurrent, Plans
<1>8. ASSUME NEW p \in Procs, PublishNote(p)
      PROVE  GrowthInv'
  <2>1. UNCHANGED <<catalog, plan>> /\ view' = [view EXCEPT ![p] = None]
    BY <1>8 DEF PublishNote, StartRead, Start, disk
  <2>2. QED
    BY <1>g, <1>t, <2>1 DEF GrowthInv
<1>9. ASSUME NEW p \in Procs, PublishTask(p)
      PROVE  GrowthInv'
  <2>1. UNCHANGED <<catalog, plan>> /\ view' = [view EXCEPT ![p] = None]
    BY <1>9 DEF PublishTask, StartRead, Start, disk
  <2>2. QED
    BY <1>g, <1>t, <2>1 DEF GrowthInv
<1>10. ASSUME NEW p \in Procs, InStore(p)
      PROVE  GrowthInv'
  <2>1. UNCHANGED plan /\ view' \in {view, [view EXCEPT ![p] = catalog]}
    BY <1>10 DEF InStore, CallStep
  <2>2. /\ Len(catalog.activities) <= Len(catalog'.activities)
        /\ Len(catalog'.activities) \in Nat
    <3>1. CASE UNCHANGED catalog
      BY <1>n, <3>1
    <3>2. CASE Commits(p)
      <4>1. /\ catalog'.activities = Append(catalog.activities, plan[p].activity)
            /\ catalog.activities \in Ledgers /\ plan[p].activity \in Tasks \cup {Note}
        BY <1>t, <3>2, CommitWrites, LedgerOfPlan DEF Commits, FlowTypeInv, Committed
      <4>2. QED
        BY <4>1, <1>n, AppendGrows DEF Ledgers
    <3>3. QED
      BY <1>10, <3>1, <3>2 DEF InStore, SpecKept, SpecWritten
  <2>3. \A q \in Procs : Len(plan[q].ledger) \in Nat /\ (view[q] # None => Len(view[q].activities) \in Nat)
    BY <1>t, LedgerOfPlan DEF FlowTypeInv, Committed, Ledgers
  <2>4. QED
    BY <1>g, <1>t, <1>n, <2>1, <2>2, <2>3 DEF GrowthInv
<1>11. ASSUME NEW p \in Procs, FlowCrash(p)
      PROVE  GrowthInv'
  <2>1. /\ UNCHANGED catalog /\ view' = [view EXCEPT ![p] = None]
        /\ plan' = [plan EXCEPT ![p] = NoPlan]
    BY <1>11 DEF FlowCrash, Crash, GiveUp, disk
  <2>2. QED
    BY <1>g, <1>t, <1>f, <1>n, <2>1 DEF GrowthInv
<1>12. CASE UNCHANGED flowVars
  BY <1>12, <1>k DEF flowVars
<1>13. QED
  BY <1>1, <1>2, <1>3, <1>4, <1>5, <1>6, <1>7, <1>8, <1>9, <1>10, <1>11, <1>12, FlowCases DEF FlowCase

\* A publication that takes effect makes every plan out of date.
LEMMA CommitOutdates ==
  ASSUME FlowIInv, NEW p \in Procs, Commits(p), UNCHANGED plan, NEW q \in Procs
  PROVE  ~UpToDate(q)'
<1>1. FlowTypeInv
  BY DEF FlowIInv
<1>2. /\ catalog'.activities = Append(catalog.activities, plan[p].activity)
      /\ catalog.activities \in Ledgers /\ plan[p].activity \in Tasks \cup {Note}
  BY <1>1, CommitWrites, LedgerOfPlan DEF Commits, FlowTypeInv, Committed
<1>3. Len(catalog'.activities) = Len(catalog.activities) + 1 /\ Len(catalog.activities) \in Nat
  BY <1>2, AppendGrows DEF Ledgers
<1>4. Len(plan[q].ledger) <= Len(catalog.activities) /\ Len(plan[q].ledger) \in Nat
  BY <1>1, LedgerOfPlan DEF FlowIInv, GrowthInv, Ledgers
<1>5. QED
  BY <1>3, <1>4 DEF UpToDate

\* What is read, planned, half written or committed loses no task.
LEMMA TasksStep ==
  ASSUME FlowValues, FlowIInv, [FlowNext]_flowVars
  PROVE  TasksInv'
<1>t. FlowTypeInv /\ view \in [Procs -> Images \cup {None}]
  BY DEF FlowIInv, IInv, TypeOK
<1>i. IInv
  BY DEF FlowIInv
<1>f. stage \in [Procs -> Stages] /\ plan \in [Procs -> Plans] /\ op \in [Procs -> Ops] /\ pc \in [Procs -> Labels]
  BY <1>t, <1>i DEF FlowTypeInv, IInv, TypeOK
<1>r. ReadOp.kind = "read"
  BY DEF ReadOp
<1>s. StageInv
  BY DEF FlowIInv
<1>p. TasksInv
  BY DEF FlowIInv
<1>a. Note \notin Tasks
  BY FlowAssumption
<1>k. ASSUME UNCHANGED <<tree, catalog>>,
             \A q \in Procs : Planned(q)' => Planned(q) /\ plan'[q] = plan[q]
      PROVE  TasksInv'
  BY <1>k, <1>p DEF TasksInv, Readable, Covers, UpToDate, AdmittedTasksSpecified
<1>1. ASSUME NEW p \in Procs, Ends(p)
      PROVE  TasksInv'
  <2>1. UNCHANGED <<tree, catalog>> /\ \A q \in Procs : Planned(q)' => Planned(q) /\ plan'[q] = plan[q]
    BY <1>1, <1>f DEF Ends, vars, disk, Move, GiveUp, Planned
  <2>2. QED
    BY <1>k, <2>1
<1>2. ASSUME NEW p \in Procs, Load(p)
      PROVE  TasksInv'
  <2>1. UNCHANGED <<tree, catalog, plan>> /\ \A q \in Procs : Planned(q)' => Planned(q)
    BY <1>2, <1>f, <1>s DEF Load, StartRead, Start, disk, Move, Planned, StageInv
  <2>2. QED
    BY <1>k, <2>1
<1>3. ASSUME NEW p \in Procs, ReadAuthority(p)
      PROVE  TasksInv'
  <2>1. UNCHANGED <<tree, catalog, plan>> /\ \A q \in Procs : Planned(q)' => Planned(q)
    BY <1>3, <1>f, <1>s DEF ReadAuthority, StartRead, Start, disk, Move, Planned, StageInv
  <2>2. QED
    BY <1>k, <2>1
<1>4. ASSUME NEW p \in Procs, Decide(p)
      PROVE  TasksInv'
  <2>1. UNCHANGED <<tree, catalog>> /\ \A q \in Procs : Planned(q)' => Planned(q) /\ plan'[q] = plan[q]
    BY <1>4, <1>f DEF Decide, vars, disk, Move, GiveUp, Planned
  <2>2. QED
    BY <1>k, <2>1
<1>5. ASSUME NEW p \in Procs, Checks(p)
      PROVE  TasksInv'
  <2>1. UNCHANGED <<tree, catalog>> /\ \A q \in Procs : Planned(q)' => Planned(q) /\ plan'[q] = plan[q]
    BY <1>5, <1>f DEF Checks, vars, disk, Move, GiveUp, Planned
  <2>2. QED
    BY <1>k, <2>1
<1>6. ASSUME NEW p \in Procs, PlansNext(p)
      PROVE  TasksInv'
  <2>1. UNCHANGED <<tree, catalog>> /\ \A q \in Procs \ {p} : plan'[q] = plan[q] /\ stage'[q] = stage[q]
    BY <1>6, <1>f DEF PlansNext, vars, disk, Move
  <2>2. /\ plan'[p].next = WithTask(tree.spec, plan[p].activity)
        /\ plan'[p].activity = plan[p].activity
    BY <1>6, <1>f DEF PlansNext, Plans
  <2>3. tree.spec \in Specs /\ plan[p].activity \in Tasks
    BY <1>6, <1>t, <1>s DEF PlansNext, Readable, FlowTypeInv, StageInv, Plans
  <2>4. Covers(tree.spec, catalog.spec)
    BY <1>6, <1>p DEF PlansNext, TasksInv
  <2>5. Contains(plan'[p].next, plan'[p].activity) /\ Covers(plan'[p].next, catalog'.spec)
    BY <2>1, <2>2, <2>3, <2>4, WithTaskFacts DEF Covers
  <2>6. QED
    BY <1>p, <2>1, <2>5 DEF TasksInv, Readable, Covers, Planned, UpToDate, AdmittedTasksSpecified
<1>7. ASSUME NEW p \in Procs, PlansCurrent(p)
      PROVE  TasksInv'
  <2>1. UNCHANGED <<tree, catalog>> /\ \A q \in Procs \ {p} : plan'[q] = plan[q] /\ stage'[q] = stage[q]
    BY <1>7, <1>f DEF PlansCurrent, vars, disk, Move
  <2>2. /\ plan'[p].next = plan[p].next /\ plan'[p].activity = plan[p].activity
        /\ plan'[p].ledger = plan[p].ledger
    BY <1>7, <1>f DEF PlansCurrent, Plans
  <2>3. Planned(p)' => Planned(p)
    BY <1>7, <2>2 DEF PlansCurrent, Planned
  <2>4. QED
    BY <1>p, <2>1, <2>2, <2>3 DEF TasksInv, Readable, Covers, Planned, UpToDate, AdmittedTasksSpecified
<1>8. ASSUME NEW p \in Procs, PublishNote(p)
      PROVE  TasksInv'
  <2>1. UNCHANGED <<tree, catalog, plan>> /\ \A q \in Procs : Planned(q)' => Planned(q)
    BY <1>8, <1>f, <1>s DEF PublishNote, StartRead, Start, disk, Move, Planned, StageInv
  <2>2. QED
    BY <1>k, <2>1
<1>9. ASSUME NEW p \in Procs, PublishTask(p)
      PROVE  TasksInv'
  <2>1. UNCHANGED <<tree, catalog, plan>> /\ \A q \in Procs : Planned(q)' => Planned(q)
    BY <1>9, <1>f, <1>s DEF PublishTask, StartRead, Start, disk, Move, Planned, StageInv
  <2>2. QED
    BY <1>k, <2>1
<1>10. ASSUME NEW p \in Procs, InStore(p)
      PROVE  TasksInv'
  <2>1. UNCHANGED <<stage, plan>>
    BY <1>10 DEF InStore
  <2>2. \A q \in Procs : Planned(q)' <=> Planned(q)
    BY <2>1 DEF Planned
  <2>3. CASE SpecKept(p)
    <3>1. Readable("spec")' => Covers(tree'.spec, catalog'.spec)
      <4>1. tree'.spec \in {tree.spec, Missing, Torn, catalog.spec} /\ UNCHANGED catalog
        BY <2>3 DEF SpecKept
      <4>2. QED
        BY <1>p, <4>1 DEF TasksInv, Readable, Covers
    <3>2. QED
      BY <1>p, <2>1, <2>2, <2>3, <3>1 DEF TasksInv, SpecKept, Covers, UpToDate, AdmittedTasksSpecified
  <2>4. CASE SpecWritten(p)
    <3>1. UNCHANGED catalog /\ tree'.spec = plan[p].next /\ Planned(p)
      BY <2>4, <1>s DEF SpecWritten, FlowIInv, PublishInv, StageInv, Planned
    <3>2. UpToDate(p)
      <4>1. op[p].requires = OrderCheck(p)
        BY <2>4 DEF SpecWritten, FlowIInv, PublishInv
      <4>2. catalog["activities"] = OrderCheck(p)["activities"]
        BY <2>4, <4>1, StateFiles DEF SpecWritten, Agrees
      <4>3. QED
        BY <4>2, StateFiles DEF UpToDate
    <3>3. Covers(tree'.spec, catalog'.spec)
      BY <1>p, <3>1, <3>2 DEF TasksInv, Covers
    <3>4. QED
      BY <1>p, <2>1, <2>2, <3>1, <3>3 DEF TasksInv, Covers, UpToDate, AdmittedTasksSpecified
  <2>5. CASE Commits(p)
    <3>1. UNCHANGED tree /\ catalog' = tree /\ pc[p] = "save"
      BY <2>5 DEF Commits
    <3>2. /\ stage[p] = "publish" /\ UpToDate(p)
          /\ catalog'.activities = Append(catalog.activities, plan[p].activity)
          /\ catalog'.spec = IF plan[p].activity # Note THEN plan[p].next ELSE catalog.spec
      BY <3>1, CommitWrites
    <3>3. \A q \in Procs : ~UpToDate(q)'
      BY <2>1, <2>5, CommitOutdates
    <3>4. \A x \in Tasks : Contains(catalog.spec, x) => Contains(catalog'.spec, x)
      BY <1>p, <3>2 DEF TasksInv, Planned, Covers
    <3>5. plan[p].activity \in Tasks => Contains(catalog'.spec, plan[p].activity)
      BY <1>p, <1>a, <3>2 DEF TasksInv, Planned
    <3>6. AdmittedTasksSpecified'
      <4>1. /\ catalog.activities \in Ledgers
            /\ \A i \in 1 .. Len(catalog.activities) :
                 catalog.activities[i] \in Tasks => Contains(catalog.spec, catalog.activities[i])
        BY <1>t, <1>p DEF FlowTypeInv, Committed, TasksInv, AdmittedTasksSpecified
      <4>2. SUFFICES ASSUME NEW i \in 1 .. Len(catalog'.activities), catalog'.activities[i] \in Tasks
                     PROVE  Contains(catalog'.spec, catalog'.activities[i])
        BY DEF AdmittedTasksSpecified
      <4>3. /\ Len(catalog'.activities) = Len(catalog.activities) + 1 /\ Len(catalog.activities) \in Nat
            /\ \A j \in 1 .. Len(catalog.activities) : catalog'.activities[j] = catalog.activities[j]
            /\ catalog'.activities[Len(catalog.activities) + 1] = plan[p].activity
        BY <3>2, <4>1 DEF Ledgers
      <4>4. CASE i \in 1 .. Len(catalog.activities)
        BY <3>4, <4>1, <4>2, <4>3, <4>4
      <4>5. CASE i = Len(catalog.activities) + 1
        BY <3>5, <4>2, <4>3, <4>5
      <4>6. QED
        BY <4>3, <4>4, <4>5
    <3>7. Covers(tree'.spec, catalog'.spec)
      BY <3>1 DEF Covers
    <3>8. QED
      BY <1>p, <2>1, <2>2, <3>3, <3>6, <3>7 DEF TasksInv
  <2>6. QED
    BY <1>10, <2>3, <2>4, <2>5 DEF InStore
<1>11. ASSUME NEW p \in Procs, FlowCrash(p)
      PROVE  TasksInv'
  <2>1. UNCHANGED <<tree, catalog>> /\ \A q \in Procs : Planned(q)' => Planned(q) /\ plan'[q] = plan[q]
    BY <1>11, <1>f DEF FlowCrash, Crash, disk, Move, GiveUp, Planned
  <2>2. QED
    BY <1>k, <2>1
<1>12. CASE UNCHANGED flowVars
  BY <1>12, <1>k DEF flowVars, vars, disk, Planned
<1>13. QED
  BY <1>1, <1>2, <1>3, <1>4, <1>5, <1>6, <1>7, <1>8, <1>9, <1>10, <1>11, <1>12, FlowCases DEF FlowCase

\* Without failures and deaths, plans follow the committed specification.
LEMMA CleanStep ==
  ASSUME FlowValues, FlowIInv, [FlowNext]_flowVars
  PROVE  CleanInv'
<1>t. FlowTypeInv /\ view \in [Procs -> Images \cup {None}]
  BY DEF FlowIInv, IInv, TypeOK
<1>i. IInv
  BY DEF FlowIInv
<1>f. stage \in [Procs -> Stages] /\ plan \in [Procs -> Plans] /\ op \in [Procs -> Ops] /\ pc \in [Procs -> Labels]
  BY <1>t, <1>i DEF FlowTypeInv, IInv, TypeOK
<1>r. ReadOp.kind = "read"
  BY DEF ReadOp
<1>s. StageInv
  BY DEF FlowIInv
<1>c. CleanInv
  BY DEF FlowIInv
<1>k. ASSUME UNCHANGED <<tree, catalog, faults, birth>>,
             \A q \in Procs : Midway(q)' <=> Midway(q),
             \A q \in Procs : Planned(q)' => Planned(q) /\ plan'[q] = plan[q] /\ (Compared(q)' => Compared(q))
      PROVE  CleanInv'
  <2>1. Uninterrupted' <=> Uninterrupted
    BY <1>k DEF Uninterrupted
  <2>2. \A q \in Procs : OtherMidway(q)' <=> OtherMidway(q)
    BY <1>k DEF OtherMidway
  <2>3. SpecIsLastRevision' <=> SpecIsLastRevision
    BY <1>k DEF SpecIsLastRevision
  <2>4. \A q \in Procs : Compared(q)' => Planned(q)'
    BY DEF Compared, Planned
  <2>5. QED
    BY <1>k, <1>c, <2>1, <2>2, <2>3, <2>4 DEF CleanInv, Readable, UpToDate
<1>1. ASSUME NEW p \in Procs, Ends(p)
      PROVE  CleanInv'
  <2>1. UNCHANGED <<tree, catalog, faults, birth>> /\ \A q \in Procs : Midway(q)' <=> Midway(q)
    BY <1>1 DEF Ends, vars, disk, local, lockVars, Midway, Unwritten
  <2>2. \A q \in Procs : Planned(q)' => Planned(q) /\ plan'[q] = plan[q] /\ (Compared(q)' => Compared(q))
    BY <1>1, <1>f DEF Ends, Move, GiveUp, Planned, Compared
  <2>3. QED
    BY <1>k, <2>1, <2>2
<1>2. ASSUME NEW p \in Procs, Load(p)
      PROVE  CleanInv'
  <2>1. UNCHANGED <<tree, catalog, faults, birth>> /\ \A q \in Procs : Midway(q)' <=> Midway(q)
    BY <1>2, <1>f DEF Load, StartRead, Start, Goto, disk, lockVars, Midway, Unwritten
  <2>2. \A q \in Procs : Planned(q)' => Planned(q) /\ plan'[q] = plan[q] /\ (Compared(q)' => Compared(q))
    BY <1>2, <1>f, <1>s DEF Load, StageInv, Move, Planned, Compared
  <2>3. QED
    BY <1>k, <2>1, <2>2
<1>3. ASSUME NEW p \in Procs, ReadAuthority(p)
      PROVE  CleanInv'
  <2>1. UNCHANGED <<tree, catalog, faults, birth>> /\ \A q \in Procs : Midway(q)' <=> Midway(q)
    BY <1>3, <1>f DEF ReadAuthority, StartRead, Start, Goto, disk, lockVars, Midway, Unwritten
  <2>2. \A q \in Procs : Planned(q)' => Planned(q) /\ plan'[q] = plan[q] /\ (Compared(q)' => Compared(q))
    BY <1>3, <1>f, <1>s DEF ReadAuthority, StageInv, Move, Planned, Compared
  <2>3. QED
    BY <1>k, <2>1, <2>2
<1>4. ASSUME NEW p \in Procs, Decide(p)
      PROVE  CleanInv'
  <2>1. UNCHANGED <<tree, catalog, faults, birth>> /\ \A q \in Procs : Midway(q)' <=> Midway(q)
    BY <1>4 DEF Decide, vars, disk, local, lockVars, Midway, Unwritten
  <2>2. \A q \in Procs : Planned(q)' => Planned(q) /\ plan'[q] = plan[q] /\ (Compared(q)' => Compared(q))
    BY <1>4, <1>f DEF Decide, Move, GiveUp, Planned, Compared
  <2>3. QED
    BY <1>k, <2>1, <2>2
<1>5. ASSUME NEW p \in Procs, Checks(p)
      PROVE  CleanInv'
  <2>1. UNCHANGED <<tree, catalog, faults, birth>> /\ \A q \in Procs : Midway(q)' <=> Midway(q)
    BY <1>5 DEF Checks, vars, disk, local, lockVars, Midway, Unwritten
  <2>2. \A q \in Procs : Planned(q)' => Planned(q) /\ plan'[q] = plan[q] /\ (Compared(q)' => Compared(q))
    BY <1>5, <1>f DEF Checks, Move, GiveUp, Planned, Compared
  <2>3. QED
    BY <1>k, <2>1, <2>2
<1>6. ASSUME NEW p \in Procs, PlansNext(p)
      PROVE  CleanInv'
  <2>1. /\ UNCHANGED <<tree, catalog, faults, birth, pc, op, todo>>
        /\ \A q \in Procs \ {p} : plan'[q] = plan[q] /\ stage'[q] = stage[q]
    BY <1>6, <1>f DEF PlansNext, vars, disk, local, lockVars, Move
  <2>2. \A q \in Procs : (Midway(q)' <=> Midway(q)) /\ (OtherMidway(q)' <=> OtherMidway(q))
    BY <2>1 DEF OtherMidway, Midway, Unwritten
  <2>3. ~Midway(p)
    BY <1>6, <1>s DEF PlansNext, StageInv, Midway
  <2>4. /\ plan'[p].next = WithTask(tree.spec, plan'[p].activity)
        /\ ~Compared(p)' /\ Readable("spec")
    BY <1>6, <1>f DEF PlansNext, Plans, Compared, Move
  <2>5. Uninterrupted' <=> Uninterrupted
    BY <2>1 DEF Uninterrupted
  <2>6. ASSUME Uninterrupted, ~OtherMidway(p)
        PROVE  plan'[p].next = WithTask(catalog'.spec, plan'[p].activity)
    BY <1>c, <2>1, <2>3, <2>4, <2>6 DEF CleanInv, OtherMidway
  <2>7. SpecIsLastRevision' <=> SpecIsLastRevision
    BY <2>1 DEF SpecIsLastRevision
  <2>8. QED
    BY <1>c, <2>1, <2>2, <2>4, <2>5, <2>6, <2>7 DEF CleanInv, Readable, UpToDate, Planned, Compared
<1>7. ASSUME NEW p \in Procs, PlansCurrent(p)
      PROVE  CleanInv'
  <2>1. /\ UNCHANGED <<tree, catalog, faults, birth, pc, op, todo>>
        /\ \A q \in Procs \ {p} : plan'[q] = plan[q] /\ stage'[q] = stage[q]
    BY <1>7, <1>f DEF PlansCurrent, vars, disk, local, lockVars, Move
  <2>2. \A q \in Procs : (Midway(q)' <=> Midway(q)) /\ (OtherMidway(q)' <=> OtherMidway(q))
    BY <2>1 DEF OtherMidway, Midway, Unwritten
  <2>3. ~Midway(p)
    BY <1>7, <1>s DEF PlansCurrent, StageInv, Midway
  <2>4. /\ plan'[p].current = tree.spec /\ plan'[p].next = plan[p].next
        /\ plan'[p].activity = plan[p].activity /\ plan'[p].ledger = plan[p].ledger
        /\ Planned(p) /\ Readable("spec")
    BY <1>7, <1>f, <1>s DEF PlansCurrent, Plans, Planned, StageInv
  <2>5. Uninterrupted' <=> Uninterrupted
    BY <2>1 DEF Uninterrupted
  <2>6. ASSUME Uninterrupted, ~OtherMidway(p)
        PROVE  plan'[p].current = catalog'.spec
    BY <1>c, <2>1, <2>3, <2>4, <2>6 DEF CleanInv, OtherMidway
  <2>7. SpecIsLastRevision' <=> SpecIsLastRevision
    BY <2>1 DEF SpecIsLastRevision
  <2>8. ASSUME Uninterrupted, ~OtherMidway(p), UpToDate(p)'
        PROVE  plan'[p].next = WithTask(catalog'.spec, plan'[p].activity)
    BY <1>c, <2>1, <2>4, <2>8 DEF CleanInv, UpToDate
  <2>9. QED
    BY <1>c, <2>1, <2>2, <2>5, <2>6, <2>7, <2>8 DEF CleanInv, Readable, UpToDate, Planned, Compared
<1>8. ASSUME NEW p \in Procs, PublishNote(p)
      PROVE  CleanInv'
  <2>1. UNCHANGED <<tree, catalog, faults, birth>> /\ \A q \in Procs : Midway(q)' <=> Midway(q)
    BY <1>8, <1>f DEF PublishNote, StartRead, Start, Goto, disk, lockVars, Midway, Unwritten
  <2>2. \A q \in Procs : Planned(q)' => Planned(q) /\ plan'[q] = plan[q] /\ (Compared(q)' => Compared(q))
    BY <1>8, <1>f, <1>s DEF PublishNote, StageInv, Move, Planned, Compared
  <2>3. QED
    BY <1>k, <2>1, <2>2
<1>9. ASSUME NEW p \in Procs, PublishTask(p)
      PROVE  CleanInv'
  <2>1. UNCHANGED <<tree, catalog, faults, birth>> /\ \A q \in Procs : Midway(q)' <=> Midway(q)
    BY <1>9, <1>f DEF PublishTask, StartRead, Start, Goto, disk, lockVars, Midway, Unwritten
  <2>2. \A q \in Procs : Planned(q)' => Planned(q) /\ plan'[q] = plan[q] /\ (Compared(q)' => Compared(q))
    BY <1>9, <1>f, <1>s DEF PublishTask, StageInv, Move, Planned, Compared
  <2>3. QED
    BY <1>k, <2>1, <2>2
<1>10. ASSUME NEW p \in Procs, InStore(p)
      PROVE  CleanInv'
  <2> SUFFICES ASSUME Uninterrupted'
               PROVE  CleanInv'
    BY DEF CleanInv
  <2>1. /\ UNCHANGED <<stage, plan, birth>> /\ faults' = 0 /\ faults = 0
        /\ \A q \in Procs \ {p} : pc'[q] = pc[q] /\ op'[q] = op[q] /\ todo'[q] = todo[q]
    BY <1>10 DEF InStore, CallStep, OwnStep, Uninterrupted
  <2>2. Uninterrupted
    BY <2>1 DEF Uninterrupted
  <2>3. /\ SpecIsLastRevision
        /\ Readable("spec") => tree.spec = catalog.spec \/ \E q \in Procs : Midway(q)
        /\ \A q \in Procs : UpToDate(q) /\ ~OtherMidway(q) =>
             /\ Planned(q) => plan[q].next = WithTask(catalog.spec, plan[q].activity)
             /\ Compared(q) => plan[q].current = catalog.spec
    BY <1>c, <2>2 DEF CleanInv
  <2>4. \A q \in Procs \ {p} : Midway(q)' <=> Midway(q)
    BY <2>1 DEF Midway, Unwritten
  <2>5. \A q \in Procs : (Planned(q)' <=> Planned(q)) /\ (Compared(q)' <=> Compared(q))
    BY <2>1 DEF Planned, Compared
  <2>6. ASSUME UNCHANGED catalog, Midway(p) => Midway(p)',
               Readable("spec")' => tree'.spec \in {tree.spec, catalog.spec} \/ Midway(p)'
        PROVE  CleanInv'
    <3>1. \A q \in Procs : Midway(q) => Midway(q)'
      BY <2>4, <2>6
    <3>2. \A q \in Procs : OtherMidway(q) => OtherMidway(q)'
      BY <3>1 DEF OtherMidway
    <3>3. Readable("spec")' => tree'.spec = catalog'.spec \/ \E q \in Procs : Midway(q)'
      <4>1. ASSUME Readable("spec")', tree'.spec = tree.spec
            PROVE  Readable("spec")
        BY <4>1 DEF Readable
      <4>2. QED
        BY <2>3, <2>6, <3>1, <4>1
    <3>4. SpecIsLastRevision'
      BY <2>3, <2>6 DEF SpecIsLastRevision
    <3>5. QED
      BY <2>1, <2>3, <2>5, <2>6, <3>2, <3>3, <3>4 DEF CleanInv, UpToDate
  <2>7. CASE SpecKept(p)
    BY <2>1, <2>6, <2>7 DEF SpecKept, Readable
  <2>8. CASE SpecWritten(p)
    BY <2>6, <2>8 DEF SpecWritten
  <2>9. CASE Commits(p)
    <3>1. UNCHANGED tree /\ catalog' = tree /\ pc[p] = "save"
      BY <2>9 DEF Commits
    <3>2. \A q \in Procs : ~UpToDate(q)'
      BY <2>1, <2>9, CommitOutdates
    <3>3. ~OtherMidway(p)
      <4>1. pc[p] \in Locked /\ \A q \in Procs : Midway(q) => pc[q] \in Locked
        BY <3>1 DEF Locked, Labels, Midway
      <4>2. QED
        BY <1>i, <4>1, Alone DEF OtherMidway, IInv
    <3>4. /\ stage[p] = "publish" /\ UpToDate(p)
          /\ catalog'.spec = IF plan[p].activity # Note THEN plan[p].next ELSE catalog.spec
          /\ catalog'.revisions = IF plan[p].activity # Note /\ ~Unchanged(p)
                                    THEN Append(catalog.revisions, plan[p].next) ELSE catalog.revisions
      BY <3>1, CommitWrites
    <3>5. /\ catalog.revisions \in Histories /\ plan[p].next \in Specs
          /\ Len(catalog.revisions) > 0 /\ catalog.spec = Last(catalog.revisions)
      BY <1>t, <2>3, LedgerOfPlan DEF FlowTypeInv, Committed, SpecIsLastRevision, RevisionAuthority
    <3>6. CASE plan[p].activity # Note /\ ~Unchanged(p)
      <4>1. catalog'.revisions = Append(catalog.revisions, plan[p].next) /\ catalog'.spec = plan[p].next
        BY <3>4, <3>6
      <4>2. Len(catalog'.revisions) = Len(catalog.revisions) + 1 /\ Last(catalog'.revisions) = plan[p].next
        BY <3>5, <4>1, AppendGrows DEF Histories
      <4>3. Len(catalog.revisions) \in Nat
        BY <3>5 DEF Histories
      <4>4. QED
        BY <3>1, <3>2, <3>5, <4>1, <4>2, <4>3 DEF CleanInv, SpecIsLastRevision, RevisionAuthority
    <3>7. CASE plan[p].activity # Note /\ Unchanged(p)
      <4>1. plan[p].current = catalog.spec
        BY <2>3, <3>3, <3>4, <3>7 DEF Compared
      <4>2. catalog'.spec = catalog.spec /\ catalog'.revisions = catalog.revisions
        BY <3>4, <3>7, <4>1 DEF Unchanged
      <4>3. QED
        BY <3>1, <3>2, <3>5, <4>2 DEF CleanInv, SpecIsLastRevision, RevisionAuthority
    <3>8. CASE plan[p].activity = Note
      BY <3>1, <3>2, <3>4, <3>5, <3>8 DEF CleanInv, SpecIsLastRevision, RevisionAuthority
    <3>9. QED
      BY <3>6, <3>7, <3>8
  <2>10. QED
    BY <1>10, <2>7, <2>8, <2>9 DEF InStore
<1>11. ASSUME NEW p \in Procs, FlowCrash(p)
      PROVE  CleanInv'
  <2>1. birth'[p] # 0
    BY <1>11, <1>i DEF FlowCrash, Crash, Lock!Die, IInv, TypeOK
  <2>2. QED
    BY <2>1 DEF CleanInv, Uninterrupted
<1>12. CASE UNCHANGED flowVars
  <2>1. UNCHANGED <<tree, catalog, faults, birth>> /\ \A q \in Procs : Midway(q)' <=> Midway(q)
    BY <1>12 DEF flowVars, vars, disk, local, lockVars, Midway, Unwritten
  <2>2. \A q \in Procs : Planned(q)' => Planned(q) /\ plan'[q] = plan[q] /\ (Compared(q)' => Compared(q))
    BY <1>12 DEF flowVars, Planned, Compared
  <2>3. QED
    BY <1>k, <2>1, <2>2
<1>13. QED
  BY <1>1, <1>2, <1>3, <1>4, <1>5, <1>6, <1>7, <1>8, <1>9, <1>10, <1>11, <1>12, FlowCases DEF FlowCase

-----------------------------------------------------------------------------
(* The theorems.                                                           *)

\* The inductive invariant holds at the start ...
LEMMA FlowInvInit ==
  ASSUME FlowValues, FlowInit
  PROVE  FlowIInv
<1> DEFINE t == [activities |-> <<>>, flow |-> <<>>, spec |-> <<>>, revisions |-> <<<<>>>>]
<1>1. <<>> \in Ledgers /\ <<>> \in Specs /\ <<<<>>>> \in Histories
  BY DEF Ledgers, Specs, Histories
<1>2. InitWith(t)
  BY DEF FlowInit
<1>3. t \in Images
  BY <1>1, FilesOfFlow DEF FlowValues, Images
<1>4. IInv
  BY <1>2, <1>3, InvInit
<1>5. /\ tree = t /\ catalog = t /\ op = [p \in Procs |-> ReadOp] /\ view = [p \in Procs |-> None]
      /\ pc = [p \in Procs |-> "idle"]
  BY <1>2 DEF InitWith
<1>6. stage = [p \in Procs |-> "start"] /\ plan = [p \in Procs |-> NoPlan]
  BY DEF FlowInit
<1>7. NoPlan \in Plans
  BY <1>1 DEF NoPlan, Plans
<1>8. FlowTypeInv
  BY <1>1, <1>5, <1>6, <1>7 DEF FlowTypeInv, Committed, Stages
<1>9. StageInv /\ PublishInv
  BY <1>5, <1>6 DEF StageInv, PublishInv, ReadOp
<1>10. GrowthInv
  <2>1. catalog.activities = <<>> /\ Len(<<>>) = 0
    BY <1>5
  <2>2. \A p \in Procs : plan[p].ledger = <<>> /\ view[p] = None
    BY <1>5, <1>6 DEF NoPlan
  <2>3. Len(catalog.activities) = 0 /\ \A p \in Procs : Len(plan[p].ledger) = 0
    BY <2>1, <2>2
  <2>4. \A p \in Procs : Len(plan[p].ledger) <= Len(catalog.activities)
    <3>1. 0 <= 0
      OBVIOUS
    <3>2. QED
      BY <2>3, <3>1, Zenon
  <2>5. QED
    BY <2>2, <2>4, Zenon DEF GrowthInv
<1>11. TasksInv
  BY <1>5, <1>6 DEF TasksInv, Covers, Planned, AdmittedTasksSpecified
<1>12. SpecIsLastRevision
  <2>1. Len(<<<<>>>>) = 1 /\ <<<<>>>>[1] = <<>>
    OBVIOUS
  <2>2. catalog.revisions = <<<<>>>> /\ catalog.spec = <<>>
    BY <1>5
  <2>3. QED
    BY <2>1, <2>2 DEF SpecIsLastRevision, RevisionAuthority, Last
<1>13. CleanInv
  BY <1>5, <1>6, <1>12 DEF CleanInv, Planned, Compared
<1>14. QED
  BY <1>4, <1>8, <1>9, <1>10, <1>11, <1>13 DEF FlowIInv

\* ... and every step keeps it.
LEMMA FlowInvStep ==
  ASSUME FlowValues, FlowIInv, [FlowNext]_flowVars
  PROVE  FlowIInv'
  BY FlowCases, FlowTypeStep, StageStep, PublishStep, GrowthStep, TasksStep, CleanStep DEF FlowIInv

LEMMA FlowInvariant ==
  ASSUME FlowValues
  PROVE  FlowSpec => []FlowIInv
<1>1. FlowInit => FlowIInv
  BY FlowInvInit
<1>2. FlowIInv /\ [FlowNext]_flowVars => FlowIInv'
  BY FlowInvStep
<1>3. QED
  BY <1>1, <1>2, PTL DEF FlowSpec

\* Stages, plans and committed versions keep their types, although commands plan on
\* files that are read without the lock.
THEOREM FlowTypeCorrect ==
  ASSUME FlowValues
  PROVE  FlowSpec => []FlowTypeOK
<1>1. FlowIInv => FlowTypeOK
  BY DEF FlowIInv, FlowTypeInv, FlowTypeOK, Plans, Committed, Ledgers, Specs, Histories
<1>2. QED
  BY <1>1, FlowInvariant, PTL

\* apply() and withTask: no Task of the ledger is missing in the specification, for any
\* number of concurrent commands, failures and deaths.
THEOREM AdmittedTasksSpecifiedHolds ==
  ASSUME FlowValues
  PROVE  FlowSpec => []AdmittedTasksSpecified
<1>1. FlowIInv => AdmittedTasksSpecified
  BY DEF FlowIInv, TasksInv
<1>2. QED
  BY <1>1, FlowInvariant, PTL

\* #specRevisionWrites: without a failure or a death, the committed specification is its
\* last snapshot, however commands interleave.
THEOREM UninterruptedSpecIsLastRevisionHolds ==
  ASSUME FlowValues
  PROVE  FlowSpec => []UninterruptedSpecIsLastRevision
<1>1. FlowIInv => UninterruptedSpecIsLastRevision
  BY DEF FlowIInv, CleanInv, Uninterrupted, UninterruptedSpecIsLastRevision
<1>2. QED
  BY <1>1, FlowInvariant, PTL

\* What a step does to the committed history.
LEMMA HistoryStep ==
  ASSUME FlowValues, FlowIInv, [FlowNext]_flowVars
  PROVE  catalog' = catalog \/ (/\ IsPrefix(catalog.activities, catalog'.activities)
                               /\ IsPrefix(catalog.revisions, catalog'.revisions))
<1> DEFINE Grown == /\ IsPrefix(catalog.activities, catalog'.activities)
                    /\ IsPrefix(catalog.revisions, catalog'.revisions)
<1>1. CASE UNCHANGED flowVars
  BY <1>1 DEF flowVars, vars, disk
<1>2. ASSUME NEW p \in Procs, FlowCase(p)
      PROVE  UNCHANGED catalog \/ Commits(p)
  BY <1>2 DEF FlowCase, Ends, Load, ReadAuthority, Decide, Checks, PlansNext, PlansCurrent, PublishNote,
     PublishTask, InStore, FlowCrash, Crash, StartRead, Start, SpecKept, SpecWritten, vars, disk
<1>3. ASSUME NEW p \in Procs, Commits(p)
      PROVE  Grown
  <2>1. /\ catalog'.activities = Append(catalog.activities, plan[p].activity)
        /\ catalog'.revisions \in {catalog.revisions, Append(catalog.revisions, plan[p].next)}
    BY <1>3, CommitWrites DEF Commits
  <2>2. /\ catalog.activities \in Ledgers /\ catalog.revisions \in Histories
        /\ plan[p].activity \in Tasks \cup {Note} /\ plan[p].next \in Specs
    BY LedgerOfPlan DEF FlowIInv, FlowTypeInv, Committed
  <2>3. IsPrefix(catalog.activities, Append(catalog.activities, plan[p].activity))
    BY <2>2, AppendGrows DEF Ledgers
  <2>4. /\ IsPrefix(catalog.revisions, Append(catalog.revisions, plan[p].next))
        /\ IsPrefix(catalog.revisions, catalog.revisions)
    BY <2>2, AppendGrows DEF Histories
  <2>5. QED
    BY <2>1, <2>3, <2>4
<1>4. QED
  BY <1>1, <1>2, <1>3, FlowCases

\* apply(): no publication rewrites an Activity or a snapshot that is committed.
THEOREM HistoryOnlyGrowsHolds ==
  ASSUME FlowValues
  PROVE  FlowSpec => HistoryOnlyGrows
<1>1. FlowIInv /\ [FlowNext]_flowVars =>
        [/\ IsPrefix(catalog.activities, catalog'.activities)
         /\ IsPrefix(catalog.revisions, catalog'.revisions)]_catalog
  BY HistoryStep
<1>2. QED
  BY <1>1, FlowInvariant, PTL DEF FlowSpec, HistoryOnlyGrows

\* The composition: the commands of a flow use the store as VersionTree promises it,
\* each of their publications atomic and truthfully answered. Every one of them appends to
\* the ledger, so that none republishes what is there; FlowSpec does not use Republish,
\* which is a choice of the store's own clients.
THEOREM FlowImplementsVersionTree ==
  ASSUME FlowValues, ~Republish
  PROVE  FlowSpec => ImplementsVersionTree
<1>1. FlowInit => Version!VersionInit
  BY DEF FlowInit, InitWith, Version!VersionInit, statusBar, answerBar
<1>2. FlowIInv /\ FlowIInv' /\ [FlowNext]_flowVars => [Version!VersionNext]_Version!versionVars
  BY FlowStepsStore, StepRefines DEF FlowIInv
<1>3. QED
  BY <1>1, <1>2, FlowInvariant, PTL DEF FlowSpec, ImplementsVersionTree, Version!VersionSpec
=============================================================================
