---------------------------- MODULE CatalogStore ----------------------------
(***************************************************************************)
(* FlowArtifactCatalogStore of src/lib/flow-version.js: publication of the *)
(* artifacts of a flow version as a transaction over several files.        *)
(*                                                                         *)
(* The catalog names every artifact of the version with its hash. Each     *)
(* access takes the catalog lock and first settles the transaction that a  *)
(* dead or failing process may have left: its journal holds the hash of    *)
(* the catalog before it, the hash of the catalog it was about to write,   *)
(* and an image of the whole tree. The replacement of the catalog file is  *)
(* the commit point. After it the tree is kept, before it the image is     *)
(* restored: all files are unlinked and written again, file by file.       *)
(*                                                                         *)
(* A hash determines the content it was taken of, so the catalog is        *)
(* modelled by the tree it describes. The lock is an instance of           *)
(* LockService; waiting for it is FileLock's.                              *)
(***************************************************************************)
EXTENDS Naturals

CONSTANTS
  Procs,      \* process slots
  None,       \* null
  Files,      \* paths that the catalog manages
  Values,     \* what a complete file may hold
  Missing,    \* the content of a file that is not there
  Torn,       \* the content of a partly written file
  Ledger,     \* the file activities.jsonl
  Appends,    \* <<v, w>>: ledger content w is v with another Activity
  Rank,       \* write functions write the files in ascending rank
  Republish,  \* whether a publication without an Activity may change nothing
  MaxFaults,  \* bound: failing system calls
  MaxBirth    \* bound: births per slot

Contents == Values \cup {Missing, Torn}
Trees == [Files -> Contents]
Images == [Files -> Values \cup {Missing}]
Partial == UNION {[S -> Values \cup {Missing}] : S \in SUBSET Files}

ASSUME CatalogAssumption ==
  /\ Missing # Torn
  /\ Missing \notin Values
  /\ Torn \notin Values
  /\ None \notin Trees
  /\ None \notin [proc : Procs, birth : Nat, token : Nat]
  /\ None \notin [baseline : Images, target : Images \cup {None}, image : Images]
  /\ Ledger \in Files
  /\ Appends \subseteq {a \in Values \X Values : a[1] # a[2]}
  /\ Rank \in [Files -> Nat]
  /\ Republish \in BOOLEAN
  /\ MaxFaults \in Nat
  /\ MaxBirth \in Nat

VARIABLES
  holder,   \* the owner that the catalog lock names, or None
  birth,    \* which birth of the slot is running
  tree,     \* the managed files of the version directory
  catalog,  \* the tree that artifact-catalog.json describes
  journal,  \* catalog-transaction.json, or None
  pc,       \* what the process does next
  op,       \* the operation it was called for
  todo,     \* files its write function has not written yet
  image,    \* its VersionTreeSnapshot, or None
  active,   \* ACTIVE_VERSION_TRANSACTIONS of the process has this version
  view,     \* the tree it has read for its next operation, or None
  outcome,  \* how its operation ends, or has ended
  faults    \* failing system calls so far

lockVars == <<holder, birth>>
disk == <<tree, catalog, journal>>
local == <<op, todo, image, active, view>>
vars == <<lockVars, disk, pc, local, outcome, faults>>

Lock == INSTANCE LockService

Labels == {"idle", "acquire", "recover", "retire", "operate", "write", "save",
           "finish", "unlink", "rewrite", "unwind", "release"}
Outcomes == {"none", "ok", "uncertain", "failed", "rejected", "busy"}
Owners == [proc : Procs, birth : Nat, token : Nat]

\* An operation: a read, or a publication with the files it writes (Missing
\* removes one), the catalog it was planned on (expects, checked by its
\* precondition) and the files its write function insists on (requires).
NoFiles == [f \in {} |-> Missing]
ReadOp == [kind |-> "read", writes |-> NoFiles, expects |-> NoFiles, requires |-> NoFiles]
Publication(w, e, r) == [kind |-> "publish", writes |-> w, expects |-> e, requires |-> r]
Ops == [kind : {"read", "publish"}, writes : Partial, expects : Partial, requires : Partial]

TypeOK ==
  /\ holder \in Owners \cup {None}
  /\ birth \in [Procs -> Nat]
  /\ tree \in Trees
  /\ catalog \in Images
  /\ journal \in [baseline : Images, target : Images \cup {None}, image : Images] \cup {None}
  /\ pc \in [Procs -> Labels]
  /\ op \in [Procs -> Ops]
  /\ todo \in [Procs -> SUBSET Files]
  /\ image \in [Procs -> Images \cup {None}]
  /\ active \in [Procs -> BOOLEAN]
  /\ view \in [Procs -> Images \cup {None}]
  /\ outcome \in [Procs -> Outcomes]
  /\ faults \in Nat

\* A version that has been created: its catalog describes its files.
InitWith(t) ==
  /\ Lock!LockInit
  /\ tree = t
  /\ catalog = t
  /\ journal = None
  /\ pc = [p \in Procs |-> "idle"]
  /\ op = [p \in Procs |-> ReadOp]
  /\ todo = [p \in Procs |-> {}]
  /\ image = [p \in Procs |-> None]
  /\ active = [p \in Procs |-> FALSE]
  /\ view = [p \in Procs |-> None]
  /\ outcome = [p \in Procs |-> "none"]
  /\ faults = 0

Init == \E t \in [Files -> Values] : InitWith(t)

-----------------------------------------------------------------------------
NewOwner(p) == [proc |-> p, birth |-> birth[p], token |-> 0]
Goto(p, label) == pc' = [pc EXCEPT ![p] = label]

\* The operation returns or throws; what is left to do is to release the lock.
Leave(p, r) ==
  /\ Goto(p, "release")
  /\ outcome' = [outcome EXCEPT ![p] = r]

\* The call is over, and with it its local variables.
Return(p) ==
  /\ Goto(p, "idle")
  /\ op' = [op EXCEPT ![p] = ReadOp]
  /\ todo' = [todo EXCEPT ![p] = {}]
  /\ image' = [image EXCEPT ![p] = None]

Fault == faults < MaxFaults /\ faults' = faults + 1

Agrees(t, part) == \A f \in DOMAIN part : t[f] = part[f]

-----------------------------------------------------------------------------
(* The calls, and the lock around them.                                    *)

Start(p, o) ==
  /\ pc[p] = "idle"
  /\ op' = [op EXCEPT ![p] = o]
  /\ outcome' = [outcome EXCEPT ![p] = "none"]
  /\ view' = [view EXCEPT ![p] = None]
  /\ Goto(p, "acquire")
  /\ UNCHANGED <<lockVars, disk, todo, image, active, faults>>

\* load(), require(), read().
StartRead(p) == Start(p, ReadOp)

\* A publication of an Activity: the caller has read the version and appends
\* the next Activity, which the write function refuses when the ledger is no
\* longer the one that was read. Other files come with it; the precondition
\* may compare the catalog with the one that was read.
StartActivity(p) ==
  /\ view[p] # None
  /\ \E S \in SUBSET (Files \ {Ledger}), after \in Values :
       /\ <<view[p][Ledger], after>> \in Appends
       /\ \E w \in [S \cup {Ledger} -> Values \cup {Missing}], expected \in {NoFiles, view[p]} :
            /\ w[Ledger] = after
            /\ Start(p, Publication(w, expected, [f \in {Ledger} |-> view[p][Ledger]]))

\* A publication or removal of other artifacts on their own.
StartPlain(p) ==
  \E S \in SUBSET (Files \ {Ledger}), expected \in {NoFiles, view[p]} \ {None} :
    \E w \in [S -> Values \cup {Missing}] :
      /\ S # {}
      /\ Republish \/ (expected = view[p] /\ ~Agrees(expected, w))
      /\ Start(p, Publication(w, expected, NoFiles))

\* #withPublicationLock.
AcquireReclaim(p) ==
  /\ pc[p] = "acquire"
  /\ Lock!Reclaim
  /\ UNCHANGED <<disk, pc, local, outcome, faults>>

AcquireTake(p) ==
  /\ pc[p] = "acquire"
  /\ Lock!TakeAs(NewOwner(p))
  /\ Goto(p, "recover")
  /\ UNCHANGED <<disk, local, outcome, faults>>

\* FileLock gives up: the owner lives, and is this process or stays too long.
AcquireBusy(p) ==
  /\ pc[p] = "acquire"
  /\ holder # None
  /\ Lock!Live(holder)
  /\ Return(p)
  /\ outcome' = [outcome EXCEPT ![p] = "busy"]
  /\ UNCHANGED <<lockVars, disk, active, view, faults>>

Release(p) ==
  /\ pc[p] = "release"
  /\ Lock!Drop(p)
  /\ Return(p)
  /\ UNCHANGED <<disk, active, view, outcome, faults>>

\* The release throws, before or after the lock file is gone; a result is
\* replaced by that error.
ReleaseFails(p) ==
  /\ pc[p] = "release"
  /\ Fault
  /\ UNCHANGED lockVars \/ Lock!Drop(p)
  /\ Return(p)
  /\ outcome' = [outcome EXCEPT ![p] = IF @ = "ok" THEN "uncertain" ELSE @]
  /\ UNCHANGED <<disk, active, view>>

-----------------------------------------------------------------------------
(* #recoverTransaction, before every operation.                            *)

\* The process-local mark of an earlier transaction is still set.
RecoverNested(p) ==
  /\ pc[p] = "recover"
  /\ active[p]
  /\ Leave(p, "failed")
  /\ UNCHANGED <<lockVars, disk, local, faults>>

RecoverNothing(p) ==
  /\ pc[p] = "recover"
  /\ ~active[p]
  /\ journal = None
  /\ Goto(p, "operate")
  /\ UNCHANGED <<lockVars, disk, local, outcome, faults>>

\* The visible catalog is the one the transaction was to write.
JournalCommitted == journal.target # None /\ catalog = journal.target

RecoverCommitted(p) ==
  /\ pc[p] = "recover"
  /\ ~active[p]
  /\ journal # None
  /\ JournalCommitted
  /\ IF tree = catalog
       THEN Goto(p, "retire") /\ UNCHANGED outcome
       ELSE Leave(p, "failed")
  /\ UNCHANGED <<lockVars, disk, local, faults>>

RecoverUncommitted(p) ==
  /\ pc[p] = "recover"
  /\ ~active[p]
  /\ journal # None
  /\ ~JournalCommitted
  /\ IF catalog = journal.baseline
       THEN Goto(p, "unlink") /\ UNCHANGED outcome
       ELSE Leave(p, "failed")
  /\ UNCHANGED <<lockVars, disk, local, faults>>

\* The settled journal is removed; removing may fail before or after unlink.
Retire(p) ==
  /\ pc[p] = "retire"
  /\ journal' = None
  /\ Goto(p, "operate")
  /\ UNCHANGED <<lockVars, tree, catalog, local, outcome, faults>>

RetireFails(p) ==
  /\ pc[p] = "retire"
  /\ Fault
  /\ journal' \in {journal, None}
  /\ Leave(p, "failed")
  /\ UNCHANGED <<lockVars, tree, catalog, local>>

-----------------------------------------------------------------------------
(* VersionTreeSnapshot.restore: during recovery from the image in the      *)
(* journal, during a rollback from the image in memory.                    *)

ImageOf(p) == IF active[p] THEN image[p] ELSE journal.image

RestoreUnlink(p) ==
  /\ pc[p] = "unlink"
  /\ \E f \in Files :
       /\ tree[f] # Missing
       /\ tree' = [tree EXCEPT ![f] = Missing]
  /\ UNCHANGED <<lockVars, catalog, journal, pc, local, outcome, faults>>

RestoreUnlinked(p) ==
  /\ pc[p] = "unlink"
  /\ \A f \in Files : tree[f] = Missing
  /\ Goto(p, "rewrite")
  /\ UNCHANGED <<lockVars, disk, local, outcome, faults>>

\* writeFileSync is not atomic: the file is first there with part of it.
RestoreWrite(p) ==
  /\ pc[p] = "rewrite"
  /\ \E f \in Files :
       /\ tree[f] # ImageOf(p)[f]
       /\ tree' = [tree EXCEPT ![f] = IF @ = Missing THEN Torn ELSE ImageOf(p)[f]]
  /\ UNCHANGED <<lockVars, catalog, journal, pc, local, outcome, faults>>

RestoreDone(p) ==
  /\ pc[p] = "rewrite"
  /\ tree = ImageOf(p)
  /\ Goto(p, IF active[p] THEN "unwind" ELSE "retire")
  /\ UNCHANGED <<lockVars, disk, local, outcome, faults>>

\* Mutant: the journal is removed with the abandoned transaction.
RestoreFailsForgetting(p) ==
  /\ pc[p] \in {"unlink", "rewrite"}
  /\ Fault
  /\ active' = [active EXCEPT ![p] = FALSE]
  /\ journal' = None
  /\ Leave(p, "failed")
  /\ UNCHANGED <<lockVars, tree, catalog, op, todo, image, view>>

\* A rollback that fails abandons its transaction, the journal stays.
RestoreFails(p) ==
  /\ pc[p] \in {"unlink", "rewrite"}
  /\ Fault
  /\ active' = [active EXCEPT ![p] = FALSE]
  /\ Leave(p, "failed")
  /\ UNCHANGED <<lockVars, disk, op, todo, image, view>>

-----------------------------------------------------------------------------
(* The operation under the lock.                                           *)

\* #requireUnlocked verifies the files against the catalog; then read().
Read(p) ==
  /\ pc[p] = "operate"
  /\ op[p].kind = "read"
  /\ IF tree = catalog
       THEN view' = [view EXCEPT ![p] = tree] /\ Leave(p, "ok")
       ELSE UNCHANGED view /\ Leave(p, "failed")
  /\ UNCHANGED <<lockVars, disk, op, todo, image, active, faults>>

\* The checks of #publishMany and #unpublish: the precondition holds, and what
\* is to be removed exists.
Admitted(p) ==
  /\ tree = catalog
  /\ Agrees(catalog, op[p].expects)
  /\ \A f \in DOMAIN op[p].writes : op[p].writes[f] = Missing => catalog[f] # Missing

PublishRejected(p) ==
  /\ pc[p] = "operate"
  /\ op[p].kind = "publish"
  /\ ~Admitted(p)
  /\ Leave(p, "rejected")
  /\ UNCHANGED <<lockVars, disk, local, faults>>

\* #beginTransaction.
NewJournal == [baseline |-> catalog, target |-> None, image |-> tree]

BeginTransaction(p) ==
  /\ pc[p] = "operate"
  /\ op[p].kind = "publish"
  /\ Admitted(p)
  /\ image' = [image EXCEPT ![p] = tree]
  /\ active' = [active EXCEPT ![p] = TRUE]
  /\ journal' = NewJournal
  /\ todo' = [todo EXCEPT ![p] = DOMAIN op[p].writes]
  /\ Goto(p, "write")
  /\ UNCHANGED <<lockVars, tree, catalog, op, view, outcome, faults>>

BeginFails(p) ==
  /\ pc[p] = "operate"
  /\ op[p].kind = "publish"
  /\ Admitted(p)
  /\ Fault
  /\ journal' \in {NewJournal, None}
  /\ Leave(p, "failed")
  /\ UNCHANGED <<lockVars, tree, catalog, local>>

\* The write function of the caller, one file after the other. It starts only
\* on the files it insists on. An appended line is not atomic either.
Unwritten(p) == todo[p] = DOMAIN op[p].writes
NextToWrite(p) ==
  {f \in todo[p] : /\ \A g \in todo[p] : Rank[f] <= Rank[g]
                   /\ Unwritten(p) => Agrees(tree, op[p].requires)}

WriteFile(p) ==
  /\ pc[p] = "write"
  /\ \E f \in NextToWrite(p) :
       /\ tree' = [tree EXCEPT ![f] = op[p].writes[f]]
       /\ todo' = [todo EXCEPT ![p] = @ \ {f}]
  /\ UNCHANGED <<lockVars, catalog, journal, pc, op, image, active, view, outcome, faults>>

\* Mutant: a partial write goes unnoticed.
WriteTearsUnnoticed(p) ==
  /\ pc[p] = "write"
  /\ \E f \in NextToWrite(p) :
       /\ op[p].writes[f] # Missing
       /\ tree' = [tree EXCEPT ![f] = Torn]
       /\ todo' = [todo EXCEPT ![p] = @ \ {f}]
  /\ Fault
  /\ UNCHANGED <<lockVars, catalog, journal, pc, op, image, active, view, outcome>>

WriteTears(p) ==
  /\ pc[p] = "write"
  /\ \E f \in NextToWrite(p) :
       /\ op[p].writes[f] # Missing
       /\ tree' = [tree EXCEPT ![f] = Torn]
  /\ Fault
  /\ Goto(p, "unlink")
  /\ outcome' = [outcome EXCEPT ![p] = "failed"]
  /\ UNCHANGED <<lockVars, catalog, journal, local>>

\* The write function, or the validation of what it has written, throws.
WriteFails(p) ==
  /\ pc[p] = "write"
  /\ \/ Unwritten(p) /\ ~Agrees(tree, op[p].requires) /\ UNCHANGED faults
     \/ Fault
  /\ Goto(p, "unlink")
  /\ outcome' = [outcome EXCEPT ![p] = "failed"]
  /\ UNCHANGED <<lockVars, disk, local>>

\* The new catalog is built from the declared files, prepare() notes it.
NewCatalog(p) == [f \in Files |-> IF f \in DOMAIN op[p].writes THEN tree[f] ELSE catalog[f]]

Prepare(p) ==
  /\ pc[p] = "write"
  /\ todo[p] = {}
  /\ journal' = [journal EXCEPT !.target = NewCatalog(p)]
  /\ Goto(p, "save")
  /\ UNCHANGED <<lockVars, tree, catalog, local, outcome, faults>>

\* prepare() throws after its file was replaced.
PrepareFails(p) ==
  /\ pc[p] = "write"
  /\ todo[p] = {}
  /\ Fault
  /\ journal' = [journal EXCEPT !.target = NewCatalog(p)]
  /\ Goto(p, "unlink")
  /\ outcome' = [outcome EXCEPT ![p] = "failed"]
  /\ UNCHANGED <<lockVars, tree, catalog, local>>

\* #saveUnlocked: the commit point.
Save(p) ==
  /\ pc[p] = "save"
  /\ catalog' = journal.target
  /\ Goto(p, "finish")
  /\ UNCHANGED <<lockVars, tree, journal, local, outcome, faults>>

\* It throws before the rename: rollback. Or after it: the transaction has
\* committed, its journal is left for the next access.
SaveFails(p) ==
  /\ pc[p] = "save"
  /\ Fault
  /\ Goto(p, "unlink")
  /\ outcome' = [outcome EXCEPT ![p] = "failed"]
  /\ UNCHANGED <<lockVars, disk, local>>

\* Mutant: an error after the rename is taken for a failed save.
SaveUncertainAsFailed(p) ==
  /\ pc[p] = "save"
  /\ Fault
  /\ catalog' = journal.target
  /\ Goto(p, "unlink")
  /\ outcome' = [outcome EXCEPT ![p] = "failed"]
  /\ UNCHANGED <<lockVars, tree, journal, local>>

SaveUncertain(p) ==
  /\ pc[p] = "save"
  /\ Fault
  /\ catalog' = journal.target
  /\ active' = [active EXCEPT ![p] = FALSE]
  /\ Leave(p, "uncertain")
  /\ UNCHANGED <<lockVars, tree, journal, op, todo, image, view>>

\* finish() after the commit.
Finish(p) ==
  /\ pc[p] = "finish"
  /\ journal' = None
  /\ active' = [active EXCEPT ![p] = FALSE]
  /\ Leave(p, "ok")
  /\ UNCHANGED <<lockVars, tree, catalog, op, todo, image, view, faults>>

FinishFails(p) ==
  /\ pc[p] = "finish"
  /\ Fault
  /\ journal' \in {journal, None}
  /\ active' = [active EXCEPT ![p] = FALSE]
  /\ Leave(p, "uncertain")
  /\ UNCHANGED <<lockVars, tree, catalog, op, todo, image, view>>

\* finish() after a rollback. When it throws the mark of the process stays.
Unwind(p) ==
  /\ pc[p] = "unwind"
  /\ journal' = None
  /\ active' = [active EXCEPT ![p] = FALSE]
  /\ Leave(p, "failed")
  /\ UNCHANGED <<lockVars, tree, catalog, op, todo, image, view, faults>>

UnwindFails(p) ==
  /\ pc[p] = "unwind"
  /\ Fault
  /\ journal' \in {journal, None}
  /\ Leave(p, "failed")
  /\ UNCHANGED <<lockVars, tree, catalog, local>>

Crash(p) ==
  /\ birth[p] < MaxBirth
  /\ Lock!Die(p)
  /\ Return(p)
  /\ active' = [active EXCEPT ![p] = FALSE]
  /\ view' = [view EXCEPT ![p] = None]
  /\ outcome' = [outcome EXCEPT ![p] = "none"]
  /\ UNCHANGED <<disk, faults>>

\* What a process does inside a call.
Step(p) ==
  \/ AcquireReclaim(p) \/ AcquireTake(p) \/ AcquireBusy(p) \/ Release(p) \/ ReleaseFails(p)
  \/ RecoverNested(p) \/ RecoverNothing(p) \/ RecoverCommitted(p) \/ RecoverUncommitted(p)
  \/ Retire(p) \/ RetireFails(p)
  \/ RestoreUnlink(p) \/ RestoreUnlinked(p) \/ RestoreWrite(p) \/ RestoreDone(p) \/ RestoreFails(p)
  \/ Read(p) \/ PublishRejected(p) \/ BeginTransaction(p) \/ BeginFails(p)
  \/ WriteFile(p) \/ WriteTears(p) \/ WriteFails(p)
  \/ Prepare(p) \/ PrepareFails(p) \/ Save(p) \/ SaveFails(p) \/ SaveUncertain(p)
  \/ Finish(p) \/ FinishFails(p) \/ Unwind(p) \/ UnwindFails(p)

Next == \E p \in Procs : StartRead(p) \/ StartActivity(p) \/ StartPlain(p) \/ Step(p) \/ Crash(p)

Spec == Init /\ [][Next]_vars

-----------------------------------------------------------------------------
(* Properties.                                                             *)

\* The tree that the next process to take the lock will work on.
Settled ==
  IF journal = None \/ (journal # None /\ JournalCommitted) THEN tree ELSE journal.image

\* At every moment, whatever has been interrupted half way, the next access
\* finds or restores exactly the files that the visible catalog describes.
SettlesToCatalog == Settled = catalog

\* The catalog store implements the version it promises: publications are
\* atomic under failures and deaths, happen on the catalog they were planned
\* on, their answers tell whether they happened, and reads see nothing else.
Applied(p) == pc[p] = "finish" \/ (pc[p] = "release" /\ outcome[p] \in {"ok", "uncertain"})
statusBar ==
  [p \in Procs |->
     IF pc[p] = "idle" THEN "idle"
     ELSE IF op[p].kind = "read" THEN IF Applied(p) THEN "seen" ELSE "reading"
     ELSE IF Applied(p) THEN "applied" ELSE "publishing"]
askedBar == [p \in Procs |-> [writes |-> op[p].writes, expects |-> op[p].expects]]
answerBar == [p \in Procs |-> IF pc[p] = "idle" THEN outcome[p] ELSE "none"]

Version == INSTANCE VersionTree
             WITH contents <- Settled, status <- statusBar, asked <- askedBar, answer <- answerBar

ImplementsVersionTree == Version!VersionSpec
=============================================================================
