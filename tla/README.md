# TLA+ models of sennel's coordination protocols

sennel drives a software change through a flow of steps: draft, spec, tests,
implementation tasks, gates, reviews, finalization. Every command is a
short-lived process, started by a person, an agent or another command. What
matters is therefore in files and git refs, and the hard part of the code is
what happens when two of those processes meet, when a user works in the same
repository meanwhile, or when a process dies half way. The modules here model
that part, at the level where it can go wrong: one system call, one git
command, one transition is one step.

Paths below are relative to the repository (`src/lib/...` is
`src/src/lib/...` in PROJECT.json).

## Inventory

| Component | State | Operations | Hard behaviour | What makes it correct |
|---|---|---|---|---|
| process-owned lock, `lib/process-lock.js`, `lib/process-identity.js` | the lock file with its owner record, temporary files, the fields of the lock object | acquire, inspect, reclaim a stale lock, release | interleaved system calls, death of the owner, reused inode numbers and pids, failing calls | exclusion; only dead owners are removed; a lock that is left behind is reported |
| repository maintenance and flow-operation locks, `lib/repository-maintenance-lock.js` | two lock files, owner tokens handed to callees | acquire with a look at the other lock before and after, borrow by token, nested operations, release | two sides starting together, back-off that fails, nested release | maintenance excludes operations it has not authorised; an operation keeps its lock; residue is reported |
| finalize merge transaction, `flow/lib/finalize-merge-transaction.js`, `findOutboxCommit` in `flow/lib/run-finalize.js` | base and feature refs, index and files of every worktree, an isolated worktree | inspect, isolated squash merge, compare-and-swap publication, promotion, materialization, resume | users commit, fetch, switch and edit meanwhile; repeated and concurrent calls; death between two git commands | one marked commit per outbox entry; no foreign commit lost; worktrees follow base; errors tell whether base has moved |
| waiting file lock, `lib/file-lock.js` | a process lock, elapsed time | acquire with retry, runExclusive | timeout against release, calls nested in one process, failing release | bodies exclude each other; a waiter gets the lock or an error in bounded time; nobody waits for itself |
| artifact catalog, `lib/flow-version.js`, `lib/atomic-file.js` | the files of a flow version, their catalog, the transaction journal with an image of the tree | load, read, publish, unpublish, roll back, recover | failure or death anywhere in a publication, in its rollback and in the recovery; errors after the rename | a publication happens whole or not at all, and its answer says which |
| canonical flow state and store, `flow/lib/current-flow-state.js`, `flow/lib/canonical-flow-manager-store.js`, `flow/lib/canonical-flow-runtime.js` | ledger of Activities, state, specification with its revisions | load, decide, apply an Activity | commands that plan on files another one is writing | histories only grow; the specification has every admitted Task and is its last revision |
| flow outbox and exact recovery, `flow/lib/flow-outbox*.js`, `flow/registry.js`, `flow/engine/composition/finalization.js`, `flow/lib/run-recover-finalization.js` | whether the entry is outstanding, attempts and outcomes derived from the ledger | begin, checkpoint, effect, settle, reopen | several runs of one step, late begins, repeated recoveries | an Attempt is settled once, on what it has claimed; one failure is recovered once |
| finalize cleanup, `flow/lib/run-finalize-cleanup.js`, `flow/lib/finalize-cleanup-journal.js` | phase journals | prepare, advance, rescue, complete | death between an effect and its entry | every phase once, in order |
| process execution runtime, `lib/process-execution-runtime.js`, `lib/managed-process*.js`, `lib/process-supervisor.js` | registry of executions and calls, archive | reserve, authorise, finish, stop, recover, seal | start against stop, coordinator death, uncertain stops | nothing runs after its stop was proved |
| flow definition, `flow/definition.js` | step status, gate observations, budgets | gate and step transitions, requirement-test lifecycle | bounded budgets, repeated findings | no stuck state, budgets respected |
| active-flow registry, target identity, worktree binding | pointer files | bind, resolve, clear | several worktrees sharing them | a pointer names one live flow |
| leases, `flow/lib/*-lease.js` | file locks per dispatch, command, review | acquire, release | as the file lock | as the file lock |
| offline migration, layout and specs migration | journal, backup, migrated tree | prepare, switch, roll back | death between two renames | old or new layout, never a mixture |
| agents, reviews, presets, plugins, docs pipeline, metrics, setup, upgrade, hooks | files they read or write once | sequential commands | none that interleaves | data conversion |

How they interact: `merge.js` and the outbox recovery both build a
`FinalizeMergeTransaction` with the idempotency key of the outbox entry; it
takes the flow-operation lock, which looks at the maintenance lock; both are
`ProcessLock` files. Whatever a call returns or throws decides the fate of its
outbox entry: `isAdmissionRejection` of the error makes the difference between
"has not begun" and "failed". The outbox lives in the ledger of Activities,
which `CurrentFlowVersionStore` publishes, with state and specification, in one
transaction of the artifact catalog. Catalog, stores and leases use `FileLock`,
which waits on a `ProcessLock`. Agents run under the process execution runtime.

## Modules

| Module | Models |
|---|---|
| `LockService` | abstract: what a process-owned lock promises. One owner; it is freed by its live owner or taken away once the owner is dead |
| `ProcessLock` | `ProcessLock` at system-call level; implements `LockService` |
| `RepositoryLocks` | the two repository locks, each an instance of `LockService` |
| `FinalizeMerge` | `FinalizeMergeTransaction.execute()`, under a `LockService` lock |
| `FileLock` | waiting, timeout and reentrancy round a `LockService` lock |
| `VersionTree` | abstract: the files of a flow version have one committed content, which a publication replaces at one moment or not at all |
| `CatalogStore` | the transaction protocol of `FlowArtifactCatalogStore`, under a `LockService` lock; implements `VersionTree` |
| `FlowVersion` | extends `CatalogStore`: commands that load the flow, decide and publish an Activity |
| `FlowOutbox` | one finalization step on top of the ledger: runs, settlements, exact recovery |
| `ManagedLauncher` | the launcher of one physical call: its process group, its record and the shared stop decision |
| `ProcessRuntime` | extends `ManagedLauncher`: the registry of executions and calls of a checkout, under a `LockService` lock |
| `MC...` | instances for TLC: the symmetry sets, and the scenarios of `ProcessRuntime` |
| `ProcessLockProofs`, `RepositoryLocksProofs`, `FinalizeMergeProofs`, `FileLockProofs`, `CatalogStoreProofs`, `FlowOutboxProofs`, `ProcessRuntimeProofs` | theorems and proofs about the module of that name |
| `FlowVersionProofs` | the same for `FlowVersion`; extends `CatalogStoreProofs`, whose step lemmas are stated for any caller of the store |

The chain is `ProcessLock` => `LockService` <- `RepositoryLocks`,
`FinalizeMerge`, `FileLock`, `CatalogStore`, `ProcessRuntime`: the file protocol is shown to
implement the abstract lock (checked and proved, for one reclaiming process),
and the protocols on top use only the abstract lock. `CatalogStore` =>
`VersionTree` is the second refinement (checked and proved, as long as
publications change something). `FlowVersion` keeps the detailed
`CatalogStore` underneath, because its commands read files without the lock and
so see a transaction half way. `FlowOutbox` takes a publication as one step:
that histories only grow and that an Activity follows the ledger it was decided
on is what `FlowVersion` shows.

### ProcessLock

State: `lockPath` is the inode the path names, `content` the owner record in
an inode, `temps` the inodes that have a temporary name; `processIdentity` and
`lockIdentity` are the fields of the object; `pc` is the next system call,
`ctx` the place in acquire or release that the running `inspect()` returns to.
`Lstat`, `ReadOwner`, `Relstat` are inspect; `DecideInitial`, `DecideLoop`,
`DecideFinal` the branches of acquire; `DecideRemove`, `RemoveStale` are
`#removeStale`; `Publish`, `Link`, `Validate`, `FinishPublish` and the
`...Fails`, `Cleanup...` actions are `#publish` with its error path;
`DecideRelease`, `ReleaseUnlink` are release. A slot's `birth` grows when its
process dies; an owner is live while its birth runs, whatever happened to its
pid. Malformed lock files and a replaced lock directory are left out: they
only make the code refuse.

### RepositoryLocks

`mpc` and `fpc` say where a process is in `RepositoryMaintenanceLock` and in
`RepositoryFlowOperationLock`; `grant` is the maintenance token handed to a
flow operation, `nested` the token of a borrowing operation, `residue` what a
failed acquisition has reported. The look at the other lock (`inspectForeign`)
and the taking of the own lock are separate steps.

### FinalizeMerge

A sha determines its history, so base is modelled by the sequence of its
commits; a tree is a set of changes, a commit a tree and whether its message
has the outbox marker. `index` is what the index and the files of a worktree
hold, so that a worktree whose HEAD has moved without it is not clean, as in
git. `plan` holds the local values of a call (`FinalizeMergeReadiness` and
`mergeCommit`), `pc` its next git command. `Users` selects what people do
meanwhile and `Failures` what may fail; both are sets so that each run states
its environment. git itself, users and the death of a process are external:
modelled from how the code uses them.

How a call ends is kept in `outcome` by what the flow makes of it: a result, a
refusal (`isAdmissionRejection`: the entry has not begun), a transaction error
with or without `committed: true`, or the error of the lock. With "lock" in
`Failures` the acquisition may fail, before or after its lock is in place, and so
may the release in the outer `finally`: its error then replaces whatever the call
was about to return or throw (`Release`), and `Return` hands it to the caller.

Not in this module: the rebase that `flow/commands/merge.js` does before, the
pull-request route, users who switch a worktree away from base during a call,
a lock borrowed with `operationOwnerToken` (RepositoryLocks has it).

### FileLock

A call is a number, which is its owner token; `ProcOf` and `Caller` say in
which process, and in the body of which other call, it is made. `waited` is the
elapsed time, counted up to the timeout. The attempt, the reading of the
conflict, the sleep, the body and the release are separate steps. An attempt that
fails after its link and cannot take it back ends the call with its lock in place
and an error that has `residue.visible` (`residueError`). Asynchronous
and synchronous calls differ only in what else their process can do meanwhile,
and the model lets it do everything.

### CatalogStore and VersionTree

A hash determines what it was taken of, so the catalog is modelled by the tree
it describes and the journal by three trees: baseline, target and image. A file
may be missing or torn. `op` is the operation with the files it writes, the
catalog its precondition compares with, and what its write function insists on;
`active` is the process-local mark of a running transaction, which is not on
disk. `Fault` is a failing system call, bounded by `MaxFaults`; an atomic write
may fail before or after its rename. The refinement mapping takes as committed
content the tree that the next access will settle on: the tree itself, or the
image of a transaction that has not committed. So the commit point is where the
mapped content changes, and rollback and recovery must not change it.

### FlowVersion

The state is the sequence of the Activities it has confirmed, the specification
the sequence of its tasks, `revisions/` the sequence of its snapshots; `stage`
and `plan` are the local state of `apply()` before it publishes. Activities are
those that admit a Task and those that do not touch the specification; their
payload and the machine of the steps are data here.

### FlowOutbox

The ledger holds the begins, checkpoints, outcomes and reopenings of one entry;
`outboxStatus` derives the status from them as `CurrentFlowOutboxAttemptHistory`
does. `step` counts the Attempts of the Step and is not the attempt of the
entry: recovery starts the next of the former and keeps the latter. A failure
has a recovery key, or none, and a message of its own (a merge conflict has the
base head as its key, and names the files in its message); both go into the
Activity id of a recovery, only the key into its receipt. A settlement reads three
times before it publishes: the saved execution (`ReadSaved`), the status with the
attempt that the execution must have claimed (`ReadClaim`), and the publication
view with its revision (`PrepareSettlement`); the commit compares revision, Attempt
and claim once more. Not in
this module: the settlement of an interrupted finalize-sync, waiting for a pull
request, the repair before a sync, and what else finalize-cleanup and
finalize-sync demand before a recovery.

### ManagedLauncher and ProcessRuntime

One call is one launcher. `launcher`, `provider` and `descendant` are processes:
the provider and one process that it starts, each in the group, outside it, or
dead. `rec` is the state in the launcher's record ("killing" is `stopping` with
`finalAction` SIGKILL), `seen` whether the record names the descendant, `stopOp`
the stop decision and whether its deadline has passed. `start()`, `stop()` and
the timers of the launcher are one step each, and time is not counted: a timer
may fire at any moment. A request to stop is not kept, because the launcher's
own deadline may do the same at any moment.

`ProcessRuntime` adds the registry. `owners`, `slot` and `accepting` are the
executions, `execution` and `status` the calls; `pc` is where a command is in
`acquire`, `close` or `withRecoveryEvidence`, `task` where `executeManagedProcess`
is for a call. Two calls: `Lineage` makes the second one nested in the first,
whose descendant is then the nested command that borrows the execution. A body
under the admission lock is one step; a save that is interrupted leaves
`transition.json` (`SaveInterrupted`), after which everybody refuses. `finishCall`
for a call that has its receipt writes nothing, so `FinishCall` is the one that
writes it; its `notStarted` option has no caller.

`Quiet` says what a receipt can promise: the launcher and everything in the group
and on record have ended. A descendant that leaves the group before anybody has
recorded it cannot be seen, in the code as in the model.

Not in these modules: the binding of an execution to run and specification,
outcomes and output, the validation of archived executions, and the reading
interfaces. They only refuse more, or report.

## Runs

| Run | Expected | Shows |
|---|---|---|
| `process_lock` | pass | the lock excludes (`MutualExclusion`), stays the holder's own file (`HolderRecordIntact`), never loses a live lock to reclamation (`ReclaimsOnlyStale`), reports what it forgets (`ForgottenLockReported`), and implements `LockService` |
| `process_lock_two_reclaimers` | violation | finding 1 |
| `repository_locks` | pass | `MaintenanceExcludesFlow`, `FlowOperationOwned`, `NoSilentResidue` |
| `finalize_merge` | pass | worktree mode, failing git and lock calls: `NoDuplicateMerge`, `ReturnsMaterialized`, `ErrorsTellPublication`, `BaseOnlyGrows` |
| `finalize_merge_branch_mode` | pass | branch mode, liveness: `PublishedIsMaterialized`, `EventuallyMerged` |
| `finalize_merge_crash` | violation | finding 2 |
| `file_lock` | pass | `BodyOwnsLock`, `LeftLockReported`, `NestedCallRefused`, and that every wait ends (`AcquireEnds`) |
| `catalog_store` | pass | whatever is interrupted, the next access settles on the catalog (`SettlesToCatalog`); the store implements `VersionTree` (`ImplementsVersionTree`) |
| `catalog_republication` | violation | finding 3 |
| `flow_version` | pass | `AdmittedTasksSpecified`, `HistoryOnlyGrows`, `UninterruptedSpecIsLastRevision` |
| `flow_outbox` | pass | `OneOutcomePerAttempt`, `OutcomeMatchesClaim`; an attempt of the entry is not recovered twice in a row with one key, nor again without one, nor twice from one failure (`RecoveryOnce`) |
| `process_runtime` | pass | a stop receipt is final (`StopReceiptIsFinal`), executions do not overlap (`ExecutionsDoNotOverlap`), evidence holds while it is used (`EvidenceMeansQuiet`), a call answers for its nested calls (`SuccessCoversLineage`), a stop and a launcher end (`StopEnds`, `LauncherEnds`) |

Bounds, and why they are enough:

- `process_lock`: two processes, two inodes, three publications, one death
  each, two attempts and two observations. Two inodes force the reuse of a
  number as soon as a lock is replaced; three publications allow a lock, its
  reclamation and a third owner; two attempts reach the last one and the one
  before. With one reclaimer; the second one is the other run.
- `repository_locks`: three processes, four tokens: a maintenance, the
  operation it authorises and an unrelated third party, with one token to
  spare for a second acquisition. Processes are interchangeable (symmetry).
- `finalize_merge`: two calls, the feature worktree and one more, two feature
  commits, one death per process, users committing until base has three
  commits, so that foreign commits fall before, between and after the merge.
  Calls are interchangeable. What it shows of base is proved for branch mode as
  well. A second base worktree arises when a user switches the feature
  worktree to base.
- `file_lock`: two processes and four calls, one of them made in the body of
  another; timeouts of one and of one and a half intervals, and two calls that
  wait without end; one death per slot. That is a holder, its own nested call, a
  second call of the same process and a foreign waiter.
- `catalog_store`: two processes, the ledger and one more file with two contents
  each, one failing call and one death per process: a failure in a publication
  and a death in its rollback, a death in the recovery of a dead process's
  transaction. Processes are interchangeable. Publications change something; the
  run `catalog_republication` lifts that.
- `flow_version`: two commands, two tasks, one of which both commands admit,
  two Activities, one death each, no failing calls (a failing call and a death
  have the same effect on what other commands read).
- `flow_outbox`: two processes, two recovery keys, two messages, twelve
  Activities: begin, checkpoint, and three failures with their reopenings, so that
  a key can come back after another one, and late begins between them. Keys,
  messages and processes are interchangeable.
- `process_runtime`: one process slot that may die and be born again, two
  executions, so that the second owner recovers the first; two calls. The
  variable `scenario` is a bound: it is chosen at the start and says which events
  a behaviour may have. Without nesting they all may happen together; with a
  nested call it is one of death of the command, loss of a launcher, and processes
  that leave their group.
- The liveness runs of the merge have one process that may die twice (once), and only the
  users their question needs: somebody who keeps a worktree dirty for ever, or
  a git that always fails, justly prevents completion. So does a lock that a failed
  release has left with a process that lives on, and lock calls do not fail there.

Deadlock is not checked: all these protocols may stop when nobody starts
another call, and the counters are bounded.

Fairness (`FairSpec`, liveness runs only): in `file_lock`, each call of a
living process goes on, bodies end, and nobody is promised the lock. In
`process_runtime`, timers of a launcher fire, a stop deadline passes, a command
that stops an execution goes on, and the holder of evidence, whose consumer is
synchronous, leaves the admission lock; commands may otherwise stop for ever,
and nothing is promised of the processes that the launcher supervises. In the
merge runs, a running call goes on, which is
the scheduler's promise to a process that does not die; and a call that ended
without a result is made again. The latter is the flow's own rule: the outbox
entry stays open, and `next-action` names the same command, or the exact
recovery, until it is done. Deaths and user actions are not fair.

Each property of a passing run is broken by a plausible fault in the code it
is about; the faulty variants stand next to the definitions they replace,
marked "Mutant".

## Proofs

Every invariant, action property and refinement that a passing run checks is
also a theorem. The theorems hold for any number of processes, calls, tokens,
births, inodes, worktrees, files, commits and Activities; the bounds in the
guards are arbitrary naturals. The named assumptions on constants only say that
`None` is no owner (journal, tree) and that bounds are numbers. A theorem that
needs more has it as a named hypothesis. `SingleReclaimer`, `LookupReliable`,
`ProbeAnswers` and `~Republish` exclude what the findings and observations below
show to go wrong otherwise; `FlowValues` is a typing of a parameter.

Each proofs module has the same layout: the parts of the inductive invariant,
lemmas about the operators, one lemma per part that every step keeps it, the
theorems. TLC has checked each inductive invariant on the bounds of the runs
before it was proved.

- **ProcessLock** (`SingleReclaimer`, for all but the types: at most one
  process passes `reclaimStale`). The property is not inductive: that a
  reclaimer's second look found a dead record says nothing about the path
  later, unless nobody else can replace it. `IInv` adds `ControlInv` (which
  labels belong to which caller), `RecordInv` (a token identifies its record,
  none is younger than its slot), and `FileInv`: the file a process has
  published is intact and at the path as long as it holds it, and a record
  confirmed dead stays at the path until its reclaimer unlinks it. From it:
  `MutualExclusionHolds`, `HolderRecordIntactHolds`, `ReclaimsOnlyStaleHolds`,
  `ForgottenLockReportedHolds`, and the refinement `Implements`.
- **RepositoryLocks** (no further assumption). `IInv`: each lock names the
  process from its core acquire to its core release (`NamedInv`), no record is
  younger than its slot (`BirthInv`), reported residue is there (`ResidueInv`).
  From it `MaintenanceExcludesFlowHolds`, `FlowOperationOwnedHolds`,
  `NoSilentResidueHolds`.
- **FinalizeMerge**. `PlanInv` relates the plan to the label: once a commit
  exists it extends the base that was read. This gives `TypeCorrect` and
  `BaseOnlyGrowsHolds`: base changes only by appending, because publication
  requires base to be the one the commit extends. `LockInv` (the lock names
  the call from lookup to release) and `MarkInv` (base has no marked commit
  while a call is between lookup and publication) give
  `NoDuplicateMergeHolds`, under `LookupReliable`: the git log answers.
  `TargetInv` follows the listed worktrees through inspection, publication and
  materialization and gives `ReturnsMaterializedHolds`. `ErrorInv` gives
  `ErrorsTellPublicationHolds`: a failing release ends the call with an error of
  another kind and changes nothing of base, so what counts is the error it had
  before; and when a call is refused at its compare-and-swap,
  the first commit after the base it has read, if there is one, is somebody
  else's and has no marker, so base does not continue with this call's commit,
  and cannot later, because commits are only appended. This needs neither a
  reliable lookup nor worktree mode; it needs `ProbeAnswers`, that in branch mode
  the status probe after publication does not fail, which is the observation
  about `MERGE_GIT_PROBE_FAILED` below.
- **FileLock** (no further assumption). That a body owns the lock needs to know
  which call a lock names (`HolderInv`: a call of its own process, in a birth that
  has been). `NestedCallRefused` needs `NestedInv`: a nested call is under way only
  while its caller is in its body, so the owner it meets is its own process.
  `LeftLockReportedHolds` covers both ways to leave a lock: a failing release and an
  acquire that cannot take its publication back.
- **CatalogStore**. `PhaseInv` says, for each point of a transaction, what files,
  catalog and journal are: during the writing the files are the catalog's with the
  written ones replaced, at the commit point the journal's target is the tree,
  while restoring the journal holds the committed image, afterwards files and
  catalog agree. `LockInv` makes one process at a time the author of all that.
  `SettlesToCatalogHolds` and `Implements` have the hypothesis `~Republish`
  (`ChangeInv`: a publication differs from what it expects or requires), because
  target and baseline of a publication that changes nothing have the same hash;
  the run `catalog_republication` (finding 3) shows that it is needed. `TypeCorrect`
  does not have it. Every lemma is stated for `StoreNext`, a caller that may ask
  for anything, of which `Next` here and `FlowNext` are cases.
- **FlowVersion**, on top of `CatalogStoreProofs`. A publication takes effect only
  on the ledger its Activity was decided on (`PublishInv`), and every one makes the
  ledger longer (`GrowthInv`). So a plan that is `UpToDate` has met no foreign
  publication that took effect, and what it has read without the lock is the
  committed specification or the half-written one of a publication planned on the
  same ledger; neither lacks a committed task (`TasksInv`), and without a failure or
  a death the latter makes the plan out of date before it can count (`CleanInv`).
  From these `AdmittedTasksSpecifiedHolds`, `HistoryOnlyGrowsHolds`,
  `UninterruptedSpecIsLastRevisionHolds`, and `FlowImplementsVersionTree`, the
  composition of commands and store. `FlowSpec` uses neither `Values` nor
  `Republish`, which are parameters of `CatalogStore`: `FlowValues` makes `Values` the
  type of what files hold, `~Republish` selects the store's stronger invariant. The
  runs enumerate a finite part of that type.
- **FlowOutbox** (no further assumption). `OutcomeInv`: an Attempt with an outcome
  is over. `CheckpointInv`: an Attempt has one checkpoint. `CommitInv` carries the
  optimistic check: an outcome prepared on the present revision goes to an
  outstanding entry, in the attempt it was prepared for, which the commit compares
  with the checkpoint; any publication in between makes the revision a later one.
  `RecoveryOnceHolds` follows the receipt: as long as the status can be read, every
  Activity of an attempt behind a recovery has the key of the last one in its receipt
  (`ReceiptInv`). A late begin after a recovery would lose it, but is bound to a later
  Attempt than the recovery (`OpeningInv`), so that the status can no longer be read.
  So a process about to reopen has another key than the last recovery (`ReopenInv`;
  under the lock nobody else recovers meanwhile), and the Activity id excludes the
  earlier ones with the same message. That the first and last places of a ledger
  exist is proved by well-founded induction (`MinExists`, `MaxExists`).
- **ProcessRuntime** and **ManagedLauncher** (no further assumption, every set of
  events, any lineage). `Over(c)`, the launcher is dead and everything it knew of has
  ended, is stable: only a live launcher starts a provider, only a live provider
  forks, and only a live launcher's record or a nested command under it adds
  members. `ReceiptInv` says that a receipt is written in such a state only;
  `ClosedInv`, `EvidenceInv` and `LineageInv` that the registry asks for receipts
  where it must. They give `StopReceiptIsFinalHolds`, `ExecutionsDoNotOverlapHolds`,
  `EvidenceMeansQuietHolds`, `SuccessCoversLineageHolds`, and `OneCommandHolds`: one
  command at a time is past the acquisition of a checkout.

Only model-checked: liveness (`AcquireEnds`, `PublishedIsMaterialized`,
`EventuallyMerged`, `StopEnds`, `LauncherEnds`), which needs fairness and ENABLED,
and is out of the prover's reach; and the three expected violations.

## Findings

1. `#removeStale` (`lib/process-lock.js`) unlinks by path after comparing. Two
   processes that reclaim the same dead owner can both pass the comparison,
   and the second unlinks the lock the first has just taken.
2. When the process dies between the compare-and-swap and the materialization,
   a base worktree has the new HEAD and the old files. `#resume` requires a
   clean worktree and therefore always throws `MERGE_TARGET_DIRTY`; its own
   materialization is never reached. In branch mode without such worktrees a
   later call completes.
3. A publication that changes nothing has a target hash equal to its baseline.
   When it fails after `prepare()` and its rollback is interrupted,
   `#recoverTransaction` (`lib/flow-version.js`) takes it for committed, finds
   the tree incomplete, throws, and does so at every later access; the image in
   the journal is never restored.

TLC also reaches the following, about which the repository says nothing that
could be contradicted:

- `#resume` compares a worktree's HEAD with a base it has read earlier; if base
  moves in between, it turns a clean worktree back to the older tree.
- `findOutboxCommit` gives null for a failing `git log` as for a missing commit;
  a repeated call then publishes a second marked commit.
- In branch mode a status probe that fails after publication throws
  `MERGE_GIT_PROBE_FAILED` without `committed: true`, which callers treat as a
  refusal to begin.
- A release that throws after publication hides that base has moved: its error has
  neither the result nor `committed: true`. The flow records the entry as failed, and
  the exact recovery finds the commit by its marker.
- The receipt of an exact recovery names the last key only, and the Activity id
  contains the message. A conflict at one base head, another at a second, and a third
  at the first with other files is recovered three times, twice with the same key.
- `apply()` reads spec.json without the lock. When two commands admit the same
  Task, or one admits it again after a death, and the writer they have read from
  dies before its commit, the specification gets the Task and no revision: it no
  longer equals its last snapshot, and every load throws. Without a death it
  cannot happen (`UninterruptedSpecIsLastRevision`).
- A run that read "missing" may publish its `begin_outbox` after another run has
  begun, failed or completed the entry. A failed entry is then outstanding again,
  with a failed Attempt: recovery says ordinary execution, and execution is
  refused. After a recovery or a completion the attempt has two starting
  bindings, and every read of its status throws.
- An outcome is bound to the Attempt that is current after the effect. When a
  recovery has replaced the Attempt meanwhile, the outcome of the old run is
  recorded on the new one.
- A command that dies between `reserveCall` and the greeting of its launcher
  leaves an intent that nobody answers for; every later recovery of the checkout
  refuses. That is deliberate: a launcher may still come up
  (`tests/integration/lib/process-runtime-checkout-handoff.test.js`).

## Plan

In this order; each with its run, and a proof of its main invariant:

1. Proofs: that `RepositoryLocks` keeps its theorems on top of the file protocol
   instead of `LockService`; what leads to the observed double binding in
   `FlowOutbox`, as a theorem with the missing check as its hypothesis.
2. `RequirementTestLifecycle` and `GateTransition`: the transition functions
   of `flow/definition.js` against their budgets, over bounded histories.
3. `FinalizeCleanup` and `OfflineMigration`: journals with a crash between any
   two steps, each shown to implement an atomic switch.
4. The lock-free snapshot reader as another actor of `CatalogStore`.

Not modelled: reviews, agents, presets, documentation, metrics, setup, and the
payloads of Activities. They are validation, conversion and rendering of data,
sequential within a command and serialised between commands by the locks and the
catalog transactions modelled here.
