----------------------------- MODULE FlowVersion -----------------------------
(***************************************************************************)
(* CurrentFlowVersionStore of src/flow/lib/current-flow-state.js: how a    *)
(* command changes a flow. It loads the flow, decides on an Activity that  *)
(* follows the loaded ones, and apply() publishes, in one transaction of   *)
(* the artifact catalog, the longer ledger (activities.jsonl), the state   *)
(* (flow.json) and, when the Activity admits a Task, the new specification *)
(* (spec.json) with the immutable snapshot of its next revision.           *)
(*                                                                         *)
(* Several commands of one flow may run at the same time. What apply()     *)
(* plans before it takes the catalog lock is read without it: spec.json    *)
(* twice, as somebody else's unfinished transaction may have left it for a *)
(* moment. The revision history is read under the lock, released, and      *)
(* compared again by the precondition of the publication.                  *)
(*                                                                         *)
(* The state is determined by the Activities it has confirmed, so flow.json*)
(* is modelled by their sequence; spec.json by the sequence of its tasks;  *)
(* revisions/ by the sequence of the snapshots.                            *)
(***************************************************************************)
EXTENDS CatalogStore, SequencesExt

CONSTANTS
  Tasks,     \* task ids
  Note,      \* an Activity that leaves the specification alone
  Wants,     \* Wants[p]: the tasks that commands of slot p admit
  MaxOrder   \* bound: Activities of the flow

FlowFiles == {"activities", "flow", "spec", "revisions"}

\* CurrentFlowStateStore.apply writes the ledger, then the state; apply() then
\* writes the specification and the snapshot.
WriteOrder == [activities |-> 1, flow |-> 2, spec |-> 3, revisions |-> 4]

ASSUME FlowAssumption ==
  /\ Files = FlowFiles
  /\ Ledger = "activities"
  /\ Rank = WriteOrder
  /\ Note \notin Tasks
  /\ Wants \in [Procs -> SUBSET Tasks]
  /\ MaxOrder \in Nat

VARIABLES
  stage,  \* where the command of slot p is
  plan    \* what it has decided and read so far

flowVars == <<vars, stage, plan>>

Stages == {"start", "load", "loaded", "checked", "next", "current", "authority", "publish"}

NoPlan == [activity |-> Note, ledger |-> <<>>, next |-> <<>>, current |-> <<>>]

FlowTypeOK ==
  /\ stage \in [Procs -> Stages]
  /\ \A p \in Procs :
       /\ plan[p].activity \in Tasks \cup {Note}
       /\ plan[p].ledger \in Seq(Tasks \cup {Note})
       /\ plan[p].next \in Seq(Tasks)
       /\ plan[p].current \in Seq(Tasks)
  /\ catalog.activities \in Seq(Tasks \cup {Note})
  /\ catalog.spec \in Seq(Tasks)
  /\ catalog.revisions \in Seq(Seq(Tasks))

\* A fresh version: no task, and the first revision is its specification.
FlowInit ==
  /\ InitWith([activities |-> <<>>, flow |-> <<>>, spec |-> <<>>, revisions |-> <<<<>>>>])
  /\ stage = [p \in Procs |-> "start"]
  /\ plan = [p \in Procs |-> NoPlan]

-----------------------------------------------------------------------------
Move(p, label) == stage' = [stage EXCEPT ![p] = label]

\* apply() throws; the command ends.
GiveUp(p) == Move(p, "start") /\ plan' = [plan EXCEPT ![p] = NoPlan]

\* load(): a read of the catalog.
Load(p) ==
  /\ stage[p] = "start"
  /\ StartRead(p)
  /\ Move(p, "load")
  /\ UNCHANGED plan

\* #assertSpecRevisionAuthority: the specification is its last snapshot.
RevisionAuthority(t) == Len(t.revisions) > 0 /\ t.spec = Last(t.revisions)

\* #assertJournalConsistency: the ledger reproduces the state, and is at most
\* one Activity ahead of it.
JournalConsistent(t) ==
  IsPrefix(t.flow, t.activities) /\ Len(t.activities) <= Len(t.flow) + 1

Loaded(p) == pc[p] = "idle" /\ view[p] # None
NotLoaded(p) == pc[p] = "idle" /\ view[p] = None

\* The command decides on the next Activity: a Task, or one that leaves the
\* specification alone.
Decide(p) ==
  /\ stage[p] = "load"
  /\ Loaded(p)
  /\ RevisionAuthority(view[p]) /\ JournalConsistent(view[p])
  /\ Len(view[p].activities) < MaxOrder
  /\ \E a \in Wants[p] \cup {Note} :
       /\ a \in Tasks => ~Contains(view[p].activities, a)
       /\ plan' = [plan EXCEPT ![p] = [NoPlan EXCEPT !.activity = a, !.ledger = view[p].activities]]
  /\ Move(p, "loaded")
  /\ UNCHANGED vars

LoadFails(p) ==
  /\ stage[p] \in {"load", "authority"}
  /\ \/ NotLoaded(p)
     \/ Loaded(p) /\ ~(RevisionAuthority(view[p]) /\ JournalConsistent(view[p]))
  /\ GiveUp(p)
  /\ UNCHANGED vars

Readable(f) == tree[f] \notin {Missing, Torn}

\* Before a Task is planned, apply() loads the state once more, without the
\* catalog lock.
CheckStore(p) ==
  /\ stage[p] = "loaded"
  /\ plan[p].activity # Note
  /\ IF /\ Readable("activities") /\ Readable("flow")
        /\ JournalConsistent(tree)
       THEN Move(p, "checked") /\ UNCHANGED plan
       ELSE GiveUp(p)
  /\ UNCHANGED vars

\* #nextTaskSpec reads spec.json without the lock; withTask adds the Task
\* unless it is already there.
WithTask(spec, t) == IF Contains(spec, t) THEN spec ELSE Append(spec, t)

ReadNext(p) ==
  /\ stage[p] = "checked"
  /\ IF Readable("spec")
       THEN /\ plan' = [plan EXCEPT ![p].next = WithTask(tree.spec, plan[p].activity)]
            /\ Move(p, "next")
       ELSE GiveUp(p)
  /\ UNCHANGED vars

\* Mutant: a missing file is not noticed.
ReadCurrentBlindly(p) ==
  /\ stage[p] = "next"
  /\ plan' = [plan EXCEPT ![p].current = tree.spec]
  /\ Move(p, "current")
  /\ UNCHANGED vars

\* #specRevisionWrites reads spec.json once more, without the lock ...
ReadCurrent(p) ==
  /\ stage[p] = "next"
  /\ IF Readable("spec")
       THEN /\ plan' = [plan EXCEPT ![p].current = tree.spec]
            /\ Move(p, "current")
       ELSE GiveUp(p)
  /\ UNCHANGED vars

\* ... and the revision history under it.
ReadAuthority(p) ==
  /\ stage[p] = "current"
  /\ StartRead(p)
  /\ Move(p, "authority")
  /\ UNCHANGED plan

\* Mutant: the Activity is put behind the ledger of the latest read.
FreshLedger(p) == view[p].activities
\* The ledger that the Activity was decided on.
BaseLedger(p) == plan[p].ledger

\* The files of every publication: the ledger with the Activity, and the state.
NewLedger(p) == Append(BaseLedger(p), plan[p].activity)
StateWrites(p) == [f \in {"activities", "flow"} |-> NewLedger(p)]
\* Mutant: any Activity is appended.
NoOrderCheck(p) == NoFiles
\* CurrentFlowStateStore.apply, inside the transaction, wants the number of the
\* Activity to follow that of the state. The loaded ledger was committed, and
\* ledgers only grow, so equal numbers mean the ledger that was loaded.
OrderCheck(p) == [f \in {"activities", "flow"} |-> BaseLedger(p)]

PublishNote(p) ==
  /\ stage[p] = "loaded"
  /\ plan[p].activity = Note
  /\ Start(p, Publication(StateWrites(p), NoFiles, OrderCheck(p)))
  /\ Move(p, "publish")
  /\ UNCHANGED plan

\* A specification that is unchanged needs no revision.
Unchanged(p) == plan[p].current = plan[p].next

\* Mutant: the snapshot is taken of the specification before the change.
SpecWritesOldSnapshot(p, revisions) ==
  IF Unchanged(p)
    THEN [f \in {"activities", "flow", "spec"} |->
            IF f = "spec" THEN plan[p].next ELSE NewLedger(p)]
    ELSE [f \in FlowFiles |->
            CASE f = "spec" -> plan[p].next
              [] f = "revisions" -> Append(revisions, plan[p].current)
              [] OTHER -> NewLedger(p)]
SpecWrites(p, revisions) ==
  IF Unchanged(p)
    THEN [f \in {"activities", "flow", "spec"} |->
            IF f = "spec" THEN plan[p].next ELSE NewLedger(p)]
    ELSE [f \in FlowFiles |->
            CASE f = "spec" -> plan[p].next
              [] f = "revisions" -> Append(revisions, plan[p].next)
              [] OTHER -> NewLedger(p)]

PublishTask(p) ==
  /\ stage[p] = "authority"
  /\ Loaded(p)
  /\ RevisionAuthority(view[p]) /\ JournalConsistent(view[p])
  /\ Unchanged(p) \/ Last(view[p].revisions) = plan[p].current
  /\ Start(p, Publication(SpecWrites(p, view[p].revisions),
                          [f \in {"spec", "revisions"} |-> view[p][f]],
                          OrderCheck(p)))
  /\ Move(p, "publish")
  /\ UNCHANGED plan

\* The specification that was read is not the current snapshot.
TaskRefused(p) ==
  /\ stage[p] = "authority"
  /\ Loaded(p)
  /\ RevisionAuthority(view[p]) /\ JournalConsistent(view[p])
  /\ ~Unchanged(p)
  /\ Last(view[p].revisions) # plan[p].current
  /\ GiveUp(p)
  /\ UNCHANGED vars

Published(p) ==
  /\ stage[p] = "publish"
  /\ pc[p] = "idle"
  /\ GiveUp(p)
  /\ UNCHANGED vars

FlowStep(p) ==
  \/ Load(p) \/ Decide(p) \/ LoadFails(p)
  \/ CheckStore(p) \/ ReadNext(p) \/ ReadCurrent(p) \/ ReadAuthority(p)
  \/ PublishNote(p) \/ PublishTask(p) \/ TaskRefused(p) \/ Published(p)
  \/ Step(p) /\ UNCHANGED <<stage, plan>>

FlowCrash(p) == Crash(p) /\ GiveUp(p)

FlowNext == \E p \in Procs : FlowStep(p) \/ FlowCrash(p)

FlowSpec == FlowInit /\ [][FlowNext]_flowVars

-----------------------------------------------------------------------------
(* Properties.                                                             *)

\* The committed specification is the snapshot of its last revision, as every
\* load asserts: "root canonical spec.json does not match its current immutable
\* revision snapshot" is never true of a committed version.
SpecIsLastRevision == RevisionAuthority(catalog)

\* As long as no call has failed and no process has died in one, that is so
\* however commands interleave, although they plan their change on a spec.json
\* that a transaction of another command may be writing.
UninterruptedSpecIsLastRevision ==
  (faults = 0 /\ \A p \in Procs : birth[p] = 0) => SpecIsLastRevision

\* No command overwrites the Task of another one: every Task that the ledger
\* admits is in the specification, whatever was planned on an older one.
AdmittedTasksSpecified ==
  \A i \in 1 .. Len(catalog.activities) :
    catalog.activities[i] \in Tasks => Contains(catalog.spec, catalog.activities[i])

\* The ledger only grows, and the committed history of the specification too.
HistoryOnlyGrows ==
  [][/\ IsPrefix(catalog.activities, catalog'.activities)
     /\ IsPrefix(catalog.revisions, catalog'.revisions)]_catalog
=============================================================================
