---------------------------- MODULE FinalizeMerge ----------------------------
(***************************************************************************)
(* The squash merge of flow/lib/finalize-merge-transaction.js              *)
(*                                                                         *)
(* execute() merges the feature branch into the base branch in a detached  *)
(* worktree of its own, publishes the commit with a compare-and-swap of    *)
(* the base ref, and then brings the worktrees that have base checked out  *)
(* up to date. The commit carries the idempotency key of its outbox entry, *)
(* so that a later call finds it in base and resumes instead of merging a  *)
(* second time. Every git command is one step (the probes of one worktree  *)
(* are one); between two of them users work in the same repository, and    *)
(* the process may die.                                                    *)
(***************************************************************************)
EXTENDS Naturals, Sequences

CONSTANTS
  Procs,        \* processes that run execute() for the same outbox entry
  None,         \* "no owner"
  Worktrees,    \* registered worktrees, the feature worktree included
  featureRoot,  \* the feature worktree
  promoteFeatureWorktreeToBase,  \* branch mode: featureRoot is the main root
  Failures,     \* what may go wrong: "git", "conflict", "lookup", "lock"
  Users,        \* what users do meanwhile: "edit", "commit", "fetch", "feature", "switch"
  MaxBase,      \* bound: length of base up to which users commit
  MaxFeature,   \* bound: commits on the feature branch
  MaxBirth      \* bound: births per process slot

\* What a commit's tree contains, in units of one commit's change.
Changes == {"user", "feature"} \X Nat

\* A commit of base: whether its message has the outbox marker, and its tree.
\* A sha determines its whole history, so it is modelled by that history.
Commits == [marked : BOOLEAN, tree : SUBSET Changes]
Shas == Seq(Commits)

Owners == [proc : Procs, birth : Nat, token : Nat]

ASSUME MergeAssumption ==
  /\ None \notin Owners
  /\ featureRoot \in Worktrees
  /\ promoteFeatureWorktreeToBase \in BOOLEAN
  /\ Failures \subseteq {"git", "conflict", "lookup", "lock"}
  /\ Users \subseteq {"edit", "commit", "fetch", "feature", "switch"}
  /\ MaxBase \in Nat /\ MaxFeature \in Nat /\ MaxBirth \in Nat

VARIABLES
  lock,     \* owner of the flow-operation lock
  birth,    \* which birth of the slot is running
  base,     \* refs/heads/<baseBranch>
  feature,  \* refs/heads/<featureBranch>: how many commits it has
  branch,   \* branch checked out in a worktree
  index,    \* tree that the index and the files of a worktree hold
  work,     \* uncommitted changes or an unfinished merge or rebase
  pc,       \* where the process is in execute()
  plan,     \* FinalizeMergeReadiness and mergeCommit of the running call
  temp,     \* whether its isolated worktree is registered
  outcome,  \* how the running call ends
  done      \* a call has returned and its outbox entry is complete

lockVars == <<lock, birth>>
gitVars == <<base, feature, branch, index, work>>
callVars == <<pc, plan, temp, outcome, done>>
vars == <<lockVars, gitVars, callVars>>

Lock == INSTANCE LockService WITH holder <- lock

Labels == {"idle", "acquire", "lookup", "inspectBase", "inspectFeature", "inspectHead",
           "list", "inspectTargets", "create", "squash", "commit", "publish",
           "promote", "checkout", "materialize",
           "resume", "resumeList", "resumeTargets", "resumeHead",
           "cleanup", "release", "returned"}

\* baseSha (currentBase when resuming), featureSha, baseWorktrees, the ones
\* still to visit, and mergeCommit, empty until the commit exists.
Plans == [base : Shas, feature : Nat, targets : SUBSET Worktrees,
          left : SUBSET Worktrees, commit : Shas]
NoPlan == [base |-> <<>>, feature |-> 0, targets |-> {}, left |-> {}, commit |-> <<>>]

\* "refused": thrown with committed false and a code of isAdmissionRejection, so
\* that the flow takes the step as not begun; "error": with committed false and
\* another code; "committedError": with committed true; "lockError": the error of
\* the lock's release, which has no such field and is no refusal either.
Outcomes == {"none", "merged", "resumed", "refused", "error", "committedError", "lockError"}

TypeOK ==
  /\ lock \in Owners \cup {None}
  /\ birth \in [Procs -> Nat]
  /\ base \in Shas /\ Len(base) > 0
  /\ feature \in Nat
  /\ branch \in [Worktrees -> {"base", "feature", "other"}]
  /\ index \in [Worktrees -> SUBSET Changes]
  /\ work \in [Worktrees -> {"clean", "edited"}]
  /\ pc \in [Procs -> Labels]
  /\ plan \in [Procs -> Plans]
  /\ temp \in [Procs -> BOOLEAN]
  /\ outcome \in [Procs -> Outcomes]
  /\ done \in BOOLEAN

FeatureTree(n) == {"feature"} \X (1..n)
Tree(sha) == sha[Len(sha)].tree

\* findOutboxCommit: some commit reachable from the sha has the marker.
HasOutboxCommit(sha) == \E i \in 1..Len(sha) : sha[i].marked

\* A flow branch was created from base and has a commit; another worktree may
\* have base checked out.
Init ==
  /\ lock = None
  /\ birth = [p \in Procs |-> 0]
  /\ base = <<[marked |-> FALSE, tree |-> {}]>>
  /\ feature = 1
  /\ branch \in {b \in [Worktrees -> {"base", "feature", "other"}] :
                   \A w \in Worktrees : b[w] = "feature" <=> w = featureRoot}
  /\ index = [w \in Worktrees |-> IF w = featureRoot THEN FeatureTree(1) ELSE {}]
  /\ work = [w \in Worktrees |-> "clean"]
  /\ pc = [p \in Procs |-> "idle"]
  /\ plan = [p \in Procs |-> NoPlan]
  /\ temp = [p \in Procs |-> FALSE]
  /\ outcome = [p \in Procs |-> "none"]
  /\ done = FALSE

-----------------------------------------------------------------------------
(* git.                                                                    *)

\* HEAD of a worktree names its branch, so it moves with the ref.
HeadTree(w) ==
  CASE branch[w] = "base" -> Tree(base)
    [] branch[w] = "feature" -> FeatureTree(feature)
    [] OTHER -> {}

\* activeOperation(w) is null and worktreeStatus(w) has no path that counts.
Clean(w) == work[w] = "clean" /\ index[w] = HeadTree(w)

BaseWorktrees == {w \in Worktrees : branch[w] = "base"}

\* read-tree -u -m from to: the difference of the two trees is applied to the
\* index and the files of w; local changes are kept.
ReadTree(w, from, to) ==
  index' = [index EXCEPT ![w] = (@ \ (Tree(from) \ Tree(to))) \cup (Tree(to) \ Tree(from))]

\* It refuses local changes in a file the difference touches.
ReadTreeMayFail(w) == work[w] = "edited" \/ "git" \in Failures

-----------------------------------------------------------------------------
(* execute().                                                              *)

Goto(p, label) == pc' = [pc EXCEPT ![p] = label]

\* An exception: the finally blocks run next.
Throw(p, kind) ==
  /\ outcome' = [outcome EXCEPT ![p] = kind]
  /\ Goto(p, IF temp[p] THEN "cleanup" ELSE "release")

\* The command, a retry of it, or an exact outbox recovery.
StartExecute(p) ==
  /\ pc[p] = "idle" /\ ~done
  /\ Goto(p, "acquire")
  /\ UNCHANGED <<lockVars, gitVars, plan, temp, outcome, done>>

AcquireReclaim(p) ==
  /\ pc[p] = "acquire"
  /\ Lock!Reclaim
  /\ UNCHANGED <<gitVars, callVars>>

\* Mutant: the call goes on without the repository's flow-operation lock.
AcquireTakeUnlocked(p) ==
  /\ pc[p] = "acquire"
  /\ Goto(p, "lookup")
  /\ UNCHANGED <<lockVars, gitVars, plan, temp, outcome, done>>

AcquireTake(p) ==
  /\ pc[p] = "acquire"
  /\ Lock!TakeAs([proc |-> p, birth |-> birth[p], token |-> 0])
  /\ Goto(p, "lookup")
  /\ UNCHANGED <<gitVars, plan, temp, outcome, done>>

AcquireBusy(p) ==
  /\ pc[p] = "acquire"
  /\ lock # None /\ Lock!Live(lock)
  /\ Goto(p, "idle")
  /\ UNCHANGED <<lockVars, gitVars, plan, temp, outcome, done>>

\* acquire() fails otherwise, before or after its lock is in place; what it
\* cannot remove again stays with the living process.
AcquireFails(p) ==
  /\ pc[p] = "acquire"
  /\ "lock" \in Failures
  /\ \/ UNCHANGED lockVars
     \/ Lock!TakeAs([proc |-> p, birth |-> birth[p], token |-> 0])
  /\ Goto(p, "idle")
  /\ UNCHANGED <<gitVars, plan, temp, outcome, done>>

\* Mutant: nobody looks for a commit of an earlier call.
ExistingCommitIgnored(p) ==
  /\ pc[p] = "lookup"
  /\ Goto(p, "inspectBase")
  /\ UNCHANGED <<lockVars, gitVars, plan, temp, outcome, done>>

\* #existingCommit: a failing git log counts as "no such commit".
ExistingCommit(p) ==
  /\ pc[p] = "lookup"
  /\ \/ HasOutboxCommit(base) /\ Goto(p, "resume")
     \/ /\ ~HasOutboxCommit(base) \/ "lookup" \in Failures
        /\ Goto(p, "inspectBase")
  /\ UNCHANGED <<lockVars, gitVars, plan, temp, outcome, done>>

-----------------------------------------------------------------------------
(* inspect(): every refusal leaves base alone.                             *)

Inspecting(p, label) ==
  /\ pc[p] = label
  /\ UNCHANGED <<lockVars, gitVars, temp, done>>

\* A git command fails, or gives no object id.
InspectFails(p) ==
  /\ pc[p] \in {"inspectBase", "inspectFeature", "inspectHead", "list",
                "inspectTargets", "resume", "resumeList", "resumeTargets", "resumeHead"}
  /\ "git" \in Failures
  /\ Throw(p, "refused")
  /\ UNCHANGED <<lockVars, gitVars, plan, temp, done>>

InspectBase(p) ==
  /\ Inspecting(p, "inspectBase")
  /\ plan' = [plan EXCEPT ![p].base = base]
  /\ Goto(p, "inspectFeature")
  /\ UNCHANGED outcome

\* Mutant: what git printed is taken without looking at it.
InspectFeatureUnvalidated(p) ==
  /\ Inspecting(p, "inspectFeature")
  /\ \/ plan' = [plan EXCEPT ![p].feature = feature]
     \/ "git" \in Failures /\ plan' = [plan EXCEPT ![p].feature = None]
  /\ Goto(p, "inspectHead")
  /\ UNCHANGED outcome

InspectFeature(p) ==
  /\ Inspecting(p, "inspectFeature")
  /\ plan' = [plan EXCEPT ![p].feature = feature]
  /\ Goto(p, "inspectHead")
  /\ UNCHANGED outcome

\* HEAD of the feature worktree is the feature sha; no operation, no change.
InspectHead(p) ==
  /\ Inspecting(p, "inspectHead")
  /\ IF branch[featureRoot] = "feature" /\ feature = plan[p].feature /\ Clean(featureRoot)
       THEN Goto(p, "list") /\ UNCHANGED outcome
       ELSE Throw(p, "refused")
  /\ UNCHANGED plan

ListTargets(p) ==
  /\ Inspecting(p, "list")
  /\ plan' = [plan EXCEPT ![p].targets = BaseWorktrees, ![p].left = BaseWorktrees]
  /\ Goto(p, "inspectTargets")
  /\ UNCHANGED outcome

InspectTarget(p) ==
  /\ Inspecting(p, "inspectTargets")
  /\ \E w \in plan[p].left :
       \/ /\ Clean(w)
          /\ plan' = [plan EXCEPT ![p].left = @ \ {w}]
          /\ UNCHANGED <<pc, outcome>>
       \/ /\ ~Clean(w)
          /\ Throw(p, "refused")
          /\ UNCHANGED plan

\* merge-tree finds a content conflict or not.
Probe(p) ==
  /\ Inspecting(p, "inspectTargets")
  /\ plan[p].left = {}
  /\ \/ Goto(p, "create") /\ UNCHANGED outcome
     \/ "conflict" \in Failures /\ Throw(p, "error")
  /\ UNCHANGED plan

-----------------------------------------------------------------------------
(* The isolated merge.                                                     *)

CreateWorktree(p) ==
  /\ pc[p] = "create"
  /\ \/ Goto(p, "squash") /\ temp' = [temp EXCEPT ![p] = TRUE] /\ UNCHANGED outcome
     \/ "git" \in Failures /\ Throw(p, "error") /\ UNCHANGED temp
  /\ UNCHANGED <<lockVars, gitVars, plan, done>>

\* A conflict that merge-tree did not report, or another failure.
SquashMerge(p) ==
  /\ pc[p] = "squash"
  /\ \/ Goto(p, "commit") /\ UNCHANGED outcome
     \/ {"git", "conflict"} \cap Failures # {} /\ Throw(p, "error")
  /\ UNCHANGED <<lockVars, gitVars, plan, temp, done>>

MergedTree(pl) == Tree(pl.base) \cup FeatureTree(pl.feature)
MergeCommit(pl) == Append(pl.base, [marked |-> TRUE, tree |-> MergedTree(pl)])

\* git commit fails when there is nothing to commit; otherwise mergeCommit is
\* read back from HEAD, a probe whose failure counts as a refusal.
CommitMerge(p) ==
  /\ pc[p] = "commit"
  /\ \/ /\ MergedTree(plan[p]) # Tree(plan[p].base)
        /\ plan' = [plan EXCEPT ![p].commit = MergeCommit(plan[p])]
        /\ Goto(p, "publish")
        /\ UNCHANGED outcome
     \/ /\ MergedTree(plan[p]) = Tree(plan[p].base) \/ "git" \in Failures
        /\ Throw(p, "error")
        /\ UNCHANGED plan
     \/ /\ "git" \in Failures
        /\ Throw(p, "refused")
        /\ UNCHANGED plan
  /\ UNCHANGED <<lockVars, gitVars, temp, done>>

AfterPublish == IF promoteFeatureWorktreeToBase THEN "promote" ELSE "materialize"

\* Mutant: update-ref without the expected old value.
PublishBlindly(p) ==
  /\ pc[p] = "publish"
  /\ base' = plan[p].commit
  /\ plan' = [plan EXCEPT ![p].left = plan[p].targets]
  /\ Goto(p, AfterPublish)
  /\ UNCHANGED <<lockVars, feature, branch, index, work, temp, outcome, done>>

\* update-ref baseRef mergeCommit baseSha: compare and swap.
Publish(p) ==
  /\ pc[p] = "publish"
  /\ \/ /\ base = plan[p].base
        /\ base' = plan[p].commit
        /\ plan' = [plan EXCEPT ![p].left = plan[p].targets]
        /\ Goto(p, AfterPublish)
        /\ UNCHANGED outcome
     \/ /\ base # plan[p].base \/ "git" \in Failures
        /\ Throw(p, "refused")
        /\ UNCHANGED <<base, plan>>
  /\ UNCHANGED <<lockVars, feature, branch, index, work, temp, done>>

-----------------------------------------------------------------------------
(* #promoteFeatureWorktreeToBase(), of a new merge or of a resumed one.    *)

Resuming(p) == plan[p].commit = <<>>
AfterPromote(p) == IF Resuming(p) THEN "resumeList" ELSE "materialize"

\* The status probe is the one failure here without committed: true.
Promote(p) ==
  /\ pc[p] = "promote"
  /\ \/ branch[featureRoot] = "base" /\ Goto(p, AfterPromote(p)) /\ UNCHANGED outcome
     \/ /\ branch[featureRoot] # "base"
        /\ \/ Clean(featureRoot) /\ Goto(p, "checkout") /\ UNCHANGED outcome
           \/ ~Clean(featureRoot) /\ Throw(p, "committedError")
           \/ "git" \in Failures /\ Throw(p, "refused")
     \/ "git" \in Failures /\ Throw(p, "committedError")
  /\ UNCHANGED <<lockVars, gitVars, plan, temp, done>>

\* git checkout base: refused when another worktree has base checked out, or
\* for a local change in its way.
Checkout(p) ==
  /\ pc[p] = "checkout"
  /\ \/ /\ BaseWorktrees \subseteq {featureRoot}
        /\ branch' = [branch EXCEPT ![featureRoot] = "base"]
        /\ index' = [index EXCEPT ![featureRoot] = Tree(base)]
        /\ Goto(p, AfterPromote(p))
        /\ UNCHANGED outcome
     \/ /\ \/ ~(BaseWorktrees \subseteq {featureRoot})
           \/ ReadTreeMayFail(featureRoot)
        /\ Throw(p, "committedError")
        /\ UNCHANGED <<branch, index>>
  /\ UNCHANGED <<lockVars, base, feature, work, plan, temp, done>>

-----------------------------------------------------------------------------
(* cleanlyMaterialize() of every base worktree that inspect() has listed.  *)

Materialize(p) ==
  /\ pc[p] = "materialize"
  /\ \E w \in plan[p].left :
       \/ /\ ReadTree(w, plan[p].base, plan[p].commit)
          /\ plan' = [plan EXCEPT ![p].left = @ \ {w}]
          /\ UNCHANGED <<pc, outcome>>
       \/ /\ ReadTreeMayFail(w)
          /\ Throw(p, "committedError")
          /\ UNCHANGED <<index, plan>>
  /\ UNCHANGED <<lockVars, base, feature, branch, work, temp, done>>

\* Mutant: only the first base worktree is materialized.
ReturnMergedEarly(p) ==
  /\ pc[p] = "materialize"
  /\ plan[p].left # plan[p].targets \/ plan[p].left = {}
  /\ outcome' = [outcome EXCEPT ![p] = "merged"]
  /\ Goto(p, "cleanup")
  /\ UNCHANGED <<lockVars, gitVars, plan, temp, done>>

ReturnMerged(p) ==
  /\ pc[p] = "materialize"
  /\ plan[p].left = {}
  /\ outcome' = [outcome EXCEPT ![p] = "merged"]
  /\ Goto(p, "cleanup")
  /\ UNCHANGED <<lockVars, gitVars, plan, temp, done>>

-----------------------------------------------------------------------------
(* #resume(): the commit is in base already.                               *)

\* Mutant: the caller's worktree is promoted by the publishing call only.
ResumeUnpromoted(p) ==
  /\ Inspecting(p, "resume")
  /\ plan' = [plan EXCEPT ![p].base = base, ![p].feature = feature]
  /\ Goto(p, "resumeList")
  /\ UNCHANGED outcome

\* plan.base is currentBase here.
Resume(p) ==
  /\ Inspecting(p, "resume")
  /\ plan' = [plan EXCEPT ![p].base = base, ![p].feature = feature]
  /\ Goto(p, IF promoteFeatureWorktreeToBase THEN "promote" ELSE "resumeList")
  /\ UNCHANGED outcome

ResumeList(p) ==
  /\ Inspecting(p, "resumeList")
  /\ plan' = [plan EXCEPT ![p].left = BaseWorktrees]
  /\ Goto(p, "resumeTargets")
  /\ UNCHANGED outcome

\* The status of the next worktree; targets remembers which one it is.
ResumeTarget(p) ==
  /\ Inspecting(p, "resumeTargets")
  /\ \E w \in plan[p].left :
       \/ /\ Clean(w)
          /\ plan' = [plan EXCEPT ![p].left = @ \ {w}, ![p].targets = {w}]
          /\ Goto(p, "resumeHead")
          /\ UNCHANGED outcome
       \/ /\ ~Clean(w)
          /\ Throw(p, "refused")
          /\ UNCHANGED plan

\* Its HEAD, which is base by now, is compared with currentBase.
ResumeHead(p) ==
  /\ pc[p] = "resumeHead"
  /\ \E w \in plan[p].targets :
       \/ /\ base = plan[p].base
          /\ Goto(p, "resumeTargets")
          /\ UNCHANGED <<index, outcome>>
       \/ /\ base # plan[p].base
          /\ ReadTree(w, base, plan[p].base)
          /\ Goto(p, "resumeTargets")
          /\ UNCHANGED outcome
       \/ /\ base # plan[p].base /\ ReadTreeMayFail(w)
          /\ Throw(p, "committedError")
          /\ UNCHANGED index
  /\ UNCHANGED <<lockVars, base, feature, branch, work, plan, temp, done>>

ReturnResumed(p) ==
  /\ pc[p] = "resumeTargets"
  /\ plan[p].left = {}
  /\ outcome' = [outcome EXCEPT ![p] = "resumed"]
  /\ Goto(p, "release")
  /\ UNCHANGED <<lockVars, gitVars, plan, temp, done>>

-----------------------------------------------------------------------------
(* The finally blocks.                                                     *)

\* worktree remove --force; a failure is only a warning.
RemoveWorktree(p) ==
  /\ pc[p] = "cleanup"
  /\ \/ temp' = [temp EXCEPT ![p] = FALSE]
     \/ "git" \in Failures /\ UNCHANGED temp
  /\ Goto(p, "release")
  /\ UNCHANGED <<lockVars, gitVars, plan, outcome, done>>

\* Nothing of the call remains.
Forget(p) ==
  /\ plan' = [plan EXCEPT ![p] = NoPlan]
  /\ temp' = [temp EXCEPT ![p] = FALSE]

\* Mutant: an error of the release is wrapped like a busy lock.
ReleaseErrorAsRefusal(p) ==
  /\ pc[p] = "release"
  /\ \/ Lock!Drop(p) /\ UNCHANGED outcome
     \/ /\ "lock" \in Failures
        /\ Lock!Drop(p) \/ UNCHANGED lockVars
        /\ outcome' = [outcome EXCEPT ![p] = "refused"]
  /\ Forget(p)
  /\ Goto(p, "returned")
  /\ UNCHANGED <<gitVars, done>>

\* lock.release() in the outer finally. It may throw, with the lock file in
\* place or after its removal, and its error then replaces the result, or the
\* error, with which the call was about to end.
Release(p) ==
  /\ pc[p] = "release"
  /\ \/ Lock!Drop(p) /\ UNCHANGED outcome
     \/ /\ "lock" \in Failures
        /\ Lock!Drop(p) \/ UNCHANGED lockVars
        /\ outcome' = [outcome EXCEPT ![p] = "lockError"]
  /\ Forget(p)
  /\ Goto(p, "returned")
  /\ UNCHANGED <<gitVars, done>>

\* The caller gets the result or the error.
Return(p) ==
  /\ pc[p] = "returned"
  /\ done' = (done \/ outcome[p] \in {"merged", "resumed"})
  /\ outcome' = [outcome EXCEPT ![p] = "none"]
  /\ Goto(p, "idle")
  /\ UNCHANGED <<lockVars, gitVars, plan, temp>>

\* The process dies anywhere; a registered worktree and its lock stay behind,
\* and the next call makes a new worktree.
Crash(p) ==
  /\ pc[p] # "idle"
  /\ birth[p] < MaxBirth
  /\ Lock!Die(p)
  /\ Forget(p)
  /\ outcome' = [outcome EXCEPT ![p] = "none"]
  /\ Goto(p, "idle")
  /\ UNCHANGED <<gitVars, done>>

-----------------------------------------------------------------------------
(* The users of the repository.                                            *)

UserStep(kind) ==
  /\ kind \in Users
  /\ UNCHANGED <<lockVars, callVars>>

\* An edit, or a merge or rebase begun, and its end.
UserEdit(w) ==
  /\ UserStep("edit")
  /\ work' = [work EXCEPT ![w] = IF @ = "clean" THEN "edited" ELSE "clean"]
  /\ UNCHANGED <<base, feature, branch, index>>

NewChange == {<<"user", Len(base)>>}

\* A commit in a base worktree takes its tree from that worktree's index.
UserCommit(w) ==
  /\ UserStep("commit")
  /\ branch[w] = "base" /\ Len(base) < MaxBase
  /\ index' = [index EXCEPT ![w] = @ \cup NewChange]
  /\ base' = Append(base, [marked |-> FALSE, tree |-> index'[w]])
  /\ UNCHANGED <<feature, branch, work>>

\* A fetch moves base forward; git refuses while base is checked out.
UserFetch ==
  /\ UserStep("fetch")
  /\ BaseWorktrees = {} /\ Len(base) < MaxBase
  /\ base' = Append(base, [marked |-> FALSE, tree |-> Tree(base) \cup NewChange])
  /\ UNCHANGED <<feature, branch, index, work>>

UserFeatureCommit ==
  /\ UserStep("feature")
  /\ branch[featureRoot] = "feature" /\ feature < MaxFeature
  /\ feature' = feature + 1
  /\ index' = [index EXCEPT ![featureRoot] = FeatureTree(feature')]
  /\ UNCHANGED <<base, branch, work>>

\* git can be told to check base out in a second worktree.
UserSwitch(w) ==
  /\ UserStep("switch")
  /\ branch[w] # "base" /\ work[w] = "clean"
  /\ branch' = [branch EXCEPT ![w] = "base"]
  /\ index' = [index EXCEPT ![w] = Tree(base)]
  /\ UNCHANGED <<base, feature, work>>

-----------------------------------------------------------------------------
Step(p) ==
  \/ AcquireReclaim(p) \/ AcquireTake(p) \/ AcquireBusy(p) \/ AcquireFails(p)
  \/ ExistingCommit(p)
  \/ InspectFails(p) \/ InspectBase(p) \/ InspectFeature(p) \/ InspectHead(p)
  \/ ListTargets(p) \/ InspectTarget(p) \/ Probe(p)
  \/ CreateWorktree(p) \/ SquashMerge(p) \/ CommitMerge(p) \/ Publish(p)
  \/ Promote(p) \/ Checkout(p) \/ Materialize(p) \/ ReturnMerged(p)
  \/ Resume(p) \/ ResumeList(p) \/ ResumeTarget(p) \/ ResumeHead(p) \/ ReturnResumed(p)
  \/ RemoveWorktree(p) \/ Release(p) \/ Return(p)

UserNext ==
  \/ \E w \in Worktrees : UserEdit(w) \/ UserCommit(w) \/ UserSwitch(w)
  \/ UserFetch \/ UserFeatureCommit

Next ==
  \/ \E p \in Procs : StartExecute(p) \/ Step(p) \/ Crash(p)
  \/ UserNext

Spec == Init /\ [][Next]_vars

\* A running call goes on, and one that ended without a result is repeated:
\* its outbox entry stays open and next-action names the command again.
FairSpec ==
  /\ Spec
  /\ \A p \in Procs : WF_vars(StartExecute(p)) /\ WF_vars(Step(p))

-----------------------------------------------------------------------------
(* Properties.                                                             *)

\* However calls are repeated, interrupted and overtaken, base gets the
\* marked commit of this outbox entry at most once.
NoDuplicateMerge ==
  \A i, j \in 1..Len(base) : base[i].marked /\ base[j].marked => i = j

\* Publishing never drops a commit somebody else has put on base: the ref
\* only moves forward along its own history.
BaseOnlyGrows ==
  [][/\ Len(base) <= Len(base')
     /\ SubSeq(base', 1, Len(base)) = base]_base

\* When execute() returns a new merge, every worktree it had listed holds the
\* feature's changes, whatever users did after the listing.
ReturnsMaterialized ==
  \A p \in Procs :
    pc[p] = "cleanup" /\ outcome[p] = "merged" =>
      \A w \in plan[p].targets : FeatureTree(plan[p].feature) \subseteq index[w]

\* The commit of the running call is in base.
PublishedBy(p) ==
  /\ plan[p].commit # <<>>
  /\ Len(plan[p].commit) <= Len(base)
  /\ SubSeq(base, 1, Len(plan[p].commit)) = plan[p].commit

\* A call ends with an error that the flow takes for a refusal to begin
\* (isAdmissionRejection), or with another error of the transaction not marked
\* committed, only when it has published nothing: whichever probe, merge,
\* materialization or removal fails, and also when the release of the lock does,
\* whose own error leaves the question open and is therefore no refusal.
ErrorsTellPublication ==
  [][\A p \in Procs :
       pc[p] = "release" /\ outcome'[p] \in {"refused", "error"} => ~PublishedBy(p)]_vars

\* A published merge reaches every worktree that has base checked out, and in
\* branch mode the caller's worktree moves to base: what a call that died has
\* left undone, a later one resumes.
Materialized ==
  /\ \A w \in BaseWorktrees : index[w] = Tree(base)
  /\ promoteFeatureWorktreeToBase => branch[featureRoot] = "base"

PublishedIsMaterialized == HasOutboxCommit(base) ~> Materialized

\* With repeated calls and finitely many crashes and foreign commits, some
\* call returns, and then base has the merge.
EventuallyMerged == <>(done /\ HasOutboxCommit(base))
=============================================================================
