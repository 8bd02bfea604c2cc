------------------------- MODULE FinalizeMergeProofs -------------------------
(***************************************************************************)
(* Proofs about FinalizeMerge for any number of processes, worktrees,      *)
(* commits and crashes. A call owns the lock from lookup to release, so    *)
(* nobody else publishes in between; what it has read stays true until its *)
(* compare-and-swap has confirmed that base has not moved.                 *)
(***************************************************************************)
EXTENDS FinalizeMerge, TLAPS

\* The marked commit is not in base yet, and this call is about to make it.
Prepared == {"create", "squash", "commit", "publish"}
Preparing == {"inspectBase", "inspectFeature", "inspectHead", "list", "inspectTargets"} \cup Prepared

\* This call has published and brings the worktrees up to date.
Publishing(p) ==
  \/ pc[p] \in {"promote", "checkout"} /\ ~Resuming(p)
  \/ pc[p] = "materialize"
Merged(p) == pc[p] = "cleanup" /\ outcome[p] = "merged"

OwnerOf(p) == [proc |-> p, birth |-> birth[p], token |-> 0]
LockInv == \A p \in Procs : pc[p] \notin {"idle", "acquire", "returned"} => lock = OwnerOf(p)

\* What the plan pl holds at a label: baseSha has been read, mergeCommit does
\* not exist yet, or is the squash of the feature onto baseSha.
PlanAt(label, pl) ==
  /\ label \in {"inspectFeature", "inspectHead", "list", "inspectTargets", "create",
                "squash", "commit", "publish", "promote", "checkout", "materialize",
                "resumeList", "resumeTargets", "resumeHead"}
       => Len(pl.base) > 0
  /\ label \in {"idle", "acquire", "returned", "lookup", "inspectBase", "inspectFeature", "inspectHead",
                "list", "inspectTargets", "create", "squash", "commit", "resume",
                "resumeList", "resumeTargets", "resumeHead"}
       => pl.commit = <<>>
  /\ label \in {"publish", "materialize"} => pl.commit = MergeCommit(pl)
  /\ label \in {"promote", "checkout"} => pl.commit = <<>> \/ pl.commit = MergeCommit(pl)

PlanInv == \A p \in Procs : PlanAt(pc[p], plan[p])

\* lookup found no marked commit, and nobody has made one since.
MarkInv == \A p \in Procs : pc[p] \in Preparing => ~HasOutboxCommit(base)

\* The listed worktrees have base checked out, and as long as base is the one
\* the call has read, the inspected ones hold at least its tree.
TargetOk(p) ==
  /\ pc[p] \in {"inspectTargets"} \cup Prepared \/ Publishing(p) \/ Merged(p)
       => \A w \in plan[p].targets : branch[w] = "base"
  /\ pc[p] \in Preparing \ {"inspectBase"} => Len(plan[p].base) <= Len(base)
  /\ pc[p] \in {"inspectTargets"} \cup Prepared /\ base = plan[p].base
       => \A w \in plan[p].targets \ plan[p].left : Tree(plan[p].base) \subseteq index[w]
  /\ pc[p] \in Prepared => plan[p].left = {}
  /\ Publishing(p) => \A w \in plan[p].targets : Tree(plan[p].base) \subseteq index[w]
  /\ pc[p] = "checkout" /\ ~Resuming(p) => featureRoot \notin plan[p].targets
  /\ pc[p] \in {"promote", "checkout"} /\ ~Resuming(p) => plan[p].left = plan[p].targets
  /\ pc[p] = "materialize"
       => \A w \in plan[p].targets \ plan[p].left : FeatureTree(plan[p].feature) \subseteq index[w]
  /\ Merged(p) => \A w \in plan[p].targets : FeatureTree(plan[p].feature) \subseteq index[w]

TargetInv == \A p \in Procs : TargetOk(p)

-----------------------------------------------------------------------------
(* Facts about the operators.                                              *)

\* The tree of a sha contains known changes.
LEMMA TreeType ==
  ASSUME NEW s \in Shas, Len(s) > 0
  PROVE  Tree(s) \in SUBSET Changes
<1>1. s[Len(s)] \in Commits
  BY DEF Shas
<1>2. QED
  BY <1>1 DEF Tree, Commits

\* So does the tree of the feature branch.
LEMMA FeatureTreeType ==
  ASSUME NEW n \in Nat
  PROVE  FeatureTree(n) \in SUBSET Changes
BY DEF FeatureTree, Changes

\* A commit on top of a sha: its length, tree and history.
LEMMA AppendSha ==
  ASSUME NEW s \in Shas, NEW c \in Commits
  PROVE  /\ Append(s, c) \in Shas
         /\ Len(Append(s, c)) = Len(s) + 1
         /\ Tree(Append(s, c)) = c.tree
         /\ \A i \in 1..Len(s) : Append(s, c)[i] = s[i]
         /\ Append(s, c)[Len(s) + 1] = c
BY DEF Shas, Tree

\* A new commit keeps the history before it.
LEMMA AppendHistory ==
  ASSUME NEW s \in Shas, NEW c \in Commits
  PROVE  SubSeq(Append(s, c), 1, Len(s)) = s
BY DEF Shas

\* A commit by somebody else adds no marker.
LEMMA AppendUnmarked ==
  ASSUME NEW s \in Shas, NEW c \in Commits, ~c.marked
  PROVE  HasOutboxCommit(Append(s, c)) <=> HasOutboxCommit(s)
BY AppendSha DEF HasOutboxCommit, Shas

\* The squash commit of a plan whose baseSha has been read.
LEMMA MergeCommitType ==
  ASSUME NEW pl \in Plans, Len(pl.base) > 0
  PROVE  /\ [marked |-> TRUE, tree |-> MergedTree(pl)] \in Commits
         /\ MergeCommit(pl) \in Shas
         /\ Len(MergeCommit(pl)) = Len(pl.base) + 1
         /\ Tree(MergeCommit(pl)) = MergedTree(pl)
         /\ MergeCommit(pl) # <<>>
<1>1. pl.base \in Shas /\ pl.feature \in Nat
  BY DEF Plans
<1>2. MergedTree(pl) \in SUBSET Changes
  BY <1>1, TreeType, FeatureTreeType DEF MergedTree
<1>3. [marked |-> TRUE, tree |-> MergedTree(pl)] \in Commits
  BY <1>2 DEF Commits
<1>4. /\ MergeCommit(pl) \in Shas
      /\ Len(MergeCommit(pl)) = Len(pl.base) + 1
      /\ Tree(MergeCommit(pl)) = MergedTree(pl)
  BY <1>1, <1>3, AppendSha DEF MergeCommit
<1>5. MergeCommit(pl) # <<>>
  BY <1>1, <1>4 DEF Shas
<1>6. QED
  BY <1>3, <1>4, <1>5

\* The empty plan is a plan, and suits a process outside a call.
LEMMA NoPlanType == NoPlan \in Plans /\ PlanAt("idle", NoPlan) /\ PlanAt("returned", NoPlan)
BY DEF NoPlan, Plans, Shas, PlanAt

-----------------------------------------------------------------------------
(* Types, and what the plan holds at each label.                           *)

\* The part of TypeOK that the plans do not depend on, and the rest.
RestType ==
  /\ lock \in Owners \cup {None}
  /\ birth \in [Procs -> Nat]
  /\ base \in Shas /\ Len(base) > 0
  /\ feature \in Nat
  /\ branch \in [Worktrees -> {"base", "feature", "other"}]
  /\ index \in [Worktrees -> SUBSET Changes]
  /\ work \in [Worktrees -> {"clean", "edited"}]
  /\ temp \in [Procs -> BOOLEAN]
  /\ outcome \in [Procs -> Outcomes]
  /\ done \in BOOLEAN

CallInv ==
  /\ pc \in [Procs -> Labels]
  /\ plan \in [Procs -> Plans]
  /\ PlanInv

\* Type correctness, split into what calls may and may not disturb.
LEMMA TypeSplit == TypeOK /\ PlanInv <=> RestType /\ CallInv
BY DEF TypeOK, RestType, CallInv

\* One process goes to a label with a plan that suits it.
LEMMA CallStep ==
  ASSUME CallInv, NEW p \in Procs, NEW label \in Labels, NEW pl \in Plans,
         pc' = [pc EXCEPT ![p] = label], plan' = [plan EXCEPT ![p] = pl],
         PlanAt(label, pl)
  PROVE  CallInv'
<1>1. pc' \in [Procs -> Labels] /\ plan' \in [Procs -> Plans]
  BY DEF CallInv
<1>2. ASSUME NEW q \in Procs PROVE PlanAt(pc'[q], plan'[q])
  <2>1. CASE q = p
    BY <2>1 DEF CallInv
  <2>2. CASE q # p
    BY <2>2 DEF CallInv, PlanInv
  <2>3. QED
    BY <2>1, <2>2
<1>3. QED
  BY <1>1, <1>2 DEF CallInv, PlanInv

\* A process goes to another label with the plan it has.
LEMMA CallGoto ==
  ASSUME CallInv, NEW p \in Procs, NEW label \in Labels, Goto(p, label), UNCHANGED plan,
         PlanAt(label, plan[p])
  PROVE  CallInv'
<1>1. plan[p] \in Plans /\ plan' = [plan EXCEPT ![p] = plan[p]]
  BY DEF CallInv
<1>2. QED
  BY <1>1, CallStep DEF Goto

\* An exception keeps the plan for the finally blocks.
LEMMA CallThrow ==
  ASSUME CallInv, NEW p \in Procs, NEW kind, Throw(p, kind), UNCHANGED plan
  PROVE  CallInv'
<1>1. PlanAt("cleanup", plan[p]) /\ PlanAt("release", plan[p])
  BY DEF PlanAt
<1>2. QED
  BY <1>1, CallGoto DEF Throw, Goto, Labels

\* The end of a call, by its release or by a crash, leaves the empty plan.
LEMMA CallForget ==
  ASSUME CallInv, NEW p \in Procs, Forget(p), NEW label \in {"idle", "returned"}, Goto(p, label)
  PROVE  CallInv'
BY NoPlanType, CallStep DEF Forget, Goto, Labels

\* Nothing runs initially.
LEMMA TypeInit == Init => RestType /\ CallInv
<1> SUFFICES ASSUME Init PROVE RestType /\ CallInv
  OBVIOUS
<1>1. FeatureTree(1) \in SUBSET Changes
  BY FeatureTreeType
<1>2. base \in Shas /\ Len(base) = 1
  BY DEF Init, Shas, Commits
<1>a. lock = None /\ birth \in [Procs -> Nat] /\ feature \in Nat /\ done \in BOOLEAN
  BY DEF Init
<1>b. branch \in [Worktrees -> {"base", "feature", "other"}] /\ work \in [Worktrees -> {"clean", "edited"}]
  BY DEF Init
<1>c. index \in [Worktrees -> SUBSET Changes]
  BY <1>1 DEF Init
<1>d. temp \in [Procs -> BOOLEAN] /\ outcome \in [Procs -> Outcomes]
  BY DEF Init, Outcomes
<1>3. RestType
  BY <1>a, <1>b, <1>c, <1>d, <1>2 DEF RestType
<1>4. CallInv
  BY NoPlanType DEF Init, CallInv, PlanInv, Labels
<1>5. QED
  BY <1>3, <1>4

\* Every step keeps the plans.
LEMMA CallNext == RestType /\ CallInv /\ [Next]_vars => CallInv'
<1> SUFFICES ASSUME RestType, CallInv, [Next]_vars
             PROVE  CallInv'
  OBVIOUS
<1>p. \A p \in Procs : plan[p] \in Plans /\ PlanAt(pc[p], plan[p])
  BY DEF CallInv, PlanInv
<1>1. ASSUME NEW p \in Procs, StartExecute(p)
     PROVE  CallInv'
  <2>1. PlanAt("acquire", plan[p])
    BY <1>1, <1>p DEF StartExecute, PlanAt
  <2>2. QED
    BY <1>1, <2>1, CallGoto, CallThrow DEF StartExecute, Labels
<1>2. ASSUME NEW p \in Procs, AcquireReclaim(p)
     PROVE  CallInv'
  BY <1>2 DEF AcquireReclaim, callVars, CallInv, PlanInv
<1>3. ASSUME NEW p \in Procs, AcquireTake(p)
     PROVE  CallInv'
  <2>1. PlanAt("lookup", plan[p])
    BY <1>3, <1>p DEF AcquireTake, PlanAt
  <2>2. QED
    BY <1>3, <2>1, CallGoto, CallThrow DEF AcquireTake, Labels
<1>4. ASSUME NEW p \in Procs, AcquireBusy(p)
     PROVE  CallInv'
  <2>1. PlanAt("idle", plan[p])
    BY <1>4, <1>p DEF AcquireBusy, PlanAt
  <2>2. QED
    BY <1>4, <2>1, CallGoto, CallThrow DEF AcquireBusy, Labels
<1>4a. ASSUME NEW p \in Procs, AcquireFails(p)
     PROVE  CallInv'
  <2>1. PlanAt("idle", plan[p])
    BY <1>4a, <1>p DEF AcquireFails, PlanAt
  <2>2. QED
    BY <1>4a, <2>1, CallGoto DEF AcquireFails, Labels
<1>5. ASSUME NEW p \in Procs, ExistingCommit(p)
     PROVE  CallInv'
  <2>1. PlanAt("resume", plan[p]) /\ PlanAt("inspectBase", plan[p])
    BY <1>5, <1>p DEF ExistingCommit, PlanAt
  <2>2. QED
    BY <1>5, <2>1, CallGoto, CallThrow DEF ExistingCommit, Labels
<1>6. ASSUME NEW p \in Procs, InspectFails(p)
     PROVE  CallInv'
  BY <1>6, CallThrow DEF InspectFails
<1>7. ASSUME NEW p \in Procs, InspectBase(p)
     PROVE  CallInv'
  <2> DEFINE pl == [plan[p] EXCEPT !.base = base]
  <2>1. pl \in Plans /\ PlanAt("inspectFeature", pl)
    BY <1>7, <1>p DEF InspectBase, Inspecting, Plans, PlanAt, RestType
  <2>2. plan' = [plan EXCEPT ![p] = pl] /\ Goto(p, "inspectFeature")
    BY <1>7 DEF InspectBase, Inspecting, CallInv
  <2>3. QED
    BY <2>1, <2>2, CallStep DEF Goto, Labels
<1>8. ASSUME NEW p \in Procs, InspectFeature(p)
     PROVE  CallInv'
  <2> DEFINE pl == [plan[p] EXCEPT !.feature = feature]
  <2>1. pl \in Plans /\ PlanAt("inspectHead", pl)
    BY <1>8, <1>p DEF InspectFeature, Inspecting, Plans, PlanAt, RestType
  <2>2. plan' = [plan EXCEPT ![p] = pl] /\ Goto(p, "inspectHead")
    BY <1>8 DEF InspectFeature, Inspecting, CallInv
  <2>3. QED
    BY <2>1, <2>2, CallStep DEF Goto, Labels
<1>9. ASSUME NEW p \in Procs, InspectHead(p)
     PROVE  CallInv'
  <2>1. PlanAt("list", plan[p])
    BY <1>9, <1>p DEF InspectHead, Inspecting, PlanAt
  <2>2. QED
    BY <1>9, <2>1, CallGoto, CallThrow DEF InspectHead, Inspecting, Labels
<1>10. ASSUME NEW p \in Procs, ListTargets(p)
     PROVE  CallInv'
  <2> DEFINE pl == [plan[p] EXCEPT !.targets = BaseWorktrees, !.left = BaseWorktrees]
  <2>1. pl \in Plans /\ PlanAt("inspectTargets", pl)
    BY <1>10, <1>p DEF ListTargets, Inspecting, Plans, PlanAt, RestType, BaseWorktrees
  <2>2. plan' = [plan EXCEPT ![p] = pl] /\ Goto(p, "inspectTargets")
    BY <1>10 DEF ListTargets, Inspecting, CallInv
  <2>3. QED
    BY <2>1, <2>2, CallStep DEF Goto, Labels
<1>11. ASSUME NEW p \in Procs, InspectTarget(p)
     PROVE  CallInv'
  <2>1. ASSUME NEW w \in plan[p].left,
               plan' = [plan EXCEPT ![p].left = @ \ {w}], UNCHANGED pc
        PROVE  CallInv'
    <3> DEFINE pl == [plan[p] EXCEPT !.left = plan[p].left \ {w}]
    <3>1. pl \in Plans /\ PlanAt("inspectTargets", pl)
      BY <1>11, <1>p DEF InspectTarget, Inspecting, Plans, PlanAt
    <3>2. plan' = [plan EXCEPT ![p] = pl] /\ pc' = [pc EXCEPT ![p] = "inspectTargets"]
      BY <1>11, <2>1 DEF InspectTarget, Inspecting, CallInv, Goto
    <3>3. QED
      BY <3>1, <3>2, CallStep DEF Labels
  <2>2. QED
    BY <1>11, <2>1, CallThrow DEF InspectTarget, Inspecting
<1>12. ASSUME NEW p \in Procs, Probe(p)
     PROVE  CallInv'
  <2>1. PlanAt("create", plan[p])
    BY <1>12, <1>p DEF Probe, Inspecting, PlanAt
  <2>2. QED
    BY <1>12, <2>1, CallGoto, CallThrow DEF Probe, Inspecting, Labels
<1>13. ASSUME NEW p \in Procs, CreateWorktree(p)
     PROVE  CallInv'
  <2>1. PlanAt("squash", plan[p])
    BY <1>13, <1>p DEF CreateWorktree, PlanAt
  <2>2. QED
    BY <1>13, <2>1, CallGoto, CallThrow DEF CreateWorktree, Labels
<1>14. ASSUME NEW p \in Procs, SquashMerge(p)
     PROVE  CallInv'
  <2>1. PlanAt("commit", plan[p])
    BY <1>14, <1>p DEF SquashMerge, PlanAt
  <2>2. QED
    BY <1>14, <2>1, CallGoto, CallThrow DEF SquashMerge, Labels
<1>15. ASSUME NEW p \in Procs, CommitMerge(p)
     PROVE  CallInv'
  <2>1. ASSUME plan' = [plan EXCEPT ![p].commit = MergeCommit(plan[p])], Goto(p, "publish")
        PROVE  CallInv'
    <3> DEFINE pl == [plan[p] EXCEPT !.commit = MergeCommit(plan[p])]
    <3>1. MergeCommit(plan[p]) \in Shas
      BY <1>15, <1>p, MergeCommitType DEF CommitMerge, PlanAt
    <3>2. MergeCommit(pl) = MergeCommit(plan[p])
      BY <1>p DEF MergeCommit, MergedTree, Plans
    <3>3. pl \in Plans /\ PlanAt("publish", pl)
      BY <1>15, <1>p, <3>1, <3>2 DEF CommitMerge, Plans, PlanAt
    <3>4. plan' = [plan EXCEPT ![p] = pl]
      BY <2>1 DEF CallInv
    <3>5. QED
      BY <2>1, <3>3, <3>4, CallStep DEF Goto, Labels
  <2>2. QED
    BY <1>15, <2>1, CallThrow DEF CommitMerge
<1>16. ASSUME NEW p \in Procs, Publish(p)
     PROVE  CallInv'
  <2>1. ASSUME plan' = [plan EXCEPT ![p].left = plan[p].targets], Goto(p, AfterPublish)
        PROVE  CallInv'
    <3> DEFINE pl == [plan[p] EXCEPT !.left = plan[p].targets]
    <3>1. MergeCommit(pl) = MergeCommit(plan[p])
      BY <1>p DEF MergeCommit, MergedTree, Plans
    <3>2. pl \in Plans /\ PlanAt("promote", pl) /\ PlanAt("materialize", pl)
      BY <1>16, <1>p, <3>1 DEF Publish, Plans, PlanAt
    <3>3. plan' = [plan EXCEPT ![p] = pl]
      BY <2>1 DEF CallInv
    <3>4. QED
      BY <2>1, <3>2, <3>3, CallStep DEF Goto, AfterPublish, Labels
  <2>2. QED
    BY <1>16, <2>1, CallThrow DEF Publish
<1>17. ASSUME NEW p \in Procs, Promote(p)
     PROVE  CallInv'
  <2>1. PlanAt("checkout", plan[p]) /\ PlanAt(AfterPromote(p), plan[p])
    BY <1>17, <1>p DEF Promote, PlanAt, AfterPromote, Resuming
  <2>2. AfterPromote(p) \in Labels /\ "checkout" \in Labels
    BY DEF AfterPromote, Labels
  <2>3. QED
    BY <1>17, <2>1, <2>2, CallGoto, CallThrow DEF Promote
<1>18. ASSUME NEW p \in Procs, Checkout(p)
     PROVE  CallInv'
  <2>1. PlanAt("checkout", plan[p]) /\ PlanAt(AfterPromote(p), plan[p])
    BY <1>18, <1>p DEF Checkout, PlanAt, AfterPromote, Resuming
  <2>2. AfterPromote(p) \in Labels /\ "checkout" \in Labels
    BY DEF AfterPromote, Labels
  <2>3. QED
    BY <1>18, <2>1, <2>2, CallGoto, CallThrow DEF Checkout
<1>19. ASSUME NEW p \in Procs, Materialize(p)
     PROVE  CallInv'
  <2>1. ASSUME NEW w \in plan[p].left,
               plan' = [plan EXCEPT ![p].left = @ \ {w}], UNCHANGED pc
        PROVE  CallInv'
    <3> DEFINE pl == [plan[p] EXCEPT !.left = plan[p].left \ {w}]
    <3>1. pl \in Plans /\ PlanAt("materialize", pl)
      BY <1>19, <1>p DEF Materialize, Plans, PlanAt, MergeCommit, MergedTree
    <3>2. plan' = [plan EXCEPT ![p] = pl] /\ pc' = [pc EXCEPT ![p] = "materialize"]
      BY <1>19, <2>1 DEF Materialize, CallInv, Goto
    <3>3. QED
      BY <3>1, <3>2, CallStep DEF Labels
  <2>2. QED
    BY <1>19, <2>1, CallThrow DEF Materialize
<1>20. ASSUME NEW p \in Procs, ReturnMerged(p)
     PROVE  CallInv'
  <2>1. PlanAt("cleanup", plan[p])
    BY <1>20, <1>p DEF ReturnMerged, PlanAt
  <2>2. QED
    BY <1>20, <2>1, CallGoto, CallThrow DEF ReturnMerged, Labels
<1>21. ASSUME NEW p \in Procs, Resume(p)
     PROVE  CallInv'
  <2> DEFINE pl == [plan[p] EXCEPT !.base = base, !.feature = feature]
  <2>1. pl \in Plans /\ PlanAt("promote", pl) /\ PlanAt("resumeList", pl)
    BY <1>21, <1>p DEF Resume, Inspecting, Plans, PlanAt, RestType
  <2>2. plan' = [plan EXCEPT ![p] = pl]
    BY <1>21 DEF Resume, Inspecting, CallInv
  <2>3. QED
    BY <1>21, <2>1, <2>2, CallStep DEF Resume, Goto, Labels
<1>22. ASSUME NEW p \in Procs, ResumeList(p)
     PROVE  CallInv'
  <2> DEFINE pl == [plan[p] EXCEPT !.left = BaseWorktrees]
  <2>1. pl \in Plans /\ PlanAt("resumeTargets", pl)
    BY <1>22, <1>p DEF ResumeList, Inspecting, Plans, PlanAt, RestType, BaseWorktrees
  <2>2. plan' = [plan EXCEPT ![p] = pl] /\ Goto(p, "resumeTargets")
    BY <1>22 DEF ResumeList, Inspecting, CallInv
  <2>3. QED
    BY <2>1, <2>2, CallStep DEF Goto, Labels
<1>23. ASSUME NEW p \in Procs, ResumeTarget(p)
     PROVE  CallInv'
  <2>1. ASSUME NEW w \in plan[p].left,
               plan' = [plan EXCEPT ![p].left = @ \ {w}, ![p].targets = {w}], Goto(p, "resumeHead")
        PROVE  CallInv'
    <3> DEFINE pl == [plan[p] EXCEPT !.left = plan[p].left \ {w}, !.targets = {w}]
    <3>1. pl \in Plans /\ PlanAt("resumeHead", pl)
      BY <1>23, <1>p DEF ResumeTarget, Inspecting, Plans, PlanAt
    <3>2. plan' = [plan EXCEPT ![p] = pl] /\ pc' = [pc EXCEPT ![p] = "resumeHead"]
      BY <1>23, <2>1 DEF ResumeTarget, Inspecting, CallInv, Goto
    <3>3. QED
      BY <3>1, <3>2, CallStep DEF Labels
  <2>2. QED
    BY <1>23, <2>1, CallThrow DEF ResumeTarget, Inspecting
<1>24. ASSUME NEW p \in Procs, ResumeHead(p)
     PROVE  CallInv'
  <2>1. PlanAt("resumeTargets", plan[p])
    BY <1>24, <1>p DEF ResumeHead, PlanAt
  <2>2. QED
    BY <1>24, <2>1, CallGoto, CallThrow DEF ResumeHead, Labels
<1>25. ASSUME NEW p \in Procs, ReturnResumed(p)
     PROVE  CallInv'
  <2>1. PlanAt("release", plan[p])
    BY <1>25, <1>p DEF ReturnResumed, PlanAt
  <2>2. QED
    BY <1>25, <2>1, CallGoto, CallThrow DEF ReturnResumed, Labels
<1>26. ASSUME NEW p \in Procs, RemoveWorktree(p)
     PROVE  CallInv'
  <2>1. PlanAt("release", plan[p])
    BY <1>26, <1>p DEF RemoveWorktree, PlanAt
  <2>2. QED
    BY <1>26, <2>1, CallGoto, CallThrow DEF RemoveWorktree, Labels
<1>27. ASSUME NEW p \in Procs, Release(p)
     PROVE  CallInv'
  BY <1>27, CallForget DEF Release
<1>27a. ASSUME NEW p \in Procs, Return(p)
     PROVE  CallInv'
  <2>1. PlanAt("idle", plan[p])
    BY <1>27a, <1>p DEF Return, PlanAt
  <2>2. QED
    BY <1>27a, <2>1, CallGoto DEF Return, Labels
<1>28. ASSUME NEW p \in Procs, Crash(p)
     PROVE  CallInv'
  BY <1>28, CallForget DEF Crash
<1>29. ASSUME NEW w \in Worktrees, UserEdit(w)
     PROVE  CallInv'
  BY <1>29 DEF UserEdit, UserStep, callVars, CallInv, PlanInv
<1>30. ASSUME NEW w \in Worktrees, UserCommit(w)
     PROVE  CallInv'
  BY <1>30 DEF UserCommit, UserStep, callVars, CallInv, PlanInv
<1>31. ASSUME NEW w \in Worktrees, UserSwitch(w)
     PROVE  CallInv'
  BY <1>31 DEF UserSwitch, UserStep, callVars, CallInv, PlanInv
<1>32. ASSUME UserFetch
     PROVE  CallInv'
  BY <1>32 DEF UserFetch, UserStep, callVars, CallInv, PlanInv
<1>33. ASSUME UserFeatureCommit
     PROVE  CallInv'
  BY <1>33 DEF UserFeatureCommit, UserStep, callVars, CallInv, PlanInv
<1>34. CASE UNCHANGED vars
  BY <1>34 DEF vars, lockVars, gitVars, callVars, CallInv, PlanInv
<1>35. QED
  BY <1>1, <1>2, <1>3, <1>4, <1>4a, <1>5, <1>6, <1>7, <1>8, <1>9, <1>10, <1>11, <1>12, <1>13, <1>14, <1>15, <1>16, <1>17, <1>18, <1>19, <1>20, <1>21, <1>22, <1>23, <1>24, <1>25, <1>26, <1>27, <1>27a, <1>28, <1>29, <1>30, <1>31, <1>32, <1>33, <1>34 DEF Next, Step, UserNext

\* Every step keeps the other types.
LEMMA RestNext == RestType /\ CallInv /\ [Next]_vars => RestType'
<1> SUFFICES ASSUME RestType, CallInv, [Next]_vars
             PROVE  RestType'
  OBVIOUS
<1> USE MergeAssumption DEF RestType, Owners, Outcomes
<1>p. \A p \in Procs : plan[p] \in Plans /\ PlanAt(pc[p], plan[p])
  BY DEF CallInv, PlanInv
<1>b. Tree(base) \in SUBSET Changes
  BY TreeType
<1>c. NewChange \in SUBSET Changes
  BY DEF NewChange, Changes, Shas
<1>1. ASSUME NEW p \in Procs, StartExecute(p)
     PROVE  RestType'
  BY <1>1, <1>b DEF StartExecute, Goto, lockVars, gitVars, callVars
<1>2. ASSUME NEW p \in Procs, AcquireReclaim(p)
     PROVE  RestType'
  BY <1>2, <1>b DEF AcquireReclaim, Lock!Reclaim, Lock!Live, lockVars, gitVars, callVars
<1>3. ASSUME NEW p \in Procs, AcquireTake(p)
     PROVE  RestType'
  BY <1>3, <1>b DEF AcquireTake, Lock!TakeAs, Lock!Live, Goto, lockVars, gitVars, callVars
<1>4. ASSUME NEW p \in Procs, AcquireBusy(p)
     PROVE  RestType'
  BY <1>4, <1>b DEF AcquireBusy, Goto, lockVars, gitVars, callVars
<1>4a. ASSUME NEW p \in Procs, AcquireFails(p)
     PROVE  RestType'
  BY <1>4a, <1>b DEF AcquireFails, Lock!TakeAs, Lock!Live, Goto, lockVars, gitVars, callVars
<1>5. ASSUME NEW p \in Procs, ExistingCommit(p)
     PROVE  RestType'
  BY <1>5, <1>b DEF ExistingCommit, Goto, lockVars, gitVars, callVars
<1>6. ASSUME NEW p \in Procs, InspectFails(p)
     PROVE  RestType'
  BY <1>6, <1>b DEF InspectFails, Throw, Goto, lockVars, gitVars, callVars
<1>7. ASSUME NEW p \in Procs, InspectBase(p)
     PROVE  RestType'
  BY <1>7, <1>b DEF InspectBase, Inspecting, Goto, lockVars, gitVars, callVars
<1>8. ASSUME NEW p \in Procs, InspectFeature(p)
     PROVE  RestType'
  BY <1>8, <1>b DEF InspectFeature, Inspecting, Goto, lockVars, gitVars, callVars
<1>9. ASSUME NEW p \in Procs, InspectHead(p)
     PROVE  RestType'
  BY <1>9, <1>b DEF InspectHead, Inspecting, Throw, Goto, lockVars, gitVars, callVars
<1>10. ASSUME NEW p \in Procs, ListTargets(p)
     PROVE  RestType'
  BY <1>10, <1>b DEF ListTargets, Inspecting, Goto, BaseWorktrees, lockVars, gitVars, callVars
<1>11. ASSUME NEW p \in Procs, InspectTarget(p)
     PROVE  RestType'
  BY <1>11, <1>b DEF InspectTarget, Inspecting, Throw, Goto, lockVars, gitVars, callVars
<1>12. ASSUME NEW p \in Procs, Probe(p)
     PROVE  RestType'
  BY <1>12, <1>b DEF Probe, Inspecting, Throw, Goto, lockVars, gitVars, callVars
<1>13. ASSUME NEW p \in Procs, CreateWorktree(p)
     PROVE  RestType'
  BY <1>13, <1>b DEF CreateWorktree, Throw, Goto, lockVars, gitVars, callVars
<1>14. ASSUME NEW p \in Procs, SquashMerge(p)
     PROVE  RestType'
  BY <1>14, <1>b DEF SquashMerge, Throw, Goto, lockVars, gitVars, callVars
<1>15. ASSUME NEW p \in Procs, CommitMerge(p)
     PROVE  RestType'
  BY <1>15, <1>b DEF CommitMerge, Throw, Goto, lockVars, gitVars, callVars
<1>16. ASSUME NEW p \in Procs, Publish(p)
     PROVE  RestType'
  <2>1. Len(plan[p].base) > 0 /\ plan[p].commit = MergeCommit(plan[p])
    BY <1>16, <1>p DEF Publish, PlanAt
  <2>2. plan[p].commit \in Shas /\ Len(plan[p].commit) > 0
    <3>1. plan[p].base \in Shas /\ Len(plan[p].base) \in Nat
      BY <1>p DEF Plans, Shas
    <3>2. MergeCommit(plan[p]) \in Shas /\ Len(MergeCommit(plan[p])) = Len(plan[p].base) + 1
      BY <1>p, <2>1, MergeCommitType
    <3>3. QED
      BY <2>1, <3>1, <3>2
  <2>3. QED
    BY <1>16, <2>2 DEF Publish, Throw, Goto, AfterPublish, lockVars, gitVars, callVars
<1>17. ASSUME NEW p \in Procs, Promote(p)
     PROVE  RestType'
  BY <1>17, <1>b DEF Promote, Throw, Goto, AfterPromote, Resuming, lockVars, gitVars, callVars
<1>18. ASSUME NEW p \in Procs, Checkout(p)
     PROVE  RestType'
  <2>1. branch' \in [Worktrees -> {"base", "feature", "other"}] /\ index' \in [Worktrees -> SUBSET Changes]
    BY <1>18, <1>b DEF Checkout
  <2>2. outcome' \in [Procs -> Outcomes]
    BY <1>18 DEF Checkout, Throw
  <2>3. QED
    BY <1>18, <2>1, <2>2 DEF Checkout, lockVars
<1>19. ASSUME NEW p \in Procs, Materialize(p)
     PROVE  RestType'
  <2>1. Len(plan[p].base) > 0 /\ plan[p].commit = MergeCommit(plan[p])
    BY <1>19, <1>p DEF Materialize, PlanAt
  <2>2. Tree(plan[p].commit) \in SUBSET Changes
    <3>1. plan[p].base \in Shas /\ Len(plan[p].base) \in Nat
      BY <1>p DEF Plans, Shas
    <3>2. MergeCommit(plan[p]) \in Shas /\ Len(MergeCommit(plan[p])) = Len(plan[p].base) + 1
      BY <1>p, <2>1, MergeCommitType
    <3>3. plan[p].commit \in Shas /\ Len(plan[p].commit) > 0
      BY <2>1, <3>1, <3>2
    <3>4. QED
      BY <3>3, TreeType
  <2>3. index' \in [Worktrees -> SUBSET Changes]
    BY <1>19, <2>2 DEF Materialize, ReadTree
  <2>4. outcome' \in [Procs -> Outcomes]
    BY <1>19 DEF Materialize, Throw
  <2>5. QED
    BY <1>19, <2>3, <2>4 DEF Materialize, lockVars
<1>20. ASSUME NEW p \in Procs, ReturnMerged(p)
     PROVE  RestType'
  BY <1>20, <1>b DEF ReturnMerged, Goto, lockVars, gitVars, callVars
<1>21. ASSUME NEW p \in Procs, Resume(p)
     PROVE  RestType'
  BY <1>21, <1>b DEF Resume, Inspecting, Goto, lockVars, gitVars, callVars
<1>22. ASSUME NEW p \in Procs, ResumeList(p)
     PROVE  RestType'
  BY <1>22, <1>b DEF ResumeList, Inspecting, Goto, BaseWorktrees, lockVars, gitVars, callVars
<1>23. ASSUME NEW p \in Procs, ResumeTarget(p)
     PROVE  RestType'
  BY <1>23, <1>b DEF ResumeTarget, Inspecting, Throw, Goto, lockVars, gitVars, callVars
<1>24. ASSUME NEW p \in Procs, ResumeHead(p)
     PROVE  RestType'
  <2>1. Tree(plan[p].base) \in SUBSET Changes
    BY <1>24, <1>p, TreeType DEF ResumeHead, PlanAt, Plans
  <2>2. QED
    <3>1. index' \in [Worktrees -> SUBSET Changes]
      BY <1>24, <2>1, <1>b DEF ResumeHead, ReadTree
    <3>2. outcome' \in [Procs -> Outcomes]
      BY <1>24 DEF ResumeHead, Throw
    <3>3. QED
      BY <1>24, <3>1, <3>2 DEF ResumeHead, lockVars
<1>25. ASSUME NEW p \in Procs, ReturnResumed(p)
     PROVE  RestType'
  BY <1>25, <1>b DEF ReturnResumed, Goto, lockVars, gitVars, callVars
<1>26. ASSUME NEW p \in Procs, RemoveWorktree(p)
     PROVE  RestType'
  BY <1>26, <1>b DEF RemoveWorktree, Goto, lockVars, gitVars, callVars
<1>27. ASSUME NEW p \in Procs, Release(p)
     PROVE  RestType'
  BY <1>27, <1>b DEF Release, Lock!Drop, Lock!Live, Forget, Goto, lockVars, gitVars, callVars
<1>27a. ASSUME NEW p \in Procs, Return(p)
     PROVE  RestType'
  BY <1>27a, <1>b DEF Return, Goto, lockVars, gitVars, callVars
<1>28. ASSUME NEW p \in Procs, Crash(p)
     PROVE  RestType'
  BY <1>28, <1>b DEF Crash, Lock!Die, Forget, Goto, lockVars, gitVars, callVars
<1>29. ASSUME NEW w \in Worktrees, UserEdit(w)
     PROVE  RestType'
  BY <1>29, <1>b DEF UserEdit, UserStep, lockVars, gitVars, callVars
<1>30. ASSUME NEW w \in Worktrees, UserCommit(w)
     PROVE  RestType'
  <2>1. index' \in [Worktrees -> SUBSET Changes] /\ index'[w] \in SUBSET Changes
    BY <1>30, <1>c DEF UserCommit
  <2>2. base' \in Shas /\ Len(base') > 0
    BY <1>30, <2>1, AppendSha DEF UserCommit, Commits, Shas
  <2>3. QED
    BY <1>30, <2>1, <2>2 DEF UserCommit, UserStep, NewChange, lockVars, gitVars, callVars
<1>31. ASSUME NEW w \in Worktrees, UserSwitch(w)
     PROVE  RestType'
  BY <1>31, <1>b DEF UserSwitch, UserStep, lockVars, gitVars, callVars
<1>32. ASSUME UserFetch
     PROVE  RestType'
  <2>1. base' \in Shas /\ Len(base') > 0
    BY <1>32, <1>b, <1>c, AppendSha DEF UserFetch, Commits, Shas
  <2>2. QED
    BY <1>32, <2>1 DEF UserFetch, UserStep, NewChange, lockVars, gitVars, callVars
<1>33. ASSUME UserFeatureCommit
     PROVE  RestType'
  <2>1. feature' \in Nat /\ FeatureTree(feature') \in SUBSET Changes
    BY <1>33, FeatureTreeType DEF UserFeatureCommit
  <2>2. QED
    BY <1>33, <2>1 DEF UserFeatureCommit, UserStep, lockVars, gitVars, callVars
<1>34. CASE UNCHANGED vars
  BY <1>34, <1>b DEF vars, lockVars, gitVars, callVars
<1>35. QED
  BY <1>1, <1>2, <1>3, <1>4, <1>4a, <1>5, <1>6, <1>7, <1>8, <1>9, <1>10, <1>11, <1>12, <1>13, <1>14, <1>15, <1>16, <1>17, <1>18, <1>19, <1>20, <1>21, <1>22, <1>23, <1>24, <1>25, <1>26, <1>27, <1>27a, <1>28, <1>29, <1>30, <1>31, <1>32, <1>33, <1>34 DEF Next, Step, UserNext

\* The types and the plans, in every execution.
LEMMA Invariant1 == Spec => [](RestType /\ CallInv)
<1>1. RestType /\ CallInv /\ [Next]_vars => (RestType /\ CallInv)'
  BY CallNext, RestNext
<1>2. QED
  BY <1>1, TypeInit, PTL DEF Spec

\* Every variable keeps its type in every execution, the shas included.
THEOREM TypeCorrect == Spec => []TypeOK
<1>1. RestType /\ CallInv => TypeOK
  BY TypeSplit
<1>2. QED
  BY <1>1, Invariant1, PTL

-----------------------------------------------------------------------------
(* The base ref only moves forward.                                        *)

\* The compare-and-swap of process p succeeds.
Publishes(p) ==
  /\ Publish(p)
  /\ base = plan[p].base
  /\ base' = Append(base, [marked |-> TRUE, tree |-> MergedTree(plan[p])])
  /\ [marked |-> TRUE, tree |-> MergedTree(plan[p])] \in Commits

\* Somebody else puts a commit on base.
ForeignCommit == \E c \in Commits : ~c.marked /\ base' = Append(base, c)

\* There is no other way to move base.
LEMMA BaseStep ==
  ASSUME RestType, CallInv, [Next]_vars
  PROVE  base' = base \/ ForeignCommit \/ \E p \in Procs : Publishes(p)
<1> DEFINE Goal == base' = base \/ ForeignCommit \/ \E p \in Procs : Publishes(p)
<1>p. \A p \in Procs : plan[p] \in Plans /\ PlanAt(pc[p], plan[p])
  BY DEF CallInv, PlanInv
<1>b. base \in Shas /\ Len(base) > 0 /\ Tree(base) \in SUBSET Changes
  BY TreeType DEF RestType
<1>c. NewChange \in SUBSET Changes
  BY <1>b DEF NewChange, Changes, Shas
<1>1. ASSUME NEW p \in Procs, StartExecute(p)
     PROVE  Goal
  BY <1>1 DEF StartExecute, Goto, lockVars, gitVars, callVars
<1>2. ASSUME NEW p \in Procs, AcquireReclaim(p)
     PROVE  Goal
  BY <1>2 DEF AcquireReclaim, Lock!Reclaim, Lock!Live, lockVars, gitVars, callVars
<1>3. ASSUME NEW p \in Procs, AcquireTake(p)
     PROVE  Goal
  BY <1>3 DEF AcquireTake, Lock!TakeAs, Lock!Live, Goto, lockVars, gitVars, callVars
<1>4. ASSUME NEW p \in Procs, AcquireBusy(p)
     PROVE  Goal
  BY <1>4 DEF AcquireBusy, Goto, lockVars, gitVars, callVars
<1>4a. ASSUME NEW p \in Procs, AcquireFails(p)
     PROVE  Goal
  BY <1>4a DEF AcquireFails, gitVars
<1>5. ASSUME NEW p \in Procs, ExistingCommit(p)
     PROVE  Goal
  BY <1>5 DEF ExistingCommit, Goto, lockVars, gitVars, callVars
<1>6. ASSUME NEW p \in Procs, InspectFails(p)
     PROVE  Goal
  BY <1>6 DEF InspectFails, Throw, Goto, lockVars, gitVars, callVars
<1>7. ASSUME NEW p \in Procs, InspectBase(p)
     PROVE  Goal
  BY <1>7 DEF InspectBase, Inspecting, Goto, lockVars, gitVars, callVars
<1>8. ASSUME NEW p \in Procs, InspectFeature(p)
     PROVE  Goal
  BY <1>8 DEF InspectFeature, Inspecting, Goto, lockVars, gitVars, callVars
<1>9. ASSUME NEW p \in Procs, InspectHead(p)
     PROVE  Goal
  BY <1>9 DEF InspectHead, Inspecting, Throw, Goto, lockVars, gitVars, callVars
<1>10. ASSUME NEW p \in Procs, ListTargets(p)
     PROVE  Goal
  BY <1>10 DEF ListTargets, Inspecting, Goto, BaseWorktrees, lockVars, gitVars, callVars
<1>11. ASSUME NEW p \in Procs, InspectTarget(p)
     PROVE  Goal
  BY <1>11 DEF InspectTarget, Inspecting, Throw, Goto, lockVars, gitVars, callVars
<1>12. ASSUME NEW p \in Procs, Probe(p)
     PROVE  Goal
  BY <1>12 DEF Probe, Inspecting, Throw, Goto, lockVars, gitVars, callVars
<1>13. ASSUME NEW p \in Procs, CreateWorktree(p)
     PROVE  Goal
  BY <1>13 DEF CreateWorktree, Throw, Goto, lockVars, gitVars, callVars
<1>14. ASSUME NEW p \in Procs, SquashMerge(p)
     PROVE  Goal
  BY <1>14 DEF SquashMerge, Throw, Goto, lockVars, gitVars, callVars
<1>15. ASSUME NEW p \in Procs, CommitMerge(p)
     PROVE  Goal
  BY <1>15 DEF CommitMerge, Throw, Goto, lockVars, gitVars, callVars
<1>16. ASSUME NEW p \in Procs, Publish(p)
     PROVE  Goal
  <2>1. CASE base = plan[p].base /\ base' = plan[p].commit
    <3>1. Len(plan[p].base) > 0 /\ plan[p].commit = MergeCommit(plan[p])
      BY <1>16, <1>p DEF Publish, PlanAt
    <3>2. [marked |-> TRUE, tree |-> MergedTree(plan[p])] \in Commits
      BY <3>1, <1>p, MergeCommitType
    <3>3. QED
      BY <1>16, <2>1, <3>1, <3>2 DEF Publishes, MergeCommit
  <2>2. QED
    BY <1>16, <2>1 DEF Publish
<1>17. ASSUME NEW p \in Procs, Promote(p)
     PROVE  Goal
  BY <1>17 DEF Promote, Throw, Goto, AfterPromote, Resuming, lockVars, gitVars, callVars
<1>18. ASSUME NEW p \in Procs, Checkout(p)
     PROVE  Goal
  BY <1>18 DEF Checkout, Throw, Goto, AfterPromote, Resuming, lockVars, gitVars, callVars
<1>19. ASSUME NEW p \in Procs, Materialize(p)
     PROVE  Goal
  BY <1>19 DEF Materialize, ReadTree, Throw, Goto, lockVars, gitVars, callVars
<1>20. ASSUME NEW p \in Procs, ReturnMerged(p)
     PROVE  Goal
  BY <1>20 DEF ReturnMerged, Goto, lockVars, gitVars, callVars
<1>21. ASSUME NEW p \in Procs, Resume(p)
     PROVE  Goal
  BY <1>21 DEF Resume, Inspecting, Goto, lockVars, gitVars, callVars
<1>22. ASSUME NEW p \in Procs, ResumeList(p)
     PROVE  Goal
  BY <1>22 DEF ResumeList, Inspecting, Goto, BaseWorktrees, lockVars, gitVars, callVars
<1>23. ASSUME NEW p \in Procs, ResumeTarget(p)
     PROVE  Goal
  BY <1>23 DEF ResumeTarget, Inspecting, Throw, Goto, lockVars, gitVars, callVars
<1>24. ASSUME NEW p \in Procs, ResumeHead(p)
     PROVE  Goal
  BY <1>24 DEF ResumeHead, ReadTree, Throw, Goto, lockVars, gitVars, callVars
<1>25. ASSUME NEW p \in Procs, ReturnResumed(p)
     PROVE  Goal
  BY <1>25 DEF ReturnResumed, Goto, lockVars, gitVars, callVars
<1>26. ASSUME NEW p \in Procs, RemoveWorktree(p)
     PROVE  Goal
  BY <1>26 DEF RemoveWorktree, Goto, lockVars, gitVars, callVars
<1>27. ASSUME NEW p \in Procs, Release(p)
     PROVE  Goal
  BY <1>27 DEF Release, Lock!Drop, Lock!Live, Forget, Goto, lockVars, gitVars, callVars
<1>27a. ASSUME NEW p \in Procs, Return(p)
     PROVE  Goal
  BY <1>27a DEF Return, gitVars
<1>28. ASSUME NEW p \in Procs, Crash(p)
     PROVE  Goal
  BY <1>28 DEF Crash, Lock!Die, Forget, Goto, lockVars, gitVars, callVars
<1>29. ASSUME NEW w \in Worktrees, UserEdit(w)
     PROVE  Goal
  BY <1>29 DEF UserEdit, UserStep, lockVars, gitVars, callVars
<1>30. ASSUME NEW w \in Worktrees, UserCommit(w)
     PROVE  Goal
  <2>1. index'[w] \in SUBSET Changes
    BY <1>30, <1>c DEF UserCommit, RestType
  <2>2. [marked |-> FALSE, tree |-> index'[w]] \in Commits
    BY <2>1 DEF Commits
  <2>3. QED
    BY <1>30, <2>2 DEF UserCommit, ForeignCommit
<1>31. ASSUME NEW w \in Worktrees, UserSwitch(w)
     PROVE  Goal
  BY <1>31 DEF UserSwitch, UserStep, lockVars, gitVars, callVars
<1>32. ASSUME UserFetch
     PROVE  Goal
  <2>1. [marked |-> FALSE, tree |-> Tree(base) \cup NewChange] \in Commits
    BY <1>b, <1>c DEF Commits
  <2>2. QED
    BY <1>32, <2>1 DEF UserFetch, ForeignCommit
<1>33. ASSUME UserFeatureCommit
     PROVE  Goal
  BY <1>33 DEF UserFeatureCommit, UserStep, lockVars, gitVars, callVars
<1>34. CASE UNCHANGED vars
  BY <1>34 DEF vars, lockVars, gitVars, callVars
<1>35. QED
  BY <1>1, <1>2, <1>3, <1>4, <1>4a, <1>5, <1>6, <1>7, <1>8, <1>9, <1>10, <1>11, <1>12, <1>13, <1>14, <1>15, <1>16, <1>17, <1>18, <1>19, <1>20, <1>21, <1>22, <1>23, <1>24, <1>25, <1>26, <1>27, <1>27a, <1>28, <1>29, <1>30, <1>31, <1>32, <1>33, <1>34 DEF Next, Step, UserNext

\* A publication, like any commit, only extends the history of base.
THEOREM BaseOnlyGrowsHolds == Spec => BaseOnlyGrows
<1>1. RestType /\ CallInv /\ [Next]_vars
        => [Len(base) <= Len(base') /\ SubSeq(base', 1, Len(base)) = base]_base
  <2> SUFFICES ASSUME RestType, CallInv, [Next]_vars
               PROVE  base' = base \/ (Len(base) <= Len(base') /\ SubSeq(base', 1, Len(base)) = base)
    OBVIOUS
  <2>1. base' = base \/ \E c \in Commits : base' = Append(base, c)
    BY BaseStep DEF ForeignCommit, Publishes
  <2>2. ASSUME NEW c \in Commits, base' = Append(base, c)
        PROVE  Len(base) <= Len(base') /\ SubSeq(base', 1, Len(base)) = base
    <3>1. base \in Shas /\ Len(base) \in Nat
      BY DEF RestType, Shas
    <3>2. QED
      BY <2>2, <3>1, AppendSha, AppendHistory
  <2>3. QED
    BY <2>1, <2>2
<1>2. QED
  BY <1>1, Invariant1, PTL DEF Spec, BaseOnlyGrows

-----------------------------------------------------------------------------
(* The lock is the call's own from lookup to release.                      *)

\* Every step keeps the lock with the call that took it.
LEMMA LockStep == RestType /\ CallInv /\ LockInv /\ [Next]_vars => LockInv'
<1> SUFFICES ASSUME RestType, CallInv, LockInv, [Next]_vars
             PROVE  LockInv'
  OBVIOUS
<1> USE MergeAssumption DEF RestType, CallInv, LockInv, OwnerOf
<1>1. ASSUME NEW p \in Procs, StartExecute(p)
     PROVE  LockInv'
  BY <1>1 DEF StartExecute, Goto, lockVars, gitVars, callVars
<1>2. ASSUME NEW p \in Procs, AcquireReclaim(p)
     PROVE  LockInv'
  BY <1>2 DEF AcquireReclaim, Lock!Reclaim, Lock!Live, lockVars, gitVars, callVars, Owners
<1>3. ASSUME NEW p \in Procs, AcquireTake(p)
     PROVE  LockInv'
  BY <1>3 DEF AcquireTake, Lock!TakeAs, Lock!Live, Goto, lockVars, gitVars, callVars, Owners
<1>4. ASSUME NEW p \in Procs, AcquireBusy(p)
     PROVE  LockInv'
  BY <1>4 DEF AcquireBusy, Goto, lockVars, gitVars, callVars
<1>4a. ASSUME NEW p \in Procs, AcquireFails(p)
     PROVE  LockInv'
  BY <1>4a DEF AcquireFails, Lock!TakeAs, Lock!Live, Goto, lockVars, Owners
<1>5. ASSUME NEW p \in Procs, ExistingCommit(p)
     PROVE  LockInv'
  BY <1>5 DEF ExistingCommit, Goto, lockVars, gitVars, callVars
<1>6. ASSUME NEW p \in Procs, InspectFails(p)
     PROVE  LockInv'
  BY <1>6 DEF InspectFails, Throw, Goto, lockVars, gitVars, callVars
<1>7. ASSUME NEW p \in Procs, InspectBase(p)
     PROVE  LockInv'
  BY <1>7 DEF InspectBase, Inspecting, Goto, lockVars, gitVars, callVars
<1>8. ASSUME NEW p \in Procs, InspectFeature(p)
     PROVE  LockInv'
  BY <1>8 DEF InspectFeature, Inspecting, Goto, lockVars, gitVars, callVars
<1>9. ASSUME NEW p \in Procs, InspectHead(p)
     PROVE  LockInv'
  BY <1>9 DEF InspectHead, Inspecting, Throw, Goto, lockVars, gitVars, callVars
<1>10. ASSUME NEW p \in Procs, ListTargets(p)
     PROVE  LockInv'
  BY <1>10 DEF ListTargets, Inspecting, Goto, BaseWorktrees, lockVars, gitVars, callVars
<1>11. ASSUME NEW p \in Procs, InspectTarget(p)
     PROVE  LockInv'
  BY <1>11 DEF InspectTarget, Inspecting, Throw, Goto, lockVars, gitVars, callVars
<1>12. ASSUME NEW p \in Procs, Probe(p)
     PROVE  LockInv'
  BY <1>12 DEF Probe, Inspecting, Throw, Goto, lockVars, gitVars, callVars
<1>13. ASSUME NEW p \in Procs, CreateWorktree(p)
     PROVE  LockInv'
  BY <1>13 DEF CreateWorktree, Throw, Goto, lockVars, gitVars, callVars
<1>14. ASSUME NEW p \in Procs, SquashMerge(p)
     PROVE  LockInv'
  BY <1>14 DEF SquashMerge, Throw, Goto, lockVars, gitVars, callVars
<1>15. ASSUME NEW p \in Procs, CommitMerge(p)
     PROVE  LockInv'
  BY <1>15 DEF CommitMerge, Throw, Goto, lockVars, gitVars, callVars
<1>16. ASSUME NEW p \in Procs, Publish(p)
     PROVE  LockInv'
  BY <1>16 DEF Publish, Throw, Goto, AfterPublish, lockVars, gitVars, callVars
<1>17. ASSUME NEW p \in Procs, Promote(p)
     PROVE  LockInv'
  BY <1>17 DEF Promote, Throw, Goto, AfterPromote, Resuming, lockVars, gitVars, callVars
<1>18. ASSUME NEW p \in Procs, Checkout(p)
     PROVE  LockInv'
  BY <1>18 DEF Checkout, Throw, Goto, AfterPromote, Resuming, lockVars, gitVars, callVars
<1>19. ASSUME NEW p \in Procs, Materialize(p)
     PROVE  LockInv'
  BY <1>19 DEF Materialize, ReadTree, Throw, Goto, lockVars, gitVars, callVars
<1>20. ASSUME NEW p \in Procs, ReturnMerged(p)
     PROVE  LockInv'
  BY <1>20 DEF ReturnMerged, Goto, lockVars, gitVars, callVars
<1>21. ASSUME NEW p \in Procs, Resume(p)
     PROVE  LockInv'
  BY <1>21 DEF Resume, Inspecting, Goto, lockVars, gitVars, callVars
<1>22. ASSUME NEW p \in Procs, ResumeList(p)
     PROVE  LockInv'
  BY <1>22 DEF ResumeList, Inspecting, Goto, BaseWorktrees, lockVars, gitVars, callVars
<1>23. ASSUME NEW p \in Procs, ResumeTarget(p)
     PROVE  LockInv'
  BY <1>23 DEF ResumeTarget, Inspecting, Throw, Goto, lockVars, gitVars, callVars
<1>24. ASSUME NEW p \in Procs, ResumeHead(p)
     PROVE  LockInv'
  BY <1>24 DEF ResumeHead, ReadTree, Throw, Goto, lockVars, gitVars, callVars
<1>25. ASSUME NEW p \in Procs, ReturnResumed(p)
     PROVE  LockInv'
  BY <1>25 DEF ReturnResumed, Goto, lockVars, gitVars, callVars
<1>26. ASSUME NEW p \in Procs, RemoveWorktree(p)
     PROVE  LockInv'
  BY <1>26 DEF RemoveWorktree, Goto, lockVars, gitVars, callVars
<1>27. ASSUME NEW p \in Procs, Release(p)
     PROVE  LockInv'
  BY <1>27 DEF Release, Lock!Drop, Lock!Live, Forget, Goto, lockVars, gitVars, callVars
<1>27a. ASSUME NEW p \in Procs, Return(p)
     PROVE  LockInv'
  BY <1>27a DEF Return, Goto, lockVars
<1>28. ASSUME NEW p \in Procs, Crash(p)
     PROVE  LockInv'
  BY <1>28 DEF Crash, Lock!Die, Forget, Goto, lockVars, gitVars, callVars
<1>29. ASSUME NEW w \in Worktrees, UserEdit(w)
     PROVE  LockInv'
  BY <1>29 DEF UserEdit, UserStep, lockVars, gitVars, callVars
<1>30. ASSUME NEW w \in Worktrees, UserCommit(w)
     PROVE  LockInv'
  BY <1>30 DEF UserCommit, UserStep, NewChange, lockVars, gitVars, callVars
<1>31. ASSUME NEW w \in Worktrees, UserSwitch(w)
     PROVE  LockInv'
  BY <1>31 DEF UserSwitch, UserStep, lockVars, gitVars, callVars
<1>32. ASSUME UserFetch
     PROVE  LockInv'
  BY <1>32 DEF UserFetch, UserStep, NewChange, lockVars, gitVars, callVars
<1>33. ASSUME UserFeatureCommit
     PROVE  LockInv'
  BY <1>33 DEF UserFeatureCommit, UserStep, lockVars, gitVars, callVars
<1>34. CASE UNCHANGED vars
  BY <1>34 DEF vars, lockVars, gitVars, callVars
<1>35. QED
  BY <1>1, <1>2, <1>3, <1>4, <1>4a, <1>5, <1>6, <1>7, <1>8, <1>9, <1>10, <1>11, <1>12, <1>13, <1>14, <1>15, <1>16, <1>17, <1>18, <1>19, <1>20, <1>21, <1>22, <1>23, <1>24, <1>25, <1>26, <1>27, <1>27a, <1>28, <1>29, <1>30, <1>31, <1>32, <1>33, <1>34 DEF Next, Step, UserNext

\* Two calls are never past their acquire at the same time.
LEMMA Alone ==
  ASSUME LockInv, NEW p \in Procs, NEW q \in Procs, p # q, pc[p] \notin {"idle", "acquire", "returned"}
  PROVE  pc[q] \in {"idle", "acquire", "returned"}
BY DEF LockInv, OwnerOf

-----------------------------------------------------------------------------
(* At most one marked commit.                                              *)

\* git log answers: a commit that is there is found.
LookupReliable == "lookup" \notin Failures

\* Every step keeps base free of the marker while a call prepares its own
\* marked commit, and base never gets a second one.
LEMMA MarkStep ==
  ASSUME LookupReliable, RestType, CallInv, LockInv, MarkInv, NoDuplicateMerge, [Next]_vars
  PROVE  MarkInv' /\ NoDuplicateMerge'
<1>b. base \in Shas /\ Len(base) \in Nat /\ \A i \in 1..Len(base) : base[i] \in Commits
  BY DEF RestType, Shas
<1>n. ASSUME NEW q \in Procs, pc'[q] \in Preparing
      PROVE  pc[q] \in Preparing \/ (pc[q] = "lookup" /\ ~HasOutboxCommit(base))
  <2> DEFINE Goal == pc[q] \in Preparing \/ (pc[q] = "lookup" /\ ~HasOutboxCommit(base))
  <2> USE <1>n DEF CallInv, Preparing, Prepared
  <2>1. ASSUME NEW p \in Procs, StartExecute(p)
        PROVE  Goal
    BY <2>1 DEF StartExecute, Goto, lockVars, gitVars, callVars
  <2>2. ASSUME NEW p \in Procs, AcquireReclaim(p)
        PROVE  Goal
    BY <2>2 DEF AcquireReclaim, Lock!Reclaim, Lock!Live, lockVars, gitVars, callVars
  <2>3. ASSUME NEW p \in Procs, AcquireTake(p)
        PROVE  Goal
    BY <2>3 DEF AcquireTake, Lock!TakeAs, Lock!Live, Goto, lockVars, gitVars, callVars
  <2>4. ASSUME NEW p \in Procs, AcquireBusy(p)
        PROVE  Goal
    BY <2>4 DEF AcquireBusy, Goto, lockVars, gitVars, callVars
  <2>4a. ASSUME NEW p \in Procs, AcquireFails(p)
       PROVE  Goal
    BY <2>4a DEF AcquireFails, Goto
  <2>5. ASSUME NEW p \in Procs, ExistingCommit(p)
        PROVE  Goal
    BY <2>5 DEF ExistingCommit, Goto, LookupReliable
  <2>6. ASSUME NEW p \in Procs, InspectFails(p)
        PROVE  Goal
    BY <2>6 DEF InspectFails, Throw, Goto, lockVars, gitVars, callVars
  <2>7. ASSUME NEW p \in Procs, InspectBase(p)
        PROVE  Goal
    BY <2>7 DEF InspectBase, Inspecting, Goto, lockVars, gitVars, callVars
  <2>8. ASSUME NEW p \in Procs, InspectFeature(p)
        PROVE  Goal
    BY <2>8 DEF InspectFeature, Inspecting, Goto, lockVars, gitVars, callVars
  <2>9. ASSUME NEW p \in Procs, InspectHead(p)
        PROVE  Goal
    BY <2>9 DEF InspectHead, Inspecting, Throw, Goto, lockVars, gitVars, callVars
  <2>10. ASSUME NEW p \in Procs, ListTargets(p)
        PROVE  Goal
    BY <2>10 DEF ListTargets, Inspecting, Goto, BaseWorktrees, lockVars, gitVars, callVars
  <2>11. ASSUME NEW p \in Procs, InspectTarget(p)
        PROVE  Goal
    BY <2>11 DEF InspectTarget, Inspecting, Throw, Goto, lockVars, gitVars, callVars
  <2>12. ASSUME NEW p \in Procs, Probe(p)
        PROVE  Goal
    BY <2>12 DEF Probe, Inspecting, Throw, Goto, lockVars, gitVars, callVars
  <2>13. ASSUME NEW p \in Procs, CreateWorktree(p)
        PROVE  Goal
    BY <2>13 DEF CreateWorktree, Throw, Goto, lockVars, gitVars, callVars
  <2>14. ASSUME NEW p \in Procs, SquashMerge(p)
        PROVE  Goal
    BY <2>14 DEF SquashMerge, Throw, Goto, lockVars, gitVars, callVars
  <2>15. ASSUME NEW p \in Procs, CommitMerge(p)
        PROVE  Goal
    BY <2>15 DEF CommitMerge, Throw, Goto, lockVars, gitVars, callVars
  <2>16. ASSUME NEW p \in Procs, Publish(p)
        PROVE  Goal
    BY <2>16 DEF Publish, Throw, Goto, AfterPublish, lockVars, gitVars, callVars
  <2>17. ASSUME NEW p \in Procs, Promote(p)
        PROVE  Goal
    BY <2>17 DEF Promote, Throw, Goto, AfterPromote, Resuming, lockVars, gitVars, callVars
  <2>18. ASSUME NEW p \in Procs, Checkout(p)
        PROVE  Goal
    BY <2>18 DEF Checkout, Throw, Goto, AfterPromote, Resuming, lockVars, gitVars, callVars
  <2>19. ASSUME NEW p \in Procs, Materialize(p)
        PROVE  Goal
    BY <2>19 DEF Materialize, ReadTree, Throw, Goto, lockVars, gitVars, callVars
  <2>20. ASSUME NEW p \in Procs, ReturnMerged(p)
        PROVE  Goal
    BY <2>20 DEF ReturnMerged, Goto, lockVars, gitVars, callVars
  <2>21. ASSUME NEW p \in Procs, Resume(p)
        PROVE  Goal
    BY <2>21 DEF Resume, Inspecting, Goto, lockVars, gitVars, callVars
  <2>22. ASSUME NEW p \in Procs, ResumeList(p)
        PROVE  Goal
    BY <2>22 DEF ResumeList, Inspecting, Goto, BaseWorktrees, lockVars, gitVars, callVars
  <2>23. ASSUME NEW p \in Procs, ResumeTarget(p)
        PROVE  Goal
    BY <2>23 DEF ResumeTarget, Inspecting, Throw, Goto, lockVars, gitVars, callVars
  <2>24. ASSUME NEW p \in Procs, ResumeHead(p)
        PROVE  Goal
    BY <2>24 DEF ResumeHead, ReadTree, Throw, Goto, lockVars, gitVars, callVars
  <2>25. ASSUME NEW p \in Procs, ReturnResumed(p)
        PROVE  Goal
    BY <2>25 DEF ReturnResumed, Goto, lockVars, gitVars, callVars
  <2>26. ASSUME NEW p \in Procs, RemoveWorktree(p)
        PROVE  Goal
    BY <2>26 DEF RemoveWorktree, Goto, lockVars, gitVars, callVars
  <2>27. ASSUME NEW p \in Procs, Release(p)
        PROVE  Goal
    BY <2>27 DEF Release, Lock!Drop, Lock!Live, Forget, Goto, lockVars, gitVars, callVars
  <2>27a. ASSUME NEW p \in Procs, Return(p)
       PROVE  Goal
    BY <2>27a DEF Return, Goto
  <2>28. ASSUME NEW p \in Procs, Crash(p)
        PROVE  Goal
    BY <2>28 DEF Crash, Lock!Die, Forget, Goto, lockVars, gitVars, callVars
  <2>29. ASSUME NEW w \in Worktrees, UserEdit(w)
        PROVE  Goal
    BY <2>29 DEF UserEdit, UserStep, callVars
  <2>30. ASSUME NEW w \in Worktrees, UserCommit(w)
        PROVE  Goal
    BY <2>30 DEF UserCommit, UserStep, callVars
  <2>31. ASSUME NEW w \in Worktrees, UserSwitch(w)
        PROVE  Goal
    BY <2>31 DEF UserSwitch, UserStep, callVars
  <2>32. ASSUME UserFetch
        PROVE  Goal
    BY <2>32 DEF UserFetch, UserStep, callVars
  <2>33. ASSUME UserFeatureCommit
        PROVE  Goal
    BY <2>33 DEF UserFeatureCommit, UserStep, callVars
  <2>34. CASE UNCHANGED vars
    BY <2>34 DEF vars, lockVars, gitVars, callVars
  <2>35. QED
    BY <2>1, <2>2, <2>3, <2>4, <2>4a, <2>5, <2>6, <2>7, <2>8, <2>9, <2>10, <2>11, <2>12, <2>13, <2>14, <2>15, <2>16, <2>17, <2>18, <2>19, <2>20, <2>21, <2>22, <2>23, <2>24, <2>25, <2>26, <2>27, <2>27a, <2>28, <2>29, <2>30, <2>31, <2>32, <2>33, <2>34 DEF Next, Step, UserNext
<1>1. CASE base' = base
  <2>1. MarkInv'
    BY <1>1, <1>n DEF MarkInv
  <2>2. QED
    BY <1>1, <2>1 DEF NoDuplicateMerge
<1>2. CASE ForeignCommit
  <2>1. PICK c \in Commits : ~c.marked /\ base' = Append(base, c)
    BY <1>2 DEF ForeignCommit
  <2>2. HasOutboxCommit(base') <=> HasOutboxCommit(base)
    BY <1>b, <2>1, AppendUnmarked
  <2>3. MarkInv'
    BY <1>n, <2>2 DEF MarkInv
  <2>4. \A i \in 1..Len(base') : base'[i].marked => i \in 1..Len(base) /\ base[i].marked
    BY <1>b, <2>1, AppendSha
  <2>5. NoDuplicateMerge'
    BY <2>4 DEF NoDuplicateMerge
  <2>6. QED
    BY <2>3, <2>5
<1>3. ASSUME NEW p \in Procs, Publishes(p)
      PROVE  MarkInv' /\ NoDuplicateMerge'
  <2>1. pc[p] = "publish" /\ ~HasOutboxCommit(base)
    BY <1>3 DEF Publishes, Publish, MarkInv, Preparing, Prepared
  <2>2. \A i \in 1..Len(base') : base'[i].marked => i = Len(base) + 1
    BY <1>b, <1>3, <2>1, AppendSha DEF Publishes, HasOutboxCommit
  <2>3. NoDuplicateMerge'
    BY <2>2 DEF NoDuplicateMerge
  <2>4. ASSUME NEW q \in Procs PROVE pc'[q] \notin Preparing
    <3>1. CASE q = p
      <4>1. pc'[p] \in {"promote", "materialize", "cleanup", "release"}
        BY <1>3 DEF Publishes, Publish, AfterPublish, Throw, Goto, CallInv
      <4>2. QED
        BY <3>1, <4>1 DEF Preparing, Prepared
    <3>2. CASE q # p
      <4>1. pc[q] \in {"idle", "acquire", "returned"}
        BY <3>2, <2>1, Alone
      <4>2. QED
        BY <4>1, <1>n DEF Preparing, Prepared
    <3>3. QED
      BY <3>1, <3>2
  <2>5. QED
    BY <2>3, <2>4 DEF MarkInv
<1>4. QED
  BY <1>1, <1>2, <1>3, BaseStep

\* With a git log that answers, the marked commit of this outbox entry is in
\* base at most once, for any number of calls, processes and crashes.
THEOREM NoDuplicateMergeHolds ==
  ASSUME LookupReliable
  PROVE  Spec => []NoDuplicateMerge
<1>1. Init => LockInv /\ MarkInv /\ NoDuplicateMerge
  BY DEF Init, LockInv, MarkInv, NoDuplicateMerge, Preparing, Prepared
<1>2. RestType /\ CallInv /\ (LockInv /\ MarkInv /\ NoDuplicateMerge) /\ [Next]_vars
        => (LockInv /\ MarkInv /\ NoDuplicateMerge)'
  BY LockStep, MarkStep
<1>3. QED
  BY <1>1, <1>2, Invariant1, PTL DEF Spec

-----------------------------------------------------------------------------
(* A returned merge has reached the listed worktrees.                      *)

\* A step of p that has the lock: only its own worktrees matter.
LEMMA TargetOwn ==
  ASSUME CallInv, LockInv, NEW p \in Procs, pc[p] \notin {"idle", "acquire", "returned"},
         NEW label, pc' = [pc EXCEPT ![p] = label], TargetOk(p)'
  PROVE  TargetInv'
<1>1. ASSUME NEW q \in Procs, q # p PROVE TargetOk(q)'
  <2>1. pc'[q] \in {"idle", "acquire", "returned"}
    BY <1>1, Alone DEF CallInv
  <2>2. QED
    BY <2>1 DEF TargetOk, Preparing, Prepared, Publishing, Merged
<1>2. QED
  BY <1>1 DEF TargetInv

\* Users only add to worktrees on base, and base only moves forward.
LEMMA TargetKept ==
  ASSUME RestType, CallInv, TargetInv, UNCHANGED callVars,
         \A w \in Worktrees : branch[w] = "base" => branch'[w] = "base" /\ index[w] \subseteq index'[w],
         base' = base \/ Len(base') = Len(base) + 1
  PROVE  TargetInv'
<1> SUFFICES ASSUME NEW p \in Procs PROVE TargetOk(p)'
  BY DEF TargetInv
<1>1. TargetOk(p) /\ plan'[p] = plan[p] /\ pc'[p] = pc[p] /\ outcome'[p] = outcome[p]
  BY DEF TargetInv, callVars
<1>2. plan[p] \in Plans /\ plan[p].targets \subseteq Worktrees
  BY DEF CallInv, Plans
<1>3. plan[p].base \in Shas /\ Len(plan[p].base) \in Nat /\ base \in Shas /\ Len(base) \in Nat
  BY <1>2 DEF Plans, Shas, RestType
<1>4. Resuming(p)' <=> Resuming(p)
  BY <1>1 DEF Resuming
<1>5. (Publishing(p)' <=> Publishing(p)) /\ (Merged(p)' <=> Merged(p))
  BY <1>1, <1>4 DEF Publishing, Merged
<1>6. pc[p] \in Preparing \ {"inspectBase"} => Len(plan[p].base) <= Len(base)
  BY <1>1 DEF TargetOk
<1>7. {"inspectTargets"} \cup Prepared \subseteq Preparing \ {"inspectBase"}
  BY DEF Preparing, Prepared
<1>8. pc[p] \in {"inspectTargets"} \cup Prepared /\ base' = plan[p].base => base = plan[p].base
  BY <1>3, <1>6, <1>7
<1>9. pc[p] \in Preparing \ {"inspectBase"} => Len(plan[p].base) <= Len(base')
  BY <1>3, <1>6
<1>10. \A w \in plan[p].targets : branch[w] = "base" => branch'[w] = "base" /\ index[w] \subseteq index'[w]
  BY <1>2
<1>11. ASSUME pc[p] \in {"inspectTargets"} \cup Prepared \/ Publishing(p) \/ Merged(p)
       PROVE  \A w \in plan[p].targets : branch'[w] = "base" /\ index[w] \subseteq index'[w]
  <2>1. \A w \in plan[p].targets : branch[w] = "base"
    BY <1>1, <1>11 DEF TargetOk
  <2>2. QED
    BY <2>1, <1>10
<1>12. ASSUME pc[p] \in {"inspectTargets"} \cup Prepared, base' = plan[p].base
       PROVE  \A w \in plan[p].targets \ plan[p].left : Tree(plan[p].base) \subseteq index'[w]
  <2>1. \A w \in plan[p].targets \ plan[p].left : Tree(plan[p].base) \subseteq index[w]
    BY <1>1, <1>8, <1>12 DEF TargetOk
  <2>2. QED
    BY <2>1, <1>11, <1>12
<1>13. ASSUME Publishing(p)
       PROVE  \A w \in plan[p].targets : Tree(plan[p].base) \subseteq index'[w]
  <2>1. \A w \in plan[p].targets : Tree(plan[p].base) \subseteq index[w]
    BY <1>1, <1>13 DEF TargetOk
  <2>2. QED
    BY <2>1, <1>11, <1>13
<1>14. ASSUME pc[p] = "materialize"
       PROVE  \A w \in plan[p].targets \ plan[p].left : FeatureTree(plan[p].feature) \subseteq index'[w]
  <2>1. \A w \in plan[p].targets \ plan[p].left : FeatureTree(plan[p].feature) \subseteq index[w]
    BY <1>1, <1>14 DEF TargetOk
  <2>2. Publishing(p)
    BY <1>14 DEF Publishing
  <2>3. QED
    BY <2>1, <2>2, <1>11
<1>15. ASSUME Merged(p)
       PROVE  \A w \in plan[p].targets : FeatureTree(plan[p].feature) \subseteq index'[w]
  <2>1. \A w \in plan[p].targets : FeatureTree(plan[p].feature) \subseteq index[w]
    BY <1>1, <1>15 DEF TargetOk
  <2>2. QED
    BY <2>1, <1>11, <1>15
<1>16. /\ pc[p] \in Prepared => plan[p].left = {}
       /\ pc[p] = "checkout" /\ ~Resuming(p) => featureRoot \notin plan[p].targets
       /\ pc[p] \in {"promote", "checkout"} /\ ~Resuming(p) => plan[p].left = plan[p].targets
  BY <1>1 DEF TargetOk
<1>17. Tree(plan'[p].base) = Tree(plan[p].base)
  BY <1>1
<1>18. QED
  BY <1>1, <1>4, <1>5, <1>9, <1>11, <1>12, <1>13, <1>14, <1>15, <1>16, <1>17 DEF TargetOk

\* Every step keeps what is claimed of the listed worktrees.
LEMMA TargetStep ==
  ASSUME RestType, CallInv, LockInv, TargetInv, [Next]_vars
  PROVE  TargetInv'
<1>p. \A p \in Procs : plan[p] \in Plans /\ PlanAt(pc[p], plan[p]) /\ TargetOk(p)
  BY DEF CallInv, PlanInv, TargetInv
<1>t. pc \in [Procs -> Labels] /\ plan \in [Procs -> Plans] /\ outcome \in [Procs -> Outcomes]
  BY DEF CallInv, RestType
<1>x. ASSUME NEW p \in Procs, pc[p] \notin {"idle", "acquire", "returned"}, NEW kind \in Outcomes \ {"merged"}, Throw(p, kind)
      PROVE  TargetInv'
  <2>1. pc'[p] \in {"cleanup", "release"} /\ outcome'[p] # "merged"
    BY <1>x, <1>t DEF Throw, Goto
  <2>2. TargetOk(p)'
    BY <2>1 DEF TargetOk, Preparing, Prepared, Publishing, Merged
  <2>3. QED
    BY <1>x, <2>2, TargetOwn DEF Throw, Goto
<1>o. ASSUME NEW p \in Procs, pc[p] \notin {"idle", "acquire", "returned"},
             NEW label \in {"idle", "lookup", "inspectBase", "release", "returned", "resume", "resumeList", "resumeTargets", "resumeHead"},
             Goto(p, label)
      PROVE  TargetInv'
  <2>1. pc'[p] = label
    BY <1>o, <1>t DEF Goto
  <2>2. TargetOk(p)'
    BY <2>1 DEF TargetOk, Preparing, Prepared, Publishing, Merged
  <2>3. QED
    BY <1>o, <2>2, TargetOwn DEF Goto
<1>s. ASSUME NEW p \in Procs, pc[p] \in {"idle", "acquire", "returned"},
             NEW label \in {"idle", "acquire", "lookup"}, Goto(p, label),
             UNCHANGED <<gitVars, plan>>, NEW o, outcome' = [outcome EXCEPT ![p] = o]
      PROVE  TargetInv'
  <2>1. ASSUME NEW q \in Procs, q = p PROVE TargetOk(q)'
    <3>1. pc'[q] = label
      BY <1>s, <2>1, <1>t DEF Goto
    <3>2. QED
      BY <3>1 DEF TargetOk, Preparing, Prepared, Publishing, Merged
  <2>2. ASSUME NEW q \in Procs, q # p PROVE TargetOk(q)'
    <3>1. pc'[q] = pc[q] /\ plan'[q] = plan[q] /\ outcome'[q] = outcome[q] /\ UNCHANGED <<base, branch, index>>
      BY <1>s, <2>2, <1>t DEF Goto, gitVars
    <3>2. QED
      BY <3>1, <1>p DEF TargetOk, Preparing, Prepared, Publishing, Merged, Resuming
  <2>3. QED
    BY <2>1, <2>2 DEF TargetInv
<1>u. \A p \in Procs : UNCHANGED outcome => outcome' = [outcome EXCEPT ![p] = outcome[p]]
  BY <1>t
<1>1. ASSUME NEW p \in Procs, StartExecute(p)
     PROVE  TargetInv'
  BY <1>1, <1>s, <1>u DEF StartExecute
<1>2. ASSUME NEW p \in Procs, AcquireReclaim(p)
     PROVE  TargetInv'
  BY <1>2, TargetKept DEF AcquireReclaim, gitVars
<1>3. ASSUME NEW p \in Procs, AcquireTake(p)
     PROVE  TargetInv'
  BY <1>3, <1>s, <1>u DEF AcquireTake
<1>4. ASSUME NEW p \in Procs, AcquireBusy(p)
     PROVE  TargetInv'
  BY <1>4, <1>s, <1>u DEF AcquireBusy
<1>4a. ASSUME NEW p \in Procs, AcquireFails(p)
     PROVE  TargetInv'
  BY <1>4a, <1>s, <1>u DEF AcquireFails
<1>5. ASSUME NEW p \in Procs, ExistingCommit(p)
     PROVE  TargetInv'
  BY <1>5, <1>o DEF ExistingCommit
<1>6. ASSUME NEW p \in Procs, InspectFails(p)
     PROVE  TargetInv'
  BY <1>6, <1>x DEF InspectFails, Outcomes
<1>7. ASSUME NEW p \in Procs, InspectBase(p)
     PROVE  TargetInv'
  <2>1. ASSUME Goto(p, "inspectFeature") PROVE TargetInv'
    <3>1. pc'[p] = "inspectFeature"
      BY <2>1, <1>t DEF Goto
    <3>2. base' = base /\ branch' = branch /\ index' = index /\ plan'[p].base = base
      BY <1>7, <1>t DEF InspectBase, Inspecting, gitVars
    <3>3. plan[p] \in Plans
      BY <1>p
    <3>4. Len(base) <= Len(base)
      BY DEF RestType, Shas
    <3>8. TargetOk(p)'
      BY <1>7, <3>1, <1>p, <3>2, <3>4 DEF InspectBase, Inspecting, TargetOk, Preparing, Prepared, Publishing, Merged, Resuming
    <3>9. QED
      BY <1>7, <2>1, <3>8, TargetOwn DEF InspectBase, Inspecting, Goto
  <2>2. QED
    BY <1>7, <2>1, <1>x DEF InspectBase, Inspecting, Outcomes
<1>8. ASSUME NEW p \in Procs, InspectFeature(p)
     PROVE  TargetInv'
  <2>1. ASSUME Goto(p, "inspectHead") PROVE TargetInv'
    <3>1. pc'[p] = "inspectHead"
      BY <2>1, <1>t DEF Goto
    <3>2. base' = base /\ branch' = branch /\ index' = index /\ plan'[p].base = plan[p].base
      BY <1>8, <1>t DEF InspectFeature, Inspecting, gitVars
    <3>3. plan[p] \in Plans
      BY <1>p
    <3>8. TargetOk(p)'
      BY <1>8, <3>1, <1>p, <3>2 DEF InspectFeature, Inspecting, TargetOk, Preparing, Prepared, Publishing, Merged, Resuming
    <3>9. QED
      BY <1>8, <2>1, <3>8, TargetOwn DEF InspectFeature, Inspecting, Goto
  <2>2. QED
    BY <1>8, <2>1, <1>x DEF InspectFeature, Inspecting, Outcomes
<1>9. ASSUME NEW p \in Procs, InspectHead(p)
     PROVE  TargetInv'
  <2>1. ASSUME Goto(p, "list") PROVE TargetInv'
    <3>1. pc'[p] = "list"
      BY <2>1, <1>t DEF Goto
    <3>2. base' = base /\ branch' = branch /\ index' = index /\ plan'[p] = plan[p]
      BY <1>9, <1>t DEF InspectHead, Inspecting, gitVars
    <3>3. plan[p] \in Plans
      BY <1>p
    <3>8. TargetOk(p)'
      BY <1>9, <3>1, <1>p, <3>2 DEF InspectHead, Inspecting, TargetOk, Preparing, Prepared, Publishing, Merged, Resuming
    <3>9. QED
      BY <1>9, <2>1, <3>8, TargetOwn DEF InspectHead, Inspecting, Goto
  <2>2. QED
    BY <1>9, <2>1, <1>x DEF InspectHead, Inspecting, Outcomes
<1>10. ASSUME NEW p \in Procs, ListTargets(p)
     PROVE  TargetInv'
  <2>1. ASSUME Goto(p, "inspectTargets") PROVE TargetInv'
    <3>1. pc'[p] = "inspectTargets"
      BY <2>1, <1>t DEF Goto
    <3>2. base' = base /\ branch' = branch /\ index' = index /\ plan'[p].base = plan[p].base /\ plan'[p].targets = BaseWorktrees /\ plan'[p].left = BaseWorktrees
      BY <1>10, <1>t DEF ListTargets, Inspecting, gitVars
    <3>3. plan[p] \in Plans
      BY <1>p
    <3>8. TargetOk(p)'
      BY <1>10, <3>1, <1>p, <3>2, <3>3 DEF ListTargets, Inspecting, BaseWorktrees, TargetOk, Preparing, Prepared, Publishing, Merged, Resuming
    <3>9. QED
      BY <1>10, <2>1, <3>8, TargetOwn DEF ListTargets, Inspecting, BaseWorktrees, Goto
  <2>2. QED
    BY <1>10, <2>1, <1>x DEF ListTargets, Inspecting, BaseWorktrees, Outcomes
<1>11. ASSUME NEW p \in Procs, InspectTarget(p)
     PROVE  TargetInv'
  <2>1. ASSUME NEW w \in plan[p].left, Clean(w), plan' = [plan EXCEPT ![p].left = @ \ {w}], UNCHANGED pc
        PROVE  TargetInv'
    <3>1. pc[p] = "inspectTargets" /\ pc' = [pc EXCEPT ![p] = "inspectTargets"]
      BY <1>11, <2>1, <1>t DEF InspectTarget, Inspecting
    <3>2. base' = base /\ branch' = branch /\ index' = index
      BY <1>11 DEF InspectTarget, Inspecting, gitVars
    <3>3. /\ plan'[p].base = plan[p].base /\ plan'[p].targets = plan[p].targets
          /\ plan'[p].left = plan[p].left \ {w} /\ pc'[p] = "inspectTargets"
      BY <2>1, <3>1, <1>t DEF Plans
    <3>4. w \in plan[p].targets => branch[w] = "base"
      BY <3>1, <1>p DEF TargetOk
    <3>5. w \in plan[p].targets => index[w] = Tree(base)
      BY <2>1, <3>4 DEF Clean, HeadTree
    <3>6. TargetOk(p)'
      BY <3>1, <3>2, <3>3, <3>5, <1>p DEF TargetOk, Preparing, Prepared, Publishing, Merged, Resuming
    <3>7. QED
      BY <3>1, <3>6, TargetOwn
  <2>2. QED
    BY <1>11, <2>1, <1>x DEF InspectTarget, Inspecting, Outcomes
<1>12. ASSUME NEW p \in Procs, Probe(p)
     PROVE  TargetInv'
  <2>1. ASSUME Goto(p, "create") PROVE TargetInv'
    <3>1. pc'[p] = "create"
      BY <2>1, <1>t DEF Goto
    <3>2. base' = base /\ branch' = branch /\ index' = index /\ plan'[p] = plan[p]
      BY <1>12, <1>t DEF Probe, Inspecting, gitVars
    <3>3. plan[p] \in Plans
      BY <1>p
    <3>8. TargetOk(p)'
      BY <1>12, <3>1, <1>p, <3>2 DEF Probe, Inspecting, TargetOk, Preparing, Prepared, Publishing, Merged, Resuming
    <3>9. QED
      BY <1>12, <2>1, <3>8, TargetOwn DEF Probe, Inspecting, Goto
  <2>2. QED
    BY <1>12, <2>1, <1>x DEF Probe, Inspecting, Outcomes
<1>13. ASSUME NEW p \in Procs, CreateWorktree(p)
     PROVE  TargetInv'
  <2>1. ASSUME Goto(p, "squash") PROVE TargetInv'
    <3>1. pc'[p] = "squash"
      BY <2>1, <1>t DEF Goto
    <3>2. base' = base /\ branch' = branch /\ index' = index /\ plan'[p] = plan[p]
      BY <1>13, <1>t DEF CreateWorktree, gitVars
    <3>3. plan[p] \in Plans
      BY <1>p
    <3>8. TargetOk(p)'
      BY <1>13, <3>1, <1>p, <3>2 DEF CreateWorktree, TargetOk, Preparing, Prepared, Publishing, Merged, Resuming
    <3>9. QED
      BY <1>13, <2>1, <3>8, TargetOwn DEF CreateWorktree, Goto
  <2>2. QED
    BY <1>13, <2>1, <1>x DEF CreateWorktree, Outcomes
<1>14. ASSUME NEW p \in Procs, SquashMerge(p)
     PROVE  TargetInv'
  <2>1. ASSUME Goto(p, "commit") PROVE TargetInv'
    <3>1. pc'[p] = "commit"
      BY <2>1, <1>t DEF Goto
    <3>2. base' = base /\ branch' = branch /\ index' = index /\ plan'[p] = plan[p]
      BY <1>14, <1>t DEF SquashMerge, gitVars
    <3>3. plan[p] \in Plans
      BY <1>p
    <3>8. TargetOk(p)'
      BY <1>14, <3>1, <1>p, <3>2 DEF SquashMerge, TargetOk, Preparing, Prepared, Publishing, Merged, Resuming
    <3>9. QED
      BY <1>14, <2>1, <3>8, TargetOwn DEF SquashMerge, Goto
  <2>2. QED
    BY <1>14, <2>1, <1>x DEF SquashMerge, Outcomes
<1>15. ASSUME NEW p \in Procs, CommitMerge(p)
     PROVE  TargetInv'
  <2>1. ASSUME Goto(p, "publish") PROVE TargetInv'
    <3>1. pc'[p] = "publish"
      BY <2>1, <1>t DEF Goto
    <3>2. base' = base /\ branch' = branch /\ index' = index 
      BY <1>15, <1>t DEF CommitMerge, gitVars
    <3>3. plan[p] \in Plans
      BY <1>p
    <3>4. plan'[p].base = plan[p].base /\ plan'[p].targets = plan[p].targets /\ plan'[p].left = plan[p].left
      BY <1>15, <1>t, <3>3 DEF CommitMerge, Throw, Goto, Plans
    <3>8. TargetOk(p)'
      BY <1>15, <3>1, <1>p, <3>2, <3>4 DEF CommitMerge, TargetOk, Preparing, Prepared, Publishing, Merged, Resuming
    <3>9. QED
      BY <1>15, <2>1, <3>8, TargetOwn DEF CommitMerge, Goto
  <2>2. QED
    BY <1>15, <2>1, <1>x DEF CommitMerge, Outcomes
<1>16. ASSUME NEW p \in Procs, Publish(p)
     PROVE  TargetInv'
  <2>1. ASSUME base = plan[p].base, plan' = [plan EXCEPT ![p].left = plan[p].targets],
               Goto(p, AfterPublish)
        PROVE  TargetInv'
    <3>1. pc[p] = "publish" /\ pc'[p] = AfterPublish /\ pc'[p] \in {"promote", "materialize"}
      BY <1>16, <2>1, <1>t DEF Publish, Goto, AfterPublish
    <3>2. branch' = branch /\ index' = index
      BY <1>16 DEF Publish
    <3>3. /\ plan'[p].base = plan[p].base /\ plan'[p].targets = plan[p].targets
          /\ plan'[p].left = plan[p].targets /\ plan'[p].commit = plan[p].commit
      BY <2>1, <1>t DEF Plans
    <3>4. \A w \in plan[p].targets : branch[w] = "base" /\ Tree(plan[p].base) \subseteq index[w]
      BY <2>1, <3>1, <1>p DEF TargetOk, Prepared
    <3>5. TargetOk(p)'
      BY <3>1, <3>2, <3>3, <3>4 DEF TargetOk, Preparing, Prepared, Publishing, Merged, Resuming
    <3>6. QED
      BY <2>1, <3>1, <3>5, TargetOwn DEF Goto
  <2>2. QED
    BY <1>16, <2>1, <1>x DEF Publish, Outcomes
<1>17. ASSUME NEW p \in Procs, Promote(p)
     PROVE  TargetInv'
  <2>1. base' = base /\ branch' = branch /\ index' = index /\ plan' = plan
    BY <1>17 DEF Promote, gitVars
  <2>2. ASSUME branch[featureRoot] = "base", Goto(p, AfterPromote(p)) PROVE TargetInv'
    <3>1. pc[p] = "promote" /\ pc'[p] = AfterPromote(p)
      BY <1>17, <2>2, <1>t DEF Promote, Goto
    <3>2. TargetOk(p)'
      BY <2>1, <3>1, <1>p DEF AfterPromote, TargetOk, Preparing, Prepared, Publishing, Merged, Resuming
    <3>3. QED
      BY <2>2, <3>1, <3>2, TargetOwn DEF Goto
  <2>3. ASSUME branch[featureRoot] # "base", Goto(p, "checkout") PROVE TargetInv'
    <3>1. pc[p] = "promote" /\ pc'[p] = "checkout"
      BY <1>17, <2>3, <1>t DEF Promote, Goto
    <3>2. TargetOk(p)'
      BY <2>1, <2>3, <3>1, <1>p DEF TargetOk, Preparing, Prepared, Publishing, Merged, Resuming
    <3>3. QED
      BY <2>3, <3>1, <3>2, TargetOwn DEF Goto
  <2>4. QED
    BY <1>17, <2>2, <2>3, <1>x DEF Promote, Outcomes
<1>18. ASSUME NEW p \in Procs, Checkout(p)
     PROVE  TargetInv'
  <2>1. ASSUME branch' = [branch EXCEPT ![featureRoot] = "base"],
               index' = [index EXCEPT ![featureRoot] = Tree(base)], Goto(p, AfterPromote(p))
        PROVE  TargetInv'
    <3>1. pc[p] = "checkout" /\ pc'[p] = AfterPromote(p) /\ plan' = plan /\ base' = base
      BY <1>18, <2>1, <1>t DEF Checkout, Goto
    <3>2. plan[p].targets \subseteq Worktrees
      BY <1>p DEF Plans
    <3>3. \A w \in Worktrees \ {featureRoot} : branch'[w] = branch[w] /\ index'[w] = index[w]
      BY <2>1 DEF RestType
    <3>4. TargetOk(p)'
      BY <3>1, <3>2, <3>3, <1>p DEF AfterPromote, TargetOk, Preparing, Prepared, Publishing, Merged, Resuming
    <3>5. QED
      BY <2>1, <3>1, <3>4, TargetOwn DEF Goto
  <2>2. QED
    BY <1>18, <2>1, <1>x DEF Checkout, Outcomes
<1>19. ASSUME NEW p \in Procs, Materialize(p)
     PROVE  TargetInv'
  <2>1. ASSUME NEW w \in plan[p].left, ReadTree(w, plan[p].base, plan[p].commit),
               plan' = [plan EXCEPT ![p].left = @ \ {w}], UNCHANGED pc
        PROVE  TargetInv'
    <3>1. pc[p] = "materialize" /\ pc' = [pc EXCEPT ![p] = "materialize"] /\ branch' = branch
      BY <1>19, <2>1, <1>t DEF Materialize
    <3>2. /\ plan'[p].base = plan[p].base /\ plan'[p].targets = plan[p].targets
          /\ plan'[p].left = plan[p].left \ {w} /\ plan'[p].feature = plan[p].feature
          /\ pc'[p] = "materialize"
      BY <2>1, <3>1, <1>t DEF Plans
    <3>3. Tree(plan[p].commit) = Tree(plan[p].base) \cup FeatureTree(plan[p].feature)
      BY <3>1, <1>p, MergeCommitType DEF PlanAt, MergedTree
    <3>4. plan[p].targets \subseteq Worktrees /\ w \in Worktrees
      BY <1>p DEF Plans
    <3>5. \A x \in Worktrees : index[x] \subseteq index'[x]
      BY <2>1, <3>3 DEF ReadTree, RestType
    <3>6. w \in plan[p].targets => Tree(plan[p].base) \subseteq index[w]
      BY <3>1, <1>p DEF TargetOk, Publishing
    <3>7. index'[w] = (index[w] \ (Tree(plan[p].base) \ Tree(plan[p].commit)))
                       \cup (Tree(plan[p].commit) \ Tree(plan[p].base))
      BY <2>1, <3>4 DEF ReadTree, RestType
    <3>8. w \in plan[p].targets => FeatureTree(plan[p].feature) \subseteq index'[w]
      BY <3>3, <3>6, <3>7
    <3>9. TargetOk(p)'
      BY <3>1, <3>2, <3>4, <3>5, <3>8, <1>p DEF TargetOk, Preparing, Prepared, Publishing, Merged, Resuming
    <3>10. QED
      BY <3>1, <3>9, TargetOwn
  <2>2. QED
    BY <1>19, <2>1, <1>x DEF Materialize, Outcomes
<1>20. ASSUME NEW p \in Procs, ReturnMerged(p)
     PROVE  TargetInv'
  <2>1. pc[p] = "materialize" /\ pc' = [pc EXCEPT ![p] = "cleanup"] /\ pc'[p] = "cleanup" /\ plan[p].left = {}
    BY <1>20, <1>t DEF ReturnMerged, Goto
  <2>2. branch' = branch /\ index' = index /\ plan' = plan
    BY <1>20 DEF ReturnMerged, gitVars
  <2>3. TargetOk(p)'
    BY <2>1, <2>2, <1>p DEF TargetOk, Preparing, Prepared, Publishing, Merged, Resuming
  <2>4. QED
    BY <2>1, <2>3, TargetOwn
<1>21. ASSUME NEW p \in Procs, Resume(p)
     PROVE  TargetInv'
  <2>1. ASSUME Goto(p, "promote") PROVE TargetInv'
    <3>1. pc[p] = "resume" /\ pc'[p] = "promote"
      BY <1>21, <2>1, <1>t DEF Resume, Inspecting, Goto
    <3>2. plan'[p].commit = <<>>
      BY <1>21, <3>1, <1>p, <1>t DEF Resume, Inspecting, PlanAt, Plans
    <3>3. TargetOk(p)'
      BY <3>1, <3>2 DEF TargetOk, Preparing, Prepared, Publishing, Merged, Resuming
    <3>4. QED
      BY <2>1, <3>1, <3>3, TargetOwn DEF Goto
  <2>2. QED
    BY <1>21, <2>1, <1>o DEF Resume, Inspecting
<1>22. ASSUME NEW p \in Procs, ResumeList(p)
     PROVE  TargetInv'
  BY <1>22, <1>o DEF ResumeList, Inspecting
<1>23. ASSUME NEW p \in Procs, ResumeTarget(p)
     PROVE  TargetInv'
  BY <1>23, <1>o, <1>x DEF ResumeTarget, Inspecting, Outcomes
<1>24. ASSUME NEW p \in Procs, ResumeHead(p)
     PROVE  TargetInv'
  BY <1>24, <1>o, <1>x DEF ResumeHead, Outcomes
<1>25. ASSUME NEW p \in Procs, ReturnResumed(p)
     PROVE  TargetInv'
  BY <1>25, <1>o DEF ReturnResumed
<1>26. ASSUME NEW p \in Procs, RemoveWorktree(p)
     PROVE  TargetInv'
  BY <1>26, <1>o DEF RemoveWorktree
<1>27. ASSUME NEW p \in Procs, Release(p)
     PROVE  TargetInv'
  BY <1>27, <1>o DEF Release
<1>27a. ASSUME NEW p \in Procs, Return(p)
     PROVE  TargetInv'
  BY <1>27a, <1>s DEF Return
<1>28. ASSUME NEW p \in Procs, Crash(p)
     PROVE  TargetInv'
  <2>1. CASE pc[p] \in {"acquire", "returned"}
    <3>1. ASSUME NEW q \in Procs, q = p PROVE TargetOk(q)'
      <4>1. pc'[q] = "idle"
        BY <1>28, <3>1, <1>t DEF Crash, Forget, Goto
      <4>2. QED
        BY <4>1 DEF TargetOk, Preparing, Prepared, Publishing, Merged
    <3>2. ASSUME NEW q \in Procs, q # p PROVE TargetOk(q)'
      <4>1. pc'[q] = pc[q] /\ plan'[q] = plan[q] /\ outcome'[q] = outcome[q] /\ UNCHANGED <<base, branch, index>>
        BY <1>28, <3>2, <1>t DEF Crash, Forget, Goto, gitVars
      <4>2. QED
        BY <4>1, <1>p DEF TargetOk, Preparing, Prepared, Publishing, Merged, Resuming
    <3>3. QED
      BY <3>1, <3>2 DEF TargetInv
  <2>2. CASE pc[p] \notin {"acquire", "returned"}
    BY <1>28, <2>2, <1>o DEF Crash
  <2>3. QED
    BY <2>1, <2>2
<1>29. ASSUME NEW w \in Worktrees, UserEdit(w)
     PROVE  TargetInv'
  BY <1>29, TargetKept DEF UserEdit, UserStep
<1>30. ASSUME NEW w \in Worktrees, UserCommit(w)
     PROVE  TargetInv'
  <2>1. base' = base \/ Len(base') = Len(base) + 1
    <3>1. base' = base \/ \E c \in Commits : base' = Append(base, c)
      BY BaseStep DEF ForeignCommit, Publishes
    <3>2. base \in Shas
      BY DEF RestType
    <3>3. QED
      BY <3>1, <3>2, AppendSha
  <2>2. \A x \in Worktrees : branch'[x] = branch[x] /\ index[x] \subseteq index'[x]
    BY <1>30 DEF UserCommit, RestType
  <2>3. QED
    BY <1>30, <2>1, <2>2, TargetKept DEF UserCommit, UserStep
<1>31. ASSUME NEW w \in Worktrees, UserSwitch(w)
     PROVE  TargetInv'
  <2>1. \A x \in Worktrees : branch[x] = "base" => branch'[x] = "base" /\ index'[x] = index[x]
    BY <1>31 DEF UserSwitch, RestType
  <2>2. QED
    BY <1>31, <2>1, TargetKept DEF UserSwitch, UserStep
<1>32. ASSUME UserFetch
     PROVE  TargetInv'
  <2>1. base' = base \/ Len(base') = Len(base) + 1
    <3>1. base' = base \/ \E c \in Commits : base' = Append(base, c)
      BY BaseStep DEF ForeignCommit, Publishes
    <3>2. base \in Shas
      BY DEF RestType
    <3>3. QED
      BY <3>1, <3>2, AppendSha
  <2>2. QED
    BY <1>32, <2>1, TargetKept DEF UserFetch, UserStep
<1>33. ASSUME UserFeatureCommit
     PROVE  TargetInv'
  <2>1. \A x \in Worktrees : branch[x] = "base" => branch'[x] = "base" /\ index'[x] = index[x]
    BY <1>33 DEF UserFeatureCommit, RestType
  <2>2. QED
    BY <1>33, <2>1, TargetKept DEF UserFeatureCommit, UserStep
<1>34. CASE UNCHANGED vars
  BY <1>34, TargetKept DEF vars, gitVars
<1>35. QED
  BY <1>1, <1>2, <1>3, <1>4, <1>4a, <1>5, <1>6, <1>7, <1>8, <1>9, <1>10, <1>11, <1>12, <1>13, <1>14, <1>15, <1>16, <1>17, <1>18, <1>19, <1>20, <1>21, <1>22, <1>23, <1>24, <1>25, <1>26, <1>27, <1>27a, <1>28, <1>29, <1>30, <1>31, <1>32, <1>33, <1>34 DEF Next, Step, UserNext

\* When execute() returns a new merge, every worktree it has listed holds the
\* feature's changes, for any number of worktrees and interleaved users.
THEOREM ReturnsMaterializedHolds == Spec => []ReturnsMaterialized
<1>1. Init => LockInv /\ TargetInv
  BY DEF Init, LockInv, TargetInv, TargetOk, Preparing, Prepared, Publishing, Merged
<1>2. RestType /\ CallInv /\ (LockInv /\ TargetInv) /\ [Next]_vars => (LockInv /\ TargetInv)'
  BY LockStep, TargetStep
<1>3. TargetInv => ReturnsMaterialized
  BY DEF TargetInv, TargetOk, Merged, ReturnsMaterialized
<1>4. QED
  BY <1>1, <1>2, <1>3, Invariant1, PTL DEF Spec

-----------------------------------------------------------------------------
(* A refusal, or an error not marked committed, comes before publication.  *)

\* The commit of this call, if it exists, is not in base: the call has not come
\* to its compare-and-swap, or was refused there.
Uncommitted == {"refused", "error"}
Refused(p) ==
  \/ pc[p] \in Preparing \ {"inspectBase"}
  \/ outcome[p] \in Uncommitted /\ plan[p].commit # <<>>

\* What base has got since this call has read it begins with somebody else's
\* commit, which has no marker.
ErrorOk(p) ==
  /\ outcome[p] # "none" => pc[p] \in {"cleanup", "release", "returned"}
  /\ pc[p] \in {"promote", "checkout"} => promoteFeatureWorktreeToBase
  /\ Refused(p) =>
       /\ Len(plan[p].base) <= Len(base)
       /\ Len(base) > Len(plan[p].base) => ~base[Len(plan[p].base) + 1].marked
  /\ outcome[p] \in Uncommitted /\ plan[p].commit # <<>>
       => Len(plan[p].base) > 0 /\ plan[p].commit = MergeCommit(plan[p])

ErrorInv == \A p \in Procs : ErrorOk(p)

\* The status probe after publication, which only branch mode makes, answers.
ProbeAnswers == promoteFeatureWorktreeToBase => "git" \notin Failures

\* Foreign commits leave a refused call refused.
LEMMA ErrorKept ==
  ASSUME RestType, CallInv, NEW q \in Procs, ErrorOk(q), base' = base \/ ForeignCommit,
         pc'[q] = pc[q], plan'[q] = plan[q], outcome'[q] = outcome[q]
  PROVE  ErrorOk(q)'
<1>1. base \in Shas /\ Len(base) \in Nat /\ plan[q].base \in Shas /\ Len(plan[q].base) \in Nat
  BY DEF RestType, CallInv, Plans, Shas
<1>2. CASE base' = base
  BY <1>2 DEF ErrorOk, Refused
<1>3. CASE ForeignCommit
  <2>1. PICK c \in Commits : ~c.marked /\ base' = Append(base, c)
    BY <1>3 DEF ForeignCommit
  <2>2. /\ Len(base') = Len(base) + 1
        /\ \A i \in 1..Len(base) : base'[i] = base[i]
        /\ base'[Len(base) + 1] = c
    BY <1>1, <2>1, AppendSha
  <2>3. ASSUME Refused(q)
        PROVE  /\ Len(plan[q].base) <= Len(base')
               /\ Len(base') > Len(plan[q].base) => ~base'[Len(plan[q].base) + 1].marked
    <3>1. /\ Len(plan[q].base) <= Len(base)
          /\ Len(base) > Len(plan[q].base) => ~base[Len(plan[q].base) + 1].marked
      BY <2>3 DEF ErrorOk
    <3>2. CASE Len(base) = Len(plan[q].base)
      BY <1>1, <2>1, <2>2, <3>2
    <3>3. CASE Len(base) # Len(plan[q].base)
      <4>1. Len(plan[q].base) + 1 \in 1..Len(base)
        BY <1>1, <3>1, <3>3
      <4>2. QED
        BY <1>1, <2>2, <3>1, <4>1
    <3>4. QED
      BY <3>2, <3>3
  <2>4. Refused(q)' => Refused(q)
    BY DEF Refused
  <2>5. QED
    BY <2>3, <2>4 DEF ErrorOk
<1>4. QED
  BY <1>2, <1>3

\* A step of one call that leaves base alone concerns that call only.
LEMMA ErrorOwn ==
  ASSUME RestType, CallInv, ErrorInv, NEW p \in Procs, UNCHANGED base, ErrorOk(p)',
         NEW l, pc' = [pc EXCEPT ![p] = l], NEW pl, plan' = [plan EXCEPT ![p] = pl],
         NEW o, outcome' = [outcome EXCEPT ![p] = o]
  PROVE  ErrorInv'
<1>1. ASSUME NEW q \in Procs, q # p PROVE ErrorOk(q)'
  <2>1. pc'[q] = pc[q] /\ plan'[q] = plan[q] /\ outcome'[q] = outcome[q]
    BY <1>1 DEF CallInv, RestType
  <2>2. QED
    BY <2>1, ErrorKept DEF ErrorInv
<1>2. QED
  BY <1>1 DEF ErrorInv

\* A call goes on with the plan it has.
LEMMA ErrorGoto ==
  ASSUME RestType, CallInv, ErrorInv, NEW p \in Procs, UNCHANGED <<base, plan, outcome>>,
         NEW label, Goto(p, label), outcome[p] = "none",
         label \in {"promote", "checkout"} => promoteFeatureWorktreeToBase,
         label \in Preparing \ {"inspectBase"} => pc[p] \in Preparing \ {"inspectBase"}
  PROVE  ErrorInv'
<1>1. pc' = [pc EXCEPT ![p] = label] /\ pc'[p] = label
  BY DEF Goto, CallInv
<1>2. plan' = [plan EXCEPT ![p] = plan[p]] /\ outcome' = [outcome EXCEPT ![p] = "none"]
  BY DEF CallInv, RestType
<1>3. ErrorOk(p)'
  BY <1>1, <1>2 DEF ErrorInv, ErrorOk, Refused
<1>4. QED
  BY <1>1, <1>2, <1>3, ErrorOwn

\* A refusal before there is a commit, at the compare-and-swap, or an error that
\* says that base has moved.
LEMMA ErrorThrow ==
  ASSUME RestType, CallInv, ErrorInv, NEW p \in Procs, UNCHANGED <<base, plan>>,
         NEW kind \in Uncommitted \cup {"committedError"}, Throw(p, kind),
         \/ kind = "committedError" \/ plan[p].commit = <<>>
         \/ pc[p] = "publish"
  PROVE  ErrorInv'
<1>1. PICK label \in {"cleanup", "release"} : pc' = [pc EXCEPT ![p] = label] /\ pc'[p] = label
  BY DEF Throw, Goto, CallInv
<1>2. outcome' = [outcome EXCEPT ![p] = kind] /\ outcome'[p] = kind
  BY DEF Throw, RestType
<1>3. plan' = [plan EXCEPT ![p] = plan[p]]
  BY DEF CallInv
<1>4. CASE kind = "committedError" \/ plan[p].commit = <<>>
  <2>1. ~Refused(p)'
    BY <1>1, <1>2, <1>3, <1>4 DEF Refused, Preparing, Prepared, Uncommitted
  <2>2. ErrorOk(p)'
    BY <1>1, <1>2, <1>3, <1>4, <2>1 DEF ErrorOk, Uncommitted
  <2>3. QED
    BY <1>1, <1>2, <1>3, <2>2, ErrorOwn
<1>5. CASE pc[p] = "publish"
  <2>1. Len(plan[p].base) > 0 /\ plan[p].commit = MergeCommit(plan[p])
    BY <1>5 DEF CallInv, PlanInv, PlanAt
  <2>2. /\ Len(plan[p].base) <= Len(base)
        /\ Len(base) > Len(plan[p].base) => ~base[Len(plan[p].base) + 1].marked
    BY <1>5 DEF ErrorInv, ErrorOk, Refused, Preparing, Prepared
  <2>3. ErrorOk(p)'
    BY <1>1, <1>2, <2>1, <2>2 DEF ErrorOk
  <2>4. QED
    BY <1>1, <1>2, <1>3, <2>3, ErrorOwn
<1>6. QED
  BY <1>4, <1>5

\* Nothing of an ended call is left to tell.
LEMMA ErrorForget ==
  ASSUME RestType, CallInv, ErrorInv, NEW p \in Procs, Forget(p), UNCHANGED base,
         NEW o, outcome' = [outcome EXCEPT ![p] = o], NEW label, Goto(p, label),
         label = "returned" \/ (label = "idle" /\ o = "none")
  PROVE  ErrorInv'
<1>1. /\ pc' = [pc EXCEPT ![p] = label] /\ pc'[p] = label /\ outcome'[p] = o
      /\ plan' = [plan EXCEPT ![p] = NoPlan] /\ plan'[p].commit = <<>>
  BY DEF Forget, Goto, CallInv, RestType, NoPlan
<1>2. ErrorOk(p)'
  BY <1>1 DEF ErrorOk, Refused, Preparing, Prepared, Uncommitted
<1>3. QED
  BY <1>1, <1>2, ErrorOwn

\* Nothing of a call changes, and base at most by a foreign commit.
LEMMA ErrorIdle ==
  ASSUME RestType, CallInv, ErrorInv, UNCHANGED <<pc, plan, outcome>>,
         base' = base \/ ForeignCommit
  PROVE  ErrorInv'
BY ErrorKept DEF ErrorInv

\* Every step keeps what a refusal says, if the status probe answers.
LEMMA ErrorStep ==
  ASSUME ProbeAnswers, RestType, CallInv, LockInv, ErrorInv, [Next]_vars
  PROVE  ErrorInv'
<1> USE DEF Uncommitted
<1>p. \A p \in Procs : plan[p] \in Plans /\ PlanAt(pc[p], plan[p]) /\ ErrorOk(p)
  BY DEF CallInv, PlanInv, ErrorInv
<1>n. \A p \in Procs : pc[p] \notin {"cleanup", "release", "returned"} => outcome[p] = "none"
  BY <1>p DEF ErrorOk
<1>1. ASSUME NEW p \in Procs, StartExecute(p)
     PROVE  ErrorInv'
  BY <1>1, <1>n, ErrorGoto DEF StartExecute, Preparing, Prepared, gitVars, callVars
<1>2. ASSUME NEW p \in Procs, AcquireReclaim(p)
     PROVE  ErrorInv'
  BY <1>2, ErrorIdle DEF AcquireReclaim, gitVars, callVars
<1>3. ASSUME NEW p \in Procs, AcquireTake(p)
     PROVE  ErrorInv'
  BY <1>3, <1>n, ErrorGoto DEF AcquireTake, Preparing, Prepared, gitVars, callVars
<1>4. ASSUME NEW p \in Procs, AcquireBusy(p)
     PROVE  ErrorInv'
  BY <1>4, <1>n, ErrorGoto DEF AcquireBusy, Preparing, Prepared, gitVars, callVars
<1>4a. ASSUME NEW p \in Procs, AcquireFails(p)
     PROVE  ErrorInv'
  BY <1>4a, <1>n, ErrorGoto DEF AcquireFails, Preparing, Prepared, gitVars, callVars
<1>5. ASSUME NEW p \in Procs, ExistingCommit(p)
     PROVE  ErrorInv'
  BY <1>5, <1>n, ErrorGoto DEF ExistingCommit, Preparing, Prepared, gitVars, callVars
<1>6. ASSUME NEW p \in Procs, InspectFails(p)
     PROVE  ErrorInv'
  <2>1. plan[p].commit = <<>>
    BY <1>6, <1>p DEF InspectFails, PlanAt
  <2>2. QED
    BY <1>6, <2>1, ErrorThrow DEF InspectFails, gitVars
<1>7. ASSUME NEW p \in Procs, InspectBase(p)
     PROVE  ErrorInv'
  <2> DEFINE pl == [plan[p] EXCEPT !.base = base]
  <2>1. /\ plan' = [plan EXCEPT ![p] = pl] /\ pc' = [pc EXCEPT ![p] = "inspectFeature"]
        /\ outcome' = [outcome EXCEPT ![p] = "none"] /\ base' = base
    BY <1>7, <1>n DEF InspectBase, Inspecting, Goto, gitVars, CallInv, RestType
  <2>2. plan'[p].base = base /\ pc'[p] = "inspectFeature" /\ outcome'[p] = "none"
    BY <2>1, <1>p DEF CallInv, RestType, Plans
  <2>3. Len(base) \in Nat
    BY DEF RestType, Shas
  <2>4. ErrorOk(p)'
    BY <2>1, <2>2, <2>3 DEF ErrorOk
  <2>5. QED
    BY <2>1, <2>4, ErrorOwn
<1>8. ASSUME NEW p \in Procs, InspectFeature(p)
     PROVE  ErrorInv'
  <2> DEFINE pl == [plan[p] EXCEPT !.feature = feature]
  <2>1. /\ plan' = [plan EXCEPT ![p] = pl] /\ pc' = [pc EXCEPT ![p] = "inspectHead"]
        /\ outcome' = [outcome EXCEPT ![p] = "none"] /\ base' = base
    BY <1>8, <1>n DEF InspectFeature, Inspecting, Goto, gitVars, CallInv, RestType
  <2>2. plan'[p].base = plan[p].base /\ pc'[p] = "inspectHead" /\ outcome'[p] = "none"
    BY <2>1, <1>p DEF CallInv, RestType, Plans
  <2>3. Refused(p)
    BY <1>8 DEF InspectFeature, Inspecting, Refused, Preparing, Prepared
  <2>4. ErrorOk(p)'
    BY <2>1, <2>2, <2>3, <1>p DEF ErrorOk
  <2>5. QED
    BY <2>1, <2>4, ErrorOwn
<1>9. ASSUME NEW p \in Procs, InspectHead(p)
     PROVE  ErrorInv'
  <2>1. plan[p].commit = <<>>
    BY <1>9, <1>p DEF InspectHead, Inspecting, PlanAt
  <2>2. ASSUME Throw(p, "refused"), UNCHANGED plan
        PROVE  ErrorInv'
    BY <1>9, <2>1, <2>2, ErrorThrow DEF InspectHead, Inspecting, gitVars
  <2>3. QED
    BY <1>9, <1>n, <2>2, ErrorGoto DEF InspectHead, Inspecting, Preparing, Prepared, gitVars
<1>10. ASSUME NEW p \in Procs, ListTargets(p)
     PROVE  ErrorInv'
  <2> DEFINE pl == [plan[p] EXCEPT !.targets = BaseWorktrees, !.left = BaseWorktrees]
  <2>1. /\ plan' = [plan EXCEPT ![p] = pl] /\ pc' = [pc EXCEPT ![p] = "inspectTargets"]
        /\ outcome' = [outcome EXCEPT ![p] = "none"] /\ base' = base
    BY <1>10, <1>n DEF ListTargets, Inspecting, Goto, gitVars, CallInv, RestType
  <2>2. plan'[p].base = plan[p].base /\ pc'[p] = "inspectTargets" /\ outcome'[p] = "none"
    BY <2>1, <1>p DEF CallInv, RestType, Plans
  <2>3. Refused(p)
    BY <1>10 DEF ListTargets, Inspecting, Refused, Preparing, Prepared
  <2>4. ErrorOk(p)'
    BY <2>1, <2>2, <2>3, <1>p DEF ErrorOk
  <2>5. QED
    BY <2>1, <2>4, ErrorOwn
<1>11. ASSUME NEW p \in Procs, InspectTarget(p)
     PROVE  ErrorInv'
  <2>1. plan[p].commit = <<>> /\ base' = base
    BY <1>11, <1>p DEF InspectTarget, Inspecting, PlanAt, gitVars
  <2>2. ASSUME Throw(p, "refused"), UNCHANGED plan
        PROVE  ErrorInv'
    BY <2>1, <2>2, ErrorThrow
  <2>3. ASSUME NEW w \in plan[p].left, plan' = [plan EXCEPT ![p].left = @ \ {w}],
               UNCHANGED <<pc, outcome>>
        PROVE  ErrorInv'
    <3> DEFINE pl == [plan[p] EXCEPT !.left = plan[p].left \ {w}]
    <3>1. /\ plan' = [plan EXCEPT ![p] = pl] /\ pc' = [pc EXCEPT ![p] = "inspectTargets"]
          /\ outcome' = [outcome EXCEPT ![p] = "none"]
      BY <1>11, <2>3, <1>n DEF InspectTarget, Inspecting, CallInv, RestType
    <3>2. plan'[p].base = plan[p].base /\ pc'[p] = "inspectTargets" /\ outcome'[p] = "none"
      BY <3>1, <1>p DEF CallInv, RestType, Plans
    <3>3. Refused(p)
      BY <1>11 DEF InspectTarget, Inspecting, Refused, Preparing, Prepared
    <3>4. ErrorOk(p)'
      BY <2>1, <3>1, <3>2, <3>3, <1>p DEF ErrorOk
    <3>5. QED
      BY <2>1, <3>1, <3>4, ErrorOwn
  <2>4. QED
    BY <1>11, <2>2, <2>3 DEF InspectTarget, Inspecting
<1>12. ASSUME NEW p \in Procs, Probe(p)
     PROVE  ErrorInv'
  <2>1. plan[p].commit = <<>>
    BY <1>12, <1>p DEF Probe, Inspecting, PlanAt
  <2>2. ASSUME Throw(p, "error"), UNCHANGED plan
        PROVE  ErrorInv'
    BY <1>12, <2>1, <2>2, ErrorThrow DEF Probe, Inspecting, gitVars
  <2>3. QED
    BY <1>12, <1>n, <2>2, ErrorGoto DEF Probe, Inspecting, Preparing, Prepared, gitVars
<1>13. ASSUME NEW p \in Procs, CreateWorktree(p)
     PROVE  ErrorInv'
  <2>1. plan[p].commit = <<>>
    BY <1>13, <1>p DEF CreateWorktree, PlanAt
  <2>2. ASSUME Throw(p, "error"), UNCHANGED plan
        PROVE  ErrorInv'
    BY <1>13, <2>1, <2>2, ErrorThrow DEF CreateWorktree, gitVars
  <2>3. QED
    BY <1>13, <1>n, <2>2, ErrorGoto DEF CreateWorktree, Preparing, Prepared, gitVars
<1>14. ASSUME NEW p \in Procs, SquashMerge(p)
     PROVE  ErrorInv'
  <2>1. plan[p].commit = <<>>
    BY <1>14, <1>p DEF SquashMerge, PlanAt
  <2>2. ASSUME Throw(p, "error"), UNCHANGED plan
        PROVE  ErrorInv'
    BY <1>14, <2>1, <2>2, ErrorThrow DEF SquashMerge, gitVars
  <2>3. QED
    BY <1>14, <1>n, <2>2, ErrorGoto DEF SquashMerge, Preparing, Prepared, gitVars
<1>15. ASSUME NEW p \in Procs, CommitMerge(p)
     PROVE  ErrorInv'
  <2>1. plan[p].commit = <<>> /\ base' = base
    BY <1>15, <1>p DEF CommitMerge, PlanAt, gitVars
  <2>2. ASSUME NEW kind \in Uncommitted, Throw(p, kind), UNCHANGED plan
        PROVE  ErrorInv'
    BY <2>1, <2>2, ErrorThrow
  <2>3. ASSUME plan' = [plan EXCEPT ![p].commit = MergeCommit(plan[p])], Goto(p, "publish"),
               UNCHANGED outcome
        PROVE  ErrorInv'
    <3> DEFINE pl == [plan[p] EXCEPT !.commit = MergeCommit(plan[p])]
    <3>1. /\ plan' = [plan EXCEPT ![p] = pl] /\ pc' = [pc EXCEPT ![p] = "publish"]
          /\ outcome' = [outcome EXCEPT ![p] = "none"]
      BY <1>15, <2>3, <1>n DEF CommitMerge, Goto, CallInv, RestType
    <3>2. plan'[p].base = plan[p].base /\ pc'[p] = "publish" /\ outcome'[p] = "none"
      BY <3>1, <1>p DEF CallInv, RestType, Plans
    <3>3. Refused(p)
      BY <1>15 DEF CommitMerge, Refused, Preparing, Prepared
    <3>4. ErrorOk(p)'
      BY <2>1, <3>1, <3>2, <3>3, <1>p DEF ErrorOk
    <3>5. QED
      BY <2>1, <3>1, <3>4, ErrorOwn
  <2>4. QED
    BY <1>15, <2>2, <2>3 DEF CommitMerge
<1>16. ASSUME NEW p \in Procs, Publish(p)
     PROVE  ErrorInv'
  <2>1. pc[p] = "publish"
    BY <1>16 DEF Publish
  <2>2. ASSUME Throw(p, "refused"), UNCHANGED <<base, plan>>
        PROVE  ErrorInv'
    BY <2>1, <2>2, ErrorThrow
  <2>3. ASSUME Goto(p, AfterPublish), plan' = [plan EXCEPT ![p].left = plan[p].targets],
               UNCHANGED outcome
        PROVE  ErrorInv'
    <3>1. ErrorOk(p)'
      <4>1. pc'[p] = AfterPublish /\ outcome'[p] = "none"
        BY <2>1, <2>3, <1>n DEF Goto, CallInv
      <4>2. ~Refused(p)'
        BY <4>1 DEF Refused, AfterPublish, Preparing, Prepared
      <4>3. QED
        BY <4>1, <4>2 DEF ErrorOk, AfterPublish
    <3>2. ASSUME NEW q \in Procs, q # p PROVE ErrorOk(q)'
      <4>1. pc[q] \in {"idle", "acquire", "returned"} /\ plan[q].commit = <<>> /\ ErrorOk(q)
        BY <2>1, <3>2, <1>p, Alone DEF PlanAt
      <4>2. pc'[q] = pc[q] /\ outcome'[q] = outcome[q] /\ plan'[q] = plan[q]
        BY <2>3, <3>2 DEF Goto, CallInv
      <4>3. QED
        BY <4>1, <4>2 DEF ErrorOk, Refused, Preparing, Prepared
    <3>3. QED
      BY <3>1, <3>2 DEF ErrorInv
  <2>4. QED
    BY <1>16, <2>2, <2>3 DEF Publish
<1>17. ASSUME NEW p \in Procs, Promote(p)
     PROVE  ErrorInv'
  <2>1. promoteFeatureWorktreeToBase /\ "git" \notin Failures /\ outcome[p] = "none"
    BY <1>17, <1>p, <1>n DEF Promote, ErrorOk, ProbeAnswers
  <2>2. ASSUME Throw(p, "committedError") PROVE ErrorInv'
    BY <1>17, <2>2, ErrorThrow DEF Promote, gitVars
  <2>3. ASSUME Goto(p, "checkout") \/ Goto(p, AfterPromote(p)), UNCHANGED outcome PROVE ErrorInv'
    BY <1>17, <2>1, <2>3, ErrorGoto DEF Promote, AfterPromote, gitVars, Preparing, Prepared
  <2>4. QED
    BY <1>17, <2>1, <2>2, <2>3 DEF Promote
<1>18. ASSUME NEW p \in Procs, Checkout(p)
     PROVE  ErrorInv'
  <2>1. ASSUME Throw(p, "committedError") PROVE ErrorInv'
    BY <1>18, <2>1, ErrorThrow DEF Checkout
  <2>2. ASSUME Goto(p, AfterPromote(p)), UNCHANGED outcome PROVE ErrorInv'
    BY <1>18, <2>2, <1>n, ErrorGoto DEF Checkout, AfterPromote, Preparing, Prepared
  <2>3. QED
    BY <1>18, <2>1, <2>2 DEF Checkout
<1>19. ASSUME NEW p \in Procs, Materialize(p)
     PROVE  ErrorInv'
  <2>1. base' = base
    BY <1>19 DEF Materialize
  <2>2. ASSUME Throw(p, "committedError"), UNCHANGED plan PROVE ErrorInv'
    BY <2>1, <2>2, ErrorThrow
  <2>3. ASSUME NEW w \in plan[p].left, plan' = [plan EXCEPT ![p].left = @ \ {w}],
               UNCHANGED <<pc, outcome>>
        PROVE  ErrorInv'
    <3> DEFINE pl == [plan[p] EXCEPT !.left = plan[p].left \ {w}]
    <3>1. /\ plan' = [plan EXCEPT ![p] = pl] /\ pc' = [pc EXCEPT ![p] = "materialize"]
          /\ outcome' = [outcome EXCEPT ![p] = "none"]
      BY <1>19, <2>3, <1>n DEF Materialize, CallInv, RestType
    <3>2. pc'[p] = "materialize" /\ outcome'[p] = "none"
      BY <3>1 DEF CallInv, RestType
    <3>3. ErrorOk(p)'
      BY <3>2 DEF ErrorOk, Refused, Preparing, Prepared
    <3>4. QED
      BY <2>1, <3>1, <3>3, ErrorOwn
  <2>4. QED
    BY <1>19, <2>2, <2>3 DEF Materialize
<1>20. ASSUME NEW p \in Procs, ReturnMerged(p)
     PROVE  ErrorInv'
  <2>1. /\ plan' = [plan EXCEPT ![p] = plan[p]] /\ pc' = [pc EXCEPT ![p] = "cleanup"]
        /\ outcome' = [outcome EXCEPT ![p] = "merged"] /\ base' = base
    BY <1>20 DEF ReturnMerged, Goto, gitVars, CallInv
  <2>2. pc'[p] = "cleanup" /\ outcome'[p] = "merged"
    BY <2>1 DEF CallInv, RestType
  <2>3. ErrorOk(p)'
    BY <2>2 DEF ErrorOk, Refused, Preparing, Prepared
  <2>4. QED
    BY <2>1, <2>3, ErrorOwn
<1>21. ASSUME NEW p \in Procs, Resume(p)
     PROVE  ErrorInv'
  <2> DEFINE pl == [plan[p] EXCEPT !.base = base, !.feature = feature]
             l == IF promoteFeatureWorktreeToBase THEN "promote" ELSE "resumeList"
  <2>1. /\ plan' = [plan EXCEPT ![p] = pl] /\ pc' = [pc EXCEPT ![p] = l]
        /\ outcome' = [outcome EXCEPT ![p] = "none"] /\ base' = base
    BY <1>21, <1>n DEF Resume, Inspecting, Goto, gitVars, CallInv, RestType
  <2>2. pc'[p] = l /\ outcome'[p] = "none"
    BY <2>1 DEF CallInv, RestType
  <2>3. ErrorOk(p)'
    BY <2>2 DEF ErrorOk, Refused, Preparing, Prepared
  <2>4. QED
    BY <2>1, <2>3, ErrorOwn
<1>22. ASSUME NEW p \in Procs, ResumeList(p)
     PROVE  ErrorInv'
  <2> DEFINE pl == [plan[p] EXCEPT !.left = BaseWorktrees]
             l == "resumeTargets"
  <2>1. /\ plan' = [plan EXCEPT ![p] = pl] /\ pc' = [pc EXCEPT ![p] = l]
        /\ outcome' = [outcome EXCEPT ![p] = "none"] /\ base' = base
    BY <1>22, <1>n DEF ResumeList, Inspecting, Goto, gitVars, CallInv, RestType
  <2>2. pc'[p] = l /\ outcome'[p] = "none"
    BY <2>1 DEF CallInv, RestType
  <2>3. ErrorOk(p)'
    BY <2>2 DEF ErrorOk, Refused, Preparing, Prepared
  <2>4. QED
    BY <2>1, <2>3, ErrorOwn
<1>23. ASSUME NEW p \in Procs, ResumeTarget(p)
     PROVE  ErrorInv'
  <2>1. plan[p].commit = <<>> /\ base' = base
    BY <1>23, <1>p DEF ResumeTarget, Inspecting, PlanAt, gitVars
  <2>2. ASSUME Throw(p, "refused"), UNCHANGED plan PROVE ErrorInv'
    BY <2>1, <2>2, ErrorThrow
  <2>3. ASSUME NEW w \in plan[p].left, Goto(p, "resumeHead"), UNCHANGED outcome,
               plan' = [plan EXCEPT ![p].left = @ \ {w}, ![p].targets = {w}]
        PROVE  ErrorInv'
    <3> DEFINE pl == [plan[p] EXCEPT !.left = plan[p].left \ {w}, !.targets = {w}]
    <3>1. /\ plan' = [plan EXCEPT ![p] = pl] /\ pc' = [pc EXCEPT ![p] = "resumeHead"]
          /\ outcome' = [outcome EXCEPT ![p] = "none"]
      BY <1>23, <2>3, <1>n DEF ResumeTarget, Inspecting, Goto, CallInv, RestType
    <3>2. pc'[p] = "resumeHead" /\ outcome'[p] = "none"
      BY <3>1 DEF CallInv, RestType
    <3>3. ErrorOk(p)'
      BY <3>2 DEF ErrorOk, Refused, Preparing, Prepared
    <3>4. QED
      BY <2>1, <3>1, <3>3, ErrorOwn
  <2>4. QED
    BY <1>23, <2>2, <2>3 DEF ResumeTarget, Inspecting
<1>24. ASSUME NEW p \in Procs, ResumeHead(p)
     PROVE  ErrorInv'
  <2>1. ASSUME Throw(p, "committedError") PROVE ErrorInv'
    BY <1>24, <2>1, ErrorThrow DEF ResumeHead
  <2>2. ASSUME Goto(p, "resumeTargets"), UNCHANGED outcome PROVE ErrorInv'
    BY <1>24, <2>2, <1>n, ErrorGoto DEF ResumeHead, Preparing, Prepared
  <2>3. QED
    BY <1>24, <2>1, <2>2 DEF ResumeHead
<1>25. ASSUME NEW p \in Procs, ReturnResumed(p)
     PROVE  ErrorInv'
  <2>1. /\ plan' = [plan EXCEPT ![p] = plan[p]] /\ pc' = [pc EXCEPT ![p] = "release"]
        /\ outcome' = [outcome EXCEPT ![p] = "resumed"] /\ base' = base
    BY <1>25 DEF ReturnResumed, Goto, gitVars, CallInv
  <2>2. pc'[p] = "release" /\ outcome'[p] = "resumed"
    BY <2>1 DEF CallInv, RestType
  <2>3. ErrorOk(p)'
    BY <2>2 DEF ErrorOk, Refused, Preparing, Prepared
  <2>4. QED
    BY <2>1, <2>3, ErrorOwn
<1>26. ASSUME NEW p \in Procs, RemoveWorktree(p)
     PROVE  ErrorInv'
  <2>1. /\ plan' = [plan EXCEPT ![p] = plan[p]] /\ pc' = [pc EXCEPT ![p] = "release"]
        /\ outcome' = [outcome EXCEPT ![p] = outcome[p]] /\ base' = base /\ UNCHANGED <<plan, outcome>>
    BY <1>26 DEF RemoveWorktree, Goto, gitVars, CallInv, RestType
  <2>2. pc'[p] = "release"
    BY <2>1 DEF CallInv
  <2>3. ErrorOk(p)'
    BY <2>1, <2>2, <1>p DEF ErrorOk, Refused, Preparing, Prepared
  <2>4. QED
    BY <2>1, <2>3, ErrorOwn
<1>27. ASSUME NEW p \in Procs, Release(p)
     PROVE  ErrorInv'
  <2>1. outcome' = [outcome EXCEPT ![p] = outcome[p]] \/ outcome' = [outcome EXCEPT ![p] = "lockError"]
    BY <1>27 DEF Release, RestType
  <2>2. QED
    BY <1>27, <2>1, ErrorForget DEF Release, gitVars
<1>27a. ASSUME NEW p \in Procs, Return(p)
     PROVE  ErrorInv'
  <2>1. /\ plan' = [plan EXCEPT ![p] = plan[p]] /\ pc' = [pc EXCEPT ![p] = "idle"]
        /\ outcome' = [outcome EXCEPT ![p] = "none"] /\ base' = base
        /\ pc'[p] = "idle" /\ outcome'[p] = "none"
    BY <1>27a DEF Return, Goto, gitVars, CallInv, RestType
  <2>2. ErrorOk(p)'
    BY <2>1 DEF ErrorOk, Refused, Preparing, Prepared
  <2>3. QED
    BY <2>1, <2>2, ErrorOwn
<1>28. ASSUME NEW p \in Procs, Crash(p)
     PROVE  ErrorInv'
  BY <1>28, ErrorForget DEF Crash, gitVars
<1>29. ASSUME NEW w \in Worktrees, UserEdit(w)
     PROVE  ErrorInv'
  BY <1>29, ErrorIdle DEF UserEdit, UserStep, callVars
<1>30. ASSUME NEW w \in Worktrees, UserCommit(w)
     PROVE  ErrorInv'
  <2>1. \A p \in Procs : ~Publish(p)
    <3>1. ASSUME NEW p \in Procs, Publish(p) PROVE FALSE
      <4>1. pc'[p] # pc[p]
        BY <3>1 DEF Publish, AfterPublish, Throw, Goto, CallInv
      <4>2. QED
        BY <1>30, <4>1 DEF UserCommit, UserStep, callVars
    <3>2. QED
      BY <3>1
  <2>2. base' = base \/ ForeignCommit
    BY <2>1, BaseStep DEF Publishes
  <2>3. QED
    BY <1>30, <2>2, ErrorIdle DEF UserCommit, UserStep, callVars
<1>31. ASSUME NEW w \in Worktrees, UserSwitch(w)
     PROVE  ErrorInv'
  BY <1>31, ErrorIdle DEF UserSwitch, UserStep, callVars
<1>32. ASSUME UserFetch
     PROVE  ErrorInv'
  <2>1. \A p \in Procs : ~Publish(p)
    <3>1. ASSUME NEW p \in Procs, Publish(p) PROVE FALSE
      <4>1. pc'[p] # pc[p]
        BY <3>1 DEF Publish, AfterPublish, Throw, Goto, CallInv
      <4>2. QED
        BY <1>32, <4>1 DEF UserFetch, UserStep, callVars
    <3>2. QED
      BY <3>1
  <2>2. base' = base \/ ForeignCommit
    BY <2>1, BaseStep DEF Publishes
  <2>3. QED
    BY <1>32, <2>2, ErrorIdle DEF UserFetch, UserStep, callVars
<1>33. ASSUME UserFeatureCommit
     PROVE  ErrorInv'
  BY <1>33, ErrorIdle DEF UserFeatureCommit, UserStep, callVars
<1>34. CASE UNCHANGED vars
  BY <1>34, ErrorIdle DEF vars, gitVars, callVars
<1>35. QED
  BY <1>1, <1>2, <1>3, <1>4, <1>4a, <1>5, <1>6, <1>7, <1>8, <1>9, <1>10, <1>11, <1>12, <1>13, <1>14, <1>15, <1>16, <1>17, <1>18, <1>19, <1>20, <1>21, <1>22, <1>23, <1>24, <1>25, <1>26, <1>27, <1>27a, <1>28, <1>29, <1>30, <1>31, <1>32, <1>33, <1>34 DEF Next, Step, UserNext

\* A refused call has not published.
LEMMA RefusedUnpublished ==
  ASSUME RestType, CallInv, ErrorInv
  PROVE  \A p \in Procs : outcome[p] \in Uncommitted => ~PublishedBy(p)
<1> SUFFICES ASSUME NEW p \in Procs, outcome[p] \in Uncommitted, PublishedBy(p)
             PROVE  FALSE
  OBVIOUS
<1> DEFINE n == Len(plan[p].base)
           c == [marked |-> TRUE, tree |-> MergedTree(plan[p])]
<1>1. plan[p] \in Plans /\ base \in Shas /\ Len(base) \in Nat /\ plan[p].base \in Shas /\ n \in Nat
  BY DEF RestType, CallInv, Plans, Shas
<1>2. plan[p].commit # <<>> /\ n > 0 /\ plan[p].commit = MergeCommit(plan[p])
  BY DEF PublishedBy, ErrorInv, ErrorOk
<1>3. Len(base) > n => ~base[n + 1].marked
  BY <1>2 DEF ErrorInv, ErrorOk, Refused
<1>4. c \in Commits /\ Len(plan[p].commit) = n + 1
  BY <1>1, <1>2, MergeCommitType
<1>5. plan[p].commit[n + 1] = c
  BY <1>1, <1>2, <1>4, AppendSha DEF MergeCommit
<1>6. n + 1 <= Len(base) /\ SubSeq(base, 1, n + 1) = plan[p].commit
  BY <1>4 DEF PublishedBy
<1>7. SubSeq(base, 1, n + 1)[n + 1] = base[n + 1]
  BY <1>1, <1>6 DEF Shas
<1>8. base[n + 1] = c
  BY <1>5, <1>6, <1>7, Zenon
<1>9. base[n + 1].marked
  BY <1>8
<1>10. Len(base) > n
  BY <1>1, <1>6
<1>11. QED
  BY <1>3, <1>9, <1>10

\* The outcome of a call that is about to release its lock changes by the release
\* alone, to the release's own error, or is lost with the process.
LEMMA OutcomeAtRelease ==
  ASSUME RestType, CallInv, [Next]_vars, NEW p \in Procs, pc[p] = "release"
  PROVE  outcome'[p] \in {outcome[p], "lockError", "none"}
<1> USE DEF RestType, CallInv
<1>0. ASSUME NEW q \in Procs, NEW o, outcome' = outcome \/ outcome' = [outcome EXCEPT ![q] = o], q # p
      PROVE  outcome'[p] = outcome[p]
  BY <1>0
<1>1. ASSUME NEW q \in Procs, StartExecute(q) \/ Step(q) \/ Crash(q), q # p
      PROVE  outcome'[p] = outcome[p]
  <2> DEFINE Kept == \E o : outcome' = outcome \/ outcome' = [outcome EXCEPT ![q] = o]
  <2>1. StartExecute(q) \/ AcquireReclaim(q) \/ AcquireTake(q) \/ AcquireBusy(q) \/ AcquireFails(q) => Kept
    BY DEF StartExecute, AcquireReclaim, AcquireTake, AcquireBusy, AcquireFails, callVars
  <2>2. ExistingCommit(q) \/ InspectFails(q) \/ InspectBase(q) \/ InspectFeature(q) \/ InspectHead(q) => Kept
    BY DEF ExistingCommit, InspectFails, InspectBase, InspectFeature, InspectHead, Throw
  <2>3. ListTargets(q) \/ InspectTarget(q) \/ Probe(q) \/ CreateWorktree(q) \/ SquashMerge(q) => Kept
    BY DEF ListTargets, InspectTarget, Probe, CreateWorktree, SquashMerge, Throw
  <2>4. CommitMerge(q) \/ Publish(q) \/ Promote(q) \/ Checkout(q) \/ Materialize(q) => Kept
    BY DEF CommitMerge, Publish, Promote, Checkout, Materialize, Throw
  <2>5. ReturnMerged(q) \/ Resume(q) \/ ResumeList(q) \/ ResumeTarget(q) \/ ResumeHead(q) \/ ReturnResumed(q) => Kept
    BY DEF ReturnMerged, Resume, ResumeList, ResumeTarget, ResumeHead, ReturnResumed, Throw
  <2>6. RemoveWorktree(q) \/ Release(q) \/ Return(q) \/ Crash(q) => Kept
    BY DEF RemoveWorktree, Release, Return, Crash
  <2>7. Kept
    BY <1>1, <2>1, <2>2, <2>3, <2>4, <2>5, <2>6 DEF Step
  <2>8. QED
    BY <1>0, <1>1, <2>7
<1>2. ASSUME StartExecute(p) \/ Step(p)
      PROVE  Release(p)
  BY <1>2 DEF Step, StartExecute, AcquireReclaim, AcquireTake, AcquireBusy, AcquireFails, ExistingCommit,
              InspectFails, InspectBase, InspectFeature, InspectHead, ListTargets, InspectTarget, Probe,
              Inspecting, CreateWorktree, SquashMerge, CommitMerge, Publish, Promote, Checkout, Materialize,
              ReturnMerged, Resume, ResumeList, ResumeTarget, ResumeHead, ReturnResumed, RemoveWorktree, Return
<1>3. CASE Release(p) \/ Crash(p)
  BY <1>3 DEF Release, Crash
<1>4. CASE UserNext \/ UNCHANGED vars
  BY <1>4 DEF UserNext, UserEdit, UserCommit, UserSwitch, UserFetch, UserFeatureCommit, UserStep, vars, callVars
<1>5. QED
  BY <1>1, <1>2, <1>3, <1>4 DEF Next

\* A call ends with a refusal, or with another error of the transaction not marked
\* committed, only when base does not have its commit: always in worktree mode, and
\* in branch mode if git answers the status probe, whatever users, other calls and
\* deaths do meanwhile and however the release of the lock fails.
THEOREM ErrorsTellPublicationHolds ==
  ASSUME ProbeAnswers
  PROVE  Spec => ErrorsTellPublication
<1>1. Init => LockInv /\ ErrorInv
  BY DEF Init, LockInv, ErrorInv, ErrorOk, Refused, Preparing, Prepared, Uncommitted
<1>2. RestType /\ CallInv /\ (LockInv /\ ErrorInv) /\ [Next]_vars => (LockInv /\ ErrorInv)'
  BY LockStep, ErrorStep
<1>3. RestType /\ CallInv /\ (LockInv /\ ErrorInv) /\ [Next]_vars
        => [\A p \in Procs :
              pc[p] = "release" /\ outcome'[p] \in {"refused", "error"} => ~PublishedBy(p)]_vars
  <2> SUFFICES ASSUME RestType, CallInv, LockInv, ErrorInv, [Next]_vars,
                      NEW p \in Procs, pc[p] = "release", outcome'[p] \in {"refused", "error"}
               PROVE  ~PublishedBy(p)
    OBVIOUS
  <2>1. outcome'[p] = outcome[p]
    BY OutcomeAtRelease
  <2>2. QED
    BY <2>1, RefusedUnpublished DEF Uncommitted
<1>4. QED
  BY <1>1, <1>2, <1>3, Invariant1, PTL DEF Spec, ErrorsTellPublication
=============================================================================
