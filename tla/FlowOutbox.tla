----------------------------- MODULE FlowOutbox -----------------------------
(***************************************************************************)
(* The outbox of one finalization step: which runs of the step may perform *)
(* its external effect, how an outcome is settled, and how a failed entry  *)
(* is reopened by "flow run recover-finalization".                         *)
(*                                                                         *)
(* The state keeps only whether the entry is outstanding; its attempts and *)
(* outcomes are derived from the Activities. Runs of the step in several   *)
(* processes are not exclusive: each reads the status, begins the entry,   *)
(* checkpoints its execution, performs the effect and settles the outcome, *)
(* and others act between any two of these. A publication compares the     *)
(* revision of the flow with the one it was prepared on (FlowVersion), so  *)
(* a load and the publication it prepares are one step here, except where  *)
(* the code decides on an earlier read.                                    *)
(*                                                                         *)
(* Two kinds of attempt: the entry's attempt is a number in its Activities,*)
(* the Step's Attempt is the flow's current one. Recovery keeps the former *)
(* and starts the next of the latter. When the step is done, the next      *)
(* Attempt is that of the step behind it.                                  *)
(***************************************************************************)
EXTENDS Naturals, Sequences, FiniteSetsExt

CONSTANTS
  Procs,        \* processes that run or recover the step
  None,         \* null
  Keys,         \* recovery keys: the base head that a merge conflict reports
  Messages,     \* messages of failures, such as the files that are in conflict
  MaxActivities \* bound: Activities of the flow

ASSUME OutboxAssumption ==
  /\ None \notin Procs \cup Keys \cup Messages
  /\ MaxActivities \in Nat

VARIABLES
  ledger,     \* the Activities that concern the step
  open,       \* whether CurrentFlowOutbox holds the entry
  step,       \* the latest Attempt of the step
  stepState,  \* whether that Attempt runs, has failed, or the flow has left the step
  lock,       \* owner of the repository's flow-operation lock, or None
  pc,         \* where process p is
  mem         \* what process p has read and decided

vars == <<ledger, open, step, stepState, lock, pc, mem>>

Outcomes == {"done", "failed"}
Openings == {"begin", "reopen"}

\* step: the Attempt that begin and reopen name as their starting binding, or
\* that a checkpoint or an outcome belongs to. key, failure: the recovery key and
\* the message of a failure, or of the failure that a reopening answers.
\* receipt: {} or {the key that a reopening has consumed}.
Activities ==
  [op : Openings \cup Outcomes \cup {"checkpoint"}, attempt : Nat \ {0}, step : Nat \ {0},
   key : Keys \cup {None}, failure : Messages \cup {None},
   receipt : SUBSET (Keys \cup {None})]

NoActivity == [op |-> "checkpoint", attempt |-> 0, step |-> 0, key |-> None, failure |-> None,
               receipt |-> {}]
NoMem == [attempt |-> 0, bind |-> 0, outcome |-> "done", key |-> None, failure |-> None, rev |-> 0]

RunLabels == {"beginCommand", "beginOutbox", "session", "begin", "prepare", "checkpoint",
              "effect", "settle", "claim", "publication", "commit"}
LockedLabels == {"select", "check", "reopen", "recovered"}
Labels == {"idle", "acquire"} \cup RunLabels \cup LockedLabels

OutboxTypeOK ==
  /\ ledger \in Seq(Activities)
  /\ open \in BOOLEAN
  /\ step \in Nat \ {0}
  /\ stepState \in {"running", "failed", "left"}
  /\ pc \in [Procs -> Labels]
  /\ mem \in [Procs -> [attempt : Nat, bind : Nat, outcome : Outcomes,
                        key : Keys \cup {None}, failure : Messages \cup {None}, rev : Nat]]
  /\ \A p \in Procs : lock = p <=> pc[p] \in LockedLabels

\* The step has been claimed: its first Attempt runs.
Init ==
  /\ ledger = <<>>
  /\ open = FALSE
  /\ step = 1
  /\ stepState = "running"
  /\ lock = None
  /\ pc = [p \in Procs |-> "idle"]
  /\ mem = [p \in Procs |-> NoMem]

-----------------------------------------------------------------------------
(* The status of the entry, as CurrentFlowOutboxAttemptHistory derives it. *)

\* The Activities of the entry, by their places in the ledger.
OfOutbox == {i \in DOMAIN ledger : ledger[i].op # "checkpoint"}
Group(n) == {i \in OfOutbox : ledger[i].attempt = n}
Started(n) == {i \in Group(n) : ledger[i].op \in Openings}

\* The groups are in the order of their first Activity; the latest one counts.
FirstOfGroup(i) == \A j \in OfOutbox : j < i => ledger[j].attempt # ledger[i].attempt
LatestAttempt == ledger[Max({i \in OfOutbox : FirstOfGroup(i)})].attempt

\* Outbox Attempt changed its starting binding: every read of the status throws.
Unreadable ==
  \E i, j \in OfOutbox :
    /\ ledger[i].op \in Openings /\ ledger[j].op \in Openings
    /\ ledger[i].attempt = ledger[j].attempt
    /\ ledger[i].step # ledger[j].step

Outcome(a) == IF a.op \in Outcomes THEN a.op ELSE "pending"

outboxStatus ==
  IF OfOutbox = {}
    THEN [status |-> IF open THEN "pending" ELSE "missing",
          attempt |-> 0, bind |-> 0, key |-> None, failure |-> None, receipt |-> {}]
    ELSE LET latest == ledger[Max(Group(LatestAttempt))]
         IN  [status |-> IF open THEN "pending" ELSE Outcome(latest),
              attempt |-> LatestAttempt, bind |-> ledger[Min(Started(LatestAttempt))].step,
              key |-> latest.key, failure |-> latest.failure, receipt |-> latest.receipt]

\* The last Activity of the entry, to whose attempt an outcome is put.
LastOfOutbox == ledger[Max(OfOutbox)]
ClaimedAttempt == LastOfOutbox.attempt

\* state.attempt: the step's Attempt, or the next step's when the flow has left.
CurrentAttempt == IF stepState = "left" THEN step + 1 ELSE step

\* The saved checkpoint of the current Attempt.
Saved == {i \in DOMAIN ledger : ledger[i].op = "checkpoint" /\ ledger[i].step = step}
SavedAttempt == ledger[Max(Saved)].attempt

\* An exact recovery is refused when it has consumed its key.
Consumed(s) == s.receipt # {} /\ (s.key = None \/ s.key \in s.receipt)

-----------------------------------------------------------------------------
Goto(p, label) == pc' = [pc EXCEPT ![p] = label]
Remember(p, m) == mem' = [mem EXCEPT ![p] = m]

\* The process ends, with an error or without one, and gives its lock back.
End(p) ==
  /\ Goto(p, "idle")
  /\ Remember(p, NoMem)
  /\ lock' = IF lock = p THEN None ELSE lock

\* Go on to label if the condition holds, and end with an error otherwise.
Continue(p, condition, label, m) ==
  IF condition
    THEN Goto(p, label) /\ Remember(p, m) /\ UNCHANGED lock
    ELSE End(p)

flow == <<ledger, open, step, stepState>>

Publish(a) == Len(ledger) < MaxActivities /\ ledger' = Append(ledger, a)

\* prepareFinalizationCommand and beginOutboxEffect: a done entry is replayed;
\* a pending one is taken over; the step must be in progress to begin it.
StartRun(p) ==
  /\ pc[p] = "idle"
  /\ ~Unreadable
  /\ stepState # "left"
  /\ Goto(p, IF outboxStatus.status = "pending" THEN "prepare" ELSE "beginCommand")
  /\ UNCHANGED <<flow, lock, mem>>

\* FlowOutboxStore.beginCommand: a failed entry needs recovery.
BeginCommand(p) ==
  /\ pc[p] = "beginCommand"
  /\ Continue(p, ~Unreadable /\ outboxStatus.status # "failed", "beginOutbox", NoMem)
  /\ UNCHANGED flow

\* Mutant: the first attempt is not counted.
NextAttemptUncounted(s) == IF s.status = "failed" THEN s.attempt + 1 ELSE s.attempt
NextAttempt(s) == IF s.status = "failed" THEN s.attempt + 1 ELSE 1

\* beginOutbox reads the status once more and chooses the attempt ...
BeginOutbox(p) ==
  /\ pc[p] = "beginOutbox"
  /\ LET s == outboxStatus
     IN  IF ~Unreadable /\ s.status = "pending"
           THEN Goto(p, "prepare") /\ UNCHANGED <<lock, mem>>
           ELSE Continue(p, ~Unreadable /\ s.status # "done", "session",
                         [NoMem EXCEPT !.attempt = NextAttempt(s)])
  /\ UNCHANGED flow

\* ... prepareExecutionObservationSession binds it to the current Attempt ...
PrepareSession(p) ==
  /\ pc[p] = "session"
  /\ Goto(p, "begin")
  /\ Remember(p, [mem[p] EXCEPT !.bind = CurrentAttempt])
  /\ UNCHANGED <<flow, lock>>

\* ... and begin_outbox is published if that Attempt is still the current one.
\* An entry that is already outstanding stays; the Activity is recorded.
ApplyBegin(p) ==
  /\ pc[p] = "begin"
  /\ IF mem[p].bind = CurrentAttempt
       THEN /\ Publish([NoActivity EXCEPT !.op = "begin", !.attempt = mem[p].attempt,
                                          !.step = mem[p].bind])
            /\ open' = TRUE
            /\ Goto(p, "prepare")
            /\ Remember(p, NoMem)
            /\ UNCHANGED <<step, stepState, lock>>
       ELSE End(p) /\ UNCHANGED flow

\* A saved execution of this Attempt must have claimed the entry's attempt.
ClaimHolds(attempt) == Saved # {} => SavedAttempt = attempt

\* prepareFinalizationExecution: the Attempt must run. An execution that is
\* already saved is continued.
PrepareExecution(p) ==
  /\ pc[p] = "prepare"
  /\ Continue(p, /\ ~Unreadable
                 /\ stepState = "running"
                 /\ ClaimHolds(outboxStatus.attempt),
              IF Saved = {} THEN "checkpoint" ELSE "effect",
              [NoMem EXCEPT !.attempt = outboxStatus.attempt, !.bind = step])
  /\ UNCHANGED flow

\* What the publication of a checkpoint or an outcome demands of the flow: the
\* bound Attempt runs and the entry is outstanding, in the claimed attempt.
Admitted(bind, attempt) ==
  /\ stepState = "running" /\ step = bind
  /\ open /\ ClaimedAttempt = attempt

SaveCheckpoint(attempt) ==
  IF Saved = {}
    THEN Publish([NoActivity EXCEPT !.op = "checkpoint", !.attempt = attempt, !.step = step])
    ELSE UNCHANGED ledger

\* The execution checkpoint is settled before the effect.
Checkpoint(p) ==
  /\ pc[p] = "checkpoint"
  /\ IF Admitted(mem[p].bind, mem[p].attempt) /\ ClaimHolds(mem[p].attempt)
       THEN /\ SaveCheckpoint(mem[p].attempt)
            /\ Goto(p, "effect")
            /\ UNCHANGED <<open, step, stepState, lock, mem>>
       ELSE End(p) /\ UNCHANGED flow

\* executeFinalizationCommand: the checkpoint must be that of the running
\* Attempt; then the effect succeeds, or fails with a message of its own, and with
\* or without a recovery key.
Effect(p) ==
  /\ pc[p] = "effect"
  /\ \E o \in Outcomes, k \in Keys \cup {None}, f \in Messages \cup {None} :
       /\ o = "done" => k = None
       /\ o = "done" <=> f = None
       /\ Continue(p, /\ stepState = "running" /\ step = mem[p].bind
                      /\ Saved # {} /\ SavedAttempt = mem[p].attempt,
                   "settle", [NoMem EXCEPT !.outcome = o, !.key = k, !.failure = f])
  /\ UNCHANGED flow

-----------------------------------------------------------------------------
(* Settlement: replayFinalizationCommand and persistFinalizationCommandError.*)

\* The saved execution of the running Attempt is read: its claim and its Attempt, or
\* nothing. A failure is recorded only with a saved execution; a step that is done is
\* replayed.
ReadSaved(p) ==
  /\ pc[p] = "settle"
  /\ LET saved == stepState = "running" /\ Saved # {}
     IN  Continue(p, IF mem[p].outcome = "failed" THEN saved ELSE stepState # "left", "claim",
                  [mem[p] EXCEPT !.attempt = IF saved THEN SavedAttempt ELSE 0,
                                 !.bind = IF saved THEN step ELSE 0])
  /\ UNCHANGED flow

\* prepareFinalizationExecution reads the status, whose attempt a saved execution must
\* have claimed ...
ReadClaim(p) ==
  /\ pc[p] = "claim"
  /\ Continue(p, ~Unreadable /\ mem[p].attempt \in {0, outboxStatus.attempt},
              "publication", [mem[p] EXCEPT !.attempt = outboxStatus.attempt])
  /\ UNCHANGED flow

\* Mutant: the outcome is not compared with the execution that was claimed.
PrepareSettlementUnclaimed(p) ==
  /\ pc[p] = "publication"
  /\ Continue(p, stepState = "running" /\ mem[p].bind \in {0, step} /\ open, "commit",
              [mem[p] EXCEPT !.bind = step, !.rev = Len(ledger)])
  /\ UNCHANGED flow
\* ... and acquires the publication: the Attempt that is current now is that of the
\* saved execution, and the entry is outstanding in the attempt read before.
PrepareSettlement(p) ==
  /\ pc[p] = "publication"
  /\ Continue(p, mem[p].bind \in {0, step} /\ Admitted(step, mem[p].attempt), "commit",
              [mem[p] EXCEPT !.bind = step, !.rev = Len(ledger)])
  /\ UNCHANGED flow

\* Mutant: the outcome of a reopened entry does not carry its receipt on.
SettlementWithoutReceipt(p) ==
  [NoActivity EXCEPT !.op = mem[p].outcome, !.attempt = ClaimedAttempt, !.step = step,
                     !.key = mem[p].key, !.failure = mem[p].failure]
Settlement(p) ==
  [NoActivity EXCEPT !.op = mem[p].outcome, !.attempt = ClaimedAttempt, !.step = step,
                     !.key = mem[p].key, !.failure = mem[p].failure,
                     !.receipt = LastOfOutbox.receipt]

\* confirm_attempt leaves the step, fail_attempt keeps it; both settle the entry.
Settle(p) ==
  /\ Publish(Settlement(p))
  /\ open' = FALSE
  /\ stepState' = IF mem[p].outcome = "done" THEN "left" ELSE "failed"
  /\ End(p)
  /\ UNCHANGED step

\* Mutant: the settlement is published whatever has happened since.
CommitSettlementBlindly(p) == pc[p] = "commit" /\ Settle(p)
\* settleFinalizationStepResult, on the revision that was prepared and with the claim
\* of the checkpoint.
CommitSettlement(p) ==
  /\ pc[p] = "commit"
  /\ IF /\ Len(ledger) = mem[p].rev /\ stepState = "running" /\ step = mem[p].bind
        /\ ClaimHolds(mem[p].attempt)
       THEN Settle(p)
       ELSE End(p) /\ UNCHANGED flow

-----------------------------------------------------------------------------
(* Exact recovery: recover-finalization.                                   *)

Recoverable == ~Unreadable /\ outboxStatus.status = "failed" /\ ~Consumed(outboxStatus)

\* The Definition selects exact-outbox-recovery.
PlanRecovery(p) ==
  /\ pc[p] = "idle"
  /\ stepState # "left"
  /\ Recoverable
  /\ Goto(p, "acquire")
  /\ UNCHANGED <<flow, lock, mem>>

AcquireOperation(p) ==
  /\ pc[p] = "acquire"
  /\ IF lock = None
       THEN lock' = p /\ Goto(p, "select") /\ UNCHANGED mem
       ELSE End(p)
  /\ UNCHANGED flow

\* The selection is repeated under the lock; its facts are the recovery claim.
SelectRecovery(p) ==
  /\ pc[p] = "select"
  /\ Continue(p, stepState # "left" /\ Recoverable, "check",
              [NoMem EXCEPT !.attempt = outboxStatus.attempt, !.key = outboxStatus.key,
                            !.failure = outboxStatus.failure])
  /\ UNCHANGED flow

\* reopenOutboxExact compares the claim with the status ...
CheckReopen(p) ==
  /\ pc[p] = "check"
  /\ Continue(p, /\ ~Unreadable
                 /\ outboxStatus.status = "failed"
                 /\ outboxStatus.attempt = mem[p].attempt
                 /\ outboxStatus.failure = mem[p].failure
                 /\ outboxStatus.receipt # {} => /\ mem[p].key # None
                                                 /\ mem[p].key \notin outboxStatus.receipt,
              "reopen", [mem[p] EXCEPT !.bind = outboxStatus.bind])
  /\ UNCHANGED flow

Reopening(p) ==
  [NoActivity EXCEPT !.op = "reopen", !.attempt = mem[p].attempt, !.step = mem[p].bind,
                     !.key = mem[p].key, !.failure = mem[p].failure,
                     !.receipt = {mem[p].key}]

\* stableActivityId: the same attempt, failure and key give the same Activity,
\* and an Activity is recorded once.
UnusedActivityId(p) ==
  \A i \in DOMAIN ledger :
    ~(/\ ledger[i].op = "reopen"
      /\ ledger[i].attempt = mem[p].attempt
      /\ ledger[i].failure = mem[p].failure
      /\ ledger[i].key = mem[p].key)

\* recoverFinalizationOutbox: the Attempt failed, in the claimed attempt.
SourceFailed(p) ==
  /\ stepState = "failed"
  /\ \E i \in DOMAIN ledger :
       /\ ledger[i].op = "failed" /\ ledger[i].step = step
       /\ ledger[i].attempt = mem[p].attempt

\* ... and opens the entry again, with the next Attempt of the step.
ApplyReopen(p) ==
  /\ pc[p] = "reopen"
  /\ IF UnusedActivityId(p) /\ SourceFailed(p)
       THEN /\ Publish(Reopening(p))
            /\ open' = TRUE
            /\ step' = step + 1
            /\ stepState' = "running"
            /\ Goto(p, "recovered")
            /\ UNCHANGED <<lock, mem>>
       ELSE End(p) /\ UNCHANGED flow

\* The reopened entry is claimed by the new Attempt, and the lock released.
FinishRecovery(p) ==
  /\ pc[p] = "recovered"
  /\ IF /\ ~Unreadable
        /\ outboxStatus.receipt # {} /\ outboxStatus.attempt = mem[p].attempt
        /\ Admitted(step, mem[p].attempt) /\ ClaimHolds(mem[p].attempt)
       THEN SaveCheckpoint(mem[p].attempt)
       ELSE UNCHANGED ledger
  /\ End(p)
  /\ UNCHANGED <<open, step, stepState>>

\* A process dies; a lock whose owner is dead is free.
Crash(p) ==
  /\ pc[p] # "idle"
  /\ End(p)
  /\ UNCHANGED flow

Run(p) ==
  \/ StartRun(p) \/ BeginCommand(p) \/ BeginOutbox(p) \/ PrepareSession(p) \/ ApplyBegin(p)
  \/ PrepareExecution(p) \/ Checkpoint(p) \/ Effect(p)
  \/ ReadSaved(p) \/ ReadClaim(p) \/ PrepareSettlement(p) \/ CommitSettlement(p)
Recover(p) ==
  \/ PlanRecovery(p) \/ AcquireOperation(p) \/ SelectRecovery(p)
  \/ CheckReopen(p) \/ ApplyReopen(p) \/ FinishRecovery(p)

Next == \E p \in Procs : Run(p) \/ Recover(p) \/ Crash(p)

Spec == Init /\ [][Next]_vars

-----------------------------------------------------------------------------
(* Properties.                                                             *)

IsOutcome(i) == ledger[i].op \in Outcomes

\* However many runs of the step are under way, an Attempt of the step is settled
\* at most once: the effect may be performed twice, its outcome is recorded once.
OneOutcomePerAttempt ==
  \A i, j \in DOMAIN ledger :
    (IsOutcome(i) /\ IsOutcome(j) /\ ledger[i].step = ledger[j].step) => i = j

\* An outcome goes to the attempt of the entry that the checkpoint of its Step
\* Attempt claimed before the effect, although a late begin may have started
\* another one since.
OutcomeMatchesClaim ==
  \A i, j \in DOMAIN ledger :
    (ledger[i].op = "checkpoint" /\ IsOutcome(j) /\ ledger[i].step = ledger[j].step)
      => ledger[i].attempt = ledger[j].attempt

\* i and j are recoveries of one attempt of the entry, i the earlier one.
RecoveredAgain(i, j) ==
  /\ i < j
  /\ ledger[i].op = "reopen" /\ ledger[j].op = "reopen"
  /\ ledger[i].attempt = ledger[j].attempt

\* An attempt of the entry is never recovered twice in a row with one recovery key,
\* never again without a key, and never twice from the same failure, that is, the
\* same key and message: the receipt outlives the outcomes and the late begins that
\* come between. (A key comes back when another one came between and the message has
\* changed.)
RecoveryOnce ==
  \A i, j \in DOMAIN ledger : RecoveredAgain(i, j) =>
    /\ ledger[j].key # None
    /\ ledger[i].key = ledger[j].key =>
         /\ ledger[i].failure # ledger[j].failure
         /\ \E m \in DOMAIN ledger : RecoveredAgain(i, m) /\ RecoveredAgain(m, j)
=============================================================================
