-------------------------- MODULE ProcessLockProofs --------------------------
(***************************************************************************)
(* Proofs about ProcessLock for any number of processes, inodes, tokens    *)
(* and births. The inductive invariant follows the two files a process     *)
(* cares about: the one it published itself, and the one it is about to    *)
(* reclaim. The latter stays put only while nobody else reclaims, so the   *)
(* safety theorems assume a single reclaimer.                              *)
(***************************************************************************)
EXTENDS ProcessLock, TLAPS

\* From a successful link until the path is unlinked or the process fails.
Linked(p) ==
  \/ pc[p] \in {"validate", "tempUnlink", "cleanup", "cleanupUnlink", "held", "releaseUnlink"}
  \/ ctx[p] = "release"

\* The labels that belong to each caller of inspect().
ControlInv ==
  \A p \in Procs :
    /\ pc[p] \in {"idle", "held"} <=> ctx[p] = "none"
    /\ pc[p] = "releaseUnlink" => ctx[p] = "release"
    /\ pc[p] = "removeUnlink" => ctx[p] = "remove"
    /\ pc[p] \in {"publish", "link", "validate", "tempUnlink", "cleanup", "cleanupUnlink"}
         => ctx[p] \in {"loop", "remove"}
    /\ pc[p] \in {"read", "relstat"} => stat[p] # None
    /\ pc[p] = "lstat" => seen[p] = None
    /\ ctx[p] # "final" => attempt[p] < MAX_ACQUIRE_ATTEMPTS

\* Owner records that exist somewhere: in a file or in a process's locals.
Known(r) ==
  \/ \E i \in Inodes : content[i] = r
  \/ \E p \in Procs : seen[p] = r
  \/ \E p \in Procs : existing[p].owner = r

\* Records are never younger than their slot's running birth, and a token
\* identifies its record.
RecordInv ==
  /\ \A r \in Owners : Known(r) => r.token <= serial /\ r.birth <= birth[r.proc]
  /\ \A r, s \in Owners : Known(r) /\ Known(s) /\ r.token = s.token => r = s

\* A visible lock names an owner; a live owner knows about it or was told.
PathInv ==
  lockPath # None =>
    /\ content[lockPath] # None
    /\ Live(content[lockPath]) =>
         Linked(content[lockPath].proc) \/ residue[content[lockPath].proc]

\* The file a process wrote is intact: while it has only its temporary name,
\* and while it is the visible lock.
OwnFile(p) ==
  /\ (pc[p] = "link" \/ Linked(p)) =>
       /\ lockIdentity[p] # None
       /\ processIdentity[p] # None
       /\ content[lockIdentity[p]] = processIdentity[p]
       /\ processIdentity[p].proc = p
       /\ processIdentity[p].birth = birth[p]
  /\ pc[p] = "link" => lockIdentity[p] \in temps
  /\ Linked(p) => lockPath = lockIdentity[p]

\* A reclaimer has seen the record it goes for a second time.
Confirmed(p) ==
  /\ ctx[p] = "remove"
  /\ pc[p] \in {"relstat", "decide", "removeUnlink"}
  /\ seen[p] = existing[p].owner

\* That record is dead, and once confirmed the path names it until the
\* reclaimer itself unlinks it.
ReclaimOk(p) ==
  ctx[p] = "remove" =>
    /\ p \in Reclaimers
    /\ existing[p].owner # None
    /\ ~Live(existing[p].owner)
    /\ Confirmed(p) => lockPath # None /\ content[lockPath] = existing[p].owner
    /\ pc[p] = "removeUnlink" => Confirmed(p)

OwnFileInv == \A p \in Procs : OwnFile(p)
ReclaimInv == \A p \in Procs : ReclaimOk(p)
FileInv == PathInv /\ OwnFileInv /\ ReclaimInv

IInv == TypeOK /\ ControlInv /\ RecordInv /\ FileInv

-----------------------------------------------------------------------------
(* Types and control. The variables of the running call (callVars and pc)  *)
(* change only through Goto, Return, Inspect, NextAttempt and              *)
(* ObservationChanged; each of these is treated once.                      *)

CallType ==
  /\ pc \in [Procs -> Labels]
  /\ ctx \in [Procs -> Callers]
  /\ attempt \in [Procs -> 0 .. MAX_ACQUIRE_ATTEMPTS]
  /\ observations \in [Procs -> 0 .. (MAX_OWNER_OBSERVATION_ATTEMPTS - 1)]
  /\ stat \in [Procs -> Inodes \cup {None}]
  /\ seen \in [Procs -> Owners \cup {None}]
  /\ existing \in [Procs -> [ino : Inodes \cup {None}, owner : Owners \cup {None}]]

DirType ==
  /\ lockPath \in Inodes \cup {None}
  /\ content \in [Inodes -> Owners \cup {None}]
  /\ temps \subseteq Inodes
  /\ birth \in [Procs -> Nat]
  /\ serial \in Nat
  /\ processIdentity \in [Procs -> Owners \cup {None}]
  /\ lockIdentity \in [Procs -> Inodes \cup {None}]
  /\ residue \in [Procs -> BOOLEAN]

CallInv == CallType /\ ControlInv

\* Type correctness, split into the directory and the running calls.
LEMMA TypeSplit == TypeOK <=> DirType /\ CallType
  BY DEF TypeOK, DirType, CallType

\* Nobody is in a call initially.
LEMMA InitType == Init => TypeOK /\ ControlInv
  BY ConstantsAssumption DEF Init, TypeOK, ControlInv, NoExisting, Labels, Callers

\* A step outside every call keeps the control invariant.
LEMMA UnchangedCall ==
  ASSUME CallInv, UNCHANGED <<pc, callVars>>
  PROVE  CallInv'
  BY DEF CallInv, CallType, ControlInv, callVars

\* A call returns and its locals are forgotten.
LEMMA ReturnCall ==
  ASSUME CallInv, NEW p \in Procs, NEW label \in {"idle", "held"}, Return(p, label)
  PROVE  CallInv'
  BY ConstantsAssumption DEF CallInv, CallType, ControlInv, Return, Goto, NoExisting, Labels, Callers

\* A jump inside a call: the caller of inspect() stays the same.
LEMMA GotoCall ==
  ASSUME CallInv, NEW p \in Procs, NEW label \in Labels \ {"idle", "held", "lstat", "read", "relstat"},
         pc[p] \notin {"idle", "held"},
         label = "releaseUnlink" => ctx[p] = "release",
         label = "removeUnlink" => ctx[p] = "remove",
         label \in {"publish", "link", "validate", "tempUnlink", "cleanup", "cleanupUnlink"}
            => ctx[p] \in {"loop", "remove"},
         Goto(p, label), UNCHANGED callVars
  PROVE  CallInv'
  BY DEF CallInv, CallType, ControlInv, Goto, callVars, Labels

\* A call begins to observe the lock file.
LEMMA InspectCall ==
  ASSUME CallInv, NEW p \in Procs, NEW caller \in Callers \ {"none"},
         caller # "final" => attempt'[p] < MAX_ACQUIRE_ATTEMPTS,
         \E a \in 0 .. MAX_ACQUIRE_ATTEMPTS : attempt' = [attempt EXCEPT ![p] = a],
         existing' \in [Procs -> [ino : Inodes \cup {None}, owner : Owners \cup {None}]],
         Inspect(p, caller)
  PROVE  CallInv'
  BY ConstantsAssumption DEF CallInv, CallType, ControlInv, Inspect, Goto, Labels, Callers

\* A call goes round the acquire loop, or on to its last inspection.
LEMMA NextAttemptCall ==
  ASSUME CallInv, NEW p \in Procs, ctx[p] # "final", NextAttempt(p)
  PROVE  CallInv'
  <1> DEFINE caller == IF attempt[p] + 1 < MAX_ACQUIRE_ATTEMPTS THEN "loop" ELSE "final"
  <1>1. attempt[p] + 1 \in 0 .. MAX_ACQUIRE_ATTEMPTS /\ attempt'[p] = attempt[p] + 1
    BY ConstantsAssumption DEF CallInv, CallType, ControlInv, NextAttempt
  <1>2. attempt' = [attempt EXCEPT ![p] = attempt[p] + 1] /\ Inspect(p, caller)
    BY DEF NextAttempt
  <1>3. caller \in Callers \ {"none"} /\ (caller # "final" => attempt'[p] < MAX_ACQUIRE_ATTEMPTS)
    BY <1>1 DEF Callers
  <1>4. existing' \in [Procs -> [ino : Inodes \cup {None}, owner : Owners \cup {None}]]
    BY DEF CallInv, CallType, NextAttempt, NoExisting
  <1> HIDE DEF caller
  <1> QED
    BY <1>1, <1>2, <1>3, <1>4, InspectCall

\* An observation that changed is repeated or given up.
LEMMA ObservationChangedCall ==
  ASSUME CallInv, NEW p \in Procs, pc[p] \in {"read", "relstat"}, ObservationChanged(p)
  PROVE  CallInv'
  <1>1. CASE observations[p] + 1 < MAX_OWNER_OBSERVATION_ATTEMPTS
    <2>1. /\ pc' = [pc EXCEPT ![p] = "lstat"]
          /\ observations' = [observations EXCEPT ![p] = observations[p] + 1]
          /\ stat' = [stat EXCEPT ![p] = None]
          /\ seen' = [seen EXCEPT ![p] = None]
          /\ UNCHANGED <<ctx, attempt, existing>>
      BY <1>1 DEF ObservationChanged, Goto
    <2>2. observations[p] + 1 \in 0 .. (MAX_OWNER_OBSERVATION_ATTEMPTS - 1)
      BY <1>1, ConstantsAssumption DEF CallInv, CallType
    <2>3. CallType'
      BY <2>1, <2>2 DEF CallInv, CallType, Labels
    <2>4. ControlInv'
      BY <2>1 DEF CallInv, CallType, ControlInv, Labels
    <2> QED
      BY <2>3, <2>4 DEF CallInv
  <1>2. CASE ~(observations[p] + 1 < MAX_OWNER_OBSERVATION_ATTEMPTS)
    BY <1>2, ReturnCall DEF ObservationChanged
  <1> QED
    BY <1>1, <1>2

\* Every step keeps the types and the labels.
LEMMA NextType == TypeOK /\ ControlInv /\ [Next]_vars => TypeOK' /\ ControlInv'
  <1> SUFFICES ASSUME DirType, CallInv, [Next]_vars PROVE DirType' /\ CallInv'
    BY DEF TypeOK, DirType, CallType, CallInv
  <1> USE ConstantsAssumption
  <1>1. ASSUME NEW p \in Procs, StartAcquire(p) PROVE DirType' /\ CallInv'
    <2>1. attempt' = [attempt EXCEPT ![p] = attempt[p]] /\ attempt[p] \in 0 .. MAX_ACQUIRE_ATTEMPTS
          /\ attempt'[p] < MAX_ACQUIRE_ATTEMPTS /\ existing' \in [Procs -> [ino : Inodes \cup {None}, owner : Owners \cup {None}]]
      BY <1>1 DEF StartAcquire, CallInv, CallType, ControlInv, Inspect
    <2> QED
      BY <1>1, <2>1, InspectCall DEF StartAcquire, DirType, dirVars, ownVars, Callers
  <1>2. ASSUME NEW p \in Procs, StartRelease(p) PROVE DirType' /\ CallInv'
    <2>1. attempt' = [attempt EXCEPT ![p] = attempt[p]] /\ attempt[p] \in 0 .. MAX_ACQUIRE_ATTEMPTS
          /\ attempt'[p] < MAX_ACQUIRE_ATTEMPTS /\ existing' \in [Procs -> [ino : Inodes \cup {None}, owner : Owners \cup {None}]]
      BY <1>2 DEF StartRelease, CallInv, CallType, ControlInv, Inspect
    <2> QED
      BY <1>2, <2>1, InspectCall DEF StartRelease, DirType, dirVars, ownVars, Callers
  <1>3. ASSUME NEW p \in Procs, Lstat(p) PROVE DirType' /\ CallInv'
    <2>1. CallInv'
      BY <1>3 DEF Lstat, CallInv, CallType, ControlInv, DirType, Goto, Labels
    <2> QED
      BY <1>3, <2>1 DEF Lstat, DirType, dirVars, ownVars
  <1>4. ASSUME NEW p \in Procs, ReadOwner(p) PROVE DirType' /\ CallInv'
    <2>1. DirType'
      BY <1>4 DEF ReadOwner, DirType, dirVars, ownVars
    <2>2. CASE ObservationChanged(p)
      BY <1>4, <2>1, <2>2, ObservationChangedCall DEF ReadOwner
    <2>3. CASE ~ObservationChanged(p)
      <3>1. /\ lockPath = stat[p] /\ stat[p] # None
            /\ seen' = [seen EXCEPT ![p] = content[lockPath]]
            /\ pc' = [pc EXCEPT ![p] = "relstat"]
            /\ UNCHANGED <<ctx, attempt, observations, stat, existing>>
        BY <1>4, <2>3 DEF ReadOwner, sameFile, Goto, CallInv, ControlInv
      <3>2. CallInv'
        BY <1>4, <3>1 DEF ReadOwner, CallInv, CallType, ControlInv, Labels, DirType
      <3> QED
        BY <2>1, <3>2
    <2> QED
      BY <2>2, <2>3
  <1>5. ASSUME NEW p \in Procs, Relstat(p) PROVE DirType' /\ CallInv'
    <2>1. DirType'
      BY <1>5 DEF Relstat, DirType, dirVars, ownVars
    <2>2. CASE ObservationChanged(p)
      BY <1>5, <2>1, <2>2, ObservationChangedCall DEF Relstat
    <2>3. CASE ~ObservationChanged(p)
      BY <1>5, <2>1, <2>3, GotoCall DEF Relstat, Labels
    <2> QED
      BY <2>2, <2>3
  <1>6. ASSUME NEW p \in Procs, DecideInitial(p) PROVE DirType' /\ CallInv'
    <2>1. DirType'
      BY <1>6 DEF DecideInitial, DirType, dirVars, ownVars
    <2>2. CASE Inspect(p, "loop") /\ UNCHANGED <<attempt, existing>>
      <3>1. attempt' = [attempt EXCEPT ![p] = attempt[p]] /\ attempt[p] \in 0 .. MAX_ACQUIRE_ATTEMPTS
            /\ attempt'[p] < MAX_ACQUIRE_ATTEMPTS /\ existing' \in [Procs -> [ino : Inodes \cup {None}, owner : Owners \cup {None}]]
        BY <1>6, <2>2 DEF DecideInitial, CallInv, CallType, ControlInv
      <3> QED
        BY <2>1, <2>2, <3>1, InspectCall DEF Callers
    <2>3. CASE Return(p, "idle")
      BY <2>1, <2>3, ReturnCall
    <2> QED
      BY <1>6, <2>2, <2>3 DEF DecideInitial
  <1>7. ASSUME NEW p \in Procs, DecideLoop(p) PROVE DirType' /\ CallInv'
    <2>1. DirType'
      BY <1>7 DEF DecideLoop, DirType, dirVars, ownVars
    <2>2. CASE Goto(p, "publish") /\ UNCHANGED callVars
      BY <1>7, <2>1, <2>2, GotoCall DEF DecideLoop, Labels
    <2>3. CASE /\ existing' = [existing EXCEPT ![p] = [ino |-> stat[p], owner |-> seen[p]]]
               /\ Inspect(p, "remove") /\ UNCHANGED attempt
      <3>1. attempt' = [attempt EXCEPT ![p] = attempt[p]] /\ attempt[p] \in 0 .. MAX_ACQUIRE_ATTEMPTS
            /\ attempt'[p] < MAX_ACQUIRE_ATTEMPTS
        BY <1>7, <2>3 DEF DecideLoop, CallInv, CallType, ControlInv
      <3>2. existing' \in [Procs -> [ino : Inodes \cup {None}, owner : Owners \cup {None}]]
        BY <2>3 DEF CallInv, CallType
      <3> QED
        BY <2>1, <2>3, <3>1, <3>2, InspectCall DEF Callers
    <2>4. CASE Return(p, "idle")
      BY <2>1, <2>4, ReturnCall
    <2> QED
      BY <1>7, <2>2, <2>3, <2>4 DEF DecideLoop
  <1>8. ASSUME NEW p \in Procs, DecideRemove(p) PROVE DirType' /\ CallInv'
    <2>1. DirType'
      BY <1>8 DEF DecideRemove, DirType, dirVars, ownVars
    <2>2. CASE NextAttempt(p)
      BY <1>8, <2>1, <2>2, NextAttemptCall DEF DecideRemove
    <2>3. CASE Goto(p, "removeUnlink") /\ UNCHANGED callVars
      BY <1>8, <2>1, <2>3, GotoCall DEF DecideRemove, Labels
    <2>4. CASE Return(p, "idle")
      BY <2>1, <2>4, ReturnCall
    <2> QED
      BY <1>8, <2>2, <2>3, <2>4 DEF DecideRemove
  <1>9. ASSUME NEW p \in Procs, DecideFinal(p) PROVE DirType' /\ CallInv'
    BY <1>9, ReturnCall DEF DecideFinal, DirType, dirVars, ownVars
  <1>insp. ASSUME NEW p \in Procs, InspectFails(p) PROVE DirType' /\ CallInv'
    BY <1>insp, ReturnCall DEF InspectFails, DirType, dirVars, ownVars
  <1>10. ASSUME NEW p \in Procs, RemoveStale(p) PROVE DirType' /\ CallInv'
    <2>1. DirType'
      BY <1>10 DEF RemoveStale, DirType, dirVars, ownVars
    <2>2. CASE Goto(p, "publish") /\ UNCHANGED callVars
      BY <1>10, <2>1, <2>2, GotoCall DEF RemoveStale, Labels, CallInv, ControlInv
    <2>3. CASE Return(p, "idle")
      BY <2>1, <2>3, ReturnCall
    <2> QED
      BY <1>10, <2>2, <2>3 DEF RemoveStale
  <1>11. ASSUME NEW p \in Procs, Publish(p) PROVE DirType' /\ CallInv'
    <2>1. CallInv'
      BY <1>11, GotoCall DEF Publish, Labels, CallInv, ControlInv
    <2>2. PICK i \in FreeInodes :
            LET owner == [proc |-> p, birth |-> birth[p], token |-> serial + 1] IN
            /\ content' = [content EXCEPT ![i] = owner]
            /\ temps' = temps \cup {i}
            /\ processIdentity' = [processIdentity EXCEPT ![p] = owner]
            /\ lockIdentity' = [lockIdentity EXCEPT ![p] = i]
      BY <1>11 DEF Publish
    <2>3. [proc |-> p, birth |-> birth[p], token |-> serial + 1] \in Owners
      BY DEF DirType, Owners
    <2>4. DirType'
      BY <1>11, <2>2, <2>3 DEF Publish, DirType, FreeInodes
    <2> QED
      BY <2>1, <2>4
  <1>12. ASSUME NEW p \in Procs, PublishFails(p) PROVE DirType' /\ CallInv'
    <2>1. DirType'
      BY <1>12 DEF PublishFails, DirType, ForgetIdentity, FreeInodes
    <2> QED
      BY <1>12, <2>1, ReturnCall DEF PublishFails
  <1>13. ASSUME NEW p \in Procs, Link(p) PROVE DirType' /\ CallInv'
    <2>1. DirType'
      BY <1>13 DEF Link, DirType, ownVars
    <2> QED
      BY <1>13, <2>1, GotoCall DEF Link, Labels, CallInv, ControlInv
  <1>14. ASSUME NEW p \in Procs, LinkExists(p) PROVE DirType' /\ CallInv'
    <2>1. DirType'
      BY <1>14 DEF LinkExists, DirType, ForgetIdentity
    <2> QED
      BY <1>14, <2>1, NextAttemptCall DEF LinkExists, CallInv, ControlInv
  <1>15. ASSUME NEW p \in Procs, LinkFails(p) PROVE DirType' /\ CallInv'
    <2>1. DirType'
      BY <1>15 DEF LinkFails, DirType, ForgetIdentity
    <2> QED
      BY <1>15, <2>1, ReturnCall DEF LinkFails
  <1>16. ASSUME NEW p \in Procs, Validate(p) PROVE DirType' /\ CallInv'
    <2>1. DirType'
      BY <1>16 DEF Validate, DirType, ownVars
    <2> QED
      BY <1>16, <2>1, GotoCall DEF Validate, Labels, CallInv, ControlInv
  <1>17. ASSUME NEW p \in Procs, FinishPublish(p) PROVE DirType' /\ CallInv'
    <2>1. DirType'
      BY <1>17 DEF FinishPublish, DirType, ownVars
    <2> QED
      BY <1>17, <2>1, ReturnCall DEF FinishPublish
  <1>18. ASSUME NEW p \in Procs, FinishPublishFails(p) PROVE DirType' /\ CallInv'
    <2>1. DirType'
      BY <1>18 DEF FinishPublishFails, DirType, ownVars
    <2> QED
      BY <1>18, <2>1, GotoCall DEF FinishPublishFails, Labels, CallInv, ControlInv
  <1>19. ASSUME NEW p \in Procs, Cleanup(p) PROVE DirType' /\ CallInv'
    <2>1. DirType'
      BY <1>19 DEF Cleanup, DirType, ownVars, dirVars, ForgetIdentity
    <2>2. CASE Goto(p, "cleanupUnlink") /\ UNCHANGED callVars
      BY <1>19, <2>1, <2>2, GotoCall DEF Cleanup, Labels, CallInv, ControlInv
    <2>3. CASE Return(p, "idle")
      BY <2>1, <2>3, ReturnCall
    <2> QED
      BY <1>19, <2>2, <2>3 DEF Cleanup
  <1>20. ASSUME NEW p \in Procs, CleanupUnlink(p) PROVE DirType' /\ CallInv'
    <2>1. DirType'
      BY <1>20 DEF CleanupUnlink, DirType, ForgetIdentity
    <2> QED
      BY <1>20, <2>1, ReturnCall DEF CleanupUnlink
  <1>21. ASSUME NEW p \in Procs, DecideRelease(p) PROVE DirType' /\ CallInv'
    <2>1. DirType'
      BY <1>21 DEF DecideRelease, DirType, dirVars, ownVars
    <2>2. CASE Goto(p, "releaseUnlink") /\ UNCHANGED callVars
      BY <1>21, <2>1, <2>2, GotoCall DEF DecideRelease, Labels
    <2>3. CASE Return(p, "held")
      BY <2>1, <2>3, ReturnCall
    <2> QED
      BY <1>21, <2>2, <2>3 DEF DecideRelease
  <1>22. ASSUME NEW p \in Procs, ReleaseUnlink(p) PROVE DirType' /\ CallInv'
    <2>1. DirType'
      BY <1>22 DEF ReleaseUnlink, DirType, ForgetIdentity, ownVars
    <2> QED
      BY <1>22, <2>1, ReturnCall DEF ReleaseUnlink
  <1>23. ASSUME NEW p \in Procs, Crash(p) PROVE DirType' /\ CallInv'
    <2>1. DirType'
      BY <1>23 DEF Crash, DirType, ForgetIdentity, dirVars
    <2> QED
      BY <1>23, <2>1, ReturnCall DEF Crash
  <1>24. CASE UNCHANGED vars
    BY <1>24, UnchangedCall DEF vars, dirVars, ownVars, callVars, DirType
  <1> QED
    BY <1>1, <1>2, <1>3, <1>4, <1>5, <1>6, <1>7, <1>8, <1>9, <1>insp, <1>10, <1>11, <1>12,
       <1>13, <1>14, <1>15, <1>16, <1>17, <1>18, <1>19, <1>20, <1>21, <1>22, <1>23, <1>24 DEF Next, Step

\* The type invariant: every field of the lock objects, the lock directory and
\* the attempt counters of acquire and inspect stay within their ranges.
THEOREM TypeCorrect == Spec => []TypeOK
  <1>1. TypeOK /\ ControlInv /\ [Next]_vars => (TypeOK /\ ControlInv)'
    BY NextType
  <1> QED
    BY InitType, <1>1, PTL DEF Spec

-----------------------------------------------------------------------------
(* Owner records and their tokens.                                         *)

\* A step that forgets locals and reads no new record.
FewerLocals ==
  \A q \in Procs : /\ seen'[q] \in {seen[q], None}
                   /\ existing'[q].owner \in {existing[q].owner, None}

\* Returning only forgets records.
LEMMA ReturnLocals ==
  ASSUME TypeOK, NEW p \in Procs, NEW label, Return(p, label) PROVE FewerLocals
  BY DEF TypeOK, Return, FewerLocals, NoExisting

\* The next attempt only forgets records.
LEMMA NextAttemptLocals ==
  ASSUME TypeOK, NEW p \in Procs, NextAttempt(p) PROVE FewerLocals
  BY DEF TypeOK, NextAttempt, Inspect, FewerLocals, NoExisting

\* Beginning to observe learns no record.
LEMMA InspectLocals ==
  ASSUME TypeOK, NEW p \in Procs, NEW caller, Inspect(p, caller), UNCHANGED existing PROVE FewerLocals
  BY DEF TypeOK, Inspect, FewerLocals

\* Repeating an observation only forgets records.
LEMMA ObservationChangedLocals ==
  ASSUME TypeOK, NEW p \in Procs, ObservationChanged(p) PROVE FewerLocals
  <1>1. CASE observations[p] + 1 < MAX_OWNER_OBSERVATION_ATTEMPTS
    BY <1>1 DEF TypeOK, ObservationChanged, FewerLocals
  <1>2. CASE ~(observations[p] + 1 < MAX_OWNER_OBSERVATION_ATTEMPTS)
    BY <1>2, ReturnLocals DEF ObservationChanged
  <1> QED
    BY <1>1, <1>2

\* A step that only forgets records makes none known.
LEMMA NothingNew ==
  ASSUME FewerLocals, UNCHANGED content, NEW r \in Owners, Known(r)' PROVE Known(r)
  <1>1. r # None
    BY ConstantsAssumption
  <1> QED
    BY <1>1 DEF FewerLocals, Known

\* Without new records, and with births and serial only growing.
LEMMA RecordKept ==
  ASSUME TypeOK, TypeOK', RecordInv,
         \A r \in Owners : Known(r)' => Known(r),
         serial' >= serial,
         \A q \in Procs : birth'[q] >= birth[q]
  PROVE  RecordInv'
  <1>1. \A r \in Owners : r.proc \in Procs /\ r.birth \in Nat /\ r.token \in Nat
    BY DEF Owners
  <1>2. ASSUME NEW r \in Owners, Known(r)' PROVE r.token <= serial' /\ r.birth <= birth'[r.proc]
    <2>1. r.token <= serial /\ r.birth <= birth[r.proc]
      BY <1>2 DEF RecordInv
    <2> QED
      BY <1>1, <2>1 DEF TypeOK
  <1> QED
    BY <1>2 DEF RecordInv

\* Every step keeps what is claimed of the records in files and locals.
LEMMA RecordStep == TypeOK /\ TypeOK' /\ ControlInv /\ RecordInv /\ [Next]_vars => RecordInv'
  <1> SUFFICES ASSUME TypeOK, TypeOK', ControlInv, RecordInv, [Next]_vars PROVE RecordInv'
    OBVIOUS
  <1>a. ASSUME \A r \in Owners : Known(r)' => Known(r), UNCHANGED <<birth, serial>> PROVE RecordInv'
    BY <1>a, RecordKept DEF TypeOK
  <1>b. ASSUME FewerLocals, UNCHANGED <<content, birth, serial>> PROVE RecordInv'
    BY <1>a, <1>b, NothingNew
  <1>1. ASSUME NEW p \in Procs, StartAcquire(p) PROVE RecordInv'
    BY <1>1, <1>b, InspectLocals DEF StartAcquire, dirVars
  <1>2. ASSUME NEW p \in Procs, StartRelease(p) PROVE RecordInv'
    BY <1>2, <1>b, InspectLocals DEF StartRelease, dirVars
  <1>3. ASSUME NEW p \in Procs, Lstat(p) PROVE RecordInv'
    BY <1>3, <1>b DEF Lstat, dirVars, FewerLocals
  <1>4. ASSUME NEW p \in Procs, ReadOwner(p) PROVE RecordInv'
    <2>1. CASE ObservationChanged(p)
      BY <1>4, <2>1, <1>b, ObservationChangedLocals DEF ReadOwner, dirVars
    <2>2. CASE ~ObservationChanged(p)
      <3>1. lockPath \in Inodes /\ seen' = [seen EXCEPT ![p] = content[lockPath]] /\ UNCHANGED <<content, existing>>
        BY <1>4, <2>2 DEF ReadOwner, sameFile, ControlInv, TypeOK, dirVars
      <3>2. \A r \in Owners : Known(r)' => Known(r)
        BY <3>1 DEF Known, TypeOK
      <3> QED
        BY <1>4, <3>2, <1>a DEF ReadOwner
    <2> QED
      BY <2>1, <2>2
  <1>5. ASSUME NEW p \in Procs, Relstat(p) PROVE RecordInv'
    <2>1. FewerLocals
      BY <1>5, ObservationChangedLocals DEF Relstat, callVars, FewerLocals
    <2> QED
      BY <1>5, <2>1, <1>b DEF Relstat, dirVars
  <1>6. ASSUME NEW p \in Procs, DecideInitial(p) PROVE RecordInv'
    <2>1. FewerLocals
      BY <1>6, InspectLocals, ReturnLocals DEF DecideInitial
    <2> QED
      BY <1>6, <2>1, <1>b DEF DecideInitial, dirVars
  <1>7. ASSUME NEW p \in Procs, DecideLoop(p) PROVE RecordInv'
    <2>1. CASE FewerLocals
      BY <1>7, <2>1, <1>b DEF DecideLoop, dirVars
    <2>2. CASE ~FewerLocals
      <3>1. /\ existing' = [existing EXCEPT ![p] = [ino |-> stat[p], owner |-> seen[p]]]
            /\ seen' = [seen EXCEPT ![p] = None]
            /\ content' = content
        BY <1>7, <2>2, ReturnLocals DEF DecideLoop, dirVars, callVars, FewerLocals, Inspect
      <3>2. ASSUME NEW r \in Owners, Known(r)' PROVE Known(r)
        <4>1. r # None
          BY ConstantsAssumption
        <4>2. \A q \in Procs : seen'[q] \in {seen[q], None} /\ existing'[q].owner \in {existing[q].owner, seen[q]}
          BY <3>1 DEF TypeOK
        <4> QED
          BY <3>1, <3>2, <4>1, <4>2 DEF Known
      <3> QED
        BY <1>7, <3>2, <1>a DEF DecideLoop
    <2> QED
      BY <2>1, <2>2
  <1>8. ASSUME NEW p \in Procs, DecideRemove(p) PROVE RecordInv'
    <2>1. FewerLocals
      BY <1>8, NextAttemptLocals, ReturnLocals DEF DecideRemove, callVars, FewerLocals
    <2> QED
      BY <1>8, <2>1, <1>b DEF DecideRemove, dirVars
  <1>9. ASSUME NEW p \in Procs, DecideFinal(p) PROVE RecordInv'
    <2>1. FewerLocals
      BY <1>9, ReturnLocals DEF DecideFinal, callVars, FewerLocals
    <2> QED
      BY <1>9, <2>1, <1>b DEF DecideFinal, dirVars
  <1>insp. ASSUME NEW p \in Procs, InspectFails(p) PROVE RecordInv'
    <2>1. FewerLocals
      BY <1>insp, ReturnLocals DEF InspectFails, callVars, FewerLocals
    <2> QED
      BY <1>insp, <2>1, <1>b DEF InspectFails, dirVars
  <1>10. ASSUME NEW p \in Procs, RemoveStale(p) PROVE RecordInv'
    <2>1. FewerLocals
      BY <1>10, ReturnLocals DEF RemoveStale, callVars, FewerLocals
    <2> QED
      BY <1>10, <2>1, <1>b DEF RemoveStale, dirVars
  <1>11. ASSUME NEW p \in Procs, Publish(p) PROVE RecordInv'
    <2> DEFINE owner == [proc |-> p, birth |-> birth[p], token |-> serial + 1]
    <2>1. PICK i \in FreeInodes : content' = [content EXCEPT ![i] = owner]
      BY <1>11 DEF Publish
    <2>2. owner \in Owners /\ owner.proc = p /\ owner.birth = birth[p] /\ owner.token = serial + 1
      BY DEF Owners, TypeOK
    <2>3. serial' = serial + 1 /\ UNCHANGED <<birth, seen, existing>>
      BY <1>11 DEF Publish, callVars
    <2> HIDE DEF owner
    <2>4. \A r \in Owners : Known(r)' => Known(r) \/ r = owner
      BY <2>1, <2>3 DEF Known, TypeOK
    <2>5. \A r \in Owners : r.proc \in Procs /\ r.birth \in Nat /\ r.token \in Nat
      BY DEF Owners
    <2>6. \A r \in Owners : Known(r)' => r.token <= serial' /\ r.birth <= birth'[r.proc]
      BY <2>2, <2>3, <2>4, <2>5 DEF RecordInv, TypeOK
    <2>7. ASSUME NEW r \in Owners, NEW s \in Owners, Known(r)', Known(s)', r.token = s.token PROVE r = s
      <3>1. Known(r) => r.token <= serial
        BY DEF RecordInv
      <3>2. Known(s) => s.token <= serial
        BY DEF RecordInv
      <3>3. Known(r) /\ Known(s) => r = s
        BY <2>7 DEF RecordInv
      <3> QED
        BY <2>2, <2>4, <2>5, <2>7, <3>1, <3>2, <3>3 DEF TypeOK
    <2> QED
      BY <2>6, <2>7 DEF RecordInv
  <1>12. ASSUME NEW p \in Procs, PublishFails(p) PROVE RecordInv'
    <2>1. FewerLocals
      BY <1>12, ReturnLocals DEF PublishFails, callVars, FewerLocals
    <2> QED
      BY <1>12, <2>1, <1>b DEF PublishFails, dirVars
  <1>13. ASSUME NEW p \in Procs, Link(p) PROVE RecordInv'
    <2>1. FewerLocals
      BY <1>13 DEF Link, callVars, FewerLocals
    <2> QED
      BY <1>13, <2>1, <1>b DEF Link, dirVars
  <1>14. ASSUME NEW p \in Procs, LinkExists(p) PROVE RecordInv'
    <2>1. FewerLocals
      BY <1>14, NextAttemptLocals DEF LinkExists, callVars, FewerLocals
    <2> QED
      BY <1>14, <2>1, <1>b DEF LinkExists, dirVars
  <1>15. ASSUME NEW p \in Procs, LinkFails(p) PROVE RecordInv'
    <2>1. FewerLocals
      BY <1>15, ReturnLocals DEF LinkFails, callVars, FewerLocals
    <2> QED
      BY <1>15, <2>1, <1>b DEF LinkFails, dirVars
  <1>16. ASSUME NEW p \in Procs, Validate(p) PROVE RecordInv'
    <2>1. FewerLocals
      BY <1>16 DEF Validate, callVars, FewerLocals
    <2> QED
      BY <1>16, <2>1, <1>b DEF Validate, dirVars
  <1>17. ASSUME NEW p \in Procs, FinishPublish(p) PROVE RecordInv'
    <2>1. FewerLocals
      BY <1>17, ReturnLocals DEF FinishPublish, callVars, FewerLocals
    <2> QED
      BY <1>17, <2>1, <1>b DEF FinishPublish, dirVars
  <1>18. ASSUME NEW p \in Procs, FinishPublishFails(p) PROVE RecordInv'
    <2>1. FewerLocals
      BY <1>18 DEF FinishPublishFails, callVars, FewerLocals
    <2> QED
      BY <1>18, <2>1, <1>b DEF FinishPublishFails, dirVars
  <1>19. ASSUME NEW p \in Procs, Cleanup(p) PROVE RecordInv'
    <2>1. FewerLocals
      BY <1>19, ReturnLocals DEF Cleanup, callVars, FewerLocals
    <2> QED
      BY <1>19, <2>1, <1>b DEF Cleanup, dirVars
  <1>20. ASSUME NEW p \in Procs, CleanupUnlink(p) PROVE RecordInv'
    <2>1. FewerLocals
      BY <1>20, ReturnLocals DEF CleanupUnlink, callVars, FewerLocals
    <2> QED
      BY <1>20, <2>1, <1>b DEF CleanupUnlink, dirVars
  <1>21. ASSUME NEW p \in Procs, DecideRelease(p) PROVE RecordInv'
    <2>1. FewerLocals
      BY <1>21, ReturnLocals DEF DecideRelease, callVars, FewerLocals
    <2> QED
      BY <1>21, <2>1, <1>b DEF DecideRelease, dirVars
  <1>22. ASSUME NEW p \in Procs, ReleaseUnlink(p) PROVE RecordInv'
    <2>1. FewerLocals
      BY <1>22, ReturnLocals DEF ReleaseUnlink, callVars, FewerLocals
    <2> QED
      BY <1>22, <2>1, <1>b DEF ReleaseUnlink, dirVars
  <1>23. ASSUME NEW p \in Procs, Crash(p) PROVE RecordInv'
    <2>1. FewerLocals
      BY <1>23, ReturnLocals DEF Crash
    <2>2. \A r \in Owners : Known(r)' => Known(r)
      BY <1>23, <2>1, NothingNew DEF Crash, dirVars
    <2>3. serial' >= serial /\ \A q \in Procs : birth'[q] >= birth[q]
      BY <1>23 DEF Crash, TypeOK
    <2> QED
      BY <2>2, <2>3, RecordKept
  <1>24. CASE UNCHANGED vars
    BY <1>24, <1>b DEF vars, dirVars, callVars, FewerLocals
  <1> QED
    BY <1>1, <1>2, <1>3, <1>4, <1>5, <1>6, <1>7, <1>8, <1>9, <1>insp, <1>10, <1>11, <1>12,
       <1>13, <1>14, <1>15, <1>16, <1>17, <1>18, <1>19, <1>20, <1>21, <1>22, <1>23, <1>24 DEF Next, Step

-----------------------------------------------------------------------------
(* The files.                                                              *)

\* A step of p leaves the locals of the other processes alone.
Frame(p) ==
  \A q \in Procs \ {p} :
    /\ pc'[q] = pc[q] /\ ctx'[q] = ctx[q]
    /\ seen'[q] = seen[q] /\ existing'[q] = existing[q]
    /\ processIdentity'[q] = processIdentity[q] /\ lockIdentity'[q] = lockIdentity[q]
    /\ residue'[q] = residue[q]

\* At most one process has its record at the lock path.
LEMMA LinkedExclusive ==
  ASSUME OwnFileInv, NEW p \in Procs, NEW q \in Procs, Linked(p), Linked(q) PROVE p = q
  BY DEF OwnFileInv, OwnFile

\* A record of a live process at the lock path is confirmed dead by nobody.
LEMMA LinkedNotConfirmed ==
  ASSUME OwnFileInv, ReclaimInv, NEW p \in Procs, NEW q \in Procs, Linked(p) PROVE ~Confirmed(q)
  <1>1. content[lockPath] = processIdentity[p] /\ Live(processIdentity[p])
    BY DEF OwnFileInv, OwnFile, Live
  <1>2. ASSUME Confirmed(q) PROVE FALSE
    BY <1>1, <1>2 DEF ReclaimInv, ReclaimOk, Confirmed
  <1> QED
    BY <1>2

\* The path and the contents stay, and p drops at most its own temporary name.
LEMMA PathKept ==
  ASSUME TypeOK, TypeOK', FileInv, NEW p \in Procs, Frame(p),
         UNCHANGED <<lockPath, content, birth>>,
         \/ temps \subseteq temps'
         \/ /\ pc[p] = "link" \/ Linked(p)
            /\ temps \ {lockIdentity[p]} \subseteq temps',
         Linked(p) => Linked(p)' \/ residue'[p],
         residue[p] => residue'[p] \/ lockPath = None,
         OwnFile(p)', ReclaimOk(p)'
  PROVE  FileInv'
  <1>1. ASSUME NEW q \in Procs \ {p} PROVE OwnFile(q)' /\ ReclaimOk(q)' /\ (Linked(q) <=> Linked(q)')
    <2>1. UNCHANGED <<pc[q], ctx[q], seen[q], existing[q], processIdentity[q], lockIdentity[q]>>
      BY DEF Frame
    <2>2. (Linked(q) <=> Linked(q)') /\ (Confirmed(q) <=> Confirmed(q)')
      BY <2>1 DEF Linked, Confirmed
    <2>3. pc[q] = "link" => lockIdentity[q] \in temps'
      <3>1. CASE temps \subseteq temps'
        BY <3>1 DEF FileInv, OwnFileInv, OwnFile
      <3>2. CASE (pc[p] = "link" \/ Linked(p)) /\ temps \ {lockIdentity[p]} \subseteq temps'
        <4>1. pc[q] = "link" => lockIdentity[q] # lockIdentity[p]
          BY <3>2 DEF FileInv, OwnFileInv, OwnFile
        <4> QED
          BY <3>2, <4>1 DEF FileInv, OwnFileInv, OwnFile
      <3> QED
        BY <3>1, <3>2
    <2>4. OwnFile(q)'
      BY <2>1, <2>2, <2>3 DEF FileInv, OwnFileInv, OwnFile
    <2>5. ReclaimOk(q)'
      BY <2>1, <2>2 DEF FileInv, ReclaimInv, ReclaimOk, Live
    <2> QED
      BY <2>2, <2>4, <2>5
  <1>2. PathInv'
    <2> SUFFICES ASSUME lockPath # None
                 PROVE  /\ content[lockPath] # None
                        /\ Live(content[lockPath]) =>
                             Linked(content[lockPath].proc)' \/ residue'[content[lockPath].proc]
      BY DEF PathInv, Live
    <2>1. content[lockPath] # None /\ content[lockPath].proc \in Procs
      BY DEF FileInv, PathInv, TypeOK, Owners
    <2> QED
      BY <1>1, <2>1 DEF FileInv, PathInv, Frame
  <1> QED
    BY <1>1, <1>2 DEF FileInv, OwnFileInv, ReclaimInv

\* p unlinks the path, and no other process relies on what it named.
LEMMA PathFreed ==
  ASSUME TypeOK, TypeOK', FileInv, NEW p \in Procs, Frame(p),
         lockPath' = None, UNCHANGED <<content, temps, birth>>,
         \A q \in Procs \ {p} : ~Linked(q) /\ ~Confirmed(q),
         ~Linked(p)', pc'[p] # "link", ~Confirmed(p)', ReclaimOk(p)'
  PROVE  FileInv'
  <1>1. ASSUME NEW q \in Procs \ {p} PROVE OwnFile(q)' /\ ReclaimOk(q)'
    <2>1. UNCHANGED <<pc[q], ctx[q], seen[q], existing[q], processIdentity[q], lockIdentity[q]>>
      BY DEF Frame
    <2>2. ~Linked(q)' /\ ~Confirmed(q)'
      BY <2>1 DEF Linked, Confirmed
    <2>3. OwnFile(q)'
      BY <2>1, <2>2 DEF FileInv, OwnFileInv, OwnFile
    <2>4. ReclaimOk(q)'
      BY <2>1, <2>2 DEF FileInv, ReclaimInv, ReclaimOk, Live, Confirmed
    <2> QED
      BY <2>3, <2>4
  <1>2. OwnFile(p)'
    BY DEF OwnFile
  <1> QED
    BY <1>1, <1>2 DEF FileInv, OwnFileInv, ReclaimInv, PathInv

\* At most one slot passes reclaimStale = true.
SingleReclaimer == \A p, q \in Reclaimers : p = q

\* With a single reclaimer every step keeps what is claimed of the lock path.
LEMMA FileStep ==
  ASSUME SingleReclaimer, TypeOK, TypeOK', ControlInv, RecordInv, FileInv, [Next]_vars
  PROVE  FileInv'
  <1>1. ASSUME NEW p \in Procs, StartAcquire(p) PROVE FileInv'
    <2>1. Frame(p)
      BY <1>1 DEF StartAcquire, Frame, TypeOK, Goto, Return, Inspect, NextAttempt, ObservationChanged, ForgetIdentity, callVars, ownVars, dirVars
    <2>2. OwnFile(p)'
      BY <1>1 DEF StartAcquire, TypeOK, ControlInv, FileInv, OwnFileInv, OwnFile, Linked, NoExisting, dirVars, callVars, ownVars, Goto, Return, Inspect, NextAttempt, ObservationChanged, ForgetIdentity
    <2>3. ReclaimOk(p)'
      BY <1>1, ConstantsAssumption DEF StartAcquire, TypeOK, ControlInv, FileInv, ReclaimInv, ReclaimOk, Confirmed, Live, NoExisting, dirVars, callVars, ownVars, Goto, Return, Inspect, NextAttempt, ObservationChanged, ForgetIdentity
    <2>4. (Linked(p) => Linked(p)' \/ residue'[p]) /\ (residue[p] => residue'[p] \/ lockPath = None)
      BY <1>1 DEF StartAcquire, TypeOK, ControlInv, FileInv, OwnFileInv, OwnFile, Linked, dirVars, callVars, ownVars, Goto, Return, Inspect, NextAttempt, ObservationChanged, ForgetIdentity
    <2>5. \/ temps \subseteq temps'
          \/ /\ pc[p] = "link" \/ Linked(p)
             /\ temps \ {lockIdentity[p]} \subseteq temps'
      BY <1>1 DEF StartAcquire, Linked, dirVars
    <2> QED
      BY <1>1, <2>1, <2>2, <2>3, <2>4, <2>5, PathKept DEF StartAcquire, dirVars
  <1>2. ASSUME NEW p \in Procs, StartRelease(p) PROVE FileInv'
    <2>1. Frame(p)
      BY <1>2 DEF StartRelease, Frame, TypeOK, Goto, Return, Inspect, NextAttempt, ObservationChanged, ForgetIdentity, callVars, ownVars, dirVars
    <2>2. OwnFile(p)'
      BY <1>2 DEF StartRelease, TypeOK, ControlInv, FileInv, OwnFileInv, OwnFile, Linked, NoExisting, dirVars, callVars, ownVars, Goto, Return, Inspect, NextAttempt, ObservationChanged, ForgetIdentity
    <2>3. ReclaimOk(p)'
      BY <1>2, ConstantsAssumption DEF StartRelease, TypeOK, ControlInv, FileInv, ReclaimInv, ReclaimOk, Confirmed, Live, NoExisting, dirVars, callVars, ownVars, Goto, Return, Inspect, NextAttempt, ObservationChanged, ForgetIdentity
    <2>4. (Linked(p) => Linked(p)' \/ residue'[p]) /\ (residue[p] => residue'[p] \/ lockPath = None)
      BY <1>2 DEF StartRelease, TypeOK, ControlInv, FileInv, OwnFileInv, OwnFile, Linked, dirVars, callVars, ownVars, Goto, Return, Inspect, NextAttempt, ObservationChanged, ForgetIdentity
    <2>5. \/ temps \subseteq temps'
          \/ /\ pc[p] = "link" \/ Linked(p)
             /\ temps \ {lockIdentity[p]} \subseteq temps'
      BY <1>2 DEF StartRelease, Linked, dirVars
    <2> QED
      BY <1>2, <2>1, <2>2, <2>3, <2>4, <2>5, PathKept DEF StartRelease, dirVars
  <1>3. ASSUME NEW p \in Procs, Lstat(p) PROVE FileInv'
    <2>1. Frame(p)
      BY <1>3 DEF Lstat, Frame, TypeOK, Goto, Return, Inspect, NextAttempt, ObservationChanged, ForgetIdentity, callVars, ownVars, dirVars
    <2>2. OwnFile(p)'
      BY <1>3 DEF Lstat, TypeOK, ControlInv, FileInv, OwnFileInv, OwnFile, Linked, NoExisting, dirVars, callVars, ownVars, Goto, Return, Inspect, NextAttempt, ObservationChanged, ForgetIdentity
    <2>3. ReclaimOk(p)'
      BY <1>3, ConstantsAssumption DEF Lstat, TypeOK, ControlInv, FileInv, ReclaimInv, ReclaimOk, Confirmed, Live, NoExisting, dirVars, callVars, ownVars, Goto, Return, Inspect, NextAttempt, ObservationChanged, ForgetIdentity
    <2>4. (Linked(p) => Linked(p)' \/ residue'[p]) /\ (residue[p] => residue'[p] \/ lockPath = None)
      BY <1>3 DEF Lstat, TypeOK, ControlInv, FileInv, OwnFileInv, OwnFile, Linked, dirVars, callVars, ownVars, Goto, Return, Inspect, NextAttempt, ObservationChanged, ForgetIdentity
    <2>5. \/ temps \subseteq temps'
          \/ /\ pc[p] = "link" \/ Linked(p)
             /\ temps \ {lockIdentity[p]} \subseteq temps'
      BY <1>3 DEF Lstat, Linked, dirVars
    <2> QED
      BY <1>3, <2>1, <2>2, <2>3, <2>4, <2>5, PathKept DEF Lstat, dirVars
  <1>4. ASSUME NEW p \in Procs, ReadOwner(p) PROVE FileInv'
    <2>1. Frame(p)
      BY <1>4 DEF ReadOwner, Frame, TypeOK, Goto, Return, Inspect, NextAttempt, ObservationChanged, ForgetIdentity, callVars, ownVars, dirVars
    <2>2. OwnFile(p)'
      BY <1>4 DEF ReadOwner, TypeOK, ControlInv, FileInv, OwnFileInv, OwnFile, Linked, NoExisting, dirVars, callVars, ownVars, Goto, Return, Inspect, NextAttempt, ObservationChanged, ForgetIdentity
    <2>3. ReclaimOk(p)'
      <3>1. CASE ObservationChanged(p)
        BY <1>4, <3>1, ConstantsAssumption DEF ReadOwner, TypeOK, FileInv, ReclaimInv, ReclaimOk, Confirmed, Live, NoExisting, dirVars, Goto, Return, ObservationChanged
      <3>2. CASE ~ObservationChanged(p)
        BY <1>4, <3>2, ConstantsAssumption DEF ReadOwner, TypeOK, ControlInv, FileInv, ReclaimInv, ReclaimOk, Confirmed, Live, dirVars, Goto, sameFile
      <3> QED
        BY <3>1, <3>2
    <2>4. (Linked(p) => Linked(p)' \/ residue'[p]) /\ (residue[p] => residue'[p] \/ lockPath = None)
      BY <1>4 DEF ReadOwner, TypeOK, ControlInv, FileInv, OwnFileInv, OwnFile, Linked, dirVars, callVars, ownVars, Goto, Return, Inspect, NextAttempt, ObservationChanged, ForgetIdentity
    <2>5. \/ temps \subseteq temps'
          \/ /\ pc[p] = "link" \/ Linked(p)
             /\ temps \ {lockIdentity[p]} \subseteq temps'
      BY <1>4 DEF ReadOwner, Linked, dirVars
    <2> QED
      BY <1>4, <2>1, <2>2, <2>3, <2>4, <2>5, PathKept DEF ReadOwner, dirVars
  <1>5. ASSUME NEW p \in Procs, Relstat(p) PROVE FileInv'
    <2>1. Frame(p)
      BY <1>5 DEF Relstat, Frame, TypeOK, Goto, Return, Inspect, NextAttempt, ObservationChanged, ForgetIdentity, callVars, ownVars, dirVars
    <2>2. OwnFile(p)'
      BY <1>5 DEF Relstat, TypeOK, ControlInv, FileInv, OwnFileInv, OwnFile, Linked, NoExisting, dirVars, callVars, ownVars, Goto, Return, Inspect, NextAttempt, ObservationChanged, ForgetIdentity
    <2>3. ReclaimOk(p)'
      BY <1>5, ConstantsAssumption DEF Relstat, TypeOK, ControlInv, FileInv, ReclaimInv, ReclaimOk, Confirmed, Live, NoExisting, dirVars, callVars, ownVars, Goto, Return, Inspect, NextAttempt, ObservationChanged, ForgetIdentity
    <2>4. (Linked(p) => Linked(p)' \/ residue'[p]) /\ (residue[p] => residue'[p] \/ lockPath = None)
      BY <1>5 DEF Relstat, TypeOK, ControlInv, FileInv, OwnFileInv, OwnFile, Linked, dirVars, callVars, ownVars, Goto, Return, Inspect, NextAttempt, ObservationChanged, ForgetIdentity
    <2>5. \/ temps \subseteq temps'
          \/ /\ pc[p] = "link" \/ Linked(p)
             /\ temps \ {lockIdentity[p]} \subseteq temps'
      BY <1>5 DEF Relstat, Linked, dirVars
    <2> QED
      BY <1>5, <2>1, <2>2, <2>3, <2>4, <2>5, PathKept DEF Relstat, dirVars
  <1>6. ASSUME NEW p \in Procs, DecideInitial(p) PROVE FileInv'
    <2>1. Frame(p)
      BY <1>6 DEF DecideInitial, Frame, TypeOK, Goto, Return, Inspect, NextAttempt, ObservationChanged, ForgetIdentity, callVars, ownVars, dirVars
    <2>2. OwnFile(p)'
      BY <1>6 DEF DecideInitial, TypeOK, ControlInv, FileInv, OwnFileInv, OwnFile, Linked, NoExisting, dirVars, callVars, ownVars, Goto, Return, Inspect, NextAttempt, ObservationChanged, ForgetIdentity
    <2>3. ReclaimOk(p)'
      BY <1>6, ConstantsAssumption DEF DecideInitial, TypeOK, ControlInv, FileInv, ReclaimInv, ReclaimOk, Confirmed, Live, NoExisting, dirVars, callVars, ownVars, Goto, Return, Inspect, NextAttempt, ObservationChanged, ForgetIdentity
    <2>4. (Linked(p) => Linked(p)' \/ residue'[p]) /\ (residue[p] => residue'[p] \/ lockPath = None)
      BY <1>6 DEF DecideInitial, TypeOK, ControlInv, FileInv, OwnFileInv, OwnFile, Linked, dirVars, callVars, ownVars, Goto, Return, Inspect, NextAttempt, ObservationChanged, ForgetIdentity
    <2>5. \/ temps \subseteq temps'
          \/ /\ pc[p] = "link" \/ Linked(p)
             /\ temps \ {lockIdentity[p]} \subseteq temps'
      BY <1>6 DEF DecideInitial, Linked, dirVars
    <2> QED
      BY <1>6, <2>1, <2>2, <2>3, <2>4, <2>5, PathKept DEF DecideInitial, dirVars
  <1>7. ASSUME NEW p \in Procs, DecideLoop(p) PROVE FileInv'
    <2>1. Frame(p)
      BY <1>7 DEF DecideLoop, Frame, TypeOK, Goto, Return, Inspect, NextAttempt, ObservationChanged, ForgetIdentity, callVars, ownVars, dirVars
    <2>2. OwnFile(p)'
      BY <1>7 DEF DecideLoop, TypeOK, ControlInv, FileInv, OwnFileInv, OwnFile, Linked, NoExisting, dirVars, callVars, ownVars, Goto, Return, Inspect, NextAttempt, ObservationChanged, ForgetIdentity
    <2>3. ReclaimOk(p)'
      BY <1>7, ConstantsAssumption DEF DecideLoop, TypeOK, ControlInv, FileInv, ReclaimInv, ReclaimOk, Confirmed, Live, NoExisting, dirVars, callVars, ownVars, Goto, Return, Inspect, NextAttempt, ObservationChanged, ForgetIdentity, MayReclaim, assess
    <2>4. (Linked(p) => Linked(p)' \/ residue'[p]) /\ (residue[p] => residue'[p] \/ lockPath = None)
      BY <1>7 DEF DecideLoop, TypeOK, ControlInv, FileInv, OwnFileInv, OwnFile, Linked, dirVars, callVars, ownVars, Goto, Return, Inspect, NextAttempt, ObservationChanged, ForgetIdentity
    <2>5. \/ temps \subseteq temps'
          \/ /\ pc[p] = "link" \/ Linked(p)
             /\ temps \ {lockIdentity[p]} \subseteq temps'
      BY <1>7 DEF DecideLoop, Linked, dirVars
    <2> QED
      BY <1>7, <2>1, <2>2, <2>3, <2>4, <2>5, PathKept DEF DecideLoop, dirVars
  <1>8. ASSUME NEW p \in Procs, DecideRemove(p) PROVE FileInv'
    <2>1. Frame(p)
      BY <1>8 DEF DecideRemove, Frame, TypeOK, Goto, Return, Inspect, NextAttempt, ObservationChanged, ForgetIdentity, callVars, ownVars, dirVars
    <2>2. OwnFile(p)'
      BY <1>8 DEF DecideRemove, TypeOK, ControlInv, FileInv, OwnFileInv, OwnFile, Linked, NoExisting, dirVars, callVars, ownVars, Goto, Return, Inspect, NextAttempt, ObservationChanged, ForgetIdentity
    <2>3. ReclaimOk(p)'
      <3>1. SameOwner(p) => seen[p] = existing[p].owner
        <4>1. existing[p].owner \in Owners
          BY <1>8 DEF DecideRemove, FileInv, ReclaimInv, ReclaimOk, TypeOK
        <4>2. SameOwner(p) => seen[p] \in Owners /\ seen[p].token = existing[p].owner.token
          BY DEF SameOwner, TypeOK
        <4>3. Known(seen[p]) /\ Known(existing[p].owner)
          BY DEF Known
        <4> QED
          BY <4>1, <4>2, <4>3 DEF RecordInv
      <3>2. CASE NextAttempt(p) \/ Return(p, "idle")
        BY <3>2 DEF NextAttempt, Inspect, Return, ReclaimOk, TypeOK
      <3>3. CASE SameOwner(p) /\ Goto(p, "removeUnlink") /\ UNCHANGED callVars
        BY <1>8, <3>1, <3>3, ConstantsAssumption DEF DecideRemove, TypeOK, FileInv, ReclaimInv, ReclaimOk, Confirmed, Live, dirVars, callVars, Goto
      <3> QED
        BY <1>8, <3>2, <3>3 DEF DecideRemove
    <2>4. (Linked(p) => Linked(p)' \/ residue'[p]) /\ (residue[p] => residue'[p] \/ lockPath = None)
      BY <1>8 DEF DecideRemove, TypeOK, ControlInv, FileInv, OwnFileInv, OwnFile, Linked, dirVars, callVars, ownVars, Goto, Return, Inspect, NextAttempt, ObservationChanged, ForgetIdentity
    <2>5. \/ temps \subseteq temps'
          \/ /\ pc[p] = "link" \/ Linked(p)
             /\ temps \ {lockIdentity[p]} \subseteq temps'
      BY <1>8 DEF DecideRemove, Linked, dirVars
    <2> QED
      BY <1>8, <2>1, <2>2, <2>3, <2>4, <2>5, PathKept DEF DecideRemove, dirVars
  <1>9. ASSUME NEW p \in Procs, DecideFinal(p) PROVE FileInv'
    <2>1. Frame(p)
      BY <1>9 DEF DecideFinal, Frame, TypeOK, Goto, Return, Inspect, NextAttempt, ObservationChanged, ForgetIdentity, callVars, ownVars, dirVars
    <2>2. OwnFile(p)'
      BY <1>9 DEF DecideFinal, TypeOK, ControlInv, FileInv, OwnFileInv, OwnFile, Linked, NoExisting, dirVars, callVars, ownVars, Goto, Return, Inspect, NextAttempt, ObservationChanged, ForgetIdentity
    <2>3. ReclaimOk(p)'
      BY <1>9, ConstantsAssumption DEF DecideFinal, TypeOK, ControlInv, FileInv, ReclaimInv, ReclaimOk, Confirmed, Live, NoExisting, dirVars, callVars, ownVars, Goto, Return, Inspect, NextAttempt, ObservationChanged, ForgetIdentity
    <2>4. (Linked(p) => Linked(p)' \/ residue'[p]) /\ (residue[p] => residue'[p] \/ lockPath = None)
      BY <1>9 DEF DecideFinal, TypeOK, ControlInv, FileInv, OwnFileInv, OwnFile, Linked, dirVars, callVars, ownVars, Goto, Return, Inspect, NextAttempt, ObservationChanged, ForgetIdentity
    <2>5. \/ temps \subseteq temps'
          \/ /\ pc[p] = "link" \/ Linked(p)
             /\ temps \ {lockIdentity[p]} \subseteq temps'
      BY <1>9 DEF DecideFinal, Linked, dirVars
    <2> QED
      BY <1>9, <2>1, <2>2, <2>3, <2>4, <2>5, PathKept DEF DecideFinal, dirVars
  <1>insp. ASSUME NEW p \in Procs, InspectFails(p) PROVE FileInv'
    <2>1. Frame(p)
      BY <1>insp DEF InspectFails, Frame, TypeOK, Goto, Return, Inspect, NextAttempt, ObservationChanged, ForgetIdentity, callVars, ownVars, dirVars
    <2>2. OwnFile(p)'
      BY <1>insp DEF InspectFails, TypeOK, ControlInv, FileInv, OwnFileInv, OwnFile, Linked, NoExisting, dirVars, callVars, ownVars, Goto, Return, Inspect, NextAttempt, ObservationChanged, ForgetIdentity
    <2>3. ReclaimOk(p)'
      BY <1>insp, ConstantsAssumption DEF InspectFails, TypeOK, ControlInv, FileInv, ReclaimInv, ReclaimOk, Confirmed, Live, NoExisting, dirVars, callVars, ownVars, Goto, Return, Inspect, NextAttempt, ObservationChanged, ForgetIdentity
    <2>4. (Linked(p) => Linked(p)' \/ residue'[p]) /\ (residue[p] => residue'[p] \/ lockPath = None)
      BY <1>insp DEF InspectFails, TypeOK, ControlInv, FileInv, OwnFileInv, OwnFile, Linked, dirVars, callVars, ownVars, Goto, Return, Inspect, NextAttempt, ObservationChanged, ForgetIdentity
    <2>5. \/ temps \subseteq temps'
          \/ /\ pc[p] = "link" \/ Linked(p)
             /\ temps \ {lockIdentity[p]} \subseteq temps'
      BY <1>insp DEF InspectFails, Linked, dirVars
    <2> QED
      BY <1>insp, <2>1, <2>2, <2>3, <2>4, <2>5, PathKept DEF InspectFails, dirVars
  <1>10. ASSUME NEW p \in Procs, RemoveStale(p) PROVE FileInv'
    <2>1. CASE lockPath # None /\ lockPath' = None
      <3>1. Frame(p)
        BY <1>10 DEF RemoveStale, Frame, TypeOK, Goto, Return, Inspect, NextAttempt, ObservationChanged, ForgetIdentity, callVars, ownVars
      <3>2. Confirmed(p) /\ p \in Reclaimers
        BY <1>10 DEF RemoveStale, FileInv, ReclaimInv, ReclaimOk, ControlInv
      <3>3. \A q \in Procs \ {p} : ~Linked(q) /\ ~Confirmed(q)
        BY <3>2, LinkedNotConfirmed DEF FileInv, ReclaimInv, ReclaimOk, Confirmed, SingleReclaimer
      <3>4. /\ ~Linked(p)' /\ pc'[p] # "link" /\ ~Confirmed(p)'
            /\ ReclaimOk(p)'
        BY <1>10, <2>1 DEF RemoveStale, TypeOK, ControlInv, FileInv, ReclaimInv, ReclaimOk, Confirmed, Linked, Live, callVars, Goto, Return, Inspect, NextAttempt, ObservationChanged, ForgetIdentity
      <3> QED
        BY <1>10, <2>1, <3>1, <3>3, <3>4, PathFreed DEF RemoveStale
    <2>2. CASE ~(lockPath # None /\ lockPath' = None)
      <3>1. Frame(p)
        BY <1>10, <2>2 DEF RemoveStale, Frame, TypeOK, Goto, Return, Inspect, NextAttempt, ObservationChanged, ForgetIdentity, callVars, ownVars, dirVars
      <3>2. OwnFile(p)'
        BY <1>10, <2>2 DEF RemoveStale, TypeOK, ControlInv, FileInv, OwnFileInv, OwnFile, Linked, NoExisting, dirVars, callVars, ownVars, Goto, Return, Inspect, NextAttempt, ObservationChanged, ForgetIdentity
      <3>3. ReclaimOk(p)'
        BY <1>10, <2>2, ConstantsAssumption DEF RemoveStale, TypeOK, ControlInv, FileInv, ReclaimInv, ReclaimOk, Confirmed, Live, NoExisting, dirVars, callVars, ownVars, Goto, Return, Inspect, NextAttempt, ObservationChanged, ForgetIdentity
      <3>4. (Linked(p) => Linked(p)' \/ residue'[p]) /\ (residue[p] => residue'[p] \/ lockPath = None)
        BY <1>10, <2>2 DEF RemoveStale, TypeOK, ControlInv, FileInv, OwnFileInv, OwnFile, Linked, dirVars, callVars, ownVars, Goto, Return, Inspect, NextAttempt, ObservationChanged, ForgetIdentity
      <3>5. \/ temps \subseteq temps'
            \/ /\ pc[p] = "link" \/ Linked(p)
               /\ temps \ {lockIdentity[p]} \subseteq temps'
        BY <1>10, <2>2 DEF RemoveStale, Linked, dirVars
      <3> QED
        BY <1>10, <2>2, <3>1, <3>2, <3>3, <3>4, <3>5, PathKept DEF RemoveStale, dirVars
    <2> QED
      BY <2>1, <2>2
  <1>11. ASSUME NEW p \in Procs, Publish(p) PROVE FileInv'
    <2> DEFINE owner == [proc |-> p, birth |-> birth[p], token |-> serial + 1]
    <2>1. PICK i \in FreeInodes :
            /\ content' = [content EXCEPT ![i] = owner]
            /\ temps' = temps \cup {i}
            /\ processIdentity' = [processIdentity EXCEPT ![p] = owner]
            /\ lockIdentity' = [lockIdentity EXCEPT ![p] = i]
      BY <1>11 DEF Publish
    <2>2. /\ pc' = [pc EXCEPT ![p] = "link"]
          /\ UNCHANGED <<lockPath, birth, ctx, seen, existing, residue>>
          /\ pc[p] = "publish"
      BY <1>11 DEF Publish, Goto, callVars
    <2>3. i \in Inodes /\ i \notin temps /\ i # lockPath /\ i # None
      BY ConstantsAssumption DEF FreeInodes
    <2>4. owner # None /\ owner.proc = p /\ owner.birth = birth[p]
      BY ConstantsAssumption DEF Owners, TypeOK
    <2>5. \A q \in Procs : (Linked(q)' <=> Linked(q)) /\ (Confirmed(q)' <=> Confirmed(q))
      BY <2>2 DEF Linked, Confirmed, TypeOK
    <2>6. lockPath # None => content'[lockPath] = content[lockPath]
      BY <2>1, <2>3 DEF TypeOK
    <2>7. PathInv'
      <3> SUFFICES ASSUME lockPath # None
                   PROVE  /\ content[lockPath] # None
                          /\ Live(content[lockPath]) =>
                               Linked(content[lockPath].proc)' \/ residue[content[lockPath].proc]
        BY <2>2, <2>6 DEF PathInv, Live
      <3>1. content[lockPath] # None /\ content[lockPath].proc \in Procs
        BY DEF FileInv, PathInv, TypeOK, Owners
      <3>2. PICK q \in Procs : q = content[lockPath].proc
        BY <3>1
      <3>3. (Linked(q)' <=> Linked(q)) /\ (content[lockPath].proc)' = q
        BY <2>2, <2>5, <2>6, <3>2
      <3> QED
        BY <3>1, <3>2, <3>3 DEF FileInv, PathInv
    <2> HIDE DEF owner
    <2>8. ASSUME NEW q \in Procs PROVE OwnFile(q)'
      <3>1. CASE q = p
        <4>1. ~Linked(p)
          BY <2>2 DEF Linked, ControlInv
        <4> QED
          BY <2>1, <2>2, <2>3, <2>4, <2>5, <3>1, <4>1 DEF OwnFile, TypeOK
      <3>2. CASE q # p
        <4>1. UNCHANGED <<pc[q], processIdentity[q], lockIdentity[q]>>
          BY <2>1, <2>2, <3>2 DEF TypeOK
        <4>2. OwnFile(q)
          BY DEF FileInv, OwnFileInv
        <4>3. pc[q] = "link" \/ Linked(q) => lockIdentity[q] # i /\ lockIdentity[q] \in Inodes
          BY <2>3, <4>2 DEF OwnFile, TypeOK
        <4>4. pc[q] = "link" \/ Linked(q) => content'[lockIdentity[q]] = content[lockIdentity[q]]
          BY <2>1, <2>3, <4>3 DEF TypeOK
        <4> QED
          BY <2>1, <2>2, <2>5, <4>1, <4>2, <4>4 DEF OwnFile
      <3> QED
        BY <3>1, <3>2
    <2>9. ASSUME NEW q \in Procs PROVE ReclaimOk(q)'
      <3>1. ReclaimOk(q)
        BY DEF FileInv, ReclaimInv
      <3>2. pc'[q] = "removeUnlink" => pc[q] = "removeUnlink"
        BY <2>2 DEF TypeOK
      <3> QED
        BY <2>2, <2>5, <2>6, <3>1, <3>2 DEF ReclaimOk, Live
    <2> QED
      BY <2>7, <2>8, <2>9 DEF FileInv, OwnFileInv, ReclaimInv
  <1>12. ASSUME NEW p \in Procs, PublishFails(p) PROVE FileInv'
    <2>1. Frame(p)
      BY <1>12 DEF PublishFails, Frame, TypeOK, Goto, Return, Inspect, NextAttempt, ObservationChanged, ForgetIdentity, callVars, ownVars, dirVars
    <2>2. OwnFile(p)'
      BY <1>12 DEF PublishFails, TypeOK, ControlInv, FileInv, OwnFileInv, OwnFile, Linked, NoExisting, dirVars, callVars, ownVars, Goto, Return, Inspect, NextAttempt, ObservationChanged, ForgetIdentity
    <2>3. ReclaimOk(p)'
      BY <1>12, ConstantsAssumption DEF PublishFails, TypeOK, ControlInv, FileInv, ReclaimInv, ReclaimOk, Confirmed, Live, NoExisting, dirVars, callVars, ownVars, Goto, Return, Inspect, NextAttempt, ObservationChanged, ForgetIdentity
    <2>4. (Linked(p) => Linked(p)' \/ residue'[p]) /\ (residue[p] => residue'[p] \/ lockPath = None)
      BY <1>12 DEF PublishFails, TypeOK, ControlInv, FileInv, OwnFileInv, OwnFile, Linked, dirVars, callVars, ownVars, Goto, Return, Inspect, NextAttempt, ObservationChanged, ForgetIdentity
    <2>5. \/ temps \subseteq temps'
          \/ /\ pc[p] = "link" \/ Linked(p)
             /\ temps \ {lockIdentity[p]} \subseteq temps'
      BY <1>12 DEF PublishFails, Linked, dirVars
    <2> QED
      BY <1>12, <2>1, <2>2, <2>3, <2>4, <2>5, PathKept DEF PublishFails, dirVars
  <1>13. ASSUME NEW p \in Procs, Link(p) PROVE FileInv'
    <2>1. /\ pc' = [pc EXCEPT ![p] = "validate"]
          /\ lockPath = None /\ lockPath' = lockIdentity[p] /\ pc[p] = "link"
          /\ UNCHANGED <<content, temps, birth, ctx, seen, existing, processIdentity, lockIdentity, residue>>
      BY <1>13 DEF Link, Goto, callVars, ownVars
    <2>2. \A q \in Procs : ~Linked(q) /\ ~Confirmed(q)
      BY <2>1 DEF FileInv, OwnFileInv, OwnFile, ReclaimInv, ReclaimOk, Confirmed
    <2>3. Linked(p)' /\ \A q \in Procs \ {p} : ~Linked(q)'
      BY <2>1, <2>2 DEF Linked, TypeOK
    <2>4. \A q \in Procs : ~Confirmed(q)'
      BY <2>1, <2>2 DEF Confirmed, TypeOK
    <2>5. /\ lockIdentity[p] # None /\ processIdentity[p] # None
          /\ content[lockIdentity[p]] = processIdentity[p]
          /\ processIdentity[p].proc = p /\ processIdentity[p].birth = birth[p]
      BY <2>1 DEF FileInv, OwnFileInv, OwnFile
    <2>6. PathInv'
      BY <2>1, <2>3, <2>5 DEF PathInv, Live
    <2>7. \A q \in Procs : OwnFile(q)'
      BY <2>1, <2>3, <2>5 DEF FileInv, OwnFileInv, OwnFile, TypeOK
    <2>8. \A q \in Procs : ReclaimOk(q)'
      BY <2>1, <2>2, <2>4 DEF FileInv, ReclaimInv, ReclaimOk, Live, Confirmed, TypeOK
    <2> QED
      BY <2>6, <2>7, <2>8 DEF FileInv, OwnFileInv, ReclaimInv
  <1>14. ASSUME NEW p \in Procs, LinkExists(p) PROVE FileInv'
    <2>1. Frame(p)
      BY <1>14 DEF LinkExists, Frame, TypeOK, Goto, Return, Inspect, NextAttempt, ObservationChanged, ForgetIdentity, callVars, ownVars, dirVars
    <2>2. OwnFile(p)'
      BY <1>14 DEF LinkExists, TypeOK, ControlInv, FileInv, OwnFileInv, OwnFile, Linked, NoExisting, dirVars, callVars, ownVars, Goto, Return, Inspect, NextAttempt, ObservationChanged, ForgetIdentity
    <2>3. ReclaimOk(p)'
      BY <1>14, ConstantsAssumption DEF LinkExists, TypeOK, ControlInv, FileInv, ReclaimInv, ReclaimOk, Confirmed, Live, NoExisting, dirVars, callVars, ownVars, Goto, Return, Inspect, NextAttempt, ObservationChanged, ForgetIdentity
    <2>4. (Linked(p) => Linked(p)' \/ residue'[p]) /\ (residue[p] => residue'[p] \/ lockPath = None)
      BY <1>14 DEF LinkExists, TypeOK, ControlInv, FileInv, OwnFileInv, OwnFile, Linked, dirVars, callVars, ownVars, Goto, Return, Inspect, NextAttempt, ObservationChanged, ForgetIdentity
    <2>5. \/ temps \subseteq temps'
          \/ /\ pc[p] = "link" \/ Linked(p)
             /\ temps \ {lockIdentity[p]} \subseteq temps'
      BY <1>14 DEF LinkExists, Linked, dirVars
    <2> QED
      BY <1>14, <2>1, <2>2, <2>3, <2>4, <2>5, PathKept DEF LinkExists, dirVars
  <1>15. ASSUME NEW p \in Procs, LinkFails(p) PROVE FileInv'
    <2>1. Frame(p)
      BY <1>15 DEF LinkFails, Frame, TypeOK, Goto, Return, Inspect, NextAttempt, ObservationChanged, ForgetIdentity, callVars, ownVars, dirVars
    <2>2. OwnFile(p)'
      BY <1>15 DEF LinkFails, TypeOK, ControlInv, FileInv, OwnFileInv, OwnFile, Linked, NoExisting, dirVars, callVars, ownVars, Goto, Return, Inspect, NextAttempt, ObservationChanged, ForgetIdentity
    <2>3. ReclaimOk(p)'
      BY <1>15, ConstantsAssumption DEF LinkFails, TypeOK, ControlInv, FileInv, ReclaimInv, ReclaimOk, Confirmed, Live, NoExisting, dirVars, callVars, ownVars, Goto, Return, Inspect, NextAttempt, ObservationChanged, ForgetIdentity
    <2>4. (Linked(p) => Linked(p)' \/ residue'[p]) /\ (residue[p] => residue'[p] \/ lockPath = None)
      BY <1>15 DEF LinkFails, TypeOK, ControlInv, FileInv, OwnFileInv, OwnFile, Linked, dirVars, callVars, ownVars, Goto, Return, Inspect, NextAttempt, ObservationChanged, ForgetIdentity
    <2>5. \/ temps \subseteq temps'
          \/ /\ pc[p] = "link" \/ Linked(p)
             /\ temps \ {lockIdentity[p]} \subseteq temps'
      BY <1>15 DEF LinkFails, Linked, dirVars
    <2> QED
      BY <1>15, <2>1, <2>2, <2>3, <2>4, <2>5, PathKept DEF LinkFails, dirVars
  <1>16. ASSUME NEW p \in Procs, Validate(p) PROVE FileInv'
    <2>1. Frame(p)
      BY <1>16 DEF Validate, Frame, TypeOK, Goto, Return, Inspect, NextAttempt, ObservationChanged, ForgetIdentity, callVars, ownVars, dirVars
    <2>2. OwnFile(p)'
      BY <1>16 DEF Validate, TypeOK, ControlInv, FileInv, OwnFileInv, OwnFile, Linked, NoExisting, dirVars, callVars, ownVars, Goto, Return, Inspect, NextAttempt, ObservationChanged, ForgetIdentity
    <2>3. ReclaimOk(p)'
      BY <1>16, ConstantsAssumption DEF Validate, TypeOK, ControlInv, FileInv, ReclaimInv, ReclaimOk, Confirmed, Live, NoExisting, dirVars, callVars, ownVars, Goto, Return, Inspect, NextAttempt, ObservationChanged, ForgetIdentity
    <2>4. (Linked(p) => Linked(p)' \/ residue'[p]) /\ (residue[p] => residue'[p] \/ lockPath = None)
      BY <1>16 DEF Validate, TypeOK, ControlInv, FileInv, OwnFileInv, OwnFile, Linked, dirVars, callVars, ownVars, Goto, Return, Inspect, NextAttempt, ObservationChanged, ForgetIdentity
    <2>5. \/ temps \subseteq temps'
          \/ /\ pc[p] = "link" \/ Linked(p)
             /\ temps \ {lockIdentity[p]} \subseteq temps'
      BY <1>16 DEF Validate, Linked, dirVars
    <2> QED
      BY <1>16, <2>1, <2>2, <2>3, <2>4, <2>5, PathKept DEF Validate, dirVars
  <1>17. ASSUME NEW p \in Procs, FinishPublish(p) PROVE FileInv'
    <2>1. Frame(p)
      BY <1>17 DEF FinishPublish, Frame, TypeOK, Goto, Return, Inspect, NextAttempt, ObservationChanged, ForgetIdentity, callVars, ownVars, dirVars
    <2>2. OwnFile(p)'
      BY <1>17 DEF FinishPublish, TypeOK, ControlInv, FileInv, OwnFileInv, OwnFile, Linked, NoExisting, dirVars, callVars, ownVars, Goto, Return, Inspect, NextAttempt, ObservationChanged, ForgetIdentity
    <2>3. ReclaimOk(p)'
      BY <1>17, ConstantsAssumption DEF FinishPublish, TypeOK, ControlInv, FileInv, ReclaimInv, ReclaimOk, Confirmed, Live, NoExisting, dirVars, callVars, ownVars, Goto, Return, Inspect, NextAttempt, ObservationChanged, ForgetIdentity
    <2>4. (Linked(p) => Linked(p)' \/ residue'[p]) /\ (residue[p] => residue'[p] \/ lockPath = None)
      BY <1>17 DEF FinishPublish, TypeOK, ControlInv, FileInv, OwnFileInv, OwnFile, Linked, dirVars, callVars, ownVars, Goto, Return, Inspect, NextAttempt, ObservationChanged, ForgetIdentity
    <2>5. \/ temps \subseteq temps'
          \/ /\ pc[p] = "link" \/ Linked(p)
             /\ temps \ {lockIdentity[p]} \subseteq temps'
      BY <1>17 DEF FinishPublish, Linked, dirVars
    <2> QED
      BY <1>17, <2>1, <2>2, <2>3, <2>4, <2>5, PathKept DEF FinishPublish, dirVars
  <1>18. ASSUME NEW p \in Procs, FinishPublishFails(p) PROVE FileInv'
    <2>1. Frame(p)
      BY <1>18 DEF FinishPublishFails, Frame, TypeOK, Goto, Return, Inspect, NextAttempt, ObservationChanged, ForgetIdentity, callVars, ownVars, dirVars
    <2>2. OwnFile(p)'
      BY <1>18 DEF FinishPublishFails, TypeOK, ControlInv, FileInv, OwnFileInv, OwnFile, Linked, NoExisting, dirVars, callVars, ownVars, Goto, Return, Inspect, NextAttempt, ObservationChanged, ForgetIdentity
    <2>3. ReclaimOk(p)'
      BY <1>18, ConstantsAssumption DEF FinishPublishFails, TypeOK, ControlInv, FileInv, ReclaimInv, ReclaimOk, Confirmed, Live, NoExisting, dirVars, callVars, ownVars, Goto, Return, Inspect, NextAttempt, ObservationChanged, ForgetIdentity
    <2>4. (Linked(p) => Linked(p)' \/ residue'[p]) /\ (residue[p] => residue'[p] \/ lockPath = None)
      BY <1>18 DEF FinishPublishFails, TypeOK, ControlInv, FileInv, OwnFileInv, OwnFile, Linked, dirVars, callVars, ownVars, Goto, Return, Inspect, NextAttempt, ObservationChanged, ForgetIdentity
    <2>5. \/ temps \subseteq temps'
          \/ /\ pc[p] = "link" \/ Linked(p)
             /\ temps \ {lockIdentity[p]} \subseteq temps'
      BY <1>18 DEF FinishPublishFails, Linked, dirVars
    <2> QED
      BY <1>18, <2>1, <2>2, <2>3, <2>4, <2>5, PathKept DEF FinishPublishFails, dirVars
  <1>19. ASSUME NEW p \in Procs, Cleanup(p) PROVE FileInv'
    <2>1. Frame(p)
      BY <1>19 DEF Cleanup, Frame, TypeOK, Goto, Return, Inspect, NextAttempt, ObservationChanged, ForgetIdentity, callVars, ownVars, dirVars
    <2>2. OwnFile(p)'
      BY <1>19 DEF Cleanup, TypeOK, ControlInv, FileInv, OwnFileInv, OwnFile, Linked, NoExisting, dirVars, callVars, ownVars, Goto, Return, Inspect, NextAttempt, ObservationChanged, ForgetIdentity
    <2>3. ReclaimOk(p)'
      BY <1>19, ConstantsAssumption DEF Cleanup, TypeOK, ControlInv, FileInv, ReclaimInv, ReclaimOk, Confirmed, Live, NoExisting, dirVars, callVars, ownVars, Goto, Return, Inspect, NextAttempt, ObservationChanged, ForgetIdentity
    <2>4. (Linked(p) => Linked(p)' \/ residue'[p]) /\ (residue[p] => residue'[p] \/ lockPath = None)
      BY <1>19 DEF Cleanup, TypeOK, ControlInv, FileInv, OwnFileInv, OwnFile, Linked, dirVars, callVars, ownVars, Goto, Return, Inspect, NextAttempt, ObservationChanged, ForgetIdentity
    <2>5. \/ temps \subseteq temps'
          \/ /\ pc[p] = "link" \/ Linked(p)
             /\ temps \ {lockIdentity[p]} \subseteq temps'
      BY <1>19 DEF Cleanup, Linked, dirVars
    <2> QED
      BY <1>19, <2>1, <2>2, <2>3, <2>4, <2>5, PathKept DEF Cleanup, dirVars
  <1>20. ASSUME NEW p \in Procs, CleanupUnlink(p) PROVE FileInv'
    <2>1. CASE lockPath # None /\ lockPath' = None
      <3>1. Frame(p)
        BY <1>20 DEF CleanupUnlink, Frame, TypeOK, Goto, Return, Inspect, NextAttempt, ObservationChanged, ForgetIdentity, callVars, ownVars
      <3>2. Linked(p)
        BY <1>20 DEF CleanupUnlink, Linked
      <3>3. \A q \in Procs \ {p} : ~Linked(q) /\ ~Confirmed(q)
        BY <3>2, LinkedExclusive, LinkedNotConfirmed DEF FileInv
      <3>4. /\ ~Linked(p)' /\ pc'[p] # "link" /\ ~Confirmed(p)'
            /\ ReclaimOk(p)'
        BY <1>20, <2>1 DEF CleanupUnlink, TypeOK, ControlInv, FileInv, ReclaimInv, ReclaimOk, Confirmed, Linked, Live, callVars, Goto, Return, Inspect, NextAttempt, ObservationChanged, ForgetIdentity
      <3> QED
        BY <1>20, <2>1, <3>1, <3>3, <3>4, PathFreed DEF CleanupUnlink
    <2>2. CASE ~(lockPath # None /\ lockPath' = None)
      <3>1. Frame(p)
        BY <1>20, <2>2 DEF CleanupUnlink, Frame, TypeOK, Goto, Return, Inspect, NextAttempt, ObservationChanged, ForgetIdentity, callVars, ownVars, dirVars
      <3>2. OwnFile(p)'
        BY <1>20, <2>2 DEF CleanupUnlink, TypeOK, ControlInv, FileInv, OwnFileInv, OwnFile, Linked, NoExisting, dirVars, callVars, ownVars, Goto, Return, Inspect, NextAttempt, ObservationChanged, ForgetIdentity
      <3>3. ReclaimOk(p)'
        BY <1>20, <2>2, ConstantsAssumption DEF CleanupUnlink, TypeOK, ControlInv, FileInv, ReclaimInv, ReclaimOk, Confirmed, Live, NoExisting, dirVars, callVars, ownVars, Goto, Return, Inspect, NextAttempt, ObservationChanged, ForgetIdentity
      <3>4. (Linked(p) => Linked(p)' \/ residue'[p]) /\ (residue[p] => residue'[p] \/ lockPath = None)
        <4>1. lockPath # None
          BY <1>20 DEF CleanupUnlink, FileInv, OwnFileInv, OwnFile, Linked
        <4>2. lockPath' # None
          BY <2>2, <4>1
        <4> QED
          BY <1>20, <4>2 DEF CleanupUnlink, TypeOK
      <3>5. \/ temps \subseteq temps'
            \/ /\ pc[p] = "link" \/ Linked(p)
               /\ temps \ {lockIdentity[p]} \subseteq temps'
        BY <1>20, <2>2 DEF CleanupUnlink, Linked, dirVars
      <3> QED
        BY <1>20, <2>2, <3>1, <3>2, <3>3, <3>4, <3>5, PathKept DEF CleanupUnlink, dirVars
    <2> QED
      BY <2>1, <2>2
  <1>21. ASSUME NEW p \in Procs, DecideRelease(p) PROVE FileInv'
    <2>1. Frame(p)
      BY <1>21 DEF DecideRelease, Frame, TypeOK, Goto, Return, Inspect, NextAttempt, ObservationChanged, ForgetIdentity, callVars, ownVars, dirVars
    <2>2. OwnFile(p)'
      BY <1>21 DEF DecideRelease, TypeOK, ControlInv, FileInv, OwnFileInv, OwnFile, Linked, NoExisting, dirVars, callVars, ownVars, Goto, Return, Inspect, NextAttempt, ObservationChanged, ForgetIdentity
    <2>3. ReclaimOk(p)'
      BY <1>21, ConstantsAssumption DEF DecideRelease, TypeOK, ControlInv, FileInv, ReclaimInv, ReclaimOk, Confirmed, Live, NoExisting, dirVars, callVars, ownVars, Goto, Return, Inspect, NextAttempt, ObservationChanged, ForgetIdentity
    <2>4. (Linked(p) => Linked(p)' \/ residue'[p]) /\ (residue[p] => residue'[p] \/ lockPath = None)
      BY <1>21 DEF DecideRelease, TypeOK, ControlInv, FileInv, OwnFileInv, OwnFile, Linked, dirVars, callVars, ownVars, Goto, Return, Inspect, NextAttempt, ObservationChanged, ForgetIdentity
    <2>5. \/ temps \subseteq temps'
          \/ /\ pc[p] = "link" \/ Linked(p)
             /\ temps \ {lockIdentity[p]} \subseteq temps'
      BY <1>21 DEF DecideRelease, Linked, dirVars
    <2> QED
      BY <1>21, <2>1, <2>2, <2>3, <2>4, <2>5, PathKept DEF DecideRelease, dirVars
  <1>22. ASSUME NEW p \in Procs, ReleaseUnlink(p) PROVE FileInv'
    <2>1. CASE lockPath # None /\ lockPath' = None
      <3>1. Frame(p)
        BY <1>22 DEF ReleaseUnlink, Frame, TypeOK, Goto, Return, Inspect, NextAttempt, ObservationChanged, ForgetIdentity, callVars, ownVars
      <3>2. Linked(p)
        BY <1>22 DEF ReleaseUnlink, Linked
      <3>3. \A q \in Procs \ {p} : ~Linked(q) /\ ~Confirmed(q)
        BY <3>2, LinkedExclusive, LinkedNotConfirmed DEF FileInv
      <3>4. /\ ~Linked(p)' /\ pc'[p] # "link" /\ ~Confirmed(p)'
            /\ ReclaimOk(p)'
        BY <1>22, <2>1 DEF ReleaseUnlink, TypeOK, ControlInv, FileInv, ReclaimInv, ReclaimOk, Confirmed, Linked, Live, callVars, Goto, Return, Inspect, NextAttempt, ObservationChanged, ForgetIdentity
      <3> QED
        BY <1>22, <2>1, <3>1, <3>3, <3>4, PathFreed DEF ReleaseUnlink
    <2>2. CASE ~(lockPath # None /\ lockPath' = None)
      <3>1. Frame(p)
        BY <1>22, <2>2 DEF ReleaseUnlink, Frame, TypeOK, Goto, Return, Inspect, NextAttempt, ObservationChanged, ForgetIdentity, callVars, ownVars, dirVars
      <3>2. OwnFile(p)'
        BY <1>22, <2>2 DEF ReleaseUnlink, TypeOK, ControlInv, FileInv, OwnFileInv, OwnFile, Linked, NoExisting, dirVars, callVars, ownVars, Goto, Return, Inspect, NextAttempt, ObservationChanged, ForgetIdentity
      <3>3. ReclaimOk(p)'
        BY <1>22, <2>2, ConstantsAssumption DEF ReleaseUnlink, TypeOK, ControlInv, FileInv, ReclaimInv, ReclaimOk, Confirmed, Live, NoExisting, dirVars, callVars, ownVars, Goto, Return, Inspect, NextAttempt, ObservationChanged, ForgetIdentity
      <3>4. (Linked(p) => Linked(p)' \/ residue'[p]) /\ (residue[p] => residue'[p] \/ lockPath = None)
        BY <1>22, <2>2 DEF ReleaseUnlink, TypeOK, ControlInv, FileInv, OwnFileInv, OwnFile, Linked, dirVars, callVars, ownVars, Goto, Return, Inspect, NextAttempt, ObservationChanged, ForgetIdentity
      <3>5. \/ temps \subseteq temps'
            \/ /\ pc[p] = "link" \/ Linked(p)
               /\ temps \ {lockIdentity[p]} \subseteq temps'
        BY <1>22, <2>2 DEF ReleaseUnlink, Linked, dirVars
      <3> QED
        BY <1>22, <2>2, <3>1, <3>2, <3>3, <3>4, <3>5, PathKept DEF ReleaseUnlink, dirVars
    <2> QED
      BY <2>1, <2>2
  <1>23. ASSUME NEW p \in Procs, Crash(p) PROVE FileInv'
    <2>1. Frame(p) /\ UNCHANGED <<lockPath, content, temps>> /\ birth' = [birth EXCEPT ![p] = @ + 1]
      BY <1>23 DEF Crash, Frame, TypeOK, Return, Goto, ForgetIdentity, dirVars
    <2>2. pc'[p] = "idle" /\ ctx'[p] = "none"
      BY <1>23 DEF Crash, Return, Goto, TypeOK
    <2>3. \A r \in Owners : Known(r) /\ ~Live(r) => ~Live(r)'
      BY <2>1 DEF RecordInv, Live, Owners, TypeOK
    <2>4. \A r \in Owners : Live(r)' /\ Known(r) => Live(r) /\ r.proc # p
      BY <2>1 DEF RecordInv, Live, Owners, TypeOK
    <2>5. ASSUME NEW q \in Procs \ {p} PROVE OwnFile(q)' /\ ReclaimOk(q)' /\ (Linked(q) <=> Linked(q)')
      <3>1. UNCHANGED <<pc[q], ctx[q], seen[q], existing[q], processIdentity[q], lockIdentity[q]>> /\ birth'[q] = birth[q]
        BY <2>1 DEF Frame, TypeOK
      <3>2. (Linked(q) <=> Linked(q)') /\ (Confirmed(q) <=> Confirmed(q)')
        BY <3>1 DEF Linked, Confirmed
      <3>3. OwnFile(q)'
        BY <2>1, <3>1, <3>2 DEF FileInv, OwnFileInv, OwnFile
      <3>4. ctx[q] = "remove" => existing[q].owner \in Owners /\ Known(existing[q].owner)
        BY DEF FileInv, ReclaimInv, ReclaimOk, TypeOK, Known
      <3>5. ctx[q] = "remove" => ~Live(existing[q].owner)'
        BY <2>3, <3>1, <3>4 DEF FileInv, ReclaimInv, ReclaimOk, Live
      <3>6. ReclaimOk(q)'
        BY <2>1, <3>1, <3>2, <3>5 DEF FileInv, ReclaimInv, ReclaimOk
      <3> QED
        BY <3>2, <3>3, <3>6
    <2>6. OwnFile(p)' /\ ReclaimOk(p)'
      BY <2>2 DEF OwnFile, ReclaimOk, Linked
    <2>7. PathInv'
      <3> SUFFICES ASSUME lockPath # None
                   PROVE  /\ content[lockPath] # None
                          /\ Live(content[lockPath])' =>
                               Linked(content[lockPath].proc)' \/ residue'[content[lockPath].proc]
        BY <2>1 DEF PathInv, Live
      <3>1. content[lockPath] \in Owners /\ Known(content[lockPath]) /\ content[lockPath].proc \in Procs
        BY DEF FileInv, PathInv, TypeOK, Known, Owners
      <3>2. content[lockPath] # None
        BY DEF FileInv, PathInv
      <3> QED
        BY <2>1, <2>4, <2>5, <3>1, <3>2 DEF FileInv, PathInv, Frame, Live
    <2> QED
      BY <2>5, <2>6, <2>7 DEF FileInv, OwnFileInv, ReclaimInv
  <1>24. CASE UNCHANGED vars
    BY <1>24 DEF vars, dirVars, callVars, ownVars, FileInv, PathInv, OwnFileInv, OwnFile, ReclaimInv, ReclaimOk, Confirmed, Linked, Live
  <1> QED
    BY <1>1, <1>2, <1>3, <1>4, <1>5, <1>6, <1>7, <1>8, <1>9, <1>insp, <1>10, <1>11, <1>12,
       <1>13, <1>14, <1>15, <1>16, <1>17, <1>18, <1>19, <1>20, <1>21, <1>22, <1>23, <1>24 DEF Next, Step

\* The inductive invariant holds initially.
LEMMA InitIInv == Init => IInv
  <1> SUFFICES ASSUME Init PROVE RecordInv /\ FileInv
    BY InitType DEF IInv
  <1>1. \A r \in Owners : r # None
    BY ConstantsAssumption
  <1>2. RecordInv
    BY <1>1 DEF Init, RecordInv, Known, NoExisting
  <1>3. FileInv
    BY DEF Init, FileInv, PathInv, OwnFileInv, OwnFile, ReclaimInv, ReclaimOk, Linked
  <1> QED
    BY <1>2, <1>3

\* Every step keeps it.
LEMMA NextIInv ==
  ASSUME SingleReclaimer PROVE IInv /\ [Next]_vars => IInv'
  BY NextType, RecordStep, FileStep DEF IInv

\* Hence it always holds.
LEMMA Inductive ==
  ASSUME SingleReclaimer PROVE Spec => []IInv
  BY InitIInv, NextIInv, PTL DEF Spec

\* Who holds the lock has its record at the lock path.
LEMMA HoldsLinked == \A p \in Procs : Holds(p) => Linked(p)
  BY DEF Holds, Linked

\* With a single reclaimer, acquire never returns to two processes at once, for
\* any number of processes, crashes and failing system calls.
THEOREM MutualExclusionHolds ==
  ASSUME SingleReclaimer PROVE Spec => []MutualExclusion
  <1>1. IInv => MutualExclusion
    BY HoldsLinked, LinkedExclusive DEF IInv, FileInv, MutualExclusion
  <1> QED
    BY <1>1, Inductive, PTL

\* With a single reclaimer, the lock file of a holder stays the visible one, so
\* release() never fails with "ownership-changed".
THEOREM HolderRecordIntactHolds ==
  ASSUME SingleReclaimer PROVE Spec => []HolderRecordIntact
  <1>1. IInv => HolderRecordIntact
    BY HoldsLinked DEF IInv, FileInv, OwnFileInv, OwnFile, HolderRecordIntact
  <1> QED
    BY <1>1, Inductive, PTL

\* With a single reclaimer, the path that #removeStale unlinks names a dead owner.
THEOREM ReclaimsOnlyStaleHolds ==
  ASSUME SingleReclaimer PROVE Spec => []ReclaimsOnlyStale
  <1>1. IInv => ReclaimsOnlyStale
    BY DEF IInv, ControlInv, FileInv, ReclaimInv, ReclaimOk, ReclaimsOnlyStale
  <1> QED
    BY <1>1, Inductive, PTL

\* With a single reclaimer, a running process that has forgotten a lock it
\* published was told so: the failed #publish reported visible residue.
THEOREM ForgottenLockReportedHolds ==
  ASSUME SingleReclaimer PROVE Spec => []ForgottenLockReported
  <1>1. IInv => ForgottenLockReported
    BY DEF IInv, FileInv, PathInv, OwnFileInv, OwnFile, ForgottenLockReported
  <1> QED
    BY <1>1, Inductive, PTL

-----------------------------------------------------------------------------
(* Refinement: every step of the file protocol is a step of LockService.   *)

\* A step that leaves the lock path alone is a stutter of the abstract lock.
LEMMA SameHolder ==
  ASSUME UNCHANGED <<lockPath, birth>>, lockPath # None => content'[lockPath] = content[lockPath]
  PROVE  UNCHANGED Abstract!lockVars
  BY DEF Abstract!lockVars, holder

\* Unlinking its own record is the abstract release.
LEMMA OwnUnlinkIsDrop ==
  ASSUME TypeOK, FileInv, NEW p \in Procs, Linked(p), lockPath' = None, UNCHANGED birth
  PROVE  Abstract!Drop(p)
  BY DEF FileInv, OwnFileInv, OwnFile, Abstract!Drop, Abstract!Live, holder

\* Every step is a step or a stutter of the abstract lock.
LEMMA StepRefines ==
  ASSUME IInv, IInv', [Next]_vars
  PROVE  [Abstract!LockNext]_Abstract!lockVars
  <1>1. ASSUME NEW p \in Procs, StartAcquire(p) PROVE UNCHANGED Abstract!lockVars
    BY <1>1, SameHolder DEF StartAcquire, dirVars
  <1>2. ASSUME NEW p \in Procs, StartRelease(p) PROVE UNCHANGED Abstract!lockVars
    BY <1>2, SameHolder DEF StartRelease, dirVars
  <1>3. ASSUME NEW p \in Procs, Lstat(p) PROVE UNCHANGED Abstract!lockVars
    BY <1>3, SameHolder DEF Lstat, dirVars
  <1>4. ASSUME NEW p \in Procs, ReadOwner(p) PROVE UNCHANGED Abstract!lockVars
    BY <1>4, SameHolder DEF ReadOwner, dirVars
  <1>5. ASSUME NEW p \in Procs, Relstat(p) PROVE UNCHANGED Abstract!lockVars
    BY <1>5, SameHolder DEF Relstat, dirVars
  <1>6. ASSUME NEW p \in Procs, DecideInitial(p) PROVE UNCHANGED Abstract!lockVars
    BY <1>6, SameHolder DEF DecideInitial, dirVars
  <1>7. ASSUME NEW p \in Procs, DecideLoop(p) PROVE UNCHANGED Abstract!lockVars
    BY <1>7, SameHolder DEF DecideLoop, dirVars
  <1>8. ASSUME NEW p \in Procs, DecideRemove(p) PROVE UNCHANGED Abstract!lockVars
    BY <1>8, SameHolder DEF DecideRemove, dirVars
  <1>9. ASSUME NEW p \in Procs, DecideFinal(p) PROVE UNCHANGED Abstract!lockVars
    BY <1>9, SameHolder DEF DecideFinal, dirVars
  <1>insp. ASSUME NEW p \in Procs, InspectFails(p) PROVE UNCHANGED Abstract!lockVars
    BY <1>insp, SameHolder DEF InspectFails, dirVars
  <1>10. ASSUME NEW p \in Procs, PublishFails(p) PROVE UNCHANGED Abstract!lockVars
    BY <1>10, SameHolder DEF PublishFails, dirVars
  <1>11. ASSUME NEW p \in Procs, LinkExists(p) PROVE UNCHANGED Abstract!lockVars
    BY <1>11, SameHolder DEF LinkExists, dirVars
  <1>12. ASSUME NEW p \in Procs, LinkFails(p) PROVE UNCHANGED Abstract!lockVars
    BY <1>12, SameHolder DEF LinkFails, dirVars
  <1>13. ASSUME NEW p \in Procs, Validate(p) PROVE UNCHANGED Abstract!lockVars
    BY <1>13, SameHolder DEF Validate, dirVars
  <1>14. ASSUME NEW p \in Procs, FinishPublish(p) PROVE UNCHANGED Abstract!lockVars
    BY <1>14, SameHolder DEF FinishPublish, dirVars
  <1>15. ASSUME NEW p \in Procs, FinishPublishFails(p) PROVE UNCHANGED Abstract!lockVars
    BY <1>15, SameHolder DEF FinishPublishFails, dirVars
  <1>16. ASSUME NEW p \in Procs, Cleanup(p) PROVE UNCHANGED Abstract!lockVars
    BY <1>16, SameHolder DEF Cleanup, dirVars
  <1>17. ASSUME NEW p \in Procs, DecideRelease(p) PROVE UNCHANGED Abstract!lockVars
    BY <1>17, SameHolder DEF DecideRelease, dirVars
  <1>18. ASSUME NEW p \in Procs, Publish(p) PROVE UNCHANGED Abstract!lockVars
    <2>1. PICK i \in FreeInodes : content' = [content EXCEPT ![i] = [proc |-> p, birth |-> birth[p], token |-> serial + 1]]
      BY <1>18 DEF Publish
    <2>2. lockPath # None => content'[lockPath] = content[lockPath]
      BY <2>1 DEF IInv, TypeOK, FreeInodes
    <2> QED
      BY <1>18, <2>2, SameHolder DEF Publish
  <1>19. ASSUME NEW p \in Procs, Link(p) PROVE Abstract!Take(p)
    <2>1. /\ holder = None /\ holder' = processIdentity[p]
          /\ processIdentity[p] \in Owners
          /\ processIdentity[p].proc = p /\ processIdentity[p].birth = birth[p]
      BY <1>19 DEF Link, IInv, FileInv, OwnFileInv, OwnFile, holder, TypeOK
    <2> QED
      BY <1>19, <2>1 DEF Link, Abstract!Take, Abstract!TakeAs, Abstract!Live, Abstract!Owners, Owners
  <1>20. ASSUME NEW p \in Procs, RemoveStale(p) PROVE Abstract!Reclaim \/ UNCHANGED Abstract!lockVars
    <2>1. lockPath # None /\ content[lockPath] # None /\ ~Live(content[lockPath])
      BY <1>20 DEF RemoveStale, IInv, ControlInv, FileInv, PathInv, ReclaimInv, ReclaimOk
    <2>2. CASE lockPath' = None
      BY <1>20, <2>1, <2>2 DEF RemoveStale, Abstract!Reclaim, Abstract!Live, Live, holder
    <2>3. CASE lockPath' # None
      BY <1>20, <2>3, SameHolder DEF RemoveStale
    <2> QED
      BY <2>2, <2>3
  <1>21. ASSUME NEW p \in Procs, CleanupUnlink(p) PROVE Abstract!Drop(p) \/ UNCHANGED Abstract!lockVars
    <2>1. CASE lockPath' = None
      BY <1>21, <2>1, OwnUnlinkIsDrop DEF CleanupUnlink, IInv, Linked
    <2>2. CASE lockPath' # None
      BY <1>21, <2>2, SameHolder DEF CleanupUnlink
    <2> QED
      BY <2>1, <2>2
  <1>22. ASSUME NEW p \in Procs, ReleaseUnlink(p) PROVE Abstract!Drop(p) \/ UNCHANGED Abstract!lockVars
    <2>1. CASE lockPath' = None
      BY <1>22, <2>1, OwnUnlinkIsDrop DEF ReleaseUnlink, IInv, Linked
    <2>2. CASE lockPath' # None
      BY <1>22, <2>2, SameHolder DEF ReleaseUnlink
    <2> QED
      BY <2>1, <2>2
  <1>23. ASSUME NEW p \in Procs, Crash(p) PROVE Abstract!Die(p)
    BY <1>23 DEF Crash, Abstract!Die, holder, dirVars
  <1>24. CASE UNCHANGED vars
    BY <1>24, SameHolder DEF vars, dirVars
  <1> QED
    BY <1>1, <1>2, <1>3, <1>4, <1>5, <1>6, <1>7, <1>8, <1>9, <1>insp, <1>10, <1>11, <1>12,
       <1>13, <1>14, <1>15, <1>16, <1>17, <1>18, <1>19, <1>20, <1>21, <1>22, <1>23, <1>24 DEF Next, Step, Abstract!LockNext

\* The file protocol, with a single reclaimer, implements the abstract lock.
THEOREM Implements ==
  ASSUME SingleReclaimer PROVE Spec => ImplementsLockService
  <1>1. Init => Abstract!LockInit
    BY DEF Init, Abstract!LockInit, holder
  <1>2. IInv /\ IInv' /\ [Next]_vars => [Abstract!LockNext]_Abstract!lockVars
    BY StepRefines
  <1> QED
    BY <1>1, <1>2, Inductive, PTL DEF Spec, ImplementsLockService, Abstract!LockSpec
=============================================================================
