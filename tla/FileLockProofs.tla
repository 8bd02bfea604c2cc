---------------------------- MODULE FileLockProofs ----------------------------
(***************************************************************************)
(* Proofs about FileLock for any number of processes, calls and births,    *)
(* any nesting of the calls and any wait policies. The inductive invariant *)
(* says which call the lock names, and that a nested call runs only while  *)
(* the body that has made it waits for it.                                 *)
(***************************************************************************)
EXTENDS FileLock, TLAPS

\* The lock names one of the calls, in its own process, in a birth that has been.
HolderInv ==
  holder # None =>
    /\ holder.token \in Calls
    /\ holder.proc = ProcOf[holder.token]
    /\ holder.birth <= birth[holder.proc]

\* An error that reports a lock comes last.
ResultInv ==
  \A c \in Calls :
    result[c] \in {"releaseError", "bothErrors", "residueError"} => pc[c] \in {"ended", "dead"}

\* A nested call that has not been refused runs inside the body of its caller, and
\* the owner it has met is that caller.
NestedInv ==
  \A c \in Calls : Caller[c] # None =>
    /\ pc[c] \in {"attempt", "conflict"} => pc[Caller[c]] = "body"
    /\ pc[c] = "conflict" => HeldByCurrentProcess(c)
    /\ \/ pc[c] \in {"uncalled", "dead", "attempt", "conflict"}
       \/ pc[c] = "ended" /\ result[c] \in {"reentrant", "lockError"}

IInv ==
  /\ TypeOK
  /\ HolderInv
  /\ ResultInv
  /\ BodyOwnsLock
  /\ LeftLockReported
  /\ NestedInv

-----------------------------------------------------------------------------
\* Every step keeps the types.
LEMMA TypeStep ==
  TypeOK /\ [Next]_vars => TypeOK'
<1> SUFFICES ASSUME TypeOK, [Next]_vars
             PROVE  TypeOK'
  OBVIOUS
<1> USE FileLockAssumption DEF TypeOK, Owners, Labels, Results, Errors
<1>1. ASSUME NEW c \in Calls, Start(c)
      PROVE  TypeOK'
  BY <1>1 DEF Start, Goto
<1>2. ASSUME NEW c \in Calls, AttemptReclaim(c)
      PROVE  TypeOK'
  BY <1>2 DEF AttemptReclaim, Lock!Reclaim
<1>3. ASSUME NEW c \in Calls, AttemptTake(c)
      PROVE  TypeOK'
  BY <1>3 DEF AttemptTake, Lock!TakeAs, NewOwner, Goto
<1>4. ASSUME NEW c \in Calls, AttemptConflict(c)
      PROVE  TypeOK'
  BY <1>4 DEF AttemptConflict, Goto
<1>5. ASSUME NEW c \in Calls, AttemptFails(c)
      PROVE  TypeOK'
  BY <1>5 DEF AttemptFails, Lock!TakeAs, NewOwner, End, Goto
<1>6. ASSUME NEW c \in Calls, ConflictReentrant(c)
      PROVE  TypeOK'
  BY <1>6 DEF ConflictReentrant, End, Goto
<1>7. ASSUME NEW c \in Calls, ConflictTimeout(c)
      PROVE  TypeOK'
  BY <1>7 DEF ConflictTimeout, End, Goto
<1>8. ASSUME NEW c \in Calls, ConflictRetry(c)
      PROVE  TypeOK'
  BY <1>8 DEF ConflictRetry, Goto
<1>9. ASSUME NEW c \in Calls, Wake(c)
      PROVE  TypeOK'
  BY <1>9 DEF Wake, Goto
<1>10. ASSUME NEW c \in Calls, NEW r \in {"ok", "bodyError"}, BodyEnds(c, r)
      PROVE  TypeOK'
  BY <1>10 DEF BodyEnds, Goto
<1>11. ASSUME NEW c \in Calls, Release(c)
      PROVE  TypeOK'
  BY <1>11 DEF Release, Lock!Drop, End, Goto
<1>12. ASSUME NEW c \in Calls, ReleaseFails(c)
      PROVE  TypeOK'
  BY <1>12 DEF ReleaseFails, Lock!Drop, ReleaseErrorOf, End, Goto
<1>13. ASSUME NEW p \in Procs, Crash(p)
      PROVE  TypeOK'
  BY <1>13 DEF Crash, Lock!Die
<1>14. CASE UNCHANGED vars
  BY <1>14 DEF vars
<1>15. QED
  BY <1>1, <1>2, <1>3, <1>4, <1>5, <1>6, <1>7, <1>8, <1>9, <1>10, <1>11, <1>12,
     <1>13, <1>14 DEF Next, Step

\* An owner record tells the call, and is not null.
LEMMA OwnerOfCall ==
  ASSUME TypeOK
  PROVE  /\ \A c \in Calls : NewOwner(c) # None
         /\ \A c, d \in Calls : NewOwner(c) = NewOwner(d) => c = d
<1>1. \A c \in Calls : NewOwner(c) \in [proc : Procs, birth : Nat, token : Nat]
  BY FileLockAssumption DEF TypeOK, NewOwner
<1>2. \A c \in Calls : NewOwner(c).token = c
  BY DEF NewOwner
<1>3. QED
  BY <1>1, <1>2, FileLockAssumption

\* Every step keeps the inductive invariant.
LEMMA InvStep ==
  IInv /\ [Next]_vars => IInv'
<1> SUFFICES ASSUME IInv, [Next]_vars
             PROVE  IInv'
  OBVIOUS
<1>t. TypeOK'
  BY TypeStep DEF IInv
<1>o. /\ \A c \in Calls : NewOwner(c) # None
      /\ \A c, d \in Calls : NewOwner(c) = NewOwner(d) => c = d
  BY OwnerOfCall DEF IInv
<1> USE <1>t, FileLockAssumption DEF IInv, TypeOK
<1>1. ASSUME NEW c \in Calls, Start(c)
      PROVE  IInv'
  <2>1. HolderInv'
    BY <1>1 DEF Start, Goto, HolderInv, NewOwner, Owners
  <2>2. ResultInv'
    BY <1>1 DEF Start, Goto, ResultInv
  <2>3. BodyOwnsLock'
    BY <1>1 DEF Start, Goto, BodyOwnsLock, Owns, NewOwner, HolderInv, Owners, Live, LeftLockReported
  <2>4. LeftLockReported'
    BY <1>1 DEF Start, Goto, LeftLockReported, Live, NewOwner, Owners, HolderInv, BodyOwnsLock, Owns, ResultInv
  <2>5. NestedInv'
    BY <1>1 DEF Start, Goto, NestedInv, HeldByCurrentProcess
  <2>6. QED
    BY <2>1, <2>2, <2>3, <2>4, <2>5
<1>2. ASSUME NEW c \in Calls, AttemptReclaim(c)
      PROVE  IInv'
  <2>1. HolderInv'
    BY <1>2 DEF AttemptReclaim, Lock!Reclaim, Lock!Live, HolderInv, NewOwner, Owners
  <2>2. ResultInv'
    BY <1>2 DEF AttemptReclaim, Lock!Reclaim, Lock!Live, ResultInv
  <2>3. BodyOwnsLock'
    BY <1>2 DEF AttemptReclaim, Lock!Reclaim, Lock!Live, BodyOwnsLock, Owns, NewOwner, HolderInv, Owners, Live, LeftLockReported
  <2>4. LeftLockReported'
    BY <1>2 DEF AttemptReclaim, Lock!Reclaim, Lock!Live, LeftLockReported, Live, NewOwner, Owners, HolderInv, BodyOwnsLock, Owns, ResultInv
  <2>5. NestedInv'
    BY <1>2 DEF AttemptReclaim, Lock!Reclaim, Lock!Live, NestedInv, HeldByCurrentProcess
  <2>6. QED
    BY <2>1, <2>2, <2>3, <2>4, <2>5
<1>3. ASSUME NEW c \in Calls, AttemptTake(c)
      PROVE  IInv'
  <2>1. HolderInv'
    BY <1>3 DEF AttemptTake, Lock!TakeAs, Lock!Live, Goto, HolderInv, NewOwner, Owners
  <2>2. ResultInv'
    BY <1>3 DEF AttemptTake, Lock!TakeAs, Lock!Live, Goto, ResultInv
  <2>3. BodyOwnsLock'
    <3>1. \A d \in Calls : pc[d] \notin {"body", "release"}
      BY <1>3, <1>o DEF AttemptTake, Lock!TakeAs, BodyOwnsLock, Owns
    <3>2. NewOwner(c)' = NewOwner(c) /\ holder' = NewOwner(c)
      BY <1>3 DEF AttemptTake, Lock!TakeAs, NewOwner
    <3>3. QED
      BY <1>3, <3>1, <3>2 DEF AttemptTake, Goto, BodyOwnsLock, Owns
  <2>4. LeftLockReported'
    BY <1>3 DEF AttemptTake, Lock!TakeAs, Lock!Live, Goto, LeftLockReported, Live, NewOwner, Owners, HolderInv, BodyOwnsLock, Owns, ResultInv
  <2>5. NestedInv'
    <3>1. Caller[c] = None
      <4>1. \A d \in Calls : pc[d] # "body"
        BY <1>3, <1>o DEF AttemptTake, Lock!TakeAs, BodyOwnsLock, Owns
      <4>2. Caller[c] # None => Caller[c] \in Calls /\ pc[Caller[c]] = "body"
        BY <1>3 DEF AttemptTake, NestedInv
      <4>3. QED
        BY <4>1, <4>2
    <3>2. QED
      BY <1>3, <3>1 DEF AttemptTake, Lock!TakeAs, Goto, NestedInv, HeldByCurrentProcess
  <2>6. QED
    BY <2>1, <2>2, <2>3, <2>4, <2>5
<1>4. ASSUME NEW c \in Calls, AttemptConflict(c)
      PROVE  IInv'
  <2>1. HolderInv'
    BY <1>4 DEF AttemptConflict, Goto, HolderInv, NewOwner, Owners
  <2>2. ResultInv'
    BY <1>4 DEF AttemptConflict, Goto, ResultInv
  <2>3. BodyOwnsLock'
    BY <1>4 DEF AttemptConflict, Goto, BodyOwnsLock, Owns, NewOwner, HolderInv, Owners, Live, LeftLockReported
  <2>4. LeftLockReported'
    BY <1>4 DEF AttemptConflict, Goto, LeftLockReported, Live, NewOwner, Owners, HolderInv, BodyOwnsLock, Owns, ResultInv
  <2>5. NestedInv'
    <3>1. ASSUME Caller[c] # None
          PROVE  holder.proc = ProcOf[c] /\ holder.birth = birth[ProcOf[c]]
      <4>1. Caller[c] \in Calls
        BY <3>1
      <4>2. ProcOf[Caller[c]] = ProcOf[c]
        BY <3>1
      <4>3. pc[Caller[c]] = "body"
        BY <1>4, <3>1 DEF AttemptConflict, NestedInv
      <4>4. holder = NewOwner(Caller[c])
        BY <4>1, <4>3 DEF BodyOwnsLock, Owns
      <4>5. QED
        BY <4>2, <4>4 DEF NewOwner
    <3>2. QED
      BY <1>4, <3>1 DEF AttemptConflict, Goto, NestedInv, HeldByCurrentProcess
  <2>6. QED
    BY <2>1, <2>2, <2>3, <2>4, <2>5
<1>5. ASSUME NEW c \in Calls, AttemptFails(c)
      PROVE  IInv'
  <2>a. CASE End(c, "lockError") /\ UNCHANGED <<holder, birth>>
    <3>1. HolderInv'
      BY <1>5, <2>a DEF AttemptFails, HolderInv
    <3>2. ResultInv'
      BY <1>5, <2>a DEF AttemptFails, End, Goto, ResultInv
    <3>3. BodyOwnsLock'
      BY <1>5, <2>a DEF AttemptFails, End, Goto, BodyOwnsLock, Owns, NewOwner
    <3>4. LeftLockReported'
      BY <1>5, <2>a DEF AttemptFails, End, Goto, LeftLockReported, Live, Owners, HolderInv, ResultInv
    <3>5. NestedInv'
      BY <1>5, <2>a DEF AttemptFails, End, Goto, NestedInv, HeldByCurrentProcess
    <3>6. QED
      BY <3>1, <3>2, <3>3, <3>4, <3>5
  <2>b. CASE End(c, "residueError") /\ Lock!TakeAs(NewOwner(c))
    <3>0. \A d \in Calls : pc[d] \notin {"body", "release"}
      BY <2>b, <1>o DEF Lock!TakeAs, BodyOwnsLock, Owns
    <3>1. HolderInv'
      BY <2>b DEF Lock!TakeAs, Lock!Live, HolderInv, NewOwner, Owners
    <3>2. ResultInv'
      BY <2>b DEF End, Goto, ResultInv
    <3>3. BodyOwnsLock'
      BY <2>b, <3>0 DEF End, Goto, BodyOwnsLock
    <3>4. LeftLockReported'
      BY <2>b DEF Lock!TakeAs, End, Goto, LeftLockReported, NewOwner
    <3>5. NestedInv'
      <4>1. Caller[c] = None
        <5>1. SUFFICES ASSUME Caller[c] # None
                       PROVE  FALSE
          OBVIOUS
        <5>2. Caller[c] \in Calls
          BY <5>1
        <5>3. pc[Caller[c]] = "body"
          BY <1>5, <5>1 DEF AttemptFails, NestedInv
        <5>4. QED
          BY <3>0, <5>2, <5>3
      <4>2. QED
        BY <1>5, <2>b, <4>1 DEF AttemptFails, Lock!TakeAs, End, Goto, NestedInv, HeldByCurrentProcess
    <3>6. QED
      BY <3>1, <3>2, <3>3, <3>4, <3>5
  <2>c. QED
    BY <1>5, <2>a, <2>b DEF AttemptFails
<1>6. ASSUME NEW c \in Calls, ConflictReentrant(c)
      PROVE  IInv'
  <2>1. HolderInv'
    BY <1>6 DEF ConflictReentrant, End, Goto, HolderInv, NewOwner, Owners
  <2>2. ResultInv'
    BY <1>6 DEF ConflictReentrant, End, Goto, ResultInv
  <2>3. BodyOwnsLock'
    BY <1>6 DEF ConflictReentrant, End, Goto, BodyOwnsLock, Owns, NewOwner, HolderInv, Owners, Live, LeftLockReported
  <2>4. LeftLockReported'
    BY <1>6 DEF ConflictReentrant, End, Goto, LeftLockReported, Live, NewOwner, Owners, HolderInv, BodyOwnsLock, Owns, ResultInv
  <2>5. NestedInv'
    BY <1>6 DEF ConflictReentrant, End, Goto, NestedInv, HeldByCurrentProcess
  <2>6. QED
    BY <2>1, <2>2, <2>3, <2>4, <2>5
<1>7. ASSUME NEW c \in Calls, ConflictTimeout(c)
      PROVE  IInv'
  <2>1. HolderInv'
    BY <1>7 DEF ConflictTimeout, End, Goto, HolderInv, NewOwner, Owners
  <2>2. ResultInv'
    BY <1>7 DEF ConflictTimeout, End, Goto, ResultInv
  <2>3. BodyOwnsLock'
    BY <1>7 DEF ConflictTimeout, End, Goto, BodyOwnsLock, Owns, NewOwner, HolderInv, Owners, Live, LeftLockReported
  <2>4. LeftLockReported'
    BY <1>7 DEF ConflictTimeout, End, Goto, LeftLockReported, Live, NewOwner, Owners, HolderInv, BodyOwnsLock, Owns, ResultInv
  <2>5. NestedInv'
    BY <1>7 DEF ConflictTimeout, End, Goto, NestedInv, HeldByCurrentProcess
  <2>6. QED
    BY <2>1, <2>2, <2>3, <2>4, <2>5
<1>8. ASSUME NEW c \in Calls, ConflictRetry(c)
      PROVE  IInv'
  <2>1. HolderInv'
    BY <1>8 DEF ConflictRetry, Goto, HolderInv, NewOwner, Owners
  <2>2. ResultInv'
    BY <1>8 DEF ConflictRetry, Goto, ResultInv
  <2>3. BodyOwnsLock'
    BY <1>8 DEF ConflictRetry, Goto, BodyOwnsLock, Owns, NewOwner, HolderInv, Owners, Live, LeftLockReported
  <2>4. LeftLockReported'
    BY <1>8 DEF ConflictRetry, Goto, LeftLockReported, Live, NewOwner, Owners, HolderInv, BodyOwnsLock, Owns, ResultInv
  <2>5. NestedInv'
    BY <1>8 DEF ConflictRetry, Goto, NestedInv, HeldByCurrentProcess
  <2>6. QED
    BY <2>1, <2>2, <2>3, <2>4, <2>5
<1>9. ASSUME NEW c \in Calls, Wake(c)
      PROVE  IInv'
  <2>1. HolderInv'
    BY <1>9 DEF Wake, Goto, HolderInv, NewOwner, Owners
  <2>2. ResultInv'
    BY <1>9 DEF Wake, Goto, ResultInv
  <2>3. BodyOwnsLock'
    BY <1>9 DEF Wake, Goto, BodyOwnsLock, Owns, NewOwner, HolderInv, Owners, Live, LeftLockReported
  <2>4. LeftLockReported'
    BY <1>9 DEF Wake, Goto, LeftLockReported, Live, NewOwner, Owners, HolderInv, BodyOwnsLock, Owns, ResultInv
  <2>5. NestedInv'
    BY <1>9 DEF Wake, Goto, NestedInv, HeldByCurrentProcess
  <2>6. QED
    BY <2>1, <2>2, <2>3, <2>4, <2>5
<1>10. ASSUME NEW c \in Calls, NEW r \in {"ok", "bodyError"}, BodyEnds(c, r)
      PROVE  IInv'
  <2>1. HolderInv'
    BY <1>10 DEF BodyEnds, Running, Goto, HolderInv, NewOwner, Owners
  <2>2. ResultInv'
    BY <1>10 DEF BodyEnds, Running, Goto, ResultInv
  <2>3. BodyOwnsLock'
    BY <1>10 DEF BodyEnds, Running, Goto, BodyOwnsLock, Owns, NewOwner, HolderInv, Owners, Live, LeftLockReported
  <2>4. LeftLockReported'
    BY <1>10 DEF BodyEnds, Running, Goto, LeftLockReported, Live, NewOwner, Owners, HolderInv, BodyOwnsLock, Owns, ResultInv
  <2>5. NestedInv'
    <3>1. Caller[c] = None
      BY <1>10 DEF BodyEnds, NestedInv
    <3>2. \A d \in Calls : Caller[d] = c => pc[d] \notin {"attempt", "conflict"}
      BY <1>10 DEF BodyEnds, Running
    <3>3. QED
      BY <1>10, <3>1, <3>2 DEF BodyEnds, Goto, NestedInv, HeldByCurrentProcess
  <2>6. QED
    BY <2>1, <2>2, <2>3, <2>4, <2>5
<1>11. ASSUME NEW c \in Calls, Release(c)
      PROVE  IInv'
  <2>1. HolderInv'
    BY <1>11 DEF Release, Lock!Drop, Lock!Live, End, Goto, HolderInv, NewOwner, Owners
  <2>2. ResultInv'
    BY <1>11 DEF Release, Lock!Drop, Lock!Live, End, Goto, ResultInv
  <2>3. BodyOwnsLock'
    <3>1. \A d \in Calls \ {c} : pc[d] \notin {"body", "release"}
      BY <1>11, <1>o DEF Release, BodyOwnsLock, Owns
    <3>2. QED
      BY <1>11, <3>1 DEF Release, End, Goto, BodyOwnsLock
  <2>4. LeftLockReported'
    BY <1>11 DEF Release, Lock!Drop, Lock!Live, End, Goto, LeftLockReported, Live, NewOwner, Owners, HolderInv, BodyOwnsLock, Owns, ResultInv
  <2>5. NestedInv'
    BY <1>11 DEF Release, Lock!Drop, Lock!Live, End, Goto, NestedInv, HeldByCurrentProcess
  <2>6. QED
    BY <2>1, <2>2, <2>3, <2>4, <2>5
<1>12. ASSUME NEW c \in Calls, ReleaseFails(c)
      PROVE  IInv'
  <2>1. HolderInv'
    BY <1>12 DEF ReleaseFails, Lock!Drop, Lock!Live, ReleaseErrorOf, End, Goto, HolderInv, NewOwner, Owners
  <2>2. ResultInv'
    BY <1>12 DEF ReleaseFails, Lock!Drop, Lock!Live, ReleaseErrorOf, End, Goto, ResultInv
  <2>3. BodyOwnsLock'
    <3>1. \A d \in Calls \ {c} : pc[d] \notin {"body", "release"}
      BY <1>12, <1>o DEF ReleaseFails, BodyOwnsLock, Owns
    <3>2. QED
      BY <1>12, <3>1 DEF ReleaseFails, End, Goto, BodyOwnsLock
  <2>4. LeftLockReported'
    BY <1>12 DEF ReleaseFails, Lock!Drop, Lock!Live, ReleaseErrorOf, End, Goto, LeftLockReported, Live, NewOwner, Owners, HolderInv, BodyOwnsLock, Owns, ResultInv
  <2>5. NestedInv'
    BY <1>12 DEF ReleaseFails, Lock!Drop, Lock!Live, ReleaseErrorOf, End, Goto, NestedInv, HeldByCurrentProcess
  <2>6. QED
    BY <2>1, <2>2, <2>3, <2>4, <2>5
<1>13. ASSUME NEW p \in Procs, Crash(p)
      PROVE  IInv'
  <2>1. HolderInv'
    BY <1>13 DEF Crash, Lock!Die, HolderInv, NewOwner, Owners
  <2>2. ResultInv'
    BY <1>13 DEF Crash, Lock!Die, ResultInv
  <2>3. BodyOwnsLock'
    <3>1. \A d \in Calls : pc'[d] \in {"body", "release"} => pc[d] = pc'[d] /\ ProcOf[d] # p
      BY <1>13 DEF Crash
    <3>2. QED
      BY <1>13, <3>1 DEF Crash, Lock!Die, BodyOwnsLock, Owns, NewOwner
  <2>4. LeftLockReported'
    BY <1>13 DEF Crash, Lock!Die, LeftLockReported, Live, NewOwner, Owners, HolderInv, BodyOwnsLock, Owns, ResultInv
  <2>5. NestedInv'
    BY <1>13 DEF Crash, Lock!Die, NestedInv, HeldByCurrentProcess
  <2>6. QED
    BY <2>1, <2>2, <2>3, <2>4, <2>5
<1>14. CASE UNCHANGED vars
  BY <1>14 DEF vars, HolderInv, ResultInv, BodyOwnsLock, LeftLockReported, NestedInv, Owns,
               NewOwner, Live, HeldByCurrentProcess
<1>15. QED
  BY <1>1, <1>2, <1>3, <1>4, <1>5, <1>6, <1>7, <1>8, <1>9, <1>10, <1>11, <1>12,
     <1>13, <1>14 DEF Next, Step

\* The types of FileLock's state hold at every moment.
THEOREM TypeCorrect == Spec => []TypeOK
<1>1. Init => TypeOK
  BY FileLockAssumption DEF Init, TypeOK, Labels, Results
<1>2. QED
  BY <1>1, TypeStep, PTL DEF Spec

\* The inductive invariant holds at every moment.
LEMMA Invariant == Spec => []IInv
<1>1. Init => IInv
  <2>1. Init => TypeOK
    BY FileLockAssumption DEF Init, TypeOK, Labels, Results
  <2>2. QED
    BY <2>1, FileLockAssumption
       DEF Init, IInv, HolderInv, ResultInv, BodyOwnsLock, LeftLockReported, NestedInv
<1>2. QED
  BY <1>1, InvStep, PTL DEF Spec

\* The body of runExclusive runs under a lock file that names its own call, from
\* the end of acquire to the release: bodies exclude each other.
THEOREM BodyOwnsLockHolds == Spec => []BodyOwnsLock
<1>1. IInv => BodyOwnsLock
  BY DEF IInv
<1>2. QED
  BY <1>1, Invariant, PTL

\* A call that has ended leaves no lock of a live process behind without having
\* said so, in the error of its release or of its acquire.
THEOREM LeftLockReportedHolds == Spec => []LeftLockReported
<1>1. IInv => LeftLockReported
  BY DEF IInv
<1>2. QED
  BY <1>1, Invariant, PTL

\* A call made in the body of another one is refused as reentrant: it neither gets
\* the lock nor waits for its own process.
THEOREM NestedCallRefusedHolds == Spec => []NestedCallRefused
<1>1. IInv => NestedCallRefused
  BY DEF IInv, NestedInv, NestedCallRefused
<1>2. QED
  BY <1>1, Invariant, PTL
===============================================================================
