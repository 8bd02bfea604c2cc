--------------------------- MODULE FlowOutboxProofs ---------------------------
(***************************************************************************)
(* Proofs about FlowOutbox for any number of processes, recovery keys,     *)
(* messages and Activities. The inductive invariant says that outcomes     *)
(* belong to Attempts that are over, that an Attempt has one checkpoint,   *)
(* and that an outcome prepared on the present revision goes to the attempt*)
(* that was claimed: whatever another process publishes in between makes   *)
(* it a later revision. For recovery it says that the last receipt of an   *)
(* attempt names the key of its last reopening as long as the status can be*)
(* read (a begin that would drop the receipt is bound to a later Attempt,  *)
(* and makes the status unreadable), and that what the holder of the lock  *)
(* has checked stays true until it publishes its reopening.                *)
(***************************************************************************)
EXTENDS FlowOutbox, WellFoundedInduction, TLAPS

Opened(n) == \E j \in OfOutbox : ledger[j].op \in Openings /\ ledger[j].attempt = n

\* An entry that is outstanding has Activities, and its every attempt was opened.
OpenedInv ==
  /\ open => OfOutbox # {}
  /\ \A i \in OfOutbox : Opened(ledger[i].attempt)

\* An Attempt of the step with an outcome is over.
OutcomeInv ==
  \A i \in DOMAIN ledger : IsOutcome(i) =>
    /\ ledger[i].step <= step
    /\ ledger[i].step = step => stepState # "running"

\* An Attempt of the step has one checkpoint, and a later Attempt has none yet.
CheckpointInv ==
  /\ \A i \in DOMAIN ledger : ledger[i].op = "checkpoint" => ledger[i].step <= step
  /\ \A i, j \in DOMAIN ledger :
       (/\ ledger[i].op = "checkpoint" /\ ledger[j].op = "checkpoint"
        /\ ledger[i].step = ledger[j].step) => i = j

\* An opening is bound to an Attempt that there has been, and a reopening to one
\* before the present.
OpeningInv ==
  \A i \in DOMAIN ledger :
    /\ ledger[i].op \in Openings => ledger[i].step <= CurrentAttempt
    /\ ledger[i].op = "reopen" => ledger[i].step < step

LastReopening(j, i) ==
  /\ ledger[j].op = "reopen" /\ ledger[j].attempt = ledger[i].attempt /\ j <= i
  /\ ~\E m \in DOMAIN ledger : RecoveredAgain(j, m) /\ m <= i

\* As long as the status can be read, every Activity of an attempt behind a reopening
\* has the receipt of the last one.
ReceiptInv ==
  ~Unreadable =>
    \A i \in OfOutbox, j \in DOMAIN ledger :
      LastReopening(j, i) => ledger[i].receipt = {ledger[j].key}

\* What the state of the flow alone satisfies.
LedgerInv ==
  /\ OpenedInv
  /\ OutcomeInv
  /\ CheckpointInv
  /\ OneOutcomePerAttempt
  /\ OutcomeMatchesClaim
  /\ OpeningInv
  /\ ReceiptInv
  /\ RecoveryOnce

\* What a process remembers when it publishes a begin or a reopening is an attempt
\* and an Attempt that there are.
MemInv ==
  \A p \in Procs :
    /\ pc[p] \in {"session", "begin", "check", "reopen"} => mem[p].attempt # 0
    /\ pc[p] \in {"begin", "reopen"} => mem[p].bind # 0

\* An outcome that is prepared on the present revision goes to an outstanding entry,
\* in the attempt that was claimed.
CommitInv ==
  \A p \in Procs : pc[p] = "commit" =>
    /\ mem[p].rev <= Len(ledger)
    /\ mem[p].rev = Len(ledger) => open /\ ClaimedAttempt = mem[p].attempt

\* A process that is about to reopen has a key that is not that of the last reopening
\* of the attempt, and a key at all if there is one.
ReopenInv ==
  \A p \in Procs : pc[p] = "reopen" =>
    /\ mem[p].bind <= CurrentAttempt
    /\ \A i \in DOMAIN ledger :
         ledger[i].op = "reopen" /\ ledger[i].attempt = mem[p].attempt =>
           /\ mem[p].key # None
           /\ ledger[i].key = mem[p].key => \E m \in DOMAIN ledger : RecoveredAgain(i, m)

IInv ==
  /\ OutboxTypeOK
  /\ LedgerInv
  /\ MemInv
  /\ CommitInv
  /\ ReopenInv

-----------------------------------------------------------------------------
(* The first and the last of some places of a ledger.                      *)

\* A set of numbers that is not empty has a least one.
LEMMA MinExists ==
  ASSUME NEW S, S \subseteq Nat, S # {}
  PROVE  Min(S) \in S /\ \A y \in S : Min(S) <= y
<1> DEFINE R == {ss \in Nat \X Nat : ss[1] < ss[2]}
<1>1. IsWellFoundedOn(R, Nat)
  BY NatLessThanWellFounded, Zenon DEF OpToRel
<1>2. PICK x \in S : \A y \in S : ~(<<y, x>> \in R)
  BY <1>1, WFMin
<1>3. \A y \in S : <<y, x>> \in R <=> y < x
  OBVIOUS
<1>4. \A y \in S : ~(y < x)
  BY <1>2, <1>3, Zenon
<1>5. \A y \in S : x =< y
  BY <1>4
<1>6. QED
  BY <1>5 DEF Min

\* A set of numbers that is not empty and is bounded has a greatest one.
LEMMA MaxExists ==
  ASSUME NEW n \in Nat, NEW S, S \subseteq 1 .. n, S # {}
  PROVE  Max(S) \in S /\ \A y \in S : y <= Max(S)
<1> DEFINE T == {n - x : x \in S}
<1>1. T \subseteq Nat /\ T # {}
  <2>1. \A x \in S : n - x \in Nat
    OBVIOUS
  <2>2. PICK x : x \in S
    OBVIOUS
  <2>3. QED
    BY <2>1, <2>2
<1>2. Min(T) \in T /\ \A t \in T : Min(T) <= t
  BY <1>1, MinExists
<1>3. PICK x \in S : Min(T) = n - x
  BY <1>2
<1>4. \A y \in S : x >= y
  <2>1. SUFFICES ASSUME NEW y \in S
                 PROVE  x >= y
    OBVIOUS
  <2>2. n - y \in T
    OBVIOUS
  <2>3. n - x <= n - y
    BY <1>2, <1>3, <2>2
  <2>4. QED
    BY <2>3
<1>5. QED
  BY <1>4 DEF Max

-----------------------------------------------------------------------------
(* The status of the entry and the saved checkpoint.                       *)

\* The places of a ledger hold Activities.
LEMMA Places ==
  ASSUME OutboxTypeOK
  PROVE  /\ Len(ledger) \in Nat
         /\ DOMAIN ledger = 1 .. Len(ledger)
         /\ \A i \in DOMAIN ledger : ledger[i] \in Activities
  BY DEF OutboxTypeOK

\* The last Activity of an entry that has Activities.
LEMMA LastPlace ==
  ASSUME OutboxTypeOK, OfOutbox # {}
  PROVE  Max(OfOutbox) \in OfOutbox /\ \A i \in OfOutbox : i <= Max(OfOutbox)
<1>1. OfOutbox \subseteq 1 .. Len(ledger) /\ Len(ledger) \in Nat
  BY Places DEF OfOutbox
<1>2. QED
  BY <1>1, MaxExists

\* The status of an entry that has Activities is that of the last Activity of one of
\* its attempts, bound to the Attempt that the attempt was opened in.
LEMMA StatusSource ==
  ASSUME OutboxTypeOK, OpenedInv, OfOutbox # {}
  PROVE  /\ \E i \in OfOutbox :
              /\ outboxStatus.attempt = ledger[i].attempt
              /\ outboxStatus.key = ledger[i].key
              /\ outboxStatus.failure = ledger[i].failure
              /\ outboxStatus.receipt = ledger[i].receipt
              /\ \A j \in OfOutbox : ledger[j].attempt = ledger[i].attempt => j <= i
         /\ \E i \in OfOutbox : /\ ledger[i].op \in Openings
                                /\ outboxStatus.bind = ledger[i].step
<1>p. /\ Len(ledger) \in Nat
      /\ DOMAIN ledger = 1 .. Len(ledger)
      /\ \A i \in DOMAIN ledger : ledger[i] \in Activities
  BY Places
<1> DEFINE F == {i \in OfOutbox : FirstOfGroup(i)}
           n == LatestAttempt
<1>1. OfOutbox \subseteq 1 .. Len(ledger) /\ OfOutbox \subseteq Nat
  BY <1>p DEF OfOutbox
<1>2. Min(OfOutbox) \in F
  <2>1. Min(OfOutbox) \in OfOutbox /\ \A y \in OfOutbox : Min(OfOutbox) <= y
    BY <1>1, MinExists
  <2>2. FirstOfGroup(Min(OfOutbox))
    <3>1. ASSUME NEW x \in Nat, \A y \in OfOutbox : x <= y
          PROVE  \A y \in OfOutbox : ~(y < x)
      BY <1>1, <3>1
    <3>2. \A y \in OfOutbox : ~(y < Min(OfOutbox))
      BY <1>1, <2>1, <3>1, Zenon
    <3>3. QED
      BY <3>2, Zenon DEF FirstOfGroup
  <2>3. QED
    BY <2>1, <2>2
<1>3. Max(F) \in F
  <2>1. F \subseteq 1 .. Len(ledger) /\ F # {}
    BY <1>1, <1>2
  <2> HIDE DEF F
  <2>2. QED
    BY <1>p, <2>1, MaxExists
<1>4. Max(F) \in OfOutbox /\ n = ledger[Max(F)].attempt
  BY <1>3 DEF LatestAttempt
<1> HIDE DEF F
<1>5. Max(Group(n)) \in Group(n) /\ \A j \in Group(n) : j <= Max(Group(n))
  <2>1. Group(n) \subseteq 1 .. Len(ledger) /\ Group(n) # {}
    BY <1>1, <1>4 DEF Group
  <2>2. QED
    BY <1>p, <2>1, MaxExists
<1>6. Min(Started(n)) \in Started(n)
  <2>1. Started(n) \subseteq Nat
    BY <1>1 DEF Group, Started
  <2>2. Started(n) # {}
    BY <1>4 DEF OpenedInv, Opened, Started, Group
  <2>3. QED
    BY <2>1, <2>2, MinExists
<1>7. /\ outboxStatus.attempt = n
      /\ outboxStatus.bind = ledger[Min(Started(n))].step
      /\ outboxStatus.key = ledger[Max(Group(n))].key
      /\ outboxStatus.failure = ledger[Max(Group(n))].failure
      /\ outboxStatus.receipt = ledger[Max(Group(n))].receipt
  BY DEF outboxStatus
<1>8. /\ Max(Group(n)) \in OfOutbox /\ ledger[Max(Group(n))].attempt = n
      /\ \A j \in OfOutbox : ledger[j].attempt = n => j <= Max(Group(n))
  BY <1>5 DEF Group
<1>9. Min(Started(n)) \in OfOutbox /\ ledger[Min(Started(n))].op \in Openings
  BY <1>6 DEF Started, Group
<1> HIDE DEF n
<1>10. QED
  BY <1>7, <1>8, <1>9

\* So it names an attempt and an Attempt that there are.
LEMMA StatusTypes ==
  ASSUME OutboxTypeOK, OpenedInv
  PROVE  /\ outboxStatus.attempt \in Nat
         /\ outboxStatus.bind \in Nat
         /\ outboxStatus.key \in Keys \cup {None}
         /\ outboxStatus.failure \in Messages \cup {None}
         /\ outboxStatus.status = "failed" => OfOutbox # {}
         /\ OfOutbox # {} => /\ outboxStatus.attempt # 0
                             /\ outboxStatus.bind # 0
                             /\ LastOfOutbox \in Activities
<1>1. CASE OfOutbox = {}
  BY <1>1 DEF outboxStatus
<1>2. CASE OfOutbox # {}
  <2>1. \A i \in OfOutbox : ledger[i] \in Activities
    BY Places DEF OfOutbox
  <2>2. PICK i \in OfOutbox : /\ outboxStatus.attempt = ledger[i].attempt
                             /\ outboxStatus.key = ledger[i].key
                             /\ outboxStatus.failure = ledger[i].failure
    BY <1>2, StatusSource
  <2>3. PICK j \in OfOutbox : outboxStatus.bind = ledger[j].step
    BY <1>2, StatusSource
  <2>4. /\ ledger[i].attempt \in Nat \ {0} /\ ledger[j].step \in Nat \ {0}
        /\ ledger[i].key \in Keys \cup {None} /\ ledger[i].failure \in Messages \cup {None}
    BY <2>1 DEF Activities
  <2>5. LastOfOutbox \in Activities
    BY <1>2, <2>1, LastPlace DEF LastOfOutbox
  <2>6. QED
    BY <1>2, <2>2, <2>3, <2>4, <2>5
<1>3. QED
  BY <1>1, <1>2

\* The saved checkpoint names an attempt.
LEMMA SavedTyped ==
  ASSUME OutboxTypeOK, Saved # {}
  PROVE  SavedAttempt \in Nat
<1>1. Saved \subseteq 1 .. Len(ledger) /\ Len(ledger) \in Nat
  BY Places DEF Saved
<1>2. Max(Saved) \in Saved
  BY <1>1, MaxExists
<1>3. ledger[Max(Saved)] \in Activities
  BY <1>2, Places DEF Saved
<1>4. QED
  BY <1>3 DEF SavedAttempt, Activities

\* The saved checkpoint is the only one of its Attempt.
LEMMA SavedIsOne ==
  ASSUME OutboxTypeOK, CheckpointInv
  PROVE  \A i \in Saved : ledger[i].attempt = SavedAttempt
<1> SUFFICES ASSUME NEW i \in Saved
             PROVE  ledger[i].attempt = SavedAttempt
  OBVIOUS
<1>1. Saved \subseteq 1 .. Len(ledger) /\ Saved # {} /\ Len(ledger) \in Nat
  BY Places DEF Saved
<1>2. Max(Saved) \in Saved
  BY <1>1, MaxExists
<1>3. Max(Saved) = i
  BY <1>2 DEF CheckpointInv, Saved
<1>4. QED
  BY <1>3 DEF SavedAttempt

-----------------------------------------------------------------------------
(* What the processes remember.                                            *)

Memories == [attempt : Nat, bind : Nat, outcome : Outcomes, key : Keys \cup {None},
             failure : Messages \cup {None}, rev : Nat]

ProcInv ==
  /\ pc \in [Procs -> Labels]
  /\ mem \in [Procs -> Memories]
  /\ \A p \in Procs : lock = p <=> pc[p] \in LockedLabels
  /\ MemInv

\* A process that ends forgets what it knows and has no lock.
LEMMA EndProc ==
  ASSUME ProcInv, NEW p \in Procs, End(p)
  PROVE  ProcInv'
<1>1. NoMem \in Memories
  BY DEF NoMem, Memories, Outcomes
<1>2. "idle" \in Labels /\ "idle" \notin LockedLabels
  BY DEF Labels, LockedLabels
<1>3. (\A q \in Procs : lock = q <=> pc[q] \in LockedLabels)'
  BY <1>2, OutboxAssumption DEF ProcInv, End, Goto
<1>4. MemInv'
  BY DEF ProcInv, MemInv, End, Goto, Remember
<1>5. QED
  BY <1>1, <1>2, <1>3, <1>4 DEF ProcInv, End, Goto, Remember

\* A process that goes on keeps the lock that it has, or none.
LEMMA GoProc ==
  ASSUME ProcInv, NEW p \in Procs,
         NEW label \in Labels, label \in LockedLabels <=> pc[p] \in LockedLabels,
         NEW m \in Memories,
         label \in {"session", "begin", "check", "reopen"} => m.attempt # 0,
         label \in {"begin", "reopen"} => m.bind # 0,
         Goto(p, label), Remember(p, m), UNCHANGED lock
  PROVE  ProcInv'
<1>1. (\A q \in Procs : lock = q <=> pc[q] \in LockedLabels)'
  BY DEF ProcInv, Goto
<1>2. MemInv'
  BY DEF ProcInv, MemInv, Goto, Remember
<1>3. QED
  BY <1>1, <1>2 DEF ProcInv, Goto, Remember

\* Going on or ending, whatever the condition.
LEMMA ContinueProc ==
  ASSUME ProcInv, NEW p \in Procs, NEW c,
         NEW label \in Labels, label \in LockedLabels <=> pc[p] \in LockedLabels,
         NEW m, c => m \in Memories,
         c /\ label \in {"session", "begin", "check", "reopen"} => m.attempt # 0,
         c /\ label \in {"begin", "reopen"} => m.bind # 0,
         Continue(p, c, label, m)
  PROVE  ProcInv'
<1>1. CASE c
  BY <1>1, GoProc DEF Continue
<1>2. CASE ~c
  BY <1>2, EndProc DEF Continue
<1>3. QED
  BY <1>1, <1>2

\* Every step keeps the types of the processes and what they remember.
LEMMA ProcStep ==
  IInv /\ [Next]_vars => ProcInv'
<1> SUFFICES ASSUME IInv, [Next]_vars
             PROVE  ProcInv'
  OBVIOUS
<1>s. /\ outboxStatus.attempt \in Nat
      /\ outboxStatus.bind \in Nat
      /\ outboxStatus.key \in Keys \cup {None}
      /\ outboxStatus.failure \in Messages \cup {None}
      /\ outboxStatus.status = "failed" =>
           outboxStatus.attempt # 0 /\ outboxStatus.bind # 0
  BY StatusTypes DEF IInv, LedgerInv
<1>l. Len(ledger) \in Nat /\ CurrentAttempt \in Nat \ {0} /\ step \in Nat
  BY Places DEF IInv, OutboxTypeOK, CurrentAttempt
<1>p. ProcInv
  BY DEF IInv, OutboxTypeOK, ProcInv, Memories
<1>m. NoMem \in Memories /\ \A p \in Procs : mem[p] \in Memories
  BY <1>p DEF ProcInv, NoMem, Memories, Outcomes
<1>r. ASSUME NEW p \in Procs, UNCHANGED mem
      PROVE  Remember(p, mem[p])
  BY <1>r, <1>p DEF Remember, ProcInv
<1>g. Labels = {"idle", "acquire", "beginCommand", "beginOutbox", "session", "begin", "prepare",
                "checkpoint", "effect", "settle", "claim", "publication", "commit", "select",
                "check", "reopen", "recovered"}
  BY DEF Labels, RunLabels, LockedLabels
<1>1. ASSUME NEW p \in Procs, StartRun(p)
      PROVE  ProcInv'
  <2>1. PICK label \in {"prepare", "beginCommand"} : Goto(p, label)
    BY <1>1 DEF StartRun
  <2>2. Remember(p, mem[p]) /\ UNCHANGED lock
    BY <1>1, <1>r DEF StartRun
  <2>3. pc[p] \notin LockedLabels
    BY <1>1 DEF StartRun, LockedLabels
  <2>4. QED
    BY <1>p, <1>m, <1>g, <2>1, <2>2, <2>3, GoProc DEF LockedLabels
<1>2. ASSUME NEW p \in Procs, BeginCommand(p)
      PROVE  ProcInv'
  <2>1. pc[p] \notin LockedLabels
    BY <1>2 DEF BeginCommand, LockedLabels
  <2>2. "beginOutbox" \in Labels /\ "beginOutbox" \notin LockedLabels
    BY <1>g DEF LockedLabels
  <2>3. QED
    BY <1>2, <1>p, <1>m, <2>1, <2>2, ContinueProc DEF BeginCommand
<1>3. ASSUME NEW p \in Procs, BeginOutbox(p)
      PROVE  ProcInv'
  <2> DEFINE m == [NoMem EXCEPT !.attempt = NextAttempt(outboxStatus)]
  <2>1. pc[p] \notin LockedLabels
    BY <1>3 DEF BeginOutbox, LockedLabels
  <2>2. CASE ~Unreadable /\ outboxStatus.status = "pending"
    <3>1. Goto(p, "prepare") /\ Remember(p, mem[p]) /\ UNCHANGED lock
      BY <1>3, <1>r, <2>2 DEF BeginOutbox
    <3>2. QED
      BY <1>p, <1>m, <1>g, <2>1, <3>1, GoProc DEF LockedLabels
  <2>3. CASE ~(~Unreadable /\ outboxStatus.status = "pending")
    <3>1. m \in Memories /\ m.attempt # 0
      BY <1>s, <1>m DEF NextAttempt, Memories, NoMem
    <3>2. \E c : Continue(p, c, "session", m)
      BY <1>3, <2>3 DEF BeginOutbox
    <3> HIDE DEF m
    <3>3. QED
      BY <1>p, <1>g, <2>1, <3>1, <3>2, ContinueProc DEF LockedLabels
  <2>4. QED
    BY <2>2, <2>3
<1>4. ASSUME NEW p \in Procs, PrepareSession(p)
      PROVE  ProcInv'
  <2> DEFINE m == [mem[p] EXCEPT !.bind = CurrentAttempt]
  <2>1. pc[p] \notin LockedLabels /\ mem[p].attempt # 0
    BY <1>4, <1>p DEF PrepareSession, LockedLabels, ProcInv, MemInv
  <2>2. m \in Memories /\ m.attempt # 0 /\ m.bind # 0
    BY <1>l, <1>m, <2>1 DEF Memories
  <2>3. Goto(p, "begin") /\ Remember(p, m) /\ UNCHANGED lock
    BY <1>4 DEF PrepareSession
  <2> HIDE DEF m
  <2>4. QED
    BY <1>p, <1>g, <2>1, <2>2, <2>3, GoProc DEF LockedLabels
<1>5. ASSUME NEW p \in Procs, ApplyBegin(p)
      PROVE  ProcInv'
  <2>1. pc[p] \notin LockedLabels
    BY <1>5 DEF ApplyBegin, LockedLabels
  <2>2. CASE mem[p].bind = CurrentAttempt
    <3>1. Goto(p, "prepare") /\ Remember(p, NoMem) /\ UNCHANGED lock
      BY <1>5, <2>2 DEF ApplyBegin
    <3>2. QED
      BY <1>p, <1>m, <1>g, <2>1, <3>1, GoProc DEF LockedLabels
  <2>3. CASE mem[p].bind # CurrentAttempt
    BY <1>5, <1>p, <2>3, EndProc DEF ApplyBegin
  <2>4. QED
    BY <2>2, <2>3
<1>6. ASSUME NEW p \in Procs, PrepareExecution(p)
      PROVE  ProcInv'
  <2> DEFINE m == [NoMem EXCEPT !.attempt = outboxStatus.attempt, !.bind = step]
  <2>1. pc[p] \notin LockedLabels
    BY <1>6 DEF PrepareExecution, LockedLabels
  <2>2. m \in Memories
    BY <1>s, <1>l, <1>m DEF Memories, NoMem
  <2>3. PICK label \in {"checkpoint", "effect"} : \E c : Continue(p, c, label, m)
    BY <1>6 DEF PrepareExecution
  <2> HIDE DEF m
  <2>4. QED
    BY <1>p, <1>g, <2>1, <2>2, <2>3, ContinueProc DEF LockedLabels
<1>7. ASSUME NEW p \in Procs, Checkpoint(p)
      PROVE  ProcInv'
  <2>1. pc[p] \notin LockedLabels
    BY <1>7 DEF Checkpoint, LockedLabels
  <2>2. CASE Admitted(mem[p].bind, mem[p].attempt) /\ ClaimHolds(mem[p].attempt)
    <3>1. Goto(p, "effect") /\ Remember(p, mem[p]) /\ UNCHANGED lock
      BY <1>7, <1>r, <2>2 DEF Checkpoint
    <3>2. QED
      BY <1>p, <1>m, <1>g, <2>1, <3>1, GoProc DEF LockedLabels
  <2>3. CASE ~(Admitted(mem[p].bind, mem[p].attempt) /\ ClaimHolds(mem[p].attempt))
    BY <1>7, <1>p, <2>3, EndProc DEF Checkpoint
  <2>4. QED
    BY <2>2, <2>3
<1>8. ASSUME NEW p \in Procs, Effect(p)
      PROVE  ProcInv'
  <2>1. pc[p] \notin LockedLabels
    BY <1>8 DEF Effect, LockedLabels
  <2>2. PICK o \in Outcomes, k \in Keys \cup {None}, f \in Messages \cup {None} :
          \E c : Continue(p, c, "settle", [NoMem EXCEPT !.outcome = o, !.key = k, !.failure = f])
    BY <1>8 DEF Effect
  <2>3. [NoMem EXCEPT !.outcome = o, !.key = k, !.failure = f] \in Memories
    BY <1>m DEF Memories, NoMem
  <2>4. QED
    BY <1>p, <1>g, <2>1, <2>2, <2>3, ContinueProc DEF LockedLabels
<1>9. ASSUME NEW p \in Procs, PrepareSettlement(p)
      PROVE  ProcInv'
  <2> DEFINE m == [mem[p] EXCEPT !.bind = step, !.rev = Len(ledger)]
  <2>1. pc[p] \notin LockedLabels
    BY <1>9 DEF PrepareSettlement, LockedLabels
  <2>2. m \in Memories
    BY <1>l, <1>m DEF Memories
  <2>3. \E c : Continue(p, c, "commit", m)
    BY <1>9 DEF PrepareSettlement
  <2> HIDE DEF m
  <2>4. QED
    BY <1>p, <1>g, <2>1, <2>2, <2>3, ContinueProc DEF LockedLabels
<1>9a. ASSUME NEW p \in Procs, ReadSaved(p)
      PROVE  ProcInv'
  <2> DEFINE saved == stepState = "running" /\ Saved # {}
             m == [mem[p] EXCEPT !.attempt = IF saved THEN SavedAttempt ELSE 0,
                                 !.bind = IF saved THEN step ELSE 0]
  <2>1. pc[p] \notin LockedLabels
    BY <1>9a DEF ReadSaved, LockedLabels
  <2>2. Saved # {} => SavedAttempt \in Nat
    BY SavedTyped DEF IInv
  <2>3. m \in Memories
    BY <1>l, <1>m, <2>2 DEF Memories
  <2>4. \E c : Continue(p, c, "claim", m)
    BY <1>9a DEF ReadSaved
  <2> HIDE DEF m
  <2>5. QED
    BY <1>p, <1>g, <2>1, <2>3, <2>4, ContinueProc DEF LockedLabels
<1>9b. ASSUME NEW p \in Procs, ReadClaim(p)
      PROVE  ProcInv'
  <2> DEFINE m == [mem[p] EXCEPT !.attempt = outboxStatus.attempt]
  <2>1. pc[p] \notin LockedLabels
    BY <1>9b DEF ReadClaim, LockedLabels
  <2>2. m \in Memories
    BY <1>s, <1>m DEF Memories
  <2>3. \E c : Continue(p, c, "publication", m)
    BY <1>9b DEF ReadClaim
  <2> HIDE DEF m
  <2>4. QED
    BY <1>p, <1>g, <2>1, <2>2, <2>3, ContinueProc DEF LockedLabels
<1>10. ASSUME NEW p \in Procs, CommitSettlement(p)
      PROVE  ProcInv'
  BY <1>10, <1>p, EndProc DEF CommitSettlement, Settle
<1>11. ASSUME NEW p \in Procs, PlanRecovery(p)
      PROVE  ProcInv'
  <2>1. pc[p] \notin LockedLabels
    BY <1>11 DEF PlanRecovery, LockedLabels
  <2>2. Goto(p, "acquire") /\ Remember(p, mem[p]) /\ UNCHANGED lock
    BY <1>11, <1>r DEF PlanRecovery
  <2>3. QED
    BY <1>p, <1>m, <1>g, <2>1, <2>2, GoProc DEF LockedLabels
<1>12. ASSUME NEW p \in Procs, AcquireOperation(p)
      PROVE  ProcInv'
  <2>1. CASE lock = None
    <3>1. lock' = p /\ Goto(p, "select") /\ UNCHANGED mem
      BY <1>12, <2>1 DEF AcquireOperation
    <3>2. \A q \in Procs : pc[q] \notin LockedLabels
      BY <1>p, <2>1, OutboxAssumption DEF ProcInv
    <3>3. (\A q \in Procs : lock = q <=> pc[q] \in LockedLabels)'
      BY <1>p, <3>1, <3>2 DEF ProcInv, Goto, LockedLabels
    <3>4. pc' \in [Procs -> Labels] /\ MemInv'
      BY <1>p, <1>g, <3>1 DEF ProcInv, MemInv, Goto
    <3>5. QED
      BY <1>p, <3>1, <3>3, <3>4 DEF ProcInv
  <2>2. CASE lock # None
    BY <1>12, <1>p, <2>2, EndProc DEF AcquireOperation
  <2>3. QED
    BY <2>1, <2>2
<1>13. ASSUME NEW p \in Procs, SelectRecovery(p)
      PROVE  ProcInv'
  <2> DEFINE c == stepState # "left" /\ Recoverable
             m == [NoMem EXCEPT !.attempt = outboxStatus.attempt, !.key = outboxStatus.key,
                                !.failure = outboxStatus.failure]
  <2>1. pc[p] \in LockedLabels
    BY <1>13 DEF SelectRecovery, LockedLabels
  <2>2. m \in Memories /\ (c => m.attempt # 0)
    BY <1>s, <1>m DEF Memories, NoMem, Recoverable
  <2>3. Continue(p, c, "check", m)
    BY <1>13 DEF SelectRecovery
  <2> HIDE DEF c, m
  <2>4. QED
    BY <1>p, <1>g, <2>1, <2>2, <2>3, ContinueProc DEF LockedLabels
<1>14. ASSUME NEW p \in Procs, CheckReopen(p)
      PROVE  ProcInv'
  <2> DEFINE m == [mem[p] EXCEPT !.bind = outboxStatus.bind]
  <2>1. pc[p] \in LockedLabels /\ mem[p].attempt # 0
    BY <1>14, <1>p DEF CheckReopen, LockedLabels, ProcInv, MemInv
  <2>2. m \in Memories /\ m.attempt # 0
    BY <1>s, <1>m, <2>1 DEF Memories
  <2>3. PICK c : Continue(p, c, "reopen", m) /\ (c => outboxStatus.status = "failed")
    BY <1>14 DEF CheckReopen
  <2>4. c => m.bind # 0
    BY <1>s, <1>m, <2>3 DEF Memories
  <2> HIDE DEF m
  <2>5. QED
    BY <1>p, <1>g, <2>1, <2>2, <2>3, <2>4, ContinueProc DEF LockedLabels
<1>15. ASSUME NEW p \in Procs, ApplyReopen(p)
      PROVE  ProcInv'
  <2>1. pc[p] \in LockedLabels
    BY <1>15 DEF ApplyReopen, LockedLabels
  <2>2. CASE UnusedActivityId(p) /\ SourceFailed(p)
    <3>1. Goto(p, "recovered") /\ Remember(p, mem[p]) /\ UNCHANGED lock
      BY <1>15, <1>r, <2>2 DEF ApplyReopen
    <3>2. QED
      BY <1>p, <1>m, <1>g, <2>1, <3>1, GoProc DEF LockedLabels
  <2>3. CASE ~(UnusedActivityId(p) /\ SourceFailed(p))
    BY <1>15, <1>p, <2>3, EndProc DEF ApplyReopen
  <2>4. QED
    BY <2>2, <2>3
<1>16. ASSUME NEW p \in Procs, FinishRecovery(p)
      PROVE  ProcInv'
  BY <1>16, <1>p, EndProc DEF FinishRecovery
<1>17. ASSUME NEW p \in Procs, Crash(p)
      PROVE  ProcInv'
  BY <1>17, <1>p, EndProc DEF Crash
<1>18. CASE UNCHANGED vars
  BY <1>18, <1>p DEF vars, ProcInv, MemInv
<1>19. QED
  BY <1>1, <1>2, <1>3, <1>4, <1>5, <1>6, <1>7, <1>8, <1>9, <1>9a, <1>9b, <1>10, <1>11, <1>12,
     <1>13, <1>14, <1>15, <1>16, <1>17, <1>18 DEF Next, Run, Recover

-----------------------------------------------------------------------------
(* What a publication adds to the ledger.                                  *)

FlowInv ==
  /\ ledger \in Seq(Activities)
  /\ open \in BOOLEAN
  /\ step \in Nat \ {0}
  /\ stepState \in {"running", "failed", "left"}
  /\ LedgerInv

\* A publication adds one Activity behind the others.
LEMMA Appended ==
  ASSUME OutboxTypeOK, NEW a \in Activities, ledger' = Append(ledger, a)
  PROVE  /\ ledger' \in Seq(Activities)
         /\ Len(ledger') = Len(ledger) + 1
         /\ DOMAIN ledger' = (DOMAIN ledger) \cup {Len(ledger')}
         /\ Len(ledger') \notin DOMAIN ledger
         /\ \A i \in DOMAIN ledger : ledger'[i] = ledger[i]
         /\ ledger'[Len(ledger')] = a
  BY DEF OutboxTypeOK

\* The attempts of the entry stay opened when the new Activity opens its attempt,
\* or concerns an attempt that is there, or is not one of the entry.
LEMMA OpenedAppended ==
  ASSUME OutboxTypeOK, OpenedInv, NEW a \in Activities, ledger' = Append(ledger, a),
         a.op # "checkpoint" =>
           (a.op \in Openings \/ \E i \in OfOutbox : ledger[i].attempt = a.attempt)
  PROVE  /\ (\A i \in OfOutbox : Opened(ledger[i].attempt))'
         /\ OfOutbox \subseteq OfOutbox'
<1> DEFINE n == Len(ledger')
<1>1. /\ DOMAIN ledger' = (DOMAIN ledger) \cup {n}
      /\ n \notin DOMAIN ledger
      /\ \A i \in DOMAIN ledger : ledger'[i] = ledger[i]
      /\ ledger'[n] = a
  BY Appended
<1> HIDE DEF n
<1>2. OfOutbox \subseteq OfOutbox'
  BY <1>1 DEF OfOutbox
<1>3. \A i \in OfOutbox : i \in DOMAIN ledger /\ ledger'[i] = ledger[i]
  BY <1>1 DEF OfOutbox
<1>4. ASSUME NEW i \in OfOutbox
      PROVE  \E j \in OfOutbox' : ledger'[j].op \in Openings /\ ledger'[j].attempt = ledger'[i].attempt
  <2>1. PICK j \in OfOutbox : ledger[j].op \in Openings /\ ledger[j].attempt = ledger[i].attempt
    BY <1>4 DEF OpenedInv, Opened
  <2>2. ledger'[j] = ledger[j] /\ ledger'[i] = ledger[i]
    BY <1>3
  <2>3. QED
    BY <1>2, <2>1, <2>2
<1>5. ASSUME n \in OfOutbox'
      PROVE  \E j \in OfOutbox' : ledger'[j].op \in Openings /\ ledger'[j].attempt = ledger'[n].attempt
  <2>1. a.op # "checkpoint"
    BY <1>1, <1>5 DEF OfOutbox
  <2>2. CASE a.op \in Openings
    BY <1>1, <1>5, <2>2
  <2>3. CASE \E i \in OfOutbox : ledger[i].attempt = a.attempt
    BY <1>1, <1>3, <1>4, <2>3
  <2>4. QED
    BY <2>1, <2>2, <2>3
<1>6. \A i \in OfOutbox' : i \in OfOutbox \/ i = n
  BY <1>1 DEF OfOutbox
<1>7. QED
  BY <1>2, <1>4, <1>5, <1>6 DEF Opened

\* What is said of recoveries stays said of the Activities there are.
LEMMA RecoveriesAppended ==
  ASSUME OutboxTypeOK, NEW a \in Activities, ledger' = Append(ledger, a),
         NEW n, n = Len(ledger')
  PROVE  /\ Unreadable => Unreadable'
         /\ \A i, j \in DOMAIN ledger : RecoveredAgain(i, j)' <=> RecoveredAgain(i, j)
         /\ \A i \in DOMAIN ledger :
              RecoveredAgain(i, n)' <=>
                /\ ledger[i].op = "reopen" /\ a.op = "reopen"
                /\ ledger[i].attempt = a.attempt
         /\ \A j \in DOMAIN ledger' : ~RecoveredAgain(n, j)'
<1>1. /\ DOMAIN ledger' = (DOMAIN ledger) \cup {n}
      /\ \A i \in DOMAIN ledger : ledger'[i] = ledger[i]
      /\ ledger'[n] = a
  BY Appended
<1>2. n \in Nat /\ \A i \in DOMAIN ledger : i \in Nat /\ i < n
  BY Appended, Places
<1>3. \A i \in OfOutbox : i \in OfOutbox' /\ ledger'[i] = ledger[i]
  BY <1>1 DEF OfOutbox
<1>4. ASSUME Unreadable
      PROVE  Unreadable'
  <2>1. PICK i \in OfOutbox, j \in OfOutbox :
          /\ ledger[i].op \in Openings /\ ledger[j].op \in Openings
          /\ ledger[i].attempt = ledger[j].attempt
          /\ ledger[i].step # ledger[j].step
    BY <1>4 DEF Unreadable
  <2>2. i \in OfOutbox' /\ j \in OfOutbox' /\ ledger'[i] = ledger[i] /\ ledger'[j] = ledger[j]
    BY <1>3
  <2>3. QED
    BY <2>1, <2>2 DEF Unreadable
<1>5. \A i, j \in DOMAIN ledger : RecoveredAgain(i, j)' <=> RecoveredAgain(i, j)
  BY <1>1 DEF RecoveredAgain
<1>6. \A i \in DOMAIN ledger :
        RecoveredAgain(i, n)' <=> /\ ledger[i].op = "reopen" /\ a.op = "reopen"
                                  /\ ledger[i].attempt = a.attempt
  BY <1>1, <1>2 DEF RecoveredAgain
<1>7. \A j \in DOMAIN ledger' : ~RecoveredAgain(n, j)'
  BY <1>1, <1>2 DEF RecoveredAgain
<1>8. QED
  BY <1>4, <1>5, <1>6, <1>7

\* The receipts stay right when a new Activity behind a reopening, other than a
\* reopening, has its receipt, or makes the status unreadable.
LEMMA ReceiptAppended ==
  ASSUME OutboxTypeOK, ReceiptInv, NEW a \in Activities, ledger' = Append(ledger, a),
         a.op = "reopen" => a.receipt = {a.key},
         a.op \notin {"reopen", "checkpoint"} =>
           \A j \in DOMAIN ledger :
             /\ ledger[j].op = "reopen" /\ ledger[j].attempt = a.attempt
             /\ ~\E m \in DOMAIN ledger : RecoveredAgain(j, m)
             => Unreadable' \/ a.receipt = {ledger[j].key}
  PROVE  ReceiptInv'
<1>n. PICK n : n = Len(ledger')
  OBVIOUS
<1>1. /\ DOMAIN ledger' = (DOMAIN ledger) \cup {n}
      /\ n \notin DOMAIN ledger
      /\ \A i \in DOMAIN ledger : ledger'[i] = ledger[i]
      /\ ledger'[n] = a
  BY <1>n, Appended
<1>2. n \in Nat /\ \A i \in DOMAIN ledger : i \in Nat /\ i < n
  BY <1>n, Appended, Places
<1>r. /\ Unreadable => Unreadable'
      /\ \A i, j \in DOMAIN ledger : RecoveredAgain(i, j)' <=> RecoveredAgain(i, j)
      /\ \A i \in DOMAIN ledger :
           RecoveredAgain(i, n)' <=> /\ ledger[i].op = "reopen" /\ a.op = "reopen"
                                     /\ ledger[i].attempt = a.attempt
  BY <1>n, RecoveriesAppended
<1> SUFFICES ASSUME ~Unreadable', NEW i \in OfOutbox', NEW j \in DOMAIN ledger', LastReopening(j, i)'
             PROVE  ledger'[i].receipt = {ledger'[j].key}
  BY DEF ReceiptInv
<1>3. /\ ledger'[j].op = "reopen" /\ ledger'[j].attempt = ledger'[i].attempt /\ j <= i
      /\ \A m \in DOMAIN ledger' : RecoveredAgain(j, m)' => ~(m <= i)
  BY DEF LastReopening
<1>4. i \in DOMAIN ledger' /\ ledger'[i].op # "checkpoint"
  BY DEF OfOutbox
<1>5. CASE i \in DOMAIN ledger
  <2>1. j \in DOMAIN ledger
    BY <1>1, <1>2, <1>3, <1>5
  <2>2. i \in OfOutbox
    BY <1>1, <1>4, <1>5 DEF OfOutbox
  <2>3. LastReopening(j, i)
    BY <1>1, <1>3, <1>5, <1>r, <2>1 DEF LastReopening
  <2>4. QED
    BY <1>1, <1>5, <1>r, <2>1, <2>2, <2>3 DEF ReceiptInv
<1>6. CASE i = n /\ j = n
  BY <1>1, <1>3, <1>6
<1>7. CASE i = n /\ j \in DOMAIN ledger
  <2>1. a.op # "reopen"
    BY <1>1, <1>2, <1>3, <1>7, <1>r
  <2>2. \A m \in DOMAIN ledger : ~RecoveredAgain(j, m)
    BY <1>1, <1>2, <1>3, <1>7, <1>r
  <2>3. QED
    BY <1>1, <1>3, <1>4, <1>7, <2>1, <2>2
<1>8. QED
  BY <1>1, <1>4, <1>5, <1>6, <1>7

\* Recoveries stay right when the new Activity is none, or is one with a key that is
\* not the last one's, from a failure that is new.
LEMMA RecoveryAppended ==
  ASSUME OutboxTypeOK, RecoveryOnce, NEW a \in Activities, ledger' = Append(ledger, a),
         a.op = "reopen" => \A i \in DOMAIN ledger :
           ledger[i].op = "reopen" /\ ledger[i].attempt = a.attempt =>
             /\ a.key # None
             /\ ledger[i].key = a.key => /\ ledger[i].failure # a.failure
                                         /\ \E m \in DOMAIN ledger : RecoveredAgain(i, m)
  PROVE  RecoveryOnce'
<1>n. PICK n : n = Len(ledger')
  OBVIOUS
<1>1. /\ DOMAIN ledger' = (DOMAIN ledger) \cup {n}
      /\ \A i \in DOMAIN ledger : ledger'[i] = ledger[i]
      /\ ledger'[n] = a
  BY <1>n, Appended
<1>r. /\ \A i, j \in DOMAIN ledger : RecoveredAgain(i, j)' <=> RecoveredAgain(i, j)
      /\ \A i \in DOMAIN ledger :
           RecoveredAgain(i, n)' <=> /\ ledger[i].op = "reopen" /\ a.op = "reopen"
                                     /\ ledger[i].attempt = a.attempt
      /\ \A j \in DOMAIN ledger' : ~RecoveredAgain(n, j)'
  BY <1>n, RecoveriesAppended
<1> SUFFICES ASSUME NEW i \in DOMAIN ledger', NEW j \in DOMAIN ledger', RecoveredAgain(i, j)'
             PROVE  /\ ledger'[j].key # None
                    /\ ledger'[i].key = ledger'[j].key =>
                         /\ ledger'[i].failure # ledger'[j].failure
                         /\ \E m \in DOMAIN ledger' : RecoveredAgain(i, m)' /\ RecoveredAgain(m, j)'
  BY DEF RecoveryOnce
<1>2. i \in DOMAIN ledger
  BY <1>1, <1>r
<1>3. CASE j \in DOMAIN ledger
  <2>1. RecoveredAgain(i, j)
    BY <1>2, <1>3, <1>r
  <2>2. QED
    BY <1>1, <1>2, <1>3, <1>r, <2>1 DEF RecoveryOnce
<1>4. CASE j = n
  <2>1. ledger[i].op = "reopen" /\ a.op = "reopen" /\ ledger[i].attempt = a.attempt
    BY <1>2, <1>4, <1>r
  <2>2. ASSUME ledger[i].key = a.key
        PROVE  \E m \in DOMAIN ledger' : RecoveredAgain(i, m)' /\ RecoveredAgain(m, n)'
    <3>1. PICK m \in DOMAIN ledger : RecoveredAgain(i, m)
      BY <1>2, <2>1, <2>2
    <3>2. ledger[m].op = "reopen" /\ ledger[m].attempt = a.attempt
      BY <2>1, <3>1 DEF RecoveredAgain
    <3>3. QED
      BY <1>1, <1>2, <1>r, <2>1, <3>1, <3>2
  <2>3. QED
    BY <1>1, <1>2, <1>4, <2>1, <2>2
<1>5. QED
  BY <1>1, <1>3, <1>4

\* An opening leaves the outcomes and the checkpoints alone. A begin is bound to the
\* current Attempt; a reopening starts the next one.
LEMMA OpeningPublished ==
  ASSUME OutboxTypeOK, LedgerInv, NEW a \in Activities, ledger' = Append(ledger, a),
         open' = TRUE,
         \/ /\ a.op = "begin" /\ a.step = CurrentAttempt
            /\ UNCHANGED <<step, stepState>>
         \/ /\ a.op = "reopen" /\ a.step <= CurrentAttempt /\ a.receipt = {a.key}
            /\ stepState = "failed" /\ step' = step + 1 /\ stepState' = "running",
         a.op = "reopen" => \A i \in DOMAIN ledger :
           ledger[i].op = "reopen" /\ ledger[i].attempt = a.attempt =>
             /\ a.key # None
             /\ ledger[i].key = a.key => /\ ledger[i].failure # a.failure
                                         /\ \E m \in DOMAIN ledger : RecoveredAgain(i, m)
  PROVE  FlowInv'
<1>n. PICK n : n = Len(ledger')
  OBVIOUS
<1>1. /\ ledger' \in Seq(Activities)
      /\ DOMAIN ledger' = (DOMAIN ledger) \cup {n}
      /\ n \notin DOMAIN ledger
      /\ \A i \in DOMAIN ledger : ledger'[i] = ledger[i]
      /\ ledger'[n] = a
  BY <1>n, Appended
<1>2. \A i \in DOMAIN ledger : ledger[i].step \in Nat
  BY Places DEF Activities
<1>3. a.op \in Openings /\ a.op \notin Outcomes /\ a.op # "checkpoint"
  BY DEF Openings, Outcomes
<1>t. step \in Nat /\ CurrentAttempt \in Nat /\ step <= CurrentAttempt
      /\ CurrentAttempt <= CurrentAttempt' /\ a.step \in Nat
  BY DEF OutboxTypeOK, CurrentAttempt, Activities
<1>4. OpenedInv'
  <2>1. n \in OfOutbox'
    BY <1>1, <1>3 DEF OfOutbox
  <2>2. QED
    BY <1>3, <2>1, OpenedAppended DEF OpenedInv, LedgerInv
<1>5. step' \in Nat \ {0} /\ stepState' \in {"running", "failed", "left"} /\ step <= step'
  BY DEF OutboxTypeOK
<1>6. OutcomeInv'
  BY <1>1, <1>2, <1>3, <1>5 DEF OutcomeInv, LedgerInv, IsOutcome, OutboxTypeOK
<1>7. CheckpointInv'
  BY <1>1, <1>2, <1>3, <1>5 DEF CheckpointInv, LedgerInv, OutboxTypeOK
<1>8. OneOutcomePerAttempt'
  BY <1>1, <1>3 DEF OneOutcomePerAttempt, LedgerInv, IsOutcome
<1>9. OutcomeMatchesClaim'
  BY <1>1, <1>3 DEF OutcomeMatchesClaim, LedgerInv, IsOutcome
<1>10. RecoveryOnce'
  BY RecoveryAppended DEF LedgerInv
<1>11. OpeningInv'
  <2>1. ASSUME NEW i \in DOMAIN ledger
        PROVE  /\ ledger[i].op \in Openings => ledger[i].step <= CurrentAttempt'
               /\ ledger[i].op = "reopen" => ledger[i].step < step'
    <3>1. ledger[i].step \in Nat /\ CurrentAttempt' \in Nat
      <4>1. CurrentAttempt' = step' \/ CurrentAttempt' = step' + 1
        BY DEF CurrentAttempt
      <4>2. QED
        BY <1>2, <1>5, <4>1
    <3>2. QED
      BY <1>5, <1>t, <3>1 DEF OpeningInv, LedgerInv
  <2>2. a.step <= CurrentAttempt' /\ (a.op = "reopen" => a.step < step')
    BY <1>5, <1>t DEF CurrentAttempt
  <2>3. QED
    BY <1>1, <2>1, <2>2 DEF OpeningInv
<1>12. ReceiptInv'
  <2>1. ASSUME a.op # "reopen", NEW j \in DOMAIN ledger,
               ledger[j].op = "reopen", ledger[j].attempt = a.attempt
        PROVE  Unreadable'
    <3>1. a.op = "begin" /\ a.step = CurrentAttempt
      BY <2>1
    <3>2. ledger[j].step # a.step
      BY <1>2, <1>t, <2>1, <3>1 DEF OpeningInv, LedgerInv
    <3>3. j \in OfOutbox' /\ n \in OfOutbox'
      BY <1>1, <1>3, <2>1 DEF OfOutbox
    <3>4. ledger'[j] = ledger[j] /\ ledger'[n] = a /\ "reopen" \in Openings
      BY <1>1 DEF Openings
    <3>5. QED
      BY <1>3, <2>1, <3>2, <3>3, <3>4 DEF Unreadable
  <2>2. QED
    BY <2>1, ReceiptAppended DEF LedgerInv
<1>13. QED
  BY <1>1, <1>4, <1>5, <1>6, <1>7, <1>8, <1>9, <1>10, <1>11, <1>12 DEF FlowInv, LedgerInv

\* A checkpoint is the first of an Attempt that has no outcome.
LEMMA CheckpointPublished ==
  ASSUME OutboxTypeOK, LedgerInv, NEW a \in Activities, ledger' = Append(ledger, a),
         a.op = "checkpoint", a.step = step, Saved = {}, stepState = "running",
         UNCHANGED <<open, step, stepState>>
  PROVE  FlowInv'
<1> DEFINE n == Len(ledger')
<1>1. /\ ledger' \in Seq(Activities)
      /\ DOMAIN ledger' = (DOMAIN ledger) \cup {n}
      /\ n \notin DOMAIN ledger
      /\ \A i \in DOMAIN ledger : ledger'[i] = ledger[i]
      /\ ledger'[n] = a
  BY Appended
<1>2. a.op \notin Outcomes /\ a.op # "reopen"
  BY DEF Outcomes
<1>3. step \in Nat
  BY DEF OutboxTypeOK
<1> HIDE DEF n
<1>4. OpenedInv'
  BY OpenedAppended DEF OpenedInv, LedgerInv
<1>5. OutcomeInv'
  BY <1>1, <1>2 DEF OutcomeInv, LedgerInv, IsOutcome
<1>6. CheckpointInv'
  BY <1>1, <1>3 DEF CheckpointInv, LedgerInv, Saved
<1>7. OneOutcomePerAttempt'
  BY <1>1, <1>2 DEF OneOutcomePerAttempt, LedgerInv, IsOutcome
<1>8. OutcomeMatchesClaim'
  BY <1>1, <1>2 DEF OutcomeMatchesClaim, OutcomeInv, LedgerInv, IsOutcome
<1>9. RecoveryOnce' /\ ReceiptInv'
  BY <1>2, RecoveryAppended, ReceiptAppended DEF LedgerInv
<1>10. OpeningInv'
  BY <1>1 DEF OpeningInv, LedgerInv, Openings, CurrentAttempt
<1>11. QED
  BY <1>1, <1>4, <1>5, <1>6, <1>7, <1>8, <1>9, <1>10 DEF FlowInv, LedgerInv, OutboxTypeOK

\* An outcome ends an Attempt that runs, in the attempt that its checkpoint claims.
LEMMA OutcomePublished ==
  ASSUME OutboxTypeOK, LedgerInv, NEW a \in Activities, ledger' = Append(ledger, a),
         a.op \in Outcomes, a.step = step, stepState = "running",
         OfOutbox # {}, a.attempt = LastOfOutbox.attempt, a.receipt = LastOfOutbox.receipt,
         \A i \in Saved : ledger[i].attempt = a.attempt,
         open' = FALSE, stepState' \in {"failed", "left"}, UNCHANGED step
  PROVE  FlowInv'
<1> DEFINE n == Len(ledger')
<1>1. /\ ledger' \in Seq(Activities)
      /\ DOMAIN ledger' = (DOMAIN ledger) \cup {n}
      /\ n \notin DOMAIN ledger
      /\ \A i \in DOMAIN ledger : ledger'[i] = ledger[i]
      /\ ledger'[n] = a
  BY Appended
<1>2. a.op # "checkpoint" /\ a.op # "reopen"
  BY DEF Outcomes
<1>3. step \in Nat
  BY DEF OutboxTypeOK
<1>l. Max(OfOutbox) \in OfOutbox /\ \A i \in OfOutbox : i <= Max(OfOutbox)
  BY LastPlace
<1> HIDE DEF n
<1>4. OpenedInv'
  BY <1>l, OpenedAppended DEF OpenedInv, LedgerInv, LastOfOutbox
<1>5. OutcomeInv'
  BY <1>1, <1>3 DEF OutcomeInv, LedgerInv, IsOutcome
<1>6. CheckpointInv'
  BY <1>1, <1>2 DEF CheckpointInv, LedgerInv
<1>7. OneOutcomePerAttempt'
  BY <1>1 DEF OneOutcomePerAttempt, OutcomeInv, LedgerInv, IsOutcome
<1>8. OutcomeMatchesClaim'
  BY <1>1, <1>2 DEF OutcomeMatchesClaim, LedgerInv, IsOutcome, Saved
<1>9. RecoveryOnce'
  BY <1>2, RecoveryAppended DEF LedgerInv
<1>10. OpeningInv'
  <2>1. CurrentAttempt <= CurrentAttempt' /\ CurrentAttempt \in Nat /\ CurrentAttempt' \in Nat
    BY <1>3 DEF CurrentAttempt
  <2>2. \A i \in DOMAIN ledger : ledger[i].step \in Nat
    BY Places DEF Activities
  <2>3. a.op \notin Openings
    BY DEF Openings, Outcomes
  <2>4. QED
    BY <1>1, <1>2, <2>1, <2>2, <2>3 DEF OpeningInv, LedgerInv
<1>11. ReceiptInv'
  <2> DEFINE l == Max(OfOutbox)
  <2>1. ASSUME NEW j \in DOMAIN ledger,
               ledger[j].op = "reopen", ledger[j].attempt = a.attempt,
               ~\E m \in DOMAIN ledger : RecoveredAgain(j, m), ~Unreadable'
        PROVE  a.receipt = {ledger[j].key}
    <3>1. ~Unreadable
      <4>1. PICK k : k = Len(ledger')
        OBVIOUS
      <4>2. QED
        BY <2>1, <4>1, RecoveriesAppended
    <3>2. j \in OfOutbox
      BY <2>1 DEF OfOutbox
    <3>3. LastReopening(j, l)
      BY <1>l, <2>1, <3>2 DEF LastReopening, LastOfOutbox
    <3>4. ledger[l].receipt = {ledger[j].key}
      BY <1>l, <3>1, <3>3 DEF ReceiptInv, LedgerInv
    <3>5. QED
      BY <3>4 DEF LastOfOutbox
  <2>2. QED
    BY <1>2, <2>1, ReceiptAppended DEF LedgerInv
<1>12. QED
  BY <1>1, <1>4, <1>5, <1>6, <1>7, <1>8, <1>9, <1>10, <1>11 DEF FlowInv, LedgerInv, OutboxTypeOK

-----------------------------------------------------------------------------
(* The steps.                                                              *)

\* A step that leaves the flow alone keeps what it satisfies.
LEMMA FlowKept ==
  ASSUME IInv, UNCHANGED flow
  PROVE  FlowInv'
<1>1. /\ OpenedInv' /\ OutcomeInv' /\ CheckpointInv' /\ OneOutcomePerAttempt'
      /\ OutcomeMatchesClaim' /\ OpeningInv'
  BY DEF IInv, flow, LedgerInv, OpenedInv, Opened, OfOutbox, OutcomeInv, CheckpointInv,
         OneOutcomePerAttempt, OutcomeMatchesClaim, IsOutcome, OpeningInv, CurrentAttempt
<1>2. RecoveryOnce'
  BY DEF IInv, flow, LedgerInv, RecoveryOnce, RecoveredAgain
<1>3. ReceiptInv'
  <2>1. ledger' = ledger /\ OfOutbox' = OfOutbox /\ (Unreadable' <=> Unreadable)
    BY DEF flow, OfOutbox, Unreadable
  <2>2. \A i, j : LastReopening(j, i)' <=> LastReopening(j, i)
    BY <2>1 DEF LastReopening, RecoveredAgain
  <2>3. QED
    BY <2>1, <2>2 DEF IInv, LedgerInv, ReceiptInv
<1>4. QED
  BY <1>1, <1>2, <1>3 DEF IInv, OutboxTypeOK, flow, FlowInv, LedgerInv

\* The step changes nothing of the flow, or publishes one Activity that does not take
\* the flow back to an earlier Attempt.
FlowStepOK ==
  /\ FlowInv'
  /\ CurrentAttempt <= CurrentAttempt'
  /\ UNCHANGED flow \/ \E a \in Activities : ledger' = Append(ledger, a)

\* ... and the Activity is not a reopening.
NoReopening ==
  UNCHANGED ledger \/ \E a \in Activities : a.op # "reopen" /\ ledger' = Append(ledger, a)

LEMMA StepKept ==
  ASSUME IInv, UNCHANGED flow
  PROVE  FlowStepOK /\ NoReopening
<1>1. CurrentAttempt \in Nat /\ CurrentAttempt' = CurrentAttempt /\ UNCHANGED ledger
  BY DEF IInv, OutboxTypeOK, CurrentAttempt, flow
<1>2. QED
  BY <1>1, FlowKept DEF FlowStepOK, NoReopening

\* An execution checkpoint of a running Attempt on an outstanding entry.
LEMMA CheckpointSaved ==
  ASSUME IInv, NEW bind, NEW attempt, Admitted(bind, attempt), SaveCheckpoint(attempt),
         UNCHANGED <<open, step, stepState>>
  PROVE  FlowStepOK /\ NoReopening
<1>1. CASE Saved = {}
  <2> DEFINE a == [NoActivity EXCEPT !.op = "checkpoint", !.attempt = attempt, !.step = step]
  <2>1. open /\ attempt = LastOfOutbox.attempt /\ stepState = "running"
    BY DEF Admitted, ClaimedAttempt
  <2>2. LastOfOutbox \in Activities
    BY <2>1, StatusTypes DEF IInv, LedgerInv, OpenedInv
  <2>3. a \in Activities
    BY <2>1, <2>2 DEF Activities, NoActivity, IInv, OutboxTypeOK
  <2>4. a.op = "checkpoint" /\ a.step = step
    BY DEF NoActivity
  <2>5. ledger' = Append(ledger, a)
    BY <1>1 DEF SaveCheckpoint, Publish
  <2> HIDE DEF a
  <2>6. FlowInv'
    BY <1>1, <2>1, <2>3, <2>4, <2>5, CheckpointPublished DEF IInv
  <2>7. CurrentAttempt <= CurrentAttempt'
    BY DEF IInv, OutboxTypeOK, CurrentAttempt
  <2>8. a.op # "reopen"
    BY <2>4
  <2>9. QED
    BY <2>3, <2>5, <2>6, <2>7, <2>8 DEF FlowStepOK, NoReopening
<1>2. CASE Saved # {}
  <2>1. UNCHANGED flow
    BY <1>2 DEF SaveCheckpoint, flow
  <2>2. QED
    BY <2>1, StepKept
<1>3. QED
  BY <1>1, <1>2

LEMMA ApplyBeginStep ==
  ASSUME IInv, NEW p \in Procs, ApplyBegin(p)
  PROVE  FlowStepOK /\ NoReopening
<1>1. CASE mem[p].bind = CurrentAttempt
  <2> DEFINE a == [NoActivity EXCEPT !.op = "begin", !.attempt = mem[p].attempt,
                                     !.step = mem[p].bind]
  <2>1. mem[p].attempt \in Nat \ {0} /\ mem[p].bind \in Nat \ {0}
    BY DEF ApplyBegin, IInv, OutboxTypeOK, MemInv
  <2>2. a \in Activities /\ a.op = "begin" /\ a.step = CurrentAttempt
    BY <1>1, <2>1 DEF Activities, NoActivity, Openings
  <2>3. ledger' = Append(ledger, a) /\ open' = TRUE /\ UNCHANGED <<step, stepState>>
    BY <1>1 DEF ApplyBegin, Publish
  <2> HIDE DEF a
  <2>4. FlowInv'
    BY <2>2, <2>3, OpeningPublished DEF IInv
  <2>5. CurrentAttempt <= CurrentAttempt'
    BY <2>3 DEF IInv, OutboxTypeOK, CurrentAttempt
  <2>6. a.op # "reopen"
    BY <2>2
  <2>7. QED
    BY <2>2, <2>3, <2>4, <2>5, <2>6 DEF FlowStepOK, NoReopening
<1>2. CASE mem[p].bind # CurrentAttempt
  BY <1>2, StepKept DEF ApplyBegin
<1>3. QED
  BY <1>1, <1>2

LEMMA CheckpointStep ==
  ASSUME IInv, NEW p \in Procs, Checkpoint(p)
  PROVE  FlowStepOK /\ NoReopening
<1>1. CASE Admitted(mem[p].bind, mem[p].attempt) /\ ClaimHolds(mem[p].attempt)
  BY <1>1, CheckpointSaved DEF Checkpoint
<1>2. CASE ~(Admitted(mem[p].bind, mem[p].attempt) /\ ClaimHolds(mem[p].attempt))
  BY <1>2, StepKept DEF Checkpoint
<1>3. QED
  BY <1>1, <1>2

\* On the revision that it was prepared on, the outcome goes to the claimed attempt.
LEMMA CommitSettlementStep ==
  ASSUME IInv, NEW p \in Procs, CommitSettlement(p)
  PROVE  FlowStepOK /\ NoReopening
<1> DEFINE c == /\ Len(ledger) = mem[p].rev /\ stepState = "running" /\ step = mem[p].bind
                /\ ClaimHolds(mem[p].attempt)
<1>1. CASE c
  <2> DEFINE a == Settlement(p)
  <2>1. open /\ mem[p].attempt = LastOfOutbox.attempt
    BY <1>1 DEF CommitSettlement, IInv, CommitInv, ClaimedAttempt
  <2>2. LastOfOutbox \in Activities /\ OfOutbox # {}
    BY <2>1, StatusTypes DEF IInv, LedgerInv, OpenedInv
  <2>3. \A i \in Saved : ledger[i].attempt = LastOfOutbox.attempt
    BY <1>1, <2>1, SavedIsOne DEF IInv, LedgerInv, ClaimHolds
  <2>4. /\ mem[p].outcome \in Outcomes /\ mem[p].key \in Keys \cup {None}
        /\ mem[p].failure \in Messages \cup {None} /\ step \in Nat \ {0}
    BY DEF IInv, OutboxTypeOK
  <2>5. a \in Activities
    BY <2>2, <2>4 DEF Settlement, Activities, NoActivity, ClaimedAttempt
  <2>6. /\ a.op = mem[p].outcome /\ a.step = step
        /\ a.attempt = LastOfOutbox.attempt /\ a.receipt = LastOfOutbox.receipt
    BY DEF Settlement, NoActivity, ClaimedAttempt
  <2>7. /\ ledger' = Append(ledger, a)
        /\ open' = FALSE
        /\ stepState' \in {"failed", "left"}
        /\ UNCHANGED step
    BY <1>1 DEF CommitSettlement, Settle, Publish
  <2> HIDE DEF a
  <2>8. FlowInv'
    BY <1>1, <2>2, <2>3, <2>4, <2>5, <2>6, <2>7, OutcomePublished DEF IInv
  <2>9. CurrentAttempt <= CurrentAttempt'
    BY <1>1, <2>4, <2>7 DEF CurrentAttempt
  <2>10. a.op # "reopen"
    BY <2>4, <2>6 DEF Outcomes
  <2>11. QED
    BY <2>5, <2>7, <2>8, <2>9, <2>10 DEF FlowStepOK, NoReopening
<1>2. CASE ~c
  BY <1>2, StepKept DEF CommitSettlement
<1>3. QED
  BY <1>1, <1>2

LEMMA ApplyReopenStep ==
  ASSUME IInv, NEW p \in Procs, ApplyReopen(p)
  PROVE  FlowStepOK
<1>1. CASE UnusedActivityId(p) /\ SourceFailed(p)
  <2> DEFINE a == Reopening(p)
  <2>1. /\ mem[p].attempt \in Nat \ {0} /\ mem[p].bind \in Nat \ {0}
        /\ mem[p].key \in Keys \cup {None} /\ mem[p].failure \in Messages \cup {None}
    BY DEF ApplyReopen, IInv, OutboxTypeOK, MemInv
  <2>2. /\ a \in Activities /\ a.op = "reopen" /\ a.attempt = mem[p].attempt
        /\ a.step = mem[p].bind /\ a.key = mem[p].key /\ a.failure = mem[p].failure
        /\ a.receipt = {a.key}
    BY <2>1 DEF Reopening, Activities, NoActivity, Openings
  <2>3. /\ ledger' = Append(ledger, a)
        /\ open' = TRUE
        /\ stepState = "failed" /\ step' = step + 1 /\ stepState' = "running"
    BY <1>1 DEF ApplyReopen, Publish, SourceFailed
  <2> HIDE DEF a
  <2>4. a.step <= CurrentAttempt
    BY <2>2 DEF ApplyReopen, IInv, ReopenInv
  <2>5. \A i \in DOMAIN ledger :
          ledger[i].op = "reopen" /\ ledger[i].attempt = a.attempt =>
            /\ a.key # None
            /\ ledger[i].key = a.key => /\ ledger[i].failure # a.failure
                                        /\ \E m \in DOMAIN ledger : RecoveredAgain(i, m)
    BY <1>1, <2>2 DEF ApplyReopen, UnusedActivityId, IInv, ReopenInv
  <2>6. FlowInv'
    BY <2>2, <2>3, <2>4, <2>5, OpeningPublished DEF IInv
  <2>7. CurrentAttempt <= CurrentAttempt'
    BY <2>3 DEF IInv, OutboxTypeOK, CurrentAttempt
  <2>8. QED
    BY <2>2, <2>3, <2>6, <2>7 DEF FlowStepOK
<1>2. CASE ~(UnusedActivityId(p) /\ SourceFailed(p))
  BY <1>2, StepKept DEF ApplyReopen
<1>3. QED
  BY <1>1, <1>2

LEMMA FinishRecoveryStep ==
  ASSUME IInv, NEW p \in Procs, FinishRecovery(p)
  PROVE  FlowStepOK /\ NoReopening
<1>1. CASE Admitted(step, mem[p].attempt) /\ SaveCheckpoint(mem[p].attempt)
  BY <1>1, CheckpointSaved DEF FinishRecovery
<1>2. CASE UNCHANGED ledger
  BY <1>2, StepKept DEF FinishRecovery, flow
<1>3. QED
  BY <1>1, <1>2 DEF FinishRecovery

\* A process at the label was there before, and knows what it knew.
Stays(q, label) == pc'[q] = label => pc[q] = label /\ mem'[q] = mem[q]

\* A step that publishes nothing, or one more Activity, keeps an outcome that is
\* prepared: it is prepared on the present revision only when nothing was published.
LEMMA CommitKept ==
  ASSUME IInv, FlowStepOK, NEW q \in Procs, Stays(q, "commit"), pc'[q] = "commit"
  PROVE  /\ mem'[q].rev <= Len(ledger')
         /\ mem'[q].rev = Len(ledger') => open' /\ ClaimedAttempt' = mem'[q].attempt
<1>1. /\ mem'[q] = mem[q]
      /\ mem[q].rev \in Nat /\ Len(ledger) \in Nat
      /\ mem[q].rev <= Len(ledger)
      /\ mem[q].rev = Len(ledger) => open /\ ClaimedAttempt = mem[q].attempt
  BY Places DEF IInv, OutboxTypeOK, CommitInv, Stays
<1>2. CASE UNCHANGED flow
  BY <1>1, <1>2 DEF flow, ClaimedAttempt, LastOfOutbox, OfOutbox
<1>3. CASE \E a \in Activities : ledger' = Append(ledger, a)
  <2>1. Len(ledger') = Len(ledger) + 1
    BY <1>3, Appended DEF IInv
  <2>2. QED
    BY <1>1, <2>1
<1>4. QED
  BY <1>2, <1>3 DEF FlowStepOK

\* What a process has checked stays true until somebody reopens.
LEMMA ReopenKept ==
  ASSUME IInv, FlowStepOK, NoReopening, NEW q \in Procs, Stays(q, "reopen"), pc'[q] = "reopen"
  PROVE  /\ mem'[q].bind <= CurrentAttempt'
         /\ \A i \in DOMAIN ledger' :
              ledger'[i].op = "reopen" /\ ledger'[i].attempt = mem'[q].attempt =>
                /\ mem'[q].key # None
                /\ ledger'[i].key = mem'[q].key =>
                     \E m \in DOMAIN ledger' : RecoveredAgain(i, m)'
<1>1. /\ mem'[q] = mem[q]
      /\ mem[q].bind <= CurrentAttempt
      /\ \A i \in DOMAIN ledger :
           ledger[i].op = "reopen" /\ ledger[i].attempt = mem[q].attempt =>
             /\ mem[q].key # None
             /\ ledger[i].key = mem[q].key => \E m \in DOMAIN ledger : RecoveredAgain(i, m)
  BY DEF IInv, ReopenInv, Stays
<1>2. mem'[q].bind <= CurrentAttempt'
  <2>1. mem[q].bind \in Nat /\ CurrentAttempt \in Nat
    BY DEF IInv, OutboxTypeOK, CurrentAttempt
  <2>2. CurrentAttempt' \in Nat /\ CurrentAttempt <= CurrentAttempt'
    <3>1. (CurrentAttempt' = step' \/ CurrentAttempt' = step' + 1) /\ step' \in Nat
      BY DEF CurrentAttempt, FlowStepOK, FlowInv
    <3>2. QED
      BY <3>1 DEF FlowStepOK
  <2>3. QED
    BY <1>1, <2>1, <2>2
<1>3. CASE UNCHANGED ledger
  BY <1>1, <1>2, <1>3 DEF RecoveredAgain
<1>4. CASE \E a \in Activities : a.op # "reopen" /\ ledger' = Append(ledger, a)
  <2>1. PICK a \in Activities : a.op # "reopen" /\ ledger' = Append(ledger, a)
    BY <1>4
  <2>2. /\ DOMAIN ledger' = (DOMAIN ledger) \cup {Len(ledger')}
        /\ \A i \in DOMAIN ledger : ledger'[i] = ledger[i]
        /\ ledger'[Len(ledger')] = a
    BY <2>1, Appended DEF IInv
  <2>3. \A i, j \in DOMAIN ledger : RecoveredAgain(i, j)' <=> RecoveredAgain(i, j)
    <3>1. PICK k : k = Len(ledger')
      OBVIOUS
    <3>2. QED
      BY <2>1, <3>1, RecoveriesAppended DEF IInv
  <2>4. QED
    BY <1>1, <1>2, <2>1, <2>2, <2>3
<1>5. QED
  BY <1>3, <1>4 DEF NoReopening

StepOK == FlowInv' /\ CommitInv' /\ ReopenInv'

\* A step after which nobody is newly about to settle or to reopen.
LEMMA OthersStay ==
  ASSUME IInv, FlowStepOK, NoReopening,
         \A q \in Procs : Stays(q, "commit") /\ Stays(q, "reopen")
  PROVE  StepOK
<1>1. CommitInv'
  BY CommitKept DEF CommitInv
<1>2. ReopenInv'
  BY ReopenKept DEF ReopenInv
<1>3. QED
  BY <1>1, <1>2 DEF StepOK, FlowStepOK

\* Preparing an outcome notes the revision on which the entry is as it was claimed.
LEMMA PrepareSettlementStep ==
  ASSUME IInv, NEW p \in Procs, PrepareSettlement(p)
  PROVE  StepOK
<1> DEFINE c == mem[p].bind \in {0, step} /\ Admitted(step, mem[p].attempt)
<1>t. pc \in [Procs -> Labels] /\ mem \in [Procs -> Memories]
  BY DEF IInv, OutboxTypeOK, Memories
<1>1. UNCHANGED flow /\ FlowStepOK /\ NoReopening
  BY StepKept DEF PrepareSettlement
<1>2. \A q \in Procs : Stays(q, "reopen") /\ (q # p => Stays(q, "commit"))
  BY <1>t DEF PrepareSettlement, Continue, End, Goto, Remember, Stays
<1>3. CASE c
  <2>1. open /\ ClaimedAttempt = mem[p].attempt
    BY <1>3 DEF Admitted
  <2>2. mem'[p].rev = Len(ledger) /\ mem'[p].attempt = mem[p].attempt
    BY <1>t, <1>3 DEF PrepareSettlement, Continue, Remember, Memories
  <2>3. /\ Len(ledger') = Len(ledger) /\ Len(ledger) \in Nat
        /\ open' = open /\ ClaimedAttempt' = ClaimedAttempt
    BY <1>1, Places DEF IInv, flow, ClaimedAttempt, LastOfOutbox, OfOutbox
  <2>4. ASSUME NEW q \in Procs, pc'[q] = "commit"
        PROVE  /\ mem'[q].rev <= Len(ledger')
               /\ mem'[q].rev = Len(ledger') => open' /\ ClaimedAttempt' = mem'[q].attempt
    <3>1. CASE q = p
      BY <2>1, <2>2, <2>3, <3>1
    <3>2. CASE q # p
      BY <1>1, <1>2, <2>4, <3>2, CommitKept
    <3>3. QED
      BY <3>1, <3>2
  <2>5. CommitInv'
    BY <2>4 DEF CommitInv
  <2>6. ReopenInv'
    BY <1>1, <1>2, ReopenKept DEF ReopenInv
  <2>7. QED
    BY <1>1, <2>5, <2>6 DEF StepOK, FlowStepOK
<1>4. CASE ~c
  <2>1. pc'[p] # "commit"
    BY <1>t, <1>4 DEF PrepareSettlement, Continue, End, Goto
  <2>2. QED
    BY <1>1, <1>2, <2>1, OthersStay DEF Stays
<1>5. QED
  BY <1>3, <1>4

\* The check finds the receipt of the last reopening, if there is one.
LEMMA CheckReopenStep ==
  ASSUME IInv, NEW p \in Procs, CheckReopen(p)
  PROVE  StepOK
<1> DEFINE c == /\ ~Unreadable
                /\ outboxStatus.status = "failed"
                /\ outboxStatus.attempt = mem[p].attempt
                /\ outboxStatus.failure = mem[p].failure
                /\ outboxStatus.receipt # {} => /\ mem[p].key # None
                                                /\ mem[p].key \notin outboxStatus.receipt
<1>t. pc \in [Procs -> Labels] /\ mem \in [Procs -> Memories]
  BY DEF IInv, OutboxTypeOK, Memories
<1>1. UNCHANGED flow /\ FlowStepOK /\ NoReopening
  BY StepKept DEF CheckReopen
<1>2. \A q \in Procs : Stays(q, "commit") /\ (q # p => Stays(q, "reopen"))
  BY <1>t DEF CheckReopen, Continue, End, Goto, Remember, Stays
<1>3. CASE c
  <2> DEFINE m == [mem[p] EXCEPT !.bind = outboxStatus.bind]
  <2>1. mem'[p] = m
    BY <1>t, <1>3 DEF CheckReopen, Continue, Remember
  <2>2. /\ m.attempt = outboxStatus.attempt /\ m.bind = outboxStatus.bind
        /\ m.key = mem[p].key
    BY <1>t, <1>3 DEF Memories
  <2> HIDE DEF m
  <2>3. OfOutbox # {}
    BY <1>3, StatusTypes DEF IInv, LedgerInv
  <2>4. m.bind <= CurrentAttempt
    <3>1. PICK i \in OfOutbox : ledger[i].op \in Openings /\ outboxStatus.bind = ledger[i].step
      BY <2>3, StatusSource DEF IInv, LedgerInv
    <3>2. QED
      BY <2>2, <3>1 DEF OfOutbox, IInv, LedgerInv, OpeningInv
  <2>5. ASSUME NEW j \in DOMAIN ledger, ledger[j].op = "reopen", ledger[j].attempt = m.attempt,
               ~\E k \in DOMAIN ledger : RecoveredAgain(j, k)
        PROVE  m.key # None /\ ledger[j].key # m.key
    <3>1. PICK i \in OfOutbox :
            /\ outboxStatus.attempt = ledger[i].attempt
            /\ outboxStatus.receipt = ledger[i].receipt
            /\ \A k \in OfOutbox : ledger[k].attempt = ledger[i].attempt => k <= i
      BY <2>3, StatusSource DEF IInv, LedgerInv
    <3>2. j \in OfOutbox
      BY <2>5 DEF OfOutbox
    <3>3. LastReopening(j, i)
      BY <2>2, <2>5, <3>1, <3>2 DEF LastReopening
    <3>4. outboxStatus.receipt = {ledger[j].key}
      BY <1>3, <3>1, <3>3 DEF IInv, LedgerInv, ReceiptInv
    <3>5. QED
      BY <1>3, <2>2, <3>4
  <2>6. ASSUME NEW i \in DOMAIN ledger, ledger[i].op = "reopen", ledger[i].attempt = m.attempt
        PROVE  /\ m.key # None
               /\ ledger[i].key = m.key => \E k \in DOMAIN ledger : RecoveredAgain(i, k)
    <3>1. CASE ~\E k \in DOMAIN ledger : RecoveredAgain(i, k)
      BY <2>5, <2>6, <3>1
    <3>2. CASE \E k \in DOMAIN ledger : RecoveredAgain(i, k)
      <4>1. PICK j \in DOMAIN ledger : /\ ledger[j].op = "reopen" /\ ledger[j].attempt = m.attempt
                                       /\ ~\E k \in DOMAIN ledger : RecoveredAgain(j, k)
        <5> DEFINE R == {k \in DOMAIN ledger :
                          ledger[k].op = "reopen" /\ ledger[k].attempt = m.attempt}
        <5>1. R \subseteq 1 .. Len(ledger) /\ R # {} /\ Len(ledger) \in Nat
          BY <2>6, Places DEF IInv
        <5>2. Max(R) \in R /\ \A k \in R : k <= Max(R)
          <6> HIDE DEF R
          <6>1. QED
            BY <5>1, MaxExists
        <5>3. PICK j \in R : \A k \in R : k <= j
          BY <5>2
        <5>4. ASSUME NEW k \in DOMAIN ledger, RecoveredAgain(j, k)
              PROVE  FALSE
          <6>1. k \in R /\ j < k
            BY <5>3, <5>4 DEF RecoveredAgain
          <6>2. j \in Nat /\ k \in Nat /\ k <= j
            BY <5>1, <5>3, <6>1
          <6>3. QED
            BY <6>1, <6>2
        <5>5. QED
          BY <5>3, <5>4
      <4>2. QED
        BY <2>5, <3>2, <4>1
    <3>3. QED
      BY <3>1, <3>2
  <2>7. ledger' = ledger /\ CurrentAttempt' = CurrentAttempt
        /\ \A i, k : RecoveredAgain(i, k)' <=> RecoveredAgain(i, k)
    BY <1>1 DEF flow, CurrentAttempt, RecoveredAgain
  <2>8. ASSUME NEW q \in Procs, pc'[q] = "reopen"
        PROVE  /\ mem'[q].bind <= CurrentAttempt'
               /\ \A i \in DOMAIN ledger' :
                    ledger'[i].op = "reopen" /\ ledger'[i].attempt = mem'[q].attempt =>
                      /\ mem'[q].key # None
                      /\ ledger'[i].key = mem'[q].key =>
                           \E k \in DOMAIN ledger' : RecoveredAgain(i, k)'
    <3>1. CASE q = p
      BY <2>1, <2>4, <2>6, <2>7, <3>1
    <3>2. CASE q # p
      BY <1>1, <1>2, <2>8, <3>2, ReopenKept
    <3>3. QED
      BY <3>1, <3>2
  <2>9. ReopenInv'
    BY <2>8 DEF ReopenInv
  <2>10. CommitInv'
    BY <1>1, <1>2, CommitKept DEF CommitInv
  <2>11. QED
    BY <1>1, <2>9, <2>10 DEF StepOK, FlowStepOK
<1>4. CASE ~c
  <2>1. pc'[p] # "reopen"
    BY <1>t, <1>4 DEF CheckReopen, Continue, End, Goto
  <2>2. QED
    BY <1>1, <1>2, <2>1, OthersStay DEF Stays
<1>5. QED
  BY <1>3, <1>4

\* Only the holder of the lock reopens: nobody else is about to.
LEMMA ReopenStep ==
  ASSUME IInv, NEW p \in Procs, ApplyReopen(p)
  PROVE  StepOK
<1>t. pc \in [Procs -> Labels] /\ mem \in [Procs -> Memories]
  BY DEF IInv, OutboxTypeOK, Memories
<1>1. FlowStepOK
  BY ApplyReopenStep
<1>2. \A q \in Procs : Stays(q, "commit") /\ (pc'[q] = "reopen" => q # p /\ pc[q] = "reopen")
  BY <1>t DEF ApplyReopen, End, Goto, Remember, Stays
<1>3. \A q \in Procs : pc[q] = "reopen" => q = p
  <2>1. \A q \in Procs : pc[q] = "reopen" => lock = q
    BY DEF IInv, OutboxTypeOK, LockedLabels
  <2>2. QED
    BY <2>1 DEF ApplyReopen
<1>4. ReopenInv'
  BY <1>2, <1>3 DEF ReopenInv
<1>5. CommitInv'
  BY <1>1, <1>2, CommitKept DEF CommitInv
<1>6. QED
  BY <1>1, <1>4, <1>5 DEF StepOK, FlowStepOK

\* Every step keeps the state of the flow right, the prepared outcomes valid and what
\* was checked true.
LEMMA FlowStep ==
  IInv /\ [Next]_vars => StepOK
<1> SUFFICES ASSUME IInv, [Next]_vars
             PROVE  StepOK
  OBVIOUS
<1>t. pc \in [Procs -> Labels] /\ mem \in [Procs -> Memories]
  BY DEF IInv, OutboxTypeOK, Memories
<1>1. ASSUME NEW p \in Procs, StartRun(p)
      PROVE  StepOK
  <2>1. FlowStepOK /\ NoReopening
    BY <1>1, StepKept DEF StartRun
  <2>2. \A q \in Procs : Stays(q, "commit") /\ Stays(q, "reopen")
    BY <1>1, <1>t DEF StartRun, Continue, End, Goto, Remember, Stays
  <2>3. QED
    BY <2>1, <2>2, OthersStay
<1>2. ASSUME NEW p \in Procs, BeginCommand(p)
      PROVE  StepOK
  <2>1. FlowStepOK /\ NoReopening
    BY <1>2, StepKept DEF BeginCommand
  <2>2. \A q \in Procs : Stays(q, "commit") /\ Stays(q, "reopen")
    BY <1>2, <1>t DEF BeginCommand, Continue, End, Goto, Remember, Stays
  <2>3. QED
    BY <2>1, <2>2, OthersStay
<1>3. ASSUME NEW p \in Procs, BeginOutbox(p)
      PROVE  StepOK
  <2>1. FlowStepOK /\ NoReopening
    BY <1>3, StepKept DEF BeginOutbox
  <2>2. \A q \in Procs : Stays(q, "commit") /\ Stays(q, "reopen")
    BY <1>3, <1>t DEF BeginOutbox, Continue, End, Goto, Remember, Stays
  <2>3. QED
    BY <2>1, <2>2, OthersStay
<1>4. ASSUME NEW p \in Procs, PrepareSession(p)
      PROVE  StepOK
  <2>1. FlowStepOK /\ NoReopening
    BY <1>4, StepKept DEF PrepareSession
  <2>2. \A q \in Procs : Stays(q, "commit") /\ Stays(q, "reopen")
    BY <1>4, <1>t DEF PrepareSession, Continue, End, Goto, Remember, Stays
  <2>3. QED
    BY <2>1, <2>2, OthersStay
<1>5. ASSUME NEW p \in Procs, ApplyBegin(p)
      PROVE  StepOK
  <2>1. FlowStepOK /\ NoReopening
    BY <1>5, ApplyBeginStep
  <2>2. \A q \in Procs : Stays(q, "commit") /\ Stays(q, "reopen")
    BY <1>5, <1>t DEF ApplyBegin, Continue, End, Goto, Remember, Stays
  <2>3. QED
    BY <2>1, <2>2, OthersStay
<1>6. ASSUME NEW p \in Procs, PrepareExecution(p)
      PROVE  StepOK
  <2>1. FlowStepOK /\ NoReopening
    BY <1>6, StepKept DEF PrepareExecution
  <2>2. \A q \in Procs : Stays(q, "commit") /\ Stays(q, "reopen")
    BY <1>6, <1>t DEF PrepareExecution, Continue, End, Goto, Remember, Stays
  <2>3. QED
    BY <2>1, <2>2, OthersStay
<1>7. ASSUME NEW p \in Procs, Checkpoint(p)
      PROVE  StepOK
  <2>1. FlowStepOK /\ NoReopening
    BY <1>7, CheckpointStep
  <2>2. \A q \in Procs : Stays(q, "commit") /\ Stays(q, "reopen")
    BY <1>7, <1>t DEF Checkpoint, Continue, End, Goto, Remember, Stays
  <2>3. QED
    BY <2>1, <2>2, OthersStay
<1>8. ASSUME NEW p \in Procs, Effect(p)
      PROVE  StepOK
  <2>1. FlowStepOK /\ NoReopening
    BY <1>8, StepKept DEF Effect
  <2>2. \A q \in Procs : Stays(q, "commit") /\ Stays(q, "reopen")
    BY <1>8, <1>t DEF Effect, Continue, End, Goto, Remember, Stays
  <2>3. QED
    BY <2>1, <2>2, OthersStay
<1>9. ASSUME NEW p \in Procs, ReadSaved(p)
      PROVE  StepOK
  <2>1. FlowStepOK /\ NoReopening
    BY <1>9, StepKept DEF ReadSaved
  <2>2. \A q \in Procs : Stays(q, "commit") /\ Stays(q, "reopen")
    BY <1>9, <1>t DEF ReadSaved, Continue, End, Goto, Remember, Stays
  <2>3. QED
    BY <2>1, <2>2, OthersStay
<1>10. ASSUME NEW p \in Procs, ReadClaim(p)
      PROVE  StepOK
  <2>1. FlowStepOK /\ NoReopening
    BY <1>10, StepKept DEF ReadClaim
  <2>2. \A q \in Procs : Stays(q, "commit") /\ Stays(q, "reopen")
    BY <1>10, <1>t DEF ReadClaim, Continue, End, Goto, Remember, Stays
  <2>3. QED
    BY <2>1, <2>2, OthersStay
<1>11. ASSUME NEW p \in Procs, CommitSettlement(p)
      PROVE  StepOK
  <2>1. FlowStepOK /\ NoReopening
    BY <1>11, CommitSettlementStep
  <2>2. \A q \in Procs : Stays(q, "commit") /\ Stays(q, "reopen")
    BY <1>11, <1>t DEF CommitSettlement, Settle, Continue, End, Goto, Remember, Stays
  <2>3. QED
    BY <2>1, <2>2, OthersStay
<1>12. ASSUME NEW p \in Procs, PlanRecovery(p)
      PROVE  StepOK
  <2>1. FlowStepOK /\ NoReopening
    BY <1>12, StepKept DEF PlanRecovery
  <2>2. \A q \in Procs : Stays(q, "commit") /\ Stays(q, "reopen")
    BY <1>12, <1>t DEF PlanRecovery, Continue, End, Goto, Remember, Stays
  <2>3. QED
    BY <2>1, <2>2, OthersStay
<1>13. ASSUME NEW p \in Procs, AcquireOperation(p)
      PROVE  StepOK
  <2>1. FlowStepOK /\ NoReopening
    BY <1>13, StepKept DEF AcquireOperation
  <2>2. \A q \in Procs : Stays(q, "commit") /\ Stays(q, "reopen")
    BY <1>13, <1>t DEF AcquireOperation, Continue, End, Goto, Remember, Stays
  <2>3. QED
    BY <2>1, <2>2, OthersStay
<1>14. ASSUME NEW p \in Procs, SelectRecovery(p)
      PROVE  StepOK
  <2>1. FlowStepOK /\ NoReopening
    BY <1>14, StepKept DEF SelectRecovery
  <2>2. \A q \in Procs : Stays(q, "commit") /\ Stays(q, "reopen")
    BY <1>14, <1>t DEF SelectRecovery, Continue, End, Goto, Remember, Stays
  <2>3. QED
    BY <2>1, <2>2, OthersStay
<1>15. ASSUME NEW p \in Procs, FinishRecovery(p)
      PROVE  StepOK
  <2>1. FlowStepOK /\ NoReopening
    BY <1>15, FinishRecoveryStep
  <2>2. \A q \in Procs : Stays(q, "commit") /\ Stays(q, "reopen")
    BY <1>15, <1>t DEF FinishRecovery, Continue, End, Goto, Remember, Stays
  <2>3. QED
    BY <2>1, <2>2, OthersStay
<1>16. ASSUME NEW p \in Procs, Crash(p)
      PROVE  StepOK
  <2>1. FlowStepOK /\ NoReopening
    BY <1>16, StepKept DEF Crash
  <2>2. \A q \in Procs : Stays(q, "commit") /\ Stays(q, "reopen")
    BY <1>16, <1>t DEF Crash, Continue, End, Goto, Remember, Stays
  <2>3. QED
    BY <2>1, <2>2, OthersStay
<1>17. CASE UNCHANGED vars
  <2>1. FlowStepOK /\ NoReopening
    BY <1>17, StepKept DEF vars, flow
  <2>2. \A q \in Procs : Stays(q, "commit") /\ Stays(q, "reopen")
    BY <1>17 DEF vars, Stays
  <2>3. QED
    BY <2>1, <2>2, OthersStay
<1>18. QED
  BY <1>1, <1>2, <1>3, <1>4, <1>5, <1>6, <1>7, <1>8, <1>9, <1>10, <1>11, <1>12, <1>13, <1>14, <1>15, <1>16, <1>17,
     PrepareSettlementStep, CheckReopenStep, ReopenStep DEF Next, Run, Recover

\* The inductive invariant holds in every state.
LEMMA Invariant ==
  Spec => []IInv
<1>1. Init => IInv
  <2> SUFFICES ASSUME Init
               PROVE  IInv
    OBVIOUS
  <2>1. OutboxTypeOK
    <3>1. NoMem \in Memories
      BY DEF NoMem, Memories, Outcomes
    <3>2. \A p \in Procs : lock = p <=> pc[p] \in LockedLabels
      BY OutboxAssumption DEF Init, LockedLabels
    <3>3. pc \in [Procs -> Labels] /\ mem \in [Procs -> Memories]
      BY <3>1 DEF Init, Labels
    <3>4. ledger \in Seq(Activities)
      BY DEF Init
    <3>5. QED
      <4>1. open \in BOOLEAN
        BY Zenon DEF Init
      <4>2. step \in Nat \ {0} /\ stepState \in {"running", "failed", "left"}
        BY DEF Init
      <4>3. QED
        BY <3>2, <3>3, <3>4, <4>1, <4>2, Zenon DEF OutboxTypeOK, Memories
  <2>2. DOMAIN ledger = {}
    BY DEF Init
  <2>3. LedgerInv
    BY <2>2 DEF Init, LedgerInv, OpenedInv, OfOutbox, OutcomeInv, CheckpointInv,
                OneOutcomePerAttempt, OutcomeMatchesClaim, RecoveryOnce, OpeningInv, ReceiptInv
  <2>4. MemInv /\ CommitInv /\ ReopenInv
    BY DEF Init, MemInv, CommitInv, ReopenInv
  <2>5. QED
    BY <2>1, <2>3, <2>4 DEF IInv
<1>2. IInv /\ [Next]_vars => IInv'
  <2>1. FlowInv' /\ ProcInv' => (OutboxTypeOK /\ LedgerInv /\ MemInv)'
    BY DEF FlowInv, ProcInv, OutboxTypeOK, Memories
  <2>2. QED
    BY <2>1, ProcStep, FlowStep DEF IInv, StepOK
<1>3. QED
  BY <1>1, <1>2, PTL DEF Spec

\* The ledger holds Activities with attempts that there are, and the flow-operation
\* lock is held by the process that recovers, whatever processes run, recover and die.
THEOREM TypeCorrect ==
  Spec => []OutboxTypeOK
<1>1. IInv => OutboxTypeOK
  BY DEF IInv
<1>2. QED
  BY <1>1, Invariant, PTL

\* An Attempt of the step is settled at most once, however many runs of
\* settleFinalizationStepResult, recoveries and deaths there are.
THEOREM OneOutcomePerAttemptHolds ==
  Spec => []OneOutcomePerAttempt
<1>1. IInv => OneOutcomePerAttempt
  BY DEF IInv, LedgerInv
<1>2. QED
  BY <1>1, Invariant, PTL

\* An outcome goes to the attempt that the checkpoint of its Attempt claimed.
THEOREM OutcomeMatchesClaimHolds ==
  Spec => []OutcomeMatchesClaim
<1>1. IInv => OutcomeMatchesClaim
  BY DEF IInv, LedgerInv
<1>2. QED
  BY <1>1, Invariant, PTL

\* reopenOutboxExact never opens an attempt twice in a row with one recovery key, never
\* again without a key, and never twice from the same failure.
THEOREM RecoveryOnceHolds ==
  Spec => []RecoveryOnce
<1>1. IInv => RecoveryOnce
  BY DEF IInv, LedgerInv
<1>2. QED
  BY <1>1, Invariant, PTL
=============================================================================
