--------------------------- MODULE ManagedLauncher ---------------------------
(***************************************************************************)
(* The launcher of a managed process: src/lib/managed-process-launcher.js, *)
(* with the observation of its process group in                            *)
(* src/lib/managed-process-protocol.js and the shared stop decision of     *)
(* src/lib/managed-stop-store.js.                                          *)
(*                                                                         *)
(* Every physical call has a launcher of its own, which leads a process    *)
(* group, waits for a start request, starts the provider in the group and  *)
(* stays alive until everything it knows of has ended: TERM, then KILL to  *)
(* its own group, never to anybody else's. What it knows is in a record    *)
(* that the coordinator, or a later recovery, reads when the launcher is   *)
(* gone. The provider may start other processes, and each of them may      *)
(* leave the group at any time; one descendant per call is modelled.       *)
(*                                                                         *)
(* start() and stop() are synchronous handlers and one step each; the loss *)
(* of the launcher half way through them ends in states that its loss      *)
(* before or after them also ends in, up to a record that is not sealed.   *)
(* Time is not counted: a timer may fire at any moment.                    *)
(***************************************************************************)
EXTENDS Naturals

CONSTANTS
  Calls,     \* physical calls, numbered in the order of their reservation
  Forking,   \* bound: calls whose processes may fork
  Scenarios  \* bound: the sets of events that may happen in one behaviour

\* "leave": processes leave their group; "kill": launchers are killed; "observe":
\* observations fail; "output": there is too much output; "save": records cannot be
\* saved. The runtime adds "die" and "error" for its commands and "nest" for nested calls.
Events == {"leave", "kill", "observe", "output", "save", "die", "error", "nest"}

VARIABLES
  scenario,        \* what may happen in this behaviour; it never changes
  launcher,        \* the launcher process
  rec,             \* the state in hello.json or outcome.json, "none" before the first
  controlFailure,  \* whether that record has a controlFailure
  provider,        \* the provider process
  descendant,      \* a process that the provider has started
  seen,            \* the descendant is among the members on that record; the provider always is
  stopOp,          \* outcome.json.stop: the one stop decision, and whether its deadline has passed
  startRequest     \* a start request to the launcher's endpoint may still arrive

launcherVars == <<launcher, rec, controlFailure, provider, descendant, seen, stopOp, startRequest>>

Group == {"none", "grouped", "left", "dead"}
Alive == {"grouped", "left"}

LauncherTypeOK ==
  /\ scenario \in Scenarios
  /\ launcher \in [Calls -> {"none", "up", "blocked", "dead"}]
  /\ rec \in [Calls -> {"none", "waiting", "running", "stopping", "killing", "finished"}]
  /\ controlFailure \in [Calls -> BOOLEAN]
  /\ provider \in [Calls -> Group]
  /\ descendant \in [Calls -> Group]
  /\ seen \in [Calls -> BOOLEAN]
  /\ stopOp \in [Calls -> {"none", "open", "expired"}]
  /\ startRequest \in [Calls -> BOOLEAN]

LauncherInit ==
  /\ scenario \in Scenarios
  /\ launcher = [c \in Calls |-> "none"]
  /\ rec = [c \in Calls |-> "none"]
  /\ controlFailure = [c \in Calls |-> FALSE]
  /\ provider = [c \in Calls |-> "none"]
  /\ descendant = [c \in Calls |-> "none"]
  /\ seen = [c \in Calls |-> FALSE]
  /\ stopOp = [c \in Calls |-> "none"]
  /\ startRequest = [c \in Calls |-> FALSE]

-----------------------------------------------------------------------------
Set(f, c, v) == [f EXCEPT ![c] = v]

LauncherAlive(c) == launcher[c] \in {"up", "blocked"}

\* Mutant: only the births on record are observed, not the group.
RecordedStopped(c, member) ==
  /\ provider[c] \notin Alive
  /\ descendant[c] \in Alive => ~member

\* ManagedProcessSnapshot.isStopped without the launcher: nothing is left in the
\* group, and no birth on record is alive, wherever it is. A descendant that has left
\* the group and is on no record cannot be seen.
OthersStopped(c, member) ==
  /\ provider[c] \notin Alive
  /\ descendant[c] # "grouped"
  /\ descendant[c] = "left" => ~member

\* verifyManagedProcessStopped.
Stopped(c, member) == ~LauncherAlive(c) /\ OthersStopped(c, member)

\* readManagedSettlement: the group has stopped and the record has a sealed outcome.
Settled(c) ==
  /\ Stopped(c, seen[c])
  /\ rec[c] \in {"finished", "killing"}
  /\ ~controlFailure[c]

\* capture(): who is in the group is put on record. It throws when the provider
\* is alive outside the group.
Captured(c) == seen[c] \/ descendant[c] = "grouped"
CaptureFails(c) == provider[c] = "left"

\* ManagedStopOperationStore.claim: the first decision stays.
Claim(c) == stopOp' = Set(stopOp, c, IF stopOp[c] = "none" THEN "open" ELSE stopOp[c])

\* fail(): the launcher stays alive, without timers and without authority to signal.
\* Saving the failure may fail as well.
Blocked(c) ==
  /\ launcher' = Set(launcher, c, "blocked")
  /\ \E saved \in {TRUE} \cup (IF "save" \in scenario THEN {FALSE} ELSE {}) :
       controlFailure' = Set(controlFailure, c, controlFailure[c] \/ saved)

\* finish(): the outcome is sealed, unless saving it fails, and the process exits.
Finishing(c) ==
  /\ launcher' = Set(launcher, c, "dead")
  /\ \/ rec' = Set(rec, c, "finished")
     \/ "save" \in scenario /\ UNCHANGED rec

-----------------------------------------------------------------------------
\* run(): the endpoint is open and the greeting written.
Greet(c) ==
  /\ launcher[c] = "up" /\ rec[c] = "none"
  /\ rec' = Set(rec, c, "waiting")
  /\ UNCHANGED <<launcher, controlFailure, provider, descendant, seen, stopOp, startRequest>>

\* start(): once, and only while the launcher waits. A repetition of the request
\* changes nothing, so that it is not kept. The program may be missing: then no
\* provider comes to be.
Start(c) ==
  /\ launcher[c] = "up" /\ startRequest[c] /\ rec[c] = "waiting"
  /\ rec' = Set(rec, c, "running")
  /\ \E born \in {"grouped", "dead"} : provider' = Set(provider, c, born)
  /\ startRequest' = Set(startRequest, c, FALSE)
  /\ UNCHANGED <<launcher, controlFailure, descendant, seen, stopOp>>

\* The processes that the launcher supervises: they fork, leave the group, and end.
Fork(c) ==
  /\ c \in Forking
  /\ provider[c] \in Alive /\ descendant[c] = "none"
  /\ descendant' = Set(descendant, c, provider[c])
  /\ UNCHANGED <<launcher, rec, controlFailure, provider, seen, stopOp, startRequest>>
ProviderMoves(c) ==
  /\ \/ "leave" \in scenario /\ provider[c] = "grouped" /\ provider' = Set(provider, c, "left")
     \/ provider[c] \in Alive /\ provider' = Set(provider, c, "dead")
  /\ UNCHANGED <<launcher, rec, controlFailure, descendant, seen, stopOp, startRequest>>
DescendantMoves(c) ==
  /\ \/ "leave" \in scenario /\ descendant[c] = "grouped" /\ descendant' = Set(descendant, c, "left")
     \/ descendant[c] \in Alive /\ descendant' = Set(descendant, c, "dead")
  /\ UNCHANGED <<launcher, rec, controlFailure, provider, seen, stopOp, startRequest>>

\* The poll: new members of the group are put on record ...
Poll(c) ==
  /\ launcher[c] = "up" /\ rec[c] # "none"
  /\ IF CaptureFails(c)
       THEN Blocked(c) /\ UNCHANGED seen
       ELSE /\ Captured(c) # seen[c]
            /\ seen' = Set(seen, c, Captured(c))
            /\ UNCHANGED <<launcher, controlFailure>>
  /\ UNCHANGED <<rec, provider, descendant, stopOp, startRequest>>

\* ... and the launcher finishes when the provider has ended, its pipes are closed
\* (which a surviving descendant may put off) and nothing is left.
PollFinish(c) ==
  /\ launcher[c] = "up" /\ rec[c] \in {"running", "stopping"}
  /\ provider[c] = "dead" /\ OthersStopped(c, seen[c])
  /\ Finishing(c)
  /\ UNCHANGED <<controlFailure, provider, descendant, seen, stopOp, startRequest>>

\* stopAtDeadline: no signal is sent any more. Survivors make it a failure; else the
\* launcher finishes, or waits for the end of its child and the close of its pipes.
StopAtDeadline(c, excess) ==
  /\ IF CaptureFails(c) \/ ~OthersStopped(c, Captured(c))
       THEN Blocked(c) /\ UNCHANGED rec
       ELSE /\ controlFailure' = Set(controlFailure, c, controlFailure[c] \/ excess)
            /\ \/ Finishing(c)
               \/ /\ provider[c] # "none"
                  /\ rec' = Set(rec, c, "stopping")
                  /\ UNCHANGED launcher
  /\ seen' = Set(seen, c, Captured(c))

\* stop(): the decision is claimed and saved; without a provider that is all, else
\* TERM goes to the group and the grace timer starts.
Stop(c, excess) ==
  /\ launcher[c] = "up" /\ rec[c] \in {"waiting", "running"}
  /\ Claim(c)
  /\ IF stopOp[c] = "expired"
       THEN StopAtDeadline(c, excess)
       ELSE IF CaptureFails(c)
         THEN Blocked(c) /\ UNCHANGED <<rec, seen>>
         ELSE /\ seen' = Set(seen, c, Captured(c))
              /\ controlFailure' = Set(controlFailure, c, controlFailure[c] \/ excess)
              /\ IF provider[c] = "none"
                   THEN Finishing(c)
                   ELSE rec' = Set(rec, c, "stopping") /\ UNCHANGED launcher
  /\ UNCHANGED <<provider, descendant, startRequest>>

\* The call's own deadline, a signal from outside or a stop request. Since the first
\* two may come at any time, stop requests need not be kept.
OnStop(c) == Stop(c, FALSE)

\* collect(): too much output. The group is stopped, and the record keeps the failure.
OnOutputLimit(c) ==
  /\ "output" \in scenario
  /\ provider[c] # "none"
  /\ \/ Stop(c, TRUE)
     \/ /\ launcher[c] = "up" /\ rec[c] = "stopping"
        /\ controlFailure' = Set(controlFailure, c, TRUE)
        /\ UNCHANGED <<launcher, rec, provider, descendant, seen, stopOp, startRequest>>

\* Mutant: the grace timer is never started.
NoGrace(c) == FALSE /\ UNCHANGED launcherVars

\* The grace timer: KILL is announced in the record ...
Grace(c) ==
  /\ launcher[c] = "up" /\ rec[c] = "stopping"
  /\ IF stopOp[c] = "expired"
       THEN StopAtDeadline(c, FALSE)
       ELSE IF CaptureFails(c)
         THEN Blocked(c) /\ UNCHANGED <<rec, seen>>
         ELSE /\ seen' = Set(seen, c, Captured(c))
              /\ rec' = Set(rec, c, "killing")
              /\ UNCHANGED <<launcher, controlFailure>>
  /\ UNCHANGED <<provider, descendant, stopOp, startRequest>>

\* ... and sent to the group, the launcher included, unless the deadline has passed.
KillGroup(c) ==
  /\ launcher[c] = "up" /\ rec[c] = "killing"
  /\ IF stopOp[c] = "expired"
       THEN StopAtDeadline(c, FALSE) /\ UNCHANGED <<provider, descendant>>
       ELSE /\ launcher' = Set(launcher, c, "dead")
            /\ provider' = Set(provider, c, IF provider[c] = "grouped" THEN "dead" ELSE provider[c])
            /\ descendant' = Set(descendant, c, IF descendant[c] = "grouped" THEN "dead" ELSE descendant[c])
            /\ UNCHANGED <<rec, controlFailure, seen>>
  /\ UNCHANGED <<stopOp, startRequest>>

\* The launcher cannot observe its group, or cannot save what it has observed.
Fails(c) ==
  /\ "observe" \in scenario
  /\ launcher[c] = "up" /\ rec[c] # "none"
  /\ Blocked(c)
  /\ UNCHANGED <<rec, provider, descendant, seen, stopOp, startRequest>>

\* Somebody else kills the launcher; what it has started lives on.
Killed(c) ==
  /\ "kill" \in scenario
  /\ LauncherAlive(c)
  /\ launcher' = Set(launcher, c, "dead")
  /\ UNCHANGED <<rec, controlFailure, provider, descendant, seen, stopOp, startRequest>>

\* The deadline of a stop decision passes.
Expire(c) ==
  /\ stopOp[c] = "open"
  /\ stopOp' = Set(stopOp, c, "expired")
  /\ UNCHANGED <<launcher, rec, controlFailure, provider, descendant, seen, startRequest>>

Supervise(c) ==
  \/ Greet(c) \/ Start(c) \/ Poll(c) \/ PollFinish(c)
  \/ OnStop(c) \/ OnOutputLimit(c)
  \/ Grace(c) \/ KillGroup(c)
Environment(c) ==
  \/ Fork(c) \/ ProviderMoves(c) \/ DescendantMoves(c)
  \/ Fails(c) \/ Killed(c) \/ Expire(c)
=============================================================================
