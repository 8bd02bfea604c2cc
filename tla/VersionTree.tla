----------------------------- MODULE VersionTree -----------------------------
(***************************************************************************)
(* What the artifact catalog promises to the code that uses it: the files  *)
(* of a flow version have one committed content. A publication replaces    *)
(* the files it declares at one moment or not at all, and its answer does  *)
(* not lie about which; a read sees the committed content. A process that  *)
(* dies in a publication leaves the content before it or after it.         *)
(*                                                                         *)
(* CatalogStore is the transaction protocol that implements it.            *)
(***************************************************************************)
CONSTANTS
  Procs,  \* processes
  None,   \* no view
  Files   \* the artifact paths of the version

VARIABLES
  contents,  \* contents[f]: the committed content of file f
  status,    \* what process p is doing
  asked,     \* its publication: the files it replaces, with their new content
             \* (writes), and the content it was planned on (expects)
  view,      \* what its last read has returned, or None
  answer     \* how its last operation ended

versionVars == <<contents, status, asked, view, answer>>

\* contents c with the files of w replaced.
Replace(c, w) == [f \in Files |-> IF f \in DOMAIN w THEN w[f] ELSE c[f]]

VersionInit ==
  /\ status = [p \in Procs |-> "idle"]
  /\ view = [p \in Procs |-> None]
  /\ answer = [p \in Procs |-> "none"]

OthersAsk(p) == \A q \in Procs \ {p} : asked'[q] = asked[q]

\* A process asks for a read or for a publication.
Ask(p) ==
  /\ status[p] = "idle"
  /\ \E kind \in {"reading", "publishing"} : status' = [status EXCEPT ![p] = kind]
  /\ OthersAsk(p)
  /\ answer' = [answer EXCEPT ![p] = "none"]
  /\ view' \in {view, [view EXCEPT ![p] = None]}
  /\ UNCHANGED contents

\* A read returns the committed content.
See(p) ==
  /\ status[p] = "reading"
  /\ status' = [status EXCEPT ![p] = "seen"]
  /\ view' = [view EXCEPT ![p] = contents]
  /\ UNCHANGED <<contents, asked, answer>>

\* A publication takes effect, on the content it was planned on.
Apply(p) ==
  /\ status[p] = "publishing"
  /\ \A f \in DOMAIN asked[p].expects : contents[f] = asked[p].expects[f]
  /\ status' = [status EXCEPT ![p] = "applied"]
  /\ contents' = Replace(contents, asked[p].writes)
  /\ UNCHANGED <<asked, view, answer>>

\* "ok" is answered after the effect only; "failed", "rejected" and "busy"
\* without an effect only; "uncertain", an error after the effect.
Answer(p) ==
  /\ \E a \in {"ok", "uncertain", "failed", "rejected", "busy"} :
       /\ status[p] \in IF a \in {"ok", "uncertain"} THEN {"applied", "seen"}
                        ELSE {"publishing", "reading"}
       /\ answer' = [answer EXCEPT ![p] = a]
  /\ status' = [status EXCEPT ![p] = "idle"]
  /\ OthersAsk(p)
  /\ UNCHANGED <<contents, view>>

Die(p) ==
  /\ status' = [status EXCEPT ![p] = "idle"]
  /\ OthersAsk(p)
  /\ view' = [view EXCEPT ![p] = None]
  /\ answer' = [answer EXCEPT ![p] = "none"]
  /\ UNCHANGED contents

VersionNext == \E p \in Procs : Ask(p) \/ See(p) \/ Apply(p) \/ Answer(p) \/ Die(p)

VersionSpec == VersionInit /\ [][VersionNext]_versionVars
=============================================================================
