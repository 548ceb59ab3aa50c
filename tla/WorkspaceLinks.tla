--------------------------- MODULE WorkspaceLinks ---------------------------
(***************************************************************************)
(* One message (or user) and one workspace: the row of the link table, the *)
(* copies of the workspace's id in the array the searches filter by, and   *)
(* the server actions that link and unlink them in two statements without  *)
(* a transaction.  Several clients call them, each from a list that may be *)
(* old, so any call may come at any time.                                  *)
(***************************************************************************)
EXTENDS Naturals

CONSTANT Calls

VARIABLES
  row,      \* the link table has the pair
  ids,      \* how often the array holds the workspace
  link,     \* per call, whether it links or unlinks
  phase,    \* per call, what it has done
  overlapped, \* calls during which one of the other kind ran
  settled   \* since a call last broke off or overlapped, one has run alone

vars == <<row, ids, link, phase, overlapped, settled>>

Phases == {"idle", "called", "half", "done", "failed"}

TypeOK ==
  /\ row \in BOOLEAN /\ ids \in Nat /\ link \in [Calls -> BOOLEAN]
  /\ phase \in [Calls -> Phases] /\ overlapped \subseteq Calls /\ settled \in BOOLEAN

\* The array begins empty; a message or user is not linked to a workspace by the ingest.
Init ==
  /\ row = FALSE /\ ids = 0 /\ settled = TRUE
  /\ link \in [Calls -> BOOLEAN] /\ phase = [c \in Calls |-> "idle"] /\ overlapped = {}

Half == {c \in Calls : phase[c] = "half"}
Opposing(c) == {d \in Half : link[d] # link[c]}

\* The call arrives: user, workspace and message are looked up.
Call(c) ==
  /\ phase[c] = "idle" /\ phase' = [phase EXCEPT ![c] = "called"]
  /\ UNCHANGED <<row, ids, link, overlapped, settled>>

\* Not logged in, or workspace or message not found.
Refused(c) ==
  /\ phase[c] = "called" /\ phase' = [phase EXCEPT ![c] = "done"]
  /\ UNCHANGED <<row, ids, link, overlapped, settled>>

\* The row is inserted, unless it is there, or deleted.
First(c) ==
  /\ phase[c] = "called" /\ phase' = [phase EXCEPT ![c] = "half"]
  /\ row' = link[c]
  /\ overlapped' = IF Opposing(c) = {} THEN overlapped ELSE overlapped \cup Opposing(c) \cup {c}
  /\ settled' = (settled /\ Opposing(c) = {})
  /\ UNCHANGED <<ids, link>>

\* The id is appended to the array once more, or every copy of it removed.
Second(c) ==
  /\ phase[c] = "half" /\ phase' = [phase EXCEPT ![c] = "done"]
  /\ ids' = IF link[c] THEN ids + 1 ELSE 0
  /\ settled' = (settled \/ c \notin overlapped)
  /\ UNCHANGED <<row, link, overlapped>>

\* A statement fails or the server stops between the two.
Breaks(c) ==
  /\ phase[c] \in {"called", "half"} /\ phase' = [phase EXCEPT ![c] = "failed"]
  /\ settled' = (settled /\ phase[c] # "half")
  /\ UNCHANGED <<row, ids, link, overlapped>>

Next == \E c \in Calls : Call(c) \/ Refused(c) \/ First(c) \/ Second(c) \/ Breaks(c)

Spec == Init /\ [][Next]_vars

----------------------------------------------------------------------------
\* Between calls the table and the array say the same, unless a call broke off or two of
\* different kinds overlapped and none has run alone since: such a call repairs both.
DriftExplained == settled /\ Half = {} => (row <=> ids > 0)

\* A call that was alone leaves both as it was asked to, whatever it found.
AloneTakesEffect ==
  [][\A c \in Calls :
       phase[c] = "half" /\ phase'[c] = "done" /\ c \notin overlapped
         => (row' <=> link[c]) /\ (ids' > 0 <=> link[c])]_vars
=============================================================================
