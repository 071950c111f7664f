----------------------------- MODULE LatestTurn -----------------------------
(***************************************************************************)
(* What the turns of one chat session promise, without locks, registries   *)
(* or tasks: at most one turn runs, only the newest may start, a newer     *)
(* turn makes the running one drop out, and a turn that was dropped is     *)
(* never answered.                                                         *)
(***************************************************************************)
CONSTANTS
  Turn,   \* the user's messages
  None    \* no message yet

VARIABLES
  status, \* how far each turn is
  newest  \* the turn that arrived last

vars == <<status, newest>>

Status == {"new", "open", "running", "answered", "dropped"}

TypeOK == status \in [Turn -> Status] /\ newest \in Turn \cup {None}

Init == status = [t \in Turn |-> "new"] /\ newest = None

(* A message arrives; the run it interrupts, if any, is dropped.            *)
Submit(t) ==
  /\ status[t] = "new"
  /\ newest' = t
  /\ status' = [u \in Turn |-> IF u = t THEN "open"
                               ELSE IF status[u] = "running" THEN "dropped"
                               ELSE status[u]]

(* The newest turn starts when no other runs.  It may do so the moment it   *)
(* arrives.                                                                 *)
Begin(t) ==
  /\ status[t] = "open" /\ t = newest
  /\ \A u \in Turn : status[u] # "running"
  /\ status' = [status EXCEPT ![t] = "running"]
  /\ UNCHANGED newest

SubmitAndBegin(t) ==
  /\ status[t] = "new"
  /\ \A u \in Turn : status[u] # "running"
  /\ newest' = t
  /\ status' = [status EXCEPT ![t] = "running"]

Answer(t) ==
  /\ status[t] = "running" /\ t = newest
  /\ status' = [status EXCEPT ![t] = "answered"]
  /\ UNCHANGED newest

(* Superseded, failed or timed out.                                         *)
Drop(t) ==
  /\ status[t] \in {"open", "running"}
  /\ status' = [status EXCEPT ![t] = "dropped"]
  /\ UNCHANGED newest

Next == \E t \in Turn : Submit(t) \/ SubmitAndBegin(t) \/ Begin(t) \/ Answer(t) \/ Drop(t)

Spec == Init /\ [][Next]_vars
=============================================================================
