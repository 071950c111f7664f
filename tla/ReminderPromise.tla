-------------------------- MODULE ReminderPromise --------------------------
(***************************************************************************)
(* What the user is promised about the reminders set for one time, without *)
(* rows, claims, executions or processes: a reminder is heard while it     *)
(* stands and never after it was called off; it counts as kept only once   *)
(* it was heard; and then it stays kept and is heard no more, unless what  *)
(* became of one of its messages is not known.                             *)
(***************************************************************************)
EXTENDS Naturals

CONSTANT Reminder

VARIABLES
  phase,  \* what has become of each reminder
  heard,  \* how often it reached the user (2 = more)
  unsure  \* those with a message of which nobody knows whether it got through

vars == <<phase, heard, unsure>>

Phases == {"unset", "open", "kept", "off"}

TypeOK ==
  /\ phase \in [Reminder -> Phases]
  /\ heard \in [Reminder -> 0..2]
  /\ unsure \in SUBSET Reminder

Init ==
  /\ phase = [r \in Reminder |-> "unset"]
  /\ heard = [r \in Reminder |-> 0]
  /\ unsure = {}

Sets(r) ==
  /\ phase[r] = "unset"
  /\ phase' = [phase EXCEPT ![r] = "open"]
  /\ UNCHANGED <<heard, unsure>>

Reaches(r) ==
  /\ phase[r] = "open" /\ heard[r] = 0
  /\ heard' = [heard EXCEPT ![r] = 1]
  /\ UNCHANGED <<phase, unsure>>

(* A message may get through twice, or after the reminder was kept.         *)
ReachesAgain(r) ==
  /\ phase[r] \in {"open", "kept"}
  /\ unsure' = unsure \cup {r}
  /\ \E n \in heard[r] .. 2 : heard' = [heard EXCEPT ![r] = n]
  /\ UNCHANGED phase

Keeps(r) ==
  /\ phase[r] = "open" /\ heard[r] > 0
  /\ phase' = [phase EXCEPT ![r] = "kept"]
  /\ UNCHANGED <<heard, unsure>>

Reopens(r) ==
  /\ phase[r] = "kept" /\ r \in unsure
  /\ phase' = [phase EXCEPT ![r] = "open"]
  /\ UNCHANGED <<heard, unsure>>

CallsOff(r) ==
  /\ phase[r] \in {"open", "kept"}
  /\ phase' = [phase EXCEPT ![r] = "off"]
  /\ UNCHANGED <<heard, unsure>>

(* Those who deliver are thought to be gone.                                *)
Doubts(lost) ==
  /\ unsure' = unsure \cup lost
  /\ UNCHANGED <<phase, heard>>

Next ==
  \/ \E r \in Reminder : Sets(r) \/ Reaches(r) \/ ReachesAgain(r) \/ Keeps(r) \/ Reopens(r) \/ CallsOff(r)
  \/ \E lost \in SUBSET Reminder : Doubts(lost)

Spec == Init /\ [][Next]_vars
=============================================================================
