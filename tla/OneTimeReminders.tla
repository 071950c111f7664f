-------------------------- MODULE OneTimeReminders --------------------------
(***************************************************************************)
(* The one-time rows of scheduled_jobs implement ReminderPromise where no  *)
(* process is shut down in an orderly way.                                 *)
(***************************************************************************)
EXTENDS Scheduler

(* What a row means to the user.  A cancellation counts when no execution   *)
(* had loaded the row.                                                      *)
Phase(j) ==
  IF status[j] = "none" THEN "unset"
  ELSE IF j \in firm THEN "off"
  ELSE IF status[j] = "done" THEN "kept"
  ELSE "open"

(* A message may be on its way still when a claim went stale, and one that  *)
(* was not acknowledged may have arrived.                                   *)
Unsure == OneShots \cap (lostAck \cup stolen)

Promise == INSTANCE ReminderPromise WITH
  Reminder <- OneShots,
  phase <- [j \in OneShots |-> Phase(j)],
  heard <- [j \in OneShots |-> delivered[j]],
  unsure <- Unsure

(* Every tick, send, crash, retry and cancellation is a step of the promise *)
(* or none: nothing is heard of a reminder that was called off, none is     *)
(* kept unheard, and a kept one is heard again or opened again only when a  *)
(* claim went stale or an acknowledgement was lost.                         *)
KeepsPromise == Promise!Spec
=============================================================================
