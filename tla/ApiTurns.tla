------------------------------ MODULE ApiTurns ------------------------------
(***************************************************************************)
(* The turns of a session without WhatsApp messages implement the abstract *)
(* LatestTurn, whatever resumed workflows run beside them.  (WhatsApp      *)
(* turns do not: see the runs of MCSessionTurn.)                           *)
(***************************************************************************)
EXTENDS SessionTurn

(* How far a turn is, seen from outside.  A live run whose task has been    *)
(* told to stop, or that unwinds, no longer counts.                         *)
TurnStatus(t) ==
  IF pc[t] = "idle" THEN "new"
  ELSE IF pc[t] \in {"grace", "queued"} THEN "open"
  ELSE IF Live(t) THEN "running"
  ELSE IF pc[t] = "post" \/ outcome[t] = "replied" THEN "answered"
  ELSE "dropped"

NewestTurn == IF gen = 0 THEN NoTask ELSE CHOOSE t \in ApiTurns : num[t] = gen

Latest == INSTANCE LatestTurn WITH
  Turn <- ApiTurns, None <- NoTask,
  status <- [t \in ApiTurns |-> TurnStatus(t)],
  newest <- NewestTurn

(* Every step of the locks, registries and generations is a step of the     *)
(* abstract specification or none: one turn at a time, only the newest, and *)
(* nothing dropped is answered.                                             *)
ImplementsLatestTurn == Latest!Spec
=============================================================================
