----------------------------- MODULE Scheduler -----------------------------
(***************************************************************************)
(* Reminders and heartbeats: the rows of scheduled_jobs, the processes     *)
(* that tick over them (core/workers/scheduler_service.py) and the tools   *)
(* with which an agent sets and cancels them (core/tools/scheduler_tool.py,*)
(* core/engine/tool_builder.py).                                           *)
(*                                                                         *)
(* A step is one database transaction, or what happens between two of      *)
(* them.  A tick is one transaction because SELECT ... FOR UPDATE SKIP     *)
(* LOCKED keeps its rows until the commit; a cancellation is two, because  *)
(* its SELECT locks nothing.                                               *)
(***************************************************************************)
EXTENDS Naturals, FiniteSets

CONSTANTS
  OneShots,     \* reminder rows with run_once_at
  Crons,        \* reminder rows with cron_expr
  Beats,        \* heartbeat rows of one user, left in the table by an earlier version
  NoJob,        \* the empty result of a SELECT
  Instances,    \* processes that tick: API processes and the standalone worker
  MaxParallel,  \* _MAX_CONCURRENT_JOBS, per process
  MaxRuns,      \* bound: executions of one row that may be in flight
  MaxCrashes,   \* bound: process crashes
  Graceful      \* whether a process may be shut down in an orderly way

Reminders == OneShots \cup Crons
Jobs == Reminders \cup Beats
Runs == Jobs \X (1..MaxRuns)

ASSUME JobsAssumption ==
  /\ NoJob \notin Jobs
  /\ OneShots \cap (Crons \cup Beats) = {}
  /\ Crons \cap Beats = {}

ASSUME BoundsAssumption ==
  /\ MaxParallel \in Nat \ {0} /\ MaxRuns \in Nat \ {0} /\ MaxCrashes \in Nat
  /\ Graceful \in BOOLEAN

VARIABLES
  status,    \* ScheduledJob.status; "none" before the row exists
  next,      \* whether next_run_at is in the future, has come, or is NULL
  stale,     \* whether last_run_at is more than _RUNNING_JOB_STALE_AFTER ago
  at,        \* how far each execution of _run_job is
  inst,      \* the process an execution belongs to
  was,       \* the status an execution loaded, which its ORM object remembers
  call,      \* the row a cancel or disable call has found and not yet committed
  crashes,
  delivered, \* messages that arrived for the current occurrence of a reminder (2 = more)
  lostAck,   \* one-time rows with a message that arrived although its send failed
  stolen,    \* rows claimed again because a claim went stale
  told,      \* rows the user has been told are cancelled or switched off
  firm       \* those of them cancelled while no execution had loaded them

rowVars == <<status, next, stale>>
runVars == <<at, inst, was>>
userVars == <<call, told, firm>>
history == <<delivered, lostAck, stolen>>
vars == <<status, next, stale, at, inst, was, call, crashes, delivered, lostAck,
          stolen, told, firm>>

----------------------------------------------------------------------------
Statuses == {"none", "active", "running", "done", "cancelled"}
Times == {"later", "due", "never"}
Stages == {"free", "queued", "sending", "sent", "failed"}
Loaded == {"sending", "sent", "failed"}

\* A row as the table may hold it when the processes start.
OldRows == {<<"none", "never">>, <<"active", "later">>, <<"running", "due">>, <<"cancelled", "later">>}

TypeOK ==
  /\ status \in [Jobs -> Statuses]
  /\ next \in [Jobs -> Times]
  /\ stale \in [Jobs -> BOOLEAN]
  /\ at \in [Runs -> Stages]
  /\ inst \in [Runs -> Instances]
  /\ was \in [Runs -> Statuses]
  /\ call \in Jobs \cup {NoJob}
  /\ crashes \in 0..MaxCrashes
  /\ delivered \in [Jobs -> 0..2]
  /\ lostAck \in SUBSET Jobs
  /\ stolen \in SUBSET Jobs
  /\ told \in SUBSET Jobs
  /\ firm \in SUBSET Jobs

(* enable_heartbeat adds no row: it names timedelta, which its module does  *)
(* not import, and the NameError rolls its transaction back.  The heartbeat *)
(* rows there are were in the table before, a claimed one perhaps by a      *)
(* process that is gone.                                                    *)
Init ==
  /\ \E old \in [Beats -> OldRows] :
       /\ status = [j \in Jobs |-> IF j \in Beats THEN old[j][1] ELSE "none"]
       /\ next = [j \in Jobs |-> IF j \in Beats THEN old[j][2] ELSE "never"]
  /\ stale = [j \in Jobs |-> FALSE]
  /\ at = [r \in Runs |-> "free"]
  /\ inst \in {[r \in Runs |-> i] : i \in Instances}
  /\ was = [r \in Runs |-> "none"]
  /\ call = NoJob /\ crashes = 0
  /\ delivered = [j \in Jobs |-> 0]
  /\ lostAck = {} /\ stolen = {} /\ told = {} /\ firm = {}

InFlight(r) == at[r] # "free"
Executions(j) == {r \in Runs : r[1] = j /\ InFlight(r)}
FreeSlots(j) == {r \in Runs : r[1] = j /\ ~InFlight(r)}
Slot(j) == CHOOSE r \in FreeSlots(j) : TRUE

----------------------------------------------------------------------------
(* The agent's tools. *)

(* set_reminder, set_multiple_reminders. *)
SetReminder(j) ==
  /\ call = NoJob /\ j \in Reminders /\ status[j] = "none"
  /\ status' = [status EXCEPT ![j] = "active"]
  /\ next' = [next EXCEPT ![j] = "later"]
  /\ UNCHANGED <<stale, crashes, runVars, userVars, history>>

(* cancel_reminder and disable_heartbeat find the active row ...            *)
CancelFinds(j) ==
  /\ call = NoJob /\ status[j] = "active"
  /\ j \in Beats => \A b \in Beats : status[b] = "active" => b = j
  /\ call' = j
  /\ UNCHANGED <<crashes, told, firm, rowVars, runVars, history>>

(* ... or, disable_heartbeat, find none and say the heartbeat is off.       *)
DisableFindsNone ==
  /\ call = NoJob /\ \A b \in Beats : status[b] # "active"
  /\ told' = told \cup {b \in Beats : status[b] # "none"}
  /\ UNCHANGED <<call, firm, crashes, rowVars, runVars, history>>

(* The UPDATE goes by primary key: it does not ask for the status again.    *)
CancelCommits ==
  /\ call # NoJob
  /\ status' = [status EXCEPT ![call] = "cancelled"]
  /\ told' = told \cup {call}
  /\ firm' = IF \E r \in Runs : r[1] = call /\ at[r] \in Loaded
               THEN firm ELSE firm \cup {call}
  /\ call' = NoJob
  /\ UNCHANGED <<next, stale, crashes, runVars, history>>

----------------------------------------------------------------------------
(* Time. *)

BecomesDue(j) ==
  /\ next[j] = "later"
  /\ next' = [next EXCEPT ![j] = "due"]
  /\ UNCHANGED <<status, stale, crashes, runVars, userVars, history>>

GoesStale(j) ==
  /\ status[j] = "running" /\ ~stale[j]
  /\ stale' = [stale EXCEPT ![j] = TRUE]
  /\ UNCHANGED <<status, next, crashes, runVars, userVars, history>>

----------------------------------------------------------------------------
(* The processes. *)

(* Mutant: a job left running by a dead process is never picked up again.   *)
ClaimableActiveOnly(j) == next[j] = "due" /\ status[j] = "active"

Claimable(j) ==
  /\ next[j] = "due"
  /\ status[j] = "active" \/ (status[j] = "running" /\ stale[j])

(* Mutant: the rows are spawned before their claim is written. *)
TickUnclaimed(i, claimed) ==
  /\ claimed # {}
  /\ \A j \in claimed : Claimable(j) /\ FreeSlots(j) # {}
  /\ stolen' = stolen \cup {j \in claimed : status[j] = "running"}
  /\ LET spawned == {Slot(j) : j \in claimed}
     IN /\ at' = [r \in Runs |-> IF r \in spawned THEN "queued" ELSE at[r]]
        /\ inst' = [r \in Runs |-> IF r \in spawned THEN i ELSE inst[r]]
  /\ UNCHANGED <<status, next, stale, was, crashes, delivered, lostAck, userVars>>

(* _tick claims the due rows no other transaction has locked, commits, and  *)
(* spawns an execution for each (MaxRuns bounds how many may be in flight). *)
Tick(i, claimed) ==
  /\ claimed # {}
  /\ \A j \in claimed : Claimable(j) /\ FreeSlots(j) # {}
  /\ status' = [j \in Jobs |-> IF j \in claimed THEN "running" ELSE status[j]]
  /\ stale' = [j \in Jobs |-> stale[j] /\ j \notin claimed]
  /\ stolen' = stolen \cup {j \in claimed : status[j] = "running"}
  /\ LET spawned == {Slot(j) : j \in claimed}
     IN /\ at' = [r \in Runs |-> IF r \in spawned THEN "queued" ELSE at[r]]
        /\ inst' = [r \in Runs |-> IF r \in spawned THEN i ELSE inst[r]]
  /\ UNCHANGED <<next, was, crashes, delivered, lostAck, userVars>>

Ends(ended) ==
  /\ at' = [r \in Runs |-> IF r \in ended THEN "free" ELSE at[r]]
  /\ was' = [r \in Runs |-> IF r \in ended THEN "none" ELSE was[r]]

HasPermit(i) == Cardinality({r \in Runs : inst[r] = i /\ at[r] \in Loaded}) < MaxParallel

(* Mutant: _run_job does not look at the status it loads. *)
LoadUnchecked(r) ==
  /\ at[r] = "queued" /\ HasPermit(inst[r])
  /\ at' = [at EXCEPT ![r] = "sending"]
  /\ was' = [was EXCEPT ![r] = status[r[1]]]
  /\ UNCHANGED <<inst, crashes, rowVars, userVars, history>>

(* _run_job_guarded gets a permit and _run_job loads the row. *)
Load(r) ==
  /\ at[r] = "queued" /\ HasPermit(inst[r])
  /\ IF status[r[1]] \in {"active", "running"}
       THEN /\ at' = [at EXCEPT ![r] = "sending"]
            /\ was' = [was EXCEPT ![r] = status[r[1]]]
       ELSE /\ at' = [at EXCEPT ![r] = "free"]
            /\ UNCHANGED was
  /\ UNCHANGED <<inst, crashes, rowVars, userVars, history>>

(* The message got through n times.                                         *)
Arrives(j, n) == delivered' = [delivered EXCEPT ![j] = IF @ + n > 2 THEN 2 ELSE @ + n]
Unacknowledged(j) == lostAck' = lostAck \cup ({j} \cap OneShots)

(* The channel takes the message and says so: at once, or when wa_client    *)
(* tries again after an attempt that got through unacknowledged.            *)
Delivers(r) ==
  /\ at[r] = "sending" /\ r[1] \in Reminders
  /\ at' = [at EXCEPT ![r] = "sent"]
  /\ \/ Arrives(r[1], 1) /\ UNCHANGED lostAck
     \/ Arrives(r[1], 2) /\ Unacknowledged(r[1])
  /\ UNCHANGED <<inst, was, crashes, stolen, rowVars, userVars>>

(* Mutant: a failed send counts as a success. *)
SendFailsUnnoticed(r) ==
  /\ at[r] = "sending" /\ r[1] \in Reminders
  /\ at' = [at EXCEPT ![r] = "sent"]
  /\ \/ UNCHANGED <<delivered, lostAck>>
     \/ Unacknowledged(r[1]) /\ \E n \in 1..2 : Arrives(r[1], n)
  /\ UNCHANGED <<inst, was, crashes, stolen, rowVars, userVars>>

(* The send raises, before or after the message got through once or twice.  *)
SendFails(r) ==
  /\ at[r] = "sending" /\ r[1] \in Reminders
  /\ at' = [at EXCEPT ![r] = "failed"]
  /\ \/ UNCHANGED <<delivered, lostAck>>
     \/ Unacknowledged(r[1]) /\ \E n \in 1..2 : Arrives(r[1], n)
  /\ UNCHANGED <<inst, was, crashes, stolen, rowVars, userVars>>

(* _run_heartbeat_job: quiet hours, nothing to say, a message or an         *)
(* exception, the row is treated alike.                                     *)
Beat(r) ==
  /\ at[r] = "sending" /\ r[1] \in Beats
  /\ at' = [at EXCEPT ![r] = "sent"]
  /\ UNCHANGED <<inst, was, crashes, rowVars, userVars, history>>

(* What the finally of _run_job makes of the row: a retry in a minute, the  *)
(* next occurrence, or the end.                                             *)
Repeats(r) == at[r] = "failed" \/ r[1] \in Crons \cup Beats

StatusAfter(r) == IF Repeats(r) THEN "active" ELSE "done"

(* Mutant: a one-time job keeps its time and stays active. *)
FinishUnreset(r) ==
  /\ at[r] \in {"sent", "failed"}
  /\ status' = [status EXCEPT ![r[1]] = "active"]
  /\ next' = [next EXCEPT ![r[1]] = "later"]
  /\ stale' = [stale EXCEPT ![r[1]] = FALSE]
  /\ delivered' = [delivered EXCEPT ![r[1]] = IF r[1] \in Crons /\ at[r] = "sent"
                                               THEN 0 ELSE @]
  /\ Ends({r})
  /\ UNCHANGED <<inst, crashes, lostAck, stolen, userVars>>

(* The ORM writes the columns that differ from what the execution loaded:   *)
(* the status is not written when it comes out as it was.                   *)
Finish(r) ==
  /\ at[r] \in {"sent", "failed"}
  /\ status' = IF StatusAfter(r) = was[r] THEN status
               ELSE [status EXCEPT ![r[1]] = StatusAfter(r)]
  /\ next' = [next EXCEPT ![r[1]] = IF Repeats(r) THEN "later" ELSE "never"]
  /\ stale' = [stale EXCEPT ![r[1]] = FALSE]
  /\ delivered' = [delivered EXCEPT ![r[1]] = IF r[1] \in Crons /\ at[r] = "sent"
                                               THEN 0 ELSE @]
  /\ Ends({r})
  /\ UNCHANGED <<inst, crashes, lostAck, stolen, userVars>>

(* The commit of the finally, or a statement before the send, fails.        *)
Breaks(r) ==
  /\ at[r] \in Loaded
  /\ Ends({r})
  /\ UNCHANGED <<inst, crashes, rowVars, userVars, history>>

Crash(i) ==
  /\ crashes < MaxCrashes
  /\ crashes' = crashes + 1
  /\ Ends({r \in Runs : inst[r] = i})
  /\ UNCHANGED <<inst, rowVars, userVars, history>>

(* The event loop cancels its tasks before it closes.  In the send this     *)
(* CancelledError passes the `except Exception` that notes a failed         *)
(* delivery, and the finally takes it for a success.                        *)
Shutdown(i) ==
  /\ Graceful /\ crashes < MaxCrashes
  /\ crashes' = crashes + 1
  /\ at' = [r \in Runs |-> IF inst[r] # i THEN at[r]
                           ELSE IF at[r] = "sending" THEN "sent" ELSE "free"]
  /\ UNCHANGED <<inst, was, rowVars, userVars, history>>

----------------------------------------------------------------------------
Tools ==
  \/ \E j \in Jobs : SetReminder(j) \/ CancelFinds(j)
  \/ DisableFindsNone \/ CancelCommits

Execute(r) == Load(r) \/ Delivers(r) \/ SendFails(r) \/ Beat(r) \/ Finish(r) \/ Breaks(r)

Next ==
  \/ Tools
  \/ \E j \in Jobs : BecomesDue(j) \/ GoesStale(j)
  \/ \E i \in Instances : Crash(i) \/ Shutdown(i) \/ \E claimed \in SUBSET Jobs : Tick(i, claimed)
  \/ \E r \in Runs : Execute(r)

Spec == Init /\ [][Next]_vars

(* Every API process ticks every ten seconds; the semaphore hands out its   *)
(* permits in the order they were asked for; a send that is tried again and *)
(* again succeeds in the end.                                               *)
Ticks(j) == \E i \in Instances, claimed \in SUBSET Jobs : j \in claimed /\ Tick(i, claimed)

FairSpec ==
  /\ Spec
  /\ WF_vars(CancelCommits)
  /\ \A j \in Jobs : WF_vars(BecomesDue(j)) /\ WF_vars(GoesStale(j)) /\ WF_vars(Ticks(j))
  /\ \A r \in Runs : SF_vars(Load(r)) /\ WF_vars(Beat(r)) /\ WF_vars(Finish(r))
  /\ \A j \in Jobs : SF_vars(\E r \in Runs : r[1] = j /\ Delivers(r))
----------------------------------------------------------------------------
(* Properties. *)

(* However many processes tick at once, with or without the advisory lock,  *)
(* a row has one execution at a time unless a claim of it went stale, and   *)
(* while it has one the row is the claimed one or was cancelled meanwhile.  *)
OneExecutionPerClaim ==
  \A j \in Jobs \ stolen :
    /\ \A r, s \in Executions(j) : r = s
    /\ Executions(j) # {} => status[j] = "cancelled" \/ (status[j] = "running" /\ next[j] = "due")

(* A one-time reminder reaches the user twice only if an acknowledgement    *)
(* was lost or a claim of it went stale (crash, failed commit, long wait).  *)
DuplicatesExplained ==
  \A j \in OneShots : delivered[j] > 1 => j \in lostAck \cup stolen

(* A one-time reminder is marked done only after a message got through.     *)
DoneIsDelivered ==
  \A j \in OneShots : status[j] = "done" => delivered[j] > 0

(* A row cancelled while no execution had loaded it stays cancelled, and    *)
(* an execution still queued for it sends nothing.                          *)
FirmlyCancelled ==
  \A j \in firm : status[j] = "cancelled" /\ \A r \in Executions(j) : at[r] = "queued"

(* A reminder that has come due is delivered or cancelled, through crashes, *)
(* failed sends and failed commits.                                         *)
DueIsSettled ==
  \A j \in Reminders :
    status[j] = "active" /\ next[j] = "due" ~> delivered[j] > 0 \/ status[j] = "cancelled"
-----------------------------------------------------------------------------
(* What the documentation says and the code does not keep (README,          *)
(* "Disagreements"): a heartbeat the user was told is off is not scheduled  *)
(* again.                                                                   *)
ToldIsOff == \A j \in told : status[j] # "active"
=============================================================================
