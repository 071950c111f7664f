---------------------------- MODULE SessionTurn ----------------------------
(***************************************************************************)
(* The turns of ONE chat session, as app/core/engine/session_lock.py and   *)
(* the request handlers that use it run them.                              *)
(*                                                                         *)
(* Every inbound message is an asyncio task.  A step of this module is     *)
(* what a task does between two suspension points: the bodies guarded by   *)
(* _manager_lock, _task_registry_lock and _turn_generation_lock contain no *)
(* await, so those three locks are never contended and whole stretches of  *)
(* a handler run without interleaving.                                     *)
(***************************************************************************)
EXTENDS Naturals, FiniteSets

CONSTANTS
  ApiTurns,  \* requests served by messages.py send_message
  WaTurns,   \* customer messages served by channels.py incoming_message / wa_incoming
  Resumes,   \* runs that take the lock but no turn: operator turns, resumed workflows
  Stops,     \* messages that cancel the active run and run nothing (spam, noise, /stop)
  SlowRuns,  \* whether a run may hold the lock for longer than _max_lock_age
  NoTask     \* the empty registry slot

Turns == ApiTurns \cup WaTurns
Tasks == Turns \cup Resumes \cup Stops

ASSUME KindsAssumption ==
  /\ NoTask \notin Tasks
  /\ SlowRuns \in BOOLEAN
  /\ ApiTurns \cap WaTurns = {}
  /\ Turns \cap (Resumes \cup Stops) = {}
  /\ Resumes \cap Stops = {}

VARIABLES
  entry,       \* _locks[session]: lock object (0 = no entry), acquired_at set or not
  made,        \* asyncio.Lock objects created so far; their identities are 1..made
  active,      \* _active_tasks[session]
  gen,         \* _turn_generations[session]
  num,         \* turn_generation, the local variable of each handler
  pc,          \* where each task is suspended
  lockOf,      \* the lock object a task waits for or holds
  ahead,       \* the waiters that stood before a task when it joined the queue
  target,      \* the task cancel_active_run waits for
  pending,     \* tasks with a CancelledError still to be delivered
  interrupted, \* tasks on which cancel_active_run has called task.cancel()
  expired,     \* tasks whose asyncio.timeout(_lock_timeout) has fired
  disabled,    \* session.ai_disabled, as committed
  rec,         \* the durable status of each task's Run row
  outcome      \* how each request ended

lockVars == <<entry, made, lockOf, ahead>>
turnVars == <<gen, num>>
cancelVars == <<target, pending, interrupted, expired>>
vars == <<entry, made, active, gen, num, pc, lockOf, ahead, target, pending,
          interrupted, expired, disabled, rec, outcome>>

----------------------------------------------------------------------------
(* Where a task can be.  "grace" is the shielded wait of cancel_active_run; *)
(* "refresh" is db.refresh(ai_disabled); "setup", "invoke" and "finish" are *)
(* run_agent before, inside and after the try around graph.ainvoke;         *)
(* "persist" and "cleanup" are its CancelledError branch; "post" is the     *)
(* token commit and the reply after the lock was released.  The retries of  *)
(* the except branches belong to "finish": nothing catches a CancelledError *)
(* there any more.                                                          *)
Running == {"setup", "invoke", "finish"}
Unwinding == {"persist", "cleanup"}
Holding == {"refresh"} \cup Running \cup Unwinding
Places == {"idle", "grace", "queued", "post", "commit", "done"} \cup Holding

Statuses == {"none", "running", "completed", "cancelled", "failed"}
Outcomes == {"none", "stale", "cancelled", "timeout", "disabled", "error",
             "suppressed", "replied", "stopped"}

LockEntry == [lock : Nat, acquired : BOOLEAN]

TypeOK ==
  /\ entry \in LockEntry
  /\ made \in Nat
  /\ active \in Tasks \cup {NoTask}
  /\ gen \in Nat
  /\ num \in [Tasks -> Nat]
  /\ pc \in [Tasks -> Places]
  /\ lockOf \in [Tasks -> Nat]
  /\ ahead \in [Tasks -> SUBSET Tasks]
  /\ target \in [Tasks -> Tasks \cup {NoTask}]
  /\ pending \in SUBSET Tasks
  /\ interrupted \in SUBSET Tasks
  /\ expired \in SUBSET Tasks
  /\ disabled \in BOOLEAN
  /\ rec \in [Tasks -> Statuses]
  /\ outcome \in [Tasks -> Outcomes]

NoEntry == [lock |-> 0, acquired |-> FALSE]
FreshEntry == [lock |-> made + 1, acquired |-> FALSE]

Init ==
  /\ entry = NoEntry /\ made = 0 /\ active = NoTask /\ gen = 0
  /\ num = [t \in Tasks |-> 0]
  /\ pc = [t \in Tasks |-> "idle"]
  /\ lockOf = [t \in Tasks |-> 0]
  /\ ahead = [t \in Tasks |-> {}]
  /\ target = [t \in Tasks |-> NoTask]
  /\ pending = {} /\ interrupted = {} /\ expired = {}
  /\ disabled = FALSE
  /\ rec = [t \in Tasks |-> "none"]
  /\ outcome = [t \in Tasks |-> "none"]

----------------------------------------------------------------------------
(* session_run_lock *)

Holds(t, l) == pc[t] \in Holding /\ lockOf[t] = l
Waits(t, l) == pc[t] = "queued" /\ lockOf[t] = l
Locked(l) == \E t \in Tasks : Holds(t, l)

(* Mutant: acquire looks at the waiters only. *)
FreeUnlessQueued(l) == \A t \in Tasks : ~Waits(t, l)

(* asyncio.Lock.acquire takes the lock without suspending only when nobody  *)
(* holds it and nobody queues for it.                                       *)
Free(l) == ~Locked(l) /\ \A t \in Tasks : ~Waits(t, l)

(* The entries session_run_lock may settle on: the one _get_lock finds or   *)
(* makes; and a fresh one when the lock is held and its acquired_at is      *)
(* further back than the longest run.                                       *)
Entries ==
  IF entry.lock = 0 THEN {FreshEntry}
  ELSE {entry} \cup {e \in {FreshEntry} : SlowRuns /\ Locked(entry.lock) /\ entry.acquired}

(* _set_acquired writes to whatever entry the session has at that moment.   *)
Stamped(e, acquired) == IF e.lock = 0 THEN e ELSE [e EXCEPT !.acquired = acquired]

Goto(t, place) == pc' = [pc EXCEPT ![t] = place]
Finish(t, how) == Goto(t, "done") /\ outcome' = [outcome EXCEPT ![t] = how]

(* Mutant: <= for ==. *)
IsLatestOrOlder(t) == num[t] <= gen

(* is_latest_session_turn *)
IsLatest(t) == num[t] = gen

(* What a task does once it holds the lock l while the session's entry is   *)
(* e, up to its next suspension.                                            *)
(* A superseded turn leaves at once; a WhatsApp turn awaits db.refresh; the *)
(* others go on into run_agent, an API turn registering itself on the way.  *)
Body(t, l, e, latest) ==
  \/ /\ t \in Turns /\ ~latest
     /\ Finish(t, "stale")
     /\ entry' = Stamped(e, FALSE)
     /\ lockOf' = [lockOf EXCEPT ![t] = 0]
     /\ UNCHANGED active
  \/ /\ t \in WaTurns /\ latest
     /\ Goto(t, "refresh")
     /\ entry' = Stamped(e, TRUE)
     /\ lockOf' = [lockOf EXCEPT ![t] = l]
     /\ UNCHANGED <<active, outcome>>
  \/ /\ t \in Resumes \/ (t \in ApiTurns /\ latest)
     /\ Goto(t, "setup")
     /\ entry' = Stamped(e, TRUE)
     /\ lockOf' = [lockOf EXCEPT ![t] = l]
     /\ active' = IF t \in ApiTurns THEN t ELSE active
     /\ UNCHANGED outcome

(* `async with session_run_lock` reached with e as the session's entry.     *)
Enter(t, e, latest) ==
  /\ made' = IF e.lock > made THEN e.lock ELSE made
  /\ \/ /\ Free(e.lock)
        /\ Body(t, e.lock, e, latest)
        /\ UNCHANGED ahead
     \/ /\ ~Free(e.lock)
        /\ Goto(t, "queued")
        /\ lockOf' = [lockOf EXCEPT ![t] = e.lock]
        /\ ahead' = [ahead EXCEPT ![t] = {u \in Tasks : Waits(u, e.lock)}]
        /\ entry' = e
        /\ UNCHANGED <<active, outcome>>

(* The first waiter of a released lock runs.                                *)
Wake(t) ==
  /\ pc[t] = "queued"
  /\ ~Locked(lockOf[t])
  /\ \A u \in ahead[t] : ~Waits(u, lockOf[t])
  /\ Body(t, lockOf[t], entry, IsLatest(t))
  /\ ahead' = [ahead EXCEPT ![t] = {}]
  /\ UNCHANGED <<made, disabled, rec>>
  /\ UNCHANGED <<turnVars, cancelVars>>

(* Mutant: the finally clears the timestamp and leaves the registry alone. *)
LeaveLockRegistered(t) ==
  /\ entry' = Stamped(entry, FALSE)
  /\ lockOf' = [lockOf EXCEPT ![t] = 0]
  /\ UNCHANGED <<made, ahead, active>>

(* Mutant: the finally leaves acquired_at alone. *)
LeaveLockStamped(t) ==
  /\ active' = IF active = t THEN NoTask ELSE active
  /\ lockOf' = [lockOf EXCEPT ![t] = 0]
  /\ UNCHANGED <<made, ahead, entry>>

(* The end of `async with session_run_lock` and the handler's finally: the  *)
(* timestamp is cleared on the entry the session has NOW, and the registry  *)
(* slot only if it still names this task.                                   *)
LeaveLock(t) ==
  /\ entry' = Stamped(entry, FALSE)
  /\ active' = IF active = t THEN NoTask ELSE active
  /\ lockOf' = [lockOf EXCEPT ![t] = 0]
  /\ UNCHANGED <<made, ahead>>

(* _maybe_evict, spawned by the end of any session's run: an entry nobody   *)
(* looked up for _EVICTION_TTL and whose lock is not held is dropped.       *)
Evict ==
  /\ entry.lock # 0 /\ ~Locked(entry.lock)
  /\ entry' = NoEntry
  /\ UNCHANGED <<made, active, pc, lockOf, ahead, disabled, rec, outcome>>
  /\ UNCHANGED <<turnVars, cancelVars>>

----------------------------------------------------------------------------
(* Arrival: mark_latest_session_turn, then cancel_active_run.               *)

(* Mutant: task.done() is tested the wrong way round. *)
CancellableWhenDone == active # NoTask /\ pc[active] = "done"

Cancellable == active # NoTask /\ pc[active] # "done"

(* Mutant: waits for the registered task without cancelling it. *)
CancelActiveByWaiting(t) ==
  /\ Cancellable
  /\ interrupted' = interrupted \cup {active}
  /\ target' = [target EXCEPT ![t] = active]
  /\ Goto(t, "grace")
  /\ UNCHANGED <<entry, made, lockOf, ahead, active, outcome, expired, pending>>

(* task.cancel() on the registered task, then the wait for it to end.       *)
CancelActive(t) ==
  /\ Cancellable
  /\ pending' = pending \cup {active}
  /\ interrupted' = interrupted \cup {active}
  /\ target' = [target EXCEPT ![t] = active]
  /\ Goto(t, "grace")
  /\ UNCHANGED <<entry, made, lockOf, ahead, active, outcome, expired>>

(* Mutant: the generation is read and not incremented. *)
ArriveTurnUnmarked(t) ==
  /\ t \in Turns /\ pc[t] = "idle"
  /\ num' = [num EXCEPT ![t] = gen]
  /\ \/ CancelActive(t)
     \/ ~Cancellable /\ (\E e \in Entries : Enter(t, e, TRUE)) /\ UNCHANGED cancelVars
  /\ UNCHANGED <<gen, disabled, rec>>

ArriveTurn(t) ==
  /\ t \in Turns /\ pc[t] = "idle"
  /\ gen' = gen + 1
  /\ num' = [num EXCEPT ![t] = gen + 1]
  /\ \/ CancelActive(t)
     \/ ~Cancellable /\ (\E e \in Entries : Enter(t, e, TRUE)) /\ UNCHANGED cancelVars
  /\ UNCHANGED <<disabled, rec>>

ArriveResume(t) ==
  /\ t \in Resumes /\ pc[t] = "idle"
  /\ \E e \in Entries : Enter(t, e, IsLatest(t))
  /\ UNCHANGED <<disabled, rec>>
  /\ UNCHANGED <<turnVars, cancelVars>>

ArriveStop(t) ==
  /\ t \in Stops /\ pc[t] = "idle"
  /\ \/ CancelActive(t)
     \/ /\ ~Cancellable
        /\ Goto(t, "commit")
        /\ UNCHANGED <<lockVars, active, outcome, cancelVars>>
  /\ UNCHANGED <<disabled, rec, turnVars>>

(* cancel_active_run returns: the old task ended within the grace ...       *)
GraceEnds(t) ==
  /\ pc[t] = "grace" /\ pc[target[t]] = "done"
  /\ \/ t \in Turns /\ (\E e \in Entries : Enter(t, e, IsLatest(t)))
     \/ t \in Stops /\ Goto(t, "commit") /\ UNCHANGED <<lockVars, active, outcome>>
  /\ UNCHANGED <<disabled, rec>>
  /\ target' = [target EXCEPT ![t] = NoTask]
  /\ UNCHANGED <<pending, interrupted, expired, turnVars>>

(* Mutant: no force_release_session_lock after the grace. *)
GraceExpiresUnforced(t) ==
  /\ pc[t] = "grace" /\ pc[target[t]] # "done"
  /\ \/ t \in Turns /\ (\E e \in Entries : Enter(t, e, IsLatest(t)))
     \/ t \in Stops /\ Goto(t, "commit") /\ UNCHANGED <<lockVars, active, outcome>>
  /\ UNCHANGED <<disabled, rec>>
  /\ target' = [target EXCEPT ![t] = NoTask]
  /\ UNCHANGED <<pending, interrupted, expired, turnVars>>

(* ... or the grace ran out first and force_release_session_lock replaces   *)
(* the entry; the old task keeps the lock object it holds.                  *)
GraceExpires(t) ==
  /\ pc[t] = "grace" /\ pc[target[t]] # "done"
  /\ \/ t \in Turns /\ Enter(t, FreshEntry, IsLatest(t))
     \/ /\ t \in Stops
        /\ Goto(t, "commit")
        /\ entry' = FreshEntry /\ made' = made + 1
        /\ UNCHANGED <<lockOf, ahead, active, outcome>>
  /\ UNCHANGED <<disabled, rec>>
  /\ target' = [target EXCEPT ![t] = NoTask]
  /\ UNCHANGED <<pending, interrupted, expired, turnVars>>

(* The stop handler commits its effect, which for spam switches the session *)
(* off, and returns.                                                        *)
CommitStop(t) ==
  /\ pc[t] = "commit"
  /\ disabled' \in {disabled, TRUE}
  /\ Finish(t, "stopped")
  /\ UNCHANGED <<lockVars, active, rec>>
  /\ UNCHANGED <<turnVars, cancelVars>>

----------------------------------------------------------------------------
(* run_agent, as far as the session's turns can tell.                       *)

(* Mutant: ai_disabled is not looked at again after the wait. *)
RefreshedUnchecked(t) ==
  /\ t \in WaTurns /\ pc[t] = "refresh"
  /\ active' = t
  /\ Goto(t, "setup")
  /\ UNCHANGED <<lockVars, outcome, disabled, rec>>
  /\ UNCHANGED <<turnVars, cancelVars>>

(* db.refresh(ai_disabled) returned: a disabled session leaves, the others  *)
(* register and start the run.                                              *)
Refreshed(t) ==
  /\ t \in WaTurns /\ pc[t] = "refresh"
  /\ \/ /\ disabled
        /\ LeaveLock(t) /\ Finish(t, "disabled")
     \/ /\ ~disabled
        /\ active' = t
        /\ Goto(t, "setup")
        /\ UNCHANGED <<lockVars, outcome>>
  /\ UNCHANGED <<disabled, rec>>
  /\ UNCHANGED <<turnVars, cancelVars>>

(* _persist_inbound_user_message commits the Run row while it says running. *)
PersistInbound(t) ==
  /\ pc[t] = "setup" /\ t \notin pending /\ rec[t] = "none"
  /\ rec' = [rec EXCEPT ![t] = "running"]
  /\ UNCHANGED <<lockVars, active, pc, disabled, outcome>>
  /\ UNCHANGED <<turnVars, cancelVars>>

StartGraph(t) ==
  /\ pc[t] = "setup" /\ t \notin pending /\ rec[t] = "running"
  /\ Goto(t, "invoke")
  /\ UNCHANGED <<lockVars, active, disabled, rec, outcome>>
  /\ UNCHANGED <<turnVars, cancelVars>>

GraphReturns(t) ==
  /\ pc[t] = "invoke" /\ t \notin pending
  /\ Goto(t, "finish")
  /\ UNCHANGED <<lockVars, active, disabled, rec, outcome>>
  /\ UNCHANGED <<turnVars, cancelVars>>

(* run_agent returns a result.  The handler asks once more whether its turn *)
(* is the newest; if not, the reply is thrown away.                         *)
RunReturns(t) ==
  /\ pc[t] \in {"setup", "finish"} /\ t \notin pending /\ rec[t] = "running"
  /\ rec' = [rec EXCEPT ![t] = "completed"]
  /\ LeaveLock(t)
  /\ IF t \in Turns /\ ~IsLatest(t)
       THEN Finish(t, "suppressed")
       ELSE Goto(t, "post") /\ UNCHANGED outcome
  /\ UNCHANGED disabled
  /\ UNCHANGED <<turnVars, cancelVars>>

(* run_agent raises.  The except branches around graph.ainvoke commit the   *)
(* failure to the Run row, some of the retries that follow them do not, and *)
(* outside them nobody does.                                                *)
RunFails(t) ==
  /\ pc[t] \in Running /\ t \notin pending
  /\ \/ pc[t] # "invoke" /\ UNCHANGED rec
     \/ pc[t] # "setup" /\ rec' = [rec EXCEPT ![t] = "failed"]
  /\ LeaveLock(t) /\ Finish(t, "error")
  /\ UNCHANGED disabled
  /\ UNCHANGED <<turnVars, cancelVars>>

(* How a request ends once its CancelledError has left run_agent: asyncio's *)
(* timeout turns it into TimeoutError unless somebody else cancelled too.   *)
HowCancelled(t) == IF t \in expired \ interrupted THEN "timeout" ELSE "cancelled"

(* A CancelledError is delivered.  Inside graph.ainvoke it is caught and    *)
(* recorded; before it, after it, or while that record is being written, it *)
(* goes straight out of run_agent.                                          *)
CancelLands(t) ==
  /\ t \in pending
  /\ pending' = pending \ {t}
  /\ \/ /\ pc[t] = "invoke"
        /\ Goto(t, "persist")
        /\ UNCHANGED <<lockVars, active, outcome, rec>>
     \/ /\ pc[t] \in {"setup", "finish", "cleanup"}
        /\ LeaveLock(t) /\ Finish(t, HowCancelled(t))
        /\ UNCHANGED rec
     \/ /\ pc[t] = "persist"
        /\ \/ UNCHANGED rec
           \/ rec' = [rec EXCEPT ![t] = "cancelled"]
        /\ LeaveLock(t) /\ Finish(t, HowCancelled(t))
  /\ UNCHANGED <<target, interrupted, expired, disabled>>
  /\ UNCHANGED turnVars

PersistCancelled(t) ==
  /\ pc[t] = "persist" /\ t \notin pending
  /\ rec' = [rec EXCEPT ![t] = "cancelled"]
  /\ Goto(t, "cleanup")
  /\ UNCHANGED <<lockVars, active, disabled, outcome>>
  /\ UNCHANGED <<turnVars, cancelVars>>

CleanedUp(t) ==
  /\ pc[t] = "cleanup" /\ t \notin pending
  /\ LeaveLock(t) /\ Finish(t, HowCancelled(t))
  /\ UNCHANGED <<disabled, rec>>
  /\ UNCHANGED <<turnVars, cancelVars>>

----------------------------------------------------------------------------
(* asyncio.timeout(_lock_timeout) spans the wait AND the whole run with its *)
(* setup and cleanup, so it may strike wherever the task is suspended.      *)

Deadline(t) ==
  /\ t \notin expired
  /\ expired' = expired \cup {t}
  /\ \/ /\ pc[t] = "queued"
        /\ Finish(t, "timeout")
        /\ lockOf' = [lockOf EXCEPT ![t] = 0]
        /\ ahead' = [ahead EXCEPT ![t] = {}]
        /\ UNCHANGED <<entry, made, active, pending>>
     \/ /\ pc[t] = "refresh"
        /\ LeaveLock(t) /\ Finish(t, "timeout")
        /\ UNCHANGED pending
     \/ /\ pc[t] \in Running \cup Unwinding
        /\ pending' = pending \cup {t}
        /\ UNCHANGED <<lockVars, active, pc, outcome>>
  /\ UNCHANGED <<target, interrupted, disabled, rec>>
  /\ UNCHANGED turnVars

(* After the lock: tokens are charged and the reply goes out.               *)
SendReply(t) ==
  /\ pc[t] = "post"
  /\ Finish(t, "replied")
  /\ UNCHANGED <<lockVars, active, disabled, rec>>
  /\ UNCHANGED <<turnVars, cancelVars>>

----------------------------------------------------------------------------
Arrive(t) == ArriveTurn(t) \/ ArriveResume(t) \/ ArriveStop(t)

(* What the event loop and the run's own timeout guarantee: every step but  *)
(* the end of a cancelled run's cleanup, which may hang.                    *)
Progress(t) ==
  \/ GraceEnds(t) \/ GraceExpires(t) \/ CommitStop(t) \/ Wake(t)
  \/ Refreshed(t) \/ PersistInbound(t) \/ StartGraph(t) \/ GraphReturns(t)
  \/ RunReturns(t) \/ RunFails(t) \/ CancelLands(t) \/ SendReply(t)

Other(t) == PersistCancelled(t) \/ CleanedUp(t) \/ Deadline(t)

Next == Evict \/ \E t \in Tasks : Arrive(t) \/ Progress(t) \/ Other(t)

Spec == Init /\ [][Next]_vars
FairSpec == Spec /\ \A t \in Tasks : WF_vars(Progress(t))
----------------------------------------------------------------------------
(* Properties. *)

(* A run nobody has told to stop. *)
Live(t) == pc[t] \in Running /\ t \notin pending

(* One asyncio.Lock object never has two holders, whatever replaced,        *)
(* evicted or re-created the session's entry in the meantime: two runs      *)
(* overlap only on different lock objects.                                  *)
LockObjectExclusive ==
  \A t, u \in Tasks : \A l \in 1..made : Holds(t, l) /\ Holds(u, l) => t = u

(* The registry never names a task whose run is over, so cancel_active_run  *)
(* cannot cancel a request that is already sending its reply.               *)
RegistryNamesRunner ==
  active # NoTask => pc[active] \in Running \cup Unwinding

(* cancel_active_run is only ever aimed at a turn that a newer turn has     *)
(* superseded, unless a stop message asked for it.                          *)
InterruptedIsSuperseded ==
  \A t \in interrupted :
    \/ num[t] < gen
    \/ \E s \in Stops : pc[s] # "idle"

(* When no request is in flight nothing is left behind: no registered task, *)
(* no acquisition time on the entry, no undelivered cancellation.           *)
QuiescentClean ==
  (\A t \in Tasks : pc[t] \in {"idle", "done"}) =>
    active = NoTask /\ ~entry.acquired /\ pending = {}

(* A session that was switched off runs nothing new: a customer turn passes *)
(* its ai_disabled check only if it did so before the switch was committed. *)
NoRunStartsDisabled ==
  [][disabled => \A t \in WaTurns : pc[t] = "refresh" => pc'[t] # "setup"]_vars

(* With API turns alone, the run that is live is the newest turn and the    *)
(* one the registry would cancel; so at most one is live.                   *)
LiveTurnIsNewest ==
  \A t \in Tasks : Live(t) => num[t] = gen /\ active = t

(* Whatever hangs in the cleanup of an interrupted run, the newest turn is  *)
(* answered, fails, or is superseded.                                       *)
NewestIsServed ==
  \A t \in Turns :
    pc[t] # "idle" ~> pc[t] \in Unwinding \cup {"post", "done"} \/ ~IsLatest(t)

(* docs/recap.md: the newest message "must not wait for the old run": it    *)
(* queues only behind a run that has been told to stop.                     *)
NewestQueuesBehindNoLiveRun ==
  \A t \in Turns : pc[t] = "queued" /\ IsLatest(t) =>
    \A u \in Tasks : Holds(u, lockOf[t]) => ~Live(u)

-----------------------------------------------------------------------------
(* What comments of the code say and the code does not keep (README,        *)
(* "Disagreements").                                                        *)

(* session_lock.py: the lock "prevents concurrent runs on the same session";*)
(* two runs nobody told to stop never overlap.                              *)
LiveRunsExclusive ==
  \A t, u \in Tasks : Live(t) /\ Live(u) => t = u

(* agent_runner.py, _persist_run_failure: no run "is left stuck as          *)
(* 'running'".                                                              *)
TerminalRecord ==
  \A t \in Tasks : pc[t] = "done" => rec[t] # "running"
=============================================================================
