------------------------------ MODULE AgentRun ------------------------------
(***************************************************************************)
(* One call of run_agent, from its row in table runs to its answer, for    *)
(* the turns of one session.                                               *)
(*                                                                         *)
(* The row is inserted uncommitted, committed with the customer's message  *)
(* before the graph starts, and closed by one of many exits.  An exit      *)
(* returns an answer (the caller commits), or raises (the caller decides). *)
(* The graph runs once, perhaps again after an error the code knows, and   *)
(* then once more for each follow-up the reply calls for; tools act on the *)
(* world in every attempt.  A paused graph waits in the process's memory   *)
(* for the customer's approval.                                            *)
(***************************************************************************)
EXTENDS Naturals, FiniteSets

CONSTANTS
    Turns,        \* turns of one session
    Callers,      \* who may call run_agent: functions from Turns to Kinds
    Watched,      \* turns one of whose attempts may act on the world
    MaxTroubles   \* bound on ends of the process and starts of another one

Kinds == {"wa", "api", "beat"}       \* customers on WhatsApp and HTTP, heartbeats
Earlier == "earlier"                 \* a turn before these, which asked for approval

ASSUME CallersAssumption == Callers \subseteq [Turns -> Kinds]
None == "none"

ASSUME BoundAssumption == MaxTroubles \in Nat
ASSUME NamesAssumption == Earlier \notin Turns /\ None \notin Turns

VARIABLES
    up,        \* the API process runs
    kind,      \* who called each turn
    run,       \* the turns
    store,     \* interrupt_store: the turn whose request waits for approval
    resumed,   \* history: the turns that brought a turn's request to its end
    troubles

vars == <<up, kind, run, store, resumed, troubles>>

(* A turn: where it is; its row as committed, and the status its open       *)
(* transaction holds; what it keeps open; its "still working" notice; the   *)
(* request it answers; the finished attempts whose tools acted on the       *)
(* world, those of them the current result covers, the follow-ups that took *)
(* a result's place; the messages added to the history and those committed,   *)
(* each named by its attempt; how the turn ended and what it told.          *)
(* What an attempt that did not finish has done is recorded nowhere.        *)
Status == {"running", "completed", "failed", "cancelled", "timed_out", "interrupted", "abandoned"}
Retries == {"json", "dangling", "google"}
Places == {"expected", "begun", "classifying", "resuming", "gate", "setup", "entered", "built", "main",
           "parsed", "more", "file", "fresh", "final", "guarding", "returning", "over"} \cup Retries
Attempts == {"direct", "main", "mcp", "more", "file", "fresh"} \cup Retries
OnThread == {"main", "json", "more"}      \* attempts that share the checkpointed thread
Messages == Attempts \cup {"request"}
Turn == [at : Places, row : Status \cup {None}, tx : Status \cup {None},
         holds : SUBSET {"sandbox", "typing"}, notice : {None, "waiting", "sent"},
         pending : Turns \cup {Earlier, None},
         did : SUBSET Attempts, steps : SUBSET Attempts, replaced : SUBSET {"mcp", "more"},
         added : SUBSET Messages, saved : SUBSET Messages,
         end : {None, "answered", "cancelled", "timed_out", "failed", "cut", "raised", "crashed"},
         told : {None, "result", "request", "apology", "validation"}]
Fresh == [at |-> "expected", row |-> None, tx |-> None,
          holds |-> {}, notice |-> None, pending |-> None,
          did |-> {}, steps |-> {}, replaced |-> {}, added |-> {}, saved |-> {},
          end |-> None, told |-> None]

Customer(t) == kind[t] \in {"wa", "api"}
Live(t) == run[t].at \notin {"expected", "over"}

Becomes(t, r) == run' = [run EXCEPT ![t] = r]
StoreKept == UNCHANGED <<store, resumed>>
Elsewhere == UNCHANGED <<up, kind, troubles>>

-----------------------------------------------------------------------------
(* The ways out of run_agent.                                               *)

(* An answer: the status is set in the open transaction.                    *)
Answers(r, status, said) == [r EXCEPT !.at = "returning", !.tx = status, !.told = said]

PersistKeepsTx(r, status) == [r EXCEPT !.tx = status]      \* mutant: flush for commit

(* _persist_run_failure commits, so that the caller's rollback keeps it.    *)
Persist(r, status) == [r EXCEPT !.row = status, !.tx = None, !.saved = r.added]

(* _cancel_wa_long_progress_notice, then _cleanup_sandboxes.                *)
NoticeOff(r) == [r EXCEPT !.notice = None]
Released(r) == [r EXCEPT !.holds = {}]

Closed(r, how) == [r EXCEPT !.at = "over", !.end = how, !.tx = None, !.steps = {}, !.pending = None,
                               !.notice = IF @ = "sent" THEN None ELSE @]
RolledBack(r, how) == [Closed(r, how) EXCEPT !.added = r.saved]
Committed(r, how) ==
    [Closed(r, how) EXCEPT !.saved = r.added,
                           !.row = IF r.tx = None THEN @ ELSE r.tx]

(* An exception: wa_incoming catches it and its request commits what is     *)
(* pending; the HTTP handler and the scheduler roll back.                   *)
Raised(t, r, how) == IF kind[t] = "wa" THEN Committed(r, how) ELSE RolledBack(r, how)

(* What an attempt adds to those that acted: itself, or nothing.  One per   *)
(* turn is followed: what becomes of one effect does not depend on others.  *)
Acts(t, a) == IF t \in Watched /\ run[t].did = {} THEN {{}, {a}} ELSE {{}}

-----------------------------------------------------------------------------
(* Before the graph.                                                        *)

(* Customers' turns run one at a time under the session lock; a heartbeat   *)
(* does not take it.                                                        *)
Begins(t) ==
    /\ up /\ run[t].at = "expected"
    /\ Customer(t) => \A u \in Turns \ {t} : Customer(u) => ~Live(u)
    /\ Becomes(t, [run[t] EXCEPT !.at = "begun", !.tx = "running"])
    /\ StoreKept

(* Mutant: the store's lock is taken when a turn begins and kept.           *)
LooksForInterruptAlone(t) ==
    /\ run[t].at = "begun"
    /\ \A u \in Turns \ {t} : ~Live(u)
    /\ Becomes(t, [run[t] EXCEPT !.at = "gate"])
    /\ StoreKept

LooksForInterrupt(t) ==
    /\ run[t].at = "begun"
    /\ Becomes(t, IF store = None THEN [run[t] EXCEPT !.at = "gate"]
                  ELSE [run[t] EXCEPT !.at = "classifying", !.pending = store])
    /\ StoreKept

(* _classify_hitl_decision asks a model.  An answer it cannot place drops   *)
(* whatever waits by then.                                                  *)
Classifies(t) ==
    /\ run[t].at = "classifying"
    /\ \/ /\ Becomes(t, [run[t] EXCEPT !.at = "gate"])
          /\ store' = None
       \/ /\ Becomes(t, [run[t] EXCEPT !.at = "resuming"])
          /\ UNCHANGED store
    /\ UNCHANGED resumed

ClearForgotten(t) == {store, t}                     \* mutant: the request stays

(* The store after a resumed graph came back: empty, or its next request.   *)
AfterResume(t) == {None, t}

(* The request is answered: the graph went on, and ended or asked again;    *)
(* or the resume failed, having perhaps acted all the same.                 *)
Resumes(t) ==
    /\ run[t].at = "resuming"
    /\ store' \in AfterResume(t)
    /\ resumed' = [resumed EXCEPT ![run[t].pending] = @ \cup {t}]
    /\ Becomes(t, IF store' = t THEN Answers(run[t], "interrupted", "request")
                  ELSE Answers(run[t], "completed", "result"))

ResumeFails(t) ==
    /\ run[t].at = "resuming"
    /\ store' = None
    /\ Becomes(t, Answers(run[t], "failed", "apology"))
    /\ UNCHANGED resumed

(* _pre_run_quota_gate: an owner without tokens answers nobody.             *)
Gates(t) ==
    /\ run[t].at = "gate"
    /\ \/ Becomes(t, Answers(run[t], "completed", "result"))
       \/ Becomes(t, [run[t] EXCEPT !.at = "setup", !.holds = {"sandbox"}])
    /\ StoreKept

(* _persist_inbound_user_message commits the row and the message, then the  *)
(* typing indicator starts.                                                 *)
Enters(t) ==
    /\ run[t].at = "setup"
    /\ Becomes(t, [Persist([run[t] EXCEPT !.added = {"request"}], "running") EXCEPT
                                 !.at = "entered",
                                 !.holds = @ \cup (IF kind[t] = "wa" THEN {"typing"} ELSE {})])
    /\ StoreKept

(* The Google account is not for this customer.                             *)
RefusesCustomer(t) ==
    /\ run[t].at = "entered"
    /\ Becomes(t, Released(Answers(run[t], "completed", "result")))
    /\ StoreKept

(* The tools are there, the graph is built.                                 *)
Prepares(t) ==
    /\ run[t].at = "entered"
    /\ Becomes(t, [run[t] EXCEPT !.at = "built"])
    /\ StoreKept

(* The Google account cannot be used before the customer connects it.       *)
BlocksBeforeGraph(t) == RefusesCustomer(t)

(* The current image is sent without the model.                             *)
SendsImage(t) ==
    /\ run[t].at = "built" /\ kind[t] = "wa"
    /\ \E sent \in Acts(t, "direct") :
          Becomes(t, Released(Answers([run[t] EXCEPT !.did = sent, !.added = @ \cup sent],
                                      "completed", "result")))
    /\ StoreKept
(* So is a text whose draft the operator has just confirmed.                *)
SendsConfirmedText(t) == SendsImage(t)

Starts(t) ==
    /\ run[t].at = "built"
    /\ Becomes(t, [run[t] EXCEPT !.at = "main"])
    /\ StoreKept

-----------------------------------------------------------------------------
(* The graph.                                                               *)

(* A tool that takes long starts the notice's timer, once per run.          *)
NoticeDue(t) ==
    /\ run[t].at \in {"main", "parsed", "more"} \cup Retries
    /\ kind[t] = "wa" /\ run[t].notice = None
    /\ Becomes(t, [run[t] EXCEPT !.notice = "waiting"])
    /\ StoreKept

(* The timer's task sends the notice and shows typing again.                *)
NoticeSent(t) ==
    /\ up /\ run[t].notice = "waiting"
    /\ Becomes(t, [run[t] EXCEPT !.notice = IF Live(t) THEN "sent" ELSE None, !.holds = @ \cup {"typing"}])
    /\ StoreKept

GraphEnds(t, a, covers) ==
    \E acted \in Acts(t, a) :
        /\ Becomes(t, [run[t] EXCEPT !.at = "parsed", !.did = @ \cup acted,
                                     !.steps = (run[t].did \cup acted) \cap covers])
        /\ StoreKept

(* handle_graph_interrupt: the paused graph is stored and the customer is   *)
(* asked; the notice's timer is left running.                               *)
GraphAsks(t) ==
    /\ Becomes(t, Released(Answers(run[t], "interrupted", "request")))
    /\ store' \in {store, t}      \* or the store could not take it
    /\ UNCHANGED resumed

MainEnds(t) == run[t].at = "main" /\ GraphEnds(t, "main", {"main"})
MainAsks(t) == run[t].at = "main" /\ GraphAsks(t)

(* The time limit, and an error no retry is known for: recorded, cleaned up *)
(* and raised.                                                              *)
GivesUp(t, how) ==
    /\ run[t].at = "main"
    /\ Becomes(t, Raised(t, Released(NoticeOff(Persist(run[t], how))), how))
    /\ StoreKept
MainTimesOut(t) == GivesUp(t, "timed_out")
MainFails(t) == GivesUp(t, "failed")

(* A Google request the tool refused: an explanation, no retry.             *)
Explains(r) == Released(Answers(r, "completed", "validation"))

MainErrs(t) ==
    /\ run[t].at = "main"
    /\ \/ Becomes(t, Explains(run[t]))
       \/ \E k \in Retries : Becomes(t, [run[t] EXCEPT !.at = k])
    /\ StoreKept

(* The same graph again, on its thread, after a response that was cut.      *)
JsonRetry(t) ==
    /\ run[t].at = "json"
    /\ \/ GraphEnds(t, "json", {"json"})
       \/ GraphAsks(t)
       \/ /\ Becomes(t, Released(NoticeOff(Answers(run[t], "failed", "apology"))))
          /\ StoreKept

(* A graph without the Deep Agents runtime after a lost tool result.  If it *)
(* is lost again the failure is committed; another error is flushed and     *)
(* raised.                                                                  *)
DanglingRetry(t) ==
    /\ run[t].at = "dangling"
    /\ \/ GraphEnds(t, "dangling", {"dangling"})
       \/ /\ \/ Becomes(t, Released(Answers(Persist(run[t], "failed"), None, "apology")))
             \/ Becomes(t, Raised(t, Released([run[t] EXCEPT !.tx = "failed"]), "raised"))
          /\ StoreKept

(* A graph told how to correct a refused Slides or Forms request.           *)
GoogleRetry(t) ==
    /\ run[t].at = "google"
    /\ \/ GraphEnds(t, "google", {"google"})
       \/ Becomes(t, Explains(run[t])) /\ StoreKept

-----------------------------------------------------------------------------
(* After the graph: the result is completed by further attempts.            *)

(* Each follow-up runs if the reply calls for it; its failure is caught and *)
(* leaves the result as it was.                                             *)
Skips(t, next) == Becomes(t, [run[t] EXCEPT !.at = next])

(* A Google-only graph takes the place of a result that went round Google.  *)
McpRetry(t) ==
    /\ run[t].at = "parsed"
    /\ \/ Skips(t, "more")
       \/ \E acted \in Acts(t, "mcp") :
             Becomes(t, [run[t] EXCEPT !.at = "more", !.did = @ \cup acted, !.steps = acted,
                                       !.replaced = @ \cup {"mcp"}])
    /\ StoreKept

(* The builder's create_agent, and a deployment's URL: the first graph goes *)
(* on with its thread, which knows nothing of the graphs made since.        *)
Continues(t) ==
    /\ run[t].at = "more"
    /\ \/ Skips(t, "file")
       \/ \E acted \in Acts(t, "more") :
             Becomes(t, [run[t] EXCEPT !.at = "file", !.did = @ \cup acted,
                                       !.steps = (run[t].did \cap OnThread) \cup acted,
                                       !.replaced = @ \cup {"more"}])
    /\ StoreKept

AddedLater(t) == {}                            \* mutant: added after the last follow-up only
AddedFirst(t) == run[t].steps

(* A promised file is sent; then the tool messages of the result are added. *)
SendsFile(t) ==
    /\ run[t].at = "file"
    /\ \E sent \in IF kind[t] = "wa" THEN Acts(t, "file") ELSE {{}} :
          Becomes(t, [run[t] EXCEPT !.at = "fresh", !.did = @ \cup sent, !.steps = @ \cup sent,
                                    !.added = @ \cup AddedFirst(t) \cup sent])
    /\ StoreKept

(* A form, a presentation or a sheet left empty: a graph of its own, whose  *)
(* messages are added to those of the result it replaces.                   *)
FillsArtifact(t) ==
    /\ run[t].at = "fresh"
    /\ \/ Skips(t, "final")
       \/ \E acted \in Acts(t, "fresh") :
             Becomes(t, [run[t] EXCEPT !.at = "final", !.did = @ \cup acted, !.steps = acted])
    /\ StoreKept

(* Only then are the notice and the sandboxes seen to.                      *)
CleansUp(t) ==
    /\ run[t].at = "final"
    /\ Becomes(t, Released(NoticeOff([run[t] EXCEPT !.at = "guarding", !.added = @ \cup run[t].steps])))
    /\ StoreKept

CompletesUncleaned(t) == run[t].at \in {"final", "guarding"}   \* mutant: cleanup may be skipped

(* Reply guards and memory come after the cleanup; then the row is closed.  *)
Guarded(t) == run[t].at = "guarding"

Completes(t) ==
    /\ Guarded(t)
    /\ Becomes(t, Answers(run[t], "completed", "result"))
    /\ StoreKept

(* The caller's transaction commits with the answer.                        *)
Returns(t) ==
    /\ run[t].at = "returning"
    /\ Becomes(t, Committed(run[t], "answered"))
    /\ StoreKept

-----------------------------------------------------------------------------
(* What can happen to a run.                                                *)

(* A newer message cancels the active task.  Only the first attempt of the  *)
(* graph has a handler for it.                                              *)
Cancelled(t) ==
    /\ Customer(t) /\ Live(t)
    /\ Becomes(t, IF run[t].at = "main"
                  THEN RolledBack(Released(NoticeOff(Persist(run[t], "cancelled"))), "cancelled")
                  ELSE RolledBack(run[t], "cut"))
    /\ StoreKept

(* An error outside the graph: a query, a tool's set-up, a guard.           *)
Raises(t) ==
    /\ run[t].at \in {"begun", "gate", "setup", "entered", "built", "file", "final", "guarding"}
    /\ Becomes(t, Raised(t, run[t], "raised"))
    /\ StoreKept

Crash ==
    /\ up /\ troubles < MaxTroubles
    /\ up' = FALSE
    /\ troubles' = troubles + 1
    /\ store' = None
    /\ run' = [t \in Turns |->
                 LET r == [run[t] EXCEPT !.notice = None]
                 IN  IF Live(t) THEN RolledBack(r, "crashed") ELSE r]
    /\ UNCHANGED <<kind, resumed>>

(* _abandon_running_runs, of every process that starts: every row that says *)
(* "running" is closed, unless another transaction has written one of them  *)
(* and the thirty seconds pass.                                             *)
Abandoned == [t \in Turns |->
                 [run[t] EXCEPT !.row = IF @ = "running" THEN "abandoned" ELSE @]]
Blocked == \E t \in Turns : run[t].row = "running" /\ run[t].tx # None
Sweeps == run' = IF Blocked THEN run ELSE Abandoned

Restart ==
    /\ ~up /\ up' = TRUE
    /\ Sweeps
    /\ StoreKept /\ UNCHANGED <<kind, troubles>>

AnotherProcessStarts ==
    /\ up /\ troubles < MaxTroubles
    /\ troubles' = troubles + 1
    /\ Sweeps
    /\ StoreKept /\ UNCHANGED <<up, kind>>

(* /reset over HTTP forgets the request; the channels' /reset does not.     *)
Reset ==
    /\ up /\ store # None
    /\ \E t \in Turns : kind[t] = "api"
    /\ store' = None
    /\ UNCHANGED <<up, kind, run, resumed, troubles>>

-----------------------------------------------------------------------------
Init ==
    /\ up = TRUE
    /\ run = [t \in Turns |-> Fresh]
    /\ kind \in Callers
    /\ store \in {None, Earlier}
    /\ resumed = [a \in Turns \cup {Earlier} |-> {}]
    /\ troubles = 0

(* What the turn's own task does next.                                      *)
Advances(t) ==
    \/ LooksForInterrupt(t) \/ Classifies(t) \/ Resumes(t) \/ ResumeFails(t) \/ Gates(t) \/ Enters(t)
    \/ RefusesCustomer(t) \/ BlocksBeforeGraph(t) \/ Prepares(t)
    \/ SendsImage(t) \/ SendsConfirmedText(t) \/ Starts(t)
    \/ MainEnds(t) \/ MainAsks(t) \/ MainTimesOut(t) \/ MainFails(t) \/ MainErrs(t) \/ JsonRetry(t) \/ DanglingRetry(t) \/ GoogleRetry(t)
    \/ McpRetry(t) \/ Continues(t) \/ SendsFile(t) \/ FillsArtifact(t) \/ CleansUp(t)
    \/ Completes(t) \/ Returns(t)

Next ==
    \/ \E t \in Turns :
          /\ Begins(t) \/ Advances(t) \/ Raises(t) \/ NoticeDue(t) \/ NoticeSent(t) \/ Cancelled(t)
          /\ Elsewhere
    \/ Crash \/ Restart \/ AnotherProcessStarts \/ Reset

Spec == Init /\ [][Next]_vars

(* Every graph call has a time limit and every other await an HTTP or       *)
(* database one: the task of a turn that began goes on.                     *)
Fairness == \A t \in Turns : WF_vars(Advances(t) /\ Elsewhere)
FairSpec == Spec /\ Fairness

-----------------------------------------------------------------------------
Over(t) == run[t].at = "over"

(* The committed row tells how the turn ended, whatever the caller rolled   *)
(* back and whoever swept: what the customer was told, or that the first    *)
(* attempt was cancelled, timed out or failed.  Only a turn that was cut or *)
(* raised outside that attempt, or that the process did not survive, may    *)
(* be left "running" (_persist_run_failure).                                *)
RowTellsTheEnd ==
    \A t \in Turns : Over(t) =>
        LET r == run[t] IN
        /\ r.end \in {"cancelled", "timed_out", "failed"} => r.row = r.end
        /\ r.end = "answered" => CASE r.told = "request" -> r.row = "interrupted"
                                   [] r.told = "apology" -> r.row = "failed"
                                   [] OTHER -> r.row = "completed"
        /\ r.row \in {None, "running", "abandoned"} => r.end \in {"cut", "raised", "crashed"}
(* Once the graph could start, the customer's message is stored, however    *)
(* the turn ends (_persist_inbound_user_message).                           *)
RequestSurvives ==
    \A t \in Turns : (run[t].did # {} \/ run[t].end \in {"cancelled", "timed_out", "failed"})
                         => "request" \in run[t].saved
RunAccounted == RowTellsTheEnd /\ RequestSurvives

(* What a finished attempt of an answered run did to the world is in the    *)
(* stored history, so that later turns know of it.  The exceptions: the     *)
(* Google-only retry drops the attempt it replaces, and a follow-up on the  *)
(* first thread drops what other graphs did in between.                     *)
MayBeDropped(r) ==
    (IF "mcp" \in r.replaced THEN {"main"} \cup Retries ELSE {})
    \cup (IF "more" \in r.replaced THEN Attempts \ OnThread ELSE {})
EffectsAreWritten ==
    \A t \in Turns : (Over(t) /\ run[t].end = "answered" /\ run[t].told = "result") =>
        run[t].did \subseteq run[t].saved \cup (MayBeDropped(run[t]) \ {"file", "fresh", "direct"})

(* A run that ended in its first attempt or went through to its result      *)
(* leaves nothing behind: no sandbox, no typing indicator, and no "still    *)
(* working" notice that arrives after the answer.                           *)
NothingOutlivesTheRun ==
    \A t \in Turns :
        (Over(t) /\ (run[t].end \in {"cancelled", "timed_out", "failed"}
                     \/ (run[t].end = "answered" /\ run[t].told = "result")))
        => run[t].holds = {} /\ run[t].notice # "waiting"

(* No two turns of customers bring the same approval request to its end:    *)
(* what was approved is not done again by the next "yes" (a heartbeat that  *)
(* runs beside a turn is not held back).                                    *)
ApprovedOnce ==
    \A a \in Turns \cup {Earlier} : Cardinality({t \in resumed[a] : Customer(t)}) <= 1

(* Every turn that began comes to an end.                                   *)
EveryTurnEnds == \A t \in Turns : run[t].at # "expected" ~> Over(t)
=============================================================================
