---------------------------- MODULE OperatorDesk ----------------------------
(***************************************************************************)
(* Escalations and the operator's answers: customers' requests open cases  *)
(* (core/tools/escalation_tool.py, the spam stop of api/channels.py) whose *)
(* notifications the operators quote; a quoted answer becomes a draft that *)
(* "kirim" sends (api/channels.py, api/wa_helpers.py).                     *)
(*                                                                         *)
(* Everything is remembered in Session.metadata_, one JSON value a request *)
(* reads once, when its ORM object is loaded, and writes back as a whole:  *)
(* nothing is expired on commit.  A step lies between two commits or       *)
(* outbound messages.  All operators of an agent share ONE operator        *)
(* session, and a customer is a direct chat, whose phone number leads back *)
(* to its session.                                                         *)
(***************************************************************************)
EXTENDS Naturals, FiniteSets

CONSTANTS
  Customers,  \* customer sessions of the agent
  Requests,   \* messages of operators, each handled by one request
  MaxCases,   \* bound: cases opened for one customer
  Quoters,    \* bound: those of them that may quote a notification
  MaxFlight,  \* bound: operator requests in flight at once
  None        \* a missing key

ASSUME DeskAssumption ==
  /\ MaxCases \in Nat
  /\ Quoters \subseteq Requests
  /\ MaxFlight \in Nat
  /\ None \notin Customers \cup [by : Requests, cust : Customers, case : 1..MaxCases]

Cases == 1..MaxCases
Notes == Customers \X Cases

(* What is drafted: the text and the media one request staged.              *)
Items == Requests \X {"text", "media"}

VARIABLES
  cust,     \* metadata of each customer's session
  disabled, \* ai_disabled of each customer's session
  visit,    \* the customer's request in flight and the metadata it loaded
  opened,   \* cases opened so far; they are numbered in that order
  notes,    \* notifications in the operators' chat: customer and case
  oper,     \* metadata of the operator session
  req,      \* the operators' requests
  expired,  \* requests whose pending item is past its hour
  times,    \* how often each item reached a customer (2 = more than once)
  astray,   \* items that reached a customer they do not answer
  torn,     \* items with an unacknowledged attempt to send or a failed commit after it
  raced,    \* items another request had loaded while they were sent or forgotten
  meant,    \* the customer whose case an item answers
  revised,  \* requests whose text revised a pending draft
  reopened, \* cases drafted for anew by a request that came after their answer
  answered, \* cases whose reply was sent and committed
  stops     \* autostops so far

custVars == <<cust, disabled, visit, opened, notes, stops>>
ledger == <<times, astray, torn, raced>>
vars == <<cust, disabled, visit, opened, notes, oper, req, expired, times, astray,
          torn, raced, meant, revised, reopened, answered, stops>>

----------------------------------------------------------------------------
CaseOrNone == 0..MaxCases

(* escalation_case_id, escalation_replied_case, and the case whose          *)
(* notification escalation_message_ids names.                               *)
CustMeta == [case : CaseOrNone, replied : CaseOrNone, note : CaseOrNone]
NoCase == [case |-> 0, replied |-> 0, note |-> 0]

(* active_escalation_reply, pending_operator_text_reply,                    *)
(* pending_operator_media.                                                  *)
Slot == [by : Requests, cust : Customers, case : Cases] \cup {None}
OperMeta == [route : Slot, draft : Slot, media : Slot]
NothingPending == [route |-> None, draft |-> None, media |-> None]

Visits == [at : {"none", "spam", "stopped", "run"}, meta : CustMeta]
NoVisit == [at |-> "none", meta |-> NoCase]

(* What a request loads and uses: my, the operator session; target, case    *)
(* and theirs, the customer's; off, whether it was disabled then.           *)
(* stops, known and told are for the properties.                            *)
Kinds == {"none", "text", "media", "aktif", "kirim", "approve", "revise", "chat", "reset"}
Places == {"new", "routing", "handling", "composing", "sentText", "sentMedia", "done"}
RequestState ==
  [kind : Kinds, at : Places, my : OperMeta, target : Customers \cup {None},
   case : CaseOrNone, theirs : CustMeta, off : BOOLEAN, stops : CaseOrNone,
   known : SUBSET Notes, told : BOOLEAN]
NotArrived ==
  [kind |-> "none", at |-> "new", my |-> NothingPending, target |-> None, case |-> 0,
   theirs |-> NoCase, off |-> FALSE, stops |-> 0, known |-> {}, told |-> FALSE]

TypeOK ==
  /\ cust \in [Customers -> CustMeta]
  /\ disabled \in [Customers -> BOOLEAN]
  /\ visit \in [Customers -> Visits]
  /\ opened \in [Customers -> CaseOrNone]
  /\ notes \in SUBSET Notes
  /\ oper \in OperMeta
  /\ req \in [Requests -> RequestState]
  /\ expired \in SUBSET Requests
  /\ times \in [Items -> 0..2]
  /\ astray \in SUBSET Items /\ torn \in SUBSET Items /\ raced \in SUBSET Items
  /\ meant \in [Items -> Customers \cup {None}]
  /\ revised \in SUBSET Requests
  /\ reopened \in SUBSET Notes /\ answered \in SUBSET Notes
  /\ stops \in [Customers -> CaseOrNone]

Init ==
  /\ cust = [c \in Customers |-> NoCase]
  /\ disabled = [c \in Customers |-> FALSE]
  /\ visit = [c \in Customers |-> NoVisit]
  /\ opened = [c \in Customers |-> 0]
  /\ notes = {}
  /\ oper = NothingPending
  /\ req = [r \in Requests |-> NotArrived]
  /\ expired = {}
  /\ times = [i \in Items |-> 0] /\ astray = {}
  /\ torn = {} /\ raced = {}
  /\ meant = [i \in Items |-> None] /\ revised = {}
  /\ reopened = {} /\ answered = {}
  /\ stops = [c \in Customers |-> 0]

----------------------------------------------------------------------------
(* The customers' side: one request of a customer at a time (bound). *)

(* A message: over the spam limit, or an agent run.  A disabled session     *)
(* answers nobody.  (Bound: nobody writes once all his cases are opened.)   *)
CustomerWrites(c) ==
  /\ visit[c] = NoVisit /\ ~disabled[c] /\ opened[c] < MaxCases
  /\ \E place \in {"spam", "run"} : visit' = [visit EXCEPT ![c] = [at |-> place, meta |-> cust[c]]]
  /\ UNCHANGED <<cust, disabled, opened, notes, stops, oper, req, expired, ledger, meant,
                 revised, reopened, answered>>

CustomerServed(c) ==
  /\ visit[c].at = "run"
  /\ visit' = [visit EXCEPT ![c] = NoVisit]
  /\ UNCHANGED <<cust, disabled, opened, notes, stops, oper, req, expired, ledger, meant,
                 revised, reopened, answered>>

(* The request puts a key of its own (media, summary, artifact) beside the  *)
(* keys it loaded.                                                          *)
VisitWritesBack(c) ==
  /\ visit[c].at = "run" /\ cust[c] # visit[c].meta
  /\ cust' = [cust EXCEPT ![c] = visit[c].meta]
  /\ UNCHANGED <<disabled, visit, opened, notes, stops, oper, req, expired, ledger, meant,
                 revised, reopened, answered>>

(* /reset. *)
CustomerResets(c) ==
  /\ visit[c].at = "run"
  /\ cust' = [cust EXCEPT ![c] = NoCase]
  /\ visit' = [visit EXCEPT ![c] = NoVisit]
  /\ UNCHANGED <<disabled, opened, notes, stops, oper, req, expired, ledger, meant,
                 revised, reopened, answered>>

(* The notification reaches the operators' chat, or its send fails.         *)
Notifies(c, k) == notes' = notes \/ notes' = notes \cup {<<c, k>>}

(* escalate_to_human works on a database session of its own.  It assigns    *)
(* the ids of the messages it has sent after that session was closed, so    *)
(* the commit that should store them stores nothing.                        *)
escalate_to_human(c) ==
  /\ visit[c].at = "run" /\ opened[c] < MaxCases
  /\ opened' = [opened EXCEPT ![c] = @ + 1]
  /\ cust' = [cust EXCEPT ![c].case = opened[c] + 1]
  /\ Notifies(c, opened[c] + 1)
  /\ UNCHANGED <<disabled, visit, stops, oper, req, expired, ledger, meant, revised,
                 reopened, answered>>

(* _notify_operator_spam_autostop switches the customer off ...             *)
SpamAutostop(c) ==
  /\ visit[c].at = "spam" /\ opened[c] < MaxCases
  /\ opened' = [opened EXCEPT ![c] = @ + 1]
  /\ cust' = [cust EXCEPT ![c] = [visit[c].meta EXCEPT !.case = opened[c] + 1]]
  /\ visit' = [visit EXCEPT ![c] = [at |-> "stopped",
                                    meta |-> [visit[c].meta EXCEPT !.case = opened[c] + 1]]]
  /\ disabled' = [disabled EXCEPT ![c] = TRUE]
  /\ stops' = [stops EXCEPT ![c] = @ + 1]
  /\ UNCHANGED <<notes, oper, req, expired, ledger, meant, revised, reopened, answered>>

(* ... and tells the operators; this one keeps the id of its notification.  *)
SpamNotified(c) ==
  /\ visit[c].at = "stopped"
  /\ LET k == visit[c].meta.case
     IN \/ UNCHANGED <<notes, cust>>
        \/ /\ notes' = notes \cup {<<c, k>>}
           /\ cust' = [cust EXCEPT ![c] = [visit[c].meta EXCEPT !.note = k]]
  /\ visit' = [visit EXCEPT ![c] = NoVisit]
  /\ UNCHANGED <<disabled, opened, stops, oper, req, expired, ledger, meant, revised,
                 reopened, answered>>

----------------------------------------------------------------------------
(* An operator's message arrives. *)

InFlight(r) == req[r].at \notin {"new", "done"}

Stale(slot) == slot # None /\ slot.by \in expired
Fresh(slot) == slot # None /\ slot.by \notin expired

(* _operator_session_has_pending_confirmation *)
HasPending(m) == Fresh(m.draft) \/ Fresh(m.media)

(* The case a quoted notification stands for.  A stored message id leads to *)
(* the case its customer is at NOW; otherwise the case id in the text, or   *)
(* the phone number in it, leads to the session.                            *)
QuotedCase(n) == IF cust[n[1]].note = n[2] THEN cust[n[1]].case ELSE n[2]

CanArrive(r) ==
  /\ req[r].at = "new"
  /\ Cardinality({s \in Requests : InFlight(s)}) < MaxFlight

Loaded(kind, place, c, k) ==
  [kind |-> kind, at |-> place, my |-> oper, target |-> c, case |-> k,
   theirs |-> IF c = None \/ kind \in {"media", "revise"} THEN NoCase ELSE cust[c],
   off |-> kind = "aktif" /\ disabled[c],
   stops |-> IF kind = "aktif" THEN stops[c] ELSE 0,
   known |-> IF kind = "text" THEN answered ELSE {}, told |-> FALSE]

(* A reply to a notification: the customer is found and loaded.             *)
QuoteArrives(r) ==
  /\ CanArrive(r) /\ r \in Quoters
  /\ \E n \in notes, kind \in {"text", "media", "aktif", "kirim", "approve"} :
       req' = [req EXCEPT ![r] = Loaded(kind, "routing", n[1], QuotedCase(n))]
  /\ UNCHANGED <<custVars, oper, expired, ledger, meant, revised, reopened, answered>>

(* Something is pending: a plain message continues with the customer of the *)
(* active route.                                                            *)
FollowUpArrives(r) ==
  /\ CanArrive(r) /\ HasPending(oper)
  /\ LET c == IF oper.route = None THEN None ELSE oper.route.cust
         k == IF oper.route = None THEN 0 ELSE oper.route.case
     IN \/ req' = [req EXCEPT ![r] = Loaded("kirim", "handling", c, k)]
        \/ req' = [req EXCEPT ![r] = Loaded("revise", "composing", c, k)]
        \/ c # None /\ req' = [req EXCEPT ![r] = Loaded("approve", "handling", c, k)]
  /\ UNCHANGED <<custVars, oper, expired, ledger, meant, revised, reopened, answered>>

(* A turn that stages nothing (a recap; with nothing pending, an operator   *)
(* who tries the agent out as a customer would, or resets the chat).        *)
ChatArrives(r) ==
  /\ CanArrive(r)
  /\ \/ req' = [req EXCEPT ![r] = Loaded("chat", "handling", None, 0)]
     \/ ~HasPending(oper) /\ req' = [req EXCEPT ![r] = Loaded("reset", "handling", None, 0)]
  /\ UNCHANGED <<custVars, oper, expired, ledger, meant, revised, reopened, answered>>

----------------------------------------------------------------------------
(* A request writes the operator session: always all of it, as it loaded    *)
(* and changed it.                                                          *)

Save(r, m, place) ==
  /\ oper' = m
  /\ req' = [req EXCEPT ![r].my = m, ![r].at = place]

(* What a finished request had loaded is gone.                              *)
Over == [NotArrived EXCEPT !.at = "done"]
Ends(r) == req' = [req EXCEPT ![r] = Over]
SaveLast(r, m) == oper' = m /\ Ends(r)

RouteTo(r, c, k) == [by |-> r, cust |-> c, case |-> k]

(* remember_operator_escalation_route, called by find_escalation_context.   *)
Route(r) ==
  /\ req[r].at = "routing"
  /\ Save(r, [req[r].my EXCEPT !.route = RouteTo(r, req[r].target, req[r].case)], "handling")
  /\ UNCHANGED <<custVars, expired, ledger, meant, revised, reopened, answered>>

(* _remember_pending_operator_text_reply *)
WithDraft(r, m, c, k) ==
  [m EXCEPT !.route = RouteTo(r, c, k), !.draft = RouteTo(r, c, k)]

(* The case was answered, as far as this request can see.                   *)
AlreadyAnswered(r) == req[r].theirs.replied = req[r].case

(* _maybe_stage_operator_text_draft *)
StageText(r) ==
  /\ req[r].at = "handling" /\ req[r].kind = "text"
  /\ \/ /\ AlreadyAnswered(r)
        /\ Ends(r)
        /\ UNCHANGED <<oper, meant, reopened>>
     \/ /\ ~AlreadyAnswered(r)
        /\ SaveLast(r, WithDraft(r, req[r].my, req[r].target, req[r].case))
        /\ meant' = [meant EXCEPT ![<<r, "text">>] = req[r].target]
        /\ reopened' = reopened \cup ({<<req[r].target, req[r].case>>} \cap req[r].known)
  /\ UNCHANGED <<custVars, expired, ledger, revised, answered>>

(* _forward_operator_media_to_customer stages the attachment (or cannot     *)
(* process it) and has the agent compose the text that goes with it.        *)
StageMedia(r) ==
  /\ req[r].at = "handling" /\ req[r].kind = "media"
  /\ \/ Ends(r) /\ UNCHANGED <<oper, meant>>
     \/ /\ Save(r, [req[r].my EXCEPT !.route = RouteTo(r, req[r].target, req[r].case),
                                     !.media = RouteTo(r, req[r].target, req[r].case)], "composing")
        /\ meant' = [meant EXCEPT ![<<r, "media">>] = req[r].target]
  /\ UNCHANGED <<custVars, expired, ledger, revised, reopened, answered>>

(* Mutant: only the metadata is switched on again. *)
ActivateMetaOnly(r) ==
  /\ req[r].at = "handling" /\ req[r].kind = "aktif"
  /\ cust' = [cust EXCEPT ![req[r].target] = req[r].theirs]
  /\ req' = [req EXCEPT ![r] = [Over EXCEPT !.told = TRUE, !.target = req[r].target,
                                           !.stops = req[r].stops]]
  /\ UNCHANGED <<disabled, visit, opened, notes, stops, oper, expired, ledger, meant, revised,
                 reopened, answered>>

(* _handle_operator_activate_command.  The column is written only where it  *)
(* differs from what was loaded.                                            *)
Activate(r) ==
  /\ req[r].at = "handling" /\ req[r].kind = "aktif"
  /\ cust' = [cust EXCEPT ![req[r].target] = req[r].theirs]
  /\ disabled' = [disabled EXCEPT ![req[r].target] = @ /\ ~req[r].off]
  /\ req' = [req EXCEPT ![r] = [Over EXCEPT !.told = TRUE, !.target = req[r].target,
                                           !.stops = req[r].stops]]
  /\ UNCHANGED <<visit, opened, notes, stops, oper, expired, ledger, meant, revised,
                 reopened, answered>>

(* _resume_customer_workflow_after_operator_approval, as far as the         *)
(* metadata; the workflow is a run of the customer's session.               *)
Approve(r) ==
  /\ req[r].at = "handling" /\ req[r].kind = "approve"
  /\ cust' = [cust EXCEPT ![req[r].target] = req[r].theirs]
  /\ Ends(r)
  /\ UNCHANGED <<disabled, visit, opened, notes, stops, oper, expired, ledger, meant,
                 revised, reopened, answered>>

----------------------------------------------------------------------------
(* The agent's turn in the operator session. *)

(* The turn writes a key of its own beside what the request loaded; before  *)
(* a draft or an attachment is staged, the attachment of an earlier turn is *)
(* dropped and the route is remembered once more.                           *)
WriteBack(r) ==
  /\ \/ req[r].at = "composing"
     \/ req[r].at = "handling" /\ req[r].kind \in {"chat", "text", "media"}
  /\ oper # req[r].my
  /\ oper' = req[r].my
  /\ UNCHANGED <<custVars, req, expired, ledger, meant, revised, reopened, answered>>

(* It answers with no draft in it, or fails.                                *)
TurnEnds(r) ==
  /\ \/ req[r].at = "composing"
     \/ req[r].at = "handling" /\ req[r].kind = "chat"
  /\ Ends(r)
  /\ UNCHANGED <<custVars, oper, expired, ledger, meant, revised, reopened, answered>>

(* Its answer holds a draft.  The prompt asked for a revision of the draft  *)
(* that was pending; the draft is staged for the customer of the route.     *)
TurnDrafts(r) ==
  /\ req[r].at = "composing" /\ req[r].my.route # None
  /\ LET m == req[r].my
     IN /\ SaveLast(r, WithDraft(r, m, m.route.cust, m.route.case))
        /\ IF Fresh(m.draft)
             THEN /\ meant' = [meant EXCEPT ![<<r, "text">>] = meant[<<m.draft.by, "text">>]]
                  /\ revised' = revised \cup {r}
             ELSE /\ meant' = [meant EXCEPT ![<<r, "text">>] = m.route.cust]
                  /\ UNCHANGED revised
  /\ UNCHANGED <<custVars, expired, ledger, reopened, answered>>

(* /reset of the operator's own chat. *)
ResetDesk(r) ==
  /\ req[r].at = "handling" /\ req[r].kind = "reset"
  /\ SaveLast(r, NothingPending)
  /\ UNCHANGED <<custVars, expired, ledger, meant, revised, reopened, answered>>

----------------------------------------------------------------------------
(* "kirim": the attachment if one is pending, else the text.                *)

Confirms(r) == req[r].at = "handling" /\ req[r].kind = "kirim"
Holds(m, i) ==
  \/ i[2] = "text" /\ m.draft # None /\ m.draft.by = i[1]
  \/ i[2] = "media" /\ m.media # None /\ m.media.by = i[1]
HeldByOthers(r, i) == \E s \in Requests \ {r} : InFlight(s) /\ Holds(req[s].my, i)
Races(r, i) == raced' = IF HeldByOthers(r, i) THEN raced \cup {i} ELSE raced

(* The message got to the customer n times.                                 *)
Reaches(i, c, n) ==
  /\ times' = [times EXCEPT ![i] = IF @ + n > 2 THEN 2 ELSE @ + n]
  /\ astray' = IF c = meant[i] THEN astray ELSE astray \cup {i}

(* wa_client tries twice: when nothing says the first attempt got through,  *)
(* the second may make two of it.  The send succeeds, or it raises and the  *)
(* operator is told it failed.                                              *)
Sends(r, i, c, place) ==
  /\ Races(r, i)
  /\ \/ /\ \E n \in 1..2 :
             /\ Reaches(i, c, n)
             /\ torn' = IF n = 2 THEN torn \cup {i} ELSE torn
        /\ req' = [req EXCEPT ![r].at = place, ![r].target = c,
                              ![r].theirs = IF req[r].target = c THEN @ ELSE cust[c]]
     \/ /\ UNCHANGED <<times, astray>> \/ \E n \in 1..2 : Reaches(i, c, n)
        /\ torn' = torn \cup {i}
        /\ Ends(r)
  /\ UNCHANGED <<custVars, oper, expired, meant, revised, reopened, answered>>

(* _send_pending_operator_media *)
SendMedia(r) ==
  /\ Confirms(r) /\ Fresh(req[r].my.media)
  /\ Sends(r, <<req[r].my.media.by, "media">>, req[r].my.media.cust, "sentMedia")

(* Mutant: the text goes to the customer of the active route. *)
SendTextToRoute(r) ==
  /\ Confirms(r) /\ req[r].my.media = None /\ Fresh(req[r].my.draft)
  /\ req[r].my.route # None
  /\ Sends(r, <<req[r].my.draft.by, "text">>, req[r].my.route.cust, "sentText")

(* _send_pending_operator_text_reply *)
SendText(r) ==
  /\ Confirms(r) /\ req[r].my.media = None /\ Fresh(req[r].my.draft)
  /\ Sends(r, <<req[r].my.draft.by, "text">>, req[r].my.draft.cust, "sentText")

(* _forget_pending_operator_item: what is an hour old is not sent.          *)
ForgetExpired(r) ==
  /\ Confirms(r)
  /\ \/ Stale(req[r].my.media) /\ SaveLast(r, [req[r].my EXCEPT !.media = None])
     \/ /\ req[r].my.media = None /\ Stale(req[r].my.draft)
        /\ SaveLast(r, [req[r].my EXCEPT !.draft = None])
  /\ UNCHANGED <<custVars, expired, ledger, meant, revised, reopened, answered>>

NothingToSend(r) ==
  /\ Confirms(r) /\ req[r].my.media = None /\ req[r].my.draft = None
  /\ Ends(r)
  /\ UNCHANGED <<custVars, oper, expired, ledger, meant, revised, reopened, answered>>

(* After the send: the attachment is forgotten ...                          *)
MediaSent(r) ==
  /\ req[r].at = "sentMedia"
  /\ SaveLast(r, [req[r].my EXCEPT !.media = None])
  /\ Races(r, <<req[r].my.media.by, "media">>)
  /\ UNCHANGED <<custVars, expired, times, astray, torn, meant, revised, reopened, answered>>

(* Mutant: the draft is not forgotten. *)
TextSentKept(r) ==
  /\ req[r].at = "sentText"
  /\ LET d == req[r].my.draft
     IN /\ SaveLast(r, req[r].my)
        /\ Races(r, <<d.by, "text">>)
        /\ cust' = [cust EXCEPT ![d.cust] = [req[r].theirs EXCEPT !.replied = d.case]]
        /\ answered' = answered \cup {<<d.cust, d.case>>}
  /\ UNCHANGED <<disabled, visit, opened, notes, stops, expired, times, astray, torn, meant,
                 revised, reopened>>

(* ... the draft is forgotten and the case closed, in one commit.           *)
TextSent(r) ==
  /\ req[r].at = "sentText"
  /\ LET d == req[r].my.draft
     IN /\ SaveLast(r, [req[r].my EXCEPT !.draft = None])
        /\ Races(r, <<d.by, "text">>)
        /\ cust' = [cust EXCEPT ![d.cust] = [req[r].theirs EXCEPT !.replied = d.case]]
        /\ answered' = answered \cup {<<d.cust, d.case>>}
  /\ UNCHANGED <<disabled, visit, opened, notes, stops, expired, times, astray, torn, meant,
                 revised, reopened>>

(* That commit fails, or the process dies before it.                        *)
SentUncommitted(r) ==
  /\ req[r].at \in {"sentText", "sentMedia"}
  /\ torn' = torn \cup {IF req[r].at = "sentText" THEN <<req[r].my.draft.by, "text">>
                        ELSE <<req[r].my.media.by, "media">>}
  /\ Ends(r)
  /\ UNCHANGED <<custVars, oper, expired, times, astray, raced, meant, revised, reopened,
                 answered>>

(* An hour passes.                                                          *)
Expire(r) ==
  /\ req[r].at = "done" /\ r \notin expired
  /\ Holds(oper, <<r, "text">>) \/ Holds(oper, <<r, "media">>)
  /\ expired' = expired \cup {r}
  /\ UNCHANGED <<custVars, oper, req, ledger, meant, revised, reopened, answered>>

----------------------------------------------------------------------------
CustomerSteps(c) ==
  \/ CustomerWrites(c) \/ CustomerServed(c) \/ VisitWritesBack(c) \/ CustomerResets(c)
  \/ escalate_to_human(c) \/ SpamAutostop(c) \/ SpamNotified(c)

Arrives(r) == QuoteArrives(r) \/ FollowUpArrives(r) \/ ChatArrives(r)

Handles(r) ==
  \/ Route(r) \/ StageText(r) \/ StageMedia(r) \/ Activate(r) \/ Approve(r) \/ ResetDesk(r)
  \/ WriteBack(r) \/ TurnEnds(r) \/ TurnDrafts(r)

Delivers(r) ==
  \/ SendMedia(r) \/ SendText(r) \/ ForgetExpired(r) \/ NothingToSend(r)
  \/ MediaSent(r) \/ TextSent(r) \/ SentUncommitted(r)

Next ==
  \/ \E c \in Customers : CustomerSteps(c)
  \/ \E r \in Requests : Arrives(r) \/ Handles(r) \/ Delivers(r) \/ Expire(r)

Spec == Init /\ [][Next]_vars

----------------------------------------------------------------------------
(* Properties. *)

(* What an operator wrote in reply to a notification reaches nobody but the *)
(* customer that notification is about, whatever other operators quote,     *)
(* stage, confirm or reset at the same time.                                *)
RightCustomer ==
  \A i \in astray : i[1] \in revised

(* A customer gets an item twice only if an attempt to send it, or the      *)
(* commit after it, failed, or if another request had already loaded it     *)
(* when it was sent or forgotten; forgetting it is otherwise final.         *)
RepeatedAnswersExplained ==
  \A i \in Items : times[i] > 1 => i \in torn \cup raced

(* Once an operator was told that a customer's AI is active again, it is    *)
(* off only if the customer was stopped again after the request had loaded  *)
(* the session.                                                             *)
ActivatedUnlessStoppedAgain ==
  \A r \in Requests :
    req[r].told /\ stops[req[r].target] = req[r].stops => ~disabled[req[r].target]

-----------------------------------------------------------------------------
(* What comments of the code say and the code does not keep (README,        *)
(* "Disagreements").                                                        *)

(* channels.py: a revision changes the pending draft and nothing else, so   *)
(* it is for the customer the draft was for.                                *)
RevisionKeepsCustomer ==
  \A r \in revised : <<r, "text">> \notin astray

(* channels.py: once a case is answered, a reply to the same old            *)
(* notification does not open a draft again.                                *)
AnsweredStaysClosed == reopened = {}
=============================================================================
