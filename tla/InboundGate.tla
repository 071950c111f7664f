----------------------------- MODULE InboundGate -----------------------------
(***************************************************************************)
(* What becomes of one customer's WhatsApp messages on their way to an     *)
(* agent: who the sender is, whether the message came before, the session  *)
(* it belongs to, the owner's reactivation, the quota, the spam window,    *)
(* the file it carries and the turn it gets.                               *)
(*                                                                         *)
(* The gateway may deliver a message again, with or without the number     *)
(* behind a hidden id.  Requests run side by side and meet in the two      *)
(* stores of the duplicate check and of the spam window (Redis, or this    *)
(* process's memory when Redis fails), in the session's row, in its        *)
(* workspace and at its run lock.  SessionTurn has the lock and the turn   *)
(* in detail, OperatorDesk the operator's replies.                         *)
(***************************************************************************)
EXTENDS Naturals, FiniteSets

CONSTANTS Messages, Requests,
          Kinds,       \* what the customer may send: Kind or fewer
          Earlier,     \* stands for the request that made a session before
          SpamLimit,   \* messages let through within the window
          MaxChanges,  \* events: a store fails, time passes, a database error, an operator
          NoOne

Kind == {"text", "file", "noise", "reset", "leave"}
ASSUME InboundBounds == Kinds \subseteq Kind /\ SpamLimit \in Nat \ {0} /\ MaxChanges \in Nat
                        /\ NoOne \notin Requests \cup Messages /\ Earlier \notin Requests

Stores == {"redis", "memory"}
Keys == {"number", "hidden"}    \* the identities the customer is known under

VARIABLES kind,    \* [Messages -> Kind], "none" until it is sent
          sender,  \* the customer: the owner's number, linked to an account, hidden id learned
          req,     \* the requests of the webhook
          marks,   \* the duplicate check: [store -> <<identity, message>>]
          window,  \* the spam window: [store -> [identity -> messages counted]]
          latch,   \* pg_advisory_xact_lock of the identity
          row,     \* committed sessions: [the request that made it -> its identity or "none"]
          chat,    \* per session: ai_disabled, generation, run lock, active run, current_input
          changes, slipped
vars == <<kind, sender, req, marks, window, latch, row, chat, changes, slipped>>

Fresh == [at |-> "idle", msg |-> NoOne, phone |-> FALSE, key |-> "number", store |-> "none",
          mine |-> NoOne, off |-> FALSE, aged |-> FALSE, gen |-> 0, past |-> {}, read |-> {}]
NewChat == [off |-> FALSE, gen |-> 0, holder |-> NoOne, active |-> NoOne, input |-> {}]

Rows == Requests \cup {Earlier}

Init == /\ kind = [m \in Messages |-> "none"]
        /\ sender \in [owner : BOOLEAN, linked : BOOLEAN, learned : {FALSE}]
        /\ req = [r \in Requests |-> Fresh]
        /\ marks = [s \in Stores |-> {}] /\ window = [s \in Stores |-> [k \in Keys |-> 0]]
        /\ latch = [k \in Keys |-> NoOne] /\ \E known \in {"none", "number"} : row = [r \in Rows |-> IF r = Earlier THEN known ELSE "none"]
        /\ \E off \in BOOLEAN : chat = [r \in Rows |-> IF r = Earlier /\ row[r] # "none" THEN [NewChat EXCEPT !.off = off] ELSE NewChat]
        /\ changes = 0 /\ slipped = {}

Others == UNCHANGED <<marks, window, changes, slipped>>
Kept == Others /\ UNCHANGED kind
Happens == changes < MaxChanges /\ changes' = changes + 1

KindOf(r) == kind[req[r].msg]
Goes(r, at) == req' = [req EXCEPT ![r].at = at]
Ended(q, how) == [q EXCEPT !.at = how, !.phone = FALSE, !.off = FALSE, !.past = {}, !.read = {}]
Ends(r, how) == req' = [req EXCEPT ![r] = Ended(@, how)]
\* The identity's lock goes with the transaction that took it.
Unlatched(r) == [k \in Keys |-> IF latch[k] = r THEN NoOne ELSE latch[k]]
Free(c) == [c EXCEPT !.holder = NoOne, !.active = NoOne]
\* cancel_active_run: the run that is registered ends, its transaction undone.
Stopped(c) == IF c.active = NoOne THEN c ELSE Free(c)
Cancelled(s, q) == IF chat[s].active = NoOne THEN q ELSE [q EXCEPT ![chat[s].active] = Ended(@, "cancelled")]
StopsRun(s, r, at) == /\ chat' = [chat EXCEPT ![s] = Stopped(@)]
                      /\ req' = [Cancelled(s, req) EXCEPT ![r].at = at]

-----------------------------------------------------------------------------
\* The number, if it came with the message or the account behind the hidden id
\* is linked; the hidden id otherwise.
Identity(phone) == IF phone \/ (sender.learned /\ sender.linked) THEN "number" ELSE "hidden"
Arrives(r, m, phone) ==
    /\ req[r].at = "idle"
    /\ IF kind[m] = "none" THEN \E k \in Kinds : kind' = [kind EXCEPT ![m] = k] ELSE UNCHANGED kind
    /\ req' = [req EXCEPT ![r].at = "known", ![r].msg = m, ![r].phone = phone, ![r].key = Identity(phone)]
    /\ UNCHANGED <<sender, latch, row, chat>> /\ Others

\* On the shared trial number the customer leaves: the sessions' runs end.
Leaves(r) ==
    LET left == {s \in Rows : row[s] = req[r].key}
    IN /\ req[r].at = "known" /\ KindOf(r) = "leave"
       /\ chat' = [s \in Rows |-> IF s \in left THEN Stopped(chat[s]) ELSE chat[s]]
       /\ req' = [q \in Requests |-> IF \E s \in left : chat[s].active = q THEN Ended(req[q], "cancelled")
                                     ELSE IF q = r THEN Ended(req[q], "left") ELSE req[q]]
       /\ UNCHANGED <<sender, latch, row>> /\ Kept

\* is_duplicate_message: one step asks and marks, in Redis or in memory.
Mark(r) == <<req[r].key, req[r].msg>>
Marks(r, s) == marks' = [marks EXCEPT ![s] = @ \cup {Mark(r)}]
Checks(r, s) ==
    /\ req[r].at = "known" /\ KindOf(r) # "leave"
    /\ \/ Mark(r) \in marks[s] /\ req' = [req EXCEPT ![r] = [Ended(@, "ignored") EXCEPT !.store = s]] /\ UNCHANGED marks
       \/ Mark(r) \notin marks[s] /\ req' = [req EXCEPT ![r].at = "taken", ![r].store = s] /\ Marks(r, s)
    /\ IF s = "memory" THEN Happens ELSE UNCHANGED changes
    /\ UNCHANGED <<kind, sender, window, latch, row, chat, slipped>>

\* allowed_senders.
Blocked(r) == req[r].at = "taken" /\ Ends(r, "blocked") /\ UNCHANGED <<sender, latch, row, chat>> /\ Kept

-----------------------------------------------------------------------------
\* Mutant: the identity's lock is not taken.
LooksUpUnlocked(r) == latch' = latch

\* find_or_create_wa_session, under the identity's lock.
LooksUp(r) == latch[req[r].key] = NoOne /\ latch' = [latch EXCEPT ![req[r].key] = r]

Finds(r) ==
    /\ req[r].at = "taken" /\ LooksUp(r)
    /\ \/ \E s \in Rows : /\ row[s] = req[r].key
                          /\ req' = [req EXCEPT ![r].at = "found", ![r].mine = s, ![r].off = chat[s].off]
       \/ /\ \A s \in Rows : row[s] # req[r].key
          /\ req' = [req EXCEPT ![r].at = "created", ![r].mine = r]
    /\ UNCHANGED <<sender, row, chat>> /\ Kept
CommitsNew(r) == /\ req[r].at = "created" /\ Goes(r, "found") /\ row' = [row EXCEPT ![r] = req[r].key]
                 /\ latch' = Unlatched(r) /\ UNCHANGED <<sender, chat>> /\ Kept

\* get_or_create_wa_user for a known number, which also stores the hidden id.
\* When it fails the rollback expires every loaded object, and the next look at
\* one ends the request: the message is marked and nobody answers it.
Provisions(r) ==
    /\ req[r].at = "found"
    /\ \/ req[r].phone /\ sender' = [sender EXCEPT !.learned = TRUE] /\ Goes(r, "ready") /\ latch' = Unlatched(r) /\ UNCHANGED changes
       \/ ~req[r].phone /\ req[r].key = "number" /\ Goes(r, "ready") /\ latch' = Unlatched(r) /\ UNCHANGED <<sender, changes>>
       \/ req[r].key = "number" /\ Happens /\ Ends(r, "failed") /\ latch' = Unlatched(r) /\ UNCHANGED sender
       \/ req[r].key = "hidden" /\ Goes(r, "ready") /\ UNCHANGED <<sender, latch, changes>>
    /\ UNCHANGED <<kind, marks, window, row, chat, slipped>>

-----------------------------------------------------------------------------
\* An owner's own message switches the AI on again, then clears the window; so
\* does an operator's /aktif.
Reactivates(r) ==
    /\ req[r].at = "ready" /\ sender.owner /\ req[r].off
    /\ req' = [req EXCEPT ![r].at = "clearing", ![r].off = FALSE]
    /\ chat' = [chat EXCEPT ![req[r].mine].off = FALSE] /\ latch' = Unlatched(r)
    /\ UNCHANGED <<sender, row>> /\ Kept
Cleared(k) == [s \in Stores |-> [window[s] EXCEPT ![k] = 0]]
Clears(r) == /\ req[r].at = "clearing" /\ Goes(r, "ready") /\ window' = Cleared(req[r].key)
             /\ UNCHANGED <<kind, sender, marks, latch, row, chat, changes, slipped>>
Activates(s) == /\ chat[s].off /\ Happens /\ chat' = [chat EXCEPT ![s].off = FALSE] /\ window' = Cleared(row[s])
                /\ UNCHANGED <<kind, sender, req, marks, latch, row, slipped>>

OutOfQuota(r) == /\ req[r].at = "ready" /\ ~(sender.owner /\ req[r].off)
                 /\ Ends(r, "noQuota") /\ latch' = Unlatched(r) /\ UNCHANGED <<sender, row, chat>> /\ Kept

\* check_wa_spam_window: the message is counted, then the window is.
Counts(r, s) ==
    LET counted == window[s][req[r].key] + 1
    IN /\ req[r].at = "ready" /\ ~req[r].off
       /\ window' = [window EXCEPT ![s][req[r].key] = IF counted > SpamLimit THEN SpamLimit + 1 ELSE counted]
       /\ Goes(r, IF counted > SpamLimit THEN "spam" ELSE "passed")
       /\ IF s = "memory" THEN Happens ELSE UNCHANGED changes
       /\ UNCHANGED <<kind, sender, marks, latch, row, chat, slipped>>
\* A spammer's run is stopped first, the session switched off after that.
StopsSpam(r) == req[r].at = "spam" /\ StopsRun(req[r].mine, r, "stopping") /\ UNCHANGED <<sender, latch, row>> /\ Kept
SwitchesOff(r) ==
    /\ req[r].at = "stopping" /\ Ends(r, "spamStopped")
    /\ chat' = [chat EXCEPT ![req[r].mine].off = TRUE] /\ latch' = Unlatched(r)
    /\ slipped' = slipped \cup {q \in Requests : req[q].mine = req[r].mine /\ req[q].at \in {"cleared", "running"}}
    /\ UNCHANGED <<kind, sender, marks, window, row, changes>>
IsOff(r) == /\ req[r].at = "ready" /\ req[r].off /\ ~sender.owner
            /\ Ends(r, "off") /\ latch' = Unlatched(r) /\ UNCHANGED <<sender, row, chat>> /\ Kept
\* One character: the run in progress is stopped and a hint is sent now and then.
IsNoise(r) == /\ req[r].at = "passed" /\ KindOf(r) = "noise"
              /\ StopsRun(req[r].mine, r, "noise") /\ latch' = Unlatched(r) /\ UNCHANGED <<sender, row>> /\ Kept

-----------------------------------------------------------------------------
\* Mutant: what current_input held stays.
AddsFile(s, r) == chat' = [chat EXCEPT ![s].input = @ \cup {<<"file", r>>}]

\* process_wa_media: current_input is emptied and gets this message's file.
PutsFile(s, r) == chat' = [chat EXCEPT ![s].input = {<<"file", r>>}]

\* A file that did not come with the message ends the request.
NoFile(r) == /\ req[r].at = "passed" /\ KindOf(r) = "file" /\ Ends(r, "noFile") /\ latch' = Unlatched(r)
             /\ UNCHANGED <<sender, row, chat>> /\ Kept
\* past: the requests that will put nothing there any more.
SavesFile(r) == /\ req[r].at = "passed" /\ KindOf(r) = "file" /\ PutsFile(req[r].mine, r)
                /\ req' = [req EXCEPT ![r].at = "saved", ![r].past = {q \in Requests : req[q].gen > 0}]
                /\ UNCHANGED <<sender, latch, row>> /\ Kept
\* A document's text is put beside it when it is extracted; the attachment is
\* then written to the session.
NamesFile(r) == /\ req[r].at = "saved" /\ Goes(r, "asked") /\ latch' = Unlatched(r)
                /\ \E text \in {{}, {<<"text", r>>}} : chat' = [chat EXCEPT ![req[r].mine].input = @ \cup text]
                /\ UNCHANGED <<sender, row>> /\ Kept
\* A message without a file takes the last turn's one off the session, if any.
HasNoFile(r) == /\ req[r].at = "passed" /\ KindOf(r) \in {"text", "reset"} /\ Goes(r, "asked")
                /\ latch' \in {latch, Unlatched(r)} /\ UNCHANGED <<sender, row, chat>> /\ Kept
Resets(r) == /\ req[r].at = "asked" /\ KindOf(r) = "reset" /\ Ends(r, "reset") /\ latch' = Unlatched(r)
             /\ UNCHANGED <<sender, row, chat>> /\ Kept

MarksLatest(r) == /\ req[r].at = "asked" /\ KindOf(r) # "reset"
                  /\ chat' = [chat EXCEPT ![req[r].mine].gen = @ + 1]
                  /\ req' = [req EXCEPT ![r].at = "marked", ![r].gen = chat[req[r].mine].gen + 1]
                  /\ UNCHANGED <<sender, latch, row>> /\ Kept
StopsPrior(r) == req[r].at = "marked" /\ StopsRun(req[r].mine, r, "waiting") /\ UNCHANGED <<sender, latch, row>> /\ Kept
GivesUp(r) == /\ req[r].at = "waiting" /\ chat[req[r].mine].holder # NoOne /\ Ends(r, "timeout") /\ latch' = Unlatched(r)
              /\ UNCHANGED <<sender, row, chat>> /\ Kept
GetsLock(r) == /\ req[r].at = "waiting" /\ chat[req[r].mine].holder = NoOne /\ Goes(r, "locked")
               /\ chat' = [chat EXCEPT ![req[r].mine].holder = r] /\ UNCHANGED <<sender, latch, row>> /\ Kept

\* Mutant: the session's switch is taken as it was read at first.
SeesAsRead(r) == req[r].off

\* Under the lock the switch is read anew.
SeesOff(r) == chat[req[r].mine].off

IsLatest(r) == chat[req[r].mine].gen = req[r].gen
Refrains(r) == /\ req[r].at = "locked" /\ (~IsLatest(r) \/ SeesOff(r)) /\ Ends(r, "stale") /\ latch' = Unlatched(r)
               /\ chat' = [chat EXCEPT ![req[r].mine] = Free(@)] /\ UNCHANGED <<sender, row>> /\ Kept
MayRun(r) == /\ req[r].at = "locked" /\ IsLatest(r) /\ ~SeesOff(r) /\ Goes(r, "cleared")
             /\ UNCHANGED <<sender, latch, row, chat>> /\ Kept
Runs(r) == /\ req[r].at = "cleared" /\ Goes(r, "running") /\ latch' = Unlatched(r)
           /\ chat' = [chat EXCEPT ![req[r].mine].active = r] /\ UNCHANGED <<sender, row>> /\ Kept
\* The run reads the file it was told of, any time.
ReadsFile(r) == /\ req[r].at = "running" /\ KindOf(r) = "file" /\ req[r].read = {}
                /\ req' = [req EXCEPT ![r].read = chat[req[r].mine].input]
                /\ UNCHANGED <<sender, latch, row, chat>> /\ Kept
RunEnds(r) == /\ req[r].at = "running" /\ (KindOf(r) = "file" => req[r].read # {})
              /\ chat' = [chat EXCEPT ![req[r].mine] = Free(@)] /\ Goes(r, "ran") /\ UNCHANGED <<sender, latch, row>> /\ Kept
\* A run that fails is answered for at once, the latest turn or not.
RunFails(r) == /\ req[r].at = "running" /\ chat' = [chat EXCEPT ![req[r].mine] = Free(@)] /\ Ends(r, "errored")
               /\ UNCHANGED <<sender, latch, row>> /\ Kept
Answers(r) == /\ req[r].at = "ran" /\ Ends(r, IF IsLatest(r) THEN "answered" ELSE "suppressed")
              /\ UNCHANGED <<sender, latch, row, chat>> /\ Kept

-----------------------------------------------------------------------------
\* The spam window's minute, and the five of Redis's marks; the marks in memory
\* are dropped only when there are thousands.
MinutePasses == /\ Happens /\ window' = [s \in Stores |-> [k \in Keys |-> 0]]
                /\ \/ UNCHANGED <<marks, req>>
                   \/ /\ marks' = [marks EXCEPT !["redis"] = {}]
                      /\ req' = [r \in Requests |-> [req[r] EXCEPT !.aged = @ \/ req[r].at \notin {"idle", "known"}]]
                /\ UNCHANGED <<kind, sender, latch, row, chat, slipped>>

Step(r) ==
    \/ \E m \in Messages, phone \in BOOLEAN : Arrives(r, m, phone)
    \/ \E s \in Stores : Checks(r, s) \/ Counts(r, s)
    \/ Leaves(r) \/ Blocked(r) \/ Finds(r) \/ CommitsNew(r) \/ Provisions(r)
    \/ Reactivates(r) \/ Clears(r) \/ OutOfQuota(r) \/ StopsSpam(r) \/ SwitchesOff(r) \/ IsOff(r) \/ IsNoise(r)
    \/ NoFile(r) \/ SavesFile(r) \/ NamesFile(r) \/ HasNoFile(r) \/ Resets(r)
    \/ MarksLatest(r) \/ StopsPrior(r) \/ GivesUp(r) \/ GetsLock(r) \/ Refrains(r) \/ MayRun(r) \/ Runs(r)
    \/ ReadsFile(r) \/ RunEnds(r) \/ RunFails(r) \/ Answers(r)

Next == (\E r \in Requests : Step(r)) \/ (\E s \in Rows : Activates(s)) \/ MinutePasses
Spec == Init /\ [][Next]_vars

-----------------------------------------------------------------------------
\* A message delivered again is handled once, unless Redis failed in between,
\* forgot it, or the sender was known under the other identity then; what is
\* ignored was taken by another request; and a burst of first messages makes one
\* session per identity.  (is_duplicate_message, find_or_create_wa_session)
Taken(r) == req[r].at \notin {"idle", "known", "ignored", "left"}
Again(r, q) == r # q /\ req[r].msg = req[q].msg
Alike(r, q) == req[r].key = req[q].key /\ req[r].store = req[q].store
TakenOnce ==
    /\ \A r, q \in Requests : Again(r, q) /\ Taken(r) /\ Taken(q) => ~Alike(r, q) \/ req[r].aged \/ req[q].aged
    /\ \A r \in Requests : req[r].at = "ignored" => \E q \in Requests : Again(r, q) /\ Taken(q) /\ Alike(r, q)
    /\ \A s, t \in Rows : s # t /\ row[s] # "none" => row[s] # row[t]

\* The file an answer is about is the message's own, and so is all that lies
\* beside it, except what another message put there while both were in work; and
\* that one had not become the later turn by then.  (process_wa_media, which
\* works outside the run lock, and is_latest_session_turn after the run)
AnswersNow(r) == req[r].at # "answered" /\ req'[r].at = "answered"
AnswersOwnFile ==
    [][\A r \in Requests : AnswersNow(r) /\ KindOf(r) = "file" =>
          \A i \in req[r].read : \/ i[2] = r
                                 \/ i[2] \notin req[r].past /\ req[i[2]].gen < req[r].gen]_vars

\* In a chat that is switched off nothing runs but what had taken its second look
\* between the stop of the spammer's run and the switch.  (_notify_operator_spam_autostop, the
\* second look at ai_disabled under the run lock)
StoppedChatsRest ==
    \A r \in Requests : req[r].at = "running" /\ chat[req[r].mine].off => r \in slipped
=============================================================================
