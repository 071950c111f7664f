---------------------------- MODULE ChatHistory ----------------------------
(***************************************************************************)
(* What a run is told of the chat it answers in: the rows of `messages`    *)
(* it reads back, the summary kept in the session's metadata and the       *)
(* active_context in the customer's memory, and what the run adds to them. *)
(*                                                                         *)
(* A customer's turns follow one another under session_run_lock, but the   *)
(* lock is released before the handler commits; heartbeats, an operator's  *)
(* answers and /reset do not ask for it at all.  Rows are read back by     *)
(* step_index, then by the time their transaction began.                   *)
(***************************************************************************)
EXTENDS Integers, Sequences, FiniteSets

CONSTANTS CustomerTurns, Heartbeats,  \* runs of one session: the customer's, and heartbeats
          NoRun,
          Trigger,       \* context_summary_trigger, in messages of the user
          Long, Short,   \* rows read back without and with a summary: two for a turn
          Fits,          \* rows that fit the 6000 characters a summary is made of
          Reserved,      \* the step_index of an operator's answer
          MaxTexts,      \* bound: texts of one answer
          MaxTroubles    \* bound: runs that stop, answers of the operator, resets
ASSUME HistoryBounds == /\ Trigger \in Nat \ {0} /\ Long \in Nat \ {0} /\ Short \in Nat \ {0} /\ Fits \in Nat \ {0}
                        /\ Reserved \in Nat /\ MaxTexts \in Nat /\ MaxTroubles \in Nat
                        /\ CustomerTurns \cap Heartbeats = {} /\ NoRun \notin CustomerTurns \cup Heartbeats

VARIABLES chat,     \* the rows of `messages`, in the order of their commits
          gone,     \* how many of them /reset has deleted
          meta,     \* session.metadata_: the rows its summary was made of, the count of user messages then
          durable,  \* of the customer: the turn active_context is about, those with a line in the daily notes
          stage,    \* how far each run is
          own,      \* its copy of the metadata and the time of its transaction: the rows committed before
          seen,     \* what it has been told
          out,      \* what it has still to commit
          dirty,    \* runs whose open transaction has changed the session's row
          desk,     \* the copy of the metadata an operator's request works on
          troubles,
          overlapped, hidden, carried  \* history: runs overlapped; one read nothing but dead rows; /reset met a copy
historyVars == <<chat, gone, meta, durable, stage, own, seen, out, dirty, desk, troubles, overlapped, hidden, carried>>

Chatting == CustomerTurns \cup Heartbeats
Whole == {0}   \* in a summary, the text itself
NoMeta == [sum |-> {}, at |-> 0]
Fresh == [copy |-> NoMeta, time |-> 0]
Unseen == [sum |-> {}, read |-> {}, left |-> {}, base |-> 0, active |-> NoRun, was |-> "none"]
NoReply == [rows |-> <<>>, lines |-> {}, behind |-> {}]

HistoryInit ==
    /\ chat = <<>> /\ gone = 0 /\ meta = NoMeta /\ durable = [active |-> NoRun, lines |-> {}]
    /\ stage = [r \in Chatting |-> "new"] /\ own = [r \in Chatting |-> Fresh]
    /\ seen = [r \in Chatting |-> Unseen] /\ out = [r \in Chatting |-> NoReply]
    /\ dirty = {} /\ desk = {} /\ troubles = 0
    /\ overlapped = FALSE /\ hidden = FALSE /\ carried = FALSE

-----------------------------------------------------------------------------
(* Reading back.                                                           *)
Present == gone + 1 .. Len(chat)
Before(i, j) == \/ chat[i].step < chat[j].step
                \/ chat[i].step = chat[j].step /\ chat[i].time < chat[j].time
                \/ chat[i].step = chat[j].step /\ chat[i].time = chat[j].time /\ i < j
Kept == {i \in Present : chat[i].who \in {"user", "agent"}}
Newest(S, n) == {i \in S : Cardinality({j \in S : Before(i, j)}) < n}
Oldest(S, n) == {i \in S : Cardinality({j \in S : Before(j, i)}) < n}

\* filter_dead_run_messages: of a cancelled run the user's message stays.
Dead(i) == /\ chat[i].by # NoRun
           /\ \/ stage[chat[i].by] \in {"failed", "abandoned"}
              \/ stage[chat[i].by] = "cancelled" /\ chat[i].who # "user"
Alive == {i \in Kept : ~Dead(i)}
Window(n) == {i \in Newest(Kept, n) : ~Dead(i)}
LastStep(W) == IF W = {} THEN 0 ELSE CHOOSE s \in {chat[i].step : i \in W} : \A i \in W : chat[i].step <= s  \* mutant
Base(W) == IF W = {} THEN 0 ELSE 1 + (CHOOSE s \in {chat[i].step : i \in W} : \A i \in W : chat[i].step <= s)
UserMessages == Cardinality({i \in Present : chat[i].who = "user"})

\* build_input_messages: the last message of the user, if no answer comes after it.
Unanswered(W) == {i \in W : chat[i].who = "user" /\ \A j \in W \ {i} : Before(j, i)}
EndOf(W) == IF Unanswered(W) = {} THEN "none" ELSE stage[chat[CHOOSE i \in Unanswered(W) : TRUE].by]

-----------------------------------------------------------------------------
(* The steps of a run.                                                     *)
Holding == {"summing", "asking", "running"}
Between == {"asking", "running", "written"}
UnderWay == {"waiting", "summing"} \cup Between
StepsTo(r, to) == stage' = [stage EXCEPT ![r] = to]
IsOver(r, to) ==
    /\ StepsTo(r, to) /\ seen' = [seen EXCEPT ![r] = Unseen] /\ own' = [own EXCEPT ![r] = Fresh]
    /\ out' = [out EXCEPT ![r] = NoReply] /\ dirty' = dirty \ {r}
Trouble == troubles < MaxTroubles /\ troubles' = troubles + 1

\* The handler has loaded the session; its transaction is open from here on.
Arrives(r) ==
    /\ stage[r] = "new" /\ StepsTo(r, "waiting")
    /\ own' = [own EXCEPT ![r] = [copy |-> meta, time |-> Len(chat)]]
    /\ UNCHANGED <<chat, gone, meta, durable, seen, out, dirty, desk, troubles, overlapped, hidden, carried>>

LockFree(r) == r \in CustomerTurns => \A q \in CustomerTurns : stage[q] \notin Holding

\* The rows, shorter with a summary, and active_context, as the run is told of them.
ReadsBack(r, sum) ==
    LET W == Window(IF sum = {} THEN Long ELSE Short)
    IN /\ StepsTo(r, "asking")
       /\ seen' = [seen EXCEPT ![r] = [sum |-> sum, read |-> W, left |-> Alive \ W, base |-> Base(W),
                                       active |-> durable.active, was |-> EndOf(W)]]
       /\ hidden' = (hidden \/ (W = {} /\ Alive # {}))
       /\ overlapped' = (overlapped \/ \E q \in Chatting : stage[q] \in Between)

\* maybe_summarize_context: none, the one in the copy, or a call of the model.
Cached(r) == own[r].copy.sum # {} /\ UserMessages - own[r].copy.at < Trigger
Summarises(r) == UserMessages >= Trigger /\ ~Cached(r) /\ \E i \in Present : ~Dead(i) \/ chat[i].who = "assistant"
Enters(r) ==
    /\ stage[r] = "waiting" /\ LockFree(r)
    /\ IF Summarises(r)
       THEN /\ StepsTo(r, "summing") /\ UNCHANGED <<overlapped, hidden>>
            /\ seen' = [seen EXCEPT ![r].sum = Whole \cup Oldest(Alive, Fits), ![r].base = UserMessages]
       ELSE ReadsBack(r, IF UserMessages >= Trigger /\ Cached(r) THEN own[r].copy.sum ELSE {})
    /\ UNCHANGED <<chat, gone, meta, durable, own, out, dirty, desk, troubles, carried>>
Summarised(r) ==
    /\ stage[r] = "summing" /\ dirty = {} /\ dirty' = {r}
    /\ own' = [own EXCEPT ![r].copy = [sum |-> seen[r].sum, at |-> seen[r].base]]
    /\ ReadsBack(r, seen[r].sum)
    /\ UNCHANGED <<chat, gone, meta, durable, out, desk, troubles, carried>>
SummaryFails(r) ==
    /\ stage[r] = "summing" /\ Trouble /\ ReadsBack(r, {})
    /\ UNCHANGED <<chat, gone, meta, durable, own, out, dirty, desk, carried>>

Message(r, who, step, time) == [by |-> r, who |-> who, step |-> step, time |-> time]
\* What the transaction has changed of the session's row is committed with it.
CommitsMeta(r) == meta' = (IF r \in dirty THEN own[r].copy ELSE meta) /\ dirty' = dirty \ {r}

\* _persist_inbound_user_message commits; the next transaction begins.
Stores(r) ==
    /\ stage[r] = "asking" /\ StepsTo(r, "running") /\ CommitsMeta(r)
    /\ chat' = Append(chat, Message(r, "user", seen[r].base, own[r].time))
    /\ own' = [own EXCEPT ![r].time = Len(chat) + 1]
    /\ seen' = [seen EXCEPT ![r] = [Unseen EXCEPT !.base = seen[r].base]]
    /\ UNCHANGED <<gone, durable, out, desk, troubles, overlapped, hidden, carried>>

\* The rows of an answer, one for each text before, between and after its calls;
\* a run blocked before its graph stores its reply as "assistant" and remembers
\* nothing.
Said == {<<"assistant">>} \cup UNION {[1 .. n -> {"agent"}] : n \in 0 .. MaxTexts}
Remembers(r, rows) == r \in CustomerTurns /\ rows # <<"assistant">>
EndsAs(rows) == IF rows = <<"assistant">> THEN "blocked" ELSE IF rows = <<>> THEN "mute" ELSE "done"
\* run_agent has written the path of a file to the session's row, if there is
\* one, has read the daily notes, and returns; the lock is free.  The rows of
\* the memory stay locked until the handler commits: who comes behind waits.
Replies(r, rows) ==
    /\ stage[r] = "running" /\ StepsTo(r, "written")
    /\ dirty' = dirty \/ (dirty = {} /\ dirty' = {r})
    /\ out' = [out EXCEPT ![r] = [rows |-> rows, lines |-> durable.lines,
                                  behind |-> {q \in CustomerTurns : stage[q] = "written" /\ Remembers(q, out[q].rows)}]]
    /\ UNCHANGED <<chat, gone, meta, durable, own, seen, desk, troubles, overlapped, hidden, carried>>
Saves(r) ==
    LET rows == out[r].rows
    IN /\ stage[r] = "written" /\ IsOver(r, EndsAs(rows)) /\ CommitsMeta(r)
       /\ Remembers(r, rows) => \A q \in out[r].behind : stage[q] # "written"
       /\ chat' = chat \o [k \in 1 .. Len(rows) |-> Message(r, rows[k], seen[r].base + k, own[r].time)]
       /\ durable' = IF Remembers(r, rows) THEN [active |-> r, lines |-> out[r].lines \cup {r}] ELSE durable
    /\ UNCHANGED <<gone, desk, troubles, overlapped, hidden, carried>>

\* _persist_run_failure commits the status; the caller's rollback takes the rest.
Fails(r, how) ==
    /\ stage[r] = "running" /\ how \in {"failed", "cancelled"} /\ IsOver(r, how) /\ Trouble
    /\ UNCHANGED <<chat, gone, meta, durable, desk, overlapped, hidden, carried>>
\* The process dies, or the handler fails after the run: still "running".
Loses(r) ==
    /\ stage[r] \in {"running", "written"} /\ IsOver(r, "lost") /\ Trouble
    /\ UNCHANGED <<chat, gone, meta, durable, desk, overlapped, hidden, carried>>
Abandons(r) ==
    /\ stage[r] = "lost" /\ IsOver(r, "abandoned")
    /\ UNCHANGED <<chat, gone, meta, durable, desk, troubles, overlapped, hidden, carried>>
\* Superseded, or an error, before the message was stored.
Drops(r) ==
    /\ stage[r] \in {"waiting", "summing", "asking"} /\ IsOver(r, "dropped") /\ Trouble
    /\ UNCHANGED <<chat, gone, meta, durable, desk, overlapped, hidden, carried>>

-----------------------------------------------------------------------------
(* What comes from outside.                                                *)
DeskLoads ==
    /\ desk = {} /\ Trouble /\ desk' = {meta}
    /\ UNCHANGED <<chat, gone, meta, durable, stage, own, seen, out, dirty, overlapped, hidden, carried>>
\* The confirmed answer of the operator has been sent; the case is closed in the metadata.
DeskSends ==
    /\ desk # {} /\ desk' = {} /\ dirty = {}
    /\ chat' = Append(chat, Message(NoRun, "agent", Reserved, Len(chat)))
    /\ \E m \in desk : meta' = m
    /\ UNCHANGED <<gone, durable, stage, own, seen, out, dirty, troubles, overlapped, hidden, carried>>
Resets ==
    /\ Trouble /\ dirty = {}
    /\ gone' = Len(chat) /\ meta' = NoMeta
    /\ carried' = (carried \/ desk # {} \/ \E r \in Chatting : stage[r] \in UnderWay)
    /\ UNCHANGED <<chat, durable, stage, own, seen, out, dirty, desk, overlapped, hidden>>

RunStep(r) == \/ Arrives(r) \/ Enters(r) \/ Summarised(r) \/ SummaryFails(r) \/ Stores(r)
              \/ (\E rows \in Said : Replies(r, rows)) \/ Saves(r)
              \/ (\E how \in {"failed", "cancelled"} : Fails(r, how)) \/ Loses(r) \/ Abandons(r) \/ Drops(r)
HistoryNext == (\E r \in Chatting : RunStep(r)) \/ DeskLoads \/ DeskSends \/ Resets

-----------------------------------------------------------------------------
Noted == \E i \in DOMAIN chat : chat[i].by = NoRun
HasRead(r) == stage[r] = "asking"

\* load_history "hanya load N turn terakhir": a run that is told of any row is
\* told of the newest one.
NewestIsRead ==
    \A r \in Chatting : HasRead(r) => \A i \in seen[r].left : \E j \in seen[r].read : i < j

\* What a run reads back are the last rows of the chat, as long as no operator
\* has answered in it, no two runs overlapped and failed runs did not fill it.
ReadsTheLast ==
    \A r \in Chatting : HasRead(r) =>
        \/ /\ seen[r].left # {} => seen[r].read # {}
           /\ \A i \in seen[r].left, j \in seen[r].read : i < j
        \/ Noted \/ overlapped \/ hidden
\* No turn whose answer is saved is called cancelled.
CancelledIsTrue ==
    \A r \in Chatting : HasRead(r) => seen[r].was \in {"none", "cancelled", "lost", "blocked", "mute"} \/ overlapped
\* A summary tells nothing that /reset has deleted, unless a request was under way then.
ResetForgets == \A r \in Chatting : carried \/ \A i \in seen[r].sum : i > gone \/ i \in Whole
AnswersRead(r) == {i \in seen[r].read : chat[i].who # "user" /\ chat[i].by \in CustomerTurns}
TellsTheLast(r) == \A i \in AnswersRead(r) : (\A j \in AnswersRead(r) : ~Before(i, j)) => chat[i].by = seen[r].active
\* The turn that active_context calls the latest is the one answered last in
\* what is read, unless it left no text.
ActiveIsLatest ==
    \A r \in Chatting : HasRead(r) =>
        \/ TellsTheLast(r)
        \/ \E q \in CustomerTurns : q = seen[r].active /\ stage[q] = "mute"
        \/ Noted \/ overlapped \/ hidden
\* A turn that was answered has its line in the daily notes.
TurnsAreNoted == \A r \in CustomerTurns : stage[r] \in {"done", "mute"} => r \in durable.lines \/ overlapped
HistoryHolds == ReadsTheLast /\ CancelledIsTrue /\ ResetForgets /\ ActiveIsLatest /\ TurnsAreNoted
=============================================================================
