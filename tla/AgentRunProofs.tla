-------------------------- MODULE AgentRunProofs ---------------------------
(***************************************************************************)
(* Theorems about AgentRun, for any turns, callers and bounds.             *)
(***************************************************************************)
EXTENDS AgentRun, FiniteSetTheorems, TLAPS

USE DEF vars, StoreKept, Elsewhere, None

(* Where a run is: before it opens anything, before the graph, once the     *)
(* customer's message is stored, in the graph's first attempts.             *)
Closed0 == {"expected", "begun", "classifying", "resuming", "gate"}
Before == Closed0 \cup {"setup", "entered", "built"}
Attempting == {"main"} \cup Retries
Stored == {"entered", "built", "parsed", "more", "file", "fresh", "final", "guarding"} \cup Attempting

(* What a follow-up that replaced the result may have dropped.              *)
Dropped(r) == MayBeDropped(r) \ {"file", "fresh", "direct"}

(* The row of a turn that is over tells how it ended, and the transaction   *)
(* of one that returns is about to.                                         *)
RowOK(r) ==
  /\ r.at = "over" <=> r.end # None
  /\ r.at = "returning" =>
       /\ r.told = "request" => r.tx = "interrupted"
       /\ r.told = "apology" => r.tx = "failed" \/ (r.tx = None /\ r.row = "failed")
       /\ r.told \notin {"request", "apology"} => r.tx = "completed"
  /\ r.end \in {"cancelled", "timed_out", "failed"} => r.row = r.end
  /\ r.end = "answered" =>
       /\ r.told = "request" => r.row = "interrupted"
       /\ r.told = "apology" => r.row = "failed"
       /\ r.told \notin {"request", "apology"} => r.row = "completed"

(* The customer's message is stored before anything acts on the world.      *)
RequestOK(r) ==
  /\ r.saved \subseteq r.added
  /\ (r.at \in Stored \/ r.did # {} \/ r.end \in {"cancelled", "timed_out", "failed"})
        => "request" \in r.saved

(* What is open, and when.                                                  *)
OpenOK(r) ==
  /\ r.at \in Closed0 \cup {"guarding"} => r.holds = {}
  /\ r.at \in Before \cup {"guarding"} => r.notice = None
  /\ (r.at = "returning" /\ r.told = "result") => r.holds = {} /\ r.notice # "waiting"
  /\ (r.end \in {"cancelled", "timed_out", "failed"} \/ (r.end = "answered" /\ r.told = "result"))
        => r.holds = {} /\ r.notice # "waiting"

(* How far the result accounts for what was done.                           *)
EffectsOK(r) ==
  /\ r.at \in Before \cup Attempting => r.did = {} /\ r.replaced = {}
  /\ r.at = "parsed" => r.replaced = {}
  /\ r.at = "parsed" => r.did \subseteq {"main"} \cup Retries
  /\ r.at = "more" => r.did \subseteq {"main", "mcp"} \cup Retries
  /\ r.at \in {"parsed", "more", "file"} => r.did \subseteq r.steps \cup Dropped(r)
  /\ r.at = "final" => r.did \subseteq r.steps \cup r.added \cup Dropped(r)
  /\ r.at \in {"fresh", "guarding"} => r.did \subseteq r.added \cup Dropped(r)
  /\ (r.at = "returning" /\ r.told = "result") => r.did \subseteq r.added \cup Dropped(r)
  /\ (r.end = "answered" /\ r.told = "result") => r.did \subseteq r.saved \cup Dropped(r)

PendingOK(r) == r.at \in {"classifying", "resuming"} => r.pending # None

TurnOK(r) == RowOK(r) /\ RequestOK(r) /\ OpenOK(r) /\ EffectsOK(r) /\ PendingOK(r)

TypeInv ==
  /\ up \in BOOLEAN
  /\ kind \in [Turns -> Kinds]
  /\ run \in [Turns -> Turn]
  /\ store \in Turns \cup {Earlier, None}
  /\ resumed \in [Turns \cup {Earlier} -> SUBSET Turns]
  /\ troubles \in 0..MaxTroubles

RunInv == TypeInv /\ \A t \in Turns : TurnOK(run[t])

----------------------------------------------------------------------------
(* What the steps are made of. *)

(* A run changes to a record that fits.                                     *)
LEMMA OneTurn ==
  ASSUME RunInv, NEW t \in Turns, NEW r \in Turn, TurnOK(r), Becomes(t, r)
  PROVE  run' \in [Turns -> Turn] /\ \A u \in Turns : TurnOK(run'[u])
BY DEF RunInv, TypeInv, Becomes

Ends == {"answered", "cancelled", "timed_out", "failed", "cut", "raised", "crashed"}

(* How a run is closed ...                                                  *)
LEMMA ClosedFields ==
  ASSUME NEW q \in Turn, NEW how \in Ends
  PROVE  LET c == Closed(q, how)
         IN  /\ c \in Turn
             /\ c.at = "over" /\ c.end = how /\ c.row = q.row /\ c.holds = q.holds
             /\ c.notice = (IF q.notice = "sent" THEN None ELSE q.notice) /\ c.told = q.told
             /\ c.did = q.did /\ c.replaced = q.replaced /\ c.added = q.added /\ c.saved = q.saved
<1> DEFINE n == IF q.notice = "sent" THEN None ELSE q.notice
<1>1. n \in {None, "waiting", "sent"}
  BY DEF Turn
<1>2. Closed(q, how) = [q EXCEPT !.at = "over", !.end = how, !.tx = None, !.steps = {},
                                 !.pending = None, !.notice = n]
  BY DEF Closed, Turn
<1>3. "over" \in Places
  BY DEF Places
<1> HIDE DEF n
<1>4. [q EXCEPT !.at = "over", !.end = how, !.tx = None, !.steps = {},
                !.pending = None, !.notice = n] \in Turn
  BY ZenonT(40), <1>1, <1>3 DEF Turn, Ends
<1>5. LET c == [q EXCEPT !.at = "over", !.end = how, !.tx = None, !.steps = {},
                         !.pending = None, !.notice = n]
      IN  /\ c.at = "over" /\ c.end = how /\ c.row = q.row /\ c.holds = q.holds
          /\ c.notice = n /\ c.told = q.told
          /\ c.did = q.did /\ c.replaced = q.replaced /\ c.added = q.added /\ c.saved = q.saved
  BY DEF Turn
<1> QED
  BY <1>2, <1>4, <1>5 DEF n

(* ... by a rollback ...                                                    *)
LEMMA RolledBackFields ==
  ASSUME NEW q \in Turn, NEW how \in Ends
  PROVE  LET c == RolledBack(q, how)
         IN  /\ c \in Turn
             /\ c.at = "over" /\ c.end = how /\ c.row = q.row /\ c.holds = q.holds
             /\ c.notice = (IF q.notice = "sent" THEN None ELSE q.notice) /\ c.told = q.told
             /\ c.did = q.did /\ c.replaced = q.replaced /\ c.added = q.saved /\ c.saved = q.saved
<1> DEFINE d == Closed(q, how)
<1>1. q.saved \in SUBSET Messages
  BY DEF Turn
<1>2. d \in Turn
  BY ClosedFields
<1>3. RolledBack(q, how) = [d EXCEPT !.added = q.saved]
  BY DEF RolledBack
<1> HIDE DEF d
<1>4. LET c == [d EXCEPT !.added = q.saved]
      IN  /\ c \in Turn /\ c.added = q.saved
          /\ c.at = d.at /\ c.end = d.end /\ c.row = d.row /\ c.holds = d.holds
          /\ c.notice = d.notice /\ c.told = d.told /\ c.did = d.did
          /\ c.replaced = d.replaced /\ c.saved = d.saved
  BY <1>1, <1>2 DEF Turn
<1> QED
  BY <1>3, <1>4, ClosedFields DEF d

(* ... and by a commit.                                                     *)
LEMMA CommittedFields ==
  ASSUME NEW q \in Turn, NEW how \in Ends
  PROVE  LET c == Committed(q, how)
         IN  /\ c \in Turn
             /\ c.at = "over" /\ c.end = how /\ c.row = (IF q.tx = None THEN q.row ELSE q.tx)
             /\ c.holds = q.holds /\ c.told = q.told
             /\ c.notice = (IF q.notice = "sent" THEN None ELSE q.notice)
             /\ c.did = q.did /\ c.replaced = q.replaced /\ c.added = q.added /\ c.saved = q.added
<1> DEFINE d == Closed(q, how)
           w == IF q.tx = None THEN q.row ELSE q.tx
<1>1. q.added \in SUBSET Messages /\ w \in Status \cup {None}
  BY DEF Turn
<1>2. d \in Turn /\ d.row = q.row
  BY ClosedFields
<1>3. Committed(q, how) = [d EXCEPT !.saved = q.added, !.row = w]
  BY <1>2 DEF Committed
<1> HIDE DEF d, w
<1>4. LET c == [d EXCEPT !.saved = q.added, !.row = w]
      IN  /\ c \in Turn /\ c.saved = q.added /\ c.row = w
          /\ c.at = d.at /\ c.end = d.end /\ c.holds = d.holds
          /\ c.notice = d.notice /\ c.told = d.told /\ c.did = d.did
          /\ c.replaced = d.replaced /\ c.added = d.added
  BY ZenonT(30), <1>1, <1>2 DEF Turn
<1> QED
  BY <1>3, <1>4, ClosedFields DEF d, w

(* An answer is a record that returns.                                      *)
Words == {"result", "request", "apology", "validation"}
LEMMA AnswersFields ==
  ASSUME NEW r \in Turn, NEW status \in Status \cup {None}, NEW said \in Words
  PROVE  LET q == Answers(r, status, said)
         IN  /\ q \in Turn
             /\ q.at = "returning" /\ q.tx = status /\ q.told = said
             /\ q.row = r.row /\ q.holds = r.holds /\ q.notice = r.notice /\ q.end = r.end
             /\ q.did = r.did /\ q.replaced = r.replaced /\ q.added = r.added /\ q.saved = r.saved
<1> DEFINE c == [r EXCEPT !.at = "returning", !.tx = status, !.told = said]
<1>1. "returning" \in Places
  BY DEF Places
<1>2. c \in Turn
  BY <1>1 DEF Turn, Words
<1>3. /\ c.at = "returning" /\ c.tx = status /\ c.told = said
      /\ c.row = r.row /\ c.holds = r.holds /\ c.notice = r.notice /\ c.end = r.end
      /\ c.did = r.did /\ c.replaced = r.replaced /\ c.added = r.added /\ c.saved = r.saved
  BY DEF Turn
<1> QED
  BY <1>2, <1>3, Zenon DEF Answers

(* The ways to clean up.                                                    *)
LEMMA ReleasedFields ==
  ASSUME NEW r \in Turn
  PROVE  LET q == Released(r)
         IN  /\ q \in Turn /\ q.holds = {}
             /\ q.at = r.at /\ q.row = r.row /\ q.tx = r.tx /\ q.notice = r.notice
             /\ q.pending = r.pending /\ q.did = r.did /\ q.steps = r.steps /\ q.replaced = r.replaced
             /\ q.added = r.added /\ q.saved = r.saved /\ q.end = r.end /\ q.told = r.told
BY DEF Released, Turn

LEMMA NoticeOffFields ==
  ASSUME NEW r \in Turn
  PROVE  LET q == NoticeOff(r)
         IN  /\ q \in Turn /\ q.notice = None
             /\ q.at = r.at /\ q.row = r.row /\ q.tx = r.tx /\ q.holds = r.holds
             /\ q.pending = r.pending /\ q.did = r.did /\ q.steps = r.steps /\ q.replaced = r.replaced
             /\ q.added = r.added /\ q.saved = r.saved /\ q.end = r.end /\ q.told = r.told
BY DEF NoticeOff, Turn

LEMMA PersistFields ==
  ASSUME NEW r \in Turn, NEW status \in Status
  PROVE  LET q == Persist(r, status)
         IN  /\ q \in Turn /\ q.row = status /\ q.tx = None /\ q.saved = r.added
             /\ q.at = r.at /\ q.holds = r.holds /\ q.notice = r.notice
             /\ q.pending = r.pending /\ q.did = r.did /\ q.steps = r.steps /\ q.replaced = r.replaced
             /\ q.added = r.added /\ q.end = r.end /\ q.told = r.told
BY DEF Persist, Turn, Messages

(* What an answer must have on its way to the caller.                       *)
Answerable(q) ==
  /\ q.at = "returning" /\ q.end = None
  /\ q.saved \subseteq q.added /\ (q.did # {} => "request" \in q.saved)
  /\ q.told = "request" => q.tx = "interrupted"
  /\ q.told = "apology" => q.tx = "failed" \/ (q.tx = None /\ q.row = "failed")
  /\ q.told \notin {"request", "apology"} => q.tx = "completed"
  /\ q.told = "result" => /\ q.holds = {} /\ q.notice # "waiting"
                         /\ q.did \subseteq q.added \cup Dropped(q)

LEMMA AnswerableOK == \A q \in Turn : Answerable(q) => TurnOK(q)
BY DEF Answerable, TurnOK, RowOK, RequestOK, OpenOK, EffectsOK, PendingOK,
       Closed0, Before, Attempting, Stored, Retries

(* The answer reaches the caller, who commits.                              *)
LEMMA ReturnedOK ==
  ASSUME NEW q \in Turn, TurnOK(q), q.at = "returning"
  PROVE  Committed(q, "answered") \in Turn /\ TurnOK(Committed(q, "answered"))
<1> DEFINE c == Committed(q, "answered")
<1>1. /\ c \in Turn
      /\ c.at = "over" /\ c.end = "answered" /\ c.row = (IF q.tx = None THEN q.row ELSE q.tx)
      /\ c.holds = q.holds /\ c.told = q.told
      /\ c.notice = (IF q.notice = "sent" THEN None ELSE q.notice)
      /\ c.did = q.did /\ c.replaced = q.replaced /\ c.added = q.added /\ c.saved = q.added
  BY CommittedFields DEF Ends
<1> HIDE DEF c
<1>2. RowOK(c)
  BY <1>1 DEF TurnOK, RowOK
<1>3. RequestOK(c)
  BY <1>1 DEF TurnOK, RequestOK, Stored, Attempting, Retries
<1>4. OpenOK(c)
  BY <1>1 DEF TurnOK, OpenOK, Closed0, Before
<1>5. EffectsOK(c) /\ PendingOK(c)
  BY <1>1 DEF TurnOK, EffectsOK, PendingOK, Dropped, MayBeDropped, Before, Closed0, Attempting, Retries
<1> QED
  BY <1>1, <1>2, <1>3, <1>4, <1>5 DEF TurnOK, c

(* A run that is cut off, or raises outside the first attempt.              *)
LEMMA CutOK ==
  ASSUME NEW q \in Turn, q.saved \subseteq q.added, q.did # {} => "request" \in q.saved,
         NEW how \in {"cut", "raised", "crashed"}
  PROVE  /\ RolledBack(q, how) \in Turn /\ TurnOK(RolledBack(q, how))
         /\ Committed(q, how) \in Turn /\ TurnOK(Committed(q, how))
<1>1. ASSUME NEW c \in Turn, c.at = "over", c.end = how, c.did = q.did,
             c.added = c.saved, c.saved = q.saved \/ c.saved = q.added
      PROVE  TurnOK(c)
  <2>1. RowOK(c) /\ OpenOK(c) /\ PendingOK(c)
    BY <1>1 DEF RowOK, OpenOK, PendingOK, Closed0, Before
  <2>2. RequestOK(c)
    BY <1>1 DEF RequestOK, Stored, Attempting, Retries
  <2>3. EffectsOK(c)
    BY <1>1 DEF EffectsOK, Before, Closed0, Attempting, Retries
  <2> QED
    BY <2>1, <2>2, <2>3 DEF TurnOK
<1>2. RolledBack(q, how) \in Turn /\ TurnOK(RolledBack(q, how))
  BY <1>1, RolledBackFields DEF Ends
<1> DEFINE d == Committed(q, how)
<1>3. /\ d \in Turn /\ d.at = "over" /\ d.end = how /\ d.did = q.did
      /\ d.added = q.added /\ d.saved = q.added
  <2>1. how \in Ends
    BY DEF Ends
  <2> QED
    BY <2>1, CommittedFields, Zenon
<1> HIDE DEF d
<1>4. TurnOK(d)
  BY <1>1, <1>3
<1> QED
  BY <1>2, <1>3, <1>4 DEF d

(* The first attempt is recorded, cleaned up and given up.                  *)
LEMMA GivenUpOK ==
  ASSUME NEW r \in Turn, TurnOK(r), r.at = "main", NEW how \in {"cancelled", "timed_out", "failed"}
  PROVE  LET q == Released(NoticeOff(Persist(r, how)))
         IN  /\ RolledBack(q, how) \in Turn /\ TurnOK(RolledBack(q, how))
             /\ Committed(q, how) \in Turn /\ TurnOK(Committed(q, how))
<1> DEFINE q == Released(NoticeOff(Persist(r, how)))
<1>1. /\ q \in Turn
      /\ q.row = how /\ q.tx = None /\ q.holds = {} /\ q.notice = None
      /\ q.did = r.did /\ q.added = r.added /\ q.saved = r.added
  BY PersistFields, NoticeOffFields, ReleasedFields DEF Status
<1>2. r.did = {} /\ "request" \in r.added
  BY DEF TurnOK, EffectsOK, RequestOK, Stored, Attempting
<1> HIDE DEF q
<1>3. ASSUME NEW c \in Turn, c.at = "over", c.end = how, c.row = how, c.holds = {}, c.notice = None,
             c.did = {}, c.added = r.added, c.saved = r.added
      PROVE  TurnOK(c)
  BY <1>2, <1>3 DEF TurnOK, RowOK, RequestOK, OpenOK, EffectsOK, PendingOK,
                    Closed0, Before, Attempting, Stored, Retries
<1>4. RolledBack(q, how) \in Turn /\ TurnOK(RolledBack(q, how))
  BY <1>1, <1>2, <1>3, RolledBackFields DEF Ends
<1> DEFINE d == Committed(q, how)
<1>5. /\ d \in Turn /\ d.at = "over" /\ d.end = how /\ d.did = {} /\ d.row = how
      /\ d.holds = {} /\ d.notice = None /\ d.added = r.added /\ d.saved = r.added
  <2>1. how \in Ends /\ q \in Turn
    BY <1>1 DEF Ends
  <2>2. /\ d \in Turn /\ d.at = "over" /\ d.end = how /\ d.row = (IF q.tx = None THEN q.row ELSE q.tx)
        /\ d.holds = q.holds /\ d.notice = (IF q.notice = "sent" THEN None ELSE q.notice)
        /\ d.did = q.did /\ d.added = q.added /\ d.saved = q.added
    BY <2>1, CommittedFields, Zenon
  <2> HIDE DEF d
  <2> QED
    BY <1>1, <1>2, <2>2
<1> HIDE DEF d
<1>6. TurnOK(d)
  BY <1>3, <1>5
<1> QED
  BY <1>4, <1>5, <1>6 DEF q, d

(* The current record of a turn, and what an attempt may do.                *)
LEMMA Current == RunInv => \A t \in Turns : run[t] \in Turn /\ TurnOK(run[t])
BY DEF RunInv, TypeInv

LEMMA ActsOK ==
  ASSUME NEW t \in Turns, NEW a, NEW acted \in Acts(t, a)
  PROVE  acted = {} \/ acted = {a}
BY DEF Acts

----------------------------------------------------------------------------
(* Before the graph: where each step leads, the record fits. *)

LEMMA BeginsOK ==
  ASSUME RunInv, NEW t \in Turns, Begins(t)
  PROVE  \E q \in Turn : TurnOK(q) /\ Becomes(t, q)
<1> DEFINE r == run[t]
           q == [r EXCEPT !.at = "begun", !.tx = "running"]
<1>1. r \in Turn /\ TurnOK(r) /\ r.at = "expected" /\ Becomes(t, q)
  BY Current DEF Begins
<1> HIDE DEF r
<1>2. /\ q \in Turn /\ q.at = "begun" /\ q.end = r.end /\ q.holds = r.holds /\ q.notice = r.notice
      /\ q.did = r.did /\ q.replaced = r.replaced /\ q.added = r.added /\ q.saved = r.saved
  BY ZenonT(40), <1>1 DEF Turn, Places, Status
<1> HIDE DEF q
<1>3. TurnOK(q)
  BY <1>1, <1>2 DEF TurnOK, RowOK, RequestOK, OpenOK, EffectsOK, PendingOK,
                    Closed0, Before, Attempting, Stored, Retries
<1> QED
  BY <1>1, <1>2, <1>3

(* Until the graph is built a run only moves on.                            *)
LEMMA MovesOK ==
  ASSUME NEW r \in Turn, TurnOK(r), r.at \in Before, r.at # "expected",
         NEW place \in {"classifying", "resuming", "gate"}, r.at \in Closed0,
         NEW a \in Turns \cup {Earlier, None}, place = "gate" \/ a # None
  PROVE  LET q == [r EXCEPT !.at = place, !.pending = a]
         IN  q \in Turn /\ TurnOK(q)
<1> DEFINE q == [r EXCEPT !.at = place, !.pending = a]
<1>0. place \in Places
  BY DEF Places
<1>1. /\ q \in Turn /\ q.at = place /\ q.end = r.end /\ q.holds = r.holds /\ q.notice = r.notice
      /\ q.did = r.did /\ q.replaced = r.replaced /\ q.added = r.added /\ q.saved = r.saved
      /\ q.pending = a
  BY <1>0 DEF Turn
<1> HIDE DEF q
<1>2. TurnOK(q)
  BY <1>1 DEF TurnOK, RowOK, RequestOK, OpenOK, EffectsOK, PendingOK,
              Closed0, Before, Attempting, Stored, Retries
<1> QED
  BY <1>1, <1>2 DEF q

LEMMA LooksOK ==
  ASSUME RunInv, NEW t \in Turns, LooksForInterrupt(t)
  PROVE  \E q \in Turn : TurnOK(q) /\ Becomes(t, q)
<1> DEFINE r == run[t]
<1>1. r \in Turn /\ TurnOK(r) /\ r.at = "begun" /\ r.pending \in Turns \cup {Earlier, None}
      /\ store \in Turns \cup {Earlier, None}
  BY Current DEF LooksForInterrupt, Turn, RunInv, TypeInv
<1>2. CASE store = None
  <2>1. Becomes(t, [r EXCEPT !.at = "gate", !.pending = r.pending])
    BY <1>1, <1>2 DEF LooksForInterrupt, Turn
  <2> QED
    BY Zenon, <1>1, <2>1, MovesOK DEF Before, Closed0
<1>3. CASE store # None
  <2>1. Becomes(t, [r EXCEPT !.at = "classifying", !.pending = store])
    BY <1>3 DEF LooksForInterrupt
  <2> QED
    BY Zenon, <1>1, <1>3, <2>1, MovesOK DEF Before, Closed0
<1> QED
  BY <1>2, <1>3

LEMMA ClassifiesOK ==
  ASSUME RunInv, NEW t \in Turns, Classifies(t)
  PROVE  \E q \in Turn : TurnOK(q) /\ Becomes(t, q)
<1> DEFINE r == run[t]
<1>1. r \in Turn /\ TurnOK(r) /\ r.at = "classifying" /\ r.pending \in Turns \cup {Earlier, None}
      /\ r.pending # None
  BY Current DEF Classifies, Turn, TurnOK, PendingOK
<1>2. PICK place \in {"gate", "resuming"} : Becomes(t, [r EXCEPT !.at = place, !.pending = r.pending])
  BY <1>1 DEF Classifies, Turn
<1> QED
  BY Zenon, <1>1, <1>2, MovesOK DEF Before, Closed0

(* The answer to a request, or of the quota gate, before anything is open.  *)
LEMMA EarlyAnswerOK ==
  ASSUME NEW r \in Turn, TurnOK(r), r.at \in Closed0,
         NEW status \in Status, NEW said \in {"result", "request", "apology"},
         said = "result" => status = "completed",
         said = "request" => status = "interrupted",
         said = "apology" => status = "failed"
  PROVE  Answers(r, status, said) \in Turn /\ TurnOK(Answers(r, status, said))
<1> DEFINE q == Answers(r, status, said)
<1>1. /\ q \in Turn
      /\ q.at = "returning" /\ q.tx = status /\ q.told = said
      /\ q.row = r.row /\ q.holds = r.holds /\ q.notice = r.notice /\ q.end = r.end
      /\ q.did = r.did /\ q.replaced = r.replaced /\ q.added = r.added /\ q.saved = r.saved
  <2>1. status \in Status \cup {None} /\ said \in Words
    BY DEF Words
  <2> QED
    BY <2>1, AnswersFields, Zenon
<1> HIDE DEF q
<1>2. r.end = None /\ r.holds = {} /\ r.notice = None /\ r.did = {} /\ r.saved \subseteq r.added
  BY DEF TurnOK, RowOK, RequestOK, OpenOK, EffectsOK, Closed0, Before
<1>3. Answerable(q)
  BY <1>1, <1>2 DEF Answerable
<1> QED
  BY <1>1, <1>3, AnswerableOK DEF q

LEMMA ResumesOK ==
  ASSUME RunInv, NEW t \in Turns, Resumes(t) \/ ResumeFails(t)
  PROVE  \E q \in Turn : TurnOK(q) /\ Becomes(t, q)
<1>1. run[t] \in Turn /\ TurnOK(run[t]) /\ run[t].at \in Closed0
  BY Current DEF Resumes, ResumeFails, Closed0
<1>2. \/ Becomes(t, Answers(run[t], "interrupted", "request"))
      \/ Becomes(t, Answers(run[t], "completed", "result"))
      \/ Becomes(t, Answers(run[t], "failed", "apology"))
  BY Zenon DEF Resumes, ResumeFails
<1>3. {"interrupted", "completed", "failed"} \subseteq Status
  BY DEF Status
<1> QED
  BY <1>1, <1>2, <1>3, EarlyAnswerOK

LEMMA GatesOK ==
  ASSUME RunInv, NEW t \in Turns, Gates(t)
  PROVE  \E q \in Turn : TurnOK(q) /\ Becomes(t, q)
<1> DEFINE r == run[t]
           q == [r EXCEPT !.at = "setup", !.holds = {"sandbox"}]
<1>1. r \in Turn /\ TurnOK(r) /\ r.at = "gate"
  BY Current DEF Gates
<1>2. CASE Becomes(t, Answers(r, "completed", "result"))
  BY <1>1, <1>2, EarlyAnswerOK DEF Closed0, Status
<1>3. CASE Becomes(t, q)
  <2> HIDE DEF r
  <2>1. /\ q \in Turn /\ q.at = "setup" /\ q.end = r.end /\ q.notice = r.notice
        /\ q.did = r.did /\ q.replaced = r.replaced /\ q.added = r.added /\ q.saved = r.saved
    BY ZenonT(40), <1>1 DEF Turn, Places
  <2> HIDE DEF q
  <2>2. TurnOK(q)
    BY <1>1, <2>1 DEF TurnOK, RowOK, RequestOK, OpenOK, EffectsOK, PendingOK,
                      Closed0, Before, Attempting, Stored, Retries
  <2> QED
    BY <1>3, <2>1, <2>2
<1> QED
  BY <1>2, <1>3 DEF Gates

LEMMA EntersOK ==
  ASSUME RunInv, NEW t \in Turns, Enters(t)
  PROVE  \E q \in Turn : TurnOK(q) /\ Becomes(t, q)
<1> DEFINE r == run[t]
           p == [r EXCEPT !.added = {"request"}]
           h == r.holds \cup (IF kind[t] = "wa" THEN {"typing"} ELSE {})
           q == [Persist(p, "running") EXCEPT !.at = "entered", !.holds = h]
<1>1. r \in Turn /\ TurnOK(r) /\ r.at = "setup"
  BY Current DEF Enters
<1>2. /\ p \in Turn /\ p.end = r.end /\ p.holds = r.holds /\ p.notice = r.notice
      /\ p.did = r.did /\ p.replaced = r.replaced /\ p.added = {"request"}
  BY <1>1 DEF Turn, Messages
<1>3. h \in SUBSET {"sandbox", "typing"}
  BY <1>1 DEF Turn
<1>4. Becomes(t, q)
  <2> DEFINE o == Persist(p, "running")
  <2>1. o.holds = r.holds
    BY ZenonT(40), <1>2, PersistFields DEF Status
  <2>2. Becomes(t, [o EXCEPT !.at = "entered",
                             !.holds = @ \cup (IF kind[t] = "wa" THEN {"typing"} ELSE {})])
    BY DEF Enters
  <2> HIDE DEF o
  <2>3. Becomes(t, [o EXCEPT !.at = "entered", !.holds = h])
    BY <2>1, <2>2
  <2> QED
    BY <2>3 DEF o
<1> HIDE DEF r, p, h
<1>5. /\ Persist(p, "running") \in Turn /\ Persist(p, "running").saved = {"request"}
      /\ Persist(p, "running").added = {"request"}
      /\ Persist(p, "running").end = r.end /\ Persist(p, "running").notice = r.notice
      /\ Persist(p, "running").did = r.did /\ Persist(p, "running").replaced = r.replaced
  BY <1>2, PersistFields DEF Status
<1>6. /\ q \in Turn /\ q.at = "entered" /\ q.end = r.end /\ q.notice = r.notice
      /\ q.did = r.did /\ q.replaced = r.replaced /\ q.added = {"request"} /\ q.saved = {"request"}
  BY <1>3, <1>5 DEF Turn, Places
<1> HIDE DEF q
<1>7. TurnOK(q)
  BY <1>1, <1>6 DEF TurnOK, RowOK, RequestOK, OpenOK, EffectsOK, PendingOK,
                    Closed0, Before, Attempting, Stored, Retries
<1> QED
  BY <1>4, <1>6, <1>7

(* An answer that is given once the message is stored, all cleaned up.      *)
LEMMA LateAnswerOK ==
  ASSUME NEW r \in Turn, r.end = None, r.saved \subseteq r.added, r.did # {} => "request" \in r.saved,
         NEW said \in {"result", "request", "validation"}, NEW status \in Status,
         said = "request" => status = "interrupted", said # "request" => status = "completed",
         said = "result" => r.notice # "waiting" /\ r.did \subseteq r.added \cup Dropped(r)
  PROVE  Released(Answers(r, status, said)) \in Turn /\ TurnOK(Released(Answers(r, status, said)))
<1> DEFINE p == Answers(r, status, said)
           q == Released(p)
<1>1. /\ p \in Turn
      /\ p.at = "returning" /\ p.tx = status /\ p.told = said
      /\ p.row = r.row /\ p.notice = r.notice /\ p.end = r.end
      /\ p.did = r.did /\ p.replaced = r.replaced /\ p.added = r.added /\ p.saved = r.saved
  <2>1. status \in Status \cup {None} /\ said \in Words
    BY DEF Words
  <2> QED
    BY <2>1, AnswersFields, ZenonT(40)
<1> HIDE DEF p
<1>2. /\ q \in Turn /\ q.holds = {}
      /\ q.at = p.at /\ q.tx = p.tx /\ q.notice = p.notice
      /\ q.did = p.did /\ q.replaced = p.replaced
      /\ q.added = p.added /\ q.saved = p.saved /\ q.end = p.end /\ q.told = p.told
  BY <1>1, ReleasedFields
<1> HIDE DEF q
<1>3. Answerable(q)
  BY <1>1, <1>2 DEF Answerable, Dropped, MayBeDropped
<1> QED
  BY <1>2, <1>3, AnswerableOK DEF q, p

LEMMA RefusesOK ==
  ASSUME RunInv, NEW t \in Turns, RefusesCustomer(t)
  PROVE  \E q \in Turn : TurnOK(q) /\ Becomes(t, q)
<1> DEFINE r == run[t]
<1>1. r \in Turn /\ TurnOK(r) /\ r.at = "entered"
      /\ Becomes(t, Released(Answers(r, "completed", "result")))
  BY Current DEF RefusesCustomer
<1> HIDE DEF r
<1>2. r.end = None /\ r.notice = None /\ r.did = {} /\ r.saved \subseteq r.added
  BY <1>1 DEF TurnOK, RowOK, RequestOK, OpenOK, EffectsOK, Closed0, Before
<1> QED
  BY <1>1, <1>2, LateAnswerOK DEF Status

(* From the stored message to the running graph.                            *)
LEMMA StartsOK ==
  ASSUME RunInv, NEW t \in Turns, Prepares(t) \/ Starts(t)
  PROVE  \E q \in Turn : TurnOK(q) /\ Becomes(t, q)
<1> DEFINE r == run[t]
<1>1. r \in Turn /\ TurnOK(r) /\ r.at \in {"entered", "built"}
  BY Current DEF Prepares, Starts
<1>2. PICK place \in {"built", "main"} : Becomes(t, [r EXCEPT !.at = place])
  BY DEF Prepares, Starts
<1> DEFINE q == [r EXCEPT !.at = place]
<1> HIDE DEF r
<1>3. /\ q \in Turn /\ q.at = place /\ q.end = r.end /\ q.holds = r.holds /\ q.notice = r.notice
      /\ q.did = r.did /\ q.replaced = r.replaced /\ q.added = r.added /\ q.saved = r.saved
  BY <1>1 DEF Turn, Places
<1> HIDE DEF q
<1>4. TurnOK(q)
  BY <1>1, <1>3 DEF TurnOK, RowOK, RequestOK, OpenOK, EffectsOK, PendingOK,
                    Closed0, Before, Attempting, Stored, Retries
<1> QED
  BY <1>2, <1>3, <1>4 DEF q

LEMMA SendsImageOK ==
  ASSUME RunInv, NEW t \in Turns, SendsImage(t)
  PROVE  \E q \in Turn : TurnOK(q) /\ Becomes(t, q)
<1> DEFINE r == run[t]
<1>1. r \in Turn /\ TurnOK(r) /\ r.at = "built"
  BY Current DEF SendsImage
<1>2. PICK sent \in Acts(t, "direct") :
        Becomes(t, Released(Answers([r EXCEPT !.did = sent, !.added = r.added \cup sent],
                                    "completed", "result")))
  BY Zenon, <1>1 DEF SendsImage, Turn
<1>3. sent \in SUBSET {"direct"}
  BY ActsOK
<1> DEFINE p == [r EXCEPT !.did = sent, !.added = r.added \cup sent]
<1> HIDE DEF r
<1>4. /\ p \in Turn /\ p.end = r.end /\ p.notice = r.notice
      /\ p.did = sent /\ p.added = r.added \cup sent /\ p.saved = r.saved
  BY <1>1, <1>3 DEF Turn, Attempts, Messages
<1> HIDE DEF p
<1>5. r.end = None /\ r.notice = None /\ r.saved \subseteq r.added /\ "request" \in r.saved
  BY <1>1 DEF TurnOK, RowOK, RequestOK, OpenOK, Closed0, Before, Stored
<1>6. Released(Answers(p, "completed", "result")) \in Turn
      /\ TurnOK(Released(Answers(p, "completed", "result")))
  BY <1>4, <1>5, LateAnswerOK DEF Status
<1> QED
  BY <1>2, <1>6 DEF p

----------------------------------------------------------------------------
(* The graph and what follows it. *)

(* The notice's timer starts, or strikes.                                   *)
LEMMA NoticeOK ==
  ASSUME RunInv, NEW t \in Turns, NoticeDue(t) \/ NoticeSent(t)
  PROVE  \E q \in Turn : TurnOK(q) /\ Becomes(t, q)
<1> DEFINE r == run[t]
<1>1. r \in Turn /\ TurnOK(r)
  BY Current
<1>2. CASE NoticeDue(t)
  <2> DEFINE q == [r EXCEPT !.notice = "waiting"]
  <2>1. r.at \in {"main", "parsed", "more"} \cup Retries /\ Becomes(t, q)
    BY <1>2 DEF NoticeDue
  <2> HIDE DEF r
  <2>2. /\ q \in Turn /\ q.at = r.at /\ q.end = r.end
        /\ q.did = r.did /\ q.steps = r.steps /\ q.replaced = r.replaced
        /\ q.added = r.added /\ q.saved = r.saved
    BY <1>1 DEF Turn
  <2> HIDE DEF q
  <2>3. TurnOK(q)
    BY <1>1, <2>1, <2>2 DEF TurnOK, RowOK, RequestOK, OpenOK, EffectsOK, PendingOK, Dropped,
             MayBeDropped, Closed0, Before, Attempting, Stored, Retries
  <2> QED
    BY <2>1, <2>2, <2>3
<1>3. CASE NoticeSent(t)
  <2>1. PICK n \in {None, "sent"} : Becomes(t, [r EXCEPT !.notice = n, !.holds = r.holds \cup {"typing"}])
    BY <1>1, <1>3 DEF NoticeSent, Turn
  <2>2. r.notice = "waiting"
    BY <1>3 DEF NoticeSent
  <2> DEFINE q == [r EXCEPT !.notice = n, !.holds = r.holds \cup {"typing"}]
  <2> HIDE DEF r
  <2>3. /\ q \in Turn /\ q.at = r.at /\ q.end = r.end /\ q.row = r.row /\ q.tx = r.tx
        /\ q.did = r.did /\ q.steps = r.steps /\ q.replaced = r.replaced
        /\ q.added = r.added /\ q.saved = r.saved /\ q.told = r.told /\ q.pending = r.pending
    BY <1>1 DEF Turn
  <2> HIDE DEF q
  <2>4. /\ r.at \notin Before \cup {"guarding"}
        /\ ~(r.at = "returning" /\ r.told = "result")
        /\ ~(r.end \in {"cancelled", "timed_out", "failed"} \/ (r.end = "answered" /\ r.told = "result"))
    BY <1>1, <2>2 DEF TurnOK, OpenOK
  <2>5. RowOK(q) /\ RequestOK(q) /\ PendingOK(q)
    BY <1>1, <2>3 DEF TurnOK, RowOK, RequestOK, PendingOK
  <2>6. OpenOK(q) /\ EffectsOK(q)
    BY <1>1, <2>3, <2>4 DEF TurnOK, OpenOK, EffectsOK, Dropped, MayBeDropped, Before
  <2> QED
    BY <2>1, <2>3, <2>5, <2>6 DEF TurnOK, q
<1> QED
  BY <1>2, <1>3

(* An attempt of the graph came to an end.                                  *)
LEMMA GraphEndsOK ==
  ASSUME RunInv, NEW t \in Turns, NEW a \in Attempting, run[t].at = a, GraphEnds(t, a, {a})
  PROVE  \E q \in Turn : TurnOK(q) /\ Becomes(t, q)
<1> DEFINE r == run[t]
<1>1. r \in Turn /\ TurnOK(r) /\ r.at \in Attempting
  BY Current
<1>2. PICK acted \in Acts(t, a) :
        Becomes(t, [r EXCEPT !.at = "parsed", !.did = r.did \cup acted, !.steps = (r.did \cup acted) \cap {a}])
  BY Zenon, <1>1 DEF GraphEnds, Turn
<1>3. acted = {} \/ acted = {a}
  BY ActsOK
<1> DEFINE q == [r EXCEPT !.at = "parsed", !.did = r.did \cup acted, !.steps = (r.did \cup acted) \cap {a}]
<1> HIDE DEF r
<1>4. r.did = {} /\ r.replaced = {} /\ "request" \in r.saved /\ r.saved \subseteq r.added
      /\ r.end = None
  BY <1>1 DEF TurnOK, RowOK, EffectsOK, RequestOK, Stored, Attempting, Retries
<1>5. acted \in SUBSET Attempts /\ acted \subseteq {"main"} \cup Retries
  BY <1>3 DEF Attempts, Attempting, Retries
<1>6. (r.did \cup acted) \cap {a} = acted /\ r.did \cup acted = acted
  BY <1>3, <1>4
<1>7. /\ q \in Turn /\ q.at = "parsed" /\ q.end = r.end
      /\ q.did = acted /\ q.steps = acted /\ q.replaced = r.replaced
      /\ q.added = r.added /\ q.saved = r.saved
  BY ZenonT(40), <1>1, <1>5, <1>6 DEF Turn, Places
<1> HIDE DEF q
<1>8. TurnOK(q)
  BY <1>4, <1>5, <1>7 DEF TurnOK, RowOK, RequestOK, OpenOK, EffectsOK, PendingOK,
                          Closed0, Before, Attempting, Stored, Retries
<1> QED
  BY <1>2, <1>7, <1>8 DEF q

(* What is known of a run in its first attempts.                            *)
LEMMA AttemptFacts ==
  ASSUME NEW r \in Turn, TurnOK(r), r.at \in Attempting
  PROVE  r.end = None /\ r.did = {} /\ "request" \in r.saved /\ r.saved \subseteq r.added
BY DEF TurnOK, RowOK, EffectsOK, RequestOK, Stored, Attempting, Retries

(* It asks, or explains what was refused.                                   *)
LEMMA AsksOK ==
  ASSUME RunInv, NEW t \in Turns, run[t].at \in Attempting,
         GraphAsks(t) \/ Becomes(t, Explains(run[t]))
  PROVE  \E q \in Turn : TurnOK(q) /\ Becomes(t, q)
<1>1. run[t] \in Turn /\ TurnOK(run[t])
  BY Current
<1>2. run[t].end = None /\ run[t].did = {} /\ run[t].saved \subseteq run[t].added
  BY <1>1, AttemptFacts
<1>3. {"interrupted", "completed"} \subseteq Status
  BY DEF Status
<1>4. CASE GraphAsks(t)
  <2>1. Becomes(t, Released(Answers(run[t], "interrupted", "request")))
    BY <1>4 DEF GraphAsks
  <2> QED
    BY <1>1, <1>2, <1>3, <2>1, LateAnswerOK
<1>5. CASE Becomes(t, Explains(run[t]))
  <2>1. Becomes(t, Released(Answers(run[t], "completed", "validation")))
    BY <1>5 DEF Explains
  <2> QED
    BY <1>1, <1>2, <1>3, <2>1, LateAnswerOK
<1> QED
  BY <1>4, <1>5

(* It times out, or fails in a way that nobody tries again.                 *)
LEMMA GivesUpOK ==
  ASSUME RunInv, NEW t \in Turns, NEW how \in {"timed_out", "failed"}, GivesUp(t, how)
  PROVE  \E q \in Turn : TurnOK(q) /\ Becomes(t, q)
<1> DEFINE q == Released(NoticeOff(Persist(run[t], how)))
<1>1. run[t] \in Turn /\ TurnOK(run[t]) /\ run[t].at = "main"
  BY Current DEF GivesUp
<1>2. Becomes(t, RolledBack(q, how)) \/ Becomes(t, Committed(q, how))
  BY DEF GivesUp, Raised
<1> QED
  BY <1>1, <1>2, GivenUpOK

(* The known errors of the first attempt.                                   *)
LEMMA MainErrsOK ==
  ASSUME RunInv, NEW t \in Turns, MainErrs(t)
  PROVE  \E q \in Turn : TurnOK(q) /\ Becomes(t, q)
<1> DEFINE r == run[t]
<1>1. r \in Turn /\ TurnOK(r) /\ r.at = "main"
  BY Current DEF MainErrs
<1>2. CASE Becomes(t, Explains(run[t]))
  BY <1>1, <1>2, AsksOK DEF Attempting
<1>3. ASSUME NEW k \in Retries, Becomes(t, [r EXCEPT !.at = k])
      PROVE  \E q \in Turn : TurnOK(q) /\ Becomes(t, q)
  <2> DEFINE q == [r EXCEPT !.at = k]
  <2> HIDE DEF r
  <2>1. k \in Places
    BY DEF Places
  <2>2. /\ q \in Turn /\ q.at = k /\ q.end = r.end
        /\ q.did = r.did /\ q.replaced = r.replaced /\ q.added = r.added /\ q.saved = r.saved
    BY <1>1, <2>1 DEF Turn
  <2> HIDE DEF q
  <2>3. TurnOK(q)
    BY <1>1, <2>2 DEF TurnOK, RowOK, RequestOK, OpenOK, EffectsOK, PendingOK,
                      Closed0, Before, Attempting, Stored, Retries
  <2> QED
    BY <1>3, <2>2, <2>3 DEF q
<1> QED
  BY <1>2, <1>3 DEF MainErrs

(* The retries that fail.                                                   *)
LEMMA JsonRetryOK ==
  ASSUME RunInv, NEW t \in Turns, JsonRetry(t)
  PROVE  \E q \in Turn : TurnOK(q) /\ Becomes(t, q)
<1> DEFINE r == run[t]
           p == Answers(r, "failed", "apology")
           q == Released(NoticeOff(p))
<1>1. r \in Turn /\ TurnOK(r) /\ r.at = "json" /\ r.at \in Attempting
  BY Current DEF JsonRetry, Attempting, Retries
<1>2. CASE GraphEnds(t, "json", {"json"})
  BY <1>1, <1>2, GraphEndsOK
<1>3. CASE GraphAsks(t)
  BY <1>1, <1>3, AsksOK
<1>4. CASE Becomes(t, q)
  <2>1. r.end = None /\ r.did = {} /\ r.saved \subseteq r.added
    BY <1>1, AttemptFacts
  <2> HIDE DEF r
  <2>2. /\ p \in Turn /\ p.at = "returning" /\ p.tx = "failed" /\ p.told = "apology" /\ p.end = r.end
        /\ p.did = r.did /\ p.added = r.added /\ p.saved = r.saved
    BY <1>1, AnswersFields DEF Status, Words
  <2> HIDE DEF p
  <2>3. /\ q \in Turn /\ q.at = p.at /\ q.tx = p.tx /\ q.told = p.told /\ q.end = p.end
        /\ q.did = p.did /\ q.added = p.added /\ q.saved = p.saved
    BY <2>2, NoticeOffFields, ReleasedFields
  <2> HIDE DEF q
  <2>4. Answerable(q)
    BY <2>1, <2>2, <2>3 DEF Answerable
  <2> QED
    BY <1>4, <2>3, <2>4, AnswerableOK
<1> QED
  BY <1>2, <1>3, <1>4 DEF JsonRetry

LEMMA DanglingRetryOK ==
  ASSUME RunInv, NEW t \in Turns, DanglingRetry(t)
  PROVE  \E q \in Turn : TurnOK(q) /\ Becomes(t, q)
<1> DEFINE r == run[t]
<1>1. r \in Turn /\ TurnOK(r) /\ r.at = "dangling" /\ r.at \in Attempting
  BY Current DEF DanglingRetry, Attempting, Retries
<1>2. r.end = None /\ r.did = {} /\ r.saved \subseteq r.added
  BY <1>1, AttemptFacts
<1>3. CASE GraphEnds(t, "dangling", {"dangling"})
  BY <1>1, <1>3, GraphEndsOK
<1>4. CASE Becomes(t, Released(Answers(Persist(r, "failed"), None, "apology")))
  <2> DEFINE o == Persist(r, "failed")
             p == Answers(o, None, "apology")
             q == Released(p)
  <2> HIDE DEF r
  <2>1. /\ o \in Turn /\ o.row = "failed" /\ o.saved = r.added /\ o.added = r.added
        /\ o.did = r.did /\ o.end = r.end
    BY <1>1, PersistFields DEF Status
  <2> HIDE DEF o
  <2>2. /\ p \in Turn /\ p.at = "returning" /\ p.tx = None /\ p.told = "apology" /\ p.end = o.end
        /\ p.row = o.row /\ p.did = o.did /\ p.added = o.added /\ p.saved = o.saved
    BY <2>1, AnswersFields DEF Words
  <2> HIDE DEF p
  <2>3. /\ q \in Turn /\ q.at = p.at /\ q.tx = p.tx /\ q.told = p.told /\ q.end = p.end
        /\ q.row = p.row /\ q.did = p.did /\ q.added = p.added /\ q.saved = p.saved
    BY <2>2, ReleasedFields
  <2> HIDE DEF q
  <2>4. Answerable(q)
    BY <1>2, <2>1, <2>2, <2>3 DEF Answerable
  <2> QED
    BY <1>4, <2>3, <2>4, AnswerableOK DEF q, p, o
<1>5. CASE Becomes(t, Raised(t, Released([r EXCEPT !.tx = "failed"]), "raised"))
  <2> DEFINE p == [r EXCEPT !.tx = "failed"]
             q == Released(p)
  <2>1. Becomes(t, RolledBack(q, "raised")) \/ Becomes(t, Committed(q, "raised"))
    BY <1>5 DEF Raised
  <2> HIDE DEF r
  <2>2. p \in Turn /\ p.did = r.did /\ p.added = r.added /\ p.saved = r.saved
    BY <1>1 DEF Turn, Status
  <2> HIDE DEF p
  <2>3. q \in Turn /\ q.did = {} /\ q.saved \subseteq q.added
    BY <1>2, <2>2, ReleasedFields
  <2> HIDE DEF q
  <2>4. \A how \in {"cut", "raised", "crashed"} :
          /\ RolledBack(q, how) \in Turn /\ TurnOK(RolledBack(q, how))
          /\ Committed(q, how) \in Turn /\ TurnOK(Committed(q, how))
    BY <2>3, CutOK
  <2> QED
    BY <2>1, <2>4
<1> QED
  BY <1>3, <1>4, <1>5 DEF DanglingRetry

LEMMA GoogleRetryOK ==
  ASSUME RunInv, NEW t \in Turns, GoogleRetry(t)
  PROVE  \E q \in Turn : TurnOK(q) /\ Becomes(t, q)
<1>1. run[t].at = "google" /\ run[t].at \in Attempting
  BY DEF GoogleRetry, Attempting, Retries
<1>2. CASE GraphEnds(t, "google", {"google"})
  BY <1>1, <1>2, GraphEndsOK
<1>3. CASE Becomes(t, Explains(run[t]))
  BY <1>1, <1>3, AsksOK
<1> QED
  BY <1>2, <1>3 DEF GoogleRetry

(* What is known of a run that completes its result.                        *)
Completing == {"parsed", "more", "file", "fresh", "final", "guarding"}
LEMMA CompletingFacts ==
  ASSUME NEW r \in Turn, TurnOK(r), r.at \in Completing
  PROVE  /\ r.end = None /\ "request" \in r.saved /\ r.saved \subseteq r.added
         /\ r.did \subseteq Attempts /\ r.steps \subseteq Attempts /\ r.added \subseteq Messages
         /\ r.replaced \subseteq {"mcp", "more"}
BY DEF TurnOK, RowOK, RequestOK, Stored, Turn, Completing

(* A run that is still completing its result fits if its effects do.        *)
LEMMA CompletingOK ==
  ASSUME NEW q \in Turn, q.at \in Completing, q.end = None, "request" \in q.saved,
         q.saved \subseteq q.added, EffectsOK(q), q.at = "guarding" => OpenOK(q)
  PROVE  TurnOK(q)
BY DEF TurnOK, RowOK, RequestOK, OpenOK, PendingOK, Closed0, Before, Completing

LEMMA SkipsOK ==
  ASSUME RunInv, NEW t \in Turns, NEW next \in {"more", "file", "final"}, Skips(t, next),
         \/ run[t].at = "parsed" /\ next = "more"
         \/ run[t].at = "more" /\ next = "file"
         \/ run[t].at = "fresh" /\ next = "final"
  PROVE  \E q \in Turn : TurnOK(q) /\ Becomes(t, q)
<1> DEFINE r == run[t]
           q == [r EXCEPT !.at = next]
<1>1. /\ r \in Turn /\ TurnOK(r) /\ Becomes(t, q)
      /\ \/ r.at = "parsed" /\ next = "more"
         \/ r.at = "more" /\ next = "file"
         \/ r.at = "fresh" /\ next = "final"
  BY Current DEF Skips
<1> HIDE DEF r
<1>2. /\ q \in Turn /\ q.at = next /\ q.end = r.end
      /\ q.did = r.did /\ q.steps = r.steps /\ q.replaced = r.replaced
      /\ q.added = r.added /\ q.saved = r.saved
  BY <1>1 DEF Turn, Places
<1>3. r.end = None /\ "request" \in r.saved /\ r.saved \subseteq r.added
  BY <1>1, CompletingFacts DEF Completing
<1> HIDE DEF q
<1>4. Dropped(q) = Dropped(r)
  BY <1>2 DEF Dropped, MayBeDropped
<1>5. EffectsOK(q)
  BY <1>1, <1>2, <1>3, <1>4 DEF EffectsOK, TurnOK, Before, Closed0, Attempting, Retries
<1> QED
  BY <1>1, <1>2, <1>3, <1>5, CompletingOK DEF Completing

LEMMA McpRetryOK ==
  ASSUME RunInv, NEW t \in Turns, McpRetry(t)
  PROVE  \E q \in Turn : TurnOK(q) /\ Becomes(t, q)
<1> DEFINE r == run[t]
<1>1. r \in Turn /\ TurnOK(r) /\ r.at = "parsed"
  BY Zenon, Current DEF McpRetry
<1>2. CASE Skips(t, "more")
  BY <1>1, <1>2, SkipsOK
<1>3. ASSUME NEW acted \in Acts(t, "mcp"),
             Becomes(t, [r EXCEPT !.at = "more", !.did = r.did \cup acted, !.steps = acted,
                                  !.replaced = r.replaced \cup {"mcp"}])
      PROVE  \E q \in Turn : TurnOK(q) /\ Becomes(t, q)
  <2> DEFINE q == [r EXCEPT !.at = "more", !.did = r.did \cup acted, !.steps = acted,
                            !.replaced = r.replaced \cup {"mcp"}]
  <2> HIDE DEF r
  <2>1. acted = {} \/ acted = {"mcp"}
    BY ActsOK
  <2>2. /\ r.end = None /\ "request" \in r.saved /\ r.saved \subseteq r.added
        /\ r.did \subseteq Attempts /\ r.replaced \subseteq {"mcp", "more"}
        /\ r.did \subseteq {"main"} \cup Retries
    BY <1>1, CompletingFacts DEF Completing, TurnOK, EffectsOK
  <2>3. acted \in SUBSET Attempts /\ r.did \cup acted \in SUBSET Attempts
        /\ r.replaced \cup {"mcp"} \in SUBSET {"mcp", "more"} /\ "more" \in Places
    BY <2>1, <2>2 DEF Attempts, Places
  <2>4. /\ q \in Turn /\ q.at = "more" /\ q.end = r.end
        /\ q.did = r.did \cup acted /\ q.steps = acted /\ q.replaced = r.replaced \cup {"mcp"}
        /\ q.added = r.added /\ q.saved = r.saved
    BY <1>1, <2>3 DEF Turn
  <2> HIDE DEF q
  <2>5. q.did \subseteq q.steps \cup Dropped(q)
    BY <2>2, <2>4 DEF Dropped, MayBeDropped, Retries
  <2>6. EffectsOK(q)
    BY <2>1, <2>2, <2>4, <2>5 DEF EffectsOK, Before, Closed0, Attempting, Retries
  <2> QED
    BY <1>3, <2>2, <2>4, <2>6, CompletingOK DEF Completing, q
<1> QED
  BY Zenon, <1>1, <1>2, <1>3 DEF McpRetry, Turn

LEMMA ContinuesOK ==
  ASSUME RunInv, NEW t \in Turns, Continues(t)
  PROVE  \E q \in Turn : TurnOK(q) /\ Becomes(t, q)
<1> DEFINE r == run[t]
<1>1. r \in Turn /\ TurnOK(r) /\ r.at = "more"
  BY Zenon, Current DEF Continues
<1>2. CASE Skips(t, "file")
  BY <1>1, <1>2, SkipsOK
<1>3. ASSUME NEW acted \in Acts(t, "more"),
             Becomes(t, [r EXCEPT !.at = "file", !.did = r.did \cup acted,
                                  !.steps = (r.did \cap OnThread) \cup acted,
                                  !.replaced = r.replaced \cup {"more"}])
      PROVE  \E q \in Turn : TurnOK(q) /\ Becomes(t, q)
  <2> DEFINE q == [r EXCEPT !.at = "file", !.did = r.did \cup acted,
                            !.steps = (r.did \cap OnThread) \cup acted,
                            !.replaced = r.replaced \cup {"more"}]
  <2> HIDE DEF r
  <2>1. acted = {} \/ acted = {"more"}
    BY ActsOK
  <2>2. /\ r.end = None /\ "request" \in r.saved /\ r.saved \subseteq r.added
        /\ r.did \subseteq Attempts /\ r.replaced \subseteq {"mcp", "more"}
        /\ r.did \subseteq {"main", "mcp"} \cup Retries
    BY <1>1, CompletingFacts DEF Completing, TurnOK, EffectsOK
  <2>3. r.did \cup acted \in SUBSET Attempts /\ (r.did \cap OnThread) \cup acted \in SUBSET Attempts
        /\ r.replaced \cup {"more"} \in SUBSET {"mcp", "more"} /\ "file" \in Places
    BY <2>1, <2>2 DEF Attempts, Places
  <2>4. /\ q \in Turn /\ q.at = "file" /\ q.end = r.end
        /\ q.did = r.did \cup acted /\ q.steps = (r.did \cap OnThread) \cup acted
        /\ q.replaced = r.replaced \cup {"more"}
        /\ q.added = r.added /\ q.saved = r.saved
    BY <1>1, <2>3 DEF Turn
  <2> HIDE DEF q
  <2>5. Attempts \ OnThread \subseteq Dropped(q) \cup {"file", "fresh", "direct"}
    BY <2>4 DEF Dropped, MayBeDropped
  <2>6. q.did \subseteq q.steps \cup Dropped(q)
    <3>1. r.did \cap {"file", "fresh", "direct"} = {}
      BY <2>2 DEF Retries
    <3>2. r.did \subseteq (r.did \cap OnThread) \cup (Attempts \ OnThread)
      BY <2>2
    <3> QED
      BY <2>4, <2>5, <3>1, <3>2
  <2>7. EffectsOK(q)
    BY <2>2, <2>4, <2>6 DEF EffectsOK, Before, Closed0, Attempting, Retries
  <2> QED
    BY <1>3, <2>2, <2>4, <2>7, CompletingOK DEF Completing, q
<1> QED
  BY Zenon, <1>1, <1>2, <1>3 DEF Continues, Turn

LEMMA SendsFileOK ==
  ASSUME RunInv, NEW t \in Turns, SendsFile(t)
  PROVE  \E q \in Turn : TurnOK(q) /\ Becomes(t, q)
<1> DEFINE r == run[t]
<1>1. r \in Turn /\ TurnOK(r) /\ r.at = "file"
  BY Current DEF SendsFile
<1>2. PICK sent \in IF kind[t] = "wa" THEN Acts(t, "file") ELSE {{}} :
        Becomes(t, [r EXCEPT !.at = "fresh", !.did = r.did \cup sent, !.steps = r.steps \cup sent,
                             !.added = r.added \cup r.steps \cup sent])
  BY Zenon, <1>1 DEF SendsFile, AddedFirst, Turn
<1> DEFINE q == [r EXCEPT !.at = "fresh", !.did = r.did \cup sent, !.steps = r.steps \cup sent,
                          !.added = r.added \cup r.steps \cup sent]
<1> HIDE DEF r
<1>3. sent = {} \/ sent = {"file"}
  BY ActsOK
<1>4. /\ r.end = None /\ "request" \in r.saved /\ r.saved \subseteq r.added
      /\ r.did \subseteq Attempts /\ r.steps \subseteq Attempts /\ r.added \subseteq Messages
      /\ r.did \subseteq r.steps \cup Dropped(r)
  BY <1>1, CompletingFacts DEF Completing, TurnOK, EffectsOK
<1>5. r.did \cup sent \in SUBSET Attempts /\ r.steps \cup sent \in SUBSET Attempts
      /\ r.added \cup r.steps \cup sent \in SUBSET Messages /\ "fresh" \in Places
  BY <1>3, <1>4 DEF Attempts, Messages, Places
<1>6. /\ q \in Turn /\ q.at = "fresh" /\ q.end = r.end
      /\ q.did = r.did \cup sent /\ q.replaced = r.replaced
      /\ q.added = r.added \cup r.steps \cup sent /\ q.saved = r.saved
  BY <1>1, <1>5 DEF Turn
<1> HIDE DEF q
<1>7. Dropped(q) = Dropped(r)
  BY <1>6 DEF Dropped, MayBeDropped
<1>8. EffectsOK(q)
  BY <1>4, <1>6, <1>7 DEF EffectsOK, Before, Closed0, Attempting, Retries
<1>9. TurnOK(q)
  BY <1>4, <1>6, <1>8, CompletingOK DEF Completing
<1> QED
  BY <1>2, <1>6, <1>9 DEF q

LEMMA FillsArtifactOK ==
  ASSUME RunInv, NEW t \in Turns, FillsArtifact(t)
  PROVE  \E q \in Turn : TurnOK(q) /\ Becomes(t, q)
<1> DEFINE r == run[t]
<1>1. r \in Turn /\ TurnOK(r) /\ r.at = "fresh"
  BY Zenon, Current DEF FillsArtifact
<1>2. CASE Skips(t, "final")
  BY <1>1, <1>2, SkipsOK
<1>3. ASSUME NEW acted \in Acts(t, "fresh"),
             Becomes(t, [r EXCEPT !.at = "final", !.did = r.did \cup acted, !.steps = acted])
      PROVE  \E q \in Turn : TurnOK(q) /\ Becomes(t, q)
  <2> DEFINE q == [r EXCEPT !.at = "final", !.did = r.did \cup acted, !.steps = acted]
  <2> HIDE DEF r
  <2>1. acted = {} \/ acted = {"fresh"}
    BY ActsOK
  <2>2. /\ r.end = None /\ "request" \in r.saved /\ r.saved \subseteq r.added
        /\ r.did \subseteq Attempts /\ r.did \subseteq r.added \cup Dropped(r)
    BY <1>1, CompletingFacts DEF Completing, TurnOK, EffectsOK
  <2>3. r.did \cup acted \in SUBSET Attempts /\ acted \in SUBSET Attempts /\ "final" \in Places
    BY <2>1, <2>2 DEF Attempts, Places
  <2>4. /\ q \in Turn /\ q.at = "final" /\ q.end = r.end
        /\ q.did = r.did \cup acted /\ q.steps = acted /\ q.replaced = r.replaced
        /\ q.added = r.added /\ q.saved = r.saved
    BY <1>1, <2>3 DEF Turn
  <2> HIDE DEF q
  <2>5. Dropped(q) = Dropped(r)
    BY <2>4 DEF Dropped, MayBeDropped
  <2>6. EffectsOK(q)
    BY <2>2, <2>4, <2>5 DEF EffectsOK, Before, Closed0, Attempting, Retries
  <2> QED
    BY <1>3, <2>2, <2>4, <2>6, CompletingOK DEF Completing, q
<1> QED
  BY Zenon, <1>1, <1>2, <1>3 DEF FillsArtifact, Turn

LEMMA CleansUpOK ==
  ASSUME RunInv, NEW t \in Turns, CleansUp(t)
  PROVE  \E q \in Turn : TurnOK(q) /\ Becomes(t, q)
<1> DEFINE r == run[t]
           p == [r EXCEPT !.at = "guarding", !.added = r.added \cup r.steps]
           q == Released(NoticeOff(p))
<1>1. r \in Turn /\ TurnOK(r) /\ r.at = "final" /\ Becomes(t, q)
  BY Current DEF CleansUp, Turn
<1> HIDE DEF r
<1>2. /\ r.end = None /\ "request" \in r.saved /\ r.saved \subseteq r.added
      /\ r.steps \subseteq Attempts /\ r.added \subseteq Messages
      /\ r.did \subseteq r.steps \cup r.added \cup Dropped(r)
  BY <1>1, CompletingFacts DEF Completing, TurnOK, EffectsOK
<1>3. r.added \cup r.steps \in SUBSET Messages /\ "guarding" \in Places
  BY <1>2 DEF Messages, Places
<1>4. /\ p \in Turn /\ p.at = "guarding" /\ p.end = r.end /\ p.did = r.did
      /\ p.replaced = r.replaced /\ p.added = r.added \cup r.steps /\ p.saved = r.saved
  BY <1>1, <1>3 DEF Turn
<1> HIDE DEF p
<1>5. /\ q \in Turn /\ q.at = "guarding" /\ q.end = p.end /\ q.did = p.did /\ q.holds = {} /\ q.notice = None
      /\ q.replaced = p.replaced /\ q.added = p.added /\ q.saved = p.saved
  BY <1>4, NoticeOffFields, ReleasedFields
<1> HIDE DEF q
<1>6. Dropped(q) = Dropped(r)
  BY <1>4, <1>5 DEF Dropped, MayBeDropped
<1>7. EffectsOK(q) /\ OpenOK(q)
  BY <1>2, <1>4, <1>5, <1>6 DEF EffectsOK, OpenOK, Before, Closed0, Attempting, Retries
<1>8. TurnOK(q)
  BY <1>2, <1>4, <1>5, <1>7, CompletingOK DEF Completing
<1> QED
  BY <1>1, <1>5, <1>8

LEMMA CompletesOK ==
  ASSUME RunInv, NEW t \in Turns, Completes(t)
  PROVE  \E q \in Turn : TurnOK(q) /\ Becomes(t, q)
<1> DEFINE r == run[t]
           q == Answers(r, "completed", "result")
<1>1. r \in Turn /\ TurnOK(r) /\ r.at = "guarding" /\ Becomes(t, q)
  BY Current DEF Completes, Guarded
<1> HIDE DEF r
<1>2. /\ r.end = None /\ "request" \in r.saved /\ r.saved \subseteq r.added
      /\ r.did \subseteq r.added \cup Dropped(r) /\ r.holds = {} /\ r.notice = None
  BY <1>1, CompletingFacts DEF Completing, TurnOK, EffectsOK, OpenOK
<1>3. /\ q \in Turn /\ q.at = "returning" /\ q.tx = "completed" /\ q.told = "result"
      /\ q.holds = r.holds /\ q.notice = r.notice /\ q.end = r.end
      /\ q.did = r.did /\ q.replaced = r.replaced /\ q.added = r.added /\ q.saved = r.saved
  BY <1>1, AnswersFields DEF Status, Words
<1> HIDE DEF q
<1>4. Answerable(q)
  BY <1>2, <1>3 DEF Answerable, Dropped, MayBeDropped
<1> QED
  BY <1>1, <1>3, <1>4, AnswerableOK

----------------------------------------------------------------------------
(* What can happen to a run. *)

LEMMA CancelledOK ==
  ASSUME RunInv, NEW t \in Turns, Cancelled(t)
  PROVE  \E q \in Turn : TurnOK(q) /\ Becomes(t, q)
<1> DEFINE r == run[t]
<1>1. r \in Turn /\ TurnOK(r)
  BY Current
<1>2. r.saved \subseteq r.added /\ (r.did # {} => "request" \in r.saved)
  BY <1>1 DEF TurnOK, RequestOK
<1>3. CASE r.at = "main"
  BY <1>1, <1>3, GivenUpOK DEF Cancelled
<1>4. CASE r.at # "main"
  <2>1. Becomes(t, RolledBack(r, "cut"))
    BY <1>4 DEF Cancelled
  <2> QED
    BY <1>1, <1>2, <2>1, CutOK
<1> QED
  BY <1>3, <1>4

LEMMA RaisesOK ==
  ASSUME RunInv, NEW t \in Turns, Raises(t)
  PROVE  \E q \in Turn : TurnOK(q) /\ Becomes(t, q)
<1> DEFINE r == run[t]
<1>1. r \in Turn /\ TurnOK(r)
  BY Current
<1>2. r.saved \subseteq r.added /\ (r.did # {} => "request" \in r.saved)
  BY <1>1 DEF TurnOK, RequestOK
<1>3. Becomes(t, RolledBack(r, "raised")) \/ Becomes(t, Committed(r, "raised"))
  BY DEF Raises, Raised
<1> QED
  BY <1>1, <1>2, <1>3, CutOK

(* What is still pending of the notice goes with the process.               *)
LEMMA UnnoticedOK ==
  ASSUME NEW r \in Turn, TurnOK(r)
  PROVE  LET q == [r EXCEPT !.notice = None]
         IN  /\ q \in Turn /\ TurnOK(q) /\ q.at = r.at /\ q.pending = r.pending
             /\ q.did = r.did /\ q.added = r.added /\ q.saved = r.saved
<1> DEFINE q == [r EXCEPT !.notice = None]
<1>1. /\ q \in Turn /\ q.at = r.at /\ q.row = r.row /\ q.tx = r.tx /\ q.holds = r.holds /\ q.notice = None
      /\ q.pending = r.pending /\ q.did = r.did /\ q.steps = r.steps /\ q.replaced = r.replaced
      /\ q.added = r.added /\ q.saved = r.saved /\ q.end = r.end /\ q.told = r.told
  BY DEF Turn
<1> HIDE DEF q
<1>2. RowOK(q) /\ RequestOK(q) /\ PendingOK(q)
  BY <1>1 DEF TurnOK, RowOK, RequestOK, PendingOK
<1>3. OpenOK(q) /\ EffectsOK(q)
  BY <1>1 DEF TurnOK, OpenOK, EffectsOK, Dropped, MayBeDropped
<1> QED
  BY <1>1, <1>2, <1>3 DEF TurnOK, q

LEMMA CrashOK ==
  ASSUME RunInv, Crash
  PROVE  /\ run' \in [Turns -> Turn] /\ \A t \in Turns : TurnOK(run'[t])
         /\ \A t \in Turns : run'[t].at # "over" => run'[t].at = run[t].at /\ ~Live(t)
<1> DEFINE u(t) == [run[t] EXCEPT !.notice = None]
<1>1. run' = [t \in Turns |-> IF Live(t) THEN RolledBack(u(t), "crashed") ELSE u(t)]
  BY DEF Crash
<1>2. ASSUME NEW t \in Turns
      PROVE  /\ u(t) \in Turn /\ TurnOK(u(t)) /\ u(t).at = run[t].at
             /\ RolledBack(u(t), "crashed") \in Turn /\ TurnOK(RolledBack(u(t), "crashed"))
             /\ RolledBack(u(t), "crashed").at = "over"
  <2> DEFINE q == u(t)
  <2>1. run[t] \in Turn /\ TurnOK(run[t])
    BY Current
  <2>2. q \in Turn /\ TurnOK(q) /\ q.at = run[t].at
    BY <2>1, UnnoticedOK
  <2> HIDE DEF q
  <2>3. q.saved \subseteq q.added /\ (q.did # {} => "request" \in q.saved)
    BY <2>2 DEF TurnOK, RequestOK
  <2>4. RolledBack(q, "crashed") \in Turn /\ TurnOK(RolledBack(q, "crashed"))
        /\ RolledBack(q, "crashed").at = "over"
    BY <2>2, <2>3, CutOK, RolledBackFields DEF Ends
  <2> QED
    BY <2>2, <2>4 DEF q
<1> HIDE DEF u
<1> QED
  BY <1>1, <1>2

(* A sweep touches rows that say "running" only.                            *)
LEMMA SweepsOK ==
  ASSUME RunInv, Sweeps
  PROVE  /\ run' \in [Turns -> Turn] /\ \A t \in Turns : TurnOK(run'[t])
         /\ \A t \in Turns : run'[t].at = run[t].at /\ run'[t].pending = run[t].pending
<1>1. CASE run' = run
  BY <1>1 DEF RunInv, TypeInv
<1>2. CASE run' = Abandoned
  <2>1. ASSUME NEW t \in Turns
        PROVE  /\ run'[t] \in Turn /\ TurnOK(run'[t])
               /\ run'[t].at = run[t].at /\ run'[t].pending = run[t].pending
    <3> DEFINE r == run[t]
               w == IF r.row = "running" THEN "abandoned" ELSE r.row
               q == [r EXCEPT !.row = w]
    <3>1. r \in Turn /\ TurnOK(r)
      BY Current
    <3>2. run'[t] = q
      BY <1>2, <3>1 DEF Abandoned, Turn
    <3> HIDE DEF r
    <3>3. w \in Status \cup {None} /\ (r.row # "running" => w = r.row)
      BY <3>1 DEF Turn, Status
    <3> HIDE DEF w
    <3>4. /\ q \in Turn /\ q.at = r.at /\ q.row = w /\ q.tx = r.tx /\ q.holds = r.holds /\ q.notice = r.notice
          /\ q.pending = r.pending /\ q.did = r.did /\ q.steps = r.steps /\ q.replaced = r.replaced
          /\ q.added = r.added /\ q.saved = r.saved /\ q.end = r.end /\ q.told = r.told
      BY <3>1, <3>3 DEF Turn
    <3> HIDE DEF q
    <3>5. RowOK(q)
      BY <3>1, <3>3, <3>4 DEF TurnOK, RowOK
    <3>6. RequestOK(q) /\ PendingOK(q)
      BY <3>1, <3>4 DEF TurnOK, RequestOK, PendingOK
    <3>7. OpenOK(q) /\ EffectsOK(q)
      BY <3>1, <3>4 DEF TurnOK, OpenOK, EffectsOK, Dropped, MayBeDropped
    <3> QED
      BY <3>2, <3>4, <3>5, <3>6, <3>7 DEF TurnOK, r
  <2>2. run' = [t \in Turns |-> run'[t]]
    BY <1>2 DEF Abandoned
  <2> QED
    BY <2>1, <2>2
<1> QED
  BY <1>1, <1>2 DEF Sweeps

----------------------------------------------------------------------------
(* The invariant of the runs. *)

(* The initial state satisfies it.                                          *)
LEMMA RunInit == Init => RunInv
<1> SUFFICES ASSUME Init PROVE RunInv
  OBVIOUS
<1>1. /\ Fresh \in Turn /\ Fresh.at = "expected" /\ Fresh.end = None /\ Fresh.holds = {}
      /\ Fresh.notice = None /\ Fresh.did = {} /\ Fresh.replaced = {}
      /\ Fresh.added = {} /\ Fresh.saved = {}
  BY DEF Fresh, Turn, Places
<1>2. TurnOK(Fresh)
  BY <1>1 DEF TurnOK, RowOK, RequestOK, OpenOK, EffectsOK, PendingOK,
              Closed0, Before, Attempting, Stored, Retries
<1>3. TypeInv
  BY <1>1, CallersAssumption, BoundAssumption DEF Init, TypeInv
<1> QED
  BY <1>2, <1>3 DEF Init, RunInv

(* A step of a turn's own.                                                  *)
TurnStep(t) == Begins(t) \/ Advances(t) \/ Raises(t) \/ NoticeDue(t) \/ NoticeSent(t) \/ Cancelled(t)

(* It leads to a record that fits.                                          *)
LEMMA TurnStepOK ==
  ASSUME RunInv, NEW t \in Turns, TurnStep(t)
  PROVE  \E q \in Turn : TurnOK(q) /\ Becomes(t, q)
<1>1. CASE Begins(t)
  BY <1>1, BeginsOK
<1>2. CASE Raises(t) \/ Cancelled(t)
  BY <1>2, RaisesOK, CancelledOK
<1>3. CASE NoticeDue(t) \/ NoticeSent(t)
  BY <1>3, NoticeOK
<1>4. CASE LooksForInterrupt(t) \/ Classifies(t) \/ Resumes(t) \/ ResumeFails(t) \/ Gates(t) \/ Enters(t)
  BY <1>4, LooksOK, ClassifiesOK, ResumesOK, GatesOK, EntersOK
<1>5. CASE RefusesCustomer(t) \/ BlocksBeforeGraph(t) \/ Prepares(t)
  BY <1>5, RefusesOK, StartsOK DEF BlocksBeforeGraph
<1>6. CASE SendsImage(t) \/ SendsConfirmedText(t) \/ Starts(t)
  BY <1>6, SendsImageOK, StartsOK DEF SendsConfirmedText
<1>7. CASE MainEnds(t) \/ MainAsks(t)
  <2>1. run[t].at = "main" /\ run[t].at \in Attempting
    BY <1>7 DEF MainEnds, MainAsks, Attempting
  <2> QED
    BY <1>7, <2>1, GraphEndsOK, AsksOK DEF MainEnds, MainAsks
<1>8. CASE MainTimesOut(t) \/ MainFails(t) \/ MainErrs(t)
  BY <1>8, GivesUpOK, MainErrsOK DEF MainTimesOut, MainFails
<1>9. CASE JsonRetry(t) \/ DanglingRetry(t) \/ GoogleRetry(t)
  BY <1>9, JsonRetryOK, DanglingRetryOK, GoogleRetryOK
<1>10. CASE McpRetry(t) \/ Continues(t) \/ SendsFile(t) \/ FillsArtifact(t)
  BY <1>10, McpRetryOK, ContinuesOK, SendsFileOK, FillsArtifactOK
<1>11. CASE CleansUp(t) \/ Completes(t)
  BY <1>11, CleansUpOK, CompletesOK
<1>12. CASE Returns(t)
  BY <1>12, Current, ReturnedOK DEF Returns
<1> QED
  BY <1>1, <1>2, <1>3, <1>4, <1>5, <1>6, <1>7, <1>8, <1>9, <1>10, <1>11, <1>12 DEF TurnStep, Advances

(* How it uses the store: a request is forgotten or made by the turn itself, *)
(* which then returns; the turn that brings a request to its end was at it.  *)
LEMMA TurnStepStore ==
  ASSUME RunInv, NEW t \in Turns, TurnStep(t)
  PROVE  /\ \/ store' = store
            \/ store' = None
            \/ store' = t /\ run[t].at \in Attempting \cup {"resuming"} /\ run'[t].at = "returning"
         /\ \/ resumed' = resumed
            \/ /\ run[t].at = "resuming" /\ run'[t].at = "returning" /\ store' \in {None, t}
               /\ resumed' = [resumed EXCEPT ![run[t].pending] = @ \cup {t}]
<1>1. CASE Resumes(t)
  <2>1. run[t] \in Turn
    BY Current
  <2>2. Answers(run[t], "interrupted", "request").at = "returning"
        /\ Answers(run[t], "completed", "result").at = "returning"
    BY <2>1, AnswersFields DEF Status, Words
  <2>3. run'[t].at = "returning"
    BY <1>1, <2>2 DEF Resumes, Becomes, RunInv, TypeInv
  <2> QED
    BY <1>1, <2>3 DEF Resumes, AfterResume
<1>2. ASSUME run[t].at \in Attempting, GraphAsks(t)
      PROVE  /\ \/ store' = store
                \/ store' = t /\ run'[t].at = "returning"
             /\ resumed' = resumed
  <2>1. run[t] \in Turn
    BY Current
  <2>2. Answers(run[t], "interrupted", "request") \in Turn
        /\ Answers(run[t], "interrupted", "request").at = "returning"
    BY <2>1, AnswersFields DEF Status, Words
  <2>3. Released(Answers(run[t], "interrupted", "request")).at = "returning"
    BY <2>2, ReleasedFields
  <2>4. run'[t].at = "returning"
    BY <1>2, <2>3 DEF GraphAsks, Becomes, RunInv, TypeInv
  <2> QED
    BY <1>2, <2>4 DEF GraphAsks
<1>3. CASE MainAsks(t)
  BY <1>2, <1>3 DEF MainAsks, Attempting
<1>4. CASE JsonRetry(t)
  BY Zenon, <1>2, <1>4 DEF JsonRetry, GraphEnds, Attempting, Retries
<1>5. CASE Classifies(t) \/ ResumeFails(t)
  BY <1>5 DEF Classifies, ResumeFails
<1>6. CASE Begins(t) \/ LooksForInterrupt(t) \/ Gates(t) \/ Enters(t) \/ RefusesCustomer(t) \/ BlocksBeforeGraph(t)
           \/ Prepares(t) \/ SendsImage(t) \/ SendsConfirmedText(t) \/ Starts(t)
  BY Zenon, <1>6 DEF Begins, LooksForInterrupt, Gates, Enters, RefusesCustomer, BlocksBeforeGraph, Prepares,
              SendsImage, SendsConfirmedText, Starts
<1>7. CASE MainEnds(t) \/ MainTimesOut(t) \/ MainFails(t) \/ MainErrs(t) \/ DanglingRetry(t) \/ GoogleRetry(t)
  BY Zenon, <1>7 DEF MainEnds, MainTimesOut, MainFails, GivesUp, MainErrs, DanglingRetry, GoogleRetry, GraphEnds
<1>8. CASE McpRetry(t) \/ Continues(t) \/ SendsFile(t) \/ FillsArtifact(t) \/ CleansUp(t) \/ Completes(t)
           \/ Returns(t)
  BY Zenon, <1>8 DEF McpRetry, Continues, SendsFile, FillsArtifact, CleansUp, Completes, Returns
<1>9. CASE Raises(t) \/ Cancelled(t) \/ NoticeDue(t) \/ NoticeSent(t)
  BY <1>9 DEF Raises, Cancelled, NoticeDue, NoticeSent
<1> QED
  BY <1>1, <1>3, <1>4, <1>5, <1>6, <1>7, <1>8, <1>9 DEF TurnStep, Advances

(* A step keeps the invariant.                                              *)
LEMMA RunStep == RunInv /\ [Next]_vars => RunInv'
<1> SUFFICES ASSUME RunInv, [Next]_vars PROVE RunInv'
  OBVIOUS
<1>1. TypeInv /\ troubles \in Nat
  BY BoundAssumption DEF RunInv, TypeInv
<1>2. ASSUME NEW t \in Turns, TurnStep(t), Elsewhere PROVE RunInv'
  <2>1. PICK q \in Turn : TurnOK(q) /\ Becomes(t, q)
    BY <1>2, TurnStepOK
  <2>2. run' \in [Turns -> Turn] /\ \A u \in Turns : TurnOK(run'[u])
    BY <2>1, OneTurn
  <2>3. store' \in Turns \cup {Earlier, None}
    BY <1>1, <1>2, TurnStepStore DEF TypeInv
  <2>4. resumed' \in [Turns \cup {Earlier} -> SUBSET Turns]
    BY <1>1, <1>2, TurnStepStore DEF TypeInv
  <2> QED
    BY <1>1, <1>2, <2>2, <2>3, <2>4 DEF RunInv, TypeInv
<1>3. CASE Crash
  <2>1. /\ up' = FALSE /\ troubles' = troubles + 1 /\ troubles < MaxTroubles
        /\ store' = None /\ UNCHANGED <<kind, resumed>>
    BY <1>3 DEF Crash
  <2>2. troubles' \in 0..MaxTroubles
    BY <1>1, <2>1, BoundAssumption
  <2>3. run' \in [Turns -> Turn] /\ \A t \in Turns : TurnOK(run'[t])
    BY <1>3, CrashOK
  <2> QED
    BY <1>1, <2>1, <2>2, <2>3 DEF RunInv, TypeInv
<1>4. CASE Restart \/ AnotherProcessStarts
  <2>1. Sweeps /\ UNCHANGED <<store, resumed, kind>> /\ (up' = TRUE \/ up' = up)
    BY <1>4 DEF Restart, AnotherProcessStarts
  <2>2. troubles' = troubles \/ (troubles' = troubles + 1 /\ troubles < MaxTroubles)
    BY <1>4 DEF Restart, AnotherProcessStarts
  <2>3. troubles' \in 0..MaxTroubles
    BY <1>1, <2>2, BoundAssumption DEF TypeInv
  <2> QED
    BY <1>1, <2>1, <2>3, SweepsOK DEF RunInv, TypeInv
<1>5. CASE Reset
  BY <1>5 DEF Reset, RunInv, TypeInv
<1>6. CASE UNCHANGED vars
  BY <1>6 DEF RunInv, TypeInv
<1> QED
  BY <1>2, <1>3, <1>4, <1>5, <1>6 DEF Next, TurnStep

----------------------------------------------------------------------------
(* The theorems. *)

(* The committed row tells how the turn ended, and once the graph could     *)
(* start the customer's message is stored (_persist_run_failure,            *)
(* _persist_inbound_user_message).                                          *)
THEOREM RunsAreAccounted == Spec => []RunAccounted
<1>1. ASSUME RunInv PROVE RunAccounted
  <2>1. ASSUME NEW t \in Turns, Over(t)
        PROVE  LET r == run[t] IN
               /\ r.end \in {"cancelled", "timed_out", "failed"} => r.row = r.end
               /\ r.end = "answered" => CASE r.told = "request" -> r.row = "interrupted"
                                          [] r.told = "apology" -> r.row = "failed"
                                          [] OTHER -> r.row = "completed"
               /\ r.row \in {None, "running", "abandoned"} => r.end \in {"cut", "raised", "crashed"}
    <3>1. RowOK(run[t]) /\ run[t] \in Turn /\ run[t].end # None
      BY <1>1, <2>1, Current DEF TurnOK, Over, RowOK
    <3> QED
      BY <3>1 DEF RowOK, Turn
  <2>2. RowTellsTheEnd
    BY <2>1 DEF RowTellsTheEnd
  <2>3. RequestSurvives
    BY <1>1, Current DEF RequestSurvives, TurnOK, RequestOK
  <2> QED
    BY <2>2, <2>3 DEF RunAccounted
<1> QED
  BY <1>1, RunInit, RunStep, PTL DEF Spec

(* What a finished attempt of an answered run did to the world is in the    *)
(* stored history, or was dropped by a follow-up that took its place        *)
(* (run_agent, the merges of later attempts).                               *)
THEOREM EffectsAreStored == Spec => []EffectsAreWritten
<1>1. RunInv => EffectsAreWritten
  BY Current DEF EffectsAreWritten, TurnOK, EffectsOK, Dropped
<1> QED
  BY <1>1, RunInit, RunStep, PTL DEF Spec

(* A run that ended in its first attempt or went through to its result      *)
(* leaves no sandbox, no typing indicator and no pending notice behind      *)
(* (_cleanup_sandboxes, _cancel_wa_long_progress_notice).                   *)
THEOREM NothingOutlives == Spec => []NothingOutlivesTheRun
<1>1. RunInv => NothingOutlivesTheRun
  BY Current DEF NothingOutlivesTheRun, TurnOK, OpenOK
<1> QED
  BY <1>1, RunInit, RunStep, PTL DEF Spec

----------------------------------------------------------------------------
(* An approval is used once. *)

Looking == {"classifying", "resuming"}
Done == {"returning", "over"}
Settled(a) == a \in Turns => run[a].at \in Done

(* Customers' turns run one at a time; a request that waits, is looked at   *)
(* or was brought to its end belongs to a turn that is done; once a         *)
(* customer has brought it to its end it is neither stored nor looked at by *)
(* another.                                                                 *)
OneAtATime == \A t, u \in Turns : (Customer(t) /\ Customer(u) /\ Live(t) /\ Live(u)) => t = u
RequestsSettled ==
  /\ Settled(store)
  /\ \A t \in Turns : run[t].at \in Looking => Settled(run[t].pending)
  /\ \A a \in Turns : resumed[a] # {} => Settled(a)
UsedUp ==
  \A a \in Turns \cup {Earlier} : \A u \in resumed[a] : Customer(u) =>
    /\ store # a
    /\ \A t \in Turns : (Customer(t) /\ run[t].at \in Looking) => run[t].pending # a
    /\ \A v \in resumed[a] : Customer(v) => v = u
ApprovedInv == RunInv /\ OneAtATime /\ RequestsSettled /\ UsedUp

(* Where a turn's own step takes it.                                        *)
LEMMA TurnStepPlace ==
  ASSUME RunInv, NEW t \in Turns, TurnStep(t)
  PROVE  /\ \A u \in Turns \ {t} : run'[u] = run[u]
         /\ run[t].at \in Done => run'[t].at \in Done
         /\ run[t].at = "over" => run'[t].at = "over"
         /\ run'[t].at \in Looking =>
              \/ run[t].at \in Looking /\ run'[t].pending = run[t].pending
              \/ store # None /\ run'[t].pending = store /\ store' = store /\ resumed' = resumed
         /\ run[t].at = "expected" => Begins(t) \/ run'[t].at = "expected"
<1> DEFINE r == run[t]
           s == run'[t]
<1>1. r \in Turn /\ TurnOK(r)
  BY Current
<1>2. ASSUME NEW q, Becomes(t, q) PROVE s = q /\ \A u \in Turns \ {t} : run'[u] = run[u]
  BY <1>2 DEF Becomes, RunInv, TypeInv
<1>3. CASE Begins(t)
  <2>1. s = [r EXCEPT !.at = "begun", !.tx = "running"] /\ r.at = "expected"
    BY <1>2, <1>3 DEF Begins
  <2>2. s.at = "begun"
    BY <1>1, <2>1 DEF Turn
  <2>3. \A u \in Turns \ {t} : run'[u] = run[u]
    BY <1>2, <1>3 DEF Begins
  <2> QED
    BY <1>3, <2>1, <2>2, <2>3 DEF Done, Looking
<1>4. CASE LooksForInterrupt(t)
  <2>1. /\ r.at = "begun" /\ store' = store /\ resumed' = resumed
        /\ IF store = None THEN s = [r EXCEPT !.at = "gate"]
                           ELSE s = [r EXCEPT !.at = "classifying", !.pending = store]
    BY <1>2, <1>4 DEF LooksForInterrupt
  <2>2. IF store = None THEN s.at = "gate" ELSE s.at = "classifying" /\ s.pending = store
    BY ZenonT(40), <1>1, <2>1 DEF Turn
  <2>3. \A u \in Turns \ {t} : run'[u] = run[u]
    BY <1>2, <1>4 DEF LooksForInterrupt
  <2> QED
    BY <2>1, <2>2, <2>3 DEF Done, Looking
<1>5. CASE Classifies(t)
  <2>1. r.at = "classifying" /\ (s = [r EXCEPT !.at = "gate"] \/ s = [r EXCEPT !.at = "resuming"])
        /\ \A u \in Turns \ {t} : run'[u] = run[u]
    BY <1>2, <1>5 DEF Classifies
  <2>2. s.at = "gate" \/ (s.at = "resuming" /\ s.pending = r.pending)
    BY <1>1, <2>1 DEF Turn
  <2> QED
    BY <2>1, <2>2 DEF Done, Looking
<1>6. CASE NoticeDue(t) \/ NoticeSent(t)
  <2>1. PICK q \in {[r EXCEPT !.notice = "waiting"]}
                   \cup {[r EXCEPT !.notice = n, !.holds = r.holds \cup {"typing"}] : n \in {None, "sent"}} :
               Becomes(t, q)
    BY <1>1, <1>6 DEF NoticeDue, NoticeSent, Turn
  <2>2. q.at = r.at /\ q.pending = r.pending
    BY ZenonT(40), <1>1, <2>1 DEF Turn
  <2>3. s = q /\ \A u \in Turns \ {t} : run'[u] = run[u]
    BY <1>2, <2>1
  <2> QED
    BY <2>2, <2>3
<1>7. ASSUME NEW q, Becomes(t, q), q.at \notin Looking \cup {"expected"}, r.at \notin {"expected", "returning", "over"}
      PROVE  /\ \A u \in Turns \ {t} : run'[u] = run[u]
             /\ r.at \notin Done \cup {"expected"} /\ s.at \notin Looking
  BY <1>2, <1>7 DEF Done
<1>8. ASSUME NEW q \in Turn, NEW how \in Ends, Becomes(t, RolledBack(q, how)) \/ Becomes(t, Committed(q, how)),
             r.at # "expected"
      PROVE  /\ \A u \in Turns \ {t} : run'[u] = run[u]
             /\ s.at = "over" /\ r.at # "expected"
  <2>1. CASE Becomes(t, RolledBack(q, how))
    BY <1>2, <1>8, <2>1, RolledBackFields
  <2>2. CASE Becomes(t, Committed(q, how))
    <3>1. Committed(q, how).at = "over"
      BY CommittedFields, Zenon
    <3> QED
      BY <1>2, <1>8, <2>2, <3>1
  <2> QED
    BY <1>8, <2>1, <2>2
<1>9. ASSUME \/ \E q : /\ Becomes(t, q) /\ q.at \notin Looking \cup {"expected"}
                      /\ r.at \notin {"expected", "returning", "over"}
             \/ \E q \in Turn, how \in Ends : /\ Becomes(t, RolledBack(q, how)) \/ Becomes(t, Committed(q, how))
                                             /\ r.at # "expected"
      PROVE  /\ \A u \in Turns \ {t} : run'[u] = run[u]
             /\ r.at \in Done => s.at \in Done
             /\ r.at = "over" => s.at = "over"
             /\ s.at \notin Looking /\ r.at # "expected"
  BY <1>7, <1>8, <1>9 DEF Done, Looking
<1>10. CASE Resumes(t) \/ ResumeFails(t) \/ Gates(t)
  <2>1. /\ Answers(r, "interrupted", "request").at = "returning"
        /\ Answers(r, "completed", "result").at = "returning"
        /\ Answers(r, "failed", "apology").at = "returning"
        /\ [r EXCEPT !.at = "setup", !.holds = {"sandbox"}].at = "setup"
    BY <1>1 DEF Answers, Turn
  <2>2. r.at \in {"resuming", "gate"}
    BY <1>10 DEF Resumes, ResumeFails, Gates
  <2>3. \/ Becomes(t, Answers(r, "interrupted", "request"))
        \/ Becomes(t, Answers(r, "completed", "result"))
        \/ Becomes(t, Answers(r, "failed", "apology"))
        \/ Becomes(t, [r EXCEPT !.at = "setup", !.holds = {"sandbox"}])
    BY <1>10, Zenon DEF Resumes, ResumeFails, Gates
  <2> QED
    BY <1>9, <2>1, <2>2, <2>3 DEF Looking
<1>11. CASE Enters(t)
  <2>1. [r EXCEPT !.added = {"request"}] \in Turn
    BY <1>1 DEF Turn, Messages
  <2>2. Persist([r EXCEPT !.added = {"request"}], "running") \in Turn
    BY <2>1, PersistFields DEF Status
  <2>3. PICK h : Becomes(t, [Persist([r EXCEPT !.added = {"request"}], "running") EXCEPT
                               !.at = "entered", !.holds = h])
    BY Zenon, <1>11, <2>2 DEF Enters, Turn
  <2>4. [Persist([r EXCEPT !.added = {"request"}], "running") EXCEPT
                               !.at = "entered", !.holds = h].at = "entered"
    BY <2>2 DEF Turn
  <2>5. r.at = "setup"
    BY <1>11 DEF Enters
  <2> QED
    BY <1>9, <2>3, <2>4, <2>5 DEF Looking
<1>12. ASSUME NEW p \in Turn, NEW status \in Status \cup {None}, NEW said \in Words
       PROVE  /\ Answers(p, status, said) \in Turn /\ Answers(p, status, said).at = "returning"
              /\ Released(Answers(p, status, said)).at = "returning"
              /\ Released(NoticeOff(Answers(p, status, said))).at = "returning"
  <2> DEFINE q == Answers(p, status, said)
  <2>1. q \in Turn /\ q.at = "returning"
    BY AnswersFields, Zenon
  <2> HIDE DEF q
  <2>2. Released(q).at = "returning" /\ Released(NoticeOff(q)).at = "returning"
    BY <2>1, NoticeOffFields, ReleasedFields
  <2> QED
    BY <2>1, <2>2 DEF q
<1>13. CASE RefusesCustomer(t) \/ BlocksBeforeGraph(t)
  <2>1. r.at = "entered" /\ Becomes(t, Released(Answers(r, "completed", "result")))
    BY <1>13 DEF RefusesCustomer, BlocksBeforeGraph
  <2> QED
    BY <1>1, <1>9, <1>12, <2>1 DEF Looking, Status, Words
<1>14. CASE SendsImage(t) \/ SendsConfirmedText(t)
  <2>1. PICK sent \in Acts(t, "direct") :
          Becomes(t, Released(Answers([r EXCEPT !.did = sent, !.added = r.added \cup sent],
                                      "completed", "result")))
    BY Zenon, <1>1, <1>14 DEF SendsImage, SendsConfirmedText, Turn
  <2>2. sent \in SUBSET {"direct"} /\ r.at = "built"
    BY Zenon, <1>14, ActsOK DEF SendsImage, SendsConfirmedText
  <2>3. [r EXCEPT !.did = sent, !.added = r.added \cup sent] \in Turn
    BY <1>1, <2>2 DEF Turn, Attempts, Messages
  <2> QED
    BY <1>9, <1>12, <2>1, <2>2, <2>3 DEF Looking, Status, Words
<1>15. CASE Prepares(t) \/ Starts(t)
  <2>1. PICK place \in {"built", "main"} : Becomes(t, [r EXCEPT !.at = place])
    BY <1>15 DEF Prepares, Starts
  <2>2. r.at \in {"entered", "built"} /\ [r EXCEPT !.at = place].at = place
    BY <1>1, <1>15 DEF Prepares, Starts, Turn
  <2> QED
    BY <1>9, <2>1, <2>2 DEF Looking
<1>16. ASSUME NEW a, r.at \in Attempting, \E covers : GraphEnds(t, a, covers)
       PROVE  /\ \A u \in Turns \ {t} : run'[u] = run[u]
              /\ r.at \in Done => s.at \in Done
              /\ r.at = "over" => s.at = "over"
              /\ s.at \notin Looking /\ r.at # "expected"
  <2>1. PICK acted, steps : Becomes(t, [r EXCEPT !.at = "parsed", !.did = r.did \cup acted, !.steps = steps])
    BY Zenon, <1>1, <1>16 DEF GraphEnds, Turn
  <2>2. [r EXCEPT !.at = "parsed", !.did = r.did \cup acted, !.steps = steps].at = "parsed"
    BY <1>1 DEF Turn
  <2> QED
    BY <1>9, <1>16, <2>1, <2>2 DEF Looking, Attempting, Retries
<1>17. ASSUME r.at \in Attempting, GraphAsks(t) \/ Becomes(t, Explains(r))
       PROVE  /\ \A u \in Turns \ {t} : run'[u] = run[u]
              /\ r.at \in Done => s.at \in Done
              /\ r.at = "over" => s.at = "over"
              /\ s.at \notin Looking /\ r.at # "expected"
  <2>1. \/ Becomes(t, Released(Answers(r, "interrupted", "request")))
        \/ Becomes(t, Released(Answers(r, "completed", "validation")))
    BY <1>17 DEF GraphAsks, Explains
  <2> QED
    BY <1>1, <1>9, <1>12, <1>17, <2>1 DEF Looking, Attempting, Retries, Status, Words
<1>18. CASE MainEnds(t) \/ MainAsks(t)
  BY <1>16, <1>17, <1>18 DEF MainEnds, MainAsks, Attempting
<1>19. CASE MainTimesOut(t) \/ MainFails(t)
  <2>1. PICK how \in {"timed_out", "failed"} : GivesUp(t, how)
    BY <1>19 DEF MainTimesOut, MainFails
  <2>2. Released(NoticeOff(Persist(r, how))) \in Turn
    BY <1>1, PersistFields, NoticeOffFields, ReleasedFields DEF Status
  <2>3. how \in Ends /\ r.at = "main"
    BY <2>1 DEF Ends, GivesUp
  <2>4. \/ Becomes(t, RolledBack(Released(NoticeOff(Persist(r, how))), how))
        \/ Becomes(t, Committed(Released(NoticeOff(Persist(r, how))), how))
    BY <2>1 DEF GivesUp, Raised
  <2> QED
    BY <1>9, <2>2, <2>3, <2>4
<1>20. CASE MainErrs(t)
  <2>1. r.at = "main" /\ r.at \in Attempting
    BY <1>20 DEF MainErrs, Attempting
  <2>2. ASSUME NEW k \in Retries, Becomes(t, [r EXCEPT !.at = k])
        PROVE  /\ \A u \in Turns \ {t} : run'[u] = run[u]
               /\ s.at \notin Looking
    <3>1. [r EXCEPT !.at = k].at = k
      BY <1>1 DEF Turn
    <3> QED
      BY <1>9, <2>1, <2>2, <3>1 DEF Looking, Retries
  <2> QED
    BY <1>17, <1>20, <2>1, <2>2 DEF MainErrs, Done
<1>21. CASE JsonRetry(t)
  <2>1. r.at = "json" /\ r.at \in Attempting
    BY <1>21 DEF JsonRetry, Attempting, Retries
  <2>2. CASE Becomes(t, Released(NoticeOff(Answers(r, "failed", "apology"))))
    BY <1>1, <1>9, <1>12, <2>1, <2>2 DEF Looking, Status, Words
  <2> QED
    BY <1>16, <1>17, <1>21, <2>1, <2>2 DEF JsonRetry
<1>22. CASE DanglingRetry(t)
  <2>1. r.at = "dangling" /\ r.at \in Attempting
    BY <1>22 DEF DanglingRetry, Attempting, Retries
  <2>2. CASE Becomes(t, Released(Answers(Persist(r, "failed"), None, "apology")))
    <3>1. Persist(r, "failed") \in Turn
      BY <1>1, PersistFields DEF Status
    <3> QED
      BY <1>9, <1>12, <2>1, <2>2, <3>1 DEF Looking, Words
  <2>3. CASE Becomes(t, Raised(t, Released([r EXCEPT !.tx = "failed"]), "raised"))
    <3>1. [r EXCEPT !.tx = "failed"] \in Turn
      BY <1>1 DEF Turn, Status
    <3>2. Released([r EXCEPT !.tx = "failed"]) \in Turn
      BY <3>1, ReleasedFields
    <3> QED
      BY <1>9, <2>1, <2>3, <3>2 DEF Raised, Ends
  <2> QED
    BY <1>16, <1>22, <2>1, <2>2, <2>3 DEF DanglingRetry
<1>23. CASE GoogleRetry(t)
  <2>1. r.at = "google" /\ r.at \in Attempting
    BY <1>23 DEF GoogleRetry, Attempting, Retries
  <2> QED
    BY <1>16, <1>17, <1>23, <2>1 DEF GoogleRetry
<1>24. ASSUME r.at \in {"parsed", "more", "fresh"},
              NEW next \in {"more", "file", "final"},
              \E d, st, rep : \/ Becomes(t, [r EXCEPT !.at = next])
                             \/ Becomes(t, [r EXCEPT !.at = next, !.did = d, !.steps = st, !.replaced = rep])
                             \/ Becomes(t, [r EXCEPT !.at = next, !.did = d, !.steps = st])
       PROVE  /\ \A u \in Turns \ {t} : run'[u] = run[u]
              /\ s.at \notin Looking
  <2>1. PICK d, st, rep : \/ Becomes(t, [r EXCEPT !.at = next])
                         \/ Becomes(t, [r EXCEPT !.at = next, !.did = d, !.steps = st, !.replaced = rep])
                         \/ Becomes(t, [r EXCEPT !.at = next, !.did = d, !.steps = st])
    BY Zenon, <1>24
  <2>2. /\ [r EXCEPT !.at = next].at = next
        /\ [r EXCEPT !.at = next, !.did = d, !.steps = st, !.replaced = rep].at = next
        /\ [r EXCEPT !.at = next, !.did = d, !.steps = st].at = next
    BY <1>1 DEF Turn
  <2> QED
    BY <1>9, <1>24, <2>1, <2>2 DEF Looking
<1>25. CASE McpRetry(t)
  <2>1. r.at = "parsed" /\ \E d, st, rep :
          \/ Becomes(t, [r EXCEPT !.at = "more"])
          \/ Becomes(t, [r EXCEPT !.at = "more", !.did = d, !.steps = st, !.replaced = rep])
    BY Zenon, <1>1, <1>25 DEF McpRetry, Skips, Turn
  <2> QED
    BY Zenon, <1>24, <2>1 DEF Done
<1>26. CASE Continues(t)
  <2>1. r.at = "more" /\ \E d, st, rep :
          \/ Becomes(t, [r EXCEPT !.at = "file"])
          \/ Becomes(t, [r EXCEPT !.at = "file", !.did = d, !.steps = st, !.replaced = rep])
    BY Zenon, <1>1, <1>26 DEF Continues, Skips, Turn
  <2> QED
    BY Zenon, <1>24, <2>1 DEF Done
<1>27. CASE FillsArtifact(t)
  <2>1. r.at = "fresh" /\ \E d, st :
          \/ Becomes(t, [r EXCEPT !.at = "final"])
          \/ Becomes(t, [r EXCEPT !.at = "final", !.did = d, !.steps = st])
    BY Zenon, <1>1, <1>27 DEF FillsArtifact, Skips, Turn
  <2> QED
    BY Zenon, <1>24, <2>1 DEF Done
<1>28. CASE SendsFile(t)
  <2>1. r.at = "file"
        /\ \E sent, d, st, add : Becomes(t, [r EXCEPT !.at = "fresh", !.did = d, !.steps = st, !.added = add])
    BY Zenon, <1>1, <1>28 DEF SendsFile, Turn
  <2>2. \A d, st, add : [r EXCEPT !.at = "fresh", !.did = d, !.steps = st, !.added = add].at = "fresh"
    BY <1>1 DEF Turn
  <2> QED
    BY <1>9, <2>1, <2>2 DEF Looking
<1>29. CASE CleansUp(t)
  <2> DEFINE p == [r EXCEPT !.at = "guarding", !.added = r.added \cup r.steps]
  <2>1. r.at = "final" /\ Becomes(t, Released(NoticeOff(p)))
    BY <1>1, <1>29 DEF CleansUp, Turn
  <2>2. r.added \cup r.steps \in SUBSET Messages /\ "guarding" \in Places
    BY <1>1 DEF Turn, Messages, Places
  <2>3. p \in Turn /\ p.at = "guarding"
    BY <1>1, <2>2 DEF Turn
  <2> HIDE DEF p
  <2>4. Released(NoticeOff(p)).at = "guarding"
    BY <2>3, NoticeOffFields, ReleasedFields
  <2> QED
    BY <1>9, <2>1, <2>4 DEF Looking
<1>30. CASE Completes(t)
  <2>1. r.at = "guarding" /\ Becomes(t, Answers(r, "completed", "result"))
    BY <1>30 DEF Completes, Guarded
  <2> QED
    BY <1>1, <1>9, <1>12, <2>1 DEF Looking, Status, Words
<1>31. CASE Returns(t)
  BY <1>1, <1>9, <1>31 DEF Returns, Ends
<1>32. CASE Raises(t)
  <2>1. Becomes(t, RolledBack(r, "raised")) \/ Becomes(t, Committed(r, "raised"))
    BY <1>32 DEF Raises, Raised
  <2>2. r.at # "expected" /\ "raised" \in Ends
    BY <1>32 DEF Raises, Ends
  <2> QED
    BY <1>1, <1>9, <2>1, <2>2
<1>33. CASE Cancelled(t)
  <2>1. r.at # "expected"
    BY <1>33 DEF Cancelled, Live
  <2>2. CASE r.at = "main"
    <3> DEFINE p == Released(NoticeOff(Persist(r, "cancelled")))
    <3>1. p \in Turn /\ "cancelled" \in Ends
      BY <1>1, PersistFields, NoticeOffFields, ReleasedFields DEF Status, Ends
    <3>2. Becomes(t, RolledBack(p, "cancelled"))
      BY <1>33, <2>2 DEF Cancelled
    <3> QED
      BY <1>9, <2>1, <3>1, <3>2
  <2>3. CASE r.at # "main"
    <3>1. Becomes(t, RolledBack(r, "cut")) /\ "cut" \in Ends
      BY <1>33, <2>3 DEF Cancelled, Ends
    <3> QED
      BY <1>1, <1>9, <2>1, <3>1
  <2> QED
    BY <2>2, <2>3
<1> QED
  <2>1. CASE Advances(t)
    BY <2>1, <1>4, <1>5, <1>10, <1>11, <1>13, <1>14, <1>15, <1>18, <1>19, <1>20, <1>21, <1>22, <1>23,
       <1>25, <1>26, <1>27, <1>28, <1>29, <1>30, <1>31 DEF Advances
  <2> QED
    BY <2>1, <1>3, <1>6, <1>32, <1>33 DEF TurnStep

(* The initial state: nothing was brought to its end.                       *)
LEMMA ApprovedInit == Init => ApprovedInv
<1> SUFFICES ASSUME Init PROVE ApprovedInv
  OBVIOUS
<1>1. \A t \in Turns : run[t].at = "expected"
  BY DEF Init, Fresh
<1>2. store \notin Turns /\ \A a \in Turns \cup {Earlier} : resumed[a] = {}
  BY NamesAssumption DEF Init
<1>3. OneAtATime
  BY <1>1 DEF OneAtATime, Live
<1>4. RequestsSettled /\ UsedUp
  BY <1>1, <1>2 DEF RequestsSettled, UsedUp, Settled, Looking
<1> QED
  BY <1>3, <1>4, RunInit DEF ApprovedInv

(* A turn's own step.                                                       *)
LEMMA ApprovedTurnStep ==
  ASSUME ApprovedInv, NEW t \in Turns, TurnStep(t), kind' = kind
  PROVE  (OneAtATime /\ RequestsSettled /\ UsedUp)'
<1> DEFINE r == run[t]
           s == run'[t]
<1>1. /\ RunInv /\ OneAtATime /\ RequestsSettled /\ UsedUp
      /\ store \in Turns \cup {Earlier, None} /\ r.pending \in Turns \cup {Earlier, None}
      /\ resumed \in [Turns \cup {Earlier} -> SUBSET Turns]
      /\ r.at \in Looking => r.pending # None
  BY Current DEF ApprovedInv, RunInv, TypeInv, Turn, TurnOK, PendingOK, Looking
<1>2. /\ \A u \in Turns \ {t} : run'[u] = run[u]
      /\ r.at \in Done => s.at \in Done
      /\ r.at = "over" => s.at = "over"
      /\ s.at \in Looking =>
           \/ r.at \in Looking /\ s.pending = r.pending
           \/ store # None /\ s.pending = store /\ store' = store /\ resumed' = resumed
      /\ r.at = "expected" => Begins(t) \/ s.at = "expected"
  BY <1>1, TurnStepPlace
<1>3. /\ \/ store' = store
         \/ store' = None
         \/ store' = t /\ r.at \in Attempting \cup {"resuming"} /\ s.at = "returning"
      /\ \/ resumed' = resumed
         \/ /\ r.at = "resuming" /\ s.at = "returning" /\ store' \in {None, t}
            /\ resumed' = [resumed EXCEPT ![r.pending] = @ \cup {t}]
  BY <1>1, TurnStepStore
<1>4. None \notin Turns /\ Earlier \notin Turns /\ Earlier # None
  BY NamesAssumption DEF Earlier
<1>5. \A a : Settled(a) => Settled(a)'
  BY <1>2 DEF Settled
<1>6. \A u \in Turns : Customer(u)' <=> Customer(u)
  BY DEF Customer
<1> HIDE DEF r, s
<1>7. OneAtATime'
  <2>1. CASE Begins(t) /\ Customer(t)
    <3>1. \A u \in Turns \ {t} : Customer(u) => ~Live(u)
      BY <2>1 DEF Begins
    <3>2. \A u \in Turns \ {t} : Live(u)' <=> Live(u)
      BY <1>2 DEF Live
    <3> QED
      BY <1>6, <3>1, <3>2 DEF OneAtATime
  <2>2. CASE ~(Begins(t) /\ Customer(t))
    <3>1. \A u \in Turns : (Customer(u) /\ Live(u)') => Live(u)
      BY <1>2, <2>2 DEF Live, r, s
    <3> QED
      BY <1>1, <1>6, <3>1 DEF OneAtATime
  <2> QED
    BY <2>1, <2>2
<1>8. RequestsSettled'
  <2>1. Settled(store)'
    <3>1. CASE store' = store
      BY <1>1, <1>5, <3>1 DEF RequestsSettled, Settled
    <3>2. CASE store' = None
      BY <1>4, <3>2 DEF Settled
    <3>3. CASE store' = t /\ s.at = "returning"
      BY <3>3 DEF Settled, Done, s
    <3> QED
      BY <1>3, <3>1, <3>2, <3>3
  <2>2. ASSUME NEW u \in Turns, run'[u].at \in Looking PROVE Settled(run[u].pending)'
    <3>1. CASE u # t
      BY <1>1, <1>2, <1>5, <2>2, <3>1 DEF RequestsSettled, Settled
    <3>2. CASE u = t
      <4>1. CASE r.at \in Looking /\ s.pending = r.pending
        BY <1>1, <1>5, <3>2, <4>1 DEF RequestsSettled, Settled, r, s
      <4>2. CASE s.pending = store
        BY <1>1, <1>5, <3>2, <4>2 DEF RequestsSettled, Settled, s
      <4> QED
        BY <1>2, <2>2, <3>2, <4>1, <4>2 DEF s
    <3> QED
      BY <3>1, <3>2
  <2>3. ASSUME NEW a \in Turns, resumed'[a] # {} PROVE Settled(a)'
    <3>1. CASE resumed[a] # {}
      BY <1>1, <1>5, <3>1 DEF RequestsSettled
    <3>2. CASE resumed[a] = {}
      <4>1. r.at = "resuming" /\ a = r.pending
        BY <1>1, <1>3, <2>3, <3>2
      <4>2. Settled(a)
        BY <1>1, <4>1 DEF RequestsSettled, Looking, r
      <4> QED
        BY <1>5, <4>2
    <3> QED
      BY <3>1, <3>2
  <2> QED
    BY <2>1, <2>2, <2>3 DEF RequestsSettled, Looking
<1>9. UsedUp'
  <2>1. ASSUME NEW a \in Turns \cup {Earlier}, NEW u \in resumed'[a], Customer(u)
        PROVE  /\ store' # a
               /\ \A v \in Turns : (Customer(v) /\ run'[v].at \in Looking) => run'[v].pending # a
               /\ \A v \in resumed'[a] : Customer(v) => v = u
    <3>1. CASE resumed'[a] = resumed[a]
      <4>1. /\ store # a
            /\ \A v \in Turns : (Customer(v) /\ run[v].at \in Looking) => run[v].pending # a
            /\ \A v \in resumed[a] : Customer(v) => v = u
        BY <1>1, <2>1, <3>1 DEF UsedUp
      <4>2. store' # a
        <5>1. CASE store' = t /\ r.at \in Attempting \cup {"resuming"}
          <6>1. r.at \notin Done
            BY <5>1 DEF Attempting, Retries, Done
          <6>2. a = t => FALSE
            BY <1>1, <2>1, <3>1, <6>1 DEF RequestsSettled, Settled, r
          <6> QED
            BY <5>1, <6>2
        <5>2. CASE store' \in {store, None}
          BY <1>4, <2>1, <4>1, <5>2
        <5> QED
          BY <1>3, <5>1, <5>2
      <4>3. ASSUME NEW v \in Turns, Customer(v), run'[v].at \in Looking PROVE run'[v].pending # a
        <5>1. CASE v # t
          BY <1>2, <4>1, <4>3, <5>1
        <5>2. CASE v = t
          BY <1>2, <4>1, <4>3, <5>2 DEF r, s
        <5> QED
          BY <5>1, <5>2
      <4> QED
        BY <3>1, <4>1, <4>2, <4>3
    <3>2. CASE resumed'[a] # resumed[a]
      <4>1. /\ a = r.pending /\ r.at = "resuming" /\ s.at = "returning" /\ store' \in {None, t}
            /\ resumed'[a] = resumed[a] \cup {t}
        BY <1>1, <1>3, <3>2
      <4>2. a # t
        BY <1>1, <4>1 DEF RequestsSettled, Settled, Looking, Done, r
      <4>3. store' # a
        BY <1>4, <4>1, <4>2
      <4>4. CASE Customer(t)
        <5>1. \A v \in resumed[a] : ~Customer(v)
          BY <1>1, <2>1, <4>1, <4>4 DEF UsedUp, Looking, r
        <5>2. \A v \in Turns \ {t} : Customer(v) => run'[v].at \notin Looking
          BY <1>1, <1>2, <4>1, <4>4 DEF OneAtATime, Live, Looking, r
        <5>3. s.at \notin Looking
          BY <4>1 DEF Looking
        <5> QED
          BY <2>1, <4>1, <4>3, <5>1, <5>2, <5>3 DEF s
      <4>5. CASE ~Customer(t)
        <5>1. u \in resumed[a]
          BY <2>1, <4>1, <4>5
        <5>2. /\ \A v \in Turns : (Customer(v) /\ run[v].at \in Looking) => run[v].pending # a
              /\ \A v \in resumed[a] : Customer(v) => v = u
          BY <1>1, <2>1, <5>1 DEF UsedUp
        <5> QED
          BY <1>2, <4>1, <4>3, <4>5, <5>2
      <4> QED
        BY <4>4, <4>5
    <3> QED
      BY <3>1, <3>2
  <2> QED
    BY <1>6, <2>1 DEF UsedUp, Customer
<1> QED
  BY <1>7, <1>8, <1>9

(* Every step.                                                              *)
LEMMA ApprovedStep == ApprovedInv /\ [Next]_vars => ApprovedInv'
<1> SUFFICES ASSUME ApprovedInv, [Next]_vars PROVE ApprovedInv'
  OBVIOUS
<1>1. RunInv /\ RunInv' /\ OneAtATime /\ RequestsSettled /\ UsedUp
  BY RunStep DEF ApprovedInv
<1>2. ASSUME NEW t \in Turns, TurnStep(t), Elsewhere PROVE ApprovedInv'
  BY <1>1, <1>2, ApprovedTurnStep DEF ApprovedInv
<1>3. None \notin Turns /\ None \notin Turns \cup {Earlier}
  BY NamesAssumption DEF Earlier
<1>4. CASE Crash
  <2>1. /\ store' = None /\ resumed' = resumed /\ kind' = kind
        /\ \A t \in Turns : run'[t].at \in {"expected", "over"}
        /\ \A t \in Turns : run[t].at \in Done => run'[t].at \in Done
    BY <1>1, <1>4, CrashOK DEF Crash, Live, Done
  <2>2. \A t \in Turns : ~Live(t)' /\ run'[t].at \notin Looking
    BY <2>1 DEF Live, Looking
  <2>3. OneAtATime'
    BY <2>2 DEF OneAtATime
  <2>4. RequestsSettled'
    BY <1>1, <1>3, <2>1, <2>2 DEF RequestsSettled, Settled
  <2>5. UsedUp'
    BY <1>1, <1>3, <2>1, <2>2 DEF UsedUp, Customer
  <2> QED
    BY <1>1, <2>3, <2>4, <2>5 DEF ApprovedInv
<1>5. ASSUME store' \in {store, None}, resumed' = resumed, kind' = kind,
             \A t \in Turns : run'[t].at = run[t].at /\ run'[t].pending = run[t].pending
      PROVE  ApprovedInv'
  <2>1. OneAtATime'
    BY <1>1, <1>5 DEF OneAtATime, Live, Customer
  <2>2. RequestsSettled'
    BY <1>1, <1>3, <1>5 DEF RequestsSettled, Settled
  <2>3. UsedUp'
    BY <1>1, <1>3, <1>5 DEF UsedUp, Customer
  <2> QED
    BY <1>1, <2>1, <2>2, <2>3 DEF ApprovedInv
<1>6. CASE Restart \/ AnotherProcessStarts
  BY <1>1, <1>5, <1>6, SweepsOK DEF Restart, AnotherProcessStarts
<1>7. CASE Reset
  BY <1>5, <1>7 DEF Reset
<1>8. CASE UNCHANGED vars
  BY <1>5, <1>8
<1> QED
  BY <1>2, <1>4, <1>6, <1>7, <1>8 DEF Next, TurnStep

(* No two turns of customers bring the same approval request to its end     *)
(* (handle_pending_interrupt and the session lock of the callers).          *)
THEOREM ApprovalsAreUsedOnce == Spec => []ApprovedOnce
<1>1. ASSUME ApprovedInv PROVE ApprovedOnce
  <2>1. ASSUME NEW a \in Turns \cup {Earlier}
        PROVE  Cardinality({t \in resumed[a] : Customer(t)}) <= 1
    <3> DEFINE S == {t \in resumed[a] : Customer(t)}
    <3>1. \A u, v \in S : u = v
      BY <1>1, <2>1 DEF ApprovedInv, UsedUp
    <3> HIDE DEF S
    <3>2. ASSUME S = {} PROVE Cardinality(S) <= 1
      BY <3>2, FS_EmptySet
    <3>3. ASSUME NEW u \in S PROVE Cardinality(S) <= 1
      <4>1. S = {u}
        BY <3>1
      <4>2. Cardinality({u}) = 1
        BY FS_Singleton
      <4> QED
        BY <4>1, <4>2
    <3> QED
      BY <3>2, <3>3 DEF S
  <2> QED
    BY <2>1 DEF ApprovedOnce
<1> QED
  BY <1>1, ApprovedInit, ApprovedStep, PTL DEF Spec
============================================================================
