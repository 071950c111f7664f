------------------------ MODULE OperatorDeskProofs ------------------------
(***************************************************************************)
(* Theorems about OperatorDesk, for any customers, messages and bounds.    *)
(***************************************************************************)
EXTENDS OperatorDesk, TLAPS

USE DEF custVars, ledger, vars

(* Metadata that names a notification names a case. *)
MetaOK(m) == m.note > 0 => m.case > 0

(* A request that works on a customer has found him and his case; one that  *)
(* has sent an item still knows which.                                      *)
NeedsTarget(q) ==
  \/ q.at = "routing"
  \/ q.at = "handling" /\ q.kind \in {"text", "media", "aktif", "approve"}

RequestOK(q) ==
  /\ NeedsTarget(q) => q.target \in Customers /\ q.case \in Cases
  /\ q.told => q.at = "done" /\ q.target \in Customers /\ q.off = FALSE
  /\ q.at = "sentText" => q.my.draft # None
  /\ q.at = "sentMedia" => q.my.media # None
  /\ MetaOK(q.theirs)

CustomerOK(c) ==
  /\ MetaOK(cust[c]) /\ MetaOK(visit[c].meta)
  /\ visit[c].at = "stopped" => visit[c].meta.case \in Cases
  /\ stops[c] <= opened[c]

TypeInv ==
  /\ TypeOK
  /\ \A r \in Requests : RequestOK(req[r])
  /\ \A c \in Customers : CustomerOK(c)

----------------------------------------------------------------------------
(* The records a step builds. *)

(* A route names the message that set it, a customer and a case.            *)
LEMMA RouteIsSlot ==
  ASSUME NEW r \in Requests, NEW c \in Customers, NEW k \in Cases
  PROVE  RouteTo(r, c, k) \in Slot /\ RouteTo(r, c, k) # None
         /\ RouteTo(r, c, k).by = r /\ RouteTo(r, c, k).cust = c /\ RouteTo(r, c, k).case = k
BY DeskAssumption DEF RouteTo, Slot, Cases

(* What is pending has an author, a customer and a case.                    *)
LEMMA SlotFields ==
  ASSUME NEW s \in Slot, s # None
  PROVE  s.by \in Requests /\ s.cust \in Customers /\ s.case \in Cases
BY DEF Slot

(* Changing one key of the operator session keeps it well-typed.            *)
LEMMA DeskFields ==
  ASSUME NEW m \in OperMeta, NEW s \in Slot
  PROVE  /\ m.route \in Slot /\ m.draft \in Slot /\ m.media \in Slot
         /\ [m EXCEPT !.route = s] \in OperMeta
         /\ [m EXCEPT !.draft = s] \in OperMeta
         /\ [m EXCEPT !.media = s] \in OperMeta
BY DEF OperMeta

(* An operator session with nothing pending is well-typed.                  *)
LEMMA EmptyDesk == None \in Slot /\ NothingPending \in OperMeta
BY DEF Slot, OperMeta, NothingPending

(* So is the metadata of a customer without a case.                         *)
LEMMA EmptyCase == NoCase \in CustMeta /\ MetaOK(NoCase)
BY DeskAssumption DEF NoCase, CustMeta, CaseOrNone, MetaOK

(* A request that has not arrived, or is over, holds nothing.               *)
LEMMA OverOK ==
  /\ NotArrived \in RequestState /\ RequestOK(NotArrived)
  /\ Over \in RequestState /\ RequestOK(Over)
<1>1. /\ NotArrived \in RequestState /\ NotArrived.at = "new" /\ NotArrived.told = FALSE
      /\ MetaOK(NotArrived.theirs)
  BY EmptyDesk, EmptyCase, DeskAssumption
     DEF NotArrived, RequestState, Kinds, Places, CaseOrNone
<1>2. /\ Over \in RequestState /\ Over.at = "done" /\ Over.told = FALSE
      /\ Over.theirs = NotArrived.theirs
  BY <1>1 DEF Over, RequestState, Places
<1> QED
  BY <1>1, <1>2 DEF RequestOK, NeedsTarget

(* A request that has just arrived. *)
LEMMA ArrivesOK ==
  ASSUME TypeInv, NEW kind \in Kinds, NEW place \in Places, NEW c \in Customers \cup {None},
         NEW k \in CaseOrNone, kind \in {"text", "media", "aktif", "approve"} \/ place = "routing"
                               => c \in Customers /\ k \in Cases,
         place \in {"routing", "handling", "composing"}
  PROVE  Loaded(kind, place, c, k) \in RequestState /\ RequestOK(Loaded(kind, place, c, k))
<1>1. PICK t : t = IF c = None \/ kind \in {"media", "revise"} THEN NoCase ELSE cust[c]
  OBVIOUS
<1>2. t \in CustMeta /\ MetaOK(t)
  BY <1>1, EmptyCase DEF TypeInv, TypeOK, CustomerOK
<1>3. PICK s : s = IF kind = "aktif" THEN stops[c] ELSE 0
  OBVIOUS
<1>4. s \in CaseOrNone
  BY <1>3, DeskAssumption DEF TypeInv, TypeOK, CaseOrNone
<1>5. PICK o : o = (kind = "aktif" /\ disabled[c])
  OBVIOUS
<1>6. o \in BOOLEAN
  BY <1>5
<1>7. PICK a : a = IF kind = "text" THEN answered ELSE {}
  OBVIOUS
<1>8. a \in SUBSET Notes
  BY <1>7 DEF TypeInv, TypeOK
<1>9. Loaded(kind, place, c, k) =
        [kind |-> kind, at |-> place, my |-> oper, target |-> c, case |-> k, theirs |-> t,
         off |-> o, stops |-> s, known |-> a, told |-> FALSE]
  BY <1>1, <1>3, <1>5, <1>7 DEF Loaded
<1>10. oper \in OperMeta
  BY DEF TypeInv, TypeOK
<1> QED
  BY <1>2, <1>4, <1>6, <1>8, <1>9, <1>10 DEF RequestState, RequestOK, NeedsTarget

----------------------------------------------------------------------------
(* Type correctness. *)

(* The initial state is well-typed.                                         *)
LEMMA TypeInit == Init => TypeInv
<1> SUFFICES ASSUME Init PROVE TypeInv
  OBVIOUS
<1> USE EmptyDesk, EmptyCase, OverOK, DeskAssumption
<1>1. TypeOK
  BY DEF Init, TypeOK, NoVisit, Visits, CaseOrNone
<1>2. \A r \in Requests : RequestOK(req[r])
  BY DEF Init
<1>3. \A c \in Customers : CustomerOK(c)
  BY DEF Init, CustomerOK, NoVisit
<1> QED
  BY <1>1, <1>2, <1>3 DEF TypeInv

(* One request changes. *)
LEMMA OneRequest ==
  ASSUME TypeInv, NEW r \in Requests, NEW q \in RequestState, RequestOK(q),
         req' = [req EXCEPT ![r] = q]
  PROVE  req' \in [Requests -> RequestState] /\ \A s \in Requests : RequestOK(req[s])'
BY DEF TypeInv, TypeOK

(* It ends. *)
LEMMA EndsKeeps ==
  ASSUME TypeInv, NEW r \in Requests, Ends(r)
  PROVE  req' \in [Requests -> RequestState] /\ \A s \in Requests : RequestOK(req[s])'
BY OverOK, OneRequest DEF Ends

(* It saves the operator session and goes on. *)
LEMMA SaveKeeps ==
  ASSUME TypeInv, NEW r \in Requests, NEW m \in OperMeta, NEW p \in {"handling", "composing"},
         req[r].at \in {"routing", "handling"}, NeedsTarget(req[r]), Save(r, m, p)
  PROVE  /\ oper' \in OperMeta
         /\ req' \in [Requests -> RequestState] /\ \A s \in Requests : RequestOK(req[s])'
<1> DEFINE q == [req[r] EXCEPT !.my = m, !.at = p]
<1>1. req[r] \in RequestState /\ RequestOK(req[r]) /\ p \in Places
  BY DEF TypeInv, TypeOK, Places
<1>2. q \in RequestState /\ RequestOK(q)
  <2>1. /\ q \in RequestState /\ q.at = p /\ q.kind = req[r].kind /\ q.target = req[r].target
        /\ q.case = req[r].case /\ q.theirs = req[r].theirs /\ q.told = req[r].told
    BY <1>1 DEF RequestState
  <2> HIDE DEF q
  <2> QED
    BY <1>1, <2>1 DEF RequestOK, NeedsTarget
<1>3. req' = [req EXCEPT ![r] = q]
  BY DEF Save, TypeInv, TypeOK
<1> HIDE DEF q
<1> QED
  BY <1>2, <1>3, OneRequest DEF Save

(* What the customers' side does keeps the types. *)
LEMMA CustomerTypes ==
  ASSUME TypeInv, NEW c \in Customers, CustomerSteps(c)
  PROVE  TypeInv'
<1> USE DEF TypeInv, TypeOK, CustomerOK
<1> USE DeskAssumption, EmptyCase
<1>1. CASE CustomerWrites(c)
  BY <1>1 DEF CustomerWrites, Visits
<1>2. CASE CustomerServed(c)
  BY <1>2 DEF CustomerServed, Visits, NoVisit
<1>3. CASE VisitWritesBack(c)
  BY <1>3 DEF VisitWritesBack, Visits
<1>4. CASE CustomerResets(c)
  BY <1>4 DEF CustomerResets, Visits, NoVisit
<1>5. CASE escalate_to_human(c)
  BY SMTT(60), <1>5 DEF escalate_to_human, Notifies, Notes, Cases, CaseOrNone, CustMeta, MetaOK
<1>6. CASE SpamAutostop(c)
  BY SMTT(60), <1>6 DEF SpamAutostop, Visits, Cases, CaseOrNone, CustMeta, MetaOK
<1>7. CASE SpamNotified(c)
  <2> DEFINE m == [visit[c].meta EXCEPT !.note = visit[c].meta.case]
  <2>1. visit[c].meta \in CustMeta /\ visit[c].meta.case \in Cases
    BY <1>7 DEF SpamNotified, Visits
  <2>2. m \in CustMeta /\ MetaOK(m)
    BY <2>1 DEF CustMeta, CaseOrNone, Cases, MetaOK
  <2>3. /\ \/ notes' = notes /\ cust' = cust
           \/ notes' = notes \cup {<<c, visit[c].meta.case>>} /\ cust' = [cust EXCEPT ![c] = m]
        /\ visit' = [visit EXCEPT ![c] = NoVisit]
    BY <1>7 DEF SpamNotified
  <2> HIDE DEF m
  <2>4. cust' \in [Customers -> CustMeta] /\ \A d \in Customers : MetaOK(cust[d])'
    BY <2>2, <2>3
  <2>5. notes' \in SUBSET Notes
    BY <2>1, <2>3 DEF Notes
  <2>6. /\ visit' \in [Customers -> Visits]
        /\ \A d \in Customers : /\ MetaOK(visit[d].meta)'
                                /\ visit'[d].at = "stopped" => visit'[d].meta.case \in Cases
    BY <2>3 DEF Visits, NoVisit
  <2>7. UNCHANGED <<disabled, opened, stops, oper, req, expired, ledger, meant, revised,
                    reopened, answered>>
    BY <1>7 DEF SpamNotified
  <2>8. \A d \in Customers : CustomerOK(d)'
    BY <2>4, <2>6, <2>7
  <2>9. \A s \in Requests : RequestOK(req[s])'
    BY <2>7
  <2>10. TypeOK'
    BY <2>4, <2>5, <2>6, <2>7
  <2> QED
    BY <2>8, <2>9, <2>10
<1> QED
  BY <1>1, <1>2, <1>3, <1>4, <1>5, <1>6, <1>7 DEF CustomerSteps

(* A message that arrives finds the types and keeps them. *)
LEMMA ArriveTypes ==
  ASSUME TypeInv, NEW r \in Requests, Arrives(r)
  PROVE  TypeInv'
<1>1. SUFFICES req' \in [Requests -> RequestState] /\ \A s \in Requests : RequestOK(req[s])'
  BY DEF Arrives, QuoteArrives, FollowUpArrives, ChatArrives, TypeInv, TypeOK, CustomerOK
<1>2. /\ \A kind \in {"none", "text", "media", "aktif", "kirim", "approve", "revise", "chat", "reset"} : kind \in Kinds
      /\ "routing" \in Places /\ "handling" \in Places /\ "composing" \in Places
      /\ 0 \in CaseOrNone /\ Cases \subseteq CaseOrNone
  BY DeskAssumption DEF Kinds, Places, CaseOrNone, Cases
<1>3. CASE QuoteArrives(r)
  <2>1. PICK n \in notes, kind \in {"text", "media", "aktif", "kirim", "approve"} :
          req' = [req EXCEPT ![r] = Loaded(kind, "routing", n[1], QuotedCase(n))]
    BY <1>3 DEF QuoteArrives
  <2>2. n[1] \in Customers /\ n[2] \in Cases
    BY DEF TypeInv, TypeOK, Notes
  <2>3. QuotedCase(n) \in Cases
    BY <2>2, DeskAssumption DEF QuotedCase, TypeInv, TypeOK, CustMeta, CaseOrNone, Cases, CustomerOK, MetaOK
  <2> QED
    BY <1>2, <2>1, <2>2, <2>3, ArrivesOK, OneRequest
<1>4. CASE FollowUpArrives(r)
  <2> DEFINE c == IF oper.route = None THEN None ELSE oper.route.cust
             k == IF oper.route = None THEN 0 ELSE oper.route.case
  <2>1. /\ c \in Customers \cup {None} /\ k \in CaseOrNone
        /\ c # None => c \in Customers /\ k \in Cases
    BY <1>2, DeskFields, EmptyDesk, SlotFields, DeskAssumption DEF TypeInv, TypeOK
  <2>2. \/ req' = [req EXCEPT ![r] = Loaded("kirim", "handling", c, k)]
        \/ req' = [req EXCEPT ![r] = Loaded("revise", "composing", c, k)]
        \/ c # None /\ req' = [req EXCEPT ![r] = Loaded("approve", "handling", c, k)]
    BY <1>4 DEF FollowUpArrives
  <2> HIDE DEF c, k
  <2> QED
    BY <1>2, <2>1, <2>2, ArrivesOK, OneRequest
<1>5. CASE ChatArrives(r)
  <2>1. \/ req' = [req EXCEPT ![r] = Loaded("chat", "handling", None, 0)]
        \/ req' = [req EXCEPT ![r] = Loaded("reset", "handling", None, 0)]
    BY <1>5 DEF ChatArrives
  <2> QED
    BY <1>2, <2>1, ArrivesOK, OneRequest
<1> QED
  BY <1>3, <1>4, <1>5 DEF Arrives

(* What a request holds is typed. *)
LEMMA RequestFields ==
  ASSUME NEW q \in RequestState
  PROVE  /\ q.kind \in Kinds /\ q.at \in Places /\ q.my \in OperMeta
         /\ q.target \in Customers \cup {None} /\ q.case \in CaseOrNone
         /\ q.theirs \in CustMeta /\ q.off \in BOOLEAN /\ q.stops \in CaseOrNone
         /\ q.known \in SUBSET Notes /\ q.told \in BOOLEAN
BY DEF RequestState

(* A request saves the operator session for the last time. *)
LEMMA SaveLastKeeps ==
  ASSUME TypeInv, NEW r \in Requests, NEW m \in OperMeta, SaveLast(r, m)
  PROVE  /\ oper' \in OperMeta
         /\ req' \in [Requests -> RequestState] /\ \A s \in Requests : RequestOK(req[s])'
BY EndsKeeps DEF SaveLast

(* The parts of the types that the steps of an operator's request change.   *)
DeskTyped ==
  /\ oper \in OperMeta
  /\ req \in [Requests -> RequestState] /\ \A r \in Requests : RequestOK(req[r])

HistoryTyped ==
  /\ expired \in SUBSET Requests /\ times \in [Items -> 0..2]
  /\ astray \in SUBSET Items /\ torn \in SUBSET Items /\ raced \in SUBSET Items
  /\ meant \in [Items -> Customers \cup {None}] /\ revised \in SUBSET Requests
  /\ reopened \in SUBSET Notes /\ answered \in SUBSET Notes

(* A step that keeps the desk and the history typed keeps everything typed. *)
LEMMA RequestTypes ==
  ASSUME TypeInv, DeskTyped', HistoryTyped', UNCHANGED <<disabled, visit, opened, notes, stops>>,
         cust' \in [Customers -> CustMeta], \A c \in Customers : MetaOK(cust[c])'
  PROVE  TypeInv'
BY DEF TypeInv, TypeOK, DeskTyped, HistoryTyped, CustomerOK

(* The handling of a message, but for /aktif. *)
LEMMA HandleTypes ==
  ASSUME TypeInv, NEW r \in Requests, Handles(r) \/ ForgetExpired(r) \/ NothingToSend(r) \/ Expire(r),
         ~Activate(r)
  PROVE  TypeInv'
<1> USE DeskFields, SlotFields, EmptyDesk
<1> DEFINE my == req[r].my
           c == req[r].target
           k == req[r].case
<1>q. /\ req[r] \in RequestState /\ RequestOK(req[r]) /\ oper \in OperMeta /\ my \in OperMeta
      /\ <<r, "text">> \in Items /\ <<r, "media">> \in Items
      /\ HistoryTyped /\ DeskTyped
      /\ cust \in [Customers -> CustMeta] /\ \A d \in Customers : MetaOK(cust[d])
  BY RequestFields DEF TypeInv, TypeOK, HistoryTyped, DeskTyped, CustomerOK, Items
<1>r. NeedsTarget(req[r]) => /\ c \in Customers /\ k \in Cases /\ RouteTo(r, c, k) \in Slot
                             /\ [my EXCEPT !.route = RouteTo(r, c, k)] \in OperMeta
  BY <1>q, RouteIsSlot DEF RequestOK
<1>1. CASE Route(r)
  <2>1. DeskTyped'
    BY <1>1, <1>q, <1>r, SaveKeeps DEF Route, DeskTyped, NeedsTarget
  <2> QED
    BY <1>1, <1>q, <2>1, RequestTypes DEF Route, HistoryTyped
<1>2. CASE StageText(r)
  <2>1. NeedsTarget(req[r])
    BY <1>2 DEF StageText, NeedsTarget
  <2>2. WithDraft(r, my, c, k) \in OperMeta
    BY <1>q, <1>r, <2>1 DEF WithDraft, OperMeta
  <2>3. DeskTyped'
    BY <1>2, <1>q, <2>2, EndsKeeps, SaveLastKeeps DEF StageText, DeskTyped
  <2>4. HistoryTyped'
    <3>1. {<<c, k>>} \cap req[r].known \in SUBSET Notes
      BY <1>q, RequestFields
    <3> QED
      BY <1>2, <1>q, <1>r, <2>1, <3>1 DEF StageText, HistoryTyped
  <2> QED
    BY <1>2, <1>q, <2>3, <2>4, RequestTypes DEF StageText
<1>3. CASE StageMedia(r)
  <2>1. NeedsTarget(req[r])
    BY <1>3 DEF StageMedia, NeedsTarget
  <2>2. [my EXCEPT !.route = RouteTo(r, c, k), !.media = RouteTo(r, c, k)] \in OperMeta
    BY <1>q, <1>r, <2>1 DEF OperMeta
  <2>3. DeskTyped'
    BY <1>3, <1>q, <2>1, <2>2, EndsKeeps, SaveKeeps DEF StageMedia, DeskTyped
  <2>4. HistoryTyped'
    BY <1>3, <1>q, <1>r, <2>1 DEF StageMedia, HistoryTyped
  <2> QED
    BY <1>3, <1>q, <2>3, <2>4, RequestTypes DEF StageMedia
<1>4. CASE Approve(r)
  <2>1. DeskTyped'
    BY <1>4, <1>q, EndsKeeps DEF Approve, DeskTyped
  <2>2. cust' \in [Customers -> CustMeta] /\ \A d \in Customers : MetaOK(cust[d])'
    BY <1>4, <1>q, RequestFields DEF Approve, RequestOK
  <2> QED
    BY <1>4, <1>q, <2>1, <2>2, RequestTypes DEF Approve, HistoryTyped
<1>5. CASE ResetDesk(r) \/ ForgetExpired(r)
  <2>1. DeskTyped'
    BY <1>5, <1>q, SaveLastKeeps DEF ResetDesk, ForgetExpired, DeskTyped
  <2> QED
    BY <1>5, <1>q, <2>1, RequestTypes DEF ResetDesk, ForgetExpired, HistoryTyped
<1>6. CASE WriteBack(r)
  BY <1>6, <1>q, RequestTypes DEF WriteBack, DeskTyped, HistoryTyped
<1>7. CASE TurnEnds(r) \/ NothingToSend(r)
  <2>1. DeskTyped'
    BY <1>7, <1>q, EndsKeeps DEF TurnEnds, NothingToSend, DeskTyped
  <2> QED
    BY <1>7, <1>q, <2>1, RequestTypes DEF TurnEnds, NothingToSend, HistoryTyped
<1>8. CASE TurnDrafts(r)
  <2>1. my.route \in Slot /\ my.route # None /\ my.route.cust \in Customers /\ my.route.case \in Cases
    BY <1>8, <1>q DEF TurnDrafts
  <2>2. WithDraft(r, my, my.route.cust, my.route.case) \in OperMeta
    <3>1. RouteTo(r, my.route.cust, my.route.case) \in Slot
      BY <2>1, RouteIsSlot
    <3> QED
      BY <1>q, <3>1 DEF WithDraft, OperMeta
  <2>3. DeskTyped'
    BY <1>8, <1>q, <2>2, SaveLastKeeps DEF TurnDrafts, DeskTyped
  <2>4. HistoryTyped'
    <3>1. Fresh(my.draft) => <<my.draft.by, "text">> \in Items
      BY <1>q DEF Fresh, Items
    <3> QED
      BY <1>8, <1>q, <2>1, <3>1 DEF TurnDrafts, HistoryTyped
  <2> QED
    BY <1>8, <1>q, <2>3, <2>4, RequestTypes DEF TurnDrafts
<1>9. CASE Expire(r)
  BY <1>9, <1>q, RequestTypes DEF Expire, DeskTyped, HistoryTyped
<1> QED
  BY <1>1, <1>2, <1>3, <1>4, <1>5, <1>6, <1>7, <1>8, <1>9 DEF Handles

(* /aktif. *)
LEMMA ActivateTypes ==
  ASSUME TypeInv, NEW r \in Requests, Activate(r)
  PROVE  TypeInv'
<1> DEFINE q == [Over EXCEPT !.told = TRUE, !.target = req[r].target, !.stops = req[r].stops]
<1>q. /\ req[r] \in RequestState /\ RequestOK(req[r]) /\ HistoryTyped
      /\ cust \in [Customers -> CustMeta] /\ \A d \in Customers : MetaOK(cust[d])
  BY DEF TypeInv, TypeOK, HistoryTyped, CustomerOK
<1>1. req[r].target \in Customers /\ req[r].stops \in CaseOrNone /\ req[r].theirs \in CustMeta
      /\ MetaOK(req[r].theirs)
  BY <1>q, RequestFields DEF Activate, RequestOK, NeedsTarget
<1>2. /\ Over \in RequestState /\ MetaOK(Over.theirs) /\ Over.at = "done" /\ Over.off = FALSE
  BY OverOK DEF RequestOK, Over, NotArrived
<1>3. q \in RequestState /\ RequestOK(q)
  <2>1. /\ q \in RequestState /\ q.at = "done" /\ q.target = req[r].target
        /\ q.theirs = Over.theirs /\ q.off = FALSE
    BY <1>1, <1>2 DEF RequestState
  <2> HIDE DEF q
  <2> QED
    BY <1>1, <1>2, <2>1 DEF RequestOK, NeedsTarget
<1>4. req' = [req EXCEPT ![r] = q]
  BY DEF Activate
<1> HIDE DEF q
<1>5. req' \in [Requests -> RequestState] /\ \A s \in Requests : RequestOK(req[s])'
  BY <1>3, <1>4, OneRequest
<1>6. cust' \in [Customers -> CustMeta] /\ \A d \in Customers : MetaOK(cust[d])'
  BY <1>1, <1>q DEF Activate
<1>7. disabled' \in [Customers -> BOOLEAN]
  BY DEF Activate, TypeInv, TypeOK
<1>8. UNCHANGED <<visit, opened, notes, stops, oper, expired, ledger, meant, revised, reopened, answered>>
  BY DEF Activate
<1>9. \A d \in Customers : CustomerOK(d)'
  BY <1>6, <1>8 DEF TypeInv, CustomerOK
<1> QED
  BY <1>5, <1>6, <1>7, <1>8, <1>9 DEF TypeInv, TypeOK

(* An item is sent. *)
LEMMA SendsTypes ==
  ASSUME TypeInv, NEW r \in Requests, NEW i \in Items, NEW c \in Customers,
         NEW place \in {"sentText", "sentMedia"},
         place = "sentText" => req[r].my.draft # None,
         place = "sentMedia" => req[r].my.media # None,
         req[r].at = "handling", Sends(r, i, c, place)
  PROVE  TypeInv'
<1>q. /\ req[r] \in RequestState /\ RequestOK(req[r]) /\ HistoryTyped /\ oper \in OperMeta
      /\ cust \in [Customers -> CustMeta] /\ \A d \in Customers : MetaOK(cust[d])
  BY DEF TypeInv, TypeOK, HistoryTyped, CustomerOK
<1>1. PICK t : t = IF req[r].target = c THEN req[r].theirs ELSE cust[c]
  OBVIOUS
<1>2. t \in CustMeta /\ MetaOK(t)
  BY <1>q, <1>1, RequestFields DEF RequestOK
<1> DEFINE q == [req[r] EXCEPT !.at = place, !.target = c, !.theirs = t]
<1>3. q \in RequestState /\ RequestOK(q)
  <2>1. /\ q \in RequestState /\ q.at = place /\ q.theirs = t /\ q.my = req[r].my
        /\ q.told = req[r].told
    BY <1>q, <1>2 DEF RequestState, Places
  <2> HIDE DEF q
  <2> QED
    BY <1>q, <1>2, <2>1 DEF RequestOK, NeedsTarget
<1>4. req' = [req EXCEPT ![r] = q] \/ Ends(r)
  BY <1>1, <1>q DEF Sends, TypeInv, TypeOK
<1> HIDE DEF q
<1>5. DeskTyped'
  BY <1>q, <1>3, <1>4, OneRequest, EndsKeeps DEF Sends, DeskTyped
<1>6. HistoryTyped'
  <2>1. \A n \in 1..2 : Reaches(i, c, n) => times' \in [Items -> 0..2] /\ astray' \in SUBSET Items
    BY <1>q DEF Reaches, HistoryTyped
  <2>2. raced' \in SUBSET Items
    BY <1>q DEF Sends, Races, HistoryTyped
  <2> QED
    BY <1>q, <2>1, <2>2 DEF Sends, HistoryTyped
<1> QED
  BY <1>q, <1>5, <1>6, RequestTypes DEF Sends

(* "kirim". *)
LEMMA DeliverTypes ==
  ASSUME TypeInv, NEW r \in Requests, Delivers(r), ~ForgetExpired(r), ~NothingToSend(r)
  PROVE  TypeInv'
<1> USE DeskFields, SlotFields, EmptyDesk
<1> DEFINE my == req[r].my
<1>q. /\ req[r] \in RequestState /\ RequestOK(req[r]) /\ oper \in OperMeta /\ my \in OperMeta
      /\ HistoryTyped /\ DeskTyped
      /\ cust \in [Customers -> CustMeta] /\ \A d \in Customers : MetaOK(cust[d])
  BY RequestFields DEF TypeInv, TypeOK, HistoryTyped, DeskTyped, CustomerOK
<1>1. CASE SendMedia(r)
  <2>1. /\ <<my.media.by, "media">> \in Items /\ my.media.cust \in Customers
        /\ my.media # None /\ req[r].at = "handling"
    BY <1>1, <1>q DEF SendMedia, Fresh, Confirms, Items
  <2> QED
    BY <1>1, <2>1, SendsTypes DEF SendMedia
<1>2. CASE SendText(r)
  <2>1. /\ <<my.draft.by, "text">> \in Items /\ my.draft.cust \in Customers
        /\ my.draft # None /\ req[r].at = "handling"
    BY <1>2, <1>q DEF SendText, Fresh, Confirms, Items
  <2> QED
    BY <1>2, <2>1, SendsTypes DEF SendText
<1>3. CASE MediaSent(r)
  <2>1. DeskTyped'
    BY <1>3, <1>q, SaveLastKeeps DEF MediaSent, DeskTyped
  <2>2. <<my.media.by, "media">> \in Items
    BY <1>3, <1>q DEF MediaSent, RequestOK, Items
  <2>3. HistoryTyped'
    BY <1>3, <1>q, <2>2 DEF MediaSent, Races, HistoryTyped
  <2> QED
    BY <1>3, <1>q, <2>1, <2>3, RequestTypes DEF MediaSent
<1>4. CASE TextSent(r)
  <2>1. DeskTyped'
    BY <1>4, <1>q, SaveLastKeeps DEF TextSent, DeskTyped
  <2>2. /\ my.draft # None /\ my.draft.by \in Requests
        /\ my.draft.cust \in Customers /\ my.draft.case \in Cases
    BY <1>4, <1>q DEF TextSent, RequestOK
  <2>3. <<my.draft.by, "text">> \in Items /\ <<my.draft.cust, my.draft.case>> \in Notes
    BY <2>2 DEF Items, Notes
  <2>4. HistoryTyped'
    BY <1>4, <1>q, <2>3 DEF TextSent, Races, HistoryTyped
  <2>5. /\ [req[r].theirs EXCEPT !.replied = my.draft.case] \in CustMeta
        /\ MetaOK([req[r].theirs EXCEPT !.replied = my.draft.case])
    BY SMTT(30), <1>q, <2>2, RequestFields, DeskAssumption DEF CustMeta, MetaOK, RequestOK, Cases, CaseOrNone
  <2>6. cust' \in [Customers -> CustMeta] /\ \A d \in Customers : MetaOK(cust[d])'
    BY <1>4, <1>q, <2>2, <2>5 DEF TextSent
  <2> QED
    BY <1>4, <1>q, <2>1, <2>4, <2>6, RequestTypes DEF TextSent
<1>5. CASE SentUncommitted(r)
  <2>1. DeskTyped'
    BY <1>5, <1>q, EndsKeeps DEF SentUncommitted, DeskTyped
  <2>2. (IF req[r].at = "sentText" THEN <<my.draft.by, "text">> ELSE <<my.media.by, "media">>) \in Items
    BY <1>5, <1>q DEF SentUncommitted, RequestOK, Items
  <2>3. HistoryTyped'
    BY <1>5, <1>q, <2>2 DEF SentUncommitted, HistoryTyped
  <2> QED
    BY <1>5, <1>q, <2>1, <2>3, RequestTypes DEF SentUncommitted
<1> QED
  BY <1>1, <1>2, <1>3, <1>4, <1>5 DEF Delivers

(* Every step keeps the types.                                              *)
LEMMA TypeStep == TypeInv /\ [Next]_vars => TypeInv'
<1> SUFFICES ASSUME TypeInv, [Next]_vars PROVE TypeInv'
  OBVIOUS
<1>1. CASE UNCHANGED vars
  BY <1>1 DEF TypeInv, TypeOK, CustomerOK
<1> QED
  BY <1>1, CustomerTypes, ArriveTypes, HandleTypes, ActivateTypes, DeliverTypes
     DEF Next, Handles, Delivers

(* Every key of the metadata, every request and every record of what        *)
(* happened stays in its domain.                                            *)
THEOREM TypeCorrect == Spec => []TypeOK
<1>1. TypeInv => TypeOK
  BY DEF TypeInv
<1> QED
  BY <1>1, TypeInit, TypeStep, PTL DEF Spec

----------------------------------------------------------------------------
(* What is pending, what was sent and what is forgotten. *)

(* A draft is pending only once the request that staged it is over, an      *)
(* attachment while it has the text composed or is over; either is for the  *)
(* customer it was meant for, or a revision.                                *)
DraftOK(d) ==
  d # None => /\ req[d.by].at = "done"
              /\ d.by \in revised \/ d.cust = meant[<<d.by, "text">>]
MediaOK(d) ==
  d # None => /\ req[d.by].at \in {"composing", "done"}
              /\ d.by \in revised \/ d.cust = meant[<<d.by, "media">>]

Staged(i) == req[i[1]].at = "done" \/ (i[2] = "media" /\ req[i[1]].at = "composing")

DeskInv ==
  /\ DraftOK(oper.draft) /\ MediaOK(oper.media)
  /\ \A s \in Requests : DraftOK(req[s].my.draft) /\ MediaOK(req[s].my.media)
  /\ \A s \in Requests : req[s].at \in {"new", "done"} => req[s].my = NothingPending
  /\ \A i \in Items : times[i] > 0 => Staged(i)

(* Request s has just sent item i. *)
HasSent(s, i) ==
  \/ req[s].at = "sentText" /\ i = <<req[s].my.draft.by, "text">>
  \/ req[s].at = "sentMedia" /\ i = <<req[s].my.media.by, "media">>

Forgotten(i) == ~Holds(oper, i) /\ \A s \in Requests : ~Holds(req[s].my, i)

(* An item that was sent once is about to be forgotten, or is. *)
SentOnce(i) ==
  /\ times[i] <= 1
  /\ times[i] = 1 => Forgotten(i) \/ \E s \in Requests : HasSent(s, i)

OnceInv == \A i \in Items : i \in torn \cup raced \/ SentOnce(i)


(* What a step may do to what is pending: an item is one that was pending   *)
(* before, or a request stages it and moves on.                             *)
OldDraft(d) == d = oper.draft \/ \E s \in Requests : d = req[s].my.draft
OldMedia(d) == d = oper.media \/ \E s \in Requests : d = req[s].my.media

NewDraft(d) ==
  /\ d \in Slot /\ d # None /\ req[d.by].at \in {"handling", "composing"}
  /\ req'[d.by].at = "done" /\ (d.by \in revised' \/ d.cust = meant'[<<d.by, "text">>])
NewMedia(d) ==
  /\ d \in Slot /\ d # None /\ req[d.by].at = "handling"
  /\ req'[d.by].at \in {"composing", "done"} /\ d.cust = meant'[<<d.by, "media">>]

KeptDraft(d) == d = None \/ OldDraft(d) \/ NewDraft(d)
KeptMedia(d) == d = None \/ OldMedia(d) \/ NewMedia(d)

DeskMoves ==
  /\ KeptDraft(oper'.draft) /\ KeptMedia(oper'.media)
  /\ \A s \in Requests :
       /\ KeptDraft(req'[s].my.draft) /\ KeptMedia(req'[s].my.media)
       /\ req[s].at = "done" => req'[s].at = "done"
       /\ req[s].at = "composing" => req'[s].at \in {"composing", "done"}
       /\ req'[s].at \in {"new", "done"} => req'[s].my = NothingPending
  /\ \A i \in Items : Staged(i) => meant'[i] = meant[i]
  /\ revised \subseteq revised'

SentKept ==
  \A s \in Requests : req[s].at \in {"sentText", "sentMedia"} => req'[s] = req[s]

(* What was pending somewhere is well-typed.                                *)
LEMMA OldTyped ==
  ASSUME TypeInv, NEW d
  PROVE  /\ OldDraft(d) => d \in Slot
         /\ OldMedia(d) => d \in Slot
<1>1. oper \in OperMeta /\ \A s \in Requests : req[s].my \in OperMeta
  BY RequestFields DEF TypeInv, TypeOK
<1>2. \A m \in OperMeta : m.draft \in Slot /\ m.media \in Slot
  BY DEF OperMeta
<1> QED
  BY <1>1, <1>2 DEF OldDraft, OldMedia

(* Such a step keeps every pending item right, and what was staged staged.  *)
LEMMA MovesKeepSlots ==
  ASSUME TypeInv, DeskInv, DeskMoves
  PROVE  /\ DraftOK(oper.draft)' /\ MediaOK(oper.media)'
         /\ \A s \in Requests : DraftOK(req[s].my.draft)' /\ MediaOK(req[s].my.media)'
         /\ \A s \in Requests : req'[s].at \in {"new", "done"} => req'[s].my = NothingPending
         /\ \A i \in Items : Staged(i) => Staged(i)'
<1>1. \A i \in Items : Staged(i) => Staged(i)'
  BY DEF DeskMoves, Staged, Items
<1>2. ASSUME NEW d, KeptDraft(d), d # None
      PROVE  req'[d.by].at = "done" /\ (d.by \in revised' \/ d.cust = meant'[<<d.by, "text">>])
  <2>1. CASE OldDraft(d)
    <3>1. d \in Slot /\ DraftOK(d)
      BY <2>1, OldTyped DEF OldDraft, DeskInv
    <3>2. d.by \in Requests /\ <<d.by, "text">> \in Items
      BY <1>2, <3>1, SlotFields DEF Items
    <3>3. Staged(<<d.by, "text">>)
      BY <1>2, <3>1 DEF DraftOK, Staged
    <3> QED
      BY <1>2, <3>1, <3>2, <3>3 DEF DeskMoves, DraftOK
  <2> QED
    BY <1>2, <2>1 DEF KeptDraft, NewDraft
<1>3. ASSUME NEW d, KeptMedia(d), d # None
      PROVE  /\ req'[d.by].at \in {"composing", "done"}
             /\ d.by \in revised' \/ d.cust = meant'[<<d.by, "media">>]
  <2>1. CASE OldMedia(d)
    <3>1. d \in Slot /\ MediaOK(d)
      BY <2>1, OldTyped DEF OldMedia, DeskInv
    <3>2. d.by \in Requests /\ <<d.by, "media">> \in Items
      BY <1>3, <3>1, SlotFields DEF Items
    <3>3. Staged(<<d.by, "media">>)
      BY <1>3, <3>1 DEF MediaOK, Staged
    <3> QED
      BY <1>3, <3>1, <3>2, <3>3 DEF DeskMoves, MediaOK
  <2> QED
    BY <1>3, <2>1 DEF KeptMedia, NewMedia
<1>4. DraftOK(oper.draft)' /\ MediaOK(oper.media)'
  BY <1>2, <1>3 DEF DeskMoves, DraftOK, MediaOK
<1>5. ASSUME NEW s \in Requests PROVE DraftOK(req[s].my.draft)' /\ MediaOK(req[s].my.media)'
  BY <1>2, <1>3 DEF DeskMoves, DraftOK, MediaOK
<1> QED
  BY <1>1, <1>4, <1>5 DEF DeskMoves

(* It brings nothing back that was forgotten. *)
LEMMA MovesForget ==
  ASSUME TypeInv, DeskInv, DeskMoves, NEW i \in Items, Staged(i), Forgotten(i)
  PROVE  Forgotten(i)'
<1>1. ASSUME NEW d, KeptDraft(d), d # None, i[2] = "text" PROVE d.by # i[1]
  BY <1>1 DEF KeptDraft, OldDraft, NewDraft, Forgotten, Holds, Staged
<1>2. ASSUME NEW d, KeptMedia(d), d # None, i[2] = "media" PROVE d.by # i[1]
  BY <1>2 DEF KeptMedia, OldMedia, NewMedia, Forgotten, Holds, Staged
<1> QED
  BY <1>1, <1>2 DEF Forgotten, Holds, DeskMoves

(* A request that has sent an item holds it; no other does, unless the item *)
(* is a matter of a race.                                                   *)
LEMMA SenderHolds ==
  ASSUME TypeInv, NEW s \in Requests, NEW i \in Items, HasSent(s, i)
  PROVE  Holds(req[s].my, i) /\ InFlight(s) /\ req[s].at \in {"sentText", "sentMedia"}
BY DEF HasSent, Holds, InFlight, TypeInv, RequestOK

(* An item sent once stays so while nothing sends it and its sender waits. *)
LEMMA SentOnceKept ==
  ASSUME TypeInv, DeskInv, DeskMoves, NEW i \in Items, SentOnce(i), times'[i] = times[i],
         \A s \in Requests : HasSent(s, i) => req'[s] = req[s]
  PROVE  SentOnce(i)'
<1>1. CASE times[i] = 1
  <2>1. Staged(i)
    BY <1>1 DEF DeskInv
  <2>2. Forgotten(i) => Forgotten(i)'
    BY <2>1, MovesForget
  <2>3. \A s \in Requests : HasSent(s, i) => HasSent(s, i)'
    BY DEF HasSent
  <2> QED
    BY <1>1, <2>2, <2>3 DEF SentOnce
<1>2. CASE times[i] # 1
  BY <1>2 DEF SentOnce
<1> QED
  BY <1>1, <1>2

(* The invariant of all this, and a step that sends and forgets nothing.    *)
AnswersInv == DeskInv /\ RightCustomer /\ OnceInv

(* A step that sends and forgets nothing keeps every answer right.          *)
LEMMA QuietKeeps ==
  ASSUME TypeInv, AnswersInv, DeskMoves, SentKept, UNCHANGED ledger
  PROVE  AnswersInv'
<1> USE DEF AnswersInv
<1>1. DeskInv'
  BY MovesKeepSlots DEF DeskInv
<1>2. RightCustomer'
  BY DEF RightCustomer, DeskMoves
<1>3. OnceInv'
  <2> SUFFICES ASSUME NEW i \in Items, i \notin torn \cup raced PROVE SentOnce(i)'
    BY DEF OnceInv
  <2>1. \A s \in Requests : HasSent(s, i) => req'[s] = req[s]
    BY SenderHolds DEF SentKept
  <2> QED
    BY <2>1, SentOnceKept DEF OnceInv
<1> QED
  BY <1>1, <1>2, <1>3

(* Nothing pending changes when no request and no metadata of the operators *)
(* does.                                                                    *)
LEMMA NothingMoves ==
  ASSUME TypeInv, DeskInv, UNCHANGED <<oper, req, meant, revised>>
  PROVE  DeskMoves /\ SentKept
<1>1. \A s \in Requests : OldDraft(req[s].my.draft) /\ OldMedia(req[s].my.media)
  BY DEF OldDraft, OldMedia
<1>2. OldDraft(oper.draft) /\ OldMedia(oper.media)
  BY DEF OldDraft, OldMedia
<1> QED
  BY <1>1, <1>2 DEF DeskMoves, SentKept, KeptDraft, KeptMedia, DeskInv

(* One request moves from q0 to q and leaves m in the operator session.     *)
LEMMA OneMoves ==
  ASSUME TypeInv, DeskInv, NEW r \in Requests, NEW q, NEW m,
         req' = [req EXCEPT ![r] = q], oper' = m,
         KeptDraft(q.my.draft), KeptMedia(q.my.media), KeptDraft(m.draft), KeptMedia(m.media),
         req[r].at # "done", req[r].at = "composing" => q.at \in {"composing", "done"},
         q.at \in {"new", "done"} => q.my = NothingPending,
         \A i \in Items : Staged(i) => meant'[i] = meant[i],
         revised \subseteq revised'
  PROVE  /\ DeskMoves
         /\ req[r].at \notin {"sentText", "sentMedia"} => SentKept
<1>1. \A s \in Requests : req'[s] = IF s = r THEN q ELSE req[s]
  BY DEF TypeInv, TypeOK
<1>2. \A s \in Requests : KeptDraft(req[s].my.draft) /\ KeptMedia(req[s].my.media)
  BY DEF KeptDraft, KeptMedia, OldDraft, OldMedia
<1>3. \A s \in Requests : KeptDraft(req'[s].my.draft) /\ KeptMedia(req'[s].my.media)
  BY <1>1, <1>2
<1> QED
  BY <1>1, <1>3 DEF DeskMoves, SentKept, DeskInv

(* What was pending may stay so. *)
LEMMA OldIsKept ==
  /\ KeptDraft(None) /\ KeptMedia(None)
  /\ KeptDraft(oper.draft) /\ KeptMedia(oper.media)
  /\ \A s \in Requests : KeptDraft(req[s].my.draft) /\ KeptMedia(req[s].my.media)
BY DEF KeptDraft, KeptMedia, OldDraft, OldMedia

(* A request ends and leaves m. *)
LEMMA EndMoves ==
  ASSUME TypeInv, DeskInv, NEW r \in Requests, NEW m, Ends(r), oper' = m,
         KeptDraft(m.draft), KeptMedia(m.media), req[r].at # "done",
         \A i \in Items : Staged(i) => meant'[i] = meant[i],
         revised \subseteq revised'
  PROVE  /\ DeskMoves
         /\ req[r].at \notin {"sentText", "sentMedia"} => SentKept
<1>1. Over.at = "done" /\ Over.my = NothingPending
  BY DEF Over, NotArrived
<1>2. KeptDraft(NothingPending.draft) /\ KeptMedia(NothingPending.media)
  BY OldIsKept DEF NothingPending
<1> QED
  BY <1>1, <1>2, OneMoves DEF Ends

(* A message that arrives has loaded what was pending. *)
LEMMA ArriveMoves ==
  ASSUME TypeInv, DeskInv, NEW r \in Requests, Arrives(r)
  PROVE  DeskMoves /\ SentKept /\ UNCHANGED ledger
<1>1. PICK place \in {"routing", "handling", "composing"} :
        \E kind, c, k : req' = [req EXCEPT ![r] = Loaded(kind, place, c, k)]
  BY DEF Arrives, QuoteArrives, FollowUpArrives, ChatArrives
<1>2. PICK kind, c, k : req' = [req EXCEPT ![r] = Loaded(kind, place, c, k)]
  BY <1>1
<1>4. Loaded(kind, place, c, k).my = oper /\ Loaded(kind, place, c, k).at = place
  BY DEF Loaded
<1>3. /\ req[r].at = "new" /\ UNCHANGED <<oper, ledger, meant, revised>>
  BY DEF Arrives, QuoteArrives, FollowUpArrives, ChatArrives, CanArrive
<1> QED
  BY <1>2, <1>3, <1>4, OldIsKept, OneMoves

(* A request stages a text for the customer c of the route. *)
LEMMA DraftMoves ==
  ASSUME TypeInv, DeskInv, NEW r \in Requests, NEW c \in Customers, NEW k \in Cases,
         req[r].at \in {"handling", "composing"},
         SaveLast(r, WithDraft(r, req[r].my, c, k)),
         \E t : meant' = [meant EXCEPT ![<<r, "text">>] = t],
         revised \subseteq revised',
         r \in revised' \/ meant'[<<r, "text">>] = c
  PROVE  DeskMoves /\ SentKept
<1> DEFINE d == RouteTo(r, c, k)
           m == WithDraft(r, req[r].my, c, k)
<1>1. d \in Slot /\ d # None /\ d.by = r /\ d.cust = c
  BY RouteIsSlot
<1>2. m.draft = d /\ m.media = req[r].my.media
  <2>1. req[r].my \in OperMeta
    BY RequestFields DEF TypeInv, TypeOK
  <2> QED
    BY <2>1 DEF WithDraft, OperMeta
<1>3. req'[r].at = "done" /\ Ends(r) /\ oper' = m
  BY DEF SaveLast, Ends, Over, NotArrived, TypeInv, TypeOK
<1> HIDE DEF d, m
<1>4. NewDraft(d)
  BY <1>1, <1>3 DEF NewDraft
<1>5. \A i \in Items : Staged(i) => meant'[i] = meant[i]
  <2>1. ~Staged(<<r, "text">>)
    BY DEF Staged
  <2> QED
    BY <2>1 DEF Items, TypeInv, TypeOK
<1> QED
  BY <1>2, <1>3, <1>4, <1>5, OldIsKept, EndMoves DEF KeptDraft

(* Handling a message sends nothing and keeps or stages what is pending.    *)
LEMMA HandleMoves ==
  ASSUME TypeInv, DeskInv, NEW r \in Requests,
         Handles(r) \/ ForgetExpired(r) \/ NothingToSend(r) \/ Expire(r)
  PROVE  DeskMoves /\ SentKept /\ UNCHANGED ledger
<1> DEFINE my == req[r].my
<1>q. /\ req[r] \in RequestState /\ RequestOK(req[r]) /\ my \in OperMeta /\ Over.at = "done"
      /\ Over.my = NothingPending
  BY RequestFields DEF TypeInv, TypeOK, Over, NotArrived
<1> USE OldIsKept
<1>1. CASE Route(r)
  <2> DEFINE m == [my EXCEPT !.route = RouteTo(r, req[r].target, req[r].case)]
             q == [req[r] EXCEPT !.my = m, !.at = "handling"]
  <2>1. m.draft = my.draft /\ m.media = my.media
    BY <1>q DEF OperMeta
  <2>2. q.my = m /\ q.at = "handling"
    BY <1>q DEF RequestState
  <2>3. /\ oper' = m /\ req' = [req EXCEPT ![r] = q] /\ req[r].at = "routing"
        /\ UNCHANGED <<ledger, meant, revised>>
    BY <1>1 DEF Route, Save, TypeInv, TypeOK
  <2> HIDE DEF m, q
  <2> QED
    BY <2>1, <2>2, <2>3, OneMoves
<1>2. CASE StageText(r)
  <2>1. req[r].at = "handling" /\ UNCHANGED <<ledger, revised>>
    BY <1>2 DEF StageText
  <2>2. CASE Ends(r) /\ UNCHANGED <<oper, meant>>
    BY <2>1, <2>2, EndMoves
  <2>3. CASE /\ SaveLast(r, WithDraft(r, my, req[r].target, req[r].case))
             /\ meant' = [meant EXCEPT ![<<r, "text">>] = req[r].target]
    <3>1. req[r].target \in Customers /\ req[r].case \in Cases
      BY <1>2, <1>q DEF StageText, RequestOK, NeedsTarget
    <3>2. meant'[<<r, "text">>] = req[r].target
      BY <2>3 DEF TypeInv, TypeOK, Items
    <3> QED
      BY <2>1, <2>3, <3>1, <3>2, DraftMoves
  <2> QED
    BY <1>2, <2>2, <2>3 DEF StageText
<1>3. CASE StageMedia(r)
  <2>1. req[r].at = "handling" /\ UNCHANGED <<ledger, revised>>
    BY <1>3 DEF StageMedia
  <2>2. CASE Ends(r) /\ UNCHANGED <<oper, meant>>
    BY <2>1, <2>2, EndMoves
  <2>3. CASE /\ Save(r, [my EXCEPT !.route = RouteTo(r, req[r].target, req[r].case),
                                  !.media = RouteTo(r, req[r].target, req[r].case)], "composing")
             /\ meant' = [meant EXCEPT ![<<r, "media">>] = req[r].target]
    <3> DEFINE d == RouteTo(r, req[r].target, req[r].case)
               m == [my EXCEPT !.route = d, !.media = d]
               q == [req[r] EXCEPT !.my = m, !.at = "composing"]
    <3>1. req[r].target \in Customers /\ req[r].case \in Cases
      BY <1>3, <1>q DEF StageMedia, RequestOK, NeedsTarget
    <3>2. d \in Slot /\ d # None /\ d.by = r /\ d.cust = req[r].target
      BY <3>1, RouteIsSlot
    <3>3. m.draft = my.draft /\ m.media = d
      BY <1>q DEF OperMeta
    <3>4. q.my = m /\ q.at = "composing"
      BY <1>q DEF RequestState
    <3>5. oper' = m /\ req' = [req EXCEPT ![r] = q] /\ req'[r].at = "composing"
      BY <2>3, <3>4 DEF Save, TypeInv, TypeOK
    <3>6. meant'[<<r, "media">>] = req[r].target
      BY <2>3 DEF TypeInv, TypeOK, Items
    <3>7. \A i \in Items : Staged(i) => meant'[i] = meant[i]
      <4>1. ~Staged(<<r, "media">>)
        BY <2>1 DEF Staged
      <4> QED
        BY <2>3, <4>1 DEF Items, TypeInv, TypeOK
    <3> HIDE DEF d, m, q
    <3>8. KeptMedia(d)
      BY <2>1, <3>2, <3>5, <3>6 DEF KeptMedia, NewMedia
    <3> QED
      BY <2>1, <3>3, <3>4, <3>5, <3>7, <3>8, OneMoves
  <2> QED
    BY <1>3, <2>2, <2>3 DEF StageMedia
<1>4. CASE Activate(r)
  <2> DEFINE q == [Over EXCEPT !.told = TRUE, !.target = req[r].target, !.stops = req[r].stops]
  <2>1. q.at = "done" /\ q.my = NothingPending
    BY OverOK DEF RequestState, Over, NotArrived
  <2>2. NothingPending.draft = None /\ NothingPending.media = None
    BY DEF NothingPending
  <2>3. /\ req' = [req EXCEPT ![r] = q] /\ req[r].at = "handling"
        /\ UNCHANGED <<oper, ledger, meant, revised>>
    BY <1>4 DEF Activate
  <2> HIDE DEF q
  <2> QED
    BY <2>1, <2>2, <2>3, OneMoves
<1>5. CASE Approve(r) \/ TurnEnds(r) \/ NothingToSend(r)
  <2>1. /\ Ends(r) /\ req[r].at \in {"handling", "composing"}
        /\ UNCHANGED <<oper, ledger, meant, revised>>
    BY <1>5 DEF Approve, TurnEnds, NothingToSend, Confirms
  <2> QED
    BY <2>1, EndMoves
<1>6. CASE ResetDesk(r) \/ ForgetExpired(r)
  <2>1. PICK m : /\ m \in {NothingPending, [my EXCEPT !.media = None], [my EXCEPT !.draft = None]}
                 /\ SaveLast(r, m)
    BY <1>6 DEF ResetDesk, ForgetExpired
  <2>2. m.draft \in {None, my.draft} /\ m.media \in {None, my.media}
    BY <1>q, <2>1 DEF OperMeta, NothingPending
  <2>3. req[r].at = "handling" /\ UNCHANGED <<ledger, meant, revised>>
    BY <1>6 DEF ResetDesk, ForgetExpired, Confirms
  <2> QED
    BY <2>1, <2>2, <2>3, EndMoves DEF SaveLast
<1>7. CASE WriteBack(r)
  <2>1. req' = [req EXCEPT ![r] = req[r]] /\ oper' = my /\ UNCHANGED <<ledger, meant, revised>>
    BY <1>7 DEF WriteBack, TypeInv, TypeOK
  <2>2. req[r].at \in {"handling", "composing"}
    BY <1>7 DEF WriteBack
  <2> QED
    BY <2>1, <2>2, OneMoves
<1>8. CASE TurnDrafts(r)
  <2>1. my.route \in Slot /\ my.route # None /\ my.route.cust \in Customers /\ my.route.case \in Cases
    <3>1. my.route \in Slot
      BY <1>q DEF OperMeta
    <3>2. my.route # None
      BY <1>8 DEF TurnDrafts
    <3> QED
      BY <3>1, <3>2, SlotFields
  <2>2. /\ req[r].at = "composing" /\ SaveLast(r, WithDraft(r, my, my.route.cust, my.route.case))
        /\ UNCHANGED ledger
    BY <1>8 DEF TurnDrafts
  <2>3. /\ \E t : meant' = [meant EXCEPT ![<<r, "text">>] = t]
        /\ revised \subseteq revised'
    BY <1>8 DEF TurnDrafts
  <2>4. r \in revised' \/ meant'[<<r, "text">>] = my.route.cust
    BY <1>8 DEF TurnDrafts, TypeInv, TypeOK, Items
  <2> QED
    BY <2>1, <2>2, <2>3, <2>4, DraftMoves
<1>9. CASE Expire(r)
  BY <1>9, NothingMoves DEF Expire
<1> QED
  BY <1>1, <1>2, <1>3, <1>4, <1>5, <1>6, <1>7, <1>8, <1>9 DEF Handles

(* An item that r holds and sends reaches whom it is meant for, and once if *)
(* nobody else holds it and nothing fails.                                  *)
LEMMA SendsAnswers ==
  ASSUME TypeInv, AnswersInv, NEW r \in Requests, NEW i \in Items, NEW c \in Customers,
         NEW place \in {"sentText", "sentMedia"}, req[r].at = "handling",
         Holds(req[r].my, i), Staged(i), i[1] \in revised \/ c = meant[i],
         i = IF place = "sentText" THEN <<req[r].my.draft.by, "text">>
             ELSE <<req[r].my.media.by, "media">>,
         Sends(r, i, c, place)
  PROVE  AnswersInv'
<1> USE DEF AnswersInv
<1> DEFINE q == [req[r] EXCEPT !.at = place, !.target = c,
                               !.theirs = IF req[r].target = c THEN @ ELSE cust[c]]
<1>1. /\ q.at = place /\ q.my = req[r].my
  BY RequestFields DEF RequestState, TypeInv, TypeOK
<1>2. UNCHANGED <<oper, meant, revised>> /\ (req' = [req EXCEPT ![r] = q] \/ Ends(r))
  BY DEF Sends
<1> HIDE DEF q
<1>3. DeskMoves /\ SentKept
  BY <1>1, <1>2, OldIsKept, OneMoves, EndMoves
<1>4. /\ torn \subseteq torn' /\ raced \subseteq raced'
      /\ \A j \in Items : j # i => times'[j] = times[j]
      /\ astray' \subseteq astray \cup (IF c = meant[i] THEN {} ELSE {i})
  BY Zenon DEF Sends, Races, Reaches, TypeInv, TypeOK
<1>5. DeskInv'
  <2>1. \A j \in Items : times'[j] > 0 => Staged(j)
    BY <1>4 DEF DeskInv
  <2> QED
    BY <1>3, <2>1, MovesKeepSlots DEF DeskInv
<1>6. RightCustomer'
  BY <1>2, <1>4 DEF RightCustomer
<1>7. ASSUME NEW j \in Items, j \notin torn' \cup raced' PROVE SentOnce(j)'
  <2>0. SentOnce(j) /\ j \notin torn \cup raced
    BY <1>4, <1>7 DEF OnceInv
  <2>1. CASE j # i
    <3>1. \A s \in Requests : HasSent(s, j) => req'[s] = req[s]
      BY <1>3, SenderHolds DEF SentKept
    <3> QED
      BY <1>3, <1>4, <2>0, <2>1, <3>1, SentOnceKept
  <2>2. CASE j = i
    <3>1. ~HeldByOthers(r, i)
      BY <1>7, <2>2 DEF Sends, Races
    <3>2. \A s \in Requests : ~HasSent(s, i)
      <4> SUFFICES ASSUME NEW s \in Requests, HasSent(s, i) PROVE FALSE
        OBVIOUS
      <4>1. Holds(req[s].my, i) /\ InFlight(s) /\ s # r
        BY SenderHolds
      <4> QED
        BY <3>1, <4>1 DEF HeldByOthers
    <3>3. times[i] = 0
      <4>1. times[i] # 1
        BY <2>0, <2>2, <3>2 DEF SentOnce, Forgotten
      <4> QED
        BY <2>0, <2>2, <4>1 DEF SentOnce, TypeInv, TypeOK
    <3>4. times'[i] = 1 /\ req'[r] = q
      <4>1. i \notin torn'
        BY <1>7, <2>2
      <4>2. \E n \in 1..2 : Reaches(i, c, n) /\ torn' = IF n = 2 THEN torn \cup {i} ELSE torn
        BY <4>1 DEF Sends
      <4>3. Reaches(i, c, 1)
        BY <4>1, <4>2
      <4>4. times'[i] = 1
        BY <3>3, <4>3 DEF Reaches, TypeInv, TypeOK
      <4>5. req' = [req EXCEPT ![r] = q]
        BY <4>1 DEF Sends, TypeInv, TypeOK, q
      <4> QED
        BY <4>4, <4>5 DEF TypeInv, TypeOK
    <3>5. HasSent(r, i)'
      BY <1>1, <3>4 DEF HasSent
    <3> QED
      BY <2>2, <3>4, <3>5 DEF SentOnce
  <2> QED
    BY <2>1, <2>2
<1> QED
  BY <1>5, <1>6, <1>7 DEF OnceInv

(* Request r, which has sent item i, forgets it or fails to.                *)
LEMMA AfterwardsAnswers ==
  ASSUME TypeInv, AnswersInv, NEW r \in Requests, NEW i \in Items, HasSent(r, i), Ends(r),
         KeptDraft(oper'.draft), KeptMedia(oper'.media),
         UNCHANGED <<times, astray, meant, revised>>,
         torn \subseteq torn', raced \subseteq raced',
         i \in torn' \/ (~Holds(oper', i) /\ (HeldByOthers(r, i) => i \in raced'))
  PROVE  AnswersInv'
<1> USE DEF AnswersInv
<1>1. req[r].at \in {"sentText", "sentMedia"}
  BY SenderHolds
<1>2. DeskMoves
  BY <1>1, EndMoves
<1>3. DeskInv'
  BY <1>2, MovesKeepSlots DEF DeskInv
<1>4. RightCustomer'
  BY DEF RightCustomer
<1>5. req'[r] = Over /\ (\A s \in Requests : s # r => req'[s] = req[s])
  BY DEF Ends, TypeInv, TypeOK
<1>6. ASSUME NEW j \in Items, j \notin torn' \cup raced' PROVE SentOnce(j)'
  <2>0. SentOnce(j)
    BY <1>6 DEF OnceInv
  <2>1. CASE j # i
    <3>1. ~HasSent(r, j)
      BY <2>1 DEF HasSent
    <3> QED
      BY <1>2, <1>5, <2>0, <3>1, SentOnceKept
  <2>2. CASE j = i
    <3>1. ~Holds(oper', i) /\ ~HeldByOthers(r, i)
      BY <1>6, <2>2
    <3>2. ~Holds(req'[r].my, i)
      BY <1>5 DEF Over, NotArrived, NothingPending, Holds
    <3>3. ASSUME NEW s \in Requests, s # r PROVE ~Holds(req'[s].my, i)
      <4>1. CASE InFlight(s)
        BY <1>5, <3>1, <3>3, <4>1 DEF HeldByOthers
      <4>2. CASE ~InFlight(s)
        BY <1>5, <3>3, <4>2 DEF InFlight, DeskInv, NothingPending, Holds
      <4> QED
        BY <4>1, <4>2
    <3>4. Forgotten(i)'
      BY <3>1, <3>2, <3>3 DEF Forgotten, Holds
    <3> QED
      BY <2>0, <2>2, <3>4 DEF SentOnce
  <2> QED
    BY <2>1, <2>2
<1> QED
  BY <1>3, <1>4, <1>6 DEF OnceInv

(* At first nothing is pending and nothing was sent.                        *)
LEMMA AnswersInit == Init => AnswersInv
<1> SUFFICES ASSUME Init PROVE AnswersInv
  OBVIOUS
<1>1. DeskInv
  BY DEF Init, DeskInv, DraftOK, MediaOK, NotArrived, NothingPending
<1>2. RightCustomer /\ OnceInv
  BY DEF Init, RightCustomer, OnceInv, SentOnce
<1> QED
  BY <1>1, <1>2 DEF AnswersInv

(* Every step keeps the pending and the sent answers right.                 *)
LEMMA AnswersStep == TypeInv /\ AnswersInv /\ [Next]_vars => AnswersInv'
<1> SUFFICES ASSUME TypeInv, AnswersInv, [Next]_vars PROVE AnswersInv'
  OBVIOUS
<1>d. DeskInv
  BY DEF AnswersInv
<1>1. CASE UNCHANGED vars \/ \E c \in Customers : CustomerSteps(c)
  <2>1. UNCHANGED <<oper, req, meant, revised, times, astray, torn, raced>>
    BY <1>1 DEF CustomerSteps, CustomerWrites, CustomerServed, VisitWritesBack, CustomerResets,
       escalate_to_human, SpamAutostop, SpamNotified
  <2> QED
    BY <1>d, <2>1, NothingMoves, QuietKeeps
<1>2. ASSUME NEW r \in Requests, Arrives(r) PROVE AnswersInv'
  BY <1>d, <1>2, ArriveMoves, QuietKeeps
<1>3. ASSUME NEW r \in Requests,
             Handles(r) \/ ForgetExpired(r) \/ NothingToSend(r) \/ Expire(r)
      PROVE  AnswersInv'
  BY <1>d, <1>3, HandleMoves, QuietKeeps
<1>4. ASSUME NEW r \in Requests,
             SendMedia(r) \/ SendText(r) \/ MediaSent(r) \/ TextSent(r) \/ SentUncommitted(r)
      PROVE  AnswersInv'
  <2> DEFINE my == req[r].my
             text == <<my.draft.by, "text">>
             media == <<my.media.by, "media">>
  <2>q. /\ RequestOK(req[r]) /\ my \in OperMeta /\ DraftOK(my.draft) /\ MediaOK(my.media)
    BY <1>d, RequestFields DEF TypeInv, TypeOK, DeskInv
  <2>t. my.draft # None => /\ my.draft \in Slot /\ text \in Items /\ my.draft.cust \in Customers
                           /\ Holds(my, text) /\ Staged(text)
                           /\ my.draft.by \in revised \/ my.draft.cust = meant[text]
    <3>1. my.draft \in Slot
      BY <2>q DEF OperMeta
    <3> QED
      BY <2>q, <3>1, SlotFields DEF Items, Holds, Staged, DraftOK
  <2>m. my.media # None => /\ my.media \in Slot /\ media \in Items /\ my.media.cust \in Customers
                           /\ Holds(my, media) /\ Staged(media)
                           /\ my.media.by \in revised \/ my.media.cust = meant[media]
    <3>1. my.media \in Slot
      BY <2>q DEF OperMeta
    <3> QED
      BY <2>q, <3>1, SlotFields DEF Items, Holds, Staged, MediaOK
  <2>1. CASE SendMedia(r)
    <3>1. my.media # None /\ req[r].at = "handling" /\ Sends(r, media, my.media.cust, "sentMedia")
      BY <2>1 DEF SendMedia, Confirms, Fresh
    <3> QED
      BY <2>m, <3>1, SendsAnswers
  <2>2. CASE SendText(r)
    <3>1. my.draft # None /\ req[r].at = "handling" /\ Sends(r, text, my.draft.cust, "sentText")
      BY <2>2 DEF SendText, Confirms, Fresh
    <3> QED
      BY <2>t, <3>1, SendsAnswers
  <2>3. CASE MediaSent(r)
    <3>1. my.media # None /\ HasSent(r, media)
      BY <2>3, <2>q DEF MediaSent, RequestOK, HasSent
    <3>2. oper'.draft = my.draft /\ oper'.media = None
      BY <2>3, <2>q DEF MediaSent, SaveLast, OperMeta
    <3>3. ~Holds(oper', media)
      BY <3>2 DEF Holds
    <3>4. Ends(r) /\ UNCHANGED <<times, astray, torn, meant, revised>> /\ Races(r, media)
      BY <2>3 DEF MediaSent, SaveLast
    <3> QED
      BY <2>m, <3>1, <3>2, <3>3, <3>4, OldIsKept, AfterwardsAnswers DEF Races
  <2>4. CASE TextSent(r)
    <3>1. my.draft # None /\ HasSent(r, text)
      BY <2>4, <2>q DEF TextSent, RequestOK, HasSent
    <3>2. oper'.draft = None /\ oper'.media = my.media
      BY <2>4, <2>q DEF TextSent, SaveLast, OperMeta
    <3>3. ~Holds(oper', text)
      BY <3>2 DEF Holds
    <3>4. Ends(r) /\ UNCHANGED <<times, astray, torn, meant, revised>> /\ Races(r, text)
      BY <2>4 DEF TextSent, SaveLast
    <3> QED
      BY <2>t, <3>1, <3>2, <3>3, <3>4, OldIsKept, AfterwardsAnswers DEF Races
  <2>5. CASE SentUncommitted(r)
    <3>1. Ends(r) /\ UNCHANGED <<oper, times, astray, raced, meant, revised>>
      BY <2>5 DEF SentUncommitted
    <3>2. CASE req[r].at = "sentText"
      <4>1. my.draft # None /\ HasSent(r, text) /\ torn' = torn \cup {text}
        BY <2>5, <2>q, <3>2 DEF SentUncommitted, RequestOK, HasSent
      <4> QED
        BY <2>t, <3>1, <4>1, OldIsKept, AfterwardsAnswers
    <3>3. CASE req[r].at = "sentMedia"
      <4>1. my.media # None /\ HasSent(r, media) /\ torn' = torn \cup {media}
        BY <2>5, <2>q, <3>3 DEF SentUncommitted, RequestOK, HasSent
      <4> QED
        BY <2>m, <3>1, <4>1, OldIsKept, AfterwardsAnswers
    <3> QED
      BY <2>5, <3>2, <3>3 DEF SentUncommitted
  <2> QED
    BY <1>4, <2>1, <2>2, <2>3, <2>4, <2>5
<1> QED
  BY <1>1, <1>2, <1>3, <1>4 DEF Next, Delivers

(* Whatever the operators quote, stage, confirm and reset at the same time, *)
(* an answer that is no revision reaches nobody but the customer of the     *)
(* notification it answers.                                                 *)
THEOREM RightCustomerHolds == Spec => []RightCustomer
<1>1. AnswersInv => RightCustomer
  BY DEF AnswersInv
<1> QED
  BY <1>1, TypeInit, TypeStep, AnswersInit, AnswersStep, PTL DEF Spec

(* An answer that reached its customer more than once had a send or a       *)
(* commit fail, or another request that had already loaded it.              *)
THEOREM RepeatedAnswersAreExplained == Spec => []RepeatedAnswersExplained
<1>1. TypeInv /\ AnswersInv => RepeatedAnswersExplained
  BY DEF AnswersInv, OnceInv, SentOnce, RepeatedAnswersExplained, TypeInv, TypeOK
<1> QED
  BY <1>1, TypeInit, TypeStep, AnswersInit, AnswersStep, PTL DEF Spec

----------------------------------------------------------------------------
(* /aktif: the request that loaded a session, and then the one that told it *)
(* is on, know of every stop there was if none came since.                  *)
Watches(q) == q.told \/ (q.kind = "aktif" /\ NeedsTarget(q))
WatchOK(q) ==
  Watches(q) => /\ q.stops <= stops[q.target]
                /\ q.stops = stops[q.target] /\ ~q.off => ~disabled[q.target]
ActiveInv == \A r \in Requests : WatchOK(req[r])

(* A step of one request that switches nobody on or off. *)
LEMMA WatchKept ==
  ASSUME TypeInv, ActiveInv, NEW r \in Requests, NEW q, req' = [req EXCEPT ![r] = q],
         WatchOK(q), UNCHANGED <<disabled, stops>>
  PROVE  ActiveInv'
BY DEF ActiveInv, WatchOK, TypeInv, TypeOK

(* A request that is over or has not arrived promises nobody anything.      *)
LEMMA OverWatches == ~Watches(Over) /\ ~Watches(NotArrived)
BY DEF Watches, NeedsTarget, Over, NotArrived

(* Every step keeps what /aktif has promised.                               *)
LEMMA ActiveStep == TypeInv /\ ActiveInv /\ [Next]_vars => ActiveInv'
<1> SUFFICES ASSUME TypeInv, ActiveInv, [Next]_vars PROVE ActiveInv'
  OBVIOUS
<1>1. CASE UNCHANGED vars \/ \E r \in Requests : Expire(r)
  BY <1>1 DEF Expire, ActiveInv, WatchOK
<1>2. ASSUME NEW c \in Customers, CustomerSteps(c) PROVE ActiveInv'
  <2>1. CASE SpamAutostop(c)
    <3>1. /\ req' = req /\ stops' = [stops EXCEPT ![c] = @ + 1]
          /\ disabled' = [disabled EXCEPT ![c] = TRUE]
      BY <2>1 DEF SpamAutostop
    <3>2. ASSUME NEW s \in Requests, Watches(req[s]) PROVE WatchOK(req[s])'
      <4>1. req[s].target \in Customers /\ req[s].stops \in Nat /\ WatchOK(req[s])
        BY <3>2, RequestFields DEF TypeInv, TypeOK, RequestOK, Watches, ActiveInv, CaseOrNone
      <4>2. stops[req[s].target] \in Nat
        BY <4>1 DEF TypeInv, TypeOK, CaseOrNone
      <4> QED
        BY <3>1, <3>2, <4>1, <4>2 DEF WatchOK, TypeInv, TypeOK
    <3> QED
      BY <3>1, <3>2 DEF ActiveInv, WatchOK
  <2>2. CASE ~SpamAutostop(c)
    BY <1>2, <2>2 DEF CustomerSteps, CustomerWrites, CustomerServed, VisitWritesBack,
       CustomerResets, escalate_to_human, SpamNotified, ActiveInv, WatchOK
  <2> QED
    BY <2>1, <2>2
<1>3. ASSUME NEW r \in Requests, Arrives(r) PROVE ActiveInv'
  <2>1. PICK place \in {"routing", "handling", "composing"} :
          \E kind, c, k : /\ req' = [req EXCEPT ![r] = Loaded(kind, place, c, k)]
                          /\ kind = "aktif" => c \in Customers
    BY <1>3 DEF Arrives, QuoteArrives, FollowUpArrives, ChatArrives, TypeInv, TypeOK, Notes
  <2>2. PICK kind, c, k : /\ req' = [req EXCEPT ![r] = Loaded(kind, place, c, k)]
                          /\ kind = "aktif" => c \in Customers
    BY <2>1
  <2>3. WatchOK(Loaded(kind, place, c, k))
    <3>1. kind = "aktif" => stops[c] <= stops[c]
      BY <2>2 DEF TypeInv, TypeOK, CaseOrNone
    <3> QED
      BY <3>1 DEF WatchOK, Watches, Loaded
  <2>4. UNCHANGED <<disabled, stops>>
    BY <1>3 DEF Arrives, QuoteArrives, FollowUpArrives, ChatArrives
  <2> QED
    BY <2>2, <2>3, <2>4, WatchKept
<1>4. ASSUME NEW r \in Requests, Activate(r) PROVE ActiveInv'
  <2>q. PICK q : q = [Over EXCEPT !.told = TRUE, !.target = req[r].target, !.stops = req[r].stops]
    OBVIOUS
  <2>c. PICK c : c = req[r].target
    OBVIOUS
  <2>1. /\ c \in Customers /\ WatchOK(req[r]) /\ Watches(req[r]) /\ req[r] \in RequestState
    BY <1>4, <2>c DEF Activate, TypeInv, TypeOK, RequestOK, NeedsTarget, ActiveInv, Watches
  <2>2. Over.off = FALSE /\ Over \in RequestState
    BY OverOK DEF Over, NotArrived
  <2>3. q.off = FALSE /\ q.target = c /\ q.stops = req[r].stops
    BY <2>2, <2>q, <2>c DEF RequestState
  <2>4. /\ req' = [req EXCEPT ![r] = q] /\ stops' = stops
        /\ disabled' = [disabled EXCEPT ![c] = @ /\ ~req[r].off]
    BY <1>4, <2>q, <2>c DEF Activate
  <2>5. WatchOK(q)'
    BY <2>1, <2>3, <2>4, <2>c DEF WatchOK, TypeInv, TypeOK
  <2>6. \A d \in Customers : disabled'[d] => disabled[d]
    BY <2>1, <2>4 DEF TypeInv, TypeOK
  <2>7. ASSUME NEW s \in Requests, s # r PROVE WatchOK(req[s])'
    <3>1. req'[s] = req[s] /\ WatchOK(req[s]) /\ (Watches(req[s]) => req[s].target \in Customers)
      BY <2>4, <2>7 DEF TypeInv, TypeOK, ActiveInv, Watches, RequestOK
    <3> QED
      BY <2>4, <2>6, <3>1 DEF WatchOK
  <2>8. req'[r] = q
    BY <2>4 DEF TypeInv, TypeOK
  <2> QED
    BY <2>5, <2>7, <2>8 DEF ActiveInv
<1>5. ASSUME NEW r \in Requests, Handles(r) \/ Delivers(r), ~Activate(r) PROVE ActiveInv'
  <2>1. UNCHANGED <<disabled, stops>>
    BY Zenon, <1>5 DEF Handles, Delivers, Route, StageText, StageMedia, Approve, ResetDesk, WriteBack,
       TurnEnds, TurnDrafts, SendMedia, SendText, Sends, ForgetExpired, NothingToSend, MediaSent,
       TextSent, SentUncommitted
  <2>2. req[r] \in RequestState /\ RequestOK(req[r]) /\ WatchOK(req[r])
    BY DEF TypeInv, TypeOK, ActiveInv
  <2>3. CASE Ends(r)
    BY <2>1, <2>3, OverWatches, WatchKept DEF Ends, WatchOK
  <2>4. CASE Route(r)
    <3> DEFINE m == [req[r].my EXCEPT !.route = RouteTo(r, req[r].target, req[r].case)]
               q == [req[r] EXCEPT !.my = m, !.at = "handling"]
    <3>1. /\ q.kind = req[r].kind /\ q.target = req[r].target /\ q.stops = req[r].stops
          /\ q.off = req[r].off /\ q.told = req[r].told
      BY <2>2 DEF RequestState
    <3>2. req' = [req EXCEPT ![r] = q] /\ req[r].at = "routing"
      BY <2>4 DEF Route, Save, TypeInv, TypeOK
    <3> HIDE DEF q
    <3>3. WatchOK(q)
      BY <2>2, <3>1, <3>2 DEF WatchOK, Watches, NeedsTarget
    <3> QED
      BY <2>1, <3>2, <3>3, WatchKept
  <2>5. ASSUME NEW m, StageMedia(r), Save(r, m, "composing") PROVE ActiveInv'
    <3> DEFINE q == [req[r] EXCEPT !.my = m, !.at = "composing"]
    <3>1. q.at = "composing" /\ q.told = req[r].told
      BY <2>2 DEF RequestState
    <3>2. req' = [req EXCEPT ![r] = q] /\ req[r].at = "handling"
      BY ZenonT(40), <2>5 DEF StageMedia, Save, TypeInv, TypeOK
    <3> HIDE DEF q
    <3>3. WatchOK(q)
      BY <2>2, <3>1, <3>2 DEF WatchOK, Watches, NeedsTarget, RequestOK
    <3> QED
      BY <2>1, <3>2, <3>3, WatchKept
  <2>6. CASE WriteBack(r)
    BY <2>1, <2>6 DEF WriteBack, ActiveInv, WatchOK
  <2>7. ASSUME NEW i, NEW c, NEW place \in {"sentText", "sentMedia"}, Confirms(r),
               Sends(r, i, c, place), ~Ends(r)
        PROVE  ActiveInv'
    <3> DEFINE q == [req[r] EXCEPT !.at = place, !.target = c,
                                   !.theirs = IF req[r].target = c THEN @ ELSE cust[c]]
    <3>1. q.at = place /\ q.told = req[r].told
      BY <2>2 DEF RequestState
    <3>2. req' = [req EXCEPT ![r] = q] /\ req[r].at = "handling"
      BY <2>7 DEF Sends, Confirms, TypeInv, TypeOK
    <3> HIDE DEF q
    <3>3. WatchOK(q)
      BY <2>2, <3>1, <3>2 DEF WatchOK, Watches, NeedsTarget, RequestOK
    <3> QED
      BY <2>1, <3>2, <3>3, WatchKept
  <2> QED
    BY <1>5, <2>3, <2>4, <2>5, <2>6, <2>7 DEF Handles, Delivers, StageText, StageMedia, Approve,
       ResetDesk, TurnEnds, TurnDrafts, SendMedia, SendText, ForgetExpired, NothingToSend,
       MediaSent, TextSent, SentUncommitted, SaveLast
<1> QED
  BY <1>1, <1>2, <1>3, <1>4, <1>5 DEF Next

(* Once an operator was told that a customer's AI is active again, only a   *)
(* spam stop that the request had not loaded switches it off.               *)
THEOREM ActivatedStays == Spec => []ActivatedUnlessStoppedAgain
<1>1. Init => ActiveInv
  BY OverWatches DEF Init, ActiveInv, WatchOK
<1>2. TypeInv /\ ActiveInv => ActivatedUnlessStoppedAgain
  <2> SUFFICES ASSUME TypeInv, ActiveInv, NEW r \in Requests, req[r].told,
                      stops[req[r].target] = req[r].stops
               PROVE  ~disabled[req[r].target]
    BY DEF ActivatedUnlessStoppedAgain
  <2>1. ~req[r].off
    BY DEF TypeInv, RequestOK
  <2> QED
    BY <2>1 DEF ActiveInv, WatchOK, Watches
<1> QED
  BY <1>1, <1>2, TypeInit, TypeStep, ActiveStep, PTL DEF Spec
=============================================================================
