---------------------------- MODULE GatewayProofs ----------------------------
(***************************************************************************)
(* Theorems about the device gateway, for any devices, clients, messages   *)
(* and requests: DeviceGateway's sessions end only when they were asked to *)
(* and then for good; GatewayChat's indicator is held and its answers to   *)
(* Python are true.                                                        *)
(***************************************************************************)
EXTENDS DeviceGateway, GatewayChat, FiniteSetTheorems, TLAPS

(***************************************************************************)
(* The chat.  As long as no two starts have met, one start is between its  *)
(* two steps at most, and then no ticker runs.                             *)
(***************************************************************************)
MessageAt == {"new", "ignored", "taken", "resolved", "starting", "forwarding", "forwarded", "lost"}
JobAt == {"no", "arrived", "refused", "stopped", "sent"}
RequestAt == {"idle", "first", "second", "starting", "done"}
InboxEntry == [at : MessageAt, kind : Kinds \cup {NoKind}, phone : {"none", "pn", "lid", "unknown"}, gone : BOOLEAN]
PythonRequest == [op : {"none", "text", "contact", "media", "start", "stop"}, at : RequestAt,
                  job : [1..2 -> JobAt], sent : Nat, doubt : BOOLEAN, answer : {"none", "ok", "failed"}]
ChatType ==
    /\ inbox \in [Messages -> InboxEntry] /\ \A m \in Messages : inbox[m].at = "taken" => inbox[m].kind \in Kinds
    /\ req \in [Requests -> PythonRequest]
    /\ device.here \in BOOLEAN

Starts(m) == inbox[m].at = "starting"
Begins(r) == req[r].at = "starting"
OneStart ==
    ~overlapped =>
      /\ \A m, n \in Messages : Starts(m) /\ Starts(n) => m = n
      /\ \A r, q \in Requests : Begins(r) /\ Begins(q) => r = q
      /\ \A m \in Messages, r \in Requests : ~(Starts(m) /\ Begins(r))
      /\ (\E m \in Messages : Starts(m)) \/ (\E r \in Requests : Begins(r)) => running = {}

(* What a request has sent, when each of its attempts had a clear outcome.  *)
Clear(q) ==
    IF q.job[2] = "no" THEN q.sent <= 1 /\ (q.job[1] # "sent" => q.sent = 0)
    ELSE /\ q.job[1] \in {"no", "refused"} /\ q.at \in {"second", "done"}
         /\ IF q.job[2] \in {"arrived", "stopped"} THEN q.sent = 0 ELSE q.sent <= 1
Counted(q) ==
    /\ ~q.doubt => Clear(q)
    /\ q.at \in {"idle", "first"} => q.job[2] = "no"
    /\ q.at = "idle" => q.job[1] = "no" /\ q.sent = 0 /\ ~q.doubt /\ q.answer = "none"
    /\ q.op # "text" => q.job[1] = "no" /\ q.job[2] = "no"
    /\ q.at = "starting" => q.op # "text"
    /\ \A i \in 1..2 : q.job[i] = "sent" => q.sent >= 1
    /\ q.answer = "ok" => q.at = "done" /\ (q.op = "text" => q.sent >= 1)
ChatInv == /\ ChatType /\ OneStart /\ TypingIsHeld /\ PhonesArePhones
           /\ \A r \in Requests : Counted(req[r])

LEMMA ChatStarts == ChatInit => ChatInv
<1> SUFFICES ASSUME ChatInit PROVE ChatInv
  OBVIOUS
<1>1. NoRequest \in PythonRequest /\ Counted(NoRequest)
  BY DEF NoRequest, PythonRequest, RequestAt, JobAt, Counted, Clear
<1>2. [at |-> "new", kind |-> NoKind, phone |-> "none", gone |-> FALSE] \in InboxEntry
  BY DEF InboxEntry, MessageAt
<1>3. ChatType
  BY <1>1, <1>2 DEF ChatInit, ChatType
<1>4. OneStart /\ TypingIsHeld /\ PhonesArePhones
  BY DEF ChatInit, NoRequest, OneStart, Starts, Begins, TypingIsHeld, PhonesArePhones
<1> QED
  BY <1>1, <1>3, <1>4 DEF ChatInit, ChatInv

(* Nobody starts, or nobody is left that does: the table stays honest.      *)
LEMMA TypingKept ==
  ASSUME ChatInv,
         \A m \in Messages : Starts(m)' => Starts(m), \A r \in Requests : Begins(r)' => Begins(r),
         TypingStays \/ Stops
  PROVE  OneStart' /\ TypingIsHeld'
<1>1. OneStart'
  BY DEF ChatInv, OneStart, TypingStays, Stops
<1>2. TypingIsHeld'
  BY DEF ChatInv, TypingIsHeld, TypingStays, Stops
<1> QED
  BY <1>1, <1>2

(* A start takes the old ticker out: nothing runs, or two starts have met.  *)
LEMMA TypingTaken ==
  ASSUME ChatInv, TakesOld,
         \/ \E n \in Messages : /\ ~Starts(n) /\ \A m \in Messages : Starts(m)' => Starts(m) \/ m = n
                                /\ \A r \in Requests : Begins(r)' => Begins(r)
         \/ \E q \in Requests : /\ ~Begins(q) /\ \A m \in Messages : Starts(m)' => Starts(m)
                                /\ \A r \in Requests : Begins(r)' => Begins(r) \/ r = q
  PROVE  OneStart' /\ TypingIsHeld'
<1>1. CASE overlapped'
  BY <1>1 DEF OneStart, TypingIsHeld
<1>2. CASE ~overlapped'
  <2>1. ~overlapped /\ (\A m \in Messages : ~Starts(m)) /\ \A r \in Requests : ~Begins(r)
    BY <1>2 DEF TakesOld, Starting, Starts, Begins
  <2>2. running' = {} /\ ticker' = 0
    BY <2>1 DEF TakesOld, ChatInv, TypingIsHeld
  <2>3. OneStart'
    BY <2>1, <2>2 DEF OneStart
  <2> QED
    BY <2>2, <2>3 DEF TypingIsHeld
<1> QED
  BY <1>1, <1>2

(* It stores the new one: it is the one that runs, and the start is over.   *)
LEMMA TypingStored ==
  ASSUME ChatInv, StoresNew,
         \/ \E n \in Messages : /\ Starts(n) /\ ~Starts(n)' /\ \A m \in Messages : Starts(m)' => Starts(m)
                                /\ \A r \in Requests : Begins(r)' => Begins(r)
         \/ \E q \in Requests : /\ Begins(q) /\ ~Begins(q)' /\ \A m \in Messages : Starts(m)' => Starts(m)
                                /\ \A r \in Requests : Begins(r)' => Begins(r)
  PROVE  OneStart' /\ TypingIsHeld'
<1>1. CASE overlapped
  BY <1>1 DEF OneStart, TypingIsHeld, StoresNew
<1>2. CASE ~overlapped
  <2>1. (\A m \in Messages : ~Starts(m)') /\ (\A r \in Requests : ~Begins(r)') /\ running = {}
    BY <1>2 DEF ChatInv, OneStart
  <2>2. running' = {ticker'}
    BY <2>1 DEF StoresNew
  <2>3. OneStart'
    BY <2>1 DEF OneStart
  <2> QED
    BY <2>2, <2>3 DEF TypingIsHeld
<1> QED
  BY <1>1, <1>2

(* A message's step changes its own entry. *)
LEMMA MessageSteps ==
  ASSUME ChatInv, NEW m \in Messages, NEW e \in InboxEntry, inbox' = [inbox EXCEPT ![m] = e],
         e.phone = "lid" => e.gone, e.at = "taken" => e.kind \in Kinds, UNCHANGED <<device, req>>
  PROVE  /\ ChatType' /\ PhonesArePhones' /\ (\A r \in Requests : Counted(req[r])' /\ (Begins(r)' <=> Begins(r)))
         /\ (Starts(m)' <=> e.at = "starting") /\ \A n \in Messages \ {m} : Starts(n)' <=> Starts(n)
<1>1. inbox \in [Messages -> InboxEntry]
  BY DEF ChatInv, ChatType
<1>2. inbox' \in [Messages -> InboxEntry] /\ inbox'[m] = e /\ \A n \in Messages \ {m} : inbox'[n] = inbox[n]
  BY <1>1
<1>3. ChatType' /\ PhonesArePhones'
  BY <1>2 DEF ChatInv, ChatType, PhonesArePhones
<1>4. \A r \in Requests : Counted(req[r])' /\ (Begins(r)' <=> Begins(r))
  BY DEF ChatInv, Begins
<1> QED
  BY <1>2, <1>3, <1>4 DEF Starts

(* A request's step changes its own record. *)
LEMMA RequestSteps ==
  ASSUME ChatInv, NEW r \in Requests, NEW q \in PythonRequest, req' = [req EXCEPT ![r] = q], Counted(q),
         UNCHANGED <<device, inbox>>
  PROVE  /\ ChatType' /\ PhonesArePhones' /\ (\A p \in Requests : Counted(req[p])') /\ (\A m \in Messages : Starts(m)' <=> Starts(m))
         /\ (Begins(r)' <=> q.at = "starting") /\ \A p \in Requests \ {r} : Begins(p)' <=> Begins(p)
<1>1. req \in [Requests -> PythonRequest]
  BY DEF ChatInv, ChatType
<1>2. req' \in [Requests -> PythonRequest] /\ req'[r] = q /\ \A p \in Requests \ {r} : req'[p] = req[p]
  BY <1>1
<1>3. ChatType' /\ PhonesArePhones'
  BY <1>2 DEF ChatInv, ChatType, PhonesArePhones
<1>4. \A p \in Requests : Counted(req'[p])
  BY <1>2 DEF ChatInv
<1> QED
  BY <1>2, <1>3, <1>4 DEF Starts, Begins

LEMMA MessageStep ==
  ASSUME ChatInv, NEW m \in Messages,
         (\E k \in Kinds : Arrives(m, k)) \/ Resolves(m) \/ Types(m) \/ TypesOn(m) \/ Forwards(m)
  PROVE  ChatInv'
<1>1. inbox \in [Messages -> InboxEntry] /\ inbox[m] \in InboxEntry /\ device.here \in BOOLEAN
      /\ (inbox[m].phone = "lid" => inbox[m].gone)
  BY DEF ChatInv, ChatType, PhonesArePhones
<1>2. ASSUME NEW e \in InboxEntry, inbox' = [inbox EXCEPT ![m] = e], e.phone = "lid" => e.gone,
             e.at = "taken" => e.kind \in Kinds, UNCHANGED <<device, req>>,
             \/ e.at # "starting" /\ TypingStays
             \/ e.at = "starting" /\ ~Starts(m) /\ TakesOld
             \/ e.at # "starting" /\ Starts(m) /\ StoresNew
      PROVE  ChatInv'
  <2>1. /\ ChatType' /\ PhonesArePhones' /\ (\A r \in Requests : Counted(req[r])' /\ (Begins(r)' <=> Begins(r)))
        /\ (Starts(m)' <=> e.at = "starting") /\ \A n \in Messages \ {m} : Starts(n)' <=> Starts(n)
    BY <1>2, MessageSteps
  <2>2. OneStart' /\ TypingIsHeld'
    BY <1>2, <2>1, TypingKept, TypingTaken, TypingStored
  <2> QED
    BY <2>1, <2>2 DEF ChatInv
<1>3. ASSUME NEW k \in Kinds, Arrives(m, k) PROVE ChatInv'
  <2> DEFINE e == IF Ignored(k) THEN [inbox[m] EXCEPT !.at = "ignored"] ELSE [inbox[m] EXCEPT !.at = "taken", !.kind = k]
  <2>1. /\ e \in InboxEntry /\ e.at \in {"ignored", "taken"} /\ e.phone = inbox[m].phone /\ e.gone = inbox[m].gone
        /\ (e.at = "taken" => e.kind = k)
    <3>1. CASE Ignored(k)
      BY <1>1, <3>1 DEF InboxEntry, MessageAt
    <3>2. CASE ~Ignored(k)
      BY <1>1, <3>2 DEF InboxEntry, MessageAt
    <3> QED
      BY <3>1, <3>2
  <2>2. inbox' = [inbox EXCEPT ![m] = e] /\ TypingStays /\ UNCHANGED <<device, req>>
    BY Zenon, <1>3 DEF Arrives
  <2> HIDE DEF e
  <2> QED
    BY <1>1, <1>2, <2>1, <2>2
<1>4. CASE Resolves(m)
  <2> DEFINE k == inbox[m].kind
             e == [inbox[m] EXCEPT !.phone = PhoneFrom(k), !.gone = ~device.here, !.at = "resolved", !.kind = NoKind]
  <2>1. k \in Kinds
    BY <1>4 DEF Resolves, ChatInv, ChatType
  <2>2. inbox[m].at = "taken" /\ inbox' = [inbox EXCEPT ![m] = e] /\ TypingStays /\ UNCHANGED <<device, req>>
    BY <1>4 DEF Resolves
  <2>3. k.sender \in {"pn", "lid"}
    BY <2>1, ChatBounds DEF Kind
  <2>4. PhoneFrom(k) \in {"pn", "lid", "unknown"} /\ (PhoneFrom(k) = "lid" => ~device.here)
    BY <2>3 DEF PhoneFrom
  <2>5. e \in InboxEntry /\ (e.phone = "lid" => e.gone) /\ e.at = "resolved"
    BY <1>1, <2>4 DEF InboxEntry, MessageAt
  <2> HIDE DEF e
  <2> QED
    BY <1>2, <2>2, <2>5
<1>5. ASSUME NEW at \in MessageAt, at # "taken", Becomes(m, at), UNCHANGED <<device, req>>,
             \/ at # "starting" /\ TypingStays
             \/ at = "starting" /\ ~Starts(m) /\ TakesOld
             \/ at # "starting" /\ Starts(m) /\ StoresNew
      PROVE  ChatInv'
  <2> DEFINE e == [inbox[m] EXCEPT !.at = at]
  <2>1. e \in InboxEntry /\ e.at = at /\ e.phone = inbox[m].phone /\ e.gone = inbox[m].gone /\ inbox' = [inbox EXCEPT ![m] = e]
    BY <1>1, <1>5 DEF InboxEntry, Becomes
  <2> HIDE DEF e
  <2> QED
    BY <1>1, <1>2, <1>5, <2>1
<1>6. CASE Types(m)
  BY <1>5, <1>6 DEF Types, MessageAt, Starts
<1>7. CASE TypesOn(m)
  BY <1>5, <1>7 DEF TypesOn, MessageAt, Starts
<1>8. CASE Forwards(m)
  BY <1>5, <1>8 DEF Forwards, MessageAt
<1> QED
  BY <1>3, <1>4, <1>6, <1>7, <1>8

LEMMA RequestStep ==
  ASSUME ChatInv, NEW r \in Requests,
         \/ \E op \in {"text", "contact", "media", "start", "stop"} : Asks(r, op)
         \/ \E i \in 1..2 : Refuses(r, i) \/ StopsTyping(r, i) \/ Sends(r, i)
         \/ GetsAnswer(r) \/ TimesOut(r) \/ NeverArrives(r)
         \/ Contact(r) \/ Media(r) \/ Stop(r) \/ Start(r) \/ StartsOn(r)
  PROVE  ChatInv'
<1> DEFINE p == req[r]
<1>1. req \in [Requests -> PythonRequest] /\ p \in PythonRequest /\ Counted(p)
  BY DEF ChatInv, ChatType
<1>2. ASSUME NEW q \in PythonRequest, req' = [req EXCEPT ![r] = q], Counted(q), UNCHANGED <<device, inbox>>,
             \/ (q.at = "starting" => p.at = "starting") /\ (TypingStays \/ Stops)
             \/ q.at = "starting" /\ p.at # "starting" /\ TakesOld
             \/ q.at # "starting" /\ p.at = "starting" /\ StoresNew
      PROVE  ChatInv'
  <2>1. /\ ChatType' /\ PhonesArePhones' /\ (\A x \in Requests : Counted(req[x])') /\ (\A m \in Messages : Starts(m)' <=> Starts(m))
        /\ (Begins(r)' <=> q.at = "starting") /\ \A x \in Requests \ {r} : Begins(x)' <=> Begins(x)
    BY <1>2, RequestSteps
  <2>2. OneStart' /\ TypingIsHeld'
    BY <1>2, <2>1, TypingKept, TypingTaken, TypingStored DEF Begins
  <2> QED
    BY <2>1, <2>2 DEF ChatInv
<1> HIDE DEF p
<1>3. /\ p.op \in {"none", "text", "contact", "media", "start", "stop"} /\ p.at \in RequestAt
      /\ p.job \in [1..2 -> JobAt] /\ p.job[1] \in JobAt /\ p.job[2] \in JobAt
      /\ p.sent \in Nat /\ p.doubt \in BOOLEAN /\ p.answer \in {"none", "ok", "failed"}
  BY <1>1 DEF PythonRequest
(* A request asks. *)
<1>4. ASSUME NEW op \in {"text", "contact", "media", "start", "stop"}, Asks(r, op) PROVE ChatInv'
  <2> DEFINE q == [p EXCEPT !.op = op, !.at = "first", !.job = IF op = "text" THEN <<"arrived", "no">> ELSE @]
  <2>1. p.at = "idle" /\ req' = [req EXCEPT ![r] = q] /\ TypingStays /\ UNCHANGED <<device, inbox>>
    BY <1>1, <1>4 DEF Asks, p
  <2>2. (IF op = "text" THEN <<"arrived", "no">> ELSE p.job) \in [1..2 -> JobAt]
    BY <1>3 DEF JobAt
  <2>3. q \in PythonRequest /\ q.at = "first" /\ q.op = op /\ q.sent = p.sent /\ q.doubt = p.doubt /\ q.answer = p.answer
        /\ q.job = IF op = "text" THEN <<"arrived", "no">> ELSE p.job
    BY <1>1, <2>2 DEF PythonRequest, RequestAt
  <2> HIDE DEF q
  <2>4. Counted(q)
    BY <1>1, <1>3, <2>1, <2>3 DEF Counted, Clear
  <2> QED
    BY <1>2, <2>1, <2>3, <2>4
(* One attempt goes on at the gateway. *)
<1>5. ASSUME NEW i \in 1..2, NEW q, q = [p EXCEPT !.job[i] = q.job[i], !.sent = q.sent, !.doubt = q.doubt],
             q.job[i] \in {"refused", "stopped", "sent"}, q.sent \in {p.sent, p.sent + 1}, q.doubt \in BOOLEAN,
             p.job[i] \in {"arrived", "stopped"}, p.doubt => q.doubt,
             q.job[i] = "stopped" => q.sent = p.sent, q.job[i] = "sent" => q.sent = p.sent + 1,
             q.job[1] = "refused" /\ i = 1 => q.sent = p.sent \/ q.doubt,
             req' = [req EXCEPT ![r] = q], UNCHANGED <<device, inbox>>, TypingStays \/ Stops
      PROVE  ChatInv'
  <2>1. [p.job EXCEPT ![i] = q.job[i]] \in [1..2 -> JobAt] /\ q.sent \in Nat
    BY <1>3, <1>5 DEF JobAt
  <2>2. /\ q \in PythonRequest /\ q.at = p.at /\ q.op = p.op /\ q.answer = p.answer
        /\ \A j \in 1..2 \ {i} : q.job[j] = p.job[j]
    BY <1>1, <1>3, <1>5, <2>1 DEF PythonRequest
  <2>3. Counted(q)
    <3>1. CASE i = 1
      BY <1>1, <1>3, <1>5, <2>2, <3>1 DEF Counted, Clear
    <3>2. CASE i = 2
      BY <1>1, <1>3, <1>5, <2>2, <3>2 DEF Counted, Clear
    <3> QED
      BY <3>1, <3>2
  <2> QED
    BY <1>2, <1>5, <2>2, <2>3
<1>6. ASSUME NEW i \in 1..2, Refuses(r, i) \/ StopsTyping(r, i) PROVE ChatInv'
  <2>1. PICK how \in {"refused", "stopped"} :
           /\ p.job[i] = "arrived" /\ req' = [req EXCEPT ![r].job[i] = how]
    BY <1>6 DEF Refuses, StopsTyping, p
  <2>2. UNCHANGED <<device, inbox>> /\ (TypingStays \/ Stops)
    BY <1>6 DEF Refuses, StopsTyping
  <2> DEFINE q == [p EXCEPT !.job[i] = how]
  <2>3. req' = [req EXCEPT ![r] = q]
    BY <1>1, <2>1 DEF p
  <2>4. q.job[i] = how /\ q.sent = p.sent /\ q.doubt = p.doubt
        /\ q = [p EXCEPT !.job[i] = q.job[i], !.sent = q.sent, !.doubt = q.doubt]
    BY <1>1, <1>3 DEF PythonRequest
  <2> HIDE DEF q
  <2> QED
    BY Zenon, <1>3, <1>5, <2>1, <2>2, <2>3, <2>4
<1>7. ASSUME NEW i \in 1..2, Sends(r, i) PROVE ChatInv'
  <2>1. p.job[i] = "stopped" /\ TypingStays /\ UNCHANGED <<device, inbox>>
    BY <1>7 DEF Sends, p
  <2>2. ASSUME NEW q, req' = [req EXCEPT ![r] = q], q = [p EXCEPT !.job[i] = q.job[i], !.sent = q.sent, !.doubt = q.doubt],
               \/ q.job[i] = "sent" /\ q.sent = p.sent + 1 /\ q.doubt = p.doubt
               \/ q.job[i] = "refused" /\ q.sent = p.sent + 1 /\ q.doubt = (p.doubt \/ i = 1)
               \/ q.job[i] = "refused" /\ q.sent = p.sent /\ q.doubt = p.doubt
        PROVE  ChatInv'
    <3>1. q.doubt \in BOOLEAN /\ (p.doubt => q.doubt)
      BY <1>3, <2>2
    <3> QED
      BY Zenon, <1>5, <2>1, <2>2, <3>1
  <2>3. CASE req' = [req EXCEPT ![r].job[i] = "sent", ![r].sent = @ + 1]
    <3> DEFINE q == [p EXCEPT !.job[i] = "sent", !.sent = @ + 1]
    <3>1. req' = [req EXCEPT ![r] = q]
      BY <1>1, <2>3 DEF p
    <3>2. q.job[i] = "sent" /\ q.sent = p.sent + 1 /\ q.doubt = p.doubt
          /\ q = [p EXCEPT !.job[i] = q.job[i], !.sent = q.sent, !.doubt = q.doubt]
      BY <1>1, <1>3 DEF PythonRequest
    <3> HIDE DEF q
    <3> QED
      BY Zenon, <2>2, <3>1, <3>2
  <2>4. CASE req' = [req EXCEPT ![r].job[i] = "refused", ![r].sent = @ + 1, ![r].doubt = @ \/ i = 1]
    <3> DEFINE q == [p EXCEPT !.job[i] = "refused", !.sent = @ + 1, !.doubt = @ \/ i = 1]
    <3>1. req' = [req EXCEPT ![r] = q]
      BY <1>1, <2>4 DEF p
    <3>2. q.job[i] = "refused" /\ q.sent = p.sent + 1 /\ q.doubt = (p.doubt \/ i = 1)
          /\ q = [p EXCEPT !.job[i] = q.job[i], !.sent = q.sent, !.doubt = q.doubt]
      BY <1>1, <1>3 DEF PythonRequest
    <3> HIDE DEF q
    <3> QED
      BY Zenon, <2>2, <3>1, <3>2
  <2>5. CASE req' = [req EXCEPT ![r].job[i] = "refused"]
    <3> DEFINE q == [p EXCEPT !.job[i] = "refused"]
    <3>1. req' = [req EXCEPT ![r] = q]
      BY <1>1, <2>5 DEF p
    <3>2. q.job[i] = "refused" /\ q.sent = p.sent /\ q.doubt = p.doubt
          /\ q = [p EXCEPT !.job[i] = q.job[i], !.sent = q.sent, !.doubt = q.doubt]
      BY <1>1, <1>3 DEF PythonRequest
    <3> HIDE DEF q
    <3> QED
      BY Zenon, <2>2, <3>1, <3>2
  <2> QED
    BY <1>7, <2>3, <2>4, <2>5 DEF Sends
(* Python's side: the request is answered, or tried once more. *)
<1>8. ASSUME NEW q \in PythonRequest, req' = [req EXCEPT ![r] = q], UNCHANGED <<device, inbox>>, TypingStays,
             p.op = "text", q.op = p.op, p.at \in {"first", "second"}, q.sent = p.sent, p.doubt => q.doubt,
             q.job[1] = p.job[1] \/ (q.job[1] = "no" /\ p.job[1] = "arrived"),
             \/ /\ p.at = "first" /\ q.at = "second" /\ q.job[2] = "arrived" /\ q.answer = p.answer
                /\ q.doubt \/ q.job[1] \in {"no", "refused"}
             \/ /\ q.at = "done" /\ (q.job[2] = p.job[2] \/ (q.job[2] = "no" /\ p.job[2] = "arrived"))
                /\ q.answer = "failed" \/ (q.answer = "ok" /\ \E i \in 1..2 : p.job[i] = "sent")
                /\ p.at = "second" \/ q.job[1] = "sent"
      PROVE  ChatInv'
  <2>1. q.sent \in Nat /\ q.job[1] \in JobAt /\ q.job[2] \in JobAt
    BY DEF PythonRequest
  <2>2. ASSUME ~q.doubt PROVE Clear(q)
    <3>1. ~p.doubt /\ Clear(p)
      BY <1>1, <1>8, <2>2 DEF Counted
    <3>2. CASE q.at = "second"
      <4>1. p.job[2] = "no" /\ q.job[2] = "arrived" /\ q.job[1] \in {"no", "refused"} /\ p.job[1] # "sent"
        BY <1>1, <1>8, <2>2, <3>2 DEF Counted
      <4> QED
        BY <1>8, <3>1, <3>2, <4>1 DEF Clear
    <3>3. CASE q.at = "done"
      BY <1>3, <1>8, <2>1, <3>1, <3>3 DEF Clear
    <3> QED
      BY <1>8, <3>2, <3>3
  <2>3. \A i \in 1..2 : q.job[i] = "sent" => p.job[i] = "sent"
    BY <1>8
  <2>4. \A i \in 1..2 : p.job[i] = "sent" => p.sent >= 1
    BY <1>1 DEF Counted
  <2>5. q.answer = "ok" => q.at = "done" /\ q.sent >= 1
    BY <1>1, <1>8, <2>4 DEF Counted
  <2>6. Counted(q)
    BY <1>8, <2>2, <2>3, <2>4, <2>5 DEF Counted
  <2> QED
    BY <1>2, <1>8, <2>6
<1>9. p.at \in {"first", "second"} => Attempt(r) \in 1..2 /\ (Attempt(r) = 1 <=> p.at = "first")
  BY DEF Attempt, p
<1>10. /\ Repeats(r) \in PythonRequest /\ Repeats(r).at = "second" /\ Repeats(r).op = p.op /\ Repeats(r).sent = p.sent
       /\ Repeats(r).doubt = p.doubt /\ Repeats(r).answer = p.answer
       /\ Repeats(r).job[2] = "arrived" /\ Repeats(r).job[1] = p.job[1]
  <2> DEFINE job == [p.job EXCEPT ![2] = "arrived"]
             q == [p EXCEPT !.at = "second", !.job = job]
  <2>1. job \in [1..2 -> JobAt] /\ job[2] = "arrived" /\ job[1] = p.job[1]
    BY <1>3 DEF JobAt
  <2>2. Repeats(r) = q
    BY DEF Repeats, p
  <2> HIDE DEF job
  <2>3. /\ q \in PythonRequest /\ q.at = "second" /\ q.op = p.op /\ q.sent = p.sent
        /\ q.doubt = p.doubt /\ q.answer = p.answer /\ q.job = job
    BY <1>1, <2>1 DEF PythonRequest, RequestAt
  <2> HIDE DEF q
  <2> QED
    BY <2>1, <2>2, <2>3
<1>11. ASSUME NEW answer \in {"ok", "failed"}
       PROVE  LET q == [p EXCEPT !.at = "done", !.answer = answer]
              IN /\ q \in PythonRequest /\ q.at = "done" /\ q.op = p.op /\ q.sent = p.sent
                 /\ q.doubt = p.doubt /\ q.answer = answer /\ q.job = p.job
  BY <1>1 DEF PythonRequest, RequestAt
<1>12. CASE GetsAnswer(r)
  <2> DEFINE i == Attempt(r)
             q == Answered(r, i)
  <2>1. /\ p.op = "text" /\ p.at \in {"first", "second"} /\ p.job[i] \in {"sent", "refused"}
        /\ req' = [req EXCEPT ![r] = q] /\ TypingStays /\ UNCHANGED <<device, inbox>>
    BY <1>12 DEF GetsAnswer, p
  <2>2. i \in 1..2 /\ (i = 1 <=> p.at = "first")
    BY <1>9, <2>1
  <2>3. q = IF p.job[i] = "sent" THEN [p EXCEPT !.at = "done", !.answer = "ok"]
            ELSE IF i = 1 THEN Repeats(r) ELSE [p EXCEPT !.at = "done", !.answer = "failed"]
    BY DEF Answered, p
  <2> HIDE DEF q, i
  <2>4. CASE p.job[i] = "sent"
    <3>1. /\ q \in PythonRequest /\ q.at = "done" /\ q.op = p.op /\ q.sent = p.sent
          /\ q.doubt = p.doubt /\ q.answer = "ok" /\ q.job = p.job
      BY <1>11, <2>3, <2>4
    <3> QED
      BY <1>8, <2>1, <2>2, <2>4, <3>1
  <2>5. CASE p.job[i] # "sent" /\ i = 1
    BY <1>8, <1>10, <2>1, <2>2, <2>3, <2>5
  <2>6. CASE p.job[i] # "sent" /\ i = 2
    <3>1. /\ q \in PythonRequest /\ q.at = "done" /\ q.op = p.op /\ q.sent = p.sent
          /\ q.doubt = p.doubt /\ q.answer = "failed" /\ q.job = p.job
      BY <1>11, <2>3, <2>6
    <3>2. p.at = "second"
      BY <2>1, <2>2, <2>6
    <3> QED
      BY <1>8, <2>1, <3>1, <3>2
  <2> QED
    BY <2>2, <2>4, <2>5, <2>6
(* No answer came, or the request did not arrive. *)
<1>13. ASSUME NEW base, base = IF Attempt(r) = 1 THEN Repeats(r) ELSE [p EXCEPT !.at = "done", !.answer = "failed"],
              p.at \in {"first", "second"}
       PROVE  /\ base \in PythonRequest /\ base.op = p.op /\ base.sent = p.sent /\ base.doubt = p.doubt
              /\ base.job[1] = p.job[1]
              /\ IF p.at = "first" THEN base.at = "second" /\ base.job[2] = "arrived" /\ base.answer = p.answer
                 ELSE base.at = "done" /\ base.job[2] = p.job[2] /\ base.answer = "failed"
  <2>1. CASE p.at = "first"
    BY <1>9, <1>10, <1>13, <2>1
  <2>2. CASE p.at = "second"
    <3>1. base = [p EXCEPT !.at = "done", !.answer = "failed"]
      BY <1>9, <1>13, <2>2
    <3>2. /\ base \in PythonRequest /\ base.at = "done" /\ base.op = p.op /\ base.sent = p.sent
          /\ base.doubt = p.doubt /\ base.answer = "failed" /\ base.job = p.job
      BY <1>11, <3>1
    <3> QED
      BY <2>2, <3>2
  <2> QED
    BY <1>13, <2>1, <2>2
<1> DEFINE base == IF Attempt(r) = 1 THEN Repeats(r) ELSE [p EXCEPT !.at = "done", !.answer = "failed"]
<1>14. CASE TimesOut(r)
  <2>1. /\ p.op = "text" /\ p.at \in {"first", "second"} /\ TypingStays /\ UNCHANGED <<device, inbox>>
        /\ req' = [req EXCEPT ![r] = [base EXCEPT !.doubt = TRUE]]
    BY <1>14 DEF TimesOut, p
  <2>2. /\ base \in PythonRequest /\ base.op = p.op /\ base.sent = p.sent /\ base.doubt = p.doubt
        /\ base.job[1] = p.job[1]
        /\ IF p.at = "first" THEN base.at = "second" /\ base.job[2] = "arrived" /\ base.answer = p.answer
           ELSE base.at = "done" /\ base.job[2] = p.job[2] /\ base.answer = "failed"
    BY <1>13, <2>1
  <2> HIDE DEF base
  <2> DEFINE q == [base EXCEPT !.doubt = TRUE]
  <2>3. /\ q \in PythonRequest /\ q.op = base.op /\ q.sent = base.sent /\ q.doubt /\ q.at = base.at
        /\ q.job = base.job /\ q.answer = base.answer
    BY <2>2 DEF PythonRequest
  <2> HIDE DEF q
  <2> QED
    BY <1>8, <2>1, <2>2, <2>3 DEF q
<1>15. CASE NeverArrives(r)
  <2> DEFINE i == Attempt(r)
  <2>1. /\ p.op = "text" /\ p.at \in {"first", "second"} /\ TypingStays /\ UNCHANGED <<device, inbox>>
        /\ p.job[i] = "arrived" /\ req' = [req EXCEPT ![r] = [base EXCEPT !.job[i] = "no"]]
    BY <1>15 DEF NeverArrives, p
  <2>2. /\ base \in PythonRequest /\ base.op = p.op /\ base.sent = p.sent /\ base.doubt = p.doubt
        /\ base.job[1] = p.job[1]
        /\ IF p.at = "first" THEN base.at = "second" /\ base.job[2] = "arrived" /\ base.answer = p.answer
           ELSE base.at = "done" /\ base.job[2] = p.job[2] /\ base.answer = "failed"
    BY <1>13, <2>1
  <2>3. i \in 1..2 /\ (i = 1 <=> p.at = "first")
    BY <1>9, <2>1
  <2> HIDE DEF base, i
  <2> DEFINE q == [base EXCEPT !.job = [base.job EXCEPT ![i] = "no"]]
  <2>4. base.job \in [1..2 -> JobAt] /\ [base.job EXCEPT ![i] = "no"] \in [1..2 -> JobAt]
    BY <2>2, <2>3 DEF PythonRequest, JobAt
  <2>5. /\ q \in PythonRequest /\ q.op = base.op /\ q.sent = base.sent /\ q.doubt = base.doubt /\ q.at = base.at
        /\ q.answer = base.answer /\ q.job[i] = "no" /\ \A j \in 1..2 \ {i} : q.job[j] = base.job[j]
    BY <2>2, <2>3, <2>4 DEF PythonRequest
  <2>6. req' = [req EXCEPT ![r] = q]
    BY <2>1
  <2> HIDE DEF q
  <2>7. CASE p.at = "first"
    <3>1. q.job[1] = "no" /\ p.job[1] = "arrived" /\ q.job[2] = "arrived" /\ q.at = "second" /\ q.answer = p.answer
      BY <2>1, <2>2, <2>3, <2>5, <2>7
    <3>2. q \in PythonRequest /\ q.op = p.op /\ q.sent = p.sent /\ q.doubt = p.doubt
      BY <2>2, <2>5
    <3> QED
      BY <1>8, <2>1, <2>6, <2>7, <3>1, <3>2
  <2>8. CASE p.at = "second"
    <3>1. q.job[1] = p.job[1] /\ p.job[2] = "arrived" /\ q.job[2] = "no" /\ q.at = "done" /\ q.answer = "failed"
      BY <2>1, <2>2, <2>3, <2>5, <2>8
    <3>2. q \in PythonRequest /\ q.op = p.op /\ q.sent = p.sent /\ q.doubt = p.doubt
      BY <2>2, <2>5
    <3> QED
      BY <1>8, <2>1, <2>6, <2>8, <3>1, <3>2
  <2> QED
    BY <2>1, <2>7, <2>8
(* A card, a file, the indicator. *)
<1>16. ASSUME NEW answer \in {"ok", "failed"}, p.op # "text", p.at \in {"first", "starting"}, Done(r, answer),
              UNCHANGED <<device, inbox>>, TypingStays \/ Stops \/ (p.at = "starting" /\ StoresNew)
       PROVE  ChatInv'
  <2> DEFINE q == [p EXCEPT !.at = "done", !.answer = answer]
  <2>1. /\ q \in PythonRequest /\ q.at = "done" /\ q.op = p.op /\ q.sent = p.sent
        /\ q.doubt = p.doubt /\ q.answer = answer /\ q.job = p.job
    BY <1>11
  <2>2. req' = [req EXCEPT ![r] = q]
    BY <1>1, <1>16 DEF Done, p
  <2> HIDE DEF q
  <2>3. Counted(q)
    BY <1>1, <1>3, <1>16, <2>1 DEF Counted, Clear
  <2> QED
    BY <1>2, <1>16, <2>1, <2>2, <2>3
<1>17. CASE Contact(r) \/ Media(r) \/ Stop(r)
  BY <1>16, <1>17 DEF Contact, Media, Stop, Serves, p
<1>18. CASE Start(r)
  <2>1. p.op = "start" /\ p.at = "first" /\ UNCHANGED <<device, inbox>>
    BY <1>18 DEF Start, Serves, p
  <2>2. CASE Done(r, "failed") /\ TypingStays
    BY <1>16, <2>1, <2>2
  <2>3. CASE req' = [req EXCEPT ![r].at = "starting"] /\ TakesOld
    <3> DEFINE q == [p EXCEPT !.at = "starting"]
    <3>1. /\ q \in PythonRequest /\ q.at = "starting" /\ q.op = p.op /\ q.sent = p.sent
          /\ q.doubt = p.doubt /\ q.answer = p.answer /\ q.job = p.job
      BY <1>1 DEF PythonRequest, RequestAt
    <3>2. req' = [req EXCEPT ![r] = q]
      BY <1>1, <2>3 DEF p
    <3> HIDE DEF q
    <3>3. Counted(q)
      BY <1>1, <1>3, <2>1, <3>1 DEF Counted, Clear
    <3> QED
      BY <1>2, <2>1, <2>3, <3>1, <3>2, <3>3
  <2> QED
    BY <1>18, <2>2, <2>3 DEF Start
<1>19. CASE StartsOn(r)
  <2>1. p.at = "starting" /\ StoresNew /\ Done(r, "ok") /\ UNCHANGED <<device, inbox>>
    BY <1>19 DEF StartsOn, p
  <2>2. p.op # "text"
    BY <1>1, <2>1 DEF Counted
  <2> QED
    BY <1>16, <2>1, <2>2
<1> QED
  BY <1>4, <1>6, <1>7, <1>12, <1>14, <1>15, <1>17, <1>18, <1>19

LEMMA ChatStep == ASSUME ChatInv, [ChatNext]_chatVars PROVE ChatInv'
<1>1. ASSUME NEW m \in Messages, (\E k \in Kinds : Arrives(m, k)) \/ Resolves(m) \/ Types(m) \/ TypesOn(m) \/ Forwards(m)
      PROVE  ChatInv'
  BY <1>1, MessageStep
<1>2. CASE Changes
  <2>1. /\ UNCHANGED <<inbox, req, running, ticker, ticked, overlapped>> /\ device'.here \in BOOLEAN
    <3>1. device' \in Entry /\ UNCHANGED <<inbox, req, running, ticker, ticked, overlapped>>
      BY <1>2 DEF Changes
    <3>2. \A d \in [here : {TRUE}, connected : BOOLEAN, session : BOOLEAN] : d.here = TRUE
      OBVIOUS
    <3>3. \A d \in {[here |-> FALSE, connected |-> FALSE, session |-> FALSE]} : d.here = FALSE
      OBVIOUS
    <3> QED
      BY <3>1, <3>2, <3>3 DEF Entry
  <2>2. ChatType' /\ PhonesArePhones' /\ TypingIsHeld'
    BY <2>1 DEF ChatInv, ChatType, PhonesArePhones, TypingIsHeld
  <2>3. OneStart' /\ \A r \in Requests : Counted(req'[r])
    BY <2>1 DEF ChatInv, OneStart, Starts, Begins
  <2> QED
    BY <2>2, <2>3 DEF ChatInv
<1>3. CASE UNCHANGED chatVars
  <2>1. UNCHANGED <<inbox, req, running, ticker, ticked, overlapped, device>>
    BY <1>3 DEF chatVars
  <2>2. ChatType' /\ PhonesArePhones' /\ TypingIsHeld'
    BY <2>1 DEF ChatInv, ChatType, PhonesArePhones, TypingIsHeld
  <2>3. OneStart' /\ \A r \in Requests : Counted(req'[r])
    BY <2>1 DEF ChatInv, OneStart, Starts, Begins
  <2> QED
    BY <2>2, <2>3 DEF ChatInv
<1> QED
  BY <1>1, <1>2, <1>3, RequestStep DEF ChatNext

(* The indicator of a chat is held by the table unless two starts have met, *)
(* a text reported as sent was sent, twice only in doubt, and a hidden id   *)
(* passes for a number only when the device has gone.                       *)
THEOREM ChatStaysHonest == ChatSpec => []ChatIsHonest
<1>1. ASSUME ChatInv PROVE SentAsTold
  <2> SUFFICES ASSUME NEW r \in Requests
               PROVE  /\ req[r].op = "text" /\ req[r].answer = "ok" => req[r].sent >= 1
                      /\ req[r].sent > 1 => req[r].doubt
    BY DEF SentAsTold
  <2>1. Counted(req[r]) /\ req[r].sent \in Nat
    BY <1>1 DEF ChatInv, ChatType, PythonRequest
  <2> QED
    BY <2>1 DEF Counted, Clear
<1>2. ChatInv => ChatIsHonest
  BY <1>1 DEF ChatInv, ChatIsHonest
<1> QED
  BY ChatStarts, ChatStep, <1>2, PTL DEF ChatSpec

-----------------------------------------------------------------------------
(***************************************************************************)
(* The devices.  A client is held while it is in the table, or a creation  *)
(* is about to store it there: what is held was not asked to end, unless a *)
(* creation loaded it as it was being removed.                             *)
(***************************************************************************)
Placed == {"tear", "store", "connect", "wait", "remove"}
ClientRec == [dev : Devices \cup {0}, file : Files \cup {0}, sess : Nat, on : BOOLEAN, auto : BOOLEAN,
              status : {"none", "waiting_qr", "connected", "disconnected"}, qr : BOOLEAN, coded : BOOLEAN,
              news : {"none", "up", "down", "out"}]
CallRec == [at : Placed \cup {"idle", "read", "look", "refresh", "take", "open"}, dev : Devices \cup {0},
            cl : Clients \cup {0}, again : BOOLEAN]
DeviceType ==
    /\ entry \in [Devices -> Clients \cup {0}] /\ client \in [Clients -> ClientRec] /\ made \in 0..MaxClients
    /\ file \in [Devices -> Files \cup {0}] /\ rows \in [Files -> SUBSET Nat]
    /\ calls \in [Callers -> CallRec] /\ paired \in Nat

Held(k) == (\E d \in Devices : entry[d] = k) \/ \E h \in Callers : calls[h].at = "store" /\ calls[h].cl = k
AskedFor == asked \ raced

(* A session is in one file, its clients are of one device over that file,  *)
(* and one that was asked to end is in no file and held by nobody.          *)
SessionsKept ==
    /\ asked \subseteq 1..paired
    /\ \A f \in Files : rows[f] \subseteq 1..paired /\ rows[f] \cap AskedFor = {}
    /\ \A f, g \in Files : f # g => rows[f] \cap rows[g] = {}
    /\ \A k \in Clients : client[k].sess \in 0..paired /\ (Held(k) => client[k].sess \notin AskedFor)
    /\ \A k \in Clients, f \in Files : client[k].sess \in rows[f] => client[k].file = f
    /\ \A k, l \in Clients : client[k].sess = client[l].sess /\ client[k].sess # 0 => client[k].dev = client[l].dev

(* A client belongs to the device that shows it, to the call that uses it   *)
(* and to the file it has open; what is not made yet is nowhere.            *)
WellMade(k) == /\ k.news = "out" => k.sess = 0
               /\ k.on \/ k.sess # 0 \/ k.news # "none" => k.dev # 0
               /\ k.dev # 0 => k.file # 0
WellCalled(p) == /\ p.at # "idle" => p.dev \in Devices
                 /\ p.at \in Placed => p.cl \in Clients /\ client[p.cl].dev = p.dev
ClientsPlaced ==
    /\ \A k \in Clients : WellMade(client[k])
    /\ \A h \in Callers : WellCalled(calls[h])
    /\ \A d \in Devices : entry[d] # 0 => client[entry[d]].dev = d
    /\ \A d, e \in Devices : file[d] = file[e] /\ file[d] # 0 => d = e
    /\ \A d \in Devices, k \in Clients : file[d] = client[k].file /\ file[d] # 0 => client[k].dev = d
    /\ \A k, l \in Clients : client[k].file = client[l].file /\ client[k].file # 0 => client[k].dev = client[l].dev
    /\ \A k \in Clients : k > made => /\ client[k].dev = 0 /\ client[k].file = 0 /\ client[k].sess = 0
                                      /\ rows[k] = {} /\ \A d \in Devices : file[d] # k
    /\ \A k, l \in Clients : l > made => client[k].file # l

DeviceInv == DeviceType /\ SessionsKept /\ ClientsPlaced /\ WantedStaysSaved

LEMMA InvSessionsAsAsked == DeviceInv => SessionsAsAsked
<1> SUFFICES ASSUME DeviceInv PROVE RemovedStaysRemoved
  BY DEF DeviceInv, SessionsAsAsked
<1> SUFFICES ASSUME NEW d \in Devices, entry[d] # 0 PROVE client[entry[d]].sess \notin asked \ raced
  BY DEF RemovedStaysRemoved
<1>1. entry[d] \in Clients /\ Held(entry[d])
  BY DEF DeviceInv, DeviceType, Held
<1> QED
  BY <1>1 DEF DeviceInv, SessionsKept, AskedFor

(***************************************************************************)
(* Almost every step makes nothing new: clients keep their device and file *)
(* and may lose their session, files lose sessions, calls go on with the   *)
(* client they have or take the one in the table.                          *)
(***************************************************************************)
Shrunk(k, l) == /\ l \in ClientRec /\ WellMade(l)
                /\ l.dev = k.dev /\ l.file = k.file /\ l.sess \in {k.sess, 0}
Follows(p, q) ==
    /\ q \in CallRec /\ (q.at # "idle" => q.dev \in Devices)
    /\ q.at \in Placed => \/ p.at \in Placed /\ q.cl = p.cl /\ q.dev = p.dev
                          \/ q.cl = entry[q.dev] /\ q.cl # 0
    /\ q.at = "store" => p.at = "store"
Stored(d, k) == k = entry[d] \/ k = 0 \/ \E h \in Callers : calls[h].at = "store" /\ calls[h].cl = k /\ calls[h].dev = d
Frame ==
    /\ client' \in [Clients -> ClientRec] /\ \A k \in Clients : Shrunk(client[k], client'[k])
    /\ calls' \in [Callers -> CallRec] /\ \A h \in Callers : Follows(calls[h], calls'[h])
    /\ entry' \in [Devices -> Clients \cup {0}] /\ \A d \in Devices : Stored(d, entry'[d])
Ending == asked \cup unlinked \cup strayed \cup torn
Losses ==
    /\ rows' \in [Files -> SUBSET Nat] /\ \A f \in Files : rows'[f] \subseteq rows[f]
    /\ file' \in [Devices -> Files \cup {0}] /\ \A d \in Devices : file'[d] \in {file[d], 0}
    /\ Ending \subseteq Ending'
    /\ \A d \in Devices : file[d] # 0 =>
          \A s \in rows[file[d]] : s \in Ending' \/ (file'[d] = file[d] /\ s \in rows'[file[d]])
    /\ asked' \subseteq 1..paired
    /\ \A s \in AskedFor' : \/ s \in AskedFor
                            \/ /\ \A f \in Files : s \notin rows'[f]
                               /\ \A k \in Clients : Held(k)' => client'[k].sess # s

LEMMA ClientsAreFiles == Clients \subseteq Files
BY FS_CardinalityType, GatewayBounds DEF Clients, Files

LEMMA Fewer ==
  ASSUME DeviceInv, Frame, Losses, UNCHANGED <<made, paired>>
  PROVE  DeviceInv'
<1>1. DeviceType'
  BY DEF DeviceInv, DeviceType, Frame, Losses
<1>2. \A k \in Clients : Held(k)' => Held(k)
  <2> SUFFICES ASSUME NEW k \in Clients, Held(k)' PROVE Held(k)
    OBVIOUS
  <2>1. ASSUME NEW d \in Devices, entry'[d] = k PROVE Held(k)
    <3>1. Stored(d, k) /\ k # 0
      BY <2>1 DEF Frame, Clients
    <3> QED
      BY <3>1 DEF Stored, Held
  <2>2. ASSUME NEW h \in Callers, calls'[h].at = "store", calls'[h].cl = k PROVE Held(k)
    <3>1. calls[h].at = "store"
      BY <2>2 DEF Frame, Follows
    <3>2. calls'[h].cl = calls[h].cl \/ (calls'[h].cl = entry[calls'[h].dev] /\ calls'[h].dev \in Devices)
      BY <2>2 DEF Frame, Follows, Placed
    <3> QED
      BY <2>2, <3>1, <3>2 DEF Held
  <2> QED
    BY <2>1, <2>2 DEF Held
<1>3. SessionsKept'
  <2>1. asked' \subseteq 1..paired' /\ \A f \in Files : rows'[f] \subseteq 1..paired'
    BY DEF DeviceInv, SessionsKept, Losses
  <2>2. ASSUME NEW f \in Files, NEW s \in rows'[f] PROVE s \notin AskedFor'
    BY <2>2 DEF DeviceInv, SessionsKept, Losses
  <2>3. ASSUME NEW k \in Clients PROVE client'[k].sess \in {client[k].sess, 0}
    BY DEF Frame, Shrunk
  <2>4. 0 \notin AskedFor
    BY DEF DeviceInv, SessionsKept, AskedFor
  <2>5. ASSUME NEW k \in Clients, Held(k)' PROVE client'[k].sess \notin AskedFor'
    BY <1>2, <2>3, <2>4, <2>5 DEF DeviceInv, SessionsKept, Losses
  <2>6. ASSUME NEW k \in Clients PROVE client'[k].sess \in 0..paired'
    BY <2>3 DEF DeviceInv, DeviceType, SessionsKept
  <2>7. \A f, g \in Files : f # g => rows'[f] \cap rows'[g] = {}
    BY DEF DeviceInv, SessionsKept, Losses
  <2>8. ASSUME NEW k \in Clients, NEW f \in Files, client'[k].sess \in rows'[f] PROVE client'[k].file = f
    <3>1. client'[k].sess # 0
      BY <2>1, <2>8
    <3> QED
      BY <2>3, <2>8, <3>1 DEF DeviceInv, SessionsKept, Losses, Frame, Shrunk
  <2>9. ASSUME NEW k \in Clients, NEW l \in Clients, client'[k].sess = client'[l].sess, client'[k].sess # 0
        PROVE  client'[k].dev = client'[l].dev
    BY <2>3, <2>9 DEF DeviceInv, SessionsKept, Frame, Shrunk
  <2> QED
    BY <2>1, <2>2, <2>5, <2>6, <2>7, <2>8, <2>9 DEF SessionsKept
<1>4. ClientsPlaced'
  <2>1. \A k \in Clients : WellMade(client'[k]) /\ client'[k].dev = client[k].dev /\ client'[k].file = client[k].file
    BY DEF Frame, Shrunk
  <2>2. ASSUME NEW h \in Callers PROVE WellCalled(calls[h])'
    <3>1. Follows(calls[h], calls'[h]) /\ WellCalled(calls[h])
      BY DEF Frame, DeviceInv, ClientsPlaced
    <3>2. calls'[h].at \in Placed => calls'[h].cl \in Clients /\ client[calls'[h].cl].dev = calls'[h].dev
      <4>1. CASE calls'[h].at \in Placed /\ calls[h].at \in Placed /\ calls'[h].cl = calls[h].cl /\ calls'[h].dev = calls[h].dev
        BY <3>1, <4>1 DEF WellCalled
      <4>2. CASE calls'[h].at \in Placed /\ calls'[h].cl = entry[calls'[h].dev] /\ calls'[h].cl # 0
        <5>1. calls'[h].dev \in Devices
          BY <3>1, <4>2 DEF Follows, Placed
        <5> QED
          BY <4>2, <5>1 DEF DeviceInv, DeviceType, ClientsPlaced
      <4> QED
        BY <3>1, <4>1, <4>2 DEF Follows
    <3> QED
      BY <2>1, <3>1, <3>2 DEF WellCalled, Follows
  <2>3. ASSUME NEW d \in Devices, entry'[d] # 0 PROVE client'[entry'[d]].dev = d
    <3>1. entry'[d] \in Clients /\ Stored(d, entry'[d])
      BY <2>3 DEF Frame
    <3>2. client[entry'[d]].dev = d
      <4>1. CASE entry'[d] = entry[d]
        BY <2>3, <4>1 DEF DeviceInv, ClientsPlaced
      <4>2. ASSUME NEW h \in Callers, calls[h].at = "store", calls[h].cl = entry'[d], calls[h].dev = d
            PROVE  client[entry'[d]].dev = d
        BY <4>2 DEF DeviceInv, ClientsPlaced, WellCalled, Placed
      <4> QED
        BY <2>3, <3>1, <4>1, <4>2 DEF Stored
    <3> QED
      BY <2>1, <3>1, <3>2
  <2>4. \A d \in Devices : file'[d] \in {file[d], 0}
    BY DEF Losses
  <2>5. \A d, e \in Devices : file'[d] = file'[e] /\ file'[d] # 0 => d = e
    BY <2>4 DEF DeviceInv, ClientsPlaced
  <2>6. \A d \in Devices, k \in Clients : file'[d] = client'[k].file /\ file'[d] # 0 => client'[k].dev = d
    BY <2>1, <2>4 DEF DeviceInv, ClientsPlaced
  <2>7. \A k, l \in Clients : client'[k].file = client'[l].file /\ client'[k].file # 0 => client'[k].dev = client'[l].dev
    BY <2>1 DEF DeviceInv, ClientsPlaced
  <2>8. ASSUME NEW k \in Clients, k > made'
        PROVE  /\ client'[k].dev = 0 /\ client'[k].file = 0 /\ client'[k].sess = 0
               /\ rows'[k] = {} /\ \A d \in Devices : file'[d] # k
    <3>1. client[k].dev = 0 /\ client[k].file = 0 /\ client[k].sess = 0 /\ rows[k] = {} /\ k # 0
          /\ \A d \in Devices : file[d] # k
      BY <2>8 DEF DeviceInv, ClientsPlaced, Clients
    <3>2. k \in Files
      BY ClientsAreFiles
    <3> QED
      BY <2>1, <2>4, <3>1, <3>2 DEF Frame, Shrunk, Losses
  <2>9. \A k, l \in Clients : l > made' => client'[k].file # l
    BY <2>1 DEF DeviceInv, ClientsPlaced
  <2> QED
    BY <2>1, <2>2, <2>3, <2>5, <2>6, <2>7, <2>8, <2>9 DEF ClientsPlaced
<1>5. WantedStaysSaved'
  <2> SUFFICES ASSUME NEW s \in (1..paired) \ Ending'
               PROVE  \E d \in Devices : file'[d] # 0 /\ s \in rows'[file'[d]]
    BY DEF WantedStaysSaved, Ending
  <2>1. s \in (1..paired) \ (asked \cup unlinked \cup strayed \cup torn)
    BY DEF Losses, Ending
  <2>2. PICK d \in Devices : file[d] # 0 /\ s \in rows[file[d]]
    BY <2>1 DEF DeviceInv, WantedStaysSaved
  <2> QED
    BY <2>2 DEF Losses
<1> QED
  BY <1>1, <1>3, <1>4, <1>5 DEF DeviceInv

(* The parts of a frame that stay, or change at one client or one call.     *)
LEMMA SameClients ==
  ASSUME DeviceInv, UNCHANGED client
  PROVE  client' \in [Clients -> ClientRec] /\ \A k \in Clients : Shrunk(client[k], client'[k])
BY DEF DeviceInv, DeviceType, ClientsPlaced, Shrunk

LEMMA OneClient ==
  ASSUME DeviceInv, NEW c, NEW l, c \in Clients => Shrunk(client[c], l), client' = [client EXCEPT ![c] = l]
  PROVE  client' \in [Clients -> ClientRec] /\ \A k \in Clients : Shrunk(client[k], client'[k])
<1>1. client \in [Clients -> ClientRec] /\ \A k \in Clients : WellMade(client[k])
  BY DEF DeviceInv, DeviceType, ClientsPlaced
<1>2. \A k \in Clients : Shrunk(client[k], client[k])
  BY <1>1 DEF Shrunk
<1> QED
  BY <1>1, <1>2 DEF Shrunk

LEMMA SameCalls ==
  ASSUME DeviceInv, UNCHANGED calls
  PROVE  calls' \in [Callers -> CallRec] /\ \A h \in Callers : Follows(calls[h], calls'[h])
BY DEF DeviceInv, DeviceType, ClientsPlaced, WellCalled, Follows

LEMMA OneCall ==
  ASSUME DeviceInv, NEW h \in Callers, NEW q, Follows(calls[h], q), calls' = [calls EXCEPT ![h] = q]
  PROVE  calls' \in [Callers -> CallRec] /\ \A g \in Callers : Follows(calls[g], calls'[g])
<1>1. calls \in [Callers -> CallRec] /\ \A g \in Callers : Follows(calls[g], calls[g])
  BY DEF DeviceInv, DeviceType, ClientsPlaced, WellCalled, Follows
<1> QED
  BY <1>1 DEF Follows

LEMMA IdleFollows == \A p : Follows(p, Idle)
BY DEF Follows, Idle, CallRec, Placed

LEMMA GoesOn ==
  ASSUME DeviceInv, NEW h \in Callers, NEW at \in {"idle", "read", "open", "connect", "wait"}, Goes(h, at),
         calls[h].at # "idle", at \in {"connect", "wait"} => calls[h].at \in Placed
  PROVE  calls' \in [Callers -> CallRec] /\ \A g \in Callers : Follows(calls[g], calls'[g])
<1> DEFINE q == IF at = "idle" THEN Idle ELSE [calls[h] EXCEPT !.at = at]
<1>1. calls' = [calls EXCEPT ![h] = q] /\ calls[h] \in CallRec /\ WellCalled(calls[h])
  BY DEF DeviceInv, DeviceType, ClientsPlaced, Goes
<1>2. Follows(calls[h], q)
  <2>1. CASE at = "idle"
    BY <2>1, IdleFollows
  <2>2. CASE at # "idle"
    <3> DEFINE r == [calls[h] EXCEPT !.at = at]
    <3>1. r \in CallRec /\ r.at = at /\ r.dev = calls[h].dev /\ r.cl = calls[h].cl
      BY <1>1 DEF CallRec, Placed
    <3> HIDE DEF r
    <3>2. Follows(calls[h], r)
      BY <1>1, <3>1 DEF Follows, WellCalled, Placed
    <3> QED
      BY <2>2, <3>2 DEF r
  <2> QED
    BY <2>1, <2>2
<1> HIDE DEF q
<1> QED
  BY <1>1, <1>2, OneCall

(* The table stays, or one place in it is emptied.                          *)
LEMMA SameEntry ==
  ASSUME DeviceInv, UNCHANGED entry
  PROVE  entry' \in [Devices -> Clients \cup {0}] /\ \A d \in Devices : Stored(d, entry'[d])
BY DEF DeviceInv, DeviceType, Stored

LEMMA EmptiedEntry ==
  ASSUME DeviceInv, NEW e, entry' = [entry EXCEPT ![e] = 0]
  PROVE  entry' \in [Devices -> Clients \cup {0}] /\ \A d \in Devices : Stored(d, entry'[d])
BY DEF DeviceInv, DeviceType, Stored

(* Nothing is lost by a step that only moves calls and clients.             *)
LEMMA NoLosses ==
  ASSUME DeviceInv, UNCHANGED <<file, rows>>, Told
  PROVE  Losses
BY DEF DeviceInv, DeviceType, SessionsKept, Losses, Ending, Told, AskedFor

LEMMA QuietStep ==
  ASSUME DeviceInv, Frame, UNCHANGED <<made, file, rows, paired>>, Told
  PROVE  DeviceInv'
BY NoLosses, Fewer

(* What a client becomes when it is taken out of the table, or turned off.  *)
LEMMA TakenOut ==
  ASSUME NEW k \in ClientRec, WellMade(k)
  PROVE  Shrunk(k, Unlisted(k)) /\ Shrunk(k, Unlisted(Off(k))) /\ Shrunk(k, [Unlisted(Off(k)) EXCEPT !.sess = 0])
<1> DEFINE l == [k EXCEPT !.on = FALSE, !.auto = FALSE, !.news = "none"]
<1>1. l \in ClientRec /\ l.dev = k.dev /\ l.file = k.file /\ l.sess = k.sess /\ l.on = FALSE /\ l.news = "none"
  BY DEF ClientRec
<1>2. Shrunk(k, l) /\ Shrunk(k, k)
  BY <1>1 DEF Shrunk, WellMade
<1> HIDE DEF l
<1>3. Off(k) \in ClientRec /\ Shrunk(k, Off(k))
  BY <1>2 DEF Off, l, Shrunk
<1>4. ASSUME NEW m \in ClientRec, Shrunk(k, m)
      PROVE  /\ Unlisted(m) \in ClientRec /\ Unlisted(m).dev = m.dev /\ Unlisted(m).file = m.file
             /\ Unlisted(m).sess = m.sess /\ Unlisted(m).news = m.news /\ Unlisted(m).on = m.on
  BY <1>4 DEF Unlisted, ClientRec
<1>5. ASSUME NEW m \in ClientRec, Shrunk(k, m) PROVE Shrunk(k, Unlisted(m))
  BY <1>4, <1>5 DEF Shrunk, WellMade
<1>6. ASSUME NEW m \in ClientRec, Shrunk(k, m) PROVE Shrunk(k, [m EXCEPT !.sess = 0])
  <2> DEFINE n == [m EXCEPT !.sess = 0]
  <2>1. n \in ClientRec /\ n.dev = m.dev /\ n.file = m.file /\ n.sess = 0 /\ n.news = m.news /\ n.on = m.on
    BY DEF ClientRec
  <2> HIDE DEF n
  <2>2. Shrunk(k, n)
    BY <1>6, <2>1 DEF Shrunk, WellMade
  <2> QED
    BY <2>2 DEF n
<1>7. Shrunk(k, Unlisted(k)) /\ Shrunk(k, Unlisted(Off(k)))
  BY <1>2, <1>3, <1>5
<1> QED
  BY <1>6, <1>7 DEF Shrunk

(***************************************************************************)
(* Requests of the Python side, and the steps of a creation that load      *)
(* nothing.                                                                *)
(***************************************************************************)
LEMMA CallBegins ==
  ASSUME DeviceInv, NEW h \in Callers, NEW d \in Devices, NEW at \in {"read", "look", "take"}
  PROVE  Follows(calls[h], [Idle EXCEPT !.at = at, !.dev = d])
<1> DEFINE q == [Idle EXCEPT !.at = at, !.dev = d]
<1>1. q \in CallRec /\ q.at = at /\ q.dev = d
  BY DEF Idle, CallRec, Placed
<1> HIDE DEF q
<1>2. Follows(calls[h], q)
  BY <1>1 DEF Follows, Placed
<1> QED
  BY <1>2 DEF q

LEMMA Asked ==
  ASSUME DeviceInv, NEW h \in Callers, NEW d \in Requested, AsksToCreate(h, d) \/ AsksForQr(h, d) \/ AsksToDelete(h, d)
  PROVE  DeviceInv'
<1>1. d \in Devices
  BY GatewayBounds
<1>2. UNCHANGED <<entry, client, made, file, rows, paired>> /\ Told
  BY DEF AsksToCreate, AsksForQr, AsksToDelete
<1>3. \/ \E at \in {"read", "look", "take"} : calls' = [calls EXCEPT ![h] = [Idle EXCEPT !.at = at, !.dev = d]]
      \/ UNCHANGED calls
  BY DEF AsksToCreate, AsksForQr, AsksToDelete
<1>4. calls' \in [Callers -> CallRec] /\ \A g \in Callers : Follows(calls[g], calls'[g])
  BY Zenon, <1>1, <1>3, CallBegins, OneCall, SameCalls
<1> QED
  BY <1>2, <1>4, SameClients, SameEntry, QuietStep DEF Frame

LEMMA Moves ==
  ASSUME DeviceInv, NEW h \in Callers, LooksAtQr(h) \/ CreateReads(h) \/ Fails(h) \/ CreateReturns(h),
         calls[h].at # "idle"
  PROVE  DeviceInv'
<1> DEFINE p == calls[h]
<1>1. p \in CallRec /\ WellCalled(p) /\ p.dev \in Devices /\ entry[p.dev] \in Clients \cup {0}
  BY DEF DeviceInv, DeviceType, ClientsPlaced, WellCalled
<1>2. UNCHANGED <<entry, client>> /\ Kept /\ Told
  BY DEF LooksAtQr, CreateReads, Fails, CreateReturns
<1>3. \E q : Follows(p, q) /\ calls' = [calls EXCEPT ![h] = q]
  <2>1. CASE LooksAtQr(h)
    <3>1. \E at \in {"read", "refresh"} : \/ calls' = [calls EXCEPT ![h] = Idle]
                                          \/ calls' = [calls EXCEPT ![h] = [p EXCEPT !.at = at, !.again = (at = "refresh")]]
      BY <2>1 DEF LooksAtQr
    <3>2. ASSUME NEW at \in {"read", "refresh"} PROVE Follows(p, [p EXCEPT !.at = at, !.again = (at = "refresh")])
      <4> DEFINE q == [p EXCEPT !.at = at, !.again = (at = "refresh")]
      <4>1. q \in CallRec /\ q.at = at /\ q.dev = p.dev
        BY <1>1 DEF CallRec, Placed
      <4> HIDE DEF q
      <4>2. Follows(p, q)
        BY <1>1, <4>1 DEF Follows, Placed
      <4> QED
        BY <4>2 DEF q
    <3> QED
      BY <3>1, <3>2, IdleFollows
  <2>2. CASE CreateReads(h)
    <3> DEFINE q(at, c) == [p EXCEPT !.at = at, !.cl = c]
    <3>1. \/ calls' = [calls EXCEPT ![h] = Idle]
          \/ calls' = [calls EXCEPT ![h] = q("open", 0)]
          \/ entry[p.dev] # 0 /\ calls' = [calls EXCEPT ![h] = q("tear", entry[p.dev])]
      BY <2>2 DEF CreateReads
    <3>2. ASSUME NEW at \in {"open", "tear"}, NEW c \in Clients \cup {0}
          PROVE  q(at, c) \in CallRec /\ q(at, c).at = at /\ q(at, c).dev = p.dev /\ q(at, c).cl = c
      BY <1>1 DEF CallRec, Placed
    <3> HIDE DEF q
    <3>3. Follows(p, q("open", 0))
      BY <1>1, <3>2 DEF Follows, Placed
    <3>4. entry[p.dev] # 0 => Follows(p, q("tear", entry[p.dev]))
      BY SMTT(30), <1>1, <3>2 DEF Follows, Placed
    <3> QED
      BY <3>1, <3>3, <3>4, IdleFollows
  <2>3. CASE Fails(h)
    <3>1. \/ calls' = [calls EXCEPT ![h] = Idle]
          \/ calls' = [calls EXCEPT ![h] = [Idle EXCEPT !.at = "read", !.dev = p.dev]]
      BY <2>3 DEF Fails
    <3> QED
      BY Zenon, <1>1, <3>1, IdleFollows, CallBegins
  <2>4. CASE CreateReturns(h)
    BY <2>4, IdleFollows DEF CreateReturns, Goes
  <2> QED
    BY <2>1, <2>2, <2>3, <2>4
<1>4. calls' \in [Callers -> CallRec] /\ \A g \in Callers : Follows(calls[g], calls'[g])
  BY <1>3, OneCall
<1> QED
  BY <1>2, <1>4, SameClients, SameEntry, QuietStep DEF Frame, Kept

LEMMA TearsDown == ASSUME DeviceInv, NEW h \in Callers, CreateTearsDown(h) PROVE DeviceInv'
<1> DEFINE c == calls[h].cl
<1>1. c \in Clients /\ client[c] \in ClientRec /\ WellMade(client[c])
  BY DEF DeviceInv, DeviceType, ClientsPlaced, WellCalled, CreateTearsDown, Placed
<1>2. client' \in [Clients -> ClientRec] /\ \A k \in Clients : Shrunk(client[k], client'[k])
  BY <1>1, TakenOut, OneClient DEF CreateTearsDown
<1>3. calls' \in [Callers -> CallRec] /\ \A g \in Callers : Follows(calls[g], calls'[g])
  BY GoesOn DEF CreateTearsDown
<1>4. entry' \in [Devices -> Clients \cup {0}] /\ \A d \in Devices : Stored(d, entry'[d])
  BY EmptiedEntry DEF CreateTearsDown
<1> QED
  BY <1>2, <1>3, <1>4, QuietStep DEF Frame, CreateTearsDown, Kept

LEMMA Stores == ASSUME DeviceInv, NEW h \in Callers, CreateStores(h) PROVE DeviceInv'
<1> DEFINE d == calls[h].dev
           e == entry[d]
<1>1. d \in Devices /\ calls[h].cl \in Clients /\ e \in Clients \cup {0} /\ calls[h].at = "store"
  BY DEF DeviceInv, DeviceType, ClientsPlaced, WellCalled, CreateStores, Placed
<1>2. client' \in [Clients -> ClientRec] /\ \A k \in Clients : Shrunk(client[k], client'[k])
  <2>1. CASE e = 0
    BY <2>1, SameClients DEF CreateStores
  <2>2. CASE e # 0
    <3>1. e \in Clients /\ client[e] \in ClientRec /\ WellMade(client[e])
      BY <1>1, <2>2 DEF DeviceInv, DeviceType, ClientsPlaced
    <3>2. client' = [client EXCEPT ![e] = Unlisted(client[e])]
      BY <2>2 DEF CreateStores
    <3> QED
      BY <3>1, <3>2, TakenOut, OneClient
  <2> QED
    BY <2>1, <2>2
<1>3. calls' \in [Callers -> CallRec] /\ \A g \in Callers : Follows(calls[g], calls'[g])
  BY <1>1, GoesOn DEF CreateStores, Placed
<1>4. entry' \in [Devices -> Clients \cup {0}] /\ \A x \in Devices : Stored(x, entry'[x])
  BY <1>1 DEF CreateStores, Stored, DeviceInv, DeviceType
<1> QED
  BY <1>2, <1>3, <1>4, QuietStep DEF Frame, CreateStores, Kept

LEMMA Connects == ASSUME DeviceInv, NEW h \in Callers, CreateConnects(h) PROVE DeviceInv'
<1> DEFINE c == calls[h].cl
           k == client[c]
<1>1. /\ c \in Clients /\ k \in ClientRec /\ WellMade(k) /\ k.dev \in Devices /\ k.dev # 0
      /\ calls[h].at = "connect"
  BY GatewayBounds DEF DeviceInv, DeviceType, ClientsPlaced, WellCalled, CreateConnects, Placed
<1>2. calls' \in [Callers -> CallRec] /\ \A g \in Callers : Follows(calls[g], calls'[g])
  BY <1>1, GoesOn DEF CreateConnects, Placed
<1>3. ASSUME NEW status \in {"none", "waiting_qr", "connected", "disconnected"}
      PROVE  Shrunk(k, [k EXCEPT !.on = TRUE, !.auto = TRUE, !.status = status])
  <2> DEFINE l == [k EXCEPT !.on = TRUE, !.auto = TRUE, !.status = status]
  <2>1. l \in ClientRec /\ l.dev = k.dev /\ l.file = k.file /\ l.sess = k.sess /\ l.news = k.news
    BY <1>1 DEF ClientRec
  <2> HIDE DEF l
  <2>2. Shrunk(k, l)
    BY <1>1, <2>1 DEF Shrunk, WellMade
  <2> QED
    BY <2>2 DEF l
<1>4. client' \in [Clients -> ClientRec] /\ \A x \in Clients : Shrunk(client[x], client'[x])
  <2>1. k.status \in {"none", "waiting_qr", "connected", "disconnected"}
    BY <1>1 DEF ClientRec
  <2>2. \/ UNCHANGED client
        \/ \E status \in {"none", "waiting_qr", "connected", "disconnected"} :
             client' = [client EXCEPT ![c] = [k EXCEPT !.on = TRUE, !.auto = TRUE, !.status = status]]
    <3>1. CASE client' = [client EXCEPT ![c].on = TRUE, ![c].auto = TRUE]
      <4>1. client' = [client EXCEPT ![c] = [k EXCEPT !.on = TRUE, !.auto = TRUE, !.status = k.status]]
        BY <1>1, <3>1 DEF DeviceInv, DeviceType, ClientRec
      <4> QED
        BY <2>1, <4>1
    <3>2. CASE client' = [client EXCEPT ![c].on = TRUE, ![c].auto = TRUE,
                                        ![c].status = IF entry[client[c].dev] = c THEN "connected" ELSE @]
      <4> DEFINE status == IF entry[client[c].dev] = c THEN "connected" ELSE k.status
      <4>1. client' = [client EXCEPT ![c] = [k EXCEPT !.on = TRUE, !.auto = TRUE, !.status = status]]
        BY <1>1, <3>2 DEF DeviceInv, DeviceType
      <4> QED
        BY <2>1, <4>1
    <3> QED
      BY <3>1, <3>2 DEF CreateConnects
  <2> QED
    BY <1>3, <2>2, OneClient, SameClients
<1> QED
  BY <1>2, <1>4, SameEntry, QuietStep DEF Frame, CreateConnects, Kept

LEMMA Takes == ASSUME DeviceInv, NEW h \in Callers, DeleteTakes(h) PROVE DeviceInv'
<1> DEFINE p == calls[h]
           e == entry[p.dev]
           q == [p EXCEPT !.at = "remove", !.cl = e]
<1>1. p \in CallRec /\ p.dev \in Devices /\ e \in Clients \cup {0}
  BY DEF DeviceInv, DeviceType, ClientsPlaced, WellCalled, DeleteTakes
<1>2. entry' \in [Devices -> Clients \cup {0}] /\ \A d \in Devices : Stored(d, entry'[d])
  BY EmptiedEntry DEF DeleteTakes
<1>3. CASE e = 0
  <2>1. calls' = [calls EXCEPT ![h] = Idle] /\ UNCHANGED client
    BY <1>3 DEF DeleteTakes
  <2>2. calls' \in [Callers -> CallRec] /\ \A g \in Callers : Follows(calls[g], calls'[g])
    BY <2>1, IdleFollows, OneCall
  <2> QED
    BY <1>2, <2>1, <2>2, SameClients, QuietStep DEF Frame, DeleteTakes, Kept
<1>4. CASE e # 0
  <2>1. calls' = [calls EXCEPT ![h] = q] /\ client' = [client EXCEPT ![e] = Unlisted(client[e])]
    BY <1>4 DEF DeleteTakes
  <2>2. q \in CallRec /\ q.at = "remove" /\ q.dev = p.dev /\ q.cl = e
    BY <1>1 DEF CallRec, Placed
  <2> HIDE DEF q
  <2>3. Follows(p, q)
    BY <1>1, <1>4, <2>2 DEF Follows
  <2>4. calls' \in [Callers -> CallRec] /\ \A g \in Callers : Follows(calls[g], calls'[g])
    BY <2>1, <2>3, OneCall
  <2>5. client[e] \in ClientRec /\ WellMade(client[e])
    BY <1>1, <1>4 DEF DeviceInv, DeviceType, ClientsPlaced
  <2>6. client' \in [Clients -> ClientRec] /\ \A k \in Clients : Shrunk(client[k], client'[k])
    BY <2>1, <2>5, TakenOut, OneClient
  <2> QED
    BY <1>2, <2>4, <2>6, QuietStep DEF Frame, DeleteTakes, Kept
<1> QED
  BY <1>3, <1>4

(***************************************************************************)
(* A session is removed: it leaves its file and its client; whoever else   *)
(* holds it is of the same device, and then it counts as raced.            *)
(***************************************************************************)
LEMMA Removes ==
  ASSUME DeviceInv, NEW d \in Devices, NEW c \in Clients, client[c].dev = d, client[c].sess # 0,
         client'[c].sess = 0, \A k \in Clients : Shrunk(client[k], client'[k]),
         rows' = Without(client[c].file, client[c].sess),
         asked' = asked \cup {client[c].sess},
         raced' = raced \cup (IF HeldElsewhere(d, c, client[c].sess) THEN {client[c].sess} ELSE {}),
         entry'[d] \in {0, entry[d]}, \A e \in Devices : e # d => entry'[e] = entry[e],
         \A h \in Callers : Follows(calls[h], calls'[h])
  PROVE  /\ rows' \in [Files -> SUBSET Nat] /\ \A f \in Files : rows'[f] \subseteq rows[f]
         /\ asked' \subseteq 1..paired
         /\ \A f \in Files : \A s \in rows[f] : s = client[c].sess \/ s \in rows'[f]
         /\ \A s \in AskedFor' : \/ s \in AskedFor
                                 \/ /\ \A f \in Files : s \notin rows'[f]
                                    /\ \A k \in Clients : Held(k)' => client'[k].sess # s
<1> DEFINE z == client[c].sess
<1>1. rows \in [Files -> SUBSET Nat] /\ z \in 1..paired
  BY DEF DeviceInv, DeviceType, SessionsKept
<1>2. rows' \in [Files -> SUBSET Nat] /\ \A f \in Files : rows'[f] \subseteq rows[f]
  BY <1>1 DEF Without
<1>3. asked' \subseteq 1..paired
  BY <1>1 DEF DeviceInv, SessionsKept
<1>4. \A f \in Files : \A s \in rows[f] : s = z \/ s \in rows'[f]
  BY <1>1 DEF Without
<1>5. \A f \in Files : z \notin rows'[f]
  BY <1>1 DEF Without, DeviceInv, SessionsKept
<1>6. ASSUME ~HeldElsewhere(d, c, z), NEW k \in Clients, Held(k)', client'[k].sess = z PROVE FALSE
  <2>1. k # c /\ client[k].sess = z /\ client[k].dev = d
    BY <1>6 DEF Shrunk, DeviceInv, SessionsKept
  <2>2. k # entry[d] /\ \A h \in Callers : ~(calls[h].at = "store" /\ calls[h].cl = k)
    BY <1>6, <2>1 DEF HeldElsewhere
  <2>3. ASSUME NEW h \in Callers, calls'[h].at = "store", calls'[h].cl = k PROVE FALSE
    <3>1. calls[h].at = "store" /\ calls'[h].dev \in Devices
      BY <2>3 DEF Follows
    <3>2. calls'[h].cl = entry[calls'[h].dev]
      BY <2>2, <2>3, <3>1 DEF Follows, Placed
    <3>3. calls'[h].dev = d
      BY <2>1, <2>3, <3>1, <3>2 DEF DeviceInv, ClientsPlaced, Clients
    <3> QED
      BY <2>2, <2>3, <3>2, <3>3
  <2>4. ASSUME NEW e \in Devices, entry'[e] = k PROVE FALSE
    <3>1. e # d
      BY <2>2, <2>4 DEF Clients
    <3>2. entry[e] = k
      BY <2>4, <3>1
    <3> QED
      BY <2>1, <3>1, <3>2 DEF DeviceInv, ClientsPlaced, Clients
  <2> QED
    BY <1>6, <2>3, <2>4 DEF Held
<1>7. ASSUME NEW s \in AskedFor', s \notin AskedFor
      PROVE  (\A f \in Files : s \notin rows'[f]) /\ \A k \in Clients : Held(k)' => client'[k].sess # s
  <2>1. s = z /\ ~HeldElsewhere(d, c, z)
    BY <1>7 DEF AskedFor
  <2> QED
    BY <1>5, <1>6, <2>1
<1> QED
  BY <1>2, <1>3, <1>4, <1>7

LEMMA RefreshStep == ASSUME DeviceInv, NEW h \in Callers, Refreshes(h) PROVE DeviceInv'
<1> DEFINE d == calls[h].dev
           c == entry[d]
           s == IF c = 0 THEN 0 ELSE client[c].sess
<1>1. d \in Devices /\ c \in Clients \cup {0} /\ calls[h].at = "refresh"
  BY DEF DeviceInv, DeviceType, ClientsPlaced, WellCalled, Refreshes
<1>2. calls' \in [Callers -> CallRec] /\ \A g \in Callers : Follows(calls[g], calls'[g])
  BY <1>1, GoesOn DEF Refreshes
<1>3. entry' \in [Devices -> Clients \cup {0}] /\ \A x \in Devices : Stored(x, entry'[x])
  BY EmptiedEntry DEF Refreshes
<1>4. UNCHANGED <<made, paired, file, unlinked, strayed, torn>>
  BY DEF Refreshes
<1>5. client' \in [Clients -> ClientRec] /\ \A k \in Clients : Shrunk(client[k], client'[k])
  <2>1. CASE c = 0
    BY <2>1, SameClients DEF Refreshes
  <2>2. CASE c # 0
    <3>1. c \in Clients /\ client[c] \in ClientRec /\ WellMade(client[c])
      BY <1>1, <2>2 DEF DeviceInv, DeviceType, ClientsPlaced
    <3>2. client' = [client EXCEPT ![c] = [Unlisted(Off(client[c])) EXCEPT !.sess = 0]]
      BY <2>2 DEF Refreshes
    <3> QED
      BY <3>1, <3>2, TakenOut, OneClient
  <2> QED
    BY <2>1, <2>2
<1>6. Frame
  BY <1>2, <1>3, <1>5 DEF Frame
<1>7. CASE s = 0
  <2>1. asked' = asked /\ raced' = raced /\ rows' = rows
    BY <1>7 DEF Refreshes, Ended
  <2> QED
    BY <1>4, <1>6, <2>1, NoLosses, Fewer DEF Told
<1>8. CASE s # 0
  <2>1. c \in Clients /\ client[c].dev = d /\ client[c].sess = s
    BY <1>1, <1>8 DEF DeviceInv, ClientsPlaced
  <2>2. client'[c].sess = 0
    <3>1. client' = [client EXCEPT ![c] = [Unlisted(Off(client[c])) EXCEPT !.sess = 0]]
      BY Zenon, <1>8, <2>1 DEF Refreshes, Clients
    <3>2. client \in [Clients -> ClientRec]
      BY DEF DeviceInv, DeviceType
    <3> QED
      BY <2>1, <3>1, <3>2
  <2>3. /\ rows' = Without(client[c].file, client[c].sess) /\ asked' = asked \cup {client[c].sess}
        /\ raced' = raced \cup (IF HeldElsewhere(d, c, client[c].sess) THEN {client[c].sess} ELSE {})
    BY Zenon, <1>8, <2>1 DEF Refreshes, Ended, Clients
  <2>4. entry'[d] = 0 /\ \A e \in Devices : e # d => entry'[e] = entry[e]
    <3>1. entry' = [entry EXCEPT ![d] = 0]
      BY DEF Refreshes
    <3>2. entry \in [Devices -> Clients \cup {0}]
      BY DEF DeviceInv, DeviceType
    <3> QED
      BY <1>1, <3>1, <3>2
  <2>5. /\ rows' \in [Files -> SUBSET Nat] /\ \A f \in Files : rows'[f] \subseteq rows[f]
        /\ asked' \subseteq 1..paired
        /\ \A f \in Files : \A x \in rows[f] : x = client[c].sess \/ x \in rows'[f]
        /\ \A x \in AskedFor' : \/ x \in AskedFor
                                \/ /\ \A f \in Files : x \notin rows'[f]
                                   /\ \A k \in Clients : Held(k)' => client'[k].sess # x
    <3>1. client[c].sess # 0 /\ \A k \in Clients : Shrunk(client[k], client'[k])
      BY <1>5, <1>8, <2>1
    <3>2. \A g \in Callers : Follows(calls[g], calls'[g])
      BY <1>2
    <3>3. d \in Devices /\ entry'[d] \in {0, entry[d]}
      BY <1>1, <2>4
    <3> QED
      BY Zenon, <2>1, <2>2, <2>3, <2>4, <3>1, <3>2, <3>3, Removes
  <2>6. file' \in [Devices -> Files \cup {0}] /\ \A x \in Devices : file'[x] \in {file[x], 0}
    BY <1>4 DEF DeviceInv, DeviceType
  <2>7. Ending \subseteq Ending' /\ client[c].sess \in Ending'
    BY <1>4, <2>3 DEF Ending
  <2>8. \A x \in Devices : file[x] # 0 =>
          \A y \in rows[file[x]] : y \in Ending' \/ (file'[x] = file[x] /\ y \in rows'[file[x]])
    <3>1. ASSUME NEW x \in Devices, file[x] # 0, NEW y \in rows[file[x]]
          PROVE  y \in Ending' \/ (file'[x] = file[x] /\ y \in rows'[file[x]])
      <4>1. file[x] \in Files /\ file'[x] = file[x]
        BY <1>4, <3>1 DEF DeviceInv, DeviceType
      <4>2. y = client[c].sess \/ y \in rows'[file[x]]
        BY <2>5, <3>1, <4>1
      <4> QED
        BY <2>7, <4>1, <4>2
    <3> QED
      BY <3>1
  <2>9. Losses
    BY <2>5, <2>6, <2>7, <2>8 DEF Losses
  <2> QED
    BY <1>4, <1>6, <2>9, Fewer
<1> QED
  BY <1>7, <1>8

LEMMA DeleteStep == ASSUME DeviceInv, NEW h \in Callers, DeleteRemoves(h) PROVE DeviceInv'
<1> DEFINE d == calls[h].dev
           c == calls[h].cl
           s == client[c].sess
<1>1. /\ d \in Devices /\ c \in Clients /\ client[c].dev = d /\ calls[h].at = "remove"
      /\ client[c] \in ClientRec /\ WellMade(client[c])
  BY DEF DeviceInv, DeviceType, ClientsPlaced, WellCalled, DeleteRemoves, Placed
<1>2. calls' \in [Callers -> CallRec] /\ \A g \in Callers : Follows(calls[g], calls'[g])
  BY <1>1, GoesOn DEF DeleteRemoves
<1>3. entry' \in [Devices -> Clients \cup {0}] /\ \A x \in Devices : Stored(x, entry'[x])
  BY SameEntry DEF DeleteRemoves
<1>4. UNCHANGED <<entry, made, paired, unlinked, strayed>>
  BY DEF DeleteRemoves
<1>5. client' = [client EXCEPT ![c] = [Unlisted(Off(client[c])) EXCEPT !.sess = 0]]
  BY DEF DeleteRemoves
<1>6. client' \in [Clients -> ClientRec] /\ \A k \in Clients : Shrunk(client[k], client'[k])
  BY <1>1, <1>5, TakenOut, OneClient
<1>7. Frame
  BY <1>2, <1>3, <1>6 DEF Frame
<1>8. file' = [file EXCEPT ![d] = 0] /\ torn' = torn \cup (IF file[d] = 0 THEN {} ELSE rows[file[d]] \ {s})
  BY DEF DeleteRemoves
<1>9. /\ file' \in [Devices -> Files \cup {0}] /\ \A x \in Devices : file'[x] \in {file[x], 0}
      /\ \A x \in Devices : file'[x] = file[x] \/ x = d
  BY <1>8 DEF DeviceInv, DeviceType
<1>10. /\ rows' \in [Files -> SUBSET Nat] /\ \A f \in Files : rows'[f] \subseteq rows[f]
       /\ asked' \subseteq 1..paired /\ asked \subseteq asked' /\ (s # 0 => s \in asked')
       /\ \A f \in Files : \A x \in rows[f] : (x = s /\ s # 0) \/ x \in rows'[f]
       /\ \A x \in AskedFor' : \/ x \in AskedFor
                               \/ /\ \A f \in Files : x \notin rows'[f]
                                  /\ \A k \in Clients : Held(k)' => client'[k].sess # x
  <2>1. CASE s = 0
    <3>1. asked' = asked /\ raced' = raced /\ rows' = rows
      BY SMTT(30), <2>1 DEF DeleteRemoves, Ended
    <3> QED
      BY <2>1, <3>1 DEF DeviceInv, DeviceType, SessionsKept, AskedFor
  <2>2. CASE s # 0
    <3>1. client'[c].sess = 0
      <4>1. client \in [Clients -> ClientRec]
        BY DEF DeviceInv, DeviceType
      <4> QED
        BY <1>1, <1>5, <4>1 DEF Unlisted, Off, ClientRec
    <3>2. /\ rows' = Without(client[c].file, client[c].sess) /\ asked' = asked \cup {client[c].sess}
          /\ raced' = raced \cup (IF HeldElsewhere(d, c, client[c].sess) THEN {client[c].sess} ELSE {})
      BY <2>2 DEF DeleteRemoves, Ended
    <3>3. entry'[d] \in {0, entry[d]} /\ \A e \in Devices : e # d => entry'[e] = entry[e]
      BY SMTT(30), <1>4
    <3>4. /\ rows' \in [Files -> SUBSET Nat] /\ \A f \in Files : rows'[f] \subseteq rows[f]
          /\ asked' \subseteq 1..paired
          /\ \A f \in Files : \A x \in rows[f] : x = s \/ x \in rows'[f]
          /\ \A x \in AskedFor' : \/ x \in AskedFor
                                  \/ /\ \A f \in Files : x \notin rows'[f]
                                     /\ \A k \in Clients : Held(k)' => client'[k].sess # x
      <4>1. s # 0 /\ \A k \in Clients : Shrunk(client[k], client'[k])
        BY <1>6, <2>2
      <4>2. d \in Devices /\ c \in Clients /\ client[c].dev = d
        BY <1>1
      <4> QED
        BY <1>2, <3>1, <3>2, <3>3, <4>1, <4>2, Removes
    <3> QED
      BY <2>2, <3>2, <3>4
  <2> QED
    BY <2>1, <2>2
<1>11. Ending \subseteq Ending'
  BY <1>4, <1>8, <1>10 DEF Ending
<1>12. ASSUME NEW x \in Devices, file[x] # 0, NEW z \in rows[file[x]]
       PROVE  z \in Ending' \/ (file'[x] = file[x] /\ z \in rows'[file[x]])
  <2>1. file[x] \in Files
    BY <1>12 DEF DeviceInv, DeviceType
  <2>2. z = s /\ s # 0 => z \in Ending'
    BY <1>10 DEF Ending
  <2>3. x = d /\ z # s => z \in Ending'
    BY <1>8, <1>12 DEF Ending
  <2>4. 0 \notin rows[file[x]]
    BY <2>1 DEF DeviceInv, SessionsKept
  <2> QED
    BY <1>9, <1>10, <1>12, <2>1, <2>2, <2>3, <2>4
<1>13. Losses
  BY <1>9, <1>10, <1>11, <1>12 DEF Losses
<1> QED
  BY <1>4, <1>7, <1>13, Fewer DEF DeleteRemoves

(***************************************************************************)
(* What WhatsApp does to a client, and the handlers.                       *)
(***************************************************************************)
LEMMA ShownCode == ASSUME DeviceInv, NEW c \in Clients, ShowsCode(c) PROVE DeviceInv'
<1> DEFINE e == entry[client[c].dev]
           l(k) == [client[k] EXCEPT !.coded = @ \/ k = c, !.qr = @ \/ k = e]
<1>1. client' = [k \in Clients |-> l(k)]
  BY Zenon DEF ShowsCode
<1>2. ASSUME NEW k \in Clients PROVE Shrunk(client[k], l(k))
  <2>1. client[k] \in ClientRec /\ WellMade(client[k])
    BY DEF DeviceInv, DeviceType, ClientsPlaced
  <2>2. /\ l(k) \in ClientRec /\ l(k).dev = client[k].dev /\ l(k).file = client[k].file /\ l(k).sess = client[k].sess
        /\ l(k).news = client[k].news /\ l(k).on = client[k].on
    BY <2>1 DEF ClientRec
  <2> HIDE DEF l
  <2> QED
    BY <2>1, <2>2 DEF Shrunk, WellMade
<1> HIDE DEF l
<1>3. client' \in [Clients -> ClientRec] /\ \A k \in Clients : Shrunk(client[k], client'[k])
  BY <1>1, <1>2 DEF Shrunk
<1>4. UNCHANGED <<entry, calls, made, file, rows, paired>> /\ Told
  BY Zenon DEF ShowsCode, Quiet, Told
<1> QED
  BY <1>3, <1>4, SameCalls, SameEntry, QuietStep DEF Frame

LEMMA UpOrDown == ASSUME DeviceInv, NEW c \in Clients, ComesUp(c) \/ Drops(c) PROVE DeviceInv'
<1> DEFINE l(on, news) == [client[c] EXCEPT !.on = on, !.news = news]
<1>1. client[c] \in ClientRec /\ WellMade(client[c]) /\ client[c].dev # 0
  BY DEF DeviceInv, DeviceType, ClientsPlaced, WellMade, ComesUp, Drops
<1>2. ASSUME NEW on \in BOOLEAN, NEW news \in {"up", "down"}, on => client[c].sess # 0
      PROVE  Shrunk(client[c], l(on, news))
  <2>1. /\ l(on, news) \in ClientRec /\ l(on, news).dev = client[c].dev /\ l(on, news).file = client[c].file
        /\ l(on, news).sess = client[c].sess /\ l(on, news).on = on /\ l(on, news).news = news
    BY <1>1 DEF ClientRec
  <2> HIDE DEF l
  <2> QED
    BY <1>1, <1>2, <2>1 DEF Shrunk, WellMade
<1>3. \/ client[c].sess # 0 /\ client' = [client EXCEPT ![c] = l(TRUE, "up")]
      \/ client' = [client EXCEPT ![c] = l(FALSE, "down")]
  BY DEF ComesUp, Drops, Happens, DeviceInv, DeviceType
<1> HIDE DEF l
<1>4. client' \in [Clients -> ClientRec] /\ \A k \in Clients : Shrunk(client[k], client'[k])
  BY <1>2, <1>3, OneClient
<1>5. UNCHANGED <<entry, calls, made, file, rows, paired>> /\ Told
  BY DEF ComesUp, Drops, Quiet, Told
<1> QED
  BY <1>4, <1>5, SameCalls, SameEntry, QuietStep DEF Frame

(* A session leaves its file when it ends otherwise than by request.        *)
LEMMA EndsElsewhere ==
  ASSUME DeviceInv, NEW f, NEW s, rows' = Without(f, s) \/ rows' = rows, rows' # rows => s \in Ending',
         Ending \subseteq Ending', UNCHANGED <<file, asked, raced>>
  PROVE  Losses
<1>1. rows' \in [Files -> SUBSET Nat] /\ \A g \in Files : rows'[g] \subseteq rows[g]
  BY DEF DeviceInv, DeviceType, Without
<1>2. ASSUME NEW g \in Files, NEW z \in rows[g] PROVE z \in rows'[g] \/ z \in Ending'
  BY DEF DeviceInv, DeviceType, Without
<1>3. \A d \in Devices : file[d] # 0 => file[d] \in Files
  BY DEF DeviceInv, DeviceType
<1> QED
  BY <1>1, <1>2, <1>3 DEF Losses, DeviceInv, DeviceType, SessionsKept, AskedFor

LEMMA LoggedOut == ASSUME DeviceInv, NEW c \in Clients, LogsOut(c) PROVE DeviceInv'
<1> DEFINE l == [client[c] EXCEPT !.on = FALSE, !.auto = FALSE, !.sess = 0, !.news = "out"]
<1>1. client[c] \in ClientRec /\ WellMade(client[c]) /\ client[c].dev # 0
  BY DEF DeviceInv, DeviceType, ClientsPlaced, WellMade, LogsOut
<1>2. /\ l \in ClientRec /\ l.dev = client[c].dev /\ l.file = client[c].file /\ l.sess = 0
      /\ l.on = FALSE /\ l.news = "out"
  BY <1>1 DEF ClientRec
<1>3. client' = [client EXCEPT ![c] = l]
  BY DEF LogsOut, Happens
<1> HIDE DEF l
<1>4. Shrunk(client[c], l)
  BY <1>1, <1>2 DEF Shrunk, WellMade
<1>5. client' \in [Clients -> ClientRec] /\ \A k \in Clients : Shrunk(client[k], client'[k])
  BY <1>3, <1>4, OneClient
<1>6. /\ UNCHANGED <<entry, calls, made, file, paired, asked, raced, strayed, torn>>
      /\ rows' = Without(client[c].file, client[c].sess) /\ unlinked' = unlinked \cup {client[c].sess}
  BY DEF LogsOut, Quiet
<1>7. Losses
  BY <1>6, EndsElsewhere DEF Ending
<1> QED
  BY <1>5, <1>6, <1>7, SameCalls, SameEntry, Fewer DEF Frame

LEMMA ShrunkTwice ==
  ASSUME NEW told \in [Clients -> ClientRec], \A x \in Clients : Shrunk(client[x], told[x]),
         NEW e, NEW m, Shrunk(client[e], m), client' = [told EXCEPT ![e] = m]
  PROVE  client' \in [Clients -> ClientRec] /\ \A x \in Clients : Shrunk(client[x], client'[x])
<1>1. m \in ClientRec
  BY DEF Shrunk
<1>2. ASSUME NEW x \in Clients PROVE client'[x] = IF x = e THEN m ELSE told[x]
  OBVIOUS
<1>3. ASSUME NEW x \in Clients PROVE Shrunk(client[x], client'[x])
  BY <1>2
<1> QED
  BY <1>1, <1>3

LEMMA HeardNews == ASSUME DeviceInv, NEW c \in Clients, Hears(c) PROVE DeviceInv'
<1> DEFINE e == entry[client[c].dev]
           n == client[c].news
           k == [client[c] EXCEPT !.news = "none"]
           told == [client EXCEPT ![c] = k]
           s == IF e = 0 THEN 0 ELSE told[e].sess
<1>1. client[c] \in ClientRec /\ WellMade(client[c]) /\ client[c].dev \in Devices /\ e \in Clients \cup {0}
  BY DEF DeviceInv, DeviceType, ClientsPlaced, WellMade, Hears, ClientRec
<1>2. k \in ClientRec /\ k.dev = client[c].dev /\ k.file = client[c].file /\ k.sess = client[c].sess /\ k.news = "none"
      /\ k.on = client[c].on
  BY <1>1 DEF ClientRec
<1> HIDE DEF k
<1>3. Shrunk(client[c], k)
  BY <1>1, <1>2 DEF Shrunk, WellMade
<1>4. told \in [Clients -> ClientRec] /\ \A x \in Clients : Shrunk(client[x], told[x])
  <2>1. client \in [Clients -> ClientRec] /\ \A x \in Clients : WellMade(client[x])
    BY DEF DeviceInv, DeviceType, ClientsPlaced
  <2>2. \A x \in Clients : Shrunk(client[x], client[x])
    BY <2>1 DEF Shrunk, ClientRec
  <2>3. k \in ClientRec
    BY <1>2
  <2> QED
    BY <1>3, <2>1, <2>2, <2>3
<1>5. /\ client' = IF e = 0 THEN told
                   ELSE IF n = "up" THEN [told EXCEPT ![e].status = "connected", ![e].qr = FALSE]
                   ELSE IF n = "down" THEN [told EXCEPT ![e].status = "disconnected"]
                   ELSE [told EXCEPT ![e].status = "disconnected", ![e].qr = FALSE, ![e].sess = 0]
      /\ rows' = IF n = "out" /\ s # 0 THEN Without(client[e].file, s) ELSE rows
      /\ strayed' = strayed \cup (IF n = "out" /\ e # c THEN Ended(s) ELSE {})
  BY ZenonT(30) DEF Hears, k
<1>6. UNCHANGED <<entry, calls, made, file, paired, asked, unlinked, torn, raced>>
  BY Zenon DEF Hears, Quiet
<1>7. e # 0 => s = client[e].sess
  BY <1>1, <1>2 DEF DeviceInv, DeviceType
<1> DEFINE l(status, qr, sess) == [told[e] EXCEPT !.status = status, !.qr = qr, !.sess = sess]
<1>8. ASSUME e # 0
      PROVE  client' \in [Clients -> ClientRec] /\ \A x \in Clients : Shrunk(client[x], client'[x])
  <2>1. e \in Clients /\ told[e] \in ClientRec /\ Shrunk(client[e], told[e])
    BY <1>1, <1>4, <1>8
  <2>2. told[e].qr \in BOOLEAN
    BY <2>1 DEF ClientRec
  <2>3. \/ client' = [told EXCEPT ![e] = l("connected", FALSE, told[e].sess)]
        \/ client' = [told EXCEPT ![e] = l("disconnected", told[e].qr, told[e].sess)]
        \/ client' = [told EXCEPT ![e] = l("disconnected", FALSE, 0)]
    <3> HIDE DEF told
    <3>1. CASE n = "up"
      <4>1. client' = [told EXCEPT ![e] = [told[e] EXCEPT !.status = "connected", !.qr = FALSE]]
        BY <1>4, <1>5, <1>8, <2>1, <3>1
      <4>2. [told[e] EXCEPT !.status = "connected", !.qr = FALSE] = l("connected", FALSE, told[e].sess)
        BY <2>1 DEF ClientRec
      <4> QED
        BY ZenonT(40), <4>1, <4>2
    <3>2. CASE n = "down"
      <4>1. client' = [told EXCEPT ![e] = [told[e] EXCEPT !.status = "disconnected"]]
        BY <1>4, <1>5, <1>8, <2>1, <3>2
      <4>2. [told[e] EXCEPT !.status = "disconnected"] = l("disconnected", told[e].qr, told[e].sess)
        BY <2>1 DEF ClientRec
      <4> QED
        BY <4>1, <4>2
    <3>3. CASE n # "up" /\ n # "down"
      BY Zenon, <1>4, <1>5, <1>8, <2>1, <3>3
    <3> QED
      BY <3>1, <3>2, <3>3
  <2>4. ASSUME NEW status \in {"connected", "disconnected"}, NEW qr \in BOOLEAN, NEW sess \in {told[e].sess, 0}
        PROVE  Shrunk(client[e], l(status, qr, sess))
    <3> HIDE DEF told
    <3>1. sess \in Nat
      BY <2>1 DEF ClientRec
    <3>2. /\ l(status, qr, sess) \in ClientRec /\ l(status, qr, sess).dev = told[e].dev
          /\ l(status, qr, sess).file = told[e].file /\ l(status, qr, sess).sess = sess
          /\ l(status, qr, sess).news = told[e].news /\ l(status, qr, sess).on = told[e].on
      BY <2>1, <3>1 DEF ClientRec
    <3> HIDE DEF l
    <3> QED
      BY <2>1, <3>2 DEF Shrunk, WellMade
  <2>5. /\ Shrunk(client[e], l("connected", FALSE, told[e].sess))
        /\ Shrunk(client[e], l("disconnected", told[e].qr, told[e].sess))
        /\ Shrunk(client[e], l("disconnected", FALSE, 0))
    <3> HIDE DEF l, told
    <3> QED
      BY <2>2, <2>4
  <2> HIDE DEF l, told, e
  <2> QED
    BY <1>4, <2>3, <2>5, ShrunkTwice
<1>9. client' \in [Clients -> ClientRec] /\ \A x \in Clients : Shrunk(client[x], client'[x])
  <2>1. e = 0 => client' = told
    BY <1>5
  <2> HIDE DEF told, e
  <2> QED
    BY <1>4, <1>8, <2>1
<1>10. rows' # rows => s \in strayed'
  <2>1. CASE e = c
    <3>1. s = client[c].sess
      BY <1>7, <2>1 DEF Clients
    <3>2. rows' # rows => n = "out" /\ s # 0
      <4> HIDE DEF s, e, n, told
      <4> QED
        BY <1>5
    <3> QED
      BY <1>1, <3>1, <3>2 DEF WellMade
  <2>2. CASE e # c
    <3> HIDE DEF s, e, n, told
    <3> QED
      BY <1>5, <2>2 DEF Ended
  <2> QED
    BY <2>1, <2>2
<1>11. Losses
  <2> HIDE DEF s, e
  <2>1. rows' = Without(client[e].file, s) \/ rows' = rows
    BY <1>5
  <2>2. strayed \subseteq strayed'
    BY <1>5
  <2> QED
    BY <1>6, <1>10, <2>1, <2>2, EndsElsewhere DEF Ending
<1> QED
  BY <1>6, <1>9, <1>11, SameCalls, SameEntry, Fewer DEF Frame

(***************************************************************************)
(* A creation opens the device's file, or a new one.                       *)
(***************************************************************************)
LEMMA Opens == ASSUME DeviceInv, NEW h \in Callers, CreateOpens(h) PROVE DeviceInv'
<1> DEFINE d == calls[h].dev
           c == made + 1
           f == IF file[d] = 0 THEN c ELSE file[d]
           q == [calls[h] EXCEPT !.at = "store", !.cl = c]
<1>1. d \in Devices /\ d # 0 /\ c \in Clients /\ c > made /\ made' = c /\ made' \in 0..MaxClients
  BY GatewayBounds DEF DeviceInv, DeviceType, ClientsPlaced, WellCalled, CreateOpens, Clients
<1>2. c \in Files /\ f \in Files /\ f # 0 /\ Clients \subseteq Files
  BY <1>1, ClientsAreFiles DEF DeviceInv, DeviceType, Files
<1>3. /\ client[c].dev = 0 /\ client[c].file = 0 /\ client[c].sess = 0
      /\ rows[c] = {} /\ (\A x \in Devices : file[x] # c) /\ \A k \in Clients : client[k].file # c
  BY <1>1 DEF DeviceInv, ClientsPlaced
<1>4. PICK s : (s = 0 \/ s \in rows[f]) /\ client' = [client EXCEPT ![c] = Made(d, f, s)]
  BY DEF CreateOpens
<1>5. s \in rows[f] => s \in 1..paired /\ s \notin AskedFor /\ file[d] = f
  BY <1>2, <1>3 DEF DeviceInv, SessionsKept
<1>6. paired \in Nat /\ 0 \notin AskedFor /\ \A g \in Files : 0 \notin rows[g]
  BY DEF DeviceInv, DeviceType, SessionsKept, AskedFor
<1> DEFINE m == Made(d, f, s)
<1>7. m \in ClientRec /\ WellMade(m) /\ m.dev = d /\ m.file = f /\ m.sess = s
  <2>1. s \in Nat
    BY <1>4, <1>5, <1>6
  <2> HIDE DEF d, f
  <2> QED
    BY <1>1, <1>2, <2>1 DEF Made, NoClient, ClientRec, WellMade
<1> HIDE DEF m
<1>8. /\ client' \in [Clients -> ClientRec] /\ client'[c] = m
      /\ \A k \in Clients : k # c => client'[k] = client[k]
  BY <1>1, <1>4, <1>7 DEF DeviceInv, DeviceType, m
<1>9. q \in CallRec /\ q.at = "store" /\ q.cl = c /\ q.dev = d
  BY <1>1 DEF DeviceInv, DeviceType, CallRec, Placed
<1>10. calls' = [calls EXCEPT ![h] = q]
  BY DEF CreateOpens
<1> HIDE DEF q
<1>11. calls' \in [Callers -> CallRec] /\ calls'[h] = q /\ \A g \in Callers : g # h => calls'[g] = calls[g]
  BY <1>9, <1>10 DEF DeviceInv, DeviceType
<1>12. file' \in [Devices -> Files \cup {0}] /\ file'[d] = f /\ \A x \in Devices : x # d => file'[x] = file[x]
  BY <1>1, <1>2 DEF CreateOpens, DeviceInv, DeviceType
<1>13. UNCHANGED <<entry, rows, paired, asked, unlinked, strayed, torn, raced>>
  BY DEF CreateOpens, Told
<1>14. f = c \/ (f = file[d] /\ file[d] # 0)
  OBVIOUS
<1> HIDE DEF c, f, d
<1>15. DeviceType'
  BY <1>1, <1>8, <1>11, <1>12, <1>13 DEF DeviceInv, DeviceType
<1>16. SessionsKept'
  <2>1. \A k \in Clients : Held(k)' => k = c \/ Held(k)
    BY <1>9, <1>11, <1>13 DEF Held
  <2>2. \A k \in Clients : client'[k].sess \in 0..paired' /\ (Held(k)' => client'[k].sess \notin AskedFor')
    BY <1>4, <1>5, <1>6, <1>7, <1>8, <1>13, <2>1 DEF DeviceInv, SessionsKept, AskedFor
  <2>3. \A k \in Clients, g \in Files : client'[k].sess \in rows'[g] => client'[k].file = g
    BY <1>2, <1>4, <1>6, <1>7, <1>8, <1>13 DEF DeviceInv, SessionsKept
  <2>4. ASSUME NEW k \in Clients, k # c, client[k].sess = s, s # 0 PROVE client[k].dev = d
    <3>1. s \in rows[f] /\ file[d] = f /\ client[k].file = f
      BY <1>2, <1>4, <1>5, <2>4 DEF DeviceInv, SessionsKept
    <3> QED
      BY <1>1, <1>2, <3>1 DEF DeviceInv, ClientsPlaced
  <2>5. \A k, l \in Clients : client'[k].sess = client'[l].sess /\ client'[k].sess # 0 => client'[k].dev = client'[l].dev
    BY <1>7, <1>8, <2>4 DEF DeviceInv, SessionsKept
  <2>6. /\ asked' \subseteq 1..paired' /\ (\A g \in Files : rows'[g] \subseteq 1..paired' /\ rows'[g] \cap AskedFor' = {})
        /\ \A g, i \in Files : g # i => rows'[g] \cap rows'[i] = {}
    BY <1>13 DEF DeviceInv, SessionsKept, AskedFor
  <2> QED
    BY <2>2, <2>3, <2>5, <2>6 DEF SessionsKept
<1>17. ClientsPlaced'
  <2>1. \A k \in Clients : WellMade(client'[k])
    BY <1>7, <1>8 DEF DeviceInv, ClientsPlaced
  <2>2. ASSUME NEW g \in Callers PROVE WellCalled(calls[g])'
    <3>1. CASE g = h
      BY <1>1, <1>7, <1>8, <1>9, <1>11, <3>1 DEF WellCalled, Placed
    <3>2. CASE g # h
      <4>1. WellCalled(calls[g]) /\ calls'[g] = calls[g]
        BY <1>11, <3>2 DEF DeviceInv, ClientsPlaced
      <4>2. calls[g].at \in Placed => calls[g].cl # c
        BY <1>3, <4>1, GatewayBounds DEF WellCalled, Placed
      <4> QED
        BY <1>8, <4>1, <4>2 DEF WellCalled
    <3> QED
      BY <3>1, <3>2
  <2>3. ASSUME NEW x \in Devices, entry'[x] # 0 PROVE client'[entry'[x]].dev = x
    <3>1. entry[x] # 0 /\ entry[x] \in Clients /\ client[entry[x]].dev = x /\ x # 0
      BY <1>13, <2>3, GatewayBounds DEF DeviceInv, DeviceType, ClientsPlaced
    <3>2. entry[x] # c
      BY <1>3, <3>1
    <3> QED
      BY <1>8, <1>13, <3>1, <3>2
  <2>4. \A x, y \in Devices : file'[x] = file'[y] /\ file'[x] # 0 => x = y
    BY <1>1, <1>3, <1>12, <1>14 DEF DeviceInv, ClientsPlaced
  <2>5. ASSUME NEW k \in Clients, k # c, client[k].file = f PROVE client[k].dev = d
    BY ZenonT(30), <1>1, <1>3, <1>14, <2>5 DEF DeviceInv, ClientsPlaced
  <2>6. ASSUME NEW x \in Devices, x # d, file[x] = f PROVE FALSE
    BY <1>1, <1>3, <1>14, <2>6 DEF DeviceInv, ClientsPlaced
  <2>7. \A x \in Devices, k \in Clients : file'[x] = client'[k].file /\ file'[x] # 0 => client'[k].dev = x
    BY <1>7, <1>8, <1>12, <2>5, <2>6 DEF DeviceInv, ClientsPlaced
  <2>8. \A k, l \in Clients : client'[k].file = client'[l].file /\ client'[k].file # 0 => client'[k].dev = client'[l].dev
    BY <1>7, <1>8, <2>5 DEF DeviceInv, ClientsPlaced
  <2>9. ASSUME NEW k \in Clients, k > made'
        PROVE  k # c /\ k > made /\ f # k
    <3>1. k # c /\ k > made /\ made \in Nat
      BY <1>1, <2>9 DEF DeviceInv, DeviceType, Clients
    <3> QED
      BY <1>1, <1>14, <3>1 DEF DeviceInv, ClientsPlaced
  <2>10. \A k \in Clients : k > made' => /\ client'[k].dev = 0 /\ client'[k].file = 0 /\ client'[k].sess = 0
                                         /\ rows'[k] = {} /\ \A x \in Devices : file'[x] # k
    BY <1>8, <1>12, <1>13, <2>9 DEF DeviceInv, ClientsPlaced
  <2>11. \A k, l \in Clients : l > made' => client'[k].file # l
    BY <1>7, <1>8, <2>9 DEF DeviceInv, ClientsPlaced
  <2> QED
    BY <2>1, <2>2, <2>3, <2>4, <2>7, <2>8, <2>10, <2>11 DEF ClientsPlaced
<1>18. WantedStaysSaved'
  <2>1. \A x \in Devices : file[x] # 0 => file'[x] = file[x]
    BY <1>12 DEF f
  <2> QED
    BY <1>13, <2>1 DEF DeviceInv, WantedStaysSaved
<1> QED
  BY <1>15, <1>16, <1>17, <1>18 DEF DeviceInv

(***************************************************************************)
(* A phone scans the code: a session nobody has seen is in one file.       *)
(***************************************************************************)
LEMMA PairedUp == ASSUME DeviceInv, NEW c \in Clients, Pairs(c) PROVE DeviceInv'
<1> DEFINE z == paired + 1
           F == client[c].file
           d == client[c].dev
           m == [client[c] EXCEPT !.sess = z, !.news = "up"]
<1>1. client[c] \in ClientRec /\ WellMade(client[c]) /\ d \in Devices /\ d # 0 /\ F \in Files /\ F # 0
  BY DEF DeviceInv, DeviceType, ClientsPlaced, WellMade, Pairs, ClientRec
<1>2. paired' = z /\ z \in Nat /\ z # 0 /\ z \notin 1..paired /\ 1..paired' = (1..paired) \cup {z}
  BY DEF DeviceInv, DeviceType, Pairs
<1>3. /\ m \in ClientRec /\ m.dev = d /\ m.file = F /\ m.sess = z /\ m.news = "up"
  BY <1>1, <1>2 DEF ClientRec
<1>4. client' = [client EXCEPT ![c] = m]
  BY DEF Pairs, DeviceInv, DeviceType
<1> HIDE DEF m
<1>5. WellMade(m)
  BY <1>1, <1>3 DEF WellMade
<1>6. client' \in [Clients -> ClientRec] /\ client'[c] = m /\ \A k \in Clients : k # c => client'[k] = client[k]
  BY <1>3, <1>4 DEF DeviceInv, DeviceType
<1>7. \A k \in Clients : client'[k].dev = client[k].dev /\ client'[k].file = client[k].file
  BY <1>3, <1>6
<1>8. /\ rows' \in [Files -> SUBSET Nat] /\ rows'[F] = rows[F] \cup {z}
      /\ \A f \in Files : f # F => rows'[f] = rows[f]
  BY <1>1, <1>2 DEF Pairs, DeviceInv, DeviceType
<1>9. UNCHANGED <<entry, made, file, calls, asked, raced, unlinked, strayed>>
  BY DEF Pairs, Quiet
<1>10. torn' = IF file[d] = F THEN torn ELSE torn \cup {z}
  BY <1>2 DEF Pairs
<1> HIDE DEF z, F, d
<1>11. DeviceType'
  BY <1>2, <1>6, <1>8, <1>9 DEF DeviceInv, DeviceType
<1>12. SessionsKept'
  <2>1. (\A f \in Files : z \notin rows[f]) /\ (\A k \in Clients : client[k].sess # z) /\ z \notin AskedFor
        /\ AskedFor' = AskedFor
    BY <1>2, <1>9 DEF DeviceInv, DeviceType, SessionsKept, AskedFor
  <2>2. asked' \subseteq 1..paired' /\ \A f \in Files : rows'[f] \subseteq 1..paired' /\ rows'[f] \cap AskedFor' = {}
    BY <1>2, <1>8, <1>9, <2>1 DEF DeviceInv, SessionsKept
  <2>3. \A f, g \in Files : f # g => rows'[f] \cap rows'[g] = {}
    BY <1>8, <2>1 DEF DeviceInv, SessionsKept
  <2>4. \A k \in Clients : client'[k].sess \in 0..paired'
    BY <1>2, <1>3, <1>6 DEF DeviceInv, DeviceType, SessionsKept
  <2>5. \A k \in Clients : Held(k)' => client'[k].sess \notin AskedFor'
    BY <1>3, <1>6, <1>9, <2>1 DEF DeviceInv, SessionsKept, Held
  <2>6. \A k \in Clients, f \in Files : client'[k].sess \in rows'[f] => client'[k].file = f
    BY <1>3, <1>6, <1>8, <2>1 DEF DeviceInv, SessionsKept
  <2>7. \A k, l \in Clients : client'[k].sess = client'[l].sess /\ client'[k].sess # 0 => client'[k].dev = client'[l].dev
    BY <1>3, <1>6, <1>7, <2>1 DEF DeviceInv, SessionsKept
  <2> QED
    BY <2>2, <2>3, <2>4, <2>5, <2>6, <2>7 DEF SessionsKept
<1>13. ClientsPlaced'
  <2>1. \A k \in Clients : WellMade(client'[k])
    BY <1>5, <1>6 DEF DeviceInv, ClientsPlaced
  <2>2. \A h \in Callers : WellCalled(calls[h])'
    BY <1>7, <1>9 DEF DeviceInv, ClientsPlaced, WellCalled
  <2>3. \A x \in Devices : entry'[x] # 0 => client'[entry'[x]].dev = x
    BY <1>7, <1>9 DEF DeviceInv, DeviceType, ClientsPlaced
  <2>4. ASSUME NEW k \in Clients, k > made PROVE client'[k].sess = 0 /\ rows'[k] = {}
    <3>1. k # c /\ k # F /\ k \in Files
      BY <1>1, <2>4, ClientsAreFiles DEF DeviceInv, ClientsPlaced, d, F
    <3> QED
      BY <1>6, <1>8, <2>4, <3>1 DEF DeviceInv, ClientsPlaced
  <2>5. /\ \A x, y \in Devices : file'[x] = file'[y] /\ file'[x] # 0 => x = y
        /\ \A x \in Devices, k \in Clients : file'[x] = client'[k].file /\ file'[x] # 0 => client'[k].dev = x
        /\ \A k, l \in Clients : client'[k].file = client'[l].file /\ client'[k].file # 0 => client'[k].dev = client'[l].dev
        /\ \A k, l \in Clients : l > made' => client'[k].file # l
    BY <1>7, <1>9 DEF DeviceInv, ClientsPlaced
  <2>6. \A k \in Clients : k > made' => /\ client'[k].dev = 0 /\ client'[k].file = 0 /\ client'[k].sess = 0
                                        /\ rows'[k] = {} /\ \A x \in Devices : file'[x] # k
    BY <1>7, <1>9, <2>4 DEF DeviceInv, ClientsPlaced
  <2> QED
    BY <2>1, <2>2, <2>3, <2>5, <2>6 DEF ClientsPlaced
<1>14. WantedStaysSaved'
  <2> SUFFICES ASSUME NEW s \in (1..paired') \ (asked' \cup unlinked' \cup strayed' \cup torn')
               PROVE  \E x \in Devices : file'[x] # 0 /\ s \in rows'[file'[x]]
    BY DEF WantedStaysSaved
  <2>1. CASE s = z
    BY <1>1, <1>8, <1>9, <1>10, <2>1
  <2>2. CASE s # z
    <3>1. s \in (1..paired) \ (asked \cup unlinked \cup strayed \cup torn)
      BY <1>2, <1>9, <1>10, <2>2
    <3>2. PICK x \in Devices : file[x] # 0 /\ s \in rows[file[x]]
      BY <3>1 DEF DeviceInv, WantedStaysSaved
    <3>3. file[x] \in Files
      BY <3>2 DEF DeviceInv, DeviceType
    <3> QED
      BY <1>8, <1>9, <3>2, <3>3
  <2> QED
    BY <2>1, <2>2
<1> QED
  BY <1>11, <1>12, <1>13, <1>14 DEF DeviceInv

(***************************************************************************)
(* A start of the process: a loaded device gets the next number, and no    *)
(* two get the same.                                                       *)
(***************************************************************************)
LEMMA Numbering ==
  ASSUME NEW L \in SUBSET Devices, NEW n \in Nat
  PROVE  /\ IsFiniteSet(L) /\ Cardinality(L) \in Nat
         /\ \A d \in L : Numbered(L, n, d) \in (n + 1)..(n + Cardinality(L))
         /\ \A d, e \in L : Numbered(L, n, d) = Numbered(L, n, e) => d = e
<1> DEFINE below(d) == {e \in L : e <= d}
<1>1. IsFiniteSet(L) /\ Cardinality(L) \in Nat
  BY FS_Subset, FS_CardinalityType, GatewayBounds
<1>2. ASSUME NEW d \in L
      PROVE  IsFiniteSet(below(d)) /\ Cardinality(below(d)) \in 1..Cardinality(L)
  <2>1. IsFiniteSet(below(d)) /\ Cardinality(below(d)) <= Cardinality(L) /\ Cardinality(below(d)) \in Nat
    BY <1>1, FS_Subset, FS_CardinalityType
  <2>2. d \in below(d)
    BY GatewayBounds
  <2>3. Cardinality(below(d)) # 0
    BY <2>1, <2>2, FS_EmptySet
  <2> HIDE DEF below
  <2> QED
    BY <1>1, <2>1, <2>3
<1>3. ASSUME NEW d \in L, NEW e \in L, d < e PROVE Cardinality(below(d)) # Cardinality(below(e))
  <2>1. \A x \in L : x \in Nat
    BY GatewayBounds
  <2>2. \A x \in L : x <= d => x <= e
    BY <1>3, <2>1
  <2>3. e <= e /\ ~(e <= d)
    BY <1>3, <2>1
  <2>4. below(d) \subseteq below(e) /\ e \in below(e) /\ e \notin below(d)
    BY <2>2, <2>3
  <2> HIDE DEF below
  <2> QED
    BY <1>2, <2>4, FS_Subset
<1>4. \A d \in L : Numbered(L, n, d) = n + Cardinality(below(d))
  BY DEF Numbered
<1> HIDE DEF below
<1>5. \A d \in L : Numbered(L, n, d) \in (n + 1)..(n + Cardinality(L))
  BY <1>1, <1>2, <1>4
<1>6. ASSUME NEW d \in L, NEW e \in L, Numbered(L, n, d) = Numbered(L, n, e) PROVE d = e
  <2>1. Cardinality(below(d)) = Cardinality(below(e))
    BY <1>2, <1>4, <1>6
  <2>2. d \in Nat /\ e \in Nat
    BY GatewayBounds
  <2> QED
    BY <1>3, <2>1, <2>2
<1> QED
  BY <1>1, <1>5, <1>6

(* What a start relies on of the files, and what it makes of them.          *)
FilesKept ==
    /\ file \in [Devices -> Files \cup {0}] /\ rows \in [Files -> SUBSET Nat] /\ paired \in Nat /\ made \in 0..MaxClients
    /\ asked \subseteq 1..paired
    /\ \A f \in Files : rows[f] \subseteq 1..paired /\ rows[f] \cap AskedFor = {}
    /\ \A f, g \in Files : f # g => rows[f] \cap rows[g] = {}
    /\ \A d, e \in Devices : file[d] = file[e] /\ file[d] # 0 => d = e
    /\ \A k \in Clients : k > made => rows[k] = {} /\ \A d \in Devices : file[d] # k
    /\ WantedStaysSaved
LoadsAs(n, first, ok, L) ==
    /\ first \in Choices(file, rows) /\ L \subseteq Saved(file, rows) /\ made = n + Cardinality(L)
    /\ entry = LoadedEntry(L, n) /\ client = LoadedClients(L, n, file, first, ok)
    /\ calls = [h \in Callers |-> Idle]
JustLoaded == \E n \in Nat : \E first \in Choices(file, rows), ok \in SUBSET Devices, L \in SUBSET Saved(file, rows) :
                LoadsAs(n, first, ok, L)

LEMMA LoadedHolds == FilesKept /\ JustLoaded => DeviceInv
<1> SUFFICES ASSUME FilesKept, JustLoaded PROVE DeviceInv
  OBVIOUS
<1>1. PICK n \in Nat : \E first \in Choices(file, rows), ok \in SUBSET Devices, L \in SUBSET Saved(file, rows) :
                         LoadsAs(n, first, ok, L)
  BY DEF JustLoaded
<1>2. PICK first, ok, L : ok \subseteq Devices /\ LoadsAs(n, first, ok, L)
  BY <1>1
<1>3. L \in SUBSET Devices /\ \A d \in L : /\ d \in Devices /\ d # 0 /\ file[d] \in Files /\ file[d] # 0
                                           /\ first[d] \in rows[file[d]] /\ first[d] \in 1..paired /\ first[d] \notin AskedFor
  BY <1>2, GatewayBounds DEF LoadsAs, Saved, Choices, FilesKept
<1> DEFINE num(d) == Numbered(L, n, d)
<1>4. /\ \A d \in L : num(d) \in Clients /\ num(d) <= made
      /\ \A d, e \in L : num(d) = num(e) => d = e
  <2>1. /\ Cardinality(L) \in Nat /\ \A d \in L : num(d) \in (n + 1)..(n + Cardinality(L))
        /\ \A d, e \in L : num(d) = num(e) => d = e
    BY <1>3, Numbering
  <2>2. made = n + Cardinality(L) /\ made \in 0..MaxClients /\ MaxClients \in Nat
    BY <1>2, GatewayBounds DEF LoadsAs, FilesKept
  <2> HIDE DEF num
  <2>3. ASSUME NEW d \in L PROVE num(d) \in Clients /\ num(d) <= made
    BY <2>1, <2>2 DEF Clients
  <2> QED
    BY <2>1, <2>3
<1> DEFINE m(d) == [Made(d, file[d], first[d]) EXCEPT !.on = d \in ok, !.auto = d \in ok,
                      !.status = IF d \in ok THEN "connected" ELSE "disconnected"]
<1>5. ASSUME NEW d \in L
      PROVE  /\ m(d) \in ClientRec /\ m(d).dev = d /\ m(d).file = file[d] /\ m(d).sess = first[d] /\ WellMade(m(d))
  <2>1. d \in Devices /\ d # 0 /\ file[d] \in Files /\ file[d] # 0 /\ first[d] \in Nat
    BY <1>3
  <2> DEFINE k == Made(d, file[d], first[d])
             status == IF d \in ok THEN "connected" ELSE "disconnected"
             on == d \in ok
  <2>2. /\ k \in ClientRec /\ k.dev = d /\ k.file = file[d] /\ k.sess = first[d] /\ k.news = "none"
    BY <2>1 DEF Made, NoClient, ClientRec
  <2>3. m(d) = [k EXCEPT !.on = on, !.auto = on, !.status = status]
    OBVIOUS
  <2>4. on \in BOOLEAN /\ status \in {"connected", "disconnected"}
    OBVIOUS
  <2> HIDE DEF k, m, on, status
  <2>5. /\ m(d) \in ClientRec /\ m(d).dev = k.dev /\ m(d).file = k.file /\ m(d).sess = k.sess /\ m(d).news = k.news
    BY <2>2, <2>3, <2>4 DEF ClientRec
  <2> QED
    BY <2>1, <2>2, <2>5 DEF WellMade
<1>6. /\ NoClient \in ClientRec /\ NoClient.dev = 0 /\ NoClient.file = 0 /\ NoClient.sess = 0 /\ WellMade(NoClient)
  BY DEF NoClient, ClientRec, WellMade
<1>7. client = [k \in Clients |-> IF \E d \in L : num(d) = k THEN m(CHOOSE x \in L : num(x) = k) ELSE NoClient]
  BY Zenon, <1>2 DEF LoadsAs, LoadedClients
<1>8. entry = [d \in Devices |-> IF d \in L THEN num(d) ELSE 0]
  BY <1>2 DEF LoadsAs, LoadedEntry
<1> HIDE DEF m, num
<1>9. \A d \in L : (CHOOSE x \in L : num(x) = num(d)) = d
  BY <1>4
<1>10. \A d \in L : num(d) \in Clients /\ client[num(d)] = m(d)
  BY <1>4, <1>7, <1>9
<1>11. \A k \in Clients : (\E d \in L : k = num(d) /\ client[k] = m(d)) \/ client[k] = NoClient
  BY <1>7, <1>10
<1>12. client \in [Clients -> ClientRec]
  <2>1. \A k \in Clients : client[k] \in ClientRec
    BY <1>5, <1>6, <1>11
  <2> QED
    BY <1>7, <2>1
<1>13. DeviceType
  <2>1. Idle \in CallRec
    BY DEF Idle, CallRec
  <2>2. entry \in [Devices -> Clients \cup {0}]
    BY <1>8, <1>10
  <2> QED
    BY <1>2, <1>12, <2>1, <2>2 DEF DeviceType, FilesKept, LoadsAs
<1>14. SessionsKept
  <2>1. 0 \notin AskedFor /\ \A f \in Files : 0 \notin rows[f]
    BY DEF FilesKept, AskedFor
  <2>2. ASSUME NEW k \in Clients PROVE client[k].sess \in 0..paired /\ client[k].sess \notin AskedFor
    <3>1. CASE client[k] = NoClient
      BY <1>6, <2>1, <3>1 DEF FilesKept
    <3>2. ASSUME NEW d \in L, client[k] = m(d) PROVE client[k].sess \in 0..paired /\ client[k].sess \notin AskedFor
      BY <1>3, <1>5, <3>2 DEF FilesKept
    <3> QED
      BY <1>11, <3>1, <3>2
  <2>3. ASSUME NEW k \in Clients, NEW f \in Files, client[k].sess \in rows[f] PROVE client[k].file = f
    <3>1. PICK d \in L : client[k] = m(d)
      BY <1>6, <1>11, <2>1, <2>3
    <3>2. client[k].sess \in rows[file[d]] /\ file[d] \in Files /\ client[k].file = file[d]
      BY <1>3, <1>5, <3>1
    <3> QED
      BY <2>3, <3>2 DEF FilesKept
  <2>4. ASSUME NEW k \in Clients, NEW l \in Clients, client[k].sess = client[l].sess, client[k].sess # 0
        PROVE  client[k].dev = client[l].dev
    <3>1. PICK d \in L : client[k] = m(d)
      BY <1>6, <1>11, <2>4
    <3>2. PICK e \in L : client[l] = m(e)
      BY <1>6, <1>11, <2>4
    <3>3. first[d] = first[e]
      BY <1>5, <2>4, <3>1, <3>2
    <3>4. file[d] = file[e]
      BY <1>3, <3>3 DEF FilesKept
    <3>5. d = e
      BY <1>3, <3>4 DEF FilesKept
    <3> QED
      BY <1>5, <3>1, <3>2, <3>5
  <2> QED
    BY <2>2, <2>3, <2>4 DEF SessionsKept, FilesKept
<1>15. ClientsPlaced
  <2>1. \A k \in Clients : WellMade(client[k])
    BY <1>5, <1>6, <1>11
  <2>2. \A h \in Callers : WellCalled(calls[h])
    BY <1>2 DEF LoadsAs, Idle, WellCalled, Placed
  <2>3. \A d \in Devices : entry[d] # 0 => client[entry[d]].dev = d
    BY <1>5, <1>8, <1>10
  <2>4. \A d \in Devices, k \in Clients : file[d] = client[k].file /\ file[d] # 0 => client[k].dev = d
    BY <1>3, <1>5, <1>6, <1>11 DEF FilesKept
  <2>5. \A k, l \in Clients : client[k].file = client[l].file /\ client[k].file # 0 => client[k].dev = client[l].dev
    BY <1>3, <1>5, <1>6, <1>11 DEF FilesKept
  <2>6. ASSUME NEW k \in Clients, k > made PROVE client[k] = NoClient
    <3>1. \A d \in L : num(d) \in Clients /\ num(d) <= made
      BY <1>4
    <3>2. \A d \in L : num(d) # k
      BY <2>6, <3>1 DEF FilesKept, Clients
    <3> QED
      BY <1>11, <3>2
  <2>7. \A k, l \in Clients : l > made => client[k].file # l
    BY <1>3, <1>5, <1>6, <1>11 DEF FilesKept, Clients
  <2> QED
    BY <1>6, <2>1, <2>2, <2>3, <2>4, <2>5, <2>6, <2>7 DEF ClientsPlaced, FilesKept
<1> QED
  BY <1>13, <1>14, <1>15 DEF DeviceInv, FilesKept

LEMMA RestartStep == ASSUME DeviceInv, Restart PROVE DeviceInv'
<1>1. /\ UNCHANGED <<file, rows, paired, asked, unlinked, strayed, torn, raced>>
      /\ calls' = [h \in Callers |-> Idle]
  BY DEF Restart, Told
<1>2. made + Cardinality(Saved(file, rows)) <= MaxClients
  BY DEF Restart
<1>3. PICK first \in Choices(file, rows), ok \in SUBSET Saved(file, rows) : \E L \in Loaded(first, ok) :
             /\ entry' = LoadedEntry(L, made) /\ made' = made + Cardinality(L)
             /\ client' = LoadedClients(L, made, file, first, ok)
  BY DEF Restart
<1>4. PICK L : /\ L \in Loaded(first, ok) /\ entry' = LoadedEntry(L, made) /\ made' = made + Cardinality(L)
               /\ client' = LoadedClients(L, made, file, first, ok)
  BY <1>3
<1>5. L \subseteq Saved(file, rows) /\ Saved(file, rows) \subseteq Devices /\ ok \subseteq Devices /\ made \in Nat
  BY <1>3, <1>4 DEF Loaded, Choices, Saved, DeviceInv, DeviceType
<1>6. made' \in 0..MaxClients /\ made' >= made
  <2>1. /\ IsFiniteSet(Saved(file, rows)) /\ Cardinality(Saved(file, rows)) \in Nat
        /\ Cardinality(L) \in Nat /\ Cardinality(L) <= Cardinality(Saved(file, rows))
    BY <1>5, FS_Subset, FS_CardinalityType, GatewayBounds
  <2> QED
    BY <1>2, <1>4, <1>5, <2>1, GatewayBounds
<1>7. FilesKept'
  <2>1. \A k \in Clients : k > made' => k > made
    BY <1>5, <1>6 DEF Clients
  <2> QED
    BY <1>1, <1>6, <2>1 DEF FilesKept, DeviceInv, DeviceType, SessionsKept, ClientsPlaced, WantedStaysSaved, AskedFor
<1>8. JustLoaded'
  <2>1. PICK n \in Nat : n = made
    BY <1>5
  <2>2. Choices(file, rows)' = Choices(file, rows) /\ Saved(file, rows)' = Saved(file, rows)
    BY <1>1
  <2>3. LoadsAs(n, first, ok, L)'
    BY <1>1, <1>3, <1>4, <1>5, <2>1, <2>2 DEF LoadsAs
  <2> QED
    BY <1>3, <1>5, <2>2, <2>3 DEF JustLoaded
<1>9. FilesKept' /\ JustLoaded' => DeviceInv'
  BY LoadedHolds, PTL
<1> QED
  BY <1>7, <1>8, <1>9

LEMMA DeviceStarts == Init => DeviceInv
<1> SUFFICES ASSUME Init PROVE DeviceInv
  OBVIOUS
<1> DEFINE n == Cardinality(Earlier)
           N == Cardinality(Devices)
<1>1. n \in Nat /\ N \in Nat /\ n <= N /\ n <= MaxClients /\ MaxClients \in Nat /\ IsFiniteSet(Earlier)
      /\ Earlier = 1..n /\ Earlier \subseteq Devices
  BY FS_Subset, FS_CardinalityType, GatewayBounds
<1>2. /\ file = [d \in Devices |-> IF d \in Earlier THEN MaxClients + d ELSE 0]
      /\ rows = [f \in Files |-> {d \in Earlier : f = MaxClients + d}]
      /\ calls = [h \in Callers |-> Idle] /\ paired = n
      /\ asked = {} /\ unlinked = {} /\ strayed = {} /\ torn = {} /\ raced = {}
  BY DEF Init
<1>3. PICK first \in Choices(file, rows), ok \in SUBSET Earlier : \E L \in Loaded(first, ok) :
             entry = LoadedEntry(L, 0) /\ made = Cardinality(L) /\ client = LoadedClients(L, 0, file, first, ok)
  BY DEF Init
<1>4. PICK L : /\ L \in Loaded(first, ok) /\ entry = LoadedEntry(L, 0) /\ made = Cardinality(L)
               /\ client = LoadedClients(L, 0, file, first, ok)
  BY <1>3
<1>5. L \subseteq Saved(file, rows) /\ Saved(file, rows) \subseteq Earlier
  BY <1>2, <1>3, <1>4 DEF Loaded, Choices, Saved
<1>6. made \in 0..MaxClients
  <2>1. Cardinality(L) \in Nat /\ Cardinality(L) <= n
    BY <1>1, <1>5, FS_Subset, FS_CardinalityType
  <2> HIDE DEF n
  <2> QED
    BY <1>1, <1>4, <2>1
<1> HIDE DEF n, N
<1>7. \A d \in Earlier : d \in 1..n /\ d \in Devices /\ MaxClients + d \in Files /\ file[d] = MaxClients + d
  BY <1>1, <1>2 DEF Files, N
<1>8. file \in [Devices -> Files \cup {0}] /\ rows \in [Files -> SUBSET Nat]
  <2>1. \A d \in Devices : file[d] \in Files \cup {0}
    BY <1>2, <1>7
  <2>2. \A f \in Files : rows[f] \subseteq Earlier
    BY <1>2
  <2> QED
    BY <1>1, <1>2, <2>1, <2>2
<1>9. /\ \A f \in Files : rows[f] \subseteq 1..paired
      /\ \A f, g \in Files : f # g => rows[f] \cap rows[g] = {}
      /\ \A k \in Clients : rows[k] = {}
  <2>1. \A f \in Files : \A d \in rows[f] : d \in Earlier /\ f = MaxClients + d
    BY <1>2
  <2>2. \A k \in Clients, d \in Earlier : k # MaxClients + d
    BY <1>1, <1>7 DEF Clients
  <2>3. \A k \in Clients : rows[k] = {}
    BY <2>1, <2>2, ClientsAreFiles
  <2>4. \A f \in Files : rows[f] \subseteq 1..paired
    BY <1>1, <1>2, <2>1
  <2>5. \A f, g \in Files : f # g => rows[f] \cap rows[g] = {}
    BY <2>1
  <2> QED
    BY <2>3, <2>4, <2>5
<1>10. /\ \A d, e \in Devices : file[d] = file[e] /\ file[d] # 0 => d = e
       /\ \A k \in Clients, d \in Devices : file[d] # k
  <2>1. \A d \in Devices : file[d] = 0 \/ (d \in 1..n /\ file[d] = MaxClients + d)
    BY <1>2, <1>7
  <2>2. \A k \in Clients, d \in Devices : file[d] # k
    BY <1>1, <2>1 DEF Clients
  <2> QED
    BY <1>1, <2>1, <2>2
<1>11. WantedStaysSaved
  <2> SUFFICES ASSUME NEW s \in 1..paired PROVE \E d \in Devices : file[d] # 0 /\ s \in rows[file[d]]
    BY DEF WantedStaysSaved
  <2>1. s \in Earlier /\ s \in Devices /\ MaxClients + s \in Files /\ file[s] = MaxClients + s /\ file[s] # 0
    BY <1>1, <1>2, <1>7
  <2>2. s \in rows[MaxClients + s]
    BY <1>2, <2>1
  <2> QED
    BY <2>1, <2>2
<1>12. FilesKept
  BY <1>1, <1>2, <1>6, <1>8, <1>9, <1>10, <1>11 DEF FilesKept, AskedFor
<1>13. JustLoaded
  <2>1. ok \subseteq Devices /\ made = 0 + Cardinality(L)
    BY <1>1, <1>3, <1>4, <1>6
  <2>2. LoadsAs(0, first, ok, L)
    BY <1>2, <1>3, <1>4, <1>5, <2>1 DEF LoadsAs
  <2> QED
    BY <1>3, <1>5, <2>1, <2>2 DEF JustLoaded
<1> QED
  BY <1>12, <1>13, LoadedHolds

LEMMA DeviceStep == ASSUME DeviceInv, [Next]_gatewayVars PROVE DeviceInv'
<1>1. ASSUME NEW h \in Callers, NEW d \in Requested, AsksToCreate(h, d) \/ AsksForQr(h, d) \/ AsksToDelete(h, d)
      PROVE  DeviceInv'
  BY <1>1, Asked
<1>2. ASSUME NEW h \in Callers,
             LooksAtQr(h) \/ CreateReads(h) \/ CreateRefused(h) \/ CreateReturns(h) \/ CreateTimesOut(h)
      PROVE  DeviceInv'
  <2>1. calls[h].at # "idle" /\ (LooksAtQr(h) \/ CreateReads(h) \/ Fails(h) \/ CreateReturns(h))
    BY <1>2 DEF LooksAtQr, CreateReads, CreateRefused, CreateReturns, CreateTimesOut
  <2> QED
    BY <2>1, Moves
<1>3. ASSUME NEW h \in Callers,
             CreateTearsDown(h) \/ CreateOpens(h) \/ CreateStores(h) \/ CreateConnects(h)
      PROVE  DeviceInv'
  BY <1>3, TearsDown, Opens, Stores, Connects
<1>4. ASSUME NEW h \in Callers, Refreshes(h) \/ DeleteTakes(h) \/ DeleteRemoves(h) PROVE DeviceInv'
  BY <1>4, RefreshStep, Takes, DeleteStep
<1>5. ASSUME NEW c \in Clients, ShowsCode(c) \/ Pairs(c) \/ ComesUp(c) \/ Drops(c) \/ LogsOut(c) \/ Hears(c)
      PROVE  DeviceInv'
  BY <1>5, ShownCode, PairedUp, UpOrDown, LoggedOut, HeardNews
<1>6. CASE UNCHANGED gatewayVars
  <2>1. UNCHANGED <<entry, client, made, file, rows, calls, paired>> /\ Told
    BY <1>6 DEF gatewayVars, Told
  <2> QED
    BY <2>1, SameClients, SameCalls, SameEntry, QuietStep DEF Frame
<1> QED
  BY <1>1, <1>2, <1>3, <1>4, <1>5, <1>6, RestartStep DEF Next

(* Sessions end when somebody asked and then for good, however creations,   *)
(* refreshes, deletions, events and restarts of any devices interleave: of  *)
(* CreateDevice, RefreshQR, Disconnect, makeEventHandler and                *)
(* loadExistingDevices.                                                     *)
THEOREM DevicesEndAsAsked == Spec => []SessionsAsAsked
BY DeviceStarts, DeviceStep, InvSessionsAsAsked, PTL DEF Spec
=============================================================================
