------------------------- MODULE InboundGateProofs -------------------------
(***************************************************************************)
(* Theorems about InboundGate: a message is taken once, an identity has    *)
(* one session, nothing runs in a chat that is switched off, and a file's  *)
(* answer is about that file, for any messages, requests and bounds.       *)
(***************************************************************************)
EXTENDS InboundGate, TLAPS

(* Where a request has no session yet, works for one, and is over.          *)
Before == {"idle", "known", "taken"}
Early == {"created", "found", "ready", "clearing", "passed", "spam", "stopping", "saved", "asked"}
Late == {"marked", "waiting", "locked", "cleared", "running", "ran"}
Over == {"left", "ignored", "blocked", "failed", "noQuota", "spamStopped", "off", "noise", "noFile", "reset",
         "timeout", "stale", "cancelled", "errored", "answered", "suppressed"}
Places == Before \cup Early \cup Late \cup Over

Items == {"file", "text"} \X Requests
Request == [at : Places, msg : Messages \cup {NoOne}, phone : BOOLEAN, key : Keys,
            store : Stores \cup {"none"}, mine : Rows \cup {NoOne}, off : BOOLEAN, aged : BOOLEAN,
            gen : Nat, past : SUBSET Requests, read : SUBSET Items]
Chat == [off : BOOLEAN, gen : Nat, holder : Requests \cup {NoOne}, active : Requests \cup {NoOne},
         input : SUBSET Items]

TypeInv ==
    /\ kind \in [Messages -> Kind \cup {"none"}]
    /\ req \in [Requests -> Request]
    /\ marks \in [Stores -> SUBSET (Keys \X (Messages \cup {NoOne}))]
    /\ latch \in [Keys -> Requests \cup {NoOne}]
    /\ row \in [Rows -> Keys \cup {"none"}]
    /\ chat \in [Rows -> Chat]
    /\ slipped \subseteq Requests

(* A request that works has a message and a session, the registered run     *)
(* runs in the session it is registered for.                                *)
Settled == \A r \in Requests : req[r].at \in Early \cup Late => req[r].mine \in Rows
ActiveRuns == \A s \in Rows : chat[s].active # NoOne =>
                 req[chat[s].active].at = "running" /\ req[chat[s].active].mine = s
GateInv == TypeInv /\ Settled /\ ActiveRuns

USE DEF Kept, Others, Goes, Ends

LEMMA GateInit == Init => GateInv
<1> SUFFICES ASSUME Init PROVE GateInv
  OBVIOUS
<1>1. Fresh \in Request
  BY DEF Fresh, Request, Places, Before, Keys, Stores
<1>2. /\ NewChat \in Chat /\ NewChat.active = NoOne
      /\ \A off \in BOOLEAN : [NewChat EXCEPT !.off = off] \in Chat /\ [NewChat EXCEPT !.off = off].active = NoOne
  BY DEF NewChat, Chat
<1>3. \A s \in Rows : chat[s] \in Chat /\ chat[s].active = NoOne
  <2>1. PICK off \in BOOLEAN :
          chat = [r \in Rows |-> IF r = Earlier /\ row[r] # "none" THEN [NewChat EXCEPT !.off = off] ELSE NewChat]
    BY DEF Init
  <2> QED
    BY <1>2, <2>1
<1>4. chat \in [Rows -> Chat]
  BY <1>3 DEF Init
<1>5. TypeInv
  <2>1. /\ kind \in [Messages -> Kind \cup {"none"}] /\ req \in [Requests -> Request] /\ slipped \subseteq Requests
        /\ latch \in [Keys -> Requests \cup {NoOne}]
    BY <1>1 DEF Init
  <2>2. marks \in [Stores -> SUBSET (Keys \X (Messages \cup {NoOne}))]
    BY DEF Init
  <2>3. row \in [Rows -> Keys \cup {"none"}]
    BY DEF Init, Keys
  <2> QED
    BY <1>4, <2>1, <2>2, <2>3 DEF TypeInv
<1>6. Settled /\ ActiveRuns
  BY <1>3 DEF Init, Settled, ActiveRuns, Fresh, Early, Late
<1> QED
  BY <1>5, <1>6 DEF GateInv

(* What the actions do to the request that takes them. *)
LEMMA EndedIs ==
  ASSUME NEW q \in Request, NEW how \in Over
  PROVE  /\ Ended(q, how) \in Request /\ Ended(q, how).at = how
         /\ Ended(q, how).mine = q.mine /\ Ended(q, how).key = q.key /\ Ended(q, how).msg = q.msg
         /\ Ended(q, how).store = q.store /\ Ended(q, how).aged = q.aged /\ Ended(q, how).gen = q.gen
         /\ Ended(q, how).past = {} /\ Ended(q, how).read = {}
BY DEF Ended, Request, Places


(* Stopping a session's run: its chat has no run, its request is over, the  *)
(* others are as they were.                                                 *)
LEMMA StoppingARun ==
  ASSUME GateInv, NEW s \in Rows, NEW r \in Requests, req[r].at # "running", NEW at \in Places, StopsRun(s, r, at)
  PROVE  /\ req' \in [Requests -> Request] /\ chat' \in [Rows -> Chat]
         /\ chat'[s] = [chat[s] EXCEPT !.holder = chat'[s].holder, !.active = NoOne]
         /\ \A t \in Rows \ {s} : chat'[t] = chat[t]
         /\ req'[r] = [req[r] EXCEPT !.at = at]
         /\ \A q \in Requests \ {r} :
              \/ req'[q] = req[q] /\ chat[s].active # q
              \/ req[q].at = "running" /\ chat[s].active = q /\ req'[q] = Ended(req[q], "cancelled")
<1>1. req \in [Requests -> Request] /\ chat \in [Rows -> Chat] /\ NoOne \notin Requests
  BY InboundBounds DEF GateInv, TypeInv
<1>2. Stopped(chat[s]) \in Chat /\ Stopped(chat[s]) = [chat[s] EXCEPT !.holder = Stopped(chat[s]).holder, !.active = NoOne]
  BY <1>1 DEF Stopped, Free, Chat
<1>3. /\ chat' \in [Rows -> Chat]
      /\ chat'[s] = [chat[s] EXCEPT !.holder = chat'[s].holder, !.active = NoOne]
      /\ \A t \in Rows \ {s} : chat'[t] = chat[t]
  <2> DEFINE c == Stopped(chat[s])
  <2>1. chat' = [chat EXCEPT ![s] = c]
    BY DEF StopsRun
  <2> HIDE DEF c
  <2>2. chat'[s] = c /\ chat' \in [Rows -> Chat] /\ \A t \in Rows \ {s} : chat'[t] = chat[t]
    BY <1>1, <1>2, <2>1 DEF c
  <2> QED
    BY <1>2, <2>2 DEF c
<1>4. CASE chat[s].active = NoOne
  <2>1. req' = [req EXCEPT ![r].at = at]
    BY <1>4 DEF StopsRun, Cancelled
  <2>2. [req[r] EXCEPT !.at = at] \in Request
    BY <1>1 DEF Request
  <2>3. /\ req' \in [Requests -> Request] /\ req'[r] = [req[r] EXCEPT !.at = at]
        /\ \A q \in Requests \ {r} : req'[q] = req[q] /\ chat[s].active # q
    BY <1>1, <1>4, <2>1, <2>2
  <2> QED
    BY <1>3, <2>3
<1>5. CASE chat[s].active # NoOne
  <2> DEFINE a == chat[s].active
  <2>1. a \in Requests /\ req[a].at = "running" /\ a # r
    BY <1>1, <1>5 DEF GateInv, ActiveRuns, Chat
  <2>2. req' = [[req EXCEPT ![a] = Ended(@, "cancelled")] EXCEPT ![r].at = at]
    BY <1>5 DEF StopsRun, Cancelled
  <2>3. "cancelled" \in Over
    BY DEF Over
  <2>4. Ended(req[a], "cancelled") \in Request
    BY <1>1, <2>1, <2>3, EndedIs
  <2> HIDE DEF a
  <2>5. /\ req' \in [Requests -> Request] /\ req'[r] = [req[r] EXCEPT !.at = at]
        /\ req'[a] = Ended(req[a], "cancelled") /\ \A q \in Requests \ {r, a} : req'[q] = req[q]
    BY SMTT(30), <1>1, <2>1, <2>2, <2>4 DEF Request
  <2>6. \A q \in Requests \ {r} : q = a \/ (req'[q] = req[q] /\ chat[s].active # q)
    BY <2>5 DEF a
  <2>7. chat[s].active = a
    BY DEF a
  <2> QED
    BY <1>3, <2>1, <2>5, <2>6, <2>7
<1> QED
  BY <1>4, <1>5

(* What a step leaves alone of a request: an arrived one keeps its identity *)
(* and message, a checked one its store, one with a session that session;   *)
(* the places only go forward.                                              *)
Frame(q) ==
    /\ req[q].at # "idle" => req'[q].msg = req[q].msg /\ req'[q].key = req[q].key
    /\ req[q].at \notin {"idle", "known"} => req'[q].store = req[q].store
    /\ req[q].at \notin Before => req'[q].mine = req[q].mine /\ req'[q].at \notin Before
    /\ req[q].at \in Over => req'[q].at = req[q].at
    /\ req[q].at = "known" /\ req'[q].at \notin {"known", "left"} => \E s \in Stores : Checks(q, s)
    /\ req[q].at = "idle" => req'[q].at \in {"idle", "known"}
    /\ req[q].at \notin {"idle", "known"} => req'[q].at \notin {"idle", "known", "left", "ignored"} \/ req'[q].at = req[q].at
    /\ req'[q].at = "created" => req[q].at = "created" \/ Finds(q)
    /\ req'[q].at \in Before \cup Early => req[q].at \in Before \cup Early
    /\ req'[q].at \in Late => req[q].at \in Late \/ MarksLatest(q)
    /\ req'[q].gen = req[q].gen \/ MarksLatest(q)
    /\ req'[q].past \in {req[q].past, {}} \/ SavesFile(q)
    /\ req'[q].read \in {req[q].read, {}} \/ ReadsFile(q)
    /\ req'[q].at \in {"cleared", "running"} => req[q].at \in {"cleared", "running"} \/ MayRun(q)
    /\ req[q].aged => req'[q].aged
    /\ req'[q].at = "answered" => req[q].at = "answered" \/ (Answers(q) /\ IsLatest(q))

(* What a step of r leaves alone of a session. *)
ChatFrame(s, r) ==
    /\ chat'[s].gen = chat[s].gen \/ (MarksLatest(r) /\ s = req[r].mine)
    /\ chat'[s].input = chat[s].input \/ ((SavesFile(r) \/ NamesFile(r)) /\ s = req[r].mine)
    /\ chat'[s].off => chat[s].off \/ (SwitchesOff(r) /\ s = req[r].mine)

(* A step of r that changes no other request.                               *)
Own(r) ==
    /\ req'[r] \in Request /\ req' = [req EXCEPT ![r] = req'[r]] /\ Frame(r)
    /\ req'[r].at \in Early \cup Late => req'[r].mine \in Rows
    /\ req[r].at = "running" => (req'[r].at = "running" \/ chat'[req[r].mine].active = NoOne)
    /\ chat' \in [Rows -> Chat]
    /\ \A s \in Rows : /\ ChatFrame(s, r)
                       /\ \/ chat'[s].active \in {NoOne, chat[s].active}
                          \/ chat'[s].active = r /\ req'[r].at = "running" /\ req'[r].mine = s

LEMMA SameRequest == ASSUME NEW q, req'[q] = req[q], req[q].at \in Places PROVE Frame(q)
BY DEF Frame, Before, Early, Late, Over, Places

LEMMA OwnStep ==
  ASSUME GateInv, NEW r \in Requests, Own(r)
  PROVE  /\ req' \in [Requests -> Request] /\ Settled' /\ ActiveRuns'
         /\ \A q \in Requests : Frame(q) /\ (req[q].at # "running" /\ q # r => req'[q] = req[q])
         /\ \A s \in Rows : ChatFrame(s, r)
<1>1. req \in [Requests -> Request] /\ chat \in [Rows -> Chat] /\ NoOne \notin Requests
  BY InboundBounds DEF GateInv, TypeInv
<1>2. req' \in [Requests -> Request] /\ \A q \in Requests \ {r} : req'[q] = req[q]
  BY <1>1 DEF Own
<1>3. Settled'
  BY <1>1, <1>2 DEF Own, GateInv, Settled
<1>4. ActiveRuns'
  BY <1>1, <1>2 DEF Own, GateInv, ActiveRuns, Chat, Frame, Before, Places
<1>5. \A q \in Requests : Frame(q)
  BY <1>1, <1>2, SameRequest DEF Own, Request
<1> QED
  BY <1>2, <1>3, <1>4, <1>5 DEF Own

(* One step of a request that stops no run of another. *)
LEMMA ActsAlone ==
  ASSUME GateInv, NEW r \in Requests,
         \/ \E m \in Messages, phone \in BOOLEAN : Arrives(r, m, phone)
         \/ \E s \in Stores : Checks(r, s) \/ Counts(r, s)
         \/ Blocked(r) \/ Finds(r) \/ CommitsNew(r) \/ Provisions(r)
         \/ Reactivates(r) \/ Clears(r) \/ OutOfQuota(r) \/ SwitchesOff(r) \/ IsOff(r)
         \/ NoFile(r) \/ SavesFile(r) \/ NamesFile(r) \/ HasNoFile(r) \/ Resets(r)
         \/ MarksLatest(r) \/ GivesUp(r) \/ GetsLock(r) \/ Refrains(r) \/ MayRun(r) \/ Runs(r)
         \/ ReadsFile(r) \/ RunEnds(r) \/ RunFails(r) \/ Answers(r)
  PROVE  Own(r)
<1>1. /\ req \in [Requests -> Request] /\ chat \in [Rows -> Chat] /\ NoOne \notin Requests
      /\ req[r] \in Request /\ req[r].at \in Places /\ (req[r].at \in Early \cup Late => req[r].mine \in Rows)
  BY InboundBounds DEF GateInv, TypeInv, Settled, Request
<1>2. \A how \in Over :
        /\ Ended(req[r], how) \in Request /\ Ended(req[r], how).at = how
        /\ Ended(req[r], how).mine = req[r].mine /\ Ended(req[r], how).key = req[r].key
        /\ Ended(req[r], how).msg = req[r].msg /\ Ended(req[r], how).store = req[r].store
        /\ Ended(req[r], how).aged = req[r].aged /\ Ended(req[r], how).gen = req[r].gen
        /\ Ended(req[r], how).past = {} /\ Ended(req[r], how).read = {}
  BY <1>1, EndedIs
(* The request ends, its session's run with it if it was that. *)
<1>e. ASSUME NEW how \in Over \ {"left", "ignored"}, Ends(r, how), req[r].at \in {"taken"} \cup Early \cup Late,
             chat' \in [Rows -> Chat],
             \A s \in Rows : ChatFrame(s, r) /\ chat'[s].active \in {NoOne, chat[s].active},
             req[r].at = "running" => chat'[req[r].mine].active = NoOne,
             how = "answered" => Answers(r) /\ IsLatest(r)
      PROVE  Own(r)
  <2>1. req'[r] = Ended(req[r], how) /\ req' = [req EXCEPT ![r] = req'[r]]
    BY <1>1, <1>e
  <2>2. Frame(r)
    BY <1>2, <1>e, <2>1 DEF Frame, Before, Early, Late, Over
  <2> QED
    BY <1>2, <1>e, <2>1, <2>2 DEF Own, Over, Early, Late
<1>s. ASSUME chat' = chat
      PROVE  /\ chat' \in [Rows -> Chat]
             /\ \A s \in Rows : ChatFrame(s, r) /\ chat'[s].active \in {NoOne, chat[s].active}
  BY <1>1, <1>s DEF ChatFrame
<1>3. ASSUME NEW m \in Messages, NEW phone \in BOOLEAN, Arrives(r, m, phone) PROVE Own(r)
  <2>1. Identity(phone) \in Keys
    BY DEF Identity, Keys
  <2>2. /\ req' = [req EXCEPT ![r].at = "known", ![r].msg = m, ![r].phone = phone, ![r].key = Identity(phone)]
        /\ chat' = chat /\ req[r].at = "idle"
    BY Zenon, <1>3 DEF Arrives
  <2>3. req'[r] \in Request /\ req' = [req EXCEPT ![r] = req'[r]] /\ req'[r].at = "known"
        /\ req'[r].gen = req[r].gen /\ req'[r].past = req[r].past /\ req'[r].read = req[r].read /\ req'[r].aged = req[r].aged
    BY <1>1, <2>1, <2>2 DEF Request, Places, Before
  <2> QED
    BY <1>s, <2>2, <2>3 DEF Own, Frame, Before, Early, Late, Over
<1>4. ASSUME NEW s \in Stores, Checks(r, s) PROVE Own(r)
  <2>1. req[r].at = "known" /\ chat' = chat
    BY <1>4 DEF Checks
  <2>2. CASE req' = [req EXCEPT ![r] = [Ended(@, "ignored") EXCEPT !.store = s]]
    <3>1. req'[r] = [Ended(req[r], "ignored") EXCEPT !.store = s] /\ req' = [req EXCEPT ![r] = req'[r]]
      BY <1>1, <2>2
    <3>2. /\ req'[r] \in Request /\ req'[r].at = "ignored" /\ req'[r].gen = req[r].gen /\ req'[r].past = {} /\ req'[r].read = {}
          /\ req'[r].aged = req[r].aged /\ req'[r].msg = req[r].msg /\ req'[r].key = req[r].key
      BY ZenonT(40), <1>1, <3>1 DEF Ended, Request, Places, Over
    <3> QED
      BY <1>4, <1>s, <2>1, <3>1, <3>2 DEF Own, Frame, Before, Early, Late, Over
  <2>3. CASE req' = [req EXCEPT ![r].at = "taken", ![r].store = s]
    <3>1. /\ req'[r] \in Request /\ req' = [req EXCEPT ![r] = req'[r]]
          /\ req'[r].at = "taken" /\ req'[r].gen = req[r].gen /\ req'[r].past = req[r].past /\ req'[r].read = req[r].read
          /\ req'[r].aged = req[r].aged /\ req'[r].msg = req[r].msg /\ req'[r].key = req[r].key
      BY <1>1, <2>3 DEF Request, Places, Before
    <3> QED
      BY <1>4, <1>s, <2>1, <3>1 DEF Own, Frame, Before, Early, Late, Over
  <2> QED
    BY <1>4, <2>2, <2>3 DEF Checks
(* The request goes on within its session. *)
<1>g. ASSUME NEW at \in Early \cup Late, Goes(r, at), req[r].at \in Early \cup Late,
             at # "created", at \in Early => req[r].at \in Early, at \in Late => req[r].at \in Late,
             at \in {"cleared", "running"} => req[r].at \in {"cleared", "running"} \/ MayRun(r),
             chat' \in [Rows -> Chat],
             \A s \in Rows : ChatFrame(s, r) /\ (chat'[s].active \in {NoOne, chat[s].active} \/ (chat'[s].active = r /\ at = "running" /\ req[r].mine = s)),
             req[r].at = "running" => at = "running" \/ chat'[req[r].mine].active = NoOne
      PROVE  Own(r)
  <2>1. req'[r] = [req[r] EXCEPT !.at = at] /\ req' = [req EXCEPT ![r] = req'[r]]
    BY <1>1, <1>g
  <2>2. /\ req'[r] \in Request /\ req'[r].at = at /\ req'[r].gen = req[r].gen /\ req'[r].past = req[r].past
        /\ req'[r].read = req[r].read /\ req'[r].aged = req[r].aged /\ req'[r].msg = req[r].msg
        /\ req'[r].key = req[r].key /\ req'[r].mine = req[r].mine /\ req'[r].store = req[r].store
    BY <1>1, <1>g, <2>1 DEF Request, Places
  <2>3. Frame(r)
    BY <1>g, <2>2 DEF Frame, Before, Early, Late, Over
  <2> QED
    BY <1>1, <1>g, <2>1, <2>2, <2>3 DEF Own
(* It ends or goes on, and its session is as it was. *)
<1>f. ASSUME NEW how \in Over \ {"left", "ignored"}, Ends(r, how), req[r].at \in {"taken"} \cup Early \cup Late,
             req[r].at # "running", chat' = chat, how = "answered" => Answers(r) /\ IsLatest(r)
      PROVE  Own(r)
  BY <1>e, <1>s, <1>f
<1>h. ASSUME NEW at \in (Early \cup Late) \ {"created", "cleared", "running"}, Goes(r, at), chat' = chat,
             req[r].at \in Early \cup Late, req[r].at # "running",
             at \in Early => req[r].at \in Early, at \in Late => req[r].at \in Late
      PROVE  Own(r)
  BY <1>g, <1>s, <1>h
<1>5. ASSUME Blocked(r) PROVE Own(r)
  <2>1. "blocked" \in Over \ {"left", "ignored"} /\ "blocked" # "answered"
    BY DEF Over
  <2>2. Ends(r, "blocked") /\ req[r].at \in {"taken"} \cup Early \cup Late /\ req[r].at # "running" /\ chat' = chat
    BY <1>5 DEF Blocked
  <2> QED
    BY <1>f, <2>1, <2>2
<1>6. ASSUME Finds(r) PROVE Own(r)
  <2>1. req[r].at = "taken" /\ chat' = chat
    BY Zenon, <1>6 DEF Finds
  <2>2. ASSUME NEW s \in Rows, req' = [req EXCEPT ![r].at = "found", ![r].mine = s, ![r].off = chat[s].off] PROVE Own(r)
    <3>1. chat[s].off \in BOOLEAN
      BY <1>1 DEF Chat
    <3>2. /\ req'[r] \in Request /\ req' = [req EXCEPT ![r] = req'[r]]
          /\ req'[r].at = "found" /\ req'[r].gen = req[r].gen /\ req'[r].past = req[r].past /\ req'[r].read = req[r].read
          /\ req'[r].aged = req[r].aged /\ req'[r].msg = req[r].msg /\ req'[r].key = req[r].key
          /\ req'[r].store = req[r].store /\ req'[r].mine = s
      BY <1>1, <2>2, <3>1 DEF Request, Places, Early
    <3> QED
      BY <1>6, <1>s, <2>1, <3>2 DEF Own, Frame, Before, Early, Late, Over
  <2>3. CASE req' = [req EXCEPT ![r].at = "created", ![r].mine = r]
    <3>1. /\ req'[r] \in Request /\ req' = [req EXCEPT ![r] = req'[r]]
          /\ req'[r].at = "created" /\ req'[r].gen = req[r].gen /\ req'[r].past = req[r].past /\ req'[r].read = req[r].read
          /\ req'[r].aged = req[r].aged /\ req'[r].msg = req[r].msg /\ req'[r].key = req[r].key
          /\ req'[r].store = req[r].store /\ req'[r].mine = r /\ r \in Rows
      BY <1>1, <2>3 DEF Request, Places, Early, Rows
    <3> QED
      BY <1>6, <1>s, <2>1, <3>1 DEF Own, Frame, Before, Early, Late, Over
  <2> QED
    BY Zenon, <1>6, <2>2, <2>3 DEF Finds
<1>7. ASSUME CommitsNew(r) PROVE Own(r)
  BY <1>7, <1>h DEF CommitsNew, Early, Late
<1>8. ASSUME Provisions(r) PROVE Own(r)
  BY <1>8, <1>f, <1>h DEF Provisions, Early, Late, Over
<1>9. ASSUME Reactivates(r) PROVE Own(r)
  <2>1. /\ req[r].at = "ready" /\ req[r].mine \in Rows
        /\ req' = [req EXCEPT ![r].at = "clearing", ![r].off = FALSE]
        /\ chat' = [chat EXCEPT ![req[r].mine].off = FALSE]
    BY <1>1, <1>9 DEF Reactivates, Early
  <2>2. /\ chat' \in [Rows -> Chat]
        /\ \A s \in Rows : ChatFrame(s, r) /\ chat'[s].active = chat[s].active
    BY ZenonT(40), <1>1, <2>1 DEF ChatFrame, Chat
  <2>3. /\ req'[r] \in Request /\ req' = [req EXCEPT ![r] = req'[r]]
        /\ req'[r].at = "clearing" /\ req'[r].gen = req[r].gen /\ req'[r].past = req[r].past /\ req'[r].read = req[r].read
        /\ req'[r].aged = req[r].aged /\ req'[r].msg = req[r].msg /\ req'[r].key = req[r].key
        /\ req'[r].store = req[r].store /\ req'[r].mine = req[r].mine
    BY <1>1, <2>1 DEF Request, Places, Early
  <2> QED
    BY <2>1, <2>2, <2>3 DEF Own, Frame, Before, Early, Late, Over
<1>10. ASSUME Clears(r) PROVE Own(r)
  BY <1>10, <1>h DEF Clears, Early, Late
<1>11. ASSUME OutOfQuota(r) \/ IsOff(r) \/ NoFile(r) \/ Resets(r) PROVE Own(r)
  BY <1>11, <1>f DEF OutOfQuota, IsOff, NoFile, Resets, Early, Over
<1>12. ASSUME NEW s \in Stores, Counts(r, s) PROVE Own(r)
  BY <1>12, <1>h DEF Counts, Early, Late
<1>13. ASSUME SwitchesOff(r) PROVE Own(r)
  <2>1. /\ req[r].at = "stopping" /\ req[r].mine \in Rows /\ Ends(r, "spamStopped")
        /\ chat' = [chat EXCEPT ![req[r].mine].off = TRUE]
    BY <1>1, <1>13 DEF SwitchesOff, Early
  <2>2. /\ chat' \in [Rows -> Chat]
        /\ \A s \in Rows : ChatFrame(s, r) /\ chat'[s].active = chat[s].active
    BY ZenonT(40), <1>1, <1>13, <2>1 DEF ChatFrame, Chat
  <2>3. "spamStopped" \in Over \ {"left", "ignored"} /\ "spamStopped" # "answered"
    BY DEF Over
  <2>4. req[r].at \in {"taken"} \cup Early \cup Late /\ req[r].at # "running"
    BY <2>1 DEF Early
  <2> QED
    BY <1>e, <2>1, <2>2, <2>3, <2>4
<1>14. ASSUME SavesFile(r) PROVE Own(r)
  <2>1. /\ req[r].at = "passed" /\ req[r].mine \in Rows
        /\ req' = [req EXCEPT ![r].at = "saved", ![r].past = {q \in Requests : req[q].gen > 0}]
        /\ chat' = [chat EXCEPT ![req[r].mine].input = {<<"file", r>>}]
    BY <1>1, <1>14 DEF SavesFile, PutsFile, Early
  <2>2. {<<"file", r>>} \in SUBSET Items
    BY DEF Items
  <2>3. /\ chat' \in [Rows -> Chat]
        /\ \A s \in Rows : ChatFrame(s, r) /\ chat'[s].active = chat[s].active
    BY <1>1, <1>14, <2>1, <2>2 DEF ChatFrame, Chat
  <2>4. /\ req'[r] \in Request /\ req' = [req EXCEPT ![r] = req'[r]]
        /\ req'[r].at = "saved" /\ req'[r].gen = req[r].gen /\ req'[r].read = req[r].read
        /\ req'[r].aged = req[r].aged /\ req'[r].msg = req[r].msg /\ req'[r].key = req[r].key
        /\ req'[r].store = req[r].store /\ req'[r].mine = req[r].mine
    BY Zenon, <1>1, <2>1 DEF Request, Places, Early
  <2> QED
    BY <1>14, <2>1, <2>3, <2>4 DEF Own, Frame, Before, Early, Late, Over
<1>15. ASSUME NamesFile(r) PROVE Own(r)
  <2>1. /\ req[r].at = "saved" /\ req[r].mine \in Rows /\ Goes(r, "asked")
    BY <1>1, <1>15 DEF NamesFile, Early
  <2>2. PICK text \in {{}, {<<"text", r>>}} : chat' = [chat EXCEPT ![req[r].mine].input = @ \cup text]
    BY <1>15 DEF NamesFile
  <2>3. text \in SUBSET Items
    BY DEF Items
  <2>4. /\ chat' \in [Rows -> Chat]
        /\ \A s \in Rows : ChatFrame(s, r) /\ chat'[s].active = chat[s].active
    BY <1>1, <1>15, <2>1, <2>2, <2>3 DEF ChatFrame, Chat
  <2> QED
    BY <1>g, <2>1, <2>4 DEF Early, Late
<1>16. ASSUME HasNoFile(r) PROVE Own(r)
  BY <1>16, <1>h DEF HasNoFile, Early, Late
<1>17. ASSUME MarksLatest(r) PROVE Own(r)
  <2>1. /\ req[r].at = "asked" /\ req[r].mine \in Rows
        /\ chat' = [chat EXCEPT ![req[r].mine].gen = @ + 1]
        /\ req' = [req EXCEPT ![r].at = "marked", ![r].gen = chat[req[r].mine].gen + 1]
    BY <1>1, <1>17 DEF MarksLatest, Early
  <2>2. chat[req[r].mine].gen + 1 \in Nat
    BY <1>1, <2>1 DEF Chat
  <2>3. /\ chat' \in [Rows -> Chat]
        /\ \A s \in Rows : ChatFrame(s, r) /\ chat'[s].active = chat[s].active
    BY <1>1, <1>17, <2>1, <2>2 DEF ChatFrame, Chat
  <2>4. /\ req'[r] \in Request /\ req' = [req EXCEPT ![r] = req'[r]]
        /\ req'[r].at = "marked" /\ req'[r].past = req[r].past /\ req'[r].read = req[r].read
        /\ req'[r].aged = req[r].aged /\ req'[r].msg = req[r].msg /\ req'[r].key = req[r].key
        /\ req'[r].store = req[r].store /\ req'[r].mine = req[r].mine
    BY <1>1, <2>1, <2>2 DEF Request, Places, Late
  <2> QED
    BY <1>17, <2>1, <2>3, <2>4 DEF Own, Frame, Before, Early, Late, Over
<1>18. ASSUME GivesUp(r) PROVE Own(r)
  <2>1. "timeout" \in Over \ {"left", "ignored"} /\ "timeout" # "answered"
    BY DEF Over
  <2>2. Ends(r, "timeout") /\ req[r].at \in {"taken"} \cup Early \cup Late /\ req[r].at # "running" /\ chat' = chat
    BY <1>18 DEF GivesUp, Late
  <2> QED
    BY <1>f, <2>1, <2>2
<1>19. ASSUME GetsLock(r) PROVE Own(r)
  <2>1. /\ req[r].at = "waiting" /\ req[r].mine \in Rows /\ Goes(r, "locked")
        /\ chat' = [chat EXCEPT ![req[r].mine].holder = r]
    BY <1>1, <1>19 DEF GetsLock, Late
  <2>2. /\ chat' \in [Rows -> Chat]
        /\ \A s \in Rows : ChatFrame(s, r) /\ chat'[s].active = chat[s].active
    BY <1>1, <2>1 DEF ChatFrame, Chat
  <2> QED
    BY <1>g, <2>1, <2>2 DEF Early, Late
<1>20. ASSUME NEW s \in Rows, chat' = [chat EXCEPT ![s] = Free(@)]
       PROVE  /\ chat' \in [Rows -> Chat] /\ chat'[s].active = NoOne
              /\ \A t \in Rows : ChatFrame(t, r) /\ chat'[t].active \in {NoOne, chat[t].active}
  <2>1. Free(chat[s]) \in Chat /\ Free(chat[s]) = [chat[s] EXCEPT !.holder = NoOne, !.active = NoOne]
    BY <1>1 DEF Free, Chat
  <2> QED
    BY <1>1, <1>20, <2>1 DEF ChatFrame, Chat
<1>21. ASSUME Refrains(r) PROVE Own(r)
  <2>1. "stale" \in Over \ {"left", "ignored"} /\ "stale" # "answered"
    BY DEF Over
  <2>2. /\ Ends(r, "stale") /\ req[r].at \in {"taken"} \cup Early \cup Late
        /\ req[r].mine \in Rows /\ chat' = [chat EXCEPT ![req[r].mine] = Free(@)]
    BY <1>1, <1>21 DEF Refrains, Late
  <2>3. /\ chat' \in [Rows -> Chat] /\ chat'[req[r].mine].active = NoOne
        /\ \A t \in Rows : ChatFrame(t, r) /\ chat'[t].active \in {NoOne, chat[t].active}
    BY <1>20, <2>2
  <2> QED
    BY <1>e, <2>1, <2>2, <2>3
<1>22. ASSUME MayRun(r) PROVE Own(r)
  BY <1>22, <1>g, <1>s DEF MayRun, Early, Late
<1>23. ASSUME Runs(r) PROVE Own(r)
  <2>1. /\ req[r].at = "cleared" /\ req[r].mine \in Rows /\ Goes(r, "running")
        /\ chat' = [chat EXCEPT ![req[r].mine].active = r]
    BY <1>1, <1>23 DEF Runs, Late
  <2>2. /\ chat' \in [Rows -> Chat]
        /\ \A s \in Rows : ChatFrame(s, r) /\ (chat'[s].active = chat[s].active \/ (s = req[r].mine /\ chat'[s].active = r))
    BY <1>1, <2>1 DEF ChatFrame, Chat
  <2> QED
    BY <1>g, <2>1, <2>2 DEF Early, Late
<1>24. ASSUME ReadsFile(r) PROVE Own(r)
  <2>1. /\ req[r].at = "running" /\ req[r].mine \in Rows /\ chat' = chat
        /\ req' = [req EXCEPT ![r].read = chat[req[r].mine].input]
    BY <1>1, <1>24 DEF ReadsFile, Late
  <2>2. chat[req[r].mine].input \in SUBSET Items
    BY <1>1, <2>1 DEF Chat
  <2>3. /\ req'[r] \in Request /\ req' = [req EXCEPT ![r] = req'[r]]
        /\ req'[r].at = "running" /\ req'[r].past = req[r].past /\ req'[r].gen = req[r].gen
        /\ req'[r].aged = req[r].aged /\ req'[r].msg = req[r].msg /\ req'[r].key = req[r].key
        /\ req'[r].store = req[r].store /\ req'[r].mine = req[r].mine
    BY <1>1, <2>1, <2>2 DEF Request
  <2> QED
    BY <1>24, <1>s, <2>1, <2>3 DEF Own, Frame, Before, Early, Late, Over
<1>25. ASSUME RunEnds(r) PROVE Own(r)
  BY <1>1, <1>25, <1>g, <1>20 DEF RunEnds, Early, Late
<1>26. ASSUME RunFails(r) PROVE Own(r)
  <2>1. "errored" \in Over \ {"left", "ignored"} /\ "errored" # "answered"
    BY DEF Over
  <2>2. /\ Ends(r, "errored") /\ req[r].at \in {"taken"} \cup Early \cup Late
        /\ req[r].mine \in Rows /\ chat' = [chat EXCEPT ![req[r].mine] = Free(@)]
    BY <1>1, <1>26 DEF RunFails, Late
  <2>3. /\ chat' \in [Rows -> Chat] /\ chat'[req[r].mine].active = NoOne
        /\ \A t \in Rows : ChatFrame(t, r) /\ chat'[t].active \in {NoOne, chat[t].active}
    BY <1>20, <2>2
  <2> QED
    BY <1>e, <2>1, <2>2, <2>3
<1>27. ASSUME Answers(r) PROVE Own(r)
  <2> DEFINE how == IF IsLatest(r) THEN "answered" ELSE "suppressed"
  <2>1. how \in Over \ {"left", "ignored"} /\ (how = "answered" => Answers(r) /\ IsLatest(r))
    BY <1>27 DEF Over
  <2>2. Ends(r, how) /\ req[r].at \in {"taken"} \cup Early \cup Late /\ req[r].at # "running" /\ chat' = chat
    BY <1>27 DEF Answers, Late
  <2> HIDE DEF how
  <2> QED
    BY <1>f, <2>1, <2>2
<1> QED
  BY <1>3, <1>4, <1>5, <1>6, <1>7, <1>8, <1>9, <1>10, <1>11, <1>12, <1>13, <1>14, <1>15, <1>16, <1>17, <1>18,
     <1>19, <1>21, <1>22, <1>23, <1>24, <1>25, <1>26, <1>27

(* What a step of r does to the books: the marks, the rows, the identities' *)
(* locks, the runs that slipped through.                                    *)
BookFrame(r) ==
    /\ kind' \in [Messages -> Kind \cup {"none"}]
    /\ marks' = marks \/ \E s \in Stores : Checks(r, s)
    /\ row' = row \/ CommitsNew(r)
    /\ slipped' = slipped \/ SwitchesOff(r)
    /\ latch' \in [Keys -> Requests \cup {NoOne}]
    /\ \A k \in Keys : latch'[k] = latch[k] \/ latch[k] \in {r, NoOne}

LEMMA BooksStay ==
  ASSUME GateInv, NEW r \in Requests, Step(r)
  PROVE  BookFrame(r)
<1>1. /\ kind \in [Messages -> Kind \cup {"none"}] /\ latch \in [Keys -> Requests \cup {NoOne}]
      /\ req \in [Requests -> Request]
  BY SMTT(30) DEF GateInv, TypeInv
<1>2. kind' = kind \/ \E m \in Messages, phone \in BOOLEAN : Arrives(r, m, phone)
  BY ZenonT(60) DEF Step, Checks, Counts, Leaves, Blocked, Finds, CommitsNew, Provisions, Reactivates, Clears, OutOfQuota,
         StopsSpam, SwitchesOff, IsOff, IsNoise, NoFile, SavesFile, NamesFile, HasNoFile, Resets, MarksLatest,
         StopsPrior, GivesUp, GetsLock, Refrains, MayRun, Runs, ReadsFile, RunEnds, RunFails, Answers
<1>3. kind' \in [Messages -> Kind \cup {"none"}]
  <2>1. CASE kind' = kind
    BY <1>1, <2>1
  <2>2. ASSUME NEW m \in Messages, NEW phone \in BOOLEAN, Arrives(r, m, phone)
        PROVE  kind' \in [Messages -> Kind \cup {"none"}]
    <3>1. kind' = kind \/ \E k \in Kinds : kind' = [kind EXCEPT ![m] = k]
      BY SMTT(60), <2>2 DEF Arrives
    <3>2. ASSUME NEW k \in Kinds, kind' = [kind EXCEPT ![m] = k] PROVE kind' \in [Messages -> Kind \cup {"none"}]
      BY SMTT(30), <1>1, <3>2, InboundBounds
    <3> QED
      BY <1>1, <3>1, <3>2
  <2> QED
    BY <1>2, <2>1, <2>2
<1>4. marks' = marks \/ \E s \in Stores : Checks(r, s)
  BY ZenonT(60) DEF Step, Arrives, Counts, Leaves, Blocked, Finds, CommitsNew, Provisions, Reactivates, Clears, OutOfQuota,
         StopsSpam, SwitchesOff, IsOff, IsNoise, NoFile, SavesFile, NamesFile, HasNoFile, Resets, MarksLatest,
         StopsPrior, GivesUp, GetsLock, Refrains, MayRun, Runs, ReadsFile, RunEnds, RunFails, Answers
<1>5. row' = row \/ CommitsNew(r)
  BY ZenonT(60) DEF Step, Arrives, Checks, Counts, Leaves, Blocked, Finds, Provisions, Reactivates, Clears, OutOfQuota,
         StopsSpam, SwitchesOff, IsOff, IsNoise, NoFile, SavesFile, NamesFile, HasNoFile, Resets, MarksLatest,
         StopsPrior, GivesUp, GetsLock, Refrains, MayRun, Runs, ReadsFile, RunEnds, RunFails, Answers
<1>6. slipped' = slipped \/ SwitchesOff(r)
  BY ZenonT(60) DEF Step, Arrives, Checks, Counts, Leaves, Blocked, Finds, CommitsNew, Provisions, Reactivates, Clears, OutOfQuota,
         StopsSpam, IsOff, IsNoise, NoFile, SavesFile, NamesFile, HasNoFile, Resets, MarksLatest,
         StopsPrior, GivesUp, GetsLock, Refrains, MayRun, Runs, ReadsFile, RunEnds, RunFails, Answers
<1>7. latch' = latch \/ latch' = Unlatched(r) \/ LooksUp(r)
  BY ZenonT(60) DEF Step, Arrives, Checks, Counts, Leaves, Blocked, Finds, CommitsNew, Provisions, Reactivates, Clears, OutOfQuota,
         StopsSpam, SwitchesOff, IsOff, IsNoise, NoFile, SavesFile, NamesFile, HasNoFile, Resets, MarksLatest,
         StopsPrior, GivesUp, GetsLock, Refrains, MayRun, Runs, ReadsFile, RunEnds, RunFails, Answers
<1>8. /\ latch' \in [Keys -> Requests \cup {NoOne}]
      /\ \A k \in Keys : latch'[k] = latch[k] \/ latch[k] \in {r, NoOne}
  BY <1>1, <1>7 DEF Unlatched, LooksUp
<1> QED
  BY <1>3, <1>4, <1>5, <1>6, <1>8 DEF BookFrame

(* A step that stops a run, of its session or of all the customer's.        *)
LEMMA Stopping ==
  ASSUME GateInv, NEW r \in Requests, StopsSpam(r) \/ IsNoise(r) \/ StopsPrior(r) \/ Leaves(r)
  PROVE  /\ req' \in [Requests -> Request] /\ chat' \in [Rows -> Chat] /\ Settled' /\ ActiveRuns'
         /\ \A q \in Requests : Frame(q) /\ (req[q].at # "running" /\ q # r => req'[q] = req[q])
         /\ \A s \in Rows : ChatFrame(s, r)
<1>1. /\ req \in [Requests -> Request] /\ chat \in [Rows -> Chat] /\ NoOne \notin Requests
      /\ \A q \in Requests : req[q].at \in Places /\ req[q].past \subseteq Requests
  BY InboundBounds DEF GateInv, TypeInv, Request
<1>2. "cancelled" \in Over /\ "running" \in Late
  BY DEF Over, Late
<1>3. ASSUME NEW q \in Requests, req[q].at = "running", req'[q] = Ended(req[q], "cancelled")
      PROVE  Frame(q) /\ req'[q] \in Request /\ req'[q].at = "cancelled"
  <2>1. /\ req'[q] \in Request /\ req'[q].at = "cancelled"
        /\ req'[q].mine = req[q].mine /\ req'[q].key = req[q].key
        /\ req'[q].msg = req[q].msg /\ req'[q].store = req[q].store
        /\ req'[q].aged = req[q].aged /\ req'[q].gen = req[q].gen
        /\ req'[q].past = {} /\ req'[q].read = {}
    BY <1>1, <1>2, <1>3, EndedIs
  <2> QED
    BY <1>3, <2>1 DEF Frame, Before, Early, Late, Over
<1>4. ASSUME NEW at \in Places, req[r].at \in (Early \cup Late) \ {"running"}, StopsRun(req[r].mine, r, at),
             <<req[r].at, at>> \in {<<"spam", "stopping">>, <<"passed", "noise">>, <<"marked", "waiting">>}
      PROVE  /\ req' \in [Requests -> Request] /\ chat' \in [Rows -> Chat] /\ Settled' /\ ActiveRuns'
             /\ \A q \in Requests : Frame(q) /\ (req[q].at # "running" /\ q # r => req'[q] = req[q])
             /\ \A s \in Rows : ChatFrame(s, r)
  <2> DEFINE s == req[r].mine
  <2>1. s \in Rows /\ req[r].at # "running"
    BY <1>4 DEF GateInv, Settled
  <2>2. /\ req' \in [Requests -> Request] /\ chat' \in [Rows -> Chat]
        /\ chat'[s] = [chat[s] EXCEPT !.holder = chat'[s].holder, !.active = NoOne]
        /\ \A t \in Rows \ {s} : chat'[t] = chat[t]
        /\ req'[r] = [req[r] EXCEPT !.at = at]
        /\ \A q \in Requests \ {r} :
             \/ req'[q] = req[q] /\ chat[s].active # q
             \/ req[q].at = "running" /\ chat[s].active = q /\ req'[q] = Ended(req[q], "cancelled")
    BY Zenon, <1>4, <2>1, StoppingARun
  <2> HIDE DEF s
  <2>3. /\ req'[r].at = at /\ req'[r].gen = req[r].gen /\ req'[r].past = req[r].past
        /\ req'[r].read = req[r].read /\ req'[r].aged = req[r].aged /\ req'[r].msg = req[r].msg
        /\ req'[r].key = req[r].key /\ req'[r].mine = req[r].mine /\ req'[r].store = req[r].store
    BY <1>1, <2>2 DEF Request
  <2>4. Frame(r)
    BY <1>4, <2>3 DEF Frame, Before, Early, Late, Over
  <2>5. \A q \in Requests : Frame(q)
    BY <1>1, <1>3, <2>2, <2>4, SameRequest
  <2>6. chat'[s].active = NoOne /\ chat'[s].off = chat[s].off /\ chat'[s].gen = chat[s].gen /\ chat'[s].input = chat[s].input
    <3>1. s \in Rows /\ chat[s] \in Chat
      BY <1>1, <2>1
    <3> QED
      BY <2>2, <3>1 DEF Chat
  <2>7. \A t \in Rows : ChatFrame(t, r)
    BY <2>2, <2>6 DEF ChatFrame
  <2>8. Settled'
    <3> SUFFICES ASSUME NEW q \in Requests, req'[q].at \in Early \cup Late PROVE req'[q].mine \in Rows
      BY DEF Settled
    <3>1. CASE q = r
      BY <2>1, <2>3, <3>1 DEF s
    <3>2. CASE q # r
      <4>1. req'[q] = req[q]
        BY <1>3, <2>2, <3>2 DEF Early, Late
      <4> QED
        BY <4>1 DEF GateInv, Settled
    <3> QED
      BY <3>1, <3>2
  <2>9. ActiveRuns'
    <3> SUFFICES ASSUME NEW t \in Rows, chat'[t].active # NoOne
                 PROVE  req'[chat'[t].active].at = "running" /\ req'[chat'[t].active].mine = t
      BY DEF ActiveRuns
    <3>1. t # s /\ chat'[t] = chat[t]
      BY <2>2, <2>6
    <3> DEFINE q == chat[t].active
    <3>2. q \in Requests /\ req[q].at = "running" /\ req[q].mine = t /\ q # r
      BY <1>1, <2>1, <3>1 DEF GateInv, ActiveRuns, Chat
    <3>3. chat[s].active # q
      BY <1>1, <2>1, <3>1, <3>2 DEF GateInv, ActiveRuns
    <3> HIDE DEF q
    <3>4. req'[q] = req[q]
      BY <2>2, <3>2, <3>3
    <3> QED
      BY <3>1, <3>2, <3>4 DEF q
  <2> QED
    BY <2>2, <2>5, <2>7, <2>8, <2>9, Zenon
<1>5. CASE StopsSpam(r)
  <2>1. "stopping" \in Places /\ req[r].at = "spam" /\ req[r].at \in (Early \cup Late) \ {"running"} /\ StopsRun(req[r].mine, r, "stopping")
    BY <1>5 DEF StopsSpam, Places, Early
  <2> QED
    BY <1>4, <2>1
<1>6. CASE IsNoise(r)
  <2>1. "noise" \in Places /\ req[r].at = "passed" /\ req[r].at \in (Early \cup Late) \ {"running"} /\ StopsRun(req[r].mine, r, "noise")
    BY <1>6 DEF IsNoise, Places, Early, Over
  <2> QED
    BY <1>4, <2>1
<1>7. CASE StopsPrior(r)
  <2>1. "waiting" \in Places /\ req[r].at = "marked" /\ req[r].at \in (Early \cup Late) \ {"running"} /\ StopsRun(req[r].mine, r, "waiting")
    BY <1>7 DEF StopsPrior, Places, Late
  <2> QED
    BY <1>4, <2>1
<1>8. CASE Leaves(r)
  <2> DEFINE left == {s \in Rows : row[s] = req[r].key}
             out(q) == \E s \in left : chat[s].active = q
  <2>1. /\ req[r].at = "known"
        /\ chat' = [s \in Rows |-> IF s \in left THEN Stopped(chat[s]) ELSE chat[s]]
        /\ req' = [q \in Requests |-> IF out(q) THEN Ended(req[q], "cancelled")
                                      ELSE IF q = r THEN Ended(req[q], "left") ELSE req[q]]
    BY <1>8 DEF Leaves
  <2> HIDE DEF left
  <2>2. \A q \in Requests : out(q) => req[q].at = "running"
    BY <1>1 DEF GateInv, ActiveRuns, left
  <2>3. \A s \in Rows : /\ Stopped(chat[s]) \in Chat /\ Stopped(chat[s]).active = NoOne /\ Stopped(chat[s]).off = chat[s].off
                        /\ Stopped(chat[s]).gen = chat[s].gen /\ Stopped(chat[s]).input = chat[s].input
    BY <1>1 DEF Stopped, Free, Chat
  <2>4. chat' \in [Rows -> Chat]
    BY <1>1, <2>1, <2>3
  <2>5. \A s \in Rows : ChatFrame(s, r) /\ chat'[s].active \in {NoOne, chat[s].active} /\ (s \in left => chat'[s].active = NoOne)
    BY <1>1, <2>1, <2>3 DEF ChatFrame
  <2>6. \A q \in Requests : /\ out(q) => req'[q] = Ended(req[q], "cancelled")
                            /\ ~out(q) /\ q # r => req'[q] = req[q]
                            /\ ~out(q) /\ q = r => req'[q] = Ended(req[q], "left")
    BY <1>1, <2>1
  <2>7. ~out(r)
    BY <2>1, <2>2
  <2> HIDE DEF out
  <2>8. Frame(r) /\ req'[r] \in Request /\ req'[r].at = "left"
    <3>1. "left" \in Over /\ req'[r] = Ended(req[r], "left")
      BY <2>6, <2>7 DEF Over
    <3>2. /\ req'[r] \in Request /\ req'[r].at = "left"
          /\ req'[r].mine = req[r].mine /\ req'[r].key = req[r].key
          /\ req'[r].msg = req[r].msg /\ req'[r].store = req[r].store
          /\ req'[r].aged = req[r].aged /\ req'[r].gen = req[r].gen
          /\ req'[r].past = {} /\ req'[r].read = {}
      BY <1>1, <3>1, EndedIs
    <3> QED
      BY <2>1, <3>2 DEF Frame, Before, Early, Late, Over
  <2>9. \A q \in Requests : Frame(q) /\ req'[q] \in Request /\ (out(q) => req'[q].at = "cancelled")
    BY <1>1, <1>3, <2>2, <2>6, <2>7, <2>8, SameRequest
  <2>10. req' \in [Requests -> Request]
    BY <1>1, <2>1, <2>9
  <2>11. Settled'
    BY <2>6, <2>8, <2>9 DEF GateInv, Settled, Early, Late
  <2>12. ActiveRuns'
    <3> SUFFICES ASSUME NEW t \in Rows, chat'[t].active # NoOne
                 PROVE  req'[chat'[t].active].at = "running" /\ req'[chat'[t].active].mine = t
      BY DEF ActiveRuns
    <3> DEFINE q == chat[t].active
    <3>1. q \in Requests /\ chat'[t].active = q /\ t \notin left /\ req[q].at = "running" /\ req[q].mine = t
      BY <1>1, <2>5 DEF GateInv, ActiveRuns, Chat
    <3>2. ~out(q) /\ q # r
      BY <1>1, <2>1, <3>1 DEF GateInv, ActiveRuns, out, left
    <3> HIDE DEF q
    <3> QED
      BY <2>6, <3>1, <3>2
  <2> QED
    BY <2>2, <2>4, <2>5, <2>6, <2>9, <2>10, <2>11, <2>12
<1> QED
  BY <1>5, <1>6, <1>7, <1>8

(* Any step of a request. *)
LEMMA StepFrame ==
  ASSUME GateInv, NEW r \in Requests, Step(r)
  PROVE  /\ req' \in [Requests -> Request] /\ chat' \in [Rows -> Chat] /\ Settled' /\ ActiveRuns'
         /\ \A q \in Requests : Frame(q) /\ (req[q].at # "running" /\ q # r => req'[q] = req[q])
         /\ \A s \in Rows : ChatFrame(s, r)
<1>1. CASE StopsSpam(r) \/ IsNoise(r) \/ StopsPrior(r) \/ Leaves(r)
  BY <1>1, Stopping
<1>2. CASE ~(StopsSpam(r) \/ IsNoise(r) \/ StopsPrior(r) \/ Leaves(r))
  <2>1. Own(r)
    BY <1>2, ActsAlone DEF Step
  <2> QED
    BY <2>1, OwnStep DEF Own
<1> QED
  BY <1>1, <1>2

(* An operator's /aktif and the minute that passes change no request but for *)
(* the age of its mark.                                                      *)
Elsewhere ==
    /\ \A q \in Requests : req'[q] = [req[q] EXCEPT !.aged = req'[q].aged] /\ (req[q].aged => req'[q].aged)
    /\ \A s \in Rows : /\ chat'[s].gen = chat[s].gen /\ chat'[s].input = chat[s].input
                       /\ chat'[s].active = chat[s].active /\ (chat'[s].off => chat[s].off)
    /\ UNCHANGED <<kind, latch, row, slipped>>

LEMMA OtherSteps ==
  ASSUME GateInv, MinutePasses \/ \E s \in Rows : Activates(s)
  PROVE  /\ Elsewhere /\ req' \in [Requests -> Request] /\ chat' \in [Rows -> Chat]
         /\ Settled' /\ ActiveRuns' /\ \A q \in Requests : Frame(q)
<1>1. req \in [Requests -> Request] /\ chat \in [Rows -> Chat] /\ NoOne \notin Requests
  BY InboundBounds DEF GateInv, TypeInv
<1>2. Elsewhere /\ req' \in [Requests -> Request] /\ chat' \in [Rows -> Chat]
  <2>1. CASE MinutePasses
    <3>1. \/ req' = req
          \/ req' = [r \in Requests |-> [req[r] EXCEPT !.aged = @ \/ req[r].at \notin {"idle", "known"}]]
      BY <2>1 DEF MinutePasses
    <3>2. ASSUME NEW q \in Requests
          PROVE  /\ req'[q] \in Request /\ (req[q].aged => req'[q].aged)
                 /\ req'[q] = [req[q] EXCEPT !.aged = req'[q].aged]
      <4>1. req[q] \in Request /\ req[q].aged \in BOOLEAN
        BY <1>1 DEF Request
      <4>2. CASE req'[q] = req[q]
        BY <4>1, <4>2 DEF Request
      <4>3. ASSUME NEW old \in BOOLEAN, req'[q] = [req[q] EXCEPT !.aged = old], req[q].aged => old
            PROVE  /\ req'[q] \in Request /\ (req[q].aged => req'[q].aged)
                   /\ req'[q] = [req[q] EXCEPT !.aged = req'[q].aged]
        BY <4>1, <4>3 DEF Request
      <4>4. (req[q].aged \/ req[q].at \notin {"idle", "known"}) \in BOOLEAN
        OBVIOUS
      <4>5. \/ req'[q] = req[q]
            \/ req'[q] = [req[q] EXCEPT !.aged = req[q].aged \/ req[q].at \notin {"idle", "known"}]
        BY <1>1, <3>1, Zenon
      <4> QED
        BY <4>2, <4>3, <4>4, <4>5, Zenon
    <3>3. req' \in [Requests -> Request]
      <4>1. req' = [q \in Requests |-> req'[q]]
        BY <1>1, <3>1, Zenon
      <4> QED
        BY <3>2, <4>1
    <3> QED
      BY <1>1, <2>1, <3>2, <3>3 DEF MinutePasses, Elsewhere
  <2>2. ASSUME NEW s \in Rows, Activates(s)
        PROVE  Elsewhere /\ req' \in [Requests -> Request] /\ chat' \in [Rows -> Chat]
    <3>1. chat' = [chat EXCEPT ![s].off = FALSE] /\ req' = req /\ UNCHANGED <<kind, latch, row, slipped>>
      BY <2>2 DEF Activates
    <3>2. \A q \in Requests : req[q] = [req[q] EXCEPT !.aged = req[q].aged]
      BY <1>1 DEF Request
    <3>3. /\ chat' \in [Rows -> Chat]
          /\ \A t \in Rows : /\ chat'[t].gen = chat[t].gen /\ chat'[t].input = chat[t].input
                             /\ chat'[t].active = chat[t].active /\ (chat'[t].off => chat[t].off)
      BY ZenonT(40), <1>1, <3>1 DEF Chat
    <3> QED
      BY <1>1, <3>1, <3>2, <3>3 DEF Elsewhere
  <2> QED
    BY <2>1, <2>2
<1>3. \A q \in Requests : /\ req'[q].at = req[q].at /\ req'[q].mine = req[q].mine /\ req'[q].msg = req[q].msg
                          /\ req'[q].key = req[q].key /\ req'[q].store = req[q].store /\ req'[q].gen = req[q].gen
                          /\ req'[q].past = req[q].past /\ req'[q].read = req[q].read
  BY <1>1, <1>2 DEF Elsewhere, Request
<1>4. Settled'
  BY <1>3 DEF GateInv, Settled
<1>5. ActiveRuns'
  BY <1>1, <1>2, <1>3 DEF GateInv, ActiveRuns, Elsewhere, Chat
<1>6. \A q \in Requests : Frame(q)
  BY <1>1, <1>2, <1>3 DEF Frame, Elsewhere, Before, Early, Late, Over, Request, Places
<1> QED
  BY <1>2, <1>4, <1>5, <1>6

LEMMA GateStep == ASSUME GateInv, [Next]_vars PROVE GateInv'
<1>1. ASSUME NEW r \in Requests, Step(r) PROVE GateInv'
  <2>1. /\ req' \in [Requests -> Request] /\ chat' \in [Rows -> Chat] /\ Settled' /\ ActiveRuns'
    BY <1>1, StepFrame
  <2>2. BookFrame(r)
    BY <1>1, BooksStay
  <2>3. req[r] \in Request
    BY DEF GateInv, TypeInv
  <2>4. marks' \in [Stores -> SUBSET (Keys \X (Messages \cup {NoOne}))]
    BY <2>2, <2>3 DEF BookFrame, Checks, Marks, Mark, GateInv, TypeInv, Request
  <2>5. row' \in [Rows -> Keys \cup {"none"}]
    BY <2>2, <2>3 DEF BookFrame, CommitsNew, GateInv, TypeInv, Request
  <2>6. slipped' \subseteq Requests
    BY <2>2 DEF BookFrame, SwitchesOff, GateInv, TypeInv
  <2> QED
    BY <2>1, <2>2, <2>4, <2>5, <2>6 DEF BookFrame, GateInv, TypeInv
<1>2. ASSUME MinutePasses \/ \E s \in Rows : Activates(s) PROVE GateInv'
  <2>1. Elsewhere /\ req' \in [Requests -> Request] /\ chat' \in [Rows -> Chat] /\ Settled' /\ ActiveRuns'
    BY <1>2, OtherSteps
  <2>2. marks' \in [Stores -> SUBSET (Keys \X (Messages \cup {NoOne}))]
    BY <1>2 DEF GateInv, TypeInv, MinutePasses, Activates
  <2> QED
    BY <2>1, <2>2 DEF GateInv, TypeInv, Elsewhere
<1>3. CASE UNCHANGED vars
  BY <1>3 DEF vars, GateInv, TypeInv, Settled, ActiveRuns
<1> QED
  BY <1>1, <1>2, <1>3 DEF Next

-----------------------------------------------------------------------------
(* The marks of the duplicate check are those of the messages that were     *)
(* taken, all of them but the aged ones; a message is ignored for one that  *)
(* was taken.                                                               *)
Unaged == \A r \in Requests : Taken(r) => req[r].store \in Stores /\ (req[r].aged \/ Mark(r) \in marks[req[r].store])
Earned == \A s \in Stores : \A m \in marks[s] : \E q \in Requests : Taken(q) /\ Mark(q) = m /\ req[q].store = s
Alone == \A r, q \in Requests : Again(r, q) /\ Taken(r) /\ Taken(q) => ~Alike(r, q) \/ req[r].aged \/ req[q].aged
IgnoredForTaken == \A r \in Requests : req[r].at = "ignored" => \E q \in Requests : Again(r, q) /\ Taken(q) /\ Alike(r, q)
MarksInv == Unaged /\ Earned /\ Alone /\ IgnoredForTaken

(* Whoever makes a session holds its identity's lock, and no session has it. *)
LatchHeld == \A r \in Requests : req[r].at = "created" =>
                latch[req[r].key] = r /\ \A s \in Rows : row[s] # req[r].key
OneEach == \A s, t \in Rows : s # t /\ row[s] # "none" => row[s] # row[t]

TakenInv == GateInv /\ MarksInv /\ LatchHeld /\ OneEach

LEMMA TakenInit == Init => TakenInv
<1> SUFFICES ASSUME Init PROVE TakenInv
  OBVIOUS
<1>1. GateInv
  BY GateInit
<1>2. \A r \in Requests : req[r].at = "idle"
  BY DEF Init, Fresh
<1>3. \A s \in Stores : marks[s] = {}
  BY DEF Init
<1>4. MarksInv /\ LatchHeld
  BY <1>2, <1>3 DEF MarksInv, Unaged, Earned, Alone, IgnoredForTaken, LatchHeld, Taken
<1>5. \A s \in Rows : s # Earlier => row[s] = "none"
  BY DEF Init
<1>6. OneEach
  BY <1>5 DEF OneEach
<1> QED
  BY <1>1, <1>4, <1>6 DEF TakenInv

(* A taken request stays taken, under its mark and in its store.            *)
LEMMA StaysTaken ==
  ASSUME TypeInv, NEW q \in Requests, Frame(q), Taken(q)
  PROVE  Taken(q)' /\ Mark(q)' = Mark(q) /\ req'[q].store = req[q].store /\ req'[q].key = req[q].key /\ req'[q].msg = req[q].msg
BY DEF Taken, Mark, Frame

(* One becomes taken, or is ignored, only by the duplicate check.           *)
LEMMA IsChecked ==
  ASSUME TypeInv, NEW q \in Requests, Frame(q), ~Taken(q), req[q].at # "ignored", Taken(q)' \/ req'[q].at = "ignored"
  PROVE  \E s \in Stores : Checks(q, s)
BY DEF Taken, Frame, Over

LEMMA TheCheck ==
  ASSUME TypeInv, NEW r \in Requests, NEW s \in Stores, Checks(r, s)
  PROVE  /\ req[r].at = "known" /\ req'[r].key = req[r].key /\ req'[r].msg = req[r].msg /\ req'[r].store = s
         /\ req'[r].aged = req[r].aged /\ Mark(r)' = Mark(r) /\ \A q \in Requests \ {r} : req'[q] = req[q]
         /\ \/ Mark(r) \in marks[s] /\ marks' = marks /\ req'[r].at = "ignored"
            \/ /\ Mark(r) \notin marks[s] /\ req'[r].at = "taken"
               /\ marks'[s] = marks[s] \cup {Mark(r)} /\ \A t \in Stores \ {s} : marks'[t] = marks[t]
<1>1. req \in [Requests -> Request] /\ req[r] \in Request
  BY DEF TypeInv
<1>2. marks \in [Stores -> SUBSET (Keys \X (Messages \cup {NoOne}))]
  BY DEF TypeInv
<1>3. CASE Mark(r) \in marks[s]
  <2>1. req' = [req EXCEPT ![r] = [Ended(@, "ignored") EXCEPT !.store = s]] /\ marks' = marks /\ req[r].at = "known"
    BY <1>3 DEF Checks
  <2>2. req'[r] = [Ended(req[r], "ignored") EXCEPT !.store = s] /\ \A q \in Requests \ {r} : req'[q] = req[q]
    BY <1>1, <2>1
  <2>3. req'[r].at = "ignored" /\ req'[r].key = req[r].key /\ req'[r].msg = req[r].msg /\ req'[r].store = s
        /\ req'[r].aged = req[r].aged
    BY <1>1, <2>2 DEF Ended, Request
  <2> QED
    BY <1>3, <2>1, <2>2, <2>3 DEF Mark
<1>4. CASE Mark(r) \notin marks[s]
  <2>1. req' = [req EXCEPT ![r].at = "taken", ![r].store = s] /\ req[r].at = "known"
        /\ marks' = [marks EXCEPT ![s] = @ \cup {Mark(r)}]
    BY <1>4 DEF Checks, Marks
  <2>2. req'[r] = [req[r] EXCEPT !.at = "taken", !.store = s] /\ \A q \in Requests \ {r} : req'[q] = req[q]
    BY <1>1, <2>1
  <2>3. req'[r].at = "taken" /\ req'[r].key = req[r].key /\ req'[r].msg = req[r].msg /\ req'[r].store = s
        /\ req'[r].aged = req[r].aged
    BY <1>1, <2>2 DEF Request
  <2>4. marks'[s] = marks[s] \cup {Mark(r)} /\ \A t \in Stores \ {s} : marks'[t] = marks[t]
    BY <1>2, <2>1
  <2> QED
    BY <1>4, <2>1, <2>2, <2>3, <2>4 DEF Mark
<1> QED
  BY <1>3, <1>4

LEMMA MarksAtTheCheck ==
  ASSUME GateInv, MarksInv, NEW r \in Requests, NEW s \in Stores, Checks(r, s)
  PROVE  MarksInv'
<1> DEFINE new == Mark(r) \notin marks[s]
<1>1. /\ req[r].at = "known" /\ req'[r].key = req[r].key /\ req'[r].msg = req[r].msg /\ req'[r].store = s
      /\ req'[r].aged = req[r].aged /\ Mark(r)' = Mark(r) /\ \A q \in Requests \ {r} : req'[q] = req[q]
      /\ \/ ~new /\ marks' = marks /\ req'[r].at = "ignored"
         \/ /\ new /\ req'[r].at = "taken"
            /\ marks'[s] = marks[s] \cup {Mark(r)} /\ \A t \in Stores \ {s} : marks'[t] = marks[t]
  BY TheCheck DEF GateInv
<1>2. ~Taken(r) /\ (Taken(r)' <=> new)
  BY <1>1 DEF Taken
<1>3. \A q \in Requests \ {r} : (Taken(q)' <=> Taken(q)) /\ Mark(q)' = Mark(q)
  BY <1>1 DEF Taken, Mark
<1>4. \A t \in Stores : marks[t] \subseteq marks'[t]
  BY <1>1
<1>5. \A q \in Requests \ {r} : req'[q].at = req[q].at /\ req'[q].key = req[q].key /\ req'[q].msg = req[q].msg
                                /\ req'[q].store = req[q].store /\ req'[q].aged = req[q].aged
  BY <1>1
<1> HIDE DEF new
<1>6. Unaged'
  BY <1>1, <1>2, <1>3, <1>4, <1>5 DEF MarksInv, Unaged
<1>7. Earned'
  <2> SUFFICES ASSUME NEW t \in Stores, NEW m \in marks'[t]
               PROVE  \E q \in Requests : Taken(q)' /\ Mark(q)' = m /\ req'[q].store = t
    BY DEF Earned
  <2>1. CASE m \in marks[t]
    BY <1>2, <1>3, <1>5, <2>1 DEF MarksInv, Earned
  <2>2. CASE m \notin marks[t]
    BY <1>1, <1>2, <2>2
  <2> QED
    BY <2>1, <2>2
<1>8. Alone'
  <2>1. ASSUME NEW q \in Requests \ {r}, new, Taken(q), req[q].msg = req[r].msg, req[q].key = req[r].key, req[q].store = s
        PROVE  req[q].aged
    BY <2>1 DEF MarksInv, Unaged, Mark, new
  <2> SUFFICES ASSUME NEW p \in Requests, NEW q \in Requests, p # q, req'[p].msg = req'[q].msg, Taken(p)', Taken(q)',
                      req'[p].key = req'[q].key, req'[p].store = req'[q].store
               PROVE  req'[p].aged \/ req'[q].aged
    BY DEF Alone, Again, Alike
  <2>2. CASE p # r /\ q # r
    BY <1>3, <1>5, <2>2 DEF MarksInv, Alone, Again, Alike
  <2>3. CASE p = r
    BY <1>1, <1>2, <1>3, <1>5, <2>1, <2>3
  <2>4. CASE q = r
    BY <1>1, <1>2, <1>3, <1>5, <2>1, <2>4
  <2> QED
    BY <2>2, <2>3, <2>4
<1>9. IgnoredForTaken'
  <2> SUFFICES ASSUME NEW p \in Requests, req'[p].at = "ignored"
               PROVE  \E q \in Requests : Again(p, q)' /\ Taken(q)' /\ Alike(p, q)'
    BY DEF IgnoredForTaken
  <2>1. CASE p # r
    <3>1. PICK q \in Requests : Again(p, q) /\ Taken(q) /\ Alike(p, q)
      BY <1>5, <2>1 DEF MarksInv, IgnoredForTaken
    <3>2. q # r
      BY <1>2, <3>1
    <3> QED
      BY <1>3, <1>5, <2>1, <3>1, <3>2 DEF Again, Alike
  <2>2. CASE p = r
    <3>1. Mark(r) \in marks[s]
      BY <1>1, <2>2 DEF new
    <3>2. PICK q \in Requests : Taken(q) /\ Mark(q) = Mark(r) /\ req[q].store = s
      BY <3>1 DEF MarksInv, Earned
    <3>3. q # r /\ req[q].key = req[r].key /\ req[q].msg = req[r].msg
      BY <1>2, <3>2 DEF Mark
    <3> QED
      BY <1>1, <1>3, <1>5, <2>2, <3>2, <3>3 DEF Again, Alike
  <2> QED
    BY <2>1, <2>2
<1> QED
  BY <1>6, <1>7, <1>8, <1>9 DEF MarksInv

(* Where nothing is checked, marks are only dropped, and then every taken   *)
(* request ages.                                                            *)
LEMMA MarksElsewhere ==
  ASSUME GateInv, MarksInv, \A q \in Requests : Frame(q),
         \A q \in Requests : req[q].at = "known" => req'[q].at \in {"known", "left"},
         \/ marks' = marks
         \/ /\ \A t \in Stores : marks'[t] \subseteq marks[t]
            /\ \A q \in Requests : Taken(q) => req'[q].aged
  PROVE  MarksInv'
<1>1. \A q \in Requests : Taken(q) => /\ Taken(q)' /\ Mark(q)' = Mark(q) /\ req'[q].store = req[q].store
                                      /\ req'[q].key = req[q].key /\ req'[q].msg = req[q].msg
                                      /\ (req[q].aged => req'[q].aged)
  BY StaysTaken DEF GateInv, Frame
<1>2. \A q \in Requests : Taken(q)' => Taken(q)
  BY DEF Taken, Frame, Over
<1>3. \A q \in Requests : req'[q].at = "ignored" =>
         req[q].at = "ignored" /\ req'[q].key = req[q].key /\ req'[q].msg = req[q].msg /\ req'[q].store = req[q].store
  BY DEF Frame
<1>4. Unaged'
  BY <1>1, <1>2 DEF MarksInv, Unaged
<1>5. Earned'
  BY <1>1 DEF MarksInv, Earned
<1>6. Alone'
  BY <1>1, <1>2 DEF MarksInv, Alone, Again, Alike
<1>7. IgnoredForTaken'
  <2> SUFFICES ASSUME NEW p \in Requests, req'[p].at = "ignored"
               PROVE  \E q \in Requests : Again(p, q)' /\ Taken(q)' /\ Alike(p, q)'
    BY DEF IgnoredForTaken
  <2>1. PICK q \in Requests : Again(p, q) /\ Taken(q) /\ Alike(p, q)
    BY <1>3 DEF MarksInv, IgnoredForTaken
  <2> QED
    BY <1>1, <1>3, <2>1 DEF Again, Alike
<1> QED
  BY <1>4, <1>5, <1>6, <1>7 DEF MarksInv

(* A row that is not there yet is committed next.                           *)
LEMMA CreatedCommits ==
  ASSUME TypeInv, NEW r \in Requests, Step(r), req[r].at = "created"
  PROVE  CommitsNew(r)
BY DEF Step, Arrives, Checks, Counts, Leaves, Blocked, Finds, Provisions, Reactivates, Clears, OutOfQuota,
       StopsSpam, SwitchesOff, IsOff, IsNoise, NoFile, SavesFile, NamesFile, HasNoFile, Resets, MarksLatest,
       StopsPrior, GivesUp, GetsLock, Refrains, MayRun, Runs, ReadsFile, RunEnds, RunFails, Answers

(* Rows are added under the identity's lock, one at a time.                 *)
LEMMA RowsInAStep ==
  ASSUME GateInv, LatchHeld, OneEach, NEW r \in Requests, Step(r)
  PROVE  LatchHeld' /\ OneEach'
<1>1. BookFrame(r) /\ \A q \in Requests : Frame(q)
  BY BooksStay, StepFrame
<1>2. /\ req \in [Requests -> Request] /\ row \in [Rows -> Keys \cup {"none"}] /\ r \in Rows
      /\ latch \in [Keys -> Requests \cup {NoOne}] /\ NoOne \notin Requests
      /\ \A q \in Requests : req[q].key \in Keys
  BY InboundBounds DEF GateInv, TypeInv, Rows, Request
<1>3. ASSUME NEW q \in Requests, Finds(q), req'[q].at = "created"
      PROVE  latch[req[q].key] = NoOne /\ latch'[req[q].key] = q /\ row' = row /\ \A s \in Rows : row[s] # req[q].key
  <2>1. latch[req[q].key] = NoOne /\ latch'[req[q].key] = q /\ row' = row
    BY Zenon, <1>2, <1>3 DEF Finds, LooksUp
  <2>2. ASSUME NEW s \in Rows, req' = [req EXCEPT ![q].at = "found", ![q].mine = s, ![q].off = chat[s].off] PROVE FALSE
    <3>1. req'[q].at = "found"
      BY <1>2, <2>2 DEF Request
    <3> QED
      BY <1>3, <3>1
  <2> QED
    BY Zenon, <1>3, <2>1, <2>2 DEF Finds
<1>4. CASE CommitsNew(r)
  <2>1. /\ req[r].at = "created" /\ latch[req[r].key] = r /\ row' = [row EXCEPT ![r] = req[r].key]
        /\ \A s \in Rows : row[s] # req[r].key
        /\ req'[r].at = "found" /\ \A q \in Requests \ {r} : req'[q] = req[q]
    BY <1>2, <1>4 DEF CommitsNew, LatchHeld, Request
  <2>2. OneEach'
    BY <1>2, <2>1 DEF OneEach
  <2>3. LatchHeld'
    <3> SUFFICES ASSUME NEW q \in Requests, req'[q].at = "created"
                 PROVE  latch'[req'[q].key] = q /\ \A s \in Rows : row'[s] # req'[q].key
      BY DEF LatchHeld
    <3>1. q # r /\ req'[q] = req[q] /\ latch[req[q].key] = q /\ \A s \in Rows : row[s] # req[q].key
      BY <2>1 DEF LatchHeld
    <3>2. req[q].key # req[r].key /\ latch'[req[q].key] = q
      BY <1>1, <1>2, <2>1, <3>1 DEF BookFrame
    <3> QED
      BY <1>2, <2>1, <3>1, <3>2
  <2> QED
    BY <2>2, <2>3
<1>5. CASE ~CommitsNew(r)
  <2>1. row' = row
    BY <1>1, <1>5 DEF BookFrame
  <2>2. ASSUME NEW q \in Requests, req'[q].at = "created"
        PROVE  latch'[req'[q].key] = q /\ \A s \in Rows : row[s] # req'[q].key
    <3>1. CASE req[q].at = "created"
      <4>1. latch[req[q].key] = q /\ req'[q].key = req[q].key /\ \A s \in Rows : row[s] # req[q].key
        BY <1>1, <3>1 DEF LatchHeld, Frame
      <4>2. CASE q # r
        BY <1>1, <1>2, <4>1, <4>2 DEF BookFrame
      <4>3. CASE q = r
        BY <1>5, <3>1, <4>3, CreatedCommits DEF GateInv
      <4> QED
        BY <4>2, <4>3
    <3>2. CASE req[q].at # "created"
      <4>1. Finds(q) /\ req'[q].key = req[q].key
        BY Zenon, <1>1, <2>2, <3>2 DEF Frame, Finds
      <4> QED
        BY <1>3, <2>2, <4>1
    <3> QED
      BY <3>1, <3>2
  <2>3. LatchHeld' /\ OneEach'
    BY <2>1, <2>2 DEF LatchHeld, OneEach
  <2> QED
    BY <2>3
<1> QED
  BY <1>4, <1>5

LEMMA TakenStep == ASSUME TakenInv, [Next]_vars PROVE TakenInv'
<1>1. GateInv'
  BY GateStep DEF TakenInv
<1>2. ASSUME NEW r \in Requests, Step(r) PROVE MarksInv' /\ LatchHeld' /\ OneEach'
  <2>1. LatchHeld' /\ OneEach'
    BY <1>2, RowsInAStep DEF TakenInv
  <2>2. BookFrame(r) /\ \A q \in Requests : Frame(q)
    BY <1>2, BooksStay, StepFrame DEF TakenInv
  <2>3. CASE \E s \in Stores : Checks(r, s)
    BY <2>1, <2>3, MarksAtTheCheck DEF TakenInv
  <2>4. CASE ~\E s \in Stores : Checks(r, s)
    <3>1. marks' = marks
      BY <2>2, <2>4 DEF BookFrame
    <3>2. \A q \in Requests : req[q].at = "known" => req'[q].at \in {"known", "left"}
      <4> SUFFICES ASSUME NEW q \in Requests, req[q].at = "known", req'[q].at \notin {"known", "left"} PROVE FALSE
        OBVIOUS
      <4>1. PICK s \in Stores : Checks(q, s)
        BY <2>2 DEF Frame
      <4>2. req[q].at # req'[q].at
        OBVIOUS
      <4>3. q = r
        BY <1>2, <2>2, StepFrame DEF TakenInv
      <4> QED
        BY <2>4, <4>1, <4>3
    <3> QED
      BY <2>1, <2>2, <3>1, <3>2, MarksElsewhere DEF TakenInv
  <2> QED
    BY <2>3, <2>4
<1>3. ASSUME MinutePasses \/ \E s \in Rows : Activates(s) PROVE MarksInv' /\ LatchHeld' /\ OneEach'
  <2>1. Elsewhere /\ \A q \in Requests : Frame(q)
    BY <1>3, OtherSteps DEF TakenInv
  <2>2. \A q \in Requests : req'[q].at = req[q].at /\ req'[q].key = req[q].key
    <3> SUFFICES ASSUME NEW q \in Requests PROVE req'[q].at = req[q].at /\ req'[q].key = req[q].key
      OBVIOUS
    <3>1. req[q] \in Request /\ req'[q] = [req[q] EXCEPT !.aged = req'[q].aged]
      BY <2>1 DEF Elsewhere, TakenInv, GateInv, TypeInv
    <3> QED
      BY <3>1 DEF Request
  <2>3. \/ marks' = marks
        \/ /\ \A t \in Stores : marks'[t] \subseteq marks[t]
           /\ \A q \in Requests : Taken(q) => req'[q].aged
    <3>1. CASE \E s \in Rows : Activates(s)
      BY <3>1 DEF Activates
    <3>2. CASE MinutePasses /\ marks' # marks
      <4>1. /\ marks' = [marks EXCEPT !["redis"] = {}]
            /\ req' = [r \in Requests |-> [req[r] EXCEPT !.aged = @ \/ req[r].at \notin {"idle", "known"}]]
        BY <3>2 DEF MinutePasses
      <4>2. \A t \in Stores : marks'[t] \subseteq marks[t]
        BY <4>1 DEF TakenInv, GateInv, TypeInv, Stores
      <4>3. ASSUME NEW q \in Requests, Taken(q) PROVE req'[q].aged
        <5>1. req'[q] = [req[q] EXCEPT !.aged = req[q].aged \/ req[q].at \notin {"idle", "known"}] /\ req[q] \in Request
          BY <4>1 DEF TakenInv, GateInv, TypeInv
        <5>2. req[q].at \notin {"idle", "known"}
          BY <4>3 DEF Taken
        <5> QED
          BY <5>1, <5>2 DEF Request
      <4> QED
        BY <4>2, <4>3
    <3> QED
      BY <1>3, <3>1, <3>2
  <2>4. MarksInv'
    BY <2>1, <2>2, <2>3, MarksElsewhere DEF TakenInv
  <2>5. LatchHeld' /\ OneEach'
    BY <2>1, <2>2 DEF TakenInv, LatchHeld, OneEach, Elsewhere
  <2> QED
    BY <2>4, <2>5
<1>4. CASE UNCHANGED vars
  <2>1. req' = req /\ marks' = marks /\ latch' = latch /\ row' = row
    BY <1>4 DEF vars
  <2>2. LatchHeld' /\ OneEach'
    BY <2>1 DEF TakenInv, LatchHeld, OneEach
  <2>3. Unaged' /\ Earned'
    BY <2>1 DEF TakenInv, MarksInv, Unaged, Earned, Taken, Mark
  <2>4. Alone'
    BY <2>1 DEF TakenInv, MarksInv, Alone, Taken, Again, Alike
  <2>5. IgnoredForTaken'
    <3> SUFFICES ASSUME NEW p \in Requests, req[p].at = "ignored"
                 PROVE  \E q \in Requests : Again(p, q)' /\ Taken(q)' /\ Alike(p, q)'
      BY <2>1 DEF IgnoredForTaken
    <3>1. PICK q \in Requests : Again(p, q) /\ Taken(q) /\ Alike(p, q)
      BY DEF TakenInv, MarksInv, IgnoredForTaken
    <3> QED
      BY <2>1, <3>1 DEF Taken, Again, Alike
  <2> QED
    BY <1>1, <2>2, <2>3, <2>4, <2>5 DEF MarksInv, TakenInv
<1> QED
  BY <1>1, <1>2, <1>3, <1>4 DEF Next, TakenInv

(* A redelivered message is handled once, a message is ignored only for one *)
(* that was taken, and an identity has one session.                         *)
THEOREM GateTakesOnce == Spec => []TakenOnce
<1>1. TakenInv => TakenOnce
  BY DEF TakenInv, MarksInv, Alone, IgnoredForTaken, OneEach, TakenOnce
<1> QED
  BY TakenInit, TakenStep, <1>1, PTL DEF Spec

-----------------------------------------------------------------------------
(* Whatever has taken its second look and is about to run in a chat that is *)
(* switched off took it before the switch.                                  *)
OffIsSlipped == \A r \in Requests : req[r].at \in {"cleared", "running"} /\ chat[req[r].mine].off => r \in slipped
RestInv == GateInv /\ OffIsSlipped

LEMMA RestInit == Init => RestInv
<1> SUFFICES ASSUME Init PROVE RestInv
  OBVIOUS
<1>1. OffIsSlipped
  BY DEF Init, Fresh, OffIsSlipped
<1> QED
  BY <1>1, GateInit DEF RestInv

LEMMA RestStep == ASSUME RestInv, [Next]_vars PROVE RestInv'
<1>1. GateInv'
  BY GateStep DEF RestInv
<1>2. /\ req \in [Requests -> Request] /\ chat \in [Rows -> Chat] /\ slipped \subseteq Requests
      /\ \A q \in Requests : req[q].at \in {"cleared", "running"} => req[q].mine \in Rows
  BY DEF RestInv, GateInv, TypeInv, Settled, Late
<1>3. ASSUME NEW r \in Requests, Step(r) PROVE OffIsSlipped'
  <2>1. /\ BookFrame(r) /\ (\A q \in Requests : Frame(q)) /\ \A s \in Rows : ChatFrame(s, r)
    BY <1>3, BooksStay, StepFrame DEF RestInv
  <2> SUFFICES ASSUME NEW q \in Requests, req'[q].at \in {"cleared", "running"}, chat'[req'[q].mine].off
               PROVE  q \in slipped'
    BY DEF OffIsSlipped
  <2>2. slipped \subseteq slipped'
    BY <2>1 DEF BookFrame, SwitchesOff
  <2>3. CASE req[q].at \in {"cleared", "running"}
    <3>1. req'[q].mine = req[q].mine /\ req[q].mine \in Rows
      BY <1>2, <2>1, <2>3 DEF Frame, Before
    <3>2. CASE chat[req[q].mine].off
      BY <2>2, <2>3, <3>2 DEF RestInv, OffIsSlipped
    <3>3. CASE ~chat[req[q].mine].off
      <4>1. SwitchesOff(r) /\ req[q].mine = req[r].mine
        BY <2>1, <3>1, <3>3 DEF ChatFrame
      <4> QED
        BY <2>3, <4>1 DEF SwitchesOff
    <3> QED
      BY <3>2, <3>3
  <2>4. CASE req[q].at \notin {"cleared", "running"}
    <3>1. MayRun(q) /\ req[q].at = "locked" /\ chat' = chat /\ ~chat[req[q].mine].off
      BY <2>1, <2>4 DEF Frame, MayRun, SeesOff
    <3>2. req'[q].mine = req[q].mine
      BY <2>1, <3>1 DEF Frame, Before
    <3> QED
      BY <3>1, <3>2
  <2> QED
    BY <2>3, <2>4
<1>4. ASSUME MinutePasses \/ \E s \in Rows : Activates(s) PROVE OffIsSlipped'
  <2>1. Elsewhere
    BY <1>4, OtherSteps DEF RestInv
  <2> SUFFICES ASSUME NEW q \in Requests, req'[q].at \in {"cleared", "running"}, chat'[req'[q].mine].off
               PROVE  q \in slipped'
    BY DEF OffIsSlipped
  <2>2. req[q] \in Request /\ req'[q] = [req[q] EXCEPT !.aged = req'[q].aged] /\ slipped' = slipped
    BY <1>2, <2>1 DEF Elsewhere
  <2>3. req'[q].at = req[q].at /\ req'[q].mine = req[q].mine
    BY <2>2 DEF Request
  <2> QED
    BY <1>2, <2>1, <2>2, <2>3 DEF RestInv, OffIsSlipped, Elsewhere
<1>5. CASE UNCHANGED vars
  BY <1>1, <1>5 DEF vars, RestInv, OffIsSlipped
<1> QED
  BY <1>1, <1>3, <1>4, <1>5 DEF Next, RestInv

(* Nothing runs in a chat that is switched off but what had taken its       *)
(* second look before the switch.                                           *)
THEOREM GateStoppedChatsRest == Spec => []StoppedChatsRest
<1>1. RestInv => StoppedChatsRest
  BY DEF RestInv, OffIsSlipped, StoppedChatsRest
<1> QED
  BY RestInit, RestStep, <1>1, PTL DEF Spec

-----------------------------------------------------------------------------
(* Turns are numbered from one in their session, each with a number of its  *)
(* own.                                                                     *)
Numbered == \A r \in Requests :
    /\ req[r].at \in Before \cup Early => req[r].gen = 0
    /\ req[r].at \in Late => req[r].gen > 0
    /\ req[r].gen > 0 => req[r].mine \in Rows /\ req[r].at \notin Before /\ req[r].gen <= chat[req[r].mine].gen
OneNumberEach == \A r, q \in Requests : r # q /\ req[r].gen = req[q].gen /\ req[r].gen > 0 => req[r].mine # req[q].mine

(* What lies in a session's current_input was put there by a request of     *)
(* that session, and by none that had its number before this file came;     *)
(* so was what a run has read.                                              *)
FiledHere == \A s \in Rows : \A i \in chat[s].input : req[i[2]].mine = s /\ req[i[2]].at \notin Before
PastNumbered == \A r \in Requests :
    /\ req[r].at \in Before => req[r].past = {}
    /\ req[r].at \in Before \cup Early => req[r].read = {}
    /\ \A q \in req[r].past : req[q].gen > 0
NoPastFile == \A r \in Requests : req[r].mine \in Rows => \A i \in chat[req[r].mine].input : i[2] = r \/ i[2] \notin req[r].past
ReadHere == \A r \in Requests : \A i \in req[r].read :
    /\ req[i[2]].mine = req[r].mine /\ req[i[2]].at \notin Before
    /\ i[2] = r \/ i[2] \notin req[r].past
FileInv == GateInv /\ Numbered /\ OneNumberEach /\ FiledHere /\ PastNumbered /\ NoPastFile /\ ReadHere

LEMMA FileInit == Init => FileInv
<1> SUFFICES ASSUME Init PROVE FileInv
  OBVIOUS
<1>1. /\ \A r \in Requests : /\ req[r].at = "idle" /\ req[r].gen = 0 /\ req[r].past = {} /\ req[r].read = {} /\ req[r].mine = NoOne
      /\ \A s \in Rows : chat[s].input = {}
  <2>1. \A r \in Requests : req[r] = Fresh
    BY DEF Init
  <2>2. NewChat.input = {} /\ \A off \in BOOLEAN : [NewChat EXCEPT !.off = off].input = {}
    BY DEF NewChat
  <2>3. PICK off \in BOOLEAN :
          chat = [r \in Rows |-> IF r = Earlier /\ row[r] # "none" THEN [NewChat EXCEPT !.off = off] ELSE NewChat]
    BY DEF Init
  <2> QED
    BY <2>1, <2>2, <2>3 DEF Fresh
<1>2. Numbered /\ OneNumberEach
  BY <1>1 DEF Numbered, OneNumberEach, Before, Early, Late
<1>3. FiledHere /\ PastNumbered /\ ReadHere
  BY <1>1 DEF FiledHere, PastNumbered, ReadHere
<1>4. NoPastFile
  BY <1>1 DEF NoPastFile
<1> QED
  BY <1>2, <1>3, <1>4, GateInit DEF FileInv

(* Neither a number nor an input is touched: everything stays.              *)
LEMMA FilesStay ==
  ASSUME FileInv, GateInv',
         \A q \in Requests : /\ Frame(q) /\ req'[q].gen = req[q].gen /\ req'[q].past \in {req[q].past, {}}
                             /\ req'[q].at \in Late => req[q].at \in Late
                             /\ req'[q].read \in {req[q].read, {}}
                                \/ (req'[q].read = chat[req[q].mine].input /\ req[q].at \in Late),
         \A s \in Rows : chat'[s].gen = chat[s].gen /\ chat'[s].input = chat[s].input
  PROVE  FileInv'
<1>1. /\ req \in [Requests -> Request] /\ chat \in [Rows -> Chat] /\ req' \in [Requests -> Request]
      /\ \A q \in Requests : req[q].gen \in Nat /\ req[q].past \subseteq Requests /\ req[q].read \subseteq Items
      /\ \A s \in Rows : chat[s].gen \in Nat /\ chat[s].input \subseteq Items
      /\ \A i \in Items : i[2] \in Requests
  BY DEF FileInv, GateInv, TypeInv, Request, Chat, Items
<1>2. \A q \in Requests : /\ req'[q].at \in Before \cup Early => req[q].at \in Before \cup Early
                          /\ req[q].at \notin Before => req'[q].at \notin Before /\ req'[q].mine = req[q].mine
  BY DEF Frame, Before
<1>3. Numbered'
  BY <1>1, <1>2 DEF FileInv, Numbered
<1>4. OneNumberEach'
  BY <1>1, <1>2 DEF FileInv, OneNumberEach, Numbered
<1>5. FiledHere'
  BY <1>1, <1>2 DEF FileInv, FiledHere
<1>a. \A q \in Requests : /\ req[q].at \in Before => req'[q].past = {}
                          /\ req[q].at \in Before \cup Early => req'[q].read = {}
  BY <1>1 DEF FileInv, PastNumbered, Before, Early, Late
<1>6. PastNumbered'
  BY <1>1, <1>2, <1>a DEF FileInv, PastNumbered
<1>7. NoPastFile'
  <2> SUFFICES ASSUME NEW q \in Requests, req'[q].mine \in Rows, NEW i \in chat'[req'[q].mine].input, i[2] # q
               PROVE  i[2] \notin req'[q].past
    BY DEF NoPastFile
  <2>1. CASE req[q].at \in Before
    BY <1>a, <2>1
  <2>2. CASE req[q].at \notin Before
    <3>1. req'[q].mine = req[q].mine /\ i \in chat[req[q].mine].input /\ req[q].mine \in Rows
      BY <1>2, <2>2
    <3>2. i[2] \notin req[q].past
      BY <3>1 DEF FileInv, NoPastFile
    <3> QED
      BY <3>2
  <2> QED
    BY <2>1, <2>2
<1>8. ReadHere'
  <2> SUFFICES ASSUME NEW q \in Requests, NEW i \in req'[q].read
               PROVE  /\ req'[i[2]].mine = req'[q].mine /\ req'[i[2]].at \notin Before
                      /\ i[2] = q \/ i[2] \notin req'[q].past
    BY DEF ReadHere
  <2>1. req[q].at \notin Before /\ req'[q].mine = req[q].mine /\ req'[q].past \subseteq req[q].past
    BY <1>2, <1>a
  <2>2. i \in Items /\ i[2] \in Requests
    <3>1. req[q].mine \in Rows \/ i \in req[q].read
      BY DEF FileInv, GateInv, Settled
    <3> QED
      BY <1>1, <3>1
  <2>3. req[i[2]].mine = req[q].mine /\ req[i[2]].at \notin Before /\ (i[2] = q \/ i[2] \notin req[q].past)
    <3>1. CASE i \in req[q].read
      BY <3>1 DEF FileInv, ReadHere
    <3>2. CASE i \in chat[req[q].mine].input /\ req[q].at \in Late
      <4>1. req[q].mine \in Rows
        BY <3>2 DEF FileInv, GateInv, Settled
      <4> QED
        BY <3>2, <4>1 DEF FileInv, FiledHere, NoPastFile
    <3> QED
      BY <3>1, <3>2
  <2> QED
    BY <1>2, <2>1, <2>2, <2>3
<1> QED
  BY <1>3, <1>4, <1>5, <1>6, <1>7, <1>8 DEF FileInv

(* A message's file takes the place of what lay there, or its text joins it.*)
LEMMA FilesPut ==
  ASSUME FileInv, GateInv', NEW r \in Requests, SavesFile(r) \/ NamesFile(r)
  PROVE  FileInv'
<1> DEFINE s == req[r].mine
<1>1. /\ req \in [Requests -> Request] /\ chat \in [Rows -> Chat] /\ s \in Rows
      /\ \A q \in Requests : req[q].gen \in Nat /\ req[q].past \subseteq Requests /\ req[q].read \subseteq Items
      /\ \A t \in Rows : chat[t].input \subseteq Items
      /\ \A i \in Items : i[2] \in Requests
  BY DEF FileInv, GateInv, TypeInv, Request, Chat, Items, Settled, SavesFile, NamesFile, Early
<1>2. /\ req[r].at \in Early /\ req'[r].at \in Early /\ req[r].at \notin Before /\ req'[r].at \notin Before
      /\ req'[r].mine = s /\ req'[r].gen = req[r].gen /\ req'[r].read = req[r].read
      /\ SavesFile(r) => req'[r].past = {q \in Requests : req[q].gen > 0}
      /\ NamesFile(r) => req'[r].past = req[r].past
      /\ \A q \in Requests \ {r} : req'[q] = req[q]
  <2>1. CASE SavesFile(r)
    BY <1>1, <2>1 DEF SavesFile, Request, Early, Before
  <2>2. CASE NamesFile(r)
    BY <1>1, <2>2 DEF NamesFile, SavesFile, Request, Early, Before
  <2> QED
    BY <2>1, <2>2
<1>3. /\ \A t \in Rows : chat'[t].gen = chat[t].gen /\ (t # s => chat'[t].input = chat[t].input)
      /\ \A i \in chat'[s].input : i[2] = r \/ (NamesFile(r) /\ i \in chat[s].input)
  <2>1. CASE SavesFile(r)
    BY <1>1, <2>1 DEF SavesFile, PutsFile, Chat
  <2>2. CASE NamesFile(r)
    <3>1. PICK text \in {{}, {<<"text", r>>}} : chat' = [chat EXCEPT ![s].input = @ \cup text]
      BY <2>2 DEF NamesFile
    <3>2. \A i \in text : i[2] = r
      OBVIOUS
    <3>3. chat'[s].input = chat[s].input \cup text /\ \A t \in Rows : chat'[t].gen = chat[t].gen /\ (t # s => chat'[t].input = chat[t].input)
      BY <1>1, <3>1 DEF Chat
    <3> QED
      BY <2>2, <3>2, <3>3
  <2> QED
    BY <2>1, <2>2
<1> HIDE DEF s
<1>4. req[r].gen = 0
  BY <1>2 DEF FileInv, Numbered
<1>5. \A q \in Requests : /\ req'[q].gen = req[q].gen /\ req'[q].mine = req[q].mine /\ req'[q].read = req[q].read
                          /\ req'[q].at \in Before <=> req[q].at \in Before
                          /\ req'[q].at \in Early <=> req[q].at \in Early
                          /\ req'[q].at \in Late <=> req[q].at \in Late
  BY <1>2 DEF Early, Late, s
<1>6. Numbered' /\ OneNumberEach'
  BY <1>1, <1>3, <1>5 DEF FileInv, Numbered, OneNumberEach
<1>7. FiledHere'
  <2> SUFFICES ASSUME NEW t \in Rows, NEW i \in chat'[t].input PROVE req'[i[2]].mine = t /\ req'[i[2]].at \notin Before
    BY DEF FiledHere
  <2>1. CASE i[2] = r /\ t = s
    BY <1>2, <2>1
  <2>2. CASE i \in chat[t].input
    <3>1. i[2] \in Requests /\ req[i[2]].mine = t /\ req[i[2]].at \notin Before
      BY <1>1, <2>2 DEF FileInv, FiledHere
    <3> QED
      BY <1>5, <3>1
  <2> QED
    BY <1>3, <2>1, <2>2
<1>8. PastNumbered'
  BY <1>1, <1>2, <1>5 DEF FileInv, PastNumbered
<1>9. NoPastFile'
  <2> SUFFICES ASSUME NEW q \in Requests, req'[q].mine \in Rows, NEW i \in chat'[req'[q].mine].input, i[2] # q
               PROVE  i[2] \notin req'[q].past
    BY DEF NoPastFile
  <2>1. CASE q = r
    <3>1. NamesFile(r) /\ i \in chat[s].input
      BY <1>2, <1>3, <2>1
    <3> QED
      BY <1>2, <2>1, <3>1 DEF FileInv, NoPastFile, s
  <2>2. CASE q # r /\ i[2] = r
    BY <1>2, <1>4, <2>2 DEF FileInv, PastNumbered
  <2>3. CASE q # r /\ i[2] # r
    <3>1. i \in chat[req[q].mine].input
      BY <1>3, <1>5, <2>3
    <3> QED
      BY <1>2, <1>5, <2>3, <3>1 DEF FileInv, NoPastFile
  <2> QED
    BY <2>1, <2>2, <2>3
<1>10. ReadHere'
  <2> SUFFICES ASSUME NEW q \in Requests, NEW i \in req'[q].read
               PROVE  /\ req'[i[2]].mine = req'[q].mine /\ req'[i[2]].at \notin Before
                      /\ i[2] = q \/ i[2] \notin req'[q].past
    BY DEF ReadHere
  <2>1. i \in req[q].read /\ i[2] \in Requests
    BY <1>1, <1>5
  <2>2. req[i[2]].mine = req[q].mine /\ req[i[2]].at \notin Before /\ (i[2] = q \/ i[2] \notin req[q].past)
    BY <2>1 DEF FileInv, ReadHere
  <2>3. q # r
    BY <1>2, <2>1 DEF FileInv, PastNumbered
  <2> QED
    BY <1>2, <1>5, <2>1, <2>2, <2>3
<1> QED
  BY <1>6, <1>7, <1>8, <1>9, <1>10 DEF FileInv

(* A turn gets the next number of its session, and has put nothing there    *)
(* that an earlier file's request would call past.                          *)
LEMMA FilesNumber ==
  ASSUME FileInv, GateInv', NEW r \in Requests, MarksLatest(r)
  PROVE  FileInv'
<1> DEFINE s == req[r].mine
<1>1. /\ req \in [Requests -> Request] /\ chat \in [Rows -> Chat] /\ s \in Rows
      /\ \A q \in Requests : req[q].gen \in Nat /\ req[q].past \subseteq Requests /\ req[q].read \subseteq Items
      /\ \A t \in Rows : chat[t].gen \in Nat /\ chat[t].input \subseteq Items
      /\ \A i \in Items : i[2] \in Requests
  BY DEF FileInv, GateInv, TypeInv, Request, Chat, Items, Settled, MarksLatest, Early
<1>2. /\ req[r].at \in Early /\ req'[r].at = "marked"
      /\ req'[r].mine = s /\ req'[r].gen = chat[s].gen + 1 /\ req'[r].read = req[r].read /\ req'[r].past = req[r].past
      /\ \A q \in Requests \ {r} : req'[q] = req[q]
  BY <1>1 DEF MarksLatest, Request, Early
<1>3. /\ chat'[s].gen = chat[s].gen + 1 /\ \A t \in Rows : t # s => chat'[t].gen = chat[t].gen
      /\ \A t \in Rows : chat'[t].input = chat[t].input
  BY <1>1 DEF MarksLatest, Chat
<1> HIDE DEF s
<1>4. req[r].gen = 0
  BY <1>2 DEF FileInv, Numbered
<1>5. \A q \in Requests : /\ req'[q].mine = req[q].mine /\ req'[q].read = req[q].read /\ req'[q].past = req[q].past
                          /\ req'[q].at \in Before <=> req[q].at \in Before
                          /\ req'[q].at \in Before \cup Early => req[q].at \in Before \cup Early
                          /\ (req[q].gen > 0 => req'[q].gen > 0)
  BY <1>1, <1>2, <1>4 DEF Before, Early, s
<1>6. Numbered'
  <2> SUFFICES ASSUME NEW q \in Requests
               PROVE  /\ req'[q].at \in Before \cup Early => req'[q].gen = 0
                      /\ req'[q].at \in Late => req'[q].gen > 0
                      /\ req'[q].gen > 0 => /\ req'[q].mine \in Rows /\ req'[q].at \notin Before
                                            /\ req'[q].gen <= chat'[req'[q].mine].gen
    BY DEF Numbered
  <2>1. CASE q = r
    BY <1>1, <1>2, <1>3, <2>1 DEF Before, Early, Late
  <2>2. CASE q # r
    <3>1. /\ req'[q] = req[q]
          /\ req[q].at \in Before \cup Early => req[q].gen = 0
          /\ req[q].at \in Late => req[q].gen > 0
          /\ req[q].gen > 0 => req[q].mine \in Rows /\ req[q].at \notin Before /\ req[q].gen <= chat[req[q].mine].gen
      BY <1>2, <2>2 DEF FileInv, Numbered
    <3>2. \A t \in Rows : chat'[t].gen >= chat[t].gen /\ chat'[t].gen \in Nat
      BY <1>1, <1>3
    <3> QED
      BY <1>1, <3>1, <3>2
  <2> QED
    BY <2>1, <2>2
<1>7. OneNumberEach'
  <2>1. ASSUME NEW q \in Requests \ {r}, req[q].mine = s PROVE req[q].gen # req'[r].gen
    BY <1>1, <1>2, <2>1 DEF FileInv, Numbered
  <2> SUFFICES ASSUME NEW p \in Requests, NEW q \in Requests, p # q, req'[p].gen = req'[q].gen, req'[p].gen > 0
               PROVE  req[p].mine # req[q].mine
    BY <1>5 DEF OneNumberEach
  <2>2. CASE p = r
    BY <1>2, <2>1, <2>2 DEF s
  <2>3. CASE q = r
    BY <1>2, <2>1, <2>3 DEF s
  <2>4. CASE p # r /\ q # r
    BY <1>2, <2>4 DEF FileInv, OneNumberEach
  <2> QED
    BY <2>2, <2>3, <2>4
<1>8. FiledHere'
  BY <1>1, <1>3, <1>5 DEF FileInv, FiledHere
<1>9. PastNumbered'
  BY <1>1, <1>5 DEF FileInv, PastNumbered
<1>10. NoPastFile'
  BY <1>3, <1>5 DEF FileInv, NoPastFile
<1>11. ReadHere'
  BY <1>1, <1>5 DEF FileInv, ReadHere
<1> QED
  BY <1>6, <1>7, <1>8, <1>9, <1>10, <1>11 DEF FileInv

LEMMA FileStep == ASSUME FileInv, [Next]_vars PROVE FileInv'
<1>1. GateInv'
  BY GateStep DEF FileInv
<1>2. ASSUME NEW r \in Requests, Step(r) PROVE FileInv'
  <2>1. CASE SavesFile(r) \/ NamesFile(r)
    BY <1>1, <2>1, FilesPut
  <2>2. CASE MarksLatest(r)
    BY <1>1, <2>2, FilesNumber
  <2>3. CASE ~(SavesFile(r) \/ NamesFile(r) \/ MarksLatest(r))
    <3>1. /\ \A q \in Requests : Frame(q) /\ (req[q].at # "running" /\ q # r => req'[q] = req[q])
          /\ \A s \in Rows : ChatFrame(s, r)
      BY <1>2, StepFrame DEF FileInv
    <3>2. \A s \in Rows : chat'[s].gen = chat[s].gen /\ chat'[s].input = chat[s].input
      BY <2>3, <3>1 DEF ChatFrame
    <3>3. ASSUME NEW q \in Requests
          PROVE  /\ req'[q].gen = req[q].gen /\ req'[q].past \in {req[q].past, {}}
                 /\ req'[q].at \in Late => req[q].at \in Late
                 /\ req'[q].read \in {req[q].read, {}}
                    \/ (req'[q].read = chat[req[q].mine].input /\ req[q].at \in Late)
      <4>1. req \in [Requests -> Request]
        BY DEF FileInv, GateInv, TypeInv
      <4>2. MarksLatest(q) => q = r
        BY <3>1, <4>1 DEF MarksLatest, Request
      <4>3. SavesFile(q) => q = r
        <5> SUFFICES ASSUME SavesFile(q), q # r PROVE FALSE
          OBVIOUS
        <5>1. req[q].at = "passed" /\ req'[q] = req[q]
          BY <3>1 DEF SavesFile
        <5>2. req'[q].at = "saved"
          BY <4>1 DEF SavesFile, Request
        <5> QED
          BY <5>1, <5>2
      <4>4. ReadsFile(q) => req'[q].read = chat[req[q].mine].input /\ req[q].at \in Late
        BY <4>1 DEF ReadsFile, Late
      <4> QED
        BY <2>3, <3>1, <4>2, <4>3, <4>4 DEF Frame
    <3> QED
      BY <1>1, <3>1, <3>2, <3>3, FilesStay
  <2> QED
    BY <2>1, <2>2, <2>3
<1>3. ASSUME MinutePasses \/ \E s \in Rows : Activates(s) PROVE FileInv'
  <2>1. Elsewhere /\ \A q \in Requests : Frame(q)
    BY <1>3, OtherSteps DEF FileInv
  <2>2. ASSUME NEW q \in Requests
        PROVE  req'[q].gen = req[q].gen /\ req'[q].past = req[q].past /\ req'[q].at = req[q].at /\ req'[q].read = req[q].read
    <3>1. req[q] \in Request /\ req'[q] = [req[q] EXCEPT !.aged = req'[q].aged]
      BY <2>1 DEF Elsewhere, FileInv, GateInv, TypeInv
    <3> QED
      BY <3>1 DEF Request
  <2> QED
    BY <1>1, <2>1, <2>2, FilesStay DEF Elsewhere
<1>4. CASE UNCHANGED vars
  <2>1. req' = req /\ chat' = chat
    BY <1>4 DEF vars
  <2>2. \A q \in Requests : Frame(q)
    BY <2>1, SameRequest DEF FileInv, GateInv, TypeInv, Request
  <2> QED
    BY <1>1, <2>1, <2>2, FilesStay
<1> QED
  BY <1>2, <1>3, <1>4 DEF Next

(* The answer about a file is about the message's own one and what lies     *)
(* beside it; another message's is there only if it came while both were in *)
(* work and that one had not become the later turn.                         *)
THEOREM GateAnswersOwnFile == Spec => AnswersOwnFile
<1> DEFINE OwnFile == \A r \in Requests : AnswersNow(r) /\ KindOf(r) = "file" =>
                     \A i \in req[r].read : \/ i[2] = r
                                            \/ i[2] \notin req[r].past /\ req[i[2]].gen < req[r].gen
<1>1. ASSUME FileInv, Next PROVE OwnFile
  <2> SUFFICES ASSUME NEW r \in Requests, AnswersNow(r), NEW i \in req[r].read, i[2] # r
               PROVE  i[2] \notin req[r].past /\ req[i[2]].gen < req[r].gen
    OBVIOUS
  <2>1. req[r].at = "ran" /\ IsLatest(r)
    <3>1. Frame(r)
      BY <1>1, StepFrame, OtherSteps DEF FileInv, Next
    <3> QED
      BY <3>1 DEF Frame, AnswersNow, Answers
  <2> DEFINE q == i[2]
  <2>2. q \in Requests /\ req[r].gen \in Nat /\ req[q].gen \in Nat /\ req[r].mine \in Rows
    BY <1>1, <2>1 DEF FileInv, GateInv, TypeInv, Request, Items, Settled, Late
  <2>3. req[q].mine = req[r].mine /\ q \notin req[r].past
    BY <1>1 DEF FileInv, ReadHere
  <2>4. req[r].gen = chat[req[r].mine].gen /\ req[r].gen > 0
    BY <1>1, <2>1 DEF FileInv, Numbered, IsLatest, Late
  <2>5. req[q].gen <= req[r].gen
    <3>1. req[q].gen > 0 => req[q].gen <= chat[req[q].mine].gen
      BY <1>1, <2>2 DEF FileInv, Numbered
    <3> QED
      BY <2>2, <2>3, <2>4, <3>1
  <2>6. req[q].gen # req[r].gen
    BY <1>1, <2>2, <2>3, <2>4 DEF FileInv, OneNumberEach
  <2> QED
    BY <2>2, <2>3, <2>5, <2>6
<1>2. FileInv /\ [Next]_vars => [OwnFile]_vars
  BY <1>1
<1> QED
  BY FileInit, FileStep, <1>2, PTL DEF Spec, AnswersOwnFile
=============================================================================
