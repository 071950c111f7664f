--------------------------- MODULE DeviceGateway ---------------------------
(***************************************************************************)
(* The WhatsApp device gateway (src/wa-service): the table of devices, the *)
(* clients behind it, the session files they are saved in, and the calls   *)
(* of the Python side that create, refresh and delete a device.            *)
(*                                                                         *)
(* A client is one whatsmeow client object.  It outlives its place in the  *)
(* table when CreateDevice stores another one over it.  A file is named by *)
(* the client that created it, so that a file removed while somebody still *)
(* has it open differs from the one created afterwards.  A session is one  *)
(* pairing with a phone.  Errors of SQLite are left out.                   *)
(***************************************************************************)
EXTENDS Naturals, FiniteSets

CONSTANTS Callers,      \* requests the gateway can serve at one time
          Devices,      \* device ids, numbered in the order of their files
          PhoneOf,      \* [1..MaxSessions -> phones] who scans the code of a pairing
          Earlier,      \* devices saved by an earlier life of the process, session d for device d
          Requested,    \* devices the requests are about
          MaxClients, MaxSessions,
          MaxHappenings   \* bound on requests, events of WhatsApp and restarts together

ASSUME GatewayBounds == /\ Earlier = 1..Cardinality(Earlier) /\ Earlier \subseteq Devices /\ Requested \subseteq Devices
                        /\ Devices \subseteq Nat \ {0} /\ IsFiniteSet(Devices) /\ Cardinality(Earlier) <= MaxClients
                        /\ {MaxClients, MaxSessions, MaxHappenings} \subseteq Nat

VARIABLES entry,    \* dm.devices: [Devices -> client, 0 for none]
          client,   \* the clients made so far
          made,     \* how many
          file,     \* the session file now under the device's name, 0 for none
          rows,     \* [file -> the sessions saved in it]
          agent,    \* has the device's agent row, or is it cleared or deleted
          calls,    \* what each caller is doing
          paired,   \* sessions made
          asked,    \* sessions a refresh or a deletion removed
          unlinked, \* sessions ended on the phone
          strayed,  \* sessions ended by an event of another client of the device
          torn,     \* sessions saved in a file deleted under them
          raced,    \* sessions picked up by a creation while they were being removed
          happened  \* requests, events and restarts so far
gatewayVars == <<entry, client, made, file, rows, agent, calls, paired, asked, unlinked, strayed, torn, raced, happened>>

Clients == 1..MaxClients
Files == 1..(MaxClients + Cardinality(Devices))
NoClient == [dev |-> 0, file |-> 0, sess |-> 0, status |-> "none", on |-> FALSE, auto |-> FALSE, qr |-> FALSE, coded |-> FALSE, news |-> "none"]
\* A client over file f holding session s, as CreateDevice makes it.
Made(d, f, s) == [NoClient EXCEPT !.dev = d, !.file = f, !.sess = s, !.status = "waiting_qr"]
\* The status and code of a client out of the table are read by nobody.
Unlisted(k) == [k EXCEPT !.status = "none", !.qr = FALSE]
Idle == [at |-> "idle", dev |-> 0, cl |-> 0, again |-> FALSE]

Goes(h, at) == calls' = [calls EXCEPT ![h] = IF at = "idle" THEN Idle ELSE [@ EXCEPT !.at = at]]
Kept == UNCHANGED <<made, file, rows, agent, paired, happened>>
Told == UNCHANGED <<asked, unlinked, strayed, torn, raced>>

\* A client's own Disconnect, called only while it is connected: no event follows.
Off(k) == IF k.on THEN [k EXCEPT !.on = FALSE, !.auto = FALSE, !.news = "none"] ELSE k

-----------------------------------------------------------------------------
\* Requests of the Python side.  An agent whose row lost the device makes none;
\* one read before that still goes on.
\* The API creates a device for a new agent, or connects one again.
AsksToCreate(h, d) ==
    /\ calls[h].at = "idle" /\ happened < MaxHappenings /\ agent[d]
    /\ calls' = [calls EXCEPT ![h] = [Idle EXCEPT !.at = "read", !.dev = d]] /\ happened' = happened + 1
    /\ UNCHANGED <<entry, client, made, file, rows, agent, paired>> /\ Told

\* The tool that sends a device's code asks for the latest one first.
AsksForQr(h, d) ==
    /\ calls[h].at = "idle" /\ happened < MaxHappenings /\ agent[d]
    /\ calls' = [calls EXCEPT ![h] = [Idle EXCEPT !.at = "look", !.dev = d]] /\ happened' = happened + 1
    /\ UNCHANGED <<entry, client, made, file, rows, agent, paired>> /\ Told

\* GetQR: an error becomes a creation, an empty code of a device that is not
\* connected a refresh.
LooksAtQr(h) ==
    /\ calls[h].at = "look"
    /\ LET e == entry[calls[h].dev]
           at == IF e = 0 THEN "read"
                 ELSE IF client[e].status = "connected" \/ client[e].qr THEN "idle" ELSE "refresh"
       IN calls' = [calls EXCEPT ![h] = IF at = "idle" THEN Idle ELSE [@ EXCEPT !.at = at, !.again = (at = "refresh")]]
    /\ UNCHANGED <<entry, client>> /\ Kept /\ Told

\* Deleting an agent or its channel: whatever the gateway answers, the row is cleared.
AsksToDelete(h, d) ==
    /\ calls[h].at = "idle" /\ happened < MaxHappenings /\ agent[d]
    /\ agent' = [agent EXCEPT ![d] = FALSE] /\ happened' = happened + 1
    /\ \/ calls' = [calls EXCEPT ![h] = [Idle EXCEPT !.at = "take", !.dev = d]]
       \/ calls' = calls      \* the gateway was not reached: the error is logged
    /\ UNCHANGED <<entry, client, made, file, rows, paired>> /\ Told

\* The answer of a request: the tool follows a refresh that failed with a creation.
Fails(h) ==
    /\ calls' = [calls EXCEPT ![h] = IF @.again THEN [Idle EXCEPT !.at = "read", !.dev = calls[h].dev] ELSE Idle]
    /\ UNCHANGED <<entry, client>> /\ Kept /\ Told

-----------------------------------------------------------------------------
\* CreateDevice, one action between two accesses of what others may change.
CreateReads(h) ==
    /\ calls[h].at = "read"
    /\ LET e == entry[calls[h].dev]
           at == IF e # 0 /\ client[e].sess = 0 THEN "tear" ELSE "open"
       IN calls' = [calls EXCEPT ![h] = IF e # 0 /\ client[e].status = "connected" THEN Idle
                                        ELSE [@ EXCEPT !.at = at, !.cl = IF at = "tear" THEN e ELSE 0]]
    /\ UNCHANGED <<entry, client>> /\ Kept /\ Told

\* The client found without a session goes; the table's entry goes whatever it is by now.
CreateTearsDown(h) ==
    /\ calls[h].at = "tear"
    /\ client' = [client EXCEPT ![calls[h].cl] = Unlisted(Off(@))]
    /\ entry' = [entry EXCEPT ![calls[h].dev] = 0]
    /\ Goes(h, "open")
    /\ Kept /\ Told

\* The container is opened and the first device saved in it is loaded.
CreateOpens(h) ==
    /\ calls[h].at = "open" /\ made < MaxClients
    /\ LET d == calls[h].dev
           c == made + 1
           f == IF file[d] = 0 THEN c ELSE file[d]
       IN /\ file' = [file EXCEPT ![d] = f]
          /\ made' = c
          /\ \E s \in (IF rows[f] = {} THEN {0} ELSE rows[f]) : client' = [client EXCEPT ![c] = Made(d, f, s)]
          /\ calls' = [calls EXCEPT ![h].at = "store", ![h].cl = c]
    /\ UNCHANGED <<entry, rows, agent, paired, happened>> /\ Told

\* A client already in the table is forgotten there, never disconnected.
CreateStores(h) ==
    /\ calls[h].at = "store"
    /\ LET d == calls[h].dev
       IN /\ entry' = [entry EXCEPT ![d] = calls[h].cl]
          /\ client' = IF entry[d] = 0 THEN client ELSE [client EXCEPT ![entry[d]] = Unlisted(@)]
    /\ Goes(h, "connect")
    /\ Kept /\ Told

\* A saved session connects, or fails to and is still answered "connected"; a
\* new device connects for its code.
CreateConnects(h) ==
    /\ calls[h].at = "connect"
    /\ LET c == calls[h].cl
       IN \/ /\ client[c].sess # 0
             /\ client' = [client EXCEPT ![c].on = TRUE, ![c].auto = TRUE,
                                          ![c].status = IF entry[client[c].dev] = c THEN "connected" ELSE @]
             /\ Goes(h, "idle")
          \/ client[c].sess # 0 /\ Goes(h, "idle") /\ UNCHANGED client
          \/ /\ client[c].sess = 0
             /\ client' = [client EXCEPT ![c].on = TRUE, ![c].auto = TRUE]
             /\ Goes(h, "wait")
    /\ UNCHANGED entry /\ Kept /\ Told
\* The code's channel or the connection of a new device is refused.
CreateRefused(h) == calls[h].at = "connect" /\ client[calls[h].cl].sess = 0 /\ Fails(h)

\* The first code, or thirty seconds without one.
CreateReturns(h) ==
    /\ calls[h].at = "wait" /\ client[calls[h].cl].coded
    /\ Goes(h, "idle") /\ UNCHANGED <<entry, client>> /\ Kept /\ Told
CreateTimesOut(h) == calls[h].at = "wait" /\ ~client[calls[h].cl].coded /\ Fails(h)

\* A deletion of session s from file f, and who still holds it: the table, or a
\* creation that loaded it and has not stored its client yet.
Without(f, s) == [rows EXCEPT ![f] = @ \ {s}]
HeldElsewhere(d, c, s) ==
    \E k \in Clients \ {c} : /\ client[k].sess = s
                             /\ k = entry[d] \/ \E h \in Callers : calls[h].at = "store" /\ calls[h].cl = k
Ended(s) == IF s = 0 THEN {} ELSE {s}

\* Mutant: the stored session stays where it is.
RefreshKeepsSession(h) ==
    /\ calls[h].at = "refresh"
    /\ LET d == calls[h].dev
           c == entry[d]
           s == IF c = 0 THEN 0 ELSE client[c].sess
       IN /\ client' = IF c = 0 THEN client ELSE [client EXCEPT ![c] = Unlisted(Off(@))]
          /\ entry' = [entry EXCEPT ![d] = 0] /\ asked' = asked \cup Ended(s)
    /\ Goes(h, "read")
    /\ UNCHANGED <<made, file, rows, agent, paired, unlinked, strayed, torn, raced, happened>>

\* RefreshQR, under the lock; the container stays open.  CreateDevice follows.
Refreshes(h) ==
    /\ calls[h].at = "refresh"
    /\ LET d == calls[h].dev
           c == entry[d]
           s == IF c = 0 THEN 0 ELSE client[c].sess
       IN /\ client' = IF c = 0 THEN client ELSE [client EXCEPT ![c] = [Unlisted(Off(@)) EXCEPT !.sess = 0]]
          /\ rows' = IF s = 0 THEN rows ELSE Without(client[c].file, s)
          /\ entry' = [entry EXCEPT ![d] = 0]
          /\ asked' = asked \cup Ended(s)
          /\ raced' = raced \cup (IF s # 0 /\ HeldElsewhere(d, c, s) THEN {s} ELSE {})
    /\ Goes(h, "read")
    /\ UNCHANGED <<made, file, agent, paired, unlinked, strayed, torn, happened>>

\* Disconnect: the entry is taken under the lock, the rest goes on without it.
DeleteTakes(h) ==
    /\ calls[h].at = "take"
    /\ LET d == calls[h].dev
       IN /\ calls' = [calls EXCEPT ![h] = IF entry[d] = 0 THEN Idle ELSE [@ EXCEPT !.at = "remove", !.cl = entry[d]]]
          /\ entry' = [entry EXCEPT ![d] = 0]
          /\ client' = IF entry[d] = 0 THEN client ELSE [client EXCEPT ![entry[d]] = Unlisted(@)]
    /\ Kept /\ Told

\* The session is deleted and the file with it, whoever else has it open.
DeleteRemoves(h) ==
    /\ calls[h].at = "remove"
    /\ LET d == calls[h].dev
           c == calls[h].cl
           s == client[c].sess
           f == client[c].file
       IN /\ client' = [client EXCEPT ![c] = [Unlisted(Off(@)) EXCEPT !.sess = 0]]
          /\ rows' = IF s = 0 THEN rows ELSE Without(f, s)
          /\ file' = [file EXCEPT ![d] = 0]
          /\ asked' = asked \cup Ended(s)
          /\ raced' = raced \cup (IF s # 0 /\ HeldElsewhere(d, c, s) THEN {s} ELSE {})
          /\ torn' = torn \cup (IF file[d] = 0 THEN {} ELSE rows[file[d]] \ {s})
    /\ Goes(h, "idle")
    /\ UNCHANGED <<entry, made, agent, paired, unlinked, strayed, happened>>

-----------------------------------------------------------------------------
\* What WhatsApp does to a client, each reported to the handler one at a time.
Happens(c, k) == client' = [client EXCEPT ![c] = k] /\ happened' = happened + 1 /\ happened < MaxHappenings
Quiet == UNCHANGED <<entry, made, file, agent, calls, raced>>

\* The goroutine of CreateDevice keeps the latest code on the entry of now.
ShowsCode(c) ==
    /\ client[c].on /\ client[c].sess = 0 /\ ~client[c].coded
    /\ LET e == entry[client[c].dev]
       IN client' = [k \in Clients |-> [client[k] EXCEPT !.coded = @ \/ k = c, !.qr = @ \/ k = e]]
    /\ UNCHANGED <<rows, paired, asked, unlinked, strayed, torn, happened>> /\ Quiet

\* The phone scans the code: the session is saved in the client's own file.
Pairs(c) ==
    /\ client[c].on /\ client[c].coded /\ client[c].sess = 0 /\ client[c].news = "none" /\ paired < MaxSessions
    /\ paired' = paired + 1
    /\ client' = [client EXCEPT ![c].sess = paired + 1, ![c].news = "up"]
    /\ rows' = [rows EXCEPT ![client[c].file] = @ \cup {paired + 1}]
    /\ torn' = IF file[client[c].dev] = client[c].file THEN torn ELSE torn \cup {paired + 1}
    /\ UNCHANGED <<asked, unlinked, strayed, happened>> /\ Quiet

ComesUp(c) ==
    /\ client[c].auto /\ ~client[c].on /\ client[c].sess # 0 /\ client[c].news = "none"
    /\ client' = [client EXCEPT ![c].on = TRUE, ![c].news = "up"]
    /\ UNCHANGED <<rows, paired, asked, unlinked, strayed, torn, happened>> /\ Quiet

Drops(c) ==
    /\ client[c].on /\ client[c].news = "none"
    /\ Happens(c, [client[c] EXCEPT !.on = FALSE, !.news = "down"])
    /\ UNCHANGED <<rows, paired, asked, unlinked, strayed, torn>> /\ Quiet

\* The device is unlinked on the phone: the library deletes the client's own session.
LogsOut(c) ==
    /\ client[c].on /\ client[c].sess # 0 /\ client[c].news = "none"
    /\ Happens(c, [client[c] EXCEPT !.on = FALSE, !.auto = FALSE, !.sess = 0, !.news = "out"])
    /\ rows' = Without(client[c].file, client[c].sess) /\ unlinked' = unlinked \cup {client[c].sess}
    /\ UNCHANGED <<paired, asked, strayed, torn>> /\ Quiet

\* makeEventHandler and the code's "success": by device id, so they act on the
\* entry of now, which another client may have.
Hears(c) ==
    /\ client[c].news # "none"
    /\ LET e == entry[client[c].dev]
           n == client[c].news
           told == [client EXCEPT ![c].news = "none"]
           s == IF e = 0 THEN 0 ELSE told[e].sess
       IN /\ client' = IF e = 0 THEN told
                       ELSE IF n = "up" THEN [told EXCEPT ![e].status = "connected", ![e].qr = FALSE]
                       ELSE IF n = "down" THEN [told EXCEPT ![e].status = "disconnected"]
                       ELSE [told EXCEPT ![e].status = "disconnected", ![e].qr = FALSE, ![e].sess = 0]
          /\ rows' = IF n = "out" /\ s # 0 THEN Without(client[e].file, s) ELSE rows
          /\ strayed' = strayed \cup (IF n = "out" /\ e # c THEN Ended(s) ELSE {})
    /\ UNCHANGED <<paired, asked, unlinked, torn, happened>> /\ Quiet

-----------------------------------------------------------------------------
\* loadExistingDevices: every file with a session is loaded in order, with some
\* session saved in it; one whose phone an earlier device connected is skipped.
Saved(fs, rs) == {d \in DOMAIN fs : fs[d] # 0 /\ rs[fs[d]] # {}}
Loaded(first, ok) == {L \in SUBSET DOMAIN first :
    \A d \in DOMAIN first : d \in L <=> ~\E e \in L \cap ok : e < d /\ PhoneOf[first[e]] = PhoneOf[first[d]]}
Choices(fs, rs) == {first \in [Saved(fs, rs) -> 1..MaxSessions] : \A d \in DOMAIN first : first[d] \in rs[fs[d]]}

\* The clients of the loaded devices L, numbered after n; those in ok connected.
Numbered(L, n, d) == n + Cardinality({e \in L : e <= d})
LoadedEntry(L, n) == [d \in Devices |-> IF d \in L THEN Numbered(L, n, d) ELSE 0]
LoadedClients(L, n, fs, first, ok) == [c \in Clients |->
    IF \E d \in L : Numbered(L, n, d) = c
    THEN LET d == CHOOSE x \in L : Numbered(L, n, x) = c
         IN [Made(d, fs[d], first[d]) EXCEPT !.on = d \in ok, !.auto = d \in ok,
                !.status = IF d \in ok THEN "connected" ELSE "disconnected"]
    ELSE NoClient]

Restart ==
    /\ happened < MaxHappenings /\ happened' = happened + 1
    /\ made + Cardinality(Saved(file, rows)) <= MaxClients
    /\ \E first \in Choices(file, rows), ok \in SUBSET Saved(file, rows) : \E L \in Loaded(first, ok) :
         /\ entry' = LoadedEntry(L, made) /\ made' = made + Cardinality(L)
         /\ client' = LoadedClients(L, made, file, first, ok)
    /\ calls' = [h \in Callers |-> Idle]
    /\ UNCHANGED <<file, rows, agent, paired>> /\ Told

Init ==
    /\ file = [d \in Devices |-> IF d \in Earlier THEN MaxClients + d ELSE 0]
    /\ rows = [f \in Files |-> {d \in Earlier : f = MaxClients + d}]
    /\ \E first \in Choices(file, rows), ok \in SUBSET Earlier : \E L \in Loaded(first, ok) :
         entry = LoadedEntry(L, 0) /\ made = Cardinality(L) /\ client = LoadedClients(L, 0, file, first, ok)
    /\ agent = [d \in Devices |-> TRUE] /\ calls = [h \in Callers |-> Idle] /\ happened = 0
    /\ paired = Cardinality(Earlier) /\ asked = {} /\ unlinked = {} /\ strayed = {} /\ torn = {} /\ raced = {}

Next ==
    \/ \E h \in Callers, d \in Requested : \/ AsksToCreate(h, d) \/ AsksForQr(h, d) \/ AsksToDelete(h, d)
    \/ \E h \in Callers : \/ LooksAtQr(h) \/ CreateReads(h) \/ CreateTearsDown(h) \/ CreateOpens(h) \/ CreateStores(h)
                          \/ CreateConnects(h) \/ CreateRefused(h) \/ CreateReturns(h) \/ CreateTimesOut(h)
                          \/ Refreshes(h) \/ DeleteTakes(h) \/ DeleteRemoves(h)
    \/ \E c \in Clients : ShowsCode(c) \/ Pairs(c) \/ ComesUp(c) \/ Drops(c) \/ LogsOut(c) \/ Hears(c)
    \/ Restart

Spec == Init /\ [][Next]_gatewayVars

-----------------------------------------------------------------------------
\* A session ended by a refresh or a deletion is never in the table again, not
\* even after a restart, unless a creation loaded it while it was being removed.
RemovedStaysRemoved ==
    \A d \in Devices : entry[d] # 0 => client[entry[d]].sess \notin asked \ raced

\* A session nobody asked to end is still in the device's file, so a restart
\* resumes it; it is lost only to a late logout event of another client of the
\* device or to a deletion that met a creation.
WantedStaysSaved ==
    \A s \in (1..paired) \ (asked \cup unlinked \cup strayed \cup torn) :
        \E d \in Devices : file[d] # 0 /\ s \in rows[file[d]]

\* Both, of CreateDevice, RefreshQR, Disconnect, the event handlers and a
\* restart in any order: sessions end when somebody asked, and then for good.
SessionsAsAsked == RemovedStaysRemoved /\ WantedStaysSaved
=============================================================================
