---------------------------- MODULE GatewayChat ----------------------------
(***************************************************************************)
(* One chat of one gateway device: the incoming messages forwarded to      *)
(* Python, the typing indicator kept alive until a reply goes out, and the *)
(* texts Python sends, which it repeats when the first request fails.      *)
(*                                                                         *)
(* What the device is doing is DeviceGateway's business: here its entry    *)
(* comes, goes and changes at any time.                                    *)
(***************************************************************************)
EXTENDS Naturals, FiniteSets

CONSTANTS Messages,   \* incoming messages
          Kinds,      \* the kinds of message WhatsApp delivers, records as Kind
          Requests,   \* requests of the Python side: texts, cards and typing
          MaxTickers, MaxChanges   \* bounds

\* own, broadcast: ignored; group: in a group; mentioned: the bot is; bare:
\* nothing is left without the mention; empty: neither text nor media;
\* sender: a phone number or a hidden id; alt: WhatsApp sent the number beside
\* it; mapped: the store knows the number.
Kind == [own : BOOLEAN, broadcast : BOOLEAN, group : BOOLEAN, mentioned : BOOLEAN, bare : BOOLEAN,
         empty : BOOLEAN, sender : {"pn", "lid"}, alt : BOOLEAN, mapped : BOOLEAN]
ASSUME ChatBounds == Kinds \subseteq Kind /\ MaxTickers \in Nat /\ MaxChanges \in Nat

VARIABLES device,    \* the entry in dm.devices: there, connected, with a session
          inbox,     \* [Messages -> what became of it, its kind and the phone forwarded]
          req,       \* [Requests -> the request, its attempts and Python's answer]
          running,   \* the tickers that refresh the indicator
          ticker,    \* the one dm.typingCancels holds for the chat, 0 for none
          ticked,    \* tickers started
          overlapped,\* two starts have met between taking the old ticker and storing the new
          changes
chatVars == <<device, inbox, req, running, ticker, ticked, overlapped, changes>>

Entry == [here : {TRUE}, connected : BOOLEAN, session : BOOLEAN] \cup {[here |-> FALSE, connected |-> FALSE, session |-> FALSE]}
NoKind == CHOOSE k \in Kinds : TRUE
NoRequest == [op |-> "none", at |-> "idle", job |-> <<"no", "no">>, sent |-> 0, doubt |-> FALSE, answer |-> "none"]

ChatInit ==
    /\ device = [here |-> TRUE, connected |-> TRUE, session |-> TRUE] /\ changes = 0
    /\ inbox = [m \in Messages |-> [at |-> "new", kind |-> NoKind, phone |-> "none", gone |-> FALSE]]
    /\ req = [r \in Requests |-> NoRequest]
    /\ running = {} /\ ticker = 0 /\ ticked = 0 /\ overlapped = FALSE

Changes == /\ changes < MaxChanges /\ changes' = changes + 1
           /\ device' \in Entry
           /\ UNCHANGED <<inbox, req, running, ticker, ticked, overlapped>>

-----------------------------------------------------------------------------
\* startTypingKeepAlive: the old ticker is taken out and cancelled, the new one
\* stored; another start may come between.
Starting == {m \in Messages : inbox[m].at = "starting"} \cup {r \in Requests : req[r].at = "starting"}

\* Mutant: the old ticker is taken out and its context is not cancelled.
ForgetsOld ==
    /\ ticker' = 0
    /\ overlapped' = (overlapped \/ Starting # {})
    /\ UNCHANGED <<running, ticked>>

TakesOld ==
    /\ running' = running \ {ticker} /\ ticker' = 0
    /\ overlapped' = (overlapped \/ Starting # {})
    /\ UNCHANGED ticked

StoresNew == /\ ticked < MaxTickers /\ ticked' = ticked + 1 /\ ticker' = ticked + 1 /\ running' = running \cup {ticked + 1}
             /\ UNCHANGED overlapped

\* stopTypingKeepAlive takes out and cancels at once.
Stops == running' = running \ {ticker} /\ ticker' = 0 /\ UNCHANGED <<ticked, overlapped>>
TypingStays == UNCHANGED <<running, ticker, ticked, overlapped>>

-----------------------------------------------------------------------------
\* handleIncoming.  The entry is read anew for each thing that needs it.
Ignored(k) == \/ k.own \/ k.broadcast \/ k.empty
              \/ k.group /\ (~device.here \/ ~device.session \/ ~k.mentioned \/ k.bare)
Becomes(m, at) == inbox' = [inbox EXCEPT ![m].at = at]

Arrives(m, k) ==
    /\ inbox[m].at = "new"
    /\ inbox' = [inbox EXCEPT ![m] = IF Ignored(k) THEN [@ EXCEPT !.at = "ignored"] ELSE [@ EXCEPT !.at = "taken", !.kind = k]]
    /\ TypingStays /\ UNCHANGED <<device, req, changes>>

\* The number behind a hidden id, taken for a number when the device is gone.
PhoneFrom(k) == IF ~device.here \/ k.sender = "pn" THEN k.sender
                ELSE IF k.alt \/ k.mapped THEN "pn" ELSE "unknown"

Resolves(m) ==
    /\ inbox[m].at = "taken"
    /\ inbox' = [inbox EXCEPT ![m].phone = PhoneFrom(inbox[m].kind), ![m].gone = ~device.here, ![m].at = "resolved", ![m].kind = NoKind]
    /\ TypingStays /\ UNCHANGED <<device, req, changes>>

\* No indicator is started for a device that is gone; the message is forwarded.
Types(m) == /\ inbox[m].at = "resolved"
            /\ \/ device.here /\ TakesOld /\ Becomes(m, "starting")
               \/ ~device.here /\ TypingStays /\ Becomes(m, "forwarding")
            /\ UNCHANGED <<device, req, changes>>
TypesOn(m) == inbox[m].at = "starting" /\ StoresNew /\ Becomes(m, "forwarding") /\ UNCHANGED <<device, req, changes>>

\* One request in a goroutine, never repeated.
Forwards(m) == /\ inbox[m].at = "forwarding" /\ \E at \in {"forwarded", "lost"} : Becomes(m, at)
               /\ TypingStays /\ UNCHANGED <<device, req, changes>>

-----------------------------------------------------------------------------
\* Requests of the Python side.
Attempt(r) == IF req[r].at = "second" THEN 2 ELSE 1
Ready == device.here /\ device.connected
Asks(r, op) ==
    /\ req[r].at = "idle"
    /\ req' = [req EXCEPT ![r].op = op, ![r].at = "first",
                          ![r].job = IF op = "text" THEN <<"arrived", "no">> ELSE @]
    /\ TypingStays /\ UNCHANGED <<device, inbox, changes>>

\* SendMessage: a device that is not connected is refused before the indicator
\* is stopped; one without a session may reconnect and then have one.
Refuses(r, i) ==
    /\ req[r].job[i] = "arrived" /\ (~Ready \/ ~device.session)
    /\ req' = [req EXCEPT ![r].job[i] = "refused"]
    /\ TypingStays /\ UNCHANGED <<device, inbox, changes>>
StopsTyping(r, i) ==
    /\ req[r].job[i] = "arrived" /\ Ready
    /\ req' = [req EXCEPT ![r].job[i] = "stopped"]
    /\ Stops /\ UNCHANGED <<device, inbox, changes>>
\* WhatsApp takes the text or not, and may report an error for one it took.
Sends(r, i) ==
    /\ req[r].job[i] = "stopped"
    /\ \/ req' = [req EXCEPT ![r].job[i] = "sent", ![r].sent = @ + 1]
       \/ req' = [req EXCEPT ![r].job[i] = "refused", ![r].sent = @ + 1, ![r].doubt = @ \/ i = 1]
       \/ req' = [req EXCEPT ![r].job[i] = "refused"]
    /\ TypingStays /\ UNCHANGED <<device, inbox, changes>>

\* _post_json_with_retry: an answer of the server's fault, or none in time, is
\* tried once more; the first request may still be handled.
Repeats(r) == [req[r] EXCEPT !.at = "second", !.job[2] = "arrived"]

Answered(r, i) ==
    LET j == req[r].job[i]
    IN IF j = "sent" THEN [req[r] EXCEPT !.at = "done", !.answer = "ok"]
       ELSE IF i = 1 THEN Repeats(r) ELSE [req[r] EXCEPT !.at = "done", !.answer = "failed"]

GetsAnswer(r) ==
    /\ req[r].op = "text" /\ req[r].at \in {"first", "second"} /\ req[r].job[Attempt(r)] \in {"sent", "refused"}
    /\ req' = [req EXCEPT ![r] = Answered(r, Attempt(r))]
    /\ TypingStays /\ UNCHANGED <<device, inbox, changes>>
TimesOut(r) ==
    /\ req[r].op = "text" /\ req[r].at \in {"first", "second"}
    /\ req' = [req EXCEPT ![r] = [(IF Attempt(r) = 1 THEN Repeats(r)
                                   ELSE [req[r] EXCEPT !.at = "done", !.answer = "failed"]) EXCEPT !.doubt = TRUE]]
    /\ TypingStays /\ UNCHANGED <<device, inbox, changes>>
\* A request that never reaches the gateway.
NeverArrives(r) ==
    /\ req[r].op = "text" /\ req[r].at \in {"first", "second"} /\ req[r].job[Attempt(r)] = "arrived"
    /\ req' = [req EXCEPT ![r] = [(IF Attempt(r) = 1 THEN Repeats(r)
                                   ELSE [req[r] EXCEPT !.at = "done", !.answer = "failed"]) EXCEPT !.job[Attempt(r)] = "no"]]
    /\ TypingStays /\ UNCHANGED <<device, inbox, changes>>


\* A contact card stops the indicator, an image or a document does not; the
\* typing requests start and stop it.  None of them is repeated.
Done(r, answer) == req' = [req EXCEPT ![r].at = "done", ![r].answer = answer]
Serves(r, op) == req[r].op = op /\ req[r].at = "first" /\ UNCHANGED <<device, inbox, changes>>
Usable == Ready /\ device.session
Contact(r) == /\ Serves(r, "contact")
              /\ \/ ~Usable /\ Done(r, "failed") /\ TypingStays
                 \/ Usable /\ (Done(r, "ok") \/ Done(r, "failed")) /\ Stops
Media(r) == /\ Serves(r, "media") /\ TypingStays
            /\ Done(r, "failed") \/ (Usable /\ Done(r, "ok"))
Stop(r) == /\ Serves(r, "stop")
           /\ \/ ~device.here /\ Done(r, "failed") /\ TypingStays
              \/ device.here /\ Done(r, "ok") /\ Stops
Start(r) == /\ Serves(r, "start")
            /\ \/ ~Ready /\ Done(r, "failed") /\ TypingStays
               \/ Ready /\ req' = [req EXCEPT ![r].at = "starting"] /\ TakesOld
StartsOn(r) == req[r].at = "starting" /\ StoresNew /\ Done(r, "ok") /\ UNCHANGED <<device, inbox, changes>>

ChatNext ==
    \/ Changes
    \/ \E m \in Messages : (\E k \in Kinds : Arrives(m, k)) \/ Resolves(m) \/ Types(m) \/ TypesOn(m) \/ Forwards(m)
    \/ \E r \in Requests : \/ \E op \in {"text", "contact", "media", "start", "stop"} : Asks(r, op)
                           \/ \E i \in 1..2 : Refuses(r, i) \/ StopsTyping(r, i) \/ Sends(r, i)
                           \/ GetsAnswer(r) \/ TimesOut(r) \/ NeverArrives(r)
                           \/ Contact(r) \/ Media(r) \/ Stop(r) \/ Start(r) \/ StartsOn(r)

ChatSpec == ChatInit /\ [][ChatNext]_chatVars

-----------------------------------------------------------------------------
\* An indicator that runs can be stopped by the next reply: no ticker runs that
\* the table of cancels has lost, unless two starts of the chat met.
TypingIsHeld == running \subseteq {ticker} \/ overlapped

\* A text reported as sent was sent, and it goes out twice only when the first
\* request was not known to have failed.
SentAsTold == \A r \in Requests :
    /\ req[r].op = "text" /\ req[r].answer = "ok" => req[r].sent >= 1
    /\ req[r].sent > 1 => req[r].doubt

\* A hidden id is forwarded as a phone number only for a device that has gone.
PhonesArePhones == \A m \in Messages : inbox[m].phone = "lid" => inbox[m].gone

\* All three, of handleIncoming, the typing table, SendMessage and wa_client.
ChatIsHonest == TypingIsHeld /\ SentAsTold /\ PhonesArePhones
=============================================================================
