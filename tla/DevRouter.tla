----------------------------- MODULE DevRouter -----------------------------
(***************************************************************************)
(* The shared trial number: wa-dev-service routes each WhatsApp message of *)
(* one number to the agent its chat is connected to.                       *)
(*                                                                         *)
(* A chat is connected by a trial code or by "connect <agent>", and        *)
(* disconnected by /stop.  The connections are kept under several keys per *)
(* message (sender, resolved phone, chat), in memory and in one JSON file. *)
(* Every message is handled by a goroutine of its own, which reads the     *)
(* connection once and may then wait: for the claim of a code, for the     *)
(* operator lookup, or for the mutex that lets one forward per chat go out *)
(* to the Python API.                                                      *)
(***************************************************************************)
EXTENDS Naturals, Sequences, FiniteSets

CONSTANTS
    Messages,      \* identities of the messages that may arrive
    Agents,        \* agents of the platform
    Keys,          \* connection keys: sender numbers, phones and chat ids
    Shapes,        \* the addressings a message may have
    KeysOf,        \* messageConnectionKeys: the keys of a shape, in lookup order
    ChatOf,        \* the chat id of a shape, one of its keys
    SessionOf,     \* the key Python files the shape's session under
    OperatorOf,    \* the agents a shape's sender is an operator of
    AutoAgents,    \* values AUTO_AGENT_ID may have: agents, or None
    MaxTroubles    \* bound on failing writes, ends of the process and deletions

None == "none"

KeySet(s) == {KeysOf[s][i] : i \in 1..Len(KeysOf[s])}
Chats == {ChatOf[s] : s \in Shapes}

ASSUME ShapesAssumption ==
    \A s \in Shapes : /\ KeysOf[s] \in Seq(Keys)
                      /\ ChatOf[s] \in KeySet(s)
                      /\ SessionOf[s] \in KeySet(s)
                      /\ OperatorOf[s] \in SUBSET Agents
ASSUME BoundsAssumption == MaxTroubles \in Nat
ASSUME NoneAssumption == None \notin Agents /\ AutoAgents \subseteq Agents \cup {None}

VARIABLES
    auto,      \* AUTO_AGENT_ID of this deployment
    conns,     \* ConnectionStore.connections: key -> connection or NoConn
    file,      \* what the connections file holds
    intact,    \* it is well-formed: no write was cut short
    up,        \* the router process runs
    msgs,      \* what became of each message
    notices,   \* disconnects on their way to Python
    troubles,
    silent     \* history: chat -> agents it stopped and has not connected to since

vars == <<auto, conns, file, intact, up, msgs, notices, troubles, silent>>

Conn == [agent : Agents, chat : Chats, off : BOOLEAN]
NoConn == [agent |-> None, chat |-> None, off |-> TRUE]
NoConns == [k \in Keys |-> NoConn]

(* What a message says: /stop, a trial code that Python may know, "connect  *)
(* <agent>", a reply that quotes another message, or anything else.         *)
Places == {"expected", "claiming", "connecting", "looking", "queued", "sending", "orphan", "over"}
Text == [kind : {"code", "connect"}, shape : Shapes, about : Agents]
        \cup [kind : {"stop", "quote", "chat"}, shape : Shapes, about : {None}]
Msg(at, s, about, to) == [at |-> at, shape |-> s, about |-> about, to |-> to]
Expected == Msg("expected", None, None, None)
Over == Msg("over", None, None, None)

-----------------------------------------------------------------------------
(* The store.                                                               *)

(* GetAny: the first of the message's keys that has an entry decides.       *)
Found(s) == {i \in 1..Len(KeysOf[s]) : conns[KeysOf[s][i]] # NoConn}
GetAny(s) == IF Found(s) = {} THEN NoConn
             ELSE conns[KeysOf[s][CHOOSE i \in Found(s) : \A j \in Found(s) : i <= j]]

(* save rewrites the file in place and its error is only logged: memory     *)
(* keeps the change, the file may keep the old content or be cut short.     *)
(* "past" is the count of troubles so far.                                  *)
Save(c, past) ==
    /\ conns' = c
    /\ \/ file' = c /\ intact' = TRUE /\ troubles' = past
       \/ /\ \/ UNCHANGED <<file, intact>>
             \/ file' = NoConns /\ intact' = FALSE
          /\ troubles' = past + 1
    /\ troubles' <= MaxTroubles

Connected(ks, chat, a) ==
    [k \in Keys |-> IF k \in ks THEN [agent |-> a, chat |-> chat, off |-> FALSE] ELSE conns[k]]

SetMany(ks, chat, a) ==
    /\ Save(Connected(ks, chat, a), troubles)
    /\ silent' = [silent EXCEPT ![chat] = @ \ {a}]

SuppressedOwnKeys(s, a) == KeySet(s)   \* mutant: the aliases are forgotten

(* SuppressMany marks the message's keys and every entry of the same agent  *)
(* and chat.                                                                *)
Suppressed(s, a) ==
    KeySet(s) \cup {k \in Keys : /\ conns[k] # NoConn
                                 /\ conns[k].agent = a
                                 /\ conns[k].chat = ChatOf[s]}

SuppressMany(s, a) ==
    /\ Save([k \in Keys |-> IF k \in Suppressed(s, a)
                            THEN [agent |-> a, chat |-> ChatOf[s], off |-> TRUE]
                            ELSE conns[k]], troubles)
    /\ silent' = [silent EXCEPT ![ChatOf[s]] = @ \cup {a}]

-----------------------------------------------------------------------------
(* HandleMessage: the decision it takes on the connection it read.          *)

Becomes(m, r) == msgs' = [msgs EXCEPT ![m] = r]
StoreKept == UNCHANGED <<conns, file, intact, troubles, silent>>

(* "/stop" on a connection, suppressed or not, or where every message is    *)
(* routed to one agent: suppress, tell Python in the background, confirm.   *)
Stops(m, x) ==
    LET conn == GetAny(x.shape)
        a == IF conn = NoConn THEN auto ELSE conn.agent
    IN
    /\ x.kind = "stop" /\ a # None
    /\ SuppressMany(x.shape, a)
    /\ notices' = notices \cup {[agent |-> a, shape |-> x.shape]}
    /\ Becomes(m, Over)

(* Every other message leaves the store alone.  A suppressed chat: only a   *)
(* code is looked at.                                                       *)
Suppresses(m, x, conn) ==
    /\ conn # NoConn /\ conn.off
    /\ Becomes(m, IF x.kind = "code" THEN Msg("claiming", x.shape, x.about, None) ELSE Over)

(* Test mode: one agent has every chat that did not stop it.                *)
AutoRoutes(m, x, conn) ==
    /\ auto # None /\ (conn = NoConn \/ ~conn.off)
    /\ Becomes(m, Msg("queued", x.shape, x.about, auto))

(* A connected chat: a code may switch it, everything else is forwarded.    *)
Routes(m, x, conn) ==
    /\ auto = None /\ conn # NoConn /\ ~conn.off
    /\ Becomes(m, IF x.kind = "code" THEN Msg("claiming", x.shape, x.about, conn.agent)
                  ELSE Msg("queued", x.shape, None, conn.agent))

(* An unknown chat: connect, claim, or an operator who quotes a message.    *)
Greets(m, x, conn) ==
    /\ auto = None /\ conn = NoConn
    /\ Becomes(m, CASE x.kind = "connect" -> Msg("connecting", x.shape, x.about, None)
                    [] x.kind = "code" -> Msg("claiming", x.shape, x.about, None)
                    [] x.kind = "quote" -> Msg("looking", x.shape, None, None)
                    [] OTHER -> Over)

Decides(m, x) ==
    LET conn == GetAny(x.shape) IN
    /\ x.kind # "stop" \/ (conn = NoConn /\ auto = None)
    /\ \/ Suppresses(m, x, conn) \/ AutoRoutes(m, x, conn)
       \/ Routes(m, x, conn) \/ Greets(m, x, conn)
    /\ StoreKept /\ UNCHANGED notices

(* A message that the client hands over: whatsapp.go starts a goroutine.    *)
Arrives(m) ==
    /\ up /\ msgs[m].at = "expected"
    /\ \E x \in Text : Stops(m, x) \/ Decides(m, x)
    /\ UNCHANGED <<auto, up>>

(* The claim was answered.  Found: the chat is connected, whatever happened *)
(* to it since the message was read.  Not found, or the call failed: a      *)
(* message of a connected chat goes on to its agent, code and all.          *)
ClaimAnswered(m) ==
    /\ up /\ msgs[m].at = "claiming"
    /\ \/ /\ SetMany(KeySet(msgs[m].shape), ChatOf[msgs[m].shape], msgs[m].about)
          /\ Becomes(m, Over)
       \/ /\ Becomes(m, IF msgs[m].to = None THEN Over
                        ELSE [msgs[m] EXCEPT !.at = "queued"])
          /\ StoreKept
    /\ UNCHANGED <<auto, up, notices>>

(* handleConnect saves under two keys only, once the agent was found.       *)
ConnectAnswered(m) ==
    LET s == msgs[m].shape IN
    /\ up /\ msgs[m].at = "connecting"
    /\ \/ SetMany({KeysOf[s][1], ChatOf[s]}, ChatOf[s], msgs[m].about)
       \/ StoreKept
    /\ Becomes(m, Over)
    /\ UNCHANGED <<auto, up, notices>>

(* lookupOperatorAgent: the first agent the sender is an operator of.       *)
LookupAnswered(m) ==
    /\ up /\ msgs[m].at = "looking"
    /\ \/ \E a \in OperatorOf[msgs[m].shape] :
             msgs' = [msgs EXCEPT ![m].at = "queued", ![m].to = a]
       \/ Becomes(m, Over)
    /\ StoreKept /\ UNCHANGED <<auto, up, notices>>

MutexUnused(chat) == TRUE                         \* mutant: forwards run side by side
MutexTakenTwice(chat) ==                          \* mutant: a waiter blocks itself
    \A n \in Messages : msgs[n].at \in {"queued", "sending"} => ChatOf[msgs[n].shape] # chat

(* forwardToAgentSerial: one forward per chat is out at a time.             *)
MutexFree(chat) ==
    \A n \in Messages : msgs[n].at = "sending" => ChatOf[msgs[n].shape] # chat

(* _resolve_wa_incoming_agent: Python looks at the code in the text before  *)
(* it looks at the virtual device id, so a message whose claim failed for a *)
(* moment may be answered by another agent than the connected one.          *)
Resolves(m) == {msgs[m].to} \cup ({msgs[m].about} \ {None})

Forward(m) ==
    /\ up /\ msgs[m].at = "queued"
    /\ MutexFree(ChatOf[msgs[m].shape])
    /\ \E a \in Resolves(m) : Becomes(m, Msg("sending", msgs[m].shape, None, a))
    /\ StoreKept /\ UNCHANGED <<auto, up, notices>>

(* Python answers, or the call fails: the mutex is released either way.     *)
ForwardEnds(m) ==
    /\ \/ up /\ msgs[m].at = "sending"
       \/ msgs[m].at = "orphan"
    /\ Becomes(m, Over)
    /\ StoreKept /\ UNCHANGED <<auto, up, notices>>

(* /wa-dev/disconnect cancels the active run of the agent's sessions that   *)
(* are filed under one of the numbers of the notice: its forward returns.   *)
Disconnects(n, m) ==
    /\ msgs[m].at \in {"sending", "orphan"}
    /\ msgs[m].to = n.agent
    /\ SessionOf[msgs[m].shape] \in KeySet(n.shape)

NoticeHandled(n) ==
    /\ notices' = notices \ {n}
    /\ \/ msgs' = [m \in Messages |-> IF Disconnects(n, m)
                                      THEN Over ELSE msgs[m]]
       \/ up /\ UNCHANGED msgs   \* not reached within three seconds: only logged
    /\ StoreKept /\ UNCHANGED <<auto, up>>

-----------------------------------------------------------------------------
(* DELETE /connections/{phone}: one key, with no regard to its aliases.     *)
DeleteConnection(k) ==
    /\ up /\ conns[k] # NoConn
    /\ Save([conns EXCEPT ![k] = NoConn], troubles + 1)
    /\ UNCHANGED <<auto, up, msgs, notices, silent>>

(* The process ends.  Goroutines and their mutexes are gone; requests that  *)
(* had reached Python go on there.  If the last write failed, what memory   *)
(* knew is lost, the stops with it.                                         *)
Crash ==
    /\ up /\ troubles < MaxTroubles
    /\ up' = FALSE
    /\ troubles' = troubles + 1
    /\ conns' = NoConns
    /\ silent' = IF intact /\ file = conns THEN silent ELSE [c \in Chats |-> {}]
    /\ msgs' = [m \in Messages |->
                  CASE msgs[m].at = "sending" -> [msgs[m] EXCEPT !.at = "orphan"]
                    [] msgs[m].at \in {"expected", "orphan"} -> msgs[m]
                    [] OTHER -> Over]
    /\ UNCHANGED <<auto, file, intact, notices>>

(* main: a file that does not parse ends the process (log.Fatalf) until a   *)
(* person removes it.                                                       *)
Start ==
    /\ ~up /\ intact
    /\ up' = TRUE
    /\ conns' = file
    /\ UNCHANGED <<auto, file, intact, msgs, notices, troubles, silent>>

RemoveFile ==
    /\ ~up /\ ~intact
    /\ intact' = TRUE
    /\ UNCHANGED <<auto, conns, file, up, msgs, notices, troubles, silent>>

-----------------------------------------------------------------------------
Init ==
    /\ auto \in AutoAgents
    /\ conns = NoConns /\ file = NoConns /\ intact = TRUE
    /\ up = TRUE
    /\ msgs = [m \in Messages |-> Expected]
    /\ notices = {}
    /\ troubles = 0
    /\ silent = [c \in Chats |-> {}]

Progress(m) ==
    \/ ClaimAnswered(m) \/ ConnectAnswered(m) \/ LookupAnswered(m)
    \/ Forward(m) \/ ForwardEnds(m)

Next ==
    \/ \E m \in Messages : Arrives(m) \/ Progress(m)
    \/ \E n \in notices : NoticeHandled(n)
    \/ \E k \in Keys : DeleteConnection(k)
    \/ Crash \/ Start \/ RemoveFile

Spec == Init /\ [][Next]_vars

(* A goroutine that is not blocked runs on, and every HTTP call returns:    *)
(* Python bounds a turn by its own timeouts.                                *)
Fairness == \A m \in Messages : WF_vars(Progress(m))
FairSpec == Spec /\ Fairness

-----------------------------------------------------------------------------
(* Every column of the store and every message stays in its domain, and a   *)
(* message on its way to Python has an agent (forwardToAgentSerial).        *)
TypeOK ==
    /\ auto \in AutoAgents
    /\ conns \in [Keys -> Conn \cup {NoConn}]
    /\ file \in [Keys -> Conn \cup {NoConn}]
    /\ intact \in BOOLEAN
    /\ up \in BOOLEAN
    /\ msgs \in [Messages -> [at : Places, shape : Shapes \cup {None},
                              about : Agents \cup {None}, to : Agents \cup {None}]]
    /\ \A m \in Messages : msgs[m].at \in {"queued", "sending", "orphan"} => msgs[m].to \in Agents
    /\ notices \in SUBSET [agent : Agents, shape : Shapes]
    /\ troubles \in 0..MaxTroubles
    /\ silent \in [Chats -> SUBSET Agents]

(* A chat that stopped an agent has no live entry for it, under any alias   *)
(* and after any restart, until it connects to it again: the keys another   *)
(* member of the chat connected are suppressed too (SuppressMany).          *)
StoppedEntriesStayOff ==
    \A k \in Keys : ~conns[k].off => conns[k].agent \notin silent[conns[k].chat]

(* No two forwards of one session are at Python together, so that none      *)
(* cancels the other (comment of getSenderMu); a request that a crash left  *)
(* behind at Python is the exception.                                       *)
Session(m) == <<msgs[m].to, SessionOf[msgs[m].shape]>>
OneForwardPerSession ==
    \A m, n \in Messages :
        (m # n /\ msgs[m].at = "sending" /\ msgs[n].at = "sending") => Session(m) # Session(n)

(* Every message that was handed over is dealt with: no forward keeps its   *)
(* chat's mutex, no message waits for it for ever.  Messages are finite, so *)
(* the router must come to rest.                                            *)
EveryMessageIsDealtWith ==
    []<>(~up \/ \A m \in Messages : msgs[m].at \in {"expected", "over"})
=============================================================================
