-------------------------- MODULE DevRouterProofs --------------------------
(***************************************************************************)
(* Theorems about DevRouter, for any shapes, keys, agents and bounds.      *)
(***************************************************************************)
EXTENDS DevRouter, WellFoundedInduction, TLAPS

USE DEF vars, StoreKept

Record == [at : Places, shape : Shapes \cup {None},
           about : Agents \cup {None}, to : Agents \cup {None}]
Table == [Keys -> Conn \cup {NoConn}]

(* A message that is being handled has a shape, and one that asks Python    *)
(* for an agent names it.                                                   *)
MsgOK(x) ==
  /\ x.at \notin {"expected", "over"} => x.shape \in Shapes
  /\ x.at \in {"claiming", "connecting"} => x.about \in Agents
  /\ x.at \in {"queued", "sending", "orphan"} => x.to \in Agents

TypeInv == TypeOK /\ \A m \in Messages : MsgOK(msgs[m])

----------------------------------------------------------------------------
(* What the steps are made of. *)

(* A set of numbers that is not empty has a least one.                      *)
LEMMA Least ==
  ASSUME NEW T, T \subseteq Nat, T # {}
  PROVE  \E x \in T : \A y \in T : x <= y
<1> DEFINE R == OpToRel(<, Nat)
<1>1. IsWellFoundedOn(R, Nat)
  BY Zenon, NatLessThanWellFounded
<1> HIDE DEF R
<1>2. PICK x \in T : \A y \in T : ~(<<y, x>> \in R)
  BY <1>1, WFMin, Zenon
<1>3. \A y \in Nat : y < x => <<y, x>> \in R
  BY <1>2 DEF R, OpToRel
<1>4. \A y \in T : ~(y < x)
  BY <1>2, <1>3, Zenon
<1> QED
  BY <1>4

(* A shape has keys, and its chat is among them.                            *)
LEMMA ShapeFacts ==
  ASSUME NEW s \in Shapes
  PROVE  /\ KeysOf[s] \in Seq(Keys)
         /\ KeySet(s) \subseteq Keys
         /\ ChatOf[s] \in KeySet(s) /\ ChatOf[s] \in Chats
         /\ KeysOf[s][1] \in KeySet(s)
<1>1. KeysOf[s] \in Seq(Keys) /\ ChatOf[s] \in KeySet(s) /\ ChatOf[s] \in Chats
  BY ShapesAssumption DEF Chats
<1>2. \A i \in 1..Len(KeysOf[s]) : KeysOf[s][i] \in Keys
  BY <1>1
<1>3. Len(KeysOf[s]) \in Nat /\ Len(KeysOf[s]) >= 1
  BY <1>1 DEF KeySet
<1> QED
  BY <1>1, <1>2, <1>3 DEF KeySet

(* The connection GetAny finds is one of the table.                         *)
LEMMA FoundIsConnection ==
  ASSUME TypeInv, NEW s \in Shapes, GetAny(s) # NoConn
  PROVE  GetAny(s) \in Conn
<1>1. Found(s) # {} /\ Found(s) \subseteq 1..Len(KeysOf[s])
  BY DEF GetAny, Found
<1>2. Found(s) \subseteq Nat
  BY <1>1, ShapeFacts
<1>3. \E i \in Found(s) : \A j \in Found(s) : i <= j
  BY <1>1, <1>2, Least
<1>4. PICK i \in Found(s) : GetAny(s) = conns[KeysOf[s][i]]
  BY <1>1, <1>3, Zenon DEF GetAny
<1>5. KeysOf[s][i] \in Keys
  BY <1>1, ShapeFacts DEF KeySet
<1>6. conns \in Table
  BY DEF TypeInv, TypeOK, Table
<1> QED
  BY <1>4, <1>5, <1>6 DEF Table

(* The empty table is a table, and none of its entries is live.             *)
LEMMA EmptyTable == NoConns \in Table /\ \A k \in Keys : NoConns[k].off = TRUE
BY DEF NoConns, NoConn, Table

(* A live entry is a connection.                                            *)
LEMMA LiveIsConnection ==
  ASSUME NEW c \in Table, NEW k \in Keys, ~c[k].off
  PROVE  c[k] \in Conn /\ c[k].agent \in Agents /\ c[k].chat \in Chats
BY DEF Table, Conn, NoConn

(* Whether or not it reaches the file, what is saved is in the table.       *)
LEMMA SaveKeeps ==
  ASSUME TypeInv, NEW c \in Table, NEW past \in Nat, Save(c, past)
  PROVE  /\ conns' = c /\ file' \in Table
         /\ intact' \in BOOLEAN /\ troubles' \in 0..MaxTroubles
<1>1. file \in Table /\ intact \in BOOLEAN
  BY DEF TypeInv, TypeOK, Table
<1>2. conns' = c /\ file' \in Table /\ intact' \in BOOLEAN
  BY <1>1, EmptyTable DEF Save
<1>3. troubles' \in {past, past + 1} /\ troubles' <= MaxTroubles
  BY DEF Save
<1> QED
  BY <1>2, <1>3, BoundsAssumption

(* A message changes.                                                       *)
LEMMA OneMessage ==
  ASSUME TypeInv, NEW m \in Messages, NEW r \in Record, MsgOK(r), Becomes(m, r)
  PROVE  /\ msgs' \in [Messages -> Record]
         /\ \A n \in Messages : MsgOK(msgs'[n])
         /\ \A n \in Messages \ {m} : msgs'[n] = msgs[n]
         /\ msgs'[m] = r
BY DEF TypeInv, TypeOK, Becomes, Record

(* The messages that are made are well-typed.                               *)
LEMMA MadeOK ==
  ASSUME NEW at \in Places, NEW s \in Shapes \cup {None},
         NEW about \in Agents \cup {None}, NEW to \in Agents \cup {None}
  PROVE  /\ Msg(at, s, about, to) \in Record
         /\ Msg(at, s, about, to).at = at /\ Msg(at, s, about, to).shape = s
         /\ Msg(at, s, about, to).about = about /\ Msg(at, s, about, to).to = to
BY DEF Msg, Record

(* A message that is over, or has not come, holds nothing.                  *)
LEMMA RestOK == /\ Over \in Record /\ MsgOK(Over) /\ Over.at = "over"
                /\ Expected \in Record /\ MsgOK(Expected) /\ Expected.at = "expected"
BY MadeOK DEF Over, Expected, MsgOK, Places

(* So do the messages that wait for Python's word, and those for a forward. *)
LEMMA WaitsOK ==
  ASSUME NEW at \in {"claiming", "connecting"}, NEW s \in Shapes, NEW about \in Agents,
         NEW to \in Agents \cup {None}
  PROVE  /\ Msg(at, s, about, to) \in Record /\ MsgOK(Msg(at, s, about, to))
         /\ Msg(at, s, about, to).at # "sending"
BY MadeOK DEF MsgOK, Places

LEMMA LooksOK ==
  ASSUME NEW s \in Shapes
  PROVE  /\ Msg("looking", s, None, None) \in Record /\ MsgOK(Msg("looking", s, None, None))
         /\ Msg("looking", s, None, None).at # "sending"
BY MadeOK DEF MsgOK, Places

LEMMA GoesOK ==
  ASSUME NEW at \in {"queued", "sending"}, NEW s \in Shapes, NEW about \in Agents \cup {None},
         NEW to \in Agents
  PROVE  Msg(at, s, about, to) \in Record /\ MsgOK(Msg(at, s, about, to))
         /\ Msg(at, s, about, to).at = at
BY MadeOK DEF MsgOK, Places

----------------------------------------------------------------------------
(* Type correctness. *)

(* The initial state is well-typed.                                         *)
LEMMA TypeInit == Init => TypeInv
<1> SUFFICES ASSUME Init PROVE TypeInv
  OBVIOUS
<1>1. TypeOK
  BY EmptyTable, RestOK, BoundsAssumption DEF Init, TypeOK, Table, Record, Expected, Msg
<1> QED
  BY <1>1, RestOK DEF Init, TypeInv

(* Connecting a chat keeps the store well-typed.                            *)
LEMMA ConnectsOK ==
  ASSUME TypeInv, NEW ks \in SUBSET Keys, NEW c \in Chats, NEW a \in Agents, SetMany(ks, c, a)
  PROVE  /\ conns' = Connected(ks, c, a) /\ Connected(ks, c, a) \in Table
         /\ file' \in Table /\ intact' \in BOOLEAN /\ troubles' \in 0..MaxTroubles
         /\ silent' = [silent EXCEPT ![c] = @ \ {a}] /\ silent' \in [Chats -> SUBSET Agents]
<1>1. Connected(ks, c, a) \in Table
  BY DEF Connected, Table, Conn, TypeInv, TypeOK
<1>2. troubles \in Nat
  BY BoundsAssumption DEF TypeInv, TypeOK
<1> QED
  BY <1>1, <1>2, SaveKeeps DEF SetMany, TypeInv, TypeOK

(* So does a stop.                                                          *)
Silenced(s, a) == [k \in Keys |-> IF k \in Suppressed(s, a)
                                  THEN [agent |-> a, chat |-> ChatOf[s], off |-> TRUE]
                                  ELSE conns[k]]
LEMMA SuppressesOK ==
  ASSUME TypeInv, NEW s \in Shapes, NEW a \in Agents, SuppressMany(s, a)
  PROVE  /\ conns' = Silenced(s, a) /\ Silenced(s, a) \in Table
         /\ file' \in Table /\ intact' \in BOOLEAN /\ troubles' \in 0..MaxTroubles
         /\ silent' = [silent EXCEPT ![ChatOf[s]] = @ \cup {a}]
         /\ silent' \in [Chats -> SUBSET Agents]
<1>1. Silenced(s, a) \in Table
  BY ShapeFacts DEF Silenced, Table, Conn, TypeInv, TypeOK
<1>2. troubles \in Nat
  BY BoundsAssumption DEF TypeInv, TypeOK
<1>3. Save(Silenced(s, a), troubles)
  BY DEF SuppressMany, Silenced
<1> QED
  BY <1>1, <1>2, <1>3, SaveKeeps, ShapeFacts DEF SuppressMany, TypeInv, TypeOK

(* A message that stops its chat names an agent.                            *)
LEMMA StopsAgent ==
  ASSUME TypeInv, NEW m \in Messages, NEW x \in Text, Stops(m, x)
  PROVE  \E a \in Agents : /\ SuppressMany(x.shape, a)
                           /\ notices' = notices \cup {[agent |-> a, shape |-> x.shape]}
<1>1. x.shape \in Shapes
  BY DEF Text
<1>2. PICK a : /\ a = IF GetAny(x.shape) = NoConn THEN auto ELSE GetAny(x.shape).agent
               /\ a # None /\ SuppressMany(x.shape, a)
               /\ notices' = notices \cup {[agent |-> a, shape |-> x.shape]}
  BY DEF Stops
<1>3. auto \in Agents \cup {None}
  BY NoneAssumption DEF TypeInv, TypeOK
<1>4. a \in Agents
  BY <1>1, <1>2, <1>3, FoundIsConnection DEF Conn
<1> QED
  BY <1>2, <1>4

(* Where a decision leads, the message is well-typed, and not at Python.    *)
LEMMA DecidesOK ==
  ASSUME TypeInv, NEW m \in Messages, NEW x \in Text, Decides(m, x)
  PROVE  \E r \in Record : MsgOK(r) /\ r.at # "sending" /\ Becomes(m, r)
<1> DEFINE conn == GetAny(x.shape)
<1>1. x.shape \in Shapes /\ x.about \in Agents \cup {None}
      /\ (x.kind \in {"code", "connect"} => x.about \in Agents)
  BY DEF Text
<1>2. auto \in Agents \cup {None}
  BY NoneAssumption DEF TypeInv, TypeOK
<1>3. conn # NoConn => conn.agent \in Agents
  BY <1>1, FoundIsConnection DEF Conn
<1> HIDE DEF conn
<1>4. CASE Suppresses(m, x, conn)
  <2>1. \/ Becomes(m, Over)
        \/ x.kind = "code" /\ Becomes(m, Msg("claiming", x.shape, x.about, None))
    BY <1>4 DEF Suppresses
  <2> QED
    BY <2>1, <1>1, WaitsOK, RestOK, Zenon
<1>5. CASE AutoRoutes(m, x, conn)
  <2>1. auto \in Agents /\ Becomes(m, Msg("queued", x.shape, x.about, auto))
    BY <1>5, <1>2 DEF AutoRoutes
  <2> QED
    BY <2>1, <1>1, GoesOK
<1>6. CASE Routes(m, x, conn)
  <2>1. \/ x.kind = "code" /\ Becomes(m, Msg("claiming", x.shape, x.about, conn.agent))
        \/ Becomes(m, Msg("queued", x.shape, None, conn.agent))
    BY <1>6 DEF Routes
  <2>2. conn.agent \in Agents
    BY <1>6, <1>3 DEF Routes
  <2>3. CASE x.kind = "code" /\ Becomes(m, Msg("claiming", x.shape, x.about, conn.agent))
    BY <2>2, <2>3, <1>1, WaitsOK
  <2>4. CASE Becomes(m, Msg("queued", x.shape, None, conn.agent))
    <3>1. /\ Msg("queued", x.shape, None, conn.agent) \in Record /\ MsgOK(Msg("queued", x.shape, None, conn.agent))
          /\ Msg("queued", x.shape, None, conn.agent).at = "queued"
      BY ZenonT(30), <2>2, <1>1, GoesOK
    <3> QED
      BY <2>4, <3>1
  <2> QED
    BY <2>1, <2>3, <2>4
<1>7. CASE Greets(m, x, conn)
  <2>1. \/ x.kind = "connect" /\ Becomes(m, Msg("connecting", x.shape, x.about, None))
        \/ x.kind = "code" /\ Becomes(m, Msg("claiming", x.shape, x.about, None))
        \/ Becomes(m, Msg("looking", x.shape, None, None))
        \/ Becomes(m, Over)
    BY <1>7, Zenon DEF Greets
  <2> QED
    BY <2>1, <1>1, WaitsOK, LooksOK, RestOK
<1> QED
  BY <1>4, <1>5, <1>6, <1>7 DEF Decides, conn

(* A step keeps the state well-typed.                                       *)
LEMMA TypeStep == TypeInv /\ [Next]_vars => TypeInv'
<1> SUFFICES ASSUME TypeInv, [Next]_vars PROVE TypeInv'
  OBVIOUS
<1> USE DEF TypeInv
<1>1. /\ conns \in Table /\ file \in Table /\ msgs \in [Messages -> Record]
      /\ troubles \in Nat /\ troubles <= MaxTroubles
  BY BoundsAssumption DEF TypeOK, Table, Record
<1>2. ASSUME auto' = auto, up' \in BOOLEAN,
             conns' \in Table, file' \in Table, intact' \in BOOLEAN,
             msgs' \in [Messages -> Record], \A m \in Messages : MsgOK(msgs'[m]),
             notices' \in SUBSET [agent : Agents, shape : Shapes],
             troubles' \in 0..MaxTroubles, silent' \in [Chats -> SUBSET Agents]
      PROVE  TypeInv'
  BY <1>2 DEF TypeOK, Table, Record, MsgOK
<1>3. ASSUME NEW m \in Messages, Arrives(m) PROVE TypeInv'
  <2>1. PICK x \in Text : Stops(m, x) \/ Decides(m, x)
    BY <1>3 DEF Arrives
  <2>2. auto' = auto /\ up' = up
    BY <1>3 DEF Arrives
  <2>3. CASE Stops(m, x)
    <3>1. PICK a \in Agents : /\ SuppressMany(x.shape, a)
                              /\ notices' = notices \cup {[agent |-> a, shape |-> x.shape]}
      BY <2>3, StopsAgent
    <3>2. x.shape \in Shapes
      BY DEF Text
    <3>3. Becomes(m, Over)
      BY <2>3 DEF Stops
    <3> QED
      BY <1>2, <2>2, <3>1, <3>2, <3>3, SuppressesOK, OneMessage, RestOK DEF TypeOK
  <2>4. CASE Decides(m, x)
    <3>1. PICK r \in Record : MsgOK(r) /\ Becomes(m, r)
      BY <2>4, DecidesOK
    <3>2. UNCHANGED <<conns, file, intact, troubles, silent, notices>>
      BY <2>4 DEF Decides
    <3> QED
      BY <1>1, <1>2, <2>2, <3>1, <3>2, OneMessage DEF TypeOK
  <2> QED
    BY <2>1, <2>3, <2>4
<1>4. ASSUME NEW m \in Messages, ClaimAnswered(m) PROVE TypeInv'
  <2>1. /\ msgs[m].at = "claiming" /\ msgs[m] \in Record /\ MsgOK(msgs[m])
        /\ auto' = auto /\ up' = up /\ notices' = notices
    BY <1>1, <1>4 DEF ClaimAnswered
  <2>2. msgs[m].shape \in Shapes /\ msgs[m].about \in Agents
    BY <2>1 DEF MsgOK
  <2>3. CASE SetMany(KeySet(msgs[m].shape), ChatOf[msgs[m].shape], msgs[m].about)
             /\ Becomes(m, Over)
    <3> DEFINE s == msgs[m].shape
    <3>1. KeySet(s) \in SUBSET Keys /\ ChatOf[s] \in Chats
      BY <2>2, ShapeFacts
    <3>2. /\ msgs' \in [Messages -> Record]
          /\ \A n \in Messages : MsgOK(msgs'[n])
      BY <2>3, OneMessage, RestOK
    <3>3. /\ conns' \in Table /\ file' \in Table /\ intact' \in BOOLEAN
          /\ troubles' \in 0..MaxTroubles /\ silent' \in [Chats -> SUBSET Agents]
      BY <2>2, <2>3, <3>1, ConnectsOK
    <3>4. up' \in BOOLEAN /\ notices' \in SUBSET [agent : Agents, shape : Shapes]
      BY <2>1 DEF TypeOK
    <3> QED
      BY <1>2, <2>1, <3>2, <3>3, <3>4
  <2>4. CASE /\ Becomes(m, IF msgs[m].to = None THEN Over ELSE [msgs[m] EXCEPT !.at = "queued"])
             /\ StoreKept
    <3>1. msgs[m].to # None =>
            [msgs[m] EXCEPT !.at = "queued"] \in Record /\ MsgOK([msgs[m] EXCEPT !.at = "queued"])
      BY <2>1, <2>2 DEF Record, MsgOK, Places
    <3>2. PICK r \in Record : MsgOK(r) /\ Becomes(m, r)
      BY <2>4, <3>1, RestOK
    <3> QED
      BY <1>1, <1>2, <2>1, <2>4, <3>2, OneMessage DEF TypeOK
  <2> QED
    BY <1>4, <2>3, <2>4 DEF ClaimAnswered
<1>5. ASSUME NEW m \in Messages, ConnectAnswered(m) PROVE TypeInv'
  <2> DEFINE s == msgs[m].shape
             ks == {KeysOf[s][1], ChatOf[s]}
  <2>1. /\ msgs[m].at = "connecting" /\ MsgOK(msgs[m]) /\ Becomes(m, Over)
        /\ auto' = auto /\ up' = up /\ notices' = notices
        /\ SetMany(ks, ChatOf[s], msgs[m].about) \/ StoreKept
    BY <1>5 DEF ConnectAnswered
  <2>2. s \in Shapes /\ msgs[m].about \in Agents
    BY <2>1 DEF MsgOK
  <2>3. ks \in SUBSET Keys /\ ChatOf[s] \in Chats
    BY <2>2, ShapeFacts
  <2> HIDE DEF s, ks
  <2>4. /\ msgs' \in [Messages -> Record]
        /\ \A n \in Messages : MsgOK(msgs'[n])
    BY <2>1, OneMessage, RestOK
  <2>5. CASE SetMany(ks, ChatOf[s], msgs[m].about)
    BY ZenonT(40), <1>2, <2>1, <2>2, <2>3, <2>4, <2>5, ConnectsOK DEF TypeOK
  <2>6. CASE StoreKept
    BY <1>1, <1>2, <2>1, <2>4, <2>6 DEF TypeOK
  <2> QED
    BY <2>1, <2>5, <2>6
<1>6. ASSUME NEW m \in Messages, LookupAnswered(m) PROVE TypeInv'
  <2>1. /\ msgs[m].at = "looking" /\ msgs[m] \in Record /\ MsgOK(msgs[m])
        /\ auto' = auto /\ up' = up /\ notices' = notices /\ StoreKept
    BY <1>1, <1>6 DEF LookupAnswered
  <2>2. msgs[m].shape \in Shapes /\ OperatorOf[msgs[m].shape] \in SUBSET Agents
    BY <2>1, ShapesAssumption DEF MsgOK
  <2>3. \/ \E a \in OperatorOf[msgs[m].shape] :
              Becomes(m, [msgs[m] EXCEPT !.at = "queued", !.to = a])
        \/ Becomes(m, Over)
    BY Zenon, <1>1, <1>6 DEF LookupAnswered, Becomes
  <2>4. \A a \in Agents : /\ [msgs[m] EXCEPT !.at = "queued", !.to = a] \in Record
                          /\ MsgOK([msgs[m] EXCEPT !.at = "queued", !.to = a])
    BY <2>1, <2>2 DEF Record, MsgOK, Places
  <2>5. PICK r \in Record : MsgOK(r) /\ Becomes(m, r)
    BY Zenon, <2>2, <2>3, <2>4, RestOK
  <2> QED
    BY <1>1, <1>2, <2>1, <2>5, OneMessage DEF TypeOK
<1>7. ASSUME NEW m \in Messages, Forward(m) PROVE TypeInv'
  <2>1. /\ msgs[m].at = "queued" /\ msgs[m] \in Record /\ MsgOK(msgs[m])
        /\ auto' = auto /\ up' = up /\ notices' = notices /\ StoreKept
    BY <1>1, <1>7 DEF Forward
  <2>2. PICK a \in Resolves(m) : Becomes(m, Msg("sending", msgs[m].shape, None, a))
    BY <1>7 DEF Forward
  <2>3. a \in Agents /\ msgs[m].shape \in Shapes
    BY <2>1 DEF Resolves, MsgOK, Record
  <2> QED
    BY <1>1, <1>2, <2>1, <2>2, <2>3, GoesOK, OneMessage DEF TypeOK
<1>8. ASSUME NEW m \in Messages, ForwardEnds(m) PROVE TypeInv'
  BY <1>1, <1>2, <1>8, RestOK, OneMessage DEF ForwardEnds, TypeOK
<1>9. ASSUME NEW n \in notices, NoticeHandled(n) PROVE TypeInv'
  <2>1. /\ msgs' \in [Messages -> Record]
        /\ \A m \in Messages : MsgOK(msgs'[m])
    BY <1>1, <1>9, RestOK DEF NoticeHandled
  <2> QED
    BY <1>1, <1>2, <1>9, <2>1 DEF NoticeHandled, TypeOK
<1>10. ASSUME NEW k \in Keys, DeleteConnection(k) PROVE TypeInv'
  <2>1. [conns EXCEPT ![k] = NoConn] \in Table
    BY <1>1 DEF Table
  <2>2. troubles + 1 \in Nat
    BY <1>1
  <2> QED
    BY <1>1, <1>2, <1>10, <2>1, <2>2, SaveKeeps DEF DeleteConnection, TypeOK
<1>11. CASE Crash
  <2>1. /\ auto' = auto /\ up' = FALSE /\ conns' = NoConns
        /\ UNCHANGED <<file, intact, notices>> /\ troubles' = troubles + 1 /\ troubles < MaxTroubles
    BY <1>11 DEF Crash
  <2>2. silent' \in [Chats -> SUBSET Agents]
    BY <1>11 DEF Crash, TypeOK
  <2>3. /\ msgs' \in [Messages -> Record]
        /\ \A m \in Messages : MsgOK(msgs'[m])
    <3>1. \A m \in Messages : msgs[m] \in Record /\ MsgOK(msgs[m])
      BY <1>1
    <3>2. \A r \in Record : (MsgOK(r) /\ r.at = "sending") =>
             [r EXCEPT !.at = "orphan"] \in Record /\ MsgOK([r EXCEPT !.at = "orphan"])
      BY DEF Record, MsgOK, Places
    <3>3. /\ msgs' = [m \in Messages |-> msgs'[m]]
          /\ \A m \in Messages :
               \/ msgs[m].at = "sending" /\ msgs'[m] = [msgs[m] EXCEPT !.at = "orphan"]
               \/ msgs'[m] \in {msgs[m], Over}
      BY <1>11 DEF Crash
    <3>4. ASSUME NEW m \in Messages PROVE msgs'[m] \in Record /\ MsgOK(msgs'[m])
      <4>1. CASE msgs[m].at = "sending" /\ msgs'[m] = [msgs[m] EXCEPT !.at = "orphan"]
        BY <3>1, <3>2, <4>1
      <4>2. CASE msgs'[m] \in {msgs[m], Over}
        BY <3>1, <4>2, RestOK
      <4> QED
        BY <3>3, <4>1, <4>2
    <3> QED
      BY <3>3, <3>4
  <2>4. /\ conns' \in Table /\ file' \in Table /\ intact' \in BOOLEAN /\ up' \in BOOLEAN
        /\ notices' \in SUBSET [agent : Agents, shape : Shapes]
    BY <1>1, <2>1, EmptyTable DEF TypeOK
  <2>5. troubles' \in 0..MaxTroubles
    BY <1>1, <2>1, BoundsAssumption
  <2> QED
    BY <1>2, <2>1, <2>2, <2>3, <2>4, <2>5
<1>12. CASE Start
  BY <1>1, <1>2, <1>12 DEF Start, TypeOK
<1>13. CASE RemoveFile
  BY <1>1, <1>2, <1>13 DEF RemoveFile, TypeOK
<1>14. CASE UNCHANGED vars
  BY <1>1, <1>2, <1>14 DEF TypeOK
<1> QED
  BY <1>3, <1>4, <1>5, <1>6, <1>7, <1>8, <1>9, <1>10, <1>11, <1>12, <1>13, <1>14
     DEF Next, Progress

(* Every column of the store and every message stays in its domain, and a   *)
(* message on its way to Python has an agent (forwardToAgentSerial).        *)
THEOREM TypeCorrect == Spec => []TypeOK
<1>1. TypeInv => TypeOK
  BY DEF TypeInv
<1> QED
  BY <1>1, TypeInit, TypeStep, PTL DEF Spec

----------------------------------------------------------------------------
(* What was stopped stays off. *)

(* No live entry of a table is for an agent its chat has stopped.  While    *)
(* the process is down the file is what the next one will start with.       *)
Quiet(c, s) == \A k \in Keys : ~c[k].off => c[k].agent \notin s[c[k].chat]
SilentInv == TypeInv /\ Quiet(conns, silent) /\ (~up => Quiet(file, silent))

(* Nothing is live in an empty table, and nothing was stopped by nobody.    *)
LEMMA QuietTables ==
  ASSUME NEW c \in Table
  PROVE  /\ \A s : Quiet(NoConns, s)
         /\ Quiet(c, [d \in Chats |-> {}])
<1>1. \A s : Quiet(NoConns, s)
  BY EmptyTable DEF Quiet
<1>2. Quiet(c, [d \in Chats |-> {}])
  BY LiveIsConnection DEF Quiet
<1> QED
  BY <1>1, <1>2

(* A chat that connects forgives its agent; every other entry is as it was. *)
LEMMA ConnectsQuietly ==
  ASSUME SilentInv, NEW ks \in SUBSET Keys, NEW c \in Chats, NEW a \in Agents, SetMany(ks, c, a)
  PROVE  Quiet(conns, silent)'
<1>1. /\ conns' = Connected(ks, c, a) /\ silent' = [silent EXCEPT ![c] = @ \ {a}]
      /\ conns \in Table /\ silent \in [Chats -> SUBSET Agents]
  BY ConnectsOK DEF SilentInv, TypeInv, TypeOK, Table
<1>2. ASSUME NEW k \in Keys, ~conns'[k].off PROVE conns'[k].agent \notin silent'[conns'[k].chat]
  <2>1. CASE k \in ks
    BY <1>1, <2>1 DEF Connected
  <2>2. CASE k \notin ks
    <3>1. conns'[k] = conns[k]
      BY <1>1, <2>2 DEF Connected
    <3>2. conns[k].agent \notin silent[conns[k].chat] /\ conns[k].chat \in Chats
      BY <1>1, <1>2, <3>1, LiveIsConnection DEF SilentInv, Quiet
    <3> QED
      BY <1>1, <3>1, <3>2
  <2> QED
    BY <2>1, <2>2
<1> QED
  BY <1>2 DEF Quiet

(* A stop turns off every live entry of the agent and the chat.             *)
LEMMA StopsQuietly ==
  ASSUME SilentInv, NEW s \in Shapes, NEW a \in Agents, SuppressMany(s, a)
  PROVE  Quiet(conns, silent)'
<1>1. /\ conns' = Silenced(s, a) /\ silent' = [silent EXCEPT ![ChatOf[s]] = @ \cup {a}]
      /\ conns \in Table /\ silent \in [Chats -> SUBSET Agents]
  BY SuppressesOK DEF SilentInv, TypeInv, TypeOK, Table
<1>2. ASSUME NEW k \in Keys, ~conns'[k].off PROVE conns'[k].agent \notin silent'[conns'[k].chat]
  <2>1. k \notin Suppressed(s, a) /\ conns'[k] = conns[k]
    BY <1>1, <1>2 DEF Silenced
  <2>2. /\ conns[k] \in Conn /\ conns[k].chat \in Chats
        /\ conns[k].agent \notin silent[conns[k].chat]
    BY <1>1, <1>2, <2>1, LiveIsConnection DEF SilentInv, Quiet
  <2>3. conns[k] # NoConn
    BY <1>2, <2>1 DEF NoConn
  <2>4. ~(conns[k].agent = a /\ conns[k].chat = ChatOf[s])
    BY <2>1, <2>3 DEF Suppressed
  <2> QED
    BY <1>1, <2>1, <2>2, <2>4
<1> QED
  BY <1>2 DEF Quiet

(* A step leaves nothing live that was stopped.                             *)
LEMMA SilentStep == SilentInv /\ [Next]_vars => SilentInv'
<1> SUFFICES ASSUME SilentInv, [Next]_vars PROVE SilentInv'
  OBVIOUS
<1>1. TypeInv /\ TypeInv' /\ conns \in Table /\ file \in Table
      /\ msgs \in [Messages -> Record] /\ \A m \in Messages : MsgOK(msgs[m])
  BY TypeStep DEF SilentInv, TypeInv, TypeOK, Table, Record
<1>2. ASSUME UNCHANGED <<conns, file, silent, up>> PROVE SilentInv'
  BY <1>1, <1>2 DEF SilentInv, Quiet
<1>3. ASSUME NEW m \in Messages, Arrives(m) PROVE SilentInv'
  <2>1. PICK x \in Text : Stops(m, x) \/ Decides(m, x)
    BY <1>3 DEF Arrives
  <2>2. up /\ up' = up
    BY <1>3 DEF Arrives
  <2>3. CASE Stops(m, x)
    <3>1. PICK a \in Agents : SuppressMany(x.shape, a)
      BY <1>1, <2>3, StopsAgent
    <3>2. x.shape \in Shapes
      BY DEF Text
    <3> QED
      BY <1>1, <2>2, <3>1, <3>2, StopsQuietly DEF SilentInv
  <2>4. CASE Decides(m, x)
    BY <1>2, <2>2, <2>4 DEF Decides
  <2> QED
    BY <2>1, <2>3, <2>4
<1>4. ASSUME NEW m \in Messages, ClaimAnswered(m) PROVE SilentInv'
  <2>1. msgs[m].shape \in Shapes /\ msgs[m].about \in Agents /\ up /\ up' = up
    BY <1>1, <1>4 DEF ClaimAnswered, MsgOK
  <2>2. CASE SetMany(KeySet(msgs[m].shape), ChatOf[msgs[m].shape], msgs[m].about)
    BY <1>1, <2>1, <2>2, ShapeFacts, ConnectsQuietly DEF SilentInv
  <2>3. CASE StoreKept
    BY <1>2, <2>1, <2>3
  <2> QED
    BY <1>4, <2>2, <2>3 DEF ClaimAnswered
<1>5. ASSUME NEW m \in Messages, ConnectAnswered(m) PROVE SilentInv'
  <2> DEFINE s == msgs[m].shape
             ks == {KeysOf[s][1], ChatOf[s]}
  <2>1. s \in Shapes /\ msgs[m].about \in Agents /\ up /\ up' = up
    BY <1>1, <1>5 DEF ConnectAnswered, MsgOK
  <2>2. SetMany(ks, ChatOf[s], msgs[m].about) \/ StoreKept
    BY <1>5 DEF ConnectAnswered
  <2>3. ks \in SUBSET Keys /\ ChatOf[s] \in Chats
    BY <2>1, ShapeFacts
  <2> HIDE DEF s, ks
  <2>4. CASE SetMany(ks, ChatOf[s], msgs[m].about)
    BY <1>1, <2>1, <2>3, <2>4, ConnectsQuietly DEF SilentInv
  <2>5. CASE StoreKept
    BY <1>2, <2>1, <2>5
  <2> QED
    BY <2>2, <2>4, <2>5
<1>6. ASSUME NEW m \in Messages, LookupAnswered(m) \/ Forward(m) \/ ForwardEnds(m) PROVE SilentInv'
  BY <1>2, <1>6 DEF LookupAnswered, Forward, ForwardEnds
<1>7. ASSUME NEW n \in notices, NoticeHandled(n) PROVE SilentInv'
  BY <1>2, <1>7 DEF NoticeHandled
<1>8. ASSUME NEW k \in Keys, DeleteConnection(k) PROVE SilentInv'
  <2>1. conns' = [conns EXCEPT ![k] = NoConn] /\ silent' = silent /\ up /\ up' = up
    BY <1>8 DEF DeleteConnection, Save
  <2>2. \A l \in Keys : conns'[l] = conns[l] \/ conns'[l] = NoConn
    BY <1>1, <2>1 DEF Table
  <2> QED
    BY <1>1, <2>1, <2>2 DEF SilentInv, Quiet, NoConn
<1>9. CASE Crash
  <2>1. Quiet(file, silent)'
    BY <1>1, <1>9, QuietTables DEF Crash, SilentInv, Quiet
  <2>2. Quiet(conns, silent)'
    BY <1>1, <1>9, QuietTables DEF Crash
  <2> QED
    BY <1>1, <2>1, <2>2 DEF SilentInv
<1>10. CASE Start
  BY <1>1, <1>10 DEF Start, SilentInv, Quiet
<1>11. CASE RemoveFile
  BY <1>2, <1>11 DEF RemoveFile
<1>12. CASE UNCHANGED vars
  BY <1>2, <1>12
<1> QED
  BY <1>3, <1>4, <1>5, <1>6, <1>7, <1>8, <1>9, <1>10, <1>11, <1>12 DEF Next, Progress

(* A chat that stopped an agent has no live entry for it, under any alias   *)
(* and after any restart, until it connects to it again (SuppressMany).     *)
THEOREM StoppedStaysOff == Spec => []StoppedEntriesStayOff
<1>1. Init => SilentInv
  BY TypeInit, EmptyTable DEF Init, SilentInv, Quiet
<1>2. SilentInv => StoppedEntriesStayOff
  BY DEF SilentInv, Quiet, StoppedEntriesStayOff
<1> QED
  BY <1>1, <1>2, SilentStep, PTL DEF Spec

----------------------------------------------------------------------------
(* One forward at a time. *)

(* Two forwards at Python are of different chats.                           *)
MutexInv ==
  /\ TypeInv
  /\ \A m, n \in Messages : (m # n /\ msgs[m].at = "sending" /\ msgs[n].at = "sending")
                               => ChatOf[msgs[m].shape] # ChatOf[msgs[n].shape]

(* A step that sends no message leaves the mutexes as they are, or frees    *)
(* some of them.                                                            *)
NothingSent == \A m \in Messages : msgs'[m].at = "sending" => msgs'[m] = msgs[m]
LEMMA NothingSentKeeps == MutexInv /\ TypeInv' /\ NothingSent => MutexInv'
BY DEF MutexInv, NothingSent

(* A step keeps forwards apart.                                             *)
LEMMA MutexStep == MutexInv /\ [Next]_vars => MutexInv'
<1> SUFFICES ASSUME MutexInv, [Next]_vars PROVE MutexInv'
  OBVIOUS
<1>1. TypeInv /\ TypeInv' /\ msgs \in [Messages -> Record]
  BY TypeStep DEF MutexInv, TypeInv, TypeOK, Record
<1>2. ASSUME NEW m \in Messages, Forward(m) PROVE MutexInv'
  <2>1. /\ msgs[m].at = "queued" /\ msgs[m].shape \in Shapes
        /\ \A n \in Messages : msgs[n].at = "sending" => ChatOf[msgs[n].shape] # ChatOf[msgs[m].shape]
    BY <1>1, <1>2 DEF Forward, MutexFree, TypeInv, MsgOK
  <2>2. PICK a \in Resolves(m) : Becomes(m, Msg("sending", msgs[m].shape, None, a))
    BY <1>2 DEF Forward
  <2>3. /\ msgs'[m].shape = msgs[m].shape
        /\ \A n \in Messages \ {m} : msgs'[n] = msgs[n]
    BY <1>1, <2>2 DEF Becomes, Msg
  <2> QED
    BY <1>1, <2>1, <2>3 DEF MutexInv
<1>3. ASSUME NEW m \in Messages, NEW r \in Record, MsgOK(r), r.at # "sending", Becomes(m, r)
      PROVE  MutexInv'
  <2>1. NothingSent
    BY <1>1, <1>3, OneMessage DEF NothingSent
  <2> QED
    BY <1>1, <2>1, NothingSentKeeps
<1>4. ASSUME NEW m \in Messages, Arrives(m) PROVE MutexInv'
  <2>1. PICK x \in Text : Stops(m, x) \/ Decides(m, x)
    BY <1>4 DEF Arrives
  <2>2. CASE Stops(m, x)
    BY <1>3, <2>2, RestOK DEF Stops
  <2>3. CASE Decides(m, x)
    BY <1>1, <1>3, <2>3, DecidesOK
  <2> QED
    BY <2>1, <2>2, <2>3
<1>5. ASSUME NEW m \in Messages, ClaimAnswered(m) \/ LookupAnswered(m) PROVE MutexInv'
  <2>1. \A n \in Messages : msgs'[n].at \in {"queued", "over"} \/ msgs'[n] = msgs[n]
    BY <1>1, <1>5, RestOK DEF ClaimAnswered, LookupAnswered, Becomes, Record
  <2> QED
    BY <1>1, <2>1, NothingSentKeeps DEF NothingSent
<1>6. ASSUME NEW m \in Messages, ConnectAnswered(m) \/ ForwardEnds(m) PROVE MutexInv'
  BY <1>3, <1>6, RestOK DEF ConnectAnswered, ForwardEnds
<1>7. ASSUME NEW n \in notices, NoticeHandled(n) PROVE MutexInv'
  <2>1. NothingSent
    BY <1>1, <1>7, RestOK DEF NoticeHandled, NothingSent
  <2> QED
    BY <1>1, <2>1, NothingSentKeeps
<1>8. CASE Crash
  <2>1. \A m \in Messages : msgs'[m].at # "sending"
    BY <1>1, <1>8, RestOK DEF Crash, Record
  <2> QED
    BY <1>1, <2>1, NothingSentKeeps DEF NothingSent
<1>9. ASSUME UNCHANGED msgs PROVE MutexInv'
  BY <1>1, <1>9 DEF MutexInv
<1>10. ASSUME NEW k \in Keys, DeleteConnection(k) PROVE MutexInv'
  BY <1>9, <1>10 DEF DeleteConnection
<1>11. CASE Start \/ RemoveFile \/ UNCHANGED vars
  BY <1>9, <1>11 DEF Start, RemoveFile
<1> QED
  BY <1>2, <1>4, <1>5, <1>6, <1>7, <1>8, <1>10, <1>11 DEF Next, Progress

(* If a session belongs to one chat, no two forwards of one session are at  *)
(* Python together, so that none cancels the other (getSenderMu).           *)
THEOREM OneForwardPerSessionHolds ==
  ASSUME \A s, t \in Shapes : SessionOf[s] = SessionOf[t] => ChatOf[s] = ChatOf[t]
  PROVE  Spec => []OneForwardPerSession
<1>1. Init => MutexInv
  BY TypeInit, RestOK DEF Init, MutexInv
<1>2. MutexInv => OneForwardPerSession
  BY DEF MutexInv, OneForwardPerSession, Session, TypeInv, MsgOK
<1> QED
  BY <1>1, <1>2, MutexStep, PTL DEF Spec
============================================================================
