------------------------- MODULE SessionTurnProofs -------------------------
(***************************************************************************)
(* Theorems about SessionTurn, for any sets of requests.                   *)
(***************************************************************************)
EXTENDS ApiTurns, TLAPS

(* The abbreviations every proof about a step expands. *)
USE DEF Turns, Tasks, vars, lockVars, turnVars, cancelVars, Goto, Finish

(* The places, outcomes and statuses the actions use are the declared ones. *)
LEMMA Names ==
  /\ "idle" \in Places /\ "grace" \in Places /\ "queued" \in Places
  /\ "refresh" \in Places /\ "setup" \in Places /\ "invoke" \in Places
  /\ "finish" \in Places /\ "persist" \in Places /\ "cleanup" \in Places
  /\ "post" \in Places /\ "commit" \in Places /\ "done" \in Places
  /\ "none" \in Outcomes /\ "stale" \in Outcomes /\ "cancelled" \in Outcomes
  /\ "timeout" \in Outcomes /\ "disabled" \in Outcomes /\ "error" \in Outcomes
  /\ "suppressed" \in Outcomes /\ "replied" \in Outcomes /\ "stopped" \in Outcomes
  /\ "none" \in Statuses /\ "running" \in Statuses /\ "completed" \in Statuses
  /\ "cancelled" \in Statuses /\ "failed" \in Statuses
BY DEF Places, Holding, Running, Unwinding, Outcomes, Statuses

(* A fresh process has the declared types. *)
LEMMA TypeCorrectInit == Init => TypeOK
<1> USE Names DEF TypeOK
<1>0. NoEntry \in LockEntry
  BY DEF NoEntry, LockEntry
<1> SUFFICES ASSUME Init PROVE TypeOK
  OBVIOUS
<1>1. entry \in LockEntry /\ active \in Tasks \cup {NoTask} /\ disabled \in BOOLEAN
  BY <1>0 DEF Init
<1>2. made \in Nat /\ gen \in Nat /\ num \in [Tasks -> Nat] /\ lockOf \in [Tasks -> Nat]
  BY DEF Init
<1>3. /\ pc \in [Tasks -> Places] /\ rec \in [Tasks -> Statuses]
      /\ outcome \in [Tasks -> Outcomes]
  BY DEF Init
<1>4. ahead \in [Tasks -> SUBSET Tasks] /\ target \in [Tasks -> Tasks \cup {NoTask}]
  BY DEF Init
<1>5. /\ pending \in SUBSET Tasks /\ interrupted \in SUBSET Tasks
      /\ expired \in SUBSET Tasks
  BY DEF Init
<1> QED
  BY <1>1, <1>2, <1>3, <1>4, <1>5

(* Every handler keeps the types, action by action. *)
LEMMA TypeCorrectStep == TypeOK /\ [Next]_vars => TypeOK'
<1> USE Names DEF TypeOK
<1>0. NoEntry \in LockEntry
  BY DEF NoEntry, LockEntry
<1> SUFFICES ASSUME TypeOK, [Next]_vars PROVE TypeOK'
  OBVIOUS
<1>f. FreshEntry \in LockEntry
  BY DEF FreshEntry, LockEntry
<1>e. Entries \subseteq LockEntry
  BY <1>f DEF Entries
<1>b. ASSUME NEW t \in Tasks, NEW l \in Nat, NEW e \in LockEntry,
             Body(t, l, e, TRUE) \/ Body(t, l, e, IsLatest(t))
      PROVE  /\ entry' \in LockEntry
             /\ active' \in Tasks \cup {NoTask}
             /\ pc' \in [Tasks -> Places]
             /\ lockOf' \in [Tasks -> Nat]
             /\ outcome' \in [Tasks -> Outcomes]
  <2>1. Stamped(e, TRUE) \in LockEntry /\ Stamped(e, FALSE) \in LockEntry
    BY DEF Stamped, LockEntry
  <2>2. CASE t \in Turns /\ Finish(t, "stale") /\ entry' = Stamped(e, FALSE)
             /\ lockOf' = [lockOf EXCEPT ![t] = 0] /\ UNCHANGED active
    BY <2>1, <2>2
  <2>3. CASE Goto(t, "refresh") /\ entry' = Stamped(e, TRUE)
             /\ lockOf' = [lockOf EXCEPT ![t] = l] /\ UNCHANGED <<active, outcome>>
    BY <2>1, <2>3
  <2>4. CASE Goto(t, "setup") /\ entry' = Stamped(e, TRUE)
             /\ lockOf' = [lockOf EXCEPT ![t] = l] /\ UNCHANGED outcome
             /\ active' = IF t \in ApiTurns THEN t ELSE active
    BY <2>1, <2>4
  <2> QED
    BY <1>b, <2>2, <2>3, <2>4 DEF Body
<1>n. ASSUME NEW t \in Tasks, NEW e \in LockEntry,
             Enter(t, e, TRUE) \/ Enter(t, e, IsLatest(t))
      PROVE  /\ entry' \in LockEntry
             /\ made' \in Nat
             /\ active' \in Tasks \cup {NoTask}
             /\ pc' \in [Tasks -> Places]
             /\ lockOf' \in [Tasks -> Nat]
             /\ ahead' \in [Tasks -> SUBSET Tasks]
             /\ outcome' \in [Tasks -> Outcomes]
  <2>0. e.lock \in Nat
    BY DEF LockEntry
  <2>1. CASE /\ Body(t, e.lock, e, TRUE) \/ Body(t, e.lock, e, IsLatest(t))
             /\ UNCHANGED ahead
    BY <1>n, <1>b, <2>0, <2>1 DEF Enter
  <2>2. CASE ~Free(e.lock)
    <3>1. /\ Goto(t, "queued") /\ lockOf' = [lockOf EXCEPT ![t] = e.lock]
          /\ ahead' = [ahead EXCEPT ![t] = {u \in Tasks : Waits(u, e.lock)}]
          /\ entry' = e /\ UNCHANGED <<active, outcome>>
          /\ made' = IF e.lock > made THEN e.lock ELSE made
      BY <1>n, <2>2 DEF Enter
    <3>2. ahead' \in [Tasks -> SUBSET Tasks]
      BY <3>1
    <3> QED
      BY <3>1, <3>2, <2>0
  <2> QED
    BY <1>n, <2>1, <2>2 DEF Enter
<1>l. ASSUME NEW t \in Tasks, LeaveLock(t)
      PROVE  /\ entry' \in LockEntry
             /\ made' \in Nat
             /\ active' \in Tasks \cup {NoTask}
             /\ lockOf' \in [Tasks -> Nat]
             /\ ahead' \in [Tasks -> SUBSET Tasks]
  <2>1. Stamped(entry, FALSE) \in LockEntry
    BY DEF Stamped, LockEntry
  <2> QED
    BY <1>l, <2>1 DEF LeaveLock
<1>1. CASE Evict
  BY <1>0, <1>1 DEF Evict
<1>2. ASSUME NEW t \in Tasks, ArriveTurn(t) PROVE TypeOK'
  <2>1. gen' \in Nat /\ num' \in [Tasks -> Nat]
    BY <1>2 DEF ArriveTurn
  <2>2. CASE CancelActive(t)
    BY <1>2, <2>1, <2>2 DEF ArriveTurn, CancelActive, Cancellable
  <2>3. CASE (\E e \in Entries : Enter(t, e, TRUE)) /\ UNCHANGED cancelVars
    BY <1>2, <1>e, <1>n, <2>1, <2>3 DEF ArriveTurn
  <2> QED
    BY <1>2, <2>2, <2>3 DEF ArriveTurn
<1>3. ASSUME NEW t \in Tasks, ArriveResume(t) PROVE TypeOK'
  BY <1>3, <1>e, <1>n DEF ArriveResume
<1>4. ASSUME NEW t \in Tasks, ArriveStop(t) PROVE TypeOK'
  BY <1>4 DEF ArriveStop, CancelActive, Cancellable
<1>5. ASSUME NEW t \in Tasks, GraceEnds(t) PROVE TypeOK'
  BY ZenonT(40), <1>5, <1>e, <1>n DEF GraceEnds
<1>6. ASSUME NEW t \in Tasks, GraceExpires(t) PROVE TypeOK'
  <2>1. CASE Enter(t, FreshEntry, IsLatest(t))
    BY <1>6, <1>f, <1>n, <2>1 DEF GraceExpires
  <2>2. CASE Goto(t, "commit") /\ entry' = FreshEntry /\ made' = made + 1
             /\ UNCHANGED <<lockOf, ahead, active, outcome>>
    BY <1>6, <1>f, <2>2 DEF GraceExpires
  <2> QED
    BY <1>6, <2>1, <2>2 DEF GraceExpires
<1>7. ASSUME NEW t \in Tasks, CommitStop(t) PROVE TypeOK'
  BY <1>7 DEF CommitStop
<1>8. ASSUME NEW t \in Tasks, Wake(t) PROVE TypeOK'
  BY <1>8, <1>b DEF Wake
<1>9. ASSUME NEW t \in Tasks, Refreshed(t) PROVE TypeOK'
  BY <1>9, <1>l DEF Refreshed
<1>10. ASSUME NEW t \in Tasks, PersistInbound(t) PROVE TypeOK'
  BY <1>10 DEF PersistInbound
<1>11. ASSUME NEW t \in Tasks, StartGraph(t) PROVE TypeOK'
  BY <1>11 DEF StartGraph
<1>12. ASSUME NEW t \in Tasks, GraphReturns(t) PROVE TypeOK'
  BY <1>12 DEF GraphReturns
<1>13. ASSUME NEW t \in Tasks, RunReturns(t) PROVE TypeOK'
  BY <1>13, <1>l DEF RunReturns
<1>14. ASSUME NEW t \in Tasks, RunFails(t) PROVE TypeOK'
  BY <1>14, <1>l DEF RunFails
<1>15. ASSUME NEW t \in Tasks, CancelLands(t) PROVE TypeOK'
  BY <1>15, <1>l DEF CancelLands, HowCancelled
<1>16. ASSUME NEW t \in Tasks, SendReply(t) PROVE TypeOK'
  BY <1>16 DEF SendReply
<1>17. ASSUME NEW t \in Tasks, PersistCancelled(t) PROVE TypeOK'
  BY <1>17 DEF PersistCancelled
<1>18. ASSUME NEW t \in Tasks, CleanedUp(t) PROVE TypeOK'
  BY <1>18, <1>l DEF CleanedUp, HowCancelled
<1>19. ASSUME NEW t \in Tasks, Deadline(t) PROVE TypeOK'
  BY <1>19, <1>l DEF Deadline
<1>20. CASE UNCHANGED vars
  BY <1>20
<1> QED
  BY <1>1, <1>2, <1>3, <1>4, <1>5, <1>6, <1>7, <1>8, <1>9, <1>10, <1>11, <1>12, <1>13, <1>14, <1>15, <1>16, <1>17, <1>18, <1>19, <1>20 DEF Next, Arrive, Progress, Other

(* Type correctness: every variable of the session, the registry and the    *)
(* requests stays in its domain.                                            *)
THEOREM TypeCorrect == Spec => []TypeOK
BY TypeCorrectInit, TypeCorrectStep, PTL DEF Spec

----------------------------------------------------------------------------
(* Where a task holds a lock and where it does not. *)
LEMMA HoldingPlaces ==
  /\ "refresh" \in Holding /\ "setup" \in Holding /\ "invoke" \in Holding
  /\ "finish" \in Holding /\ "persist" \in Holding /\ "cleanup" \in Holding
  /\ "idle" \notin Holding /\ "grace" \notin Holding /\ "queued" \notin Holding
  /\ "post" \notin Holding /\ "commit" \notin Holding /\ "done" \notin Holding
  /\ Running \subseteq Holding /\ Unwinding \subseteq Holding
BY DEF Holding, Running, Unwinding

(* The lock objects in use have been made, and no object has two holders.   *)
LocksMade == entry.lock <= made /\ \A t \in Tasks : lockOf[t] <= made
OneHolder ==
  \A t, u \in Tasks :
    pc[t] \in Holding /\ pc[u] \in Holding /\ lockOf[t] = lockOf[u] => t = u
LockInv == TypeOK /\ LocksMade /\ OneHolder

(* At the start no lock object is held. *)
LEMMA LockInvInit == Init => LockInv
<1> SUFFICES ASSUME Init PROVE LockInv
  OBVIOUS
<1>1. TypeOK
  BY TypeCorrectInit
<1>2. LocksMade
  BY DEF Init, NoEntry, LocksMade
<1>3. OneHolder
  BY HoldingPlaces DEF Init, OneHolder
<1> QED
  BY <1>1, <1>2, <1>3 DEF LockInv

(* Whatever happens to the session's entry, a lock object changes hands     *)
(* only when nobody holds it.                                               *)
LEMMA LockInvStep == LockInv /\ [Next]_vars => LockInv'
<1> SUFFICES ASSUME LockInv, [Next]_vars PROVE LockInv'
  OBVIOUS
<1>t. TypeOK /\ TypeOK'
  BY TypeCorrectStep DEF LockInv
<1>m. LocksMade /\ OneHolder
  BY DEF LockInv
<1>y. /\ pc \in [Tasks -> Places] /\ lockOf \in [Tasks -> Nat] /\ made \in Nat
      /\ entry \in LockEntry /\ entry.lock \in Nat
  BY <1>t DEF TypeOK, LockEntry
<1> USE HoldingPlaces, <1>y
<1>k. ASSUME \A t \in Tasks : pc'[t] \in Holding =>
               pc[t] \in Holding /\ lockOf'[t] = lockOf[t]
      PROVE  OneHolder'
  BY <1>k, <1>m DEF OneHolder
<1>g. ASSUME NEW t \in Tasks, ~Locked(lockOf'[t]),
             \A u \in Tasks \ {t} : pc'[u] = pc[u] /\ lockOf'[u] = lockOf[u]
      PROVE  OneHolder'
  BY <1>g, <1>m DEF OneHolder, Locked, Holds
<1>b. ASSUME NEW t \in Tasks, NEW l \in Nat, NEW e \in LockEntry, ~Locked(l),
             l <= made', e.lock <= made', made <= made',
             Body(t, l, e, TRUE) \/ Body(t, l, e, IsLatest(t))
      PROVE  LocksMade' /\ OneHolder'
  <2>e. e.lock \in Nat /\ Stamped(e, TRUE).lock = e.lock /\ Stamped(e, FALSE).lock = e.lock
    BY DEF LockEntry, Stamped
  <2>m. made' \in Nat
    BY <1>t DEF TypeOK
  <2>1. \/ Goto(t, "done") /\ lockOf' = [lockOf EXCEPT ![t] = 0]
        \/ (Goto(t, "refresh") \/ Goto(t, "setup")) /\ lockOf' = [lockOf EXCEPT ![t] = l]
    BY <1>b DEF Body
  <2>2. entry'.lock = e.lock
    BY <1>b, <2>e DEF Body
  <2>3. LocksMade'
    BY <1>b, <1>m, <2>1, <2>2, <2>e, <2>m DEF LocksMade
  <2>4. CASE Goto(t, "done") /\ lockOf' = [lockOf EXCEPT ![t] = 0]
    BY <2>3, <2>4, <1>k
  <2>5. CASE (Goto(t, "refresh") \/ Goto(t, "setup")) /\ lockOf' = [lockOf EXCEPT ![t] = l]
    BY <2>3, <2>5, <1>b, <1>g
  <2> QED
    BY <2>1, <2>4, <2>5
<1>n. ASSUME NEW t \in Tasks, NEW e \in LockEntry, e.lock <= made + 1,
             Enter(t, e, TRUE) \/ Enter(t, e, IsLatest(t))
      PROVE  LocksMade' /\ OneHolder'
  <2>e. e.lock \in Nat
    BY DEF LockEntry
  <2>1. made' = IF e.lock > made THEN e.lock ELSE made
    BY <1>n DEF Enter
  <2>2. e.lock <= made' /\ made <= made'
    BY <2>1, <2>e
  <2>3. CASE Free(e.lock) /\ (Body(t, e.lock, e, TRUE) \/ Body(t, e.lock, e, IsLatest(t)))
    BY <2>e, <2>2, <2>3, <1>b DEF Free
  <2>4. CASE Goto(t, "queued") /\ lockOf' = [lockOf EXCEPT ![t] = e.lock] /\ entry' = e
    <3>1. LocksMade'
      BY <2>e, <2>1, <2>4, <1>m DEF LocksMade
    <3> QED
      BY <3>1, <2>4, <1>k
  <2> QED
    BY <1>n, <2>3, <2>4 DEF Enter
<1>f. FreshEntry \in LockEntry /\ FreshEntry.lock = made + 1
  BY DEF FreshEntry, LockEntry
<1>e. \A e \in Entries : e \in LockEntry /\ e.lock <= made + 1
  BY <1>f, <1>m DEF Entries, LocksMade
<1>q. ASSUME UNCHANGED <<entry, made, lockOf>>
      PROVE  LocksMade'
  BY <1>q, <1>m DEF LocksMade
<1>l. ASSUME NEW t \in Tasks, LeaveLock(t)
      PROVE  LocksMade' /\ \A u \in Tasks \ {t} : lockOf'[u] = lockOf[u]
  <2>1. Stamped(entry, FALSE).lock = entry.lock
    BY DEF Stamped, LockEntry
  <2>2. entry'.lock = entry.lock /\ made' = made /\ lockOf' = [lockOf EXCEPT ![t] = 0]
    BY <1>l, <2>1 DEF LeaveLock
  <2> QED
    BY <1>m, <2>2 DEF LocksMade
<1>1. ASSUME Evict PROVE LocksMade' /\ OneHolder'
  <2>1. UNCHANGED <<made, lockOf, pc>> /\ entry' = NoEntry
    BY <1>1 DEF Evict
  <2>2. entry'.lock = 0
    BY <2>1 DEF NoEntry
  <2>3. LocksMade'
    BY <2>1, <2>2, <1>m DEF LocksMade
  <2> QED
    BY <2>1, <2>3, <1>k
<1>2. ASSUME NEW t \in Tasks, ArriveTurn(t) PROVE LocksMade' /\ OneHolder'
  BY <1>2, <1>e, <1>n, <1>q, <1>k DEF ArriveTurn, CancelActive
<1>3. ASSUME NEW t \in Tasks, ArriveResume(t) PROVE LocksMade' /\ OneHolder'
  BY <1>3, <1>e, <1>n DEF ArriveResume
<1>4. ASSUME NEW t \in Tasks, ArriveStop(t) PROVE LocksMade' /\ OneHolder'
  BY <1>4, <1>q, <1>k DEF ArriveStop, CancelActive
<1>5. ASSUME NEW t \in Tasks, GraceEnds(t) PROVE LocksMade' /\ OneHolder'
  BY <1>5, <1>e, <1>n, <1>q, <1>k DEF GraceEnds
<1>6. ASSUME NEW t \in Tasks, GraceExpires(t) PROVE LocksMade' /\ OneHolder'
  <2>1. CASE Enter(t, FreshEntry, IsLatest(t))
    <3>1. FreshEntry.lock <= made + 1
      BY <1>f
    <3> QED
      BY <2>1, <3>1, <1>f, <1>n
  <2>2. CASE Goto(t, "commit") /\ entry' = FreshEntry /\ made' = made + 1 /\ UNCHANGED lockOf
    <3>1. entry'.lock = made' /\ made' = made + 1
      BY <2>2, <1>f
    <3>2. LocksMade'
      BY <3>1, <2>2, <1>m DEF LocksMade
    <3> QED
      BY <3>2, <2>2, <1>k
  <2> QED
    BY <1>6, <2>1, <2>2 DEF GraceExpires
<1>7. ASSUME NEW t \in Tasks, CommitStop(t) PROVE LocksMade' /\ OneHolder'
  BY <1>7, <1>q, <1>k DEF CommitStop
<1>8. ASSUME NEW t \in Tasks, Wake(t) PROVE LocksMade' /\ OneHolder'
  <2>1. /\ ~Locked(lockOf[t]) /\ Body(t, lockOf[t], entry, IsLatest(t)) /\ made' = made
    BY <1>8 DEF Wake
  <2>2. lockOf[t] \in Nat /\ lockOf[t] <= made /\ entry.lock <= made /\ made <= made
    BY <1>m DEF LocksMade
  <2> QED
    BY <2>1, <2>2, <1>b
<1>9. ASSUME NEW t \in Tasks, Refreshed(t) PROVE LocksMade' /\ OneHolder'
  BY <1>9, <1>q, <1>k, <1>l DEF Refreshed
<1>10. ASSUME NEW t \in Tasks, PersistInbound(t) PROVE LocksMade' /\ OneHolder'
  BY <1>10, <1>q, <1>k DEF PersistInbound
<1>11. ASSUME NEW t \in Tasks, StartGraph(t) PROVE LocksMade' /\ OneHolder'
  BY <1>11, <1>q, <1>k DEF StartGraph
<1>12. ASSUME NEW t \in Tasks, GraphReturns(t) PROVE LocksMade' /\ OneHolder'
  BY <1>12, <1>q, <1>k DEF GraphReturns
<1>13. ASSUME NEW t \in Tasks, RunReturns(t) PROVE LocksMade' /\ OneHolder'
  BY <1>13, <1>q, <1>k, <1>l DEF RunReturns
<1>14. ASSUME NEW t \in Tasks, RunFails(t) PROVE LocksMade' /\ OneHolder'
  BY <1>14, <1>q, <1>k, <1>l DEF RunFails
<1>15. ASSUME NEW t \in Tasks, CancelLands(t) PROVE LocksMade' /\ OneHolder'
  <2>1. CASE Goto(t, "persist") /\ pc[t] = "invoke" /\ UNCHANGED lockVars
    BY <2>1, <1>q, <1>k
  <2>2. CASE LeaveLock(t) /\ Goto(t, "done")
    BY <2>2, <1>l, <1>k
  <2> QED
    BY <1>15, <2>1, <2>2 DEF CancelLands
<1>16. ASSUME NEW t \in Tasks, SendReply(t) PROVE LocksMade' /\ OneHolder'
  BY <1>16, <1>q, <1>k DEF SendReply
<1>17. ASSUME NEW t \in Tasks, PersistCancelled(t) PROVE LocksMade' /\ OneHolder'
  BY <1>17, <1>q, <1>k DEF PersistCancelled
<1>18. ASSUME NEW t \in Tasks, CleanedUp(t) PROVE LocksMade' /\ OneHolder'
  BY <1>18, <1>q, <1>k, <1>l DEF CleanedUp
<1>19. ASSUME NEW t \in Tasks, Deadline(t) PROVE LocksMade' /\ OneHolder'
  <2>1. CASE UNCHANGED <<entry, made>> /\ Goto(t, "done") /\ lockOf' = [lockOf EXCEPT ![t] = 0]
    <3>1. LocksMade'
      BY <2>1, <1>m DEF LocksMade
    <3> QED
      BY <3>1, <2>1, <1>k
  <2>2. CASE LeaveLock(t) /\ Goto(t, "done")
    BY <2>2, <1>l, <1>k
  <2>3. CASE UNCHANGED <<entry, made, lockOf, pc>>
    BY <2>3, <1>q, <1>k
  <2> QED
    BY <1>19, <2>1, <2>2, <2>3 DEF Deadline
<1>20. ASSUME UNCHANGED vars PROVE LocksMade' /\ OneHolder'
  <2>1. UNCHANGED <<entry, made, lockOf>> /\ pc' = pc
    BY <1>20
  <2> QED
    BY <2>1, <1>q, <1>k
<1>z. LocksMade' /\ OneHolder'
  <2>1. CASE \E t \in Tasks : Arrive(t) \/ Progress(t) \/ Other(t)
    BY <2>1, <1>2, <1>3, <1>4, <1>5, <1>6, <1>7, <1>8, <1>9, <1>10, <1>11, <1>12, <1>13,
       <1>14, <1>15, <1>16, <1>17, <1>18, <1>19 DEF Arrive, Progress, Other
  <2> QED
    BY <2>1, <1>1, <1>20 DEF Next
<1> QED
  BY <1>t, <1>z DEF LockInv

(* A lock object never has two holders: two runs overlap only when the      *)
(* session's entry was replaced between them.                               *)
THEOREM LockObjectsExclusive == Spec => []LockObjectExclusive
<1>1. LockInv => LockObjectExclusive
  BY DEF LockInv, OneHolder, LockObjectExclusive, Holds
<1> QED
  BY <1>1, LockInvInit, LockInvStep, PTL DEF Spec

----------------------------------------------------------------------------
(* Running and unwinding tasks are apart from each other and from the rest. *)
LEMMA RunPlaces ==
  /\ "setup" \in Running /\ "invoke" \in Running /\ "finish" \in Running
  /\ "persist" \in Unwinding /\ "cleanup" \in Unwinding
  /\ "idle" \notin Running \cup Unwinding /\ "grace" \notin Running \cup Unwinding
  /\ "queued" \notin Running \cup Unwinding /\ "refresh" \notin Running \cup Unwinding
  /\ "post" \notin Running \cup Unwinding /\ "commit" \notin Running \cup Unwinding
  /\ "done" \notin Running \cup Unwinding
  /\ Running \cap Unwinding = {}
BY DEF Running, Unwinding

(* The registry names a turn that runs or unwinds. *)
Registered == active # NoTask => active \in Turns /\ pc[active] \in Running \cup Unwinding

(* No number lies ahead of the generation, an arrived turn has one, and no  *)
(* two turns share one.                                                     *)
Numbered ==
  /\ \A t \in Tasks : num[t] <= gen
  /\ \A t \in Turns : pc[t] # "idle" => num[t] >= 1
  /\ \A t, u \in Tasks : num[t] = num[u] /\ num[t] >= 1 => t = u

(* Only a request that has arrived is interrupted, and never by an older turn. *)
Superseded == (\A t \in interrupted : pc[t] # "idle") /\ InterruptedIsSuperseded

(* The inductive invariant behind the two theorems on cancellation. *)
TurnInv == TypeOK /\ Registered /\ Numbered /\ Superseded

(* At the start nobody is registered, numbered or interrupted. *)
LEMMA TurnInvInit == Init => TurnInv
<1> SUFFICES ASSUME Init PROVE TurnInv
  OBVIOUS
<1>1. TypeOK
  BY TypeCorrectInit
<1>2. Registered /\ Superseded
  BY DEF Init, Registered, Superseded, InterruptedIsSuperseded
<1>3. Numbered
  BY DEF Init, Numbered
<1> QED
  BY <1>1, <1>2, <1>3 DEF TurnInv

(* What taking the lock does to the registry. *)
LEMMA BodyEffect ==
  ASSUME NEW t \in Tasks, NEW l, NEW e,
         Body(t, l, e, TRUE) \/ Body(t, l, e, IsLatest(t))
  PROVE  \/ Goto(t, "done") /\ active' = active
         \/ Goto(t, "refresh") /\ active' = active
         \/ Goto(t, "setup") /\ active' = active
         \/ Goto(t, "setup") /\ active' = t /\ t \in Turns
BY DEF Body

(* What entering session_run_lock does, whichever entry it finds. *)
LEMMA EnterEffect ==
  ASSUME NEW t \in Tasks, NEW e,
         Enter(t, e, TRUE) \/ Enter(t, e, IsLatest(t))
  PROVE  \/ Goto(t, "done") /\ active' = active
         \/ Goto(t, "queued") /\ active' = active
         \/ Goto(t, "refresh") /\ active' = active
         \/ Goto(t, "setup") /\ active' = active
         \/ Goto(t, "setup") /\ active' = t /\ t \in Turns
<1>1. CASE Goto(t, "queued") /\ UNCHANGED active
  BY <1>1
<1>2. CASE Body(t, e.lock, e, TRUE) \/ Body(t, e.lock, e, IsLatest(t))
  BY <1>2, BodyEffect
<1> QED
  BY <1>1, <1>2 DEF Enter

(* Registry, numbering and interruptions agree after every step. *)
LEMMA TurnInvStep == TurnInv /\ [Next]_vars => TurnInv'
<1> SUFFICES ASSUME TurnInv, [Next]_vars PROVE TurnInv'
  OBVIOUS
<1>t. TypeOK /\ TypeOK'
  BY TypeCorrectStep DEF TurnInv
<1>m. Registered /\ Numbered /\ Superseded
  BY DEF TurnInv
<1>y. /\ pc \in [Tasks -> Places] /\ num \in [Tasks -> Nat] /\ gen \in Nat
      /\ active \in Tasks \cup {NoTask} /\ interrupted \in SUBSET Tasks
  BY <1>t DEF TypeOK
<1> USE RunPlaces, <1>y
<1> DEFINE Good == Registered /\ Numbered /\ Superseded
(* Steps of a task t that give no number and interrupt nobody. *)
<1>s. ASSUME NEW t \in Tasks, NEW p, Goto(t, p), p # "idle",
             t \in Stops \/ pc[t] # "idle" \/ t \in Resumes,
             UNCHANGED <<gen, num, interrupted>>
      PROVE  Numbered' /\ Superseded'
  <2>1. Numbered'
    BY <1>s, <1>m, KindsAssumption DEF Numbered
  <2>2. Superseded'
    BY <1>s, <1>m DEF Superseded, InterruptedIsSuperseded
  <2> QED
    BY <2>1, <2>2
(* Steps that leave places alone as well. *)
<1>u. ASSUME UNCHANGED <<pc, gen, num, interrupted, active>>
      PROVE  Good'
  BY <1>u, <1>m DEF Registered, Numbered, Superseded, InterruptedIsSuperseded
(* A task that was not running takes the lock, queues for it or gives up. *)
<1>r. ASSUME NEW t \in Tasks, pc[t] \notin Running \cup Unwinding,
             \/ \E p \in Places : Goto(t, p) /\ active' = active
             \/ Goto(t, "setup") /\ active' = t /\ t \in Turns
      PROVE  Registered'
  BY <1>r, <1>m DEF Registered
(* A running task goes on running. *)
<1>c. ASSUME NEW t \in Tasks, NEW p \in Running \cup Unwinding, Goto(t, p), active' = active
      PROVE  Registered'
  BY <1>c, <1>m DEF Registered
(* A task leaves the lock. *)
<1>l. ASSUME NEW t \in Tasks, NEW p, Goto(t, p), LeaveLock(t)
      PROVE  Registered'
  BY <1>l, <1>m DEF Registered, LeaveLock
<1>a. ASSUME NEW t \in Tasks, pc[t] = "idle", CancelActive(t)
      PROVE  /\ Registered'
             /\ active \in Turns /\ active # t /\ interrupted' = interrupted \cup {active}
             /\ Goto(t, "grace")
  BY <1>a, <1>m DEF Registered, CancelActive, Cancellable
<1>i. ASSUME NEW t \in Turns, pc[t] = "idle", NEW p, p # "idle", Goto(t, p),
             gen' = gen + 1, num' = [num EXCEPT ![t] = gen + 1],
             \/ interrupted' = interrupted
             \/ interrupted' = interrupted \cup {active} /\ active \in Turns /\ active # t
      PROVE  Numbered' /\ Superseded'
  <2>1. Numbered'
    BY <1>i, <1>m DEF Numbered
  <2>2. \A u \in interrupted :
          pc[u] # "idle" /\ (num[u] < gen \/ \E v \in Stops : pc[v] # "idle")
    BY <1>m DEF Superseded, InterruptedIsSuperseded
  <2>3. \A u \in Tasks : num[u] <= gen
    BY <1>m DEF Numbered
  <2>4. ASSUME NEW u \in interrupted'
        PROVE  u \in Tasks /\ u # t /\ pc[u] # "idle" /\ num[u] <= gen
    BY <1>i, <1>m, <2>2, <2>3, <2>4, KindsAssumption DEF Registered
  <2>5. ASSUME NEW u \in interrupted'
        PROVE  pc'[u] # "idle" /\ num'[u] < gen'
    BY <1>i, <2>4, <2>5
  <2> QED
    BY <2>1, <2>5 DEF Superseded, InterruptedIsSuperseded
<1>n. ASSUME NEW t \in Tasks, NEW e, pc[t] \notin Running \cup Unwinding,
             Enter(t, e, TRUE) \/ Enter(t, e, IsLatest(t))
      PROVE  Registered' /\ \E p \in Places : p # "idle" /\ Goto(t, p)
  BY <1>n, <1>r, EnterEffect, Names
<1>1. ASSUME Evict PROVE Good'
  BY <1>1, <1>u DEF Evict
<1>2. ASSUME NEW t \in Tasks, ArriveTurn(t) PROVE Good'
  <2>1. t \in Turns /\ pc[t] = "idle" /\ gen' = gen + 1 /\ num' = [num EXCEPT ![t] = gen + 1]
    BY <1>2 DEF ArriveTurn
  <2>2. CASE CancelActive(t)
    BY <2>1, <2>2, <1>a, <1>i
  <2>3. CASE (\E e \in Entries : Enter(t, e, TRUE)) /\ UNCHANGED cancelVars
    BY ZenonT(40), <2>1, <2>3, <1>n, <1>i
  <2> QED
    BY <1>2, <2>2, <2>3 DEF ArriveTurn
<1>3. ASSUME NEW t \in Tasks, ArriveResume(t) PROVE Good'
  BY <1>3, <1>n, <1>s DEF ArriveResume
<1>4. ASSUME NEW t \in Tasks, ArriveStop(t) PROVE Good'
  <2>1. t \in Stops /\ pc[t] = "idle" /\ UNCHANGED <<gen, num>>
    BY <1>4 DEF ArriveStop
  <2>2. CASE CancelActive(t)
    <3>1. /\ Registered' /\ active \in Turns /\ interrupted' = interrupted \cup {active}
          /\ Goto(t, "grace") /\ pc[active] # "idle"
      BY <2>1, <2>2, <1>a, <1>m, KindsAssumption DEF Registered
    <3>2. Numbered'
      BY <2>1, <3>1, <1>m, KindsAssumption DEF Numbered
    <3>3. Superseded'
      BY <2>1, <3>1, <1>m DEF Superseded, InterruptedIsSuperseded
    <3> QED
      BY <3>1, <3>2, <3>3
  <2>3. CASE Goto(t, "commit") /\ UNCHANGED <<active, cancelVars>>
    BY <2>1, <2>3, <1>s, <1>r, Names
  <2> QED
    BY <1>4, <2>2, <2>3 DEF ArriveStop
<1>5. ASSUME NEW t \in Tasks, GraceEnds(t) PROVE Good'
  BY ZenonT(40), <1>5, <1>n, <1>s, <1>r, Names DEF GraceEnds
<1>6. ASSUME NEW t \in Tasks, GraceExpires(t) PROVE Good'
  BY <1>6, <1>n, <1>s, <1>r, Names DEF GraceExpires
<1>7. ASSUME NEW t \in Tasks, CommitStop(t) PROVE Good'
  BY <1>7, <1>s, <1>r, Names DEF CommitStop
<1>8. ASSUME NEW t \in Tasks, Wake(t) PROVE Good'
  BY <1>8, <1>s, <1>r, BodyEffect, Names DEF Wake
<1>9. ASSUME NEW t \in Tasks, Refreshed(t) PROVE Good'
  BY <1>9, <1>s, <1>r, <1>l DEF Refreshed
<1>10. ASSUME NEW t \in Tasks, PersistInbound(t) PROVE Good'
  BY <1>10, <1>u DEF PersistInbound
<1>11. ASSUME NEW t \in Tasks, StartGraph(t) PROVE Good'
  BY <1>11, <1>s, <1>c DEF StartGraph
<1>12. ASSUME NEW t \in Tasks, GraphReturns(t) PROVE Good'
  BY <1>12, <1>s, <1>c DEF GraphReturns
<1>13. ASSUME NEW t \in Tasks, RunReturns(t) PROVE Good'
  BY <1>13, <1>s, <1>l DEF RunReturns
<1>14. ASSUME NEW t \in Tasks, RunFails(t) PROVE Good'
  BY <1>14, <1>s, <1>l DEF RunFails
<1>15. ASSUME NEW t \in Tasks, CancelLands(t) PROVE Good'
  BY <1>15, <1>s, <1>c, <1>l DEF CancelLands
<1>16. ASSUME NEW t \in Tasks, SendReply(t) PROVE Good'
  BY <1>16, <1>s, <1>r, Names DEF SendReply
<1>17. ASSUME NEW t \in Tasks, PersistCancelled(t) PROVE Good'
  BY <1>17, <1>s, <1>c DEF PersistCancelled
<1>18. ASSUME NEW t \in Tasks, CleanedUp(t) PROVE Good'
  BY <1>18, <1>s, <1>l DEF CleanedUp
<1>19. ASSUME NEW t \in Tasks, Deadline(t) PROVE Good'
  BY <1>19, <1>s, <1>l, <1>r, <1>u, Names DEF Deadline
<1>20. ASSUME UNCHANGED vars PROVE Good'
  BY <1>20, <1>u
<1>z. Good'
  <2>1. CASE \E t \in Tasks : Arrive(t) \/ Progress(t) \/ Other(t)
    BY <2>1, <1>2, <1>3, <1>4, <1>5, <1>6, <1>7, <1>8, <1>9, <1>10, <1>11, <1>12, <1>13,
       <1>14, <1>15, <1>16, <1>17, <1>18, <1>19 DEF Arrive, Progress, Other
  <2> QED
    BY <2>1, <1>1, <1>20 DEF Next
<1> QED
  BY <1>t, <1>z DEF TurnInv

(* cancel_active_run finds only tasks that still run or unwind.             *)
THEOREM RegistryNamesRunners == Spec => []RegistryNamesRunner
<1>1. TurnInv => RegistryNamesRunner
  BY DEF TurnInv, Registered, RegistryNamesRunner
<1> QED
  BY <1>1, TurnInvInit, TurnInvStep, PTL DEF Spec

(* Without a stop message only a superseded turn is ever interrupted.       *)
THEOREM InterruptedAreSuperseded == Spec => []InterruptedIsSuperseded
<1>1. TurnInv => InterruptedIsSuperseded
  BY DEF TurnInv, Superseded
<1> QED
  BY <1>1, TurnInvInit, TurnInvStep, PTL DEF Spec

----------------------------------------------------------------------------
(* A session without WhatsApp messages. *)

(* A live run that is no resumed workflow is the newest turn's, and the     *)
(* registered one.                                                          *)
LiveTurnsAreNewest ==
  \A t \in Tasks \ Resumes : Live(t) => num[t] = gen /\ active = t

(* A turn that gets the lock goes on as the registered one if it is the     *)
(* newest; a resumed workflow leaves the registry alone.                    *)
LEMMA ApiBodyEffect ==
  ASSUME WaTurns = {}, NEW t \in Tasks, NEW l, NEW e,
         NEW latest \in BOOLEAN, Body(t, l, e, latest)
  PROVE  \/ Goto(t, "done") /\ active' = active
         \/ Goto(t, "setup") /\ active' = t /\ t \in Turns /\ latest
         \/ Goto(t, "setup") /\ active' = active /\ t \in Resumes
BY KindsAssumption DEF Body

(* The same for every way into the lock. *)
LEMMA ApiEnterEffect ==
  ASSUME WaTurns = {}, NEW t \in Tasks, NEW e,
         NEW latest \in BOOLEAN, Enter(t, e, latest)
  PROVE  \/ Goto(t, "done") /\ active' = active
         \/ Goto(t, "queued") /\ active' = active
         \/ Goto(t, "setup") /\ active' = t /\ t \in Turns /\ latest
         \/ Goto(t, "setup") /\ active' = active /\ t \in Resumes
<1>1. CASE Goto(t, "queued") /\ UNCHANGED active
  BY <1>1
<1>2. CASE Body(t, e.lock, e, latest)
  BY <1>2, ApiBodyEffect
<1> QED
  BY <1>1, <1>2 DEF Enter

(* No step makes a second turn live. *)
LEMMA ApiLiveStep ==
  ASSUME WaTurns = {}, TurnInv, LiveTurnsAreNewest, [Next]_vars
  PROVE  LiveTurnsAreNewest'
<1>t. TypeOK /\ TypeOK' /\ Registered /\ Numbered
  BY TypeCorrectStep DEF TurnInv
<1>y. /\ pc \in [Tasks -> Places] /\ num \in [Tasks -> Nat] /\ gen \in Nat
      /\ active \in Tasks \cup {NoTask} /\ pending \in SUBSET Tasks
  BY <1>t DEF TypeOK
<1> USE RunPlaces, <1>y
<1>w. \A t \in Tasks : IsLatest(t) \in BOOLEAN
  BY DEF IsLatest
(* A resumed workflow goes on. *)
<1>r. ASSUME NEW t \in Resumes, NEW p, Goto(t, p), UNCHANGED <<gen, num, pending, active>>
      PROVE  LiveTurnsAreNewest'
  BY <1>r DEF LiveTurnsAreNewest, Live
(* A step of t that makes nothing live. *)
<1>s. ASSUME NEW t \in Tasks, NEW p, Goto(t, p), p \notin Running,
             UNCHANGED <<gen, num, pending>>, active' = active \/ LeaveLock(t)
      PROVE  LiveTurnsAreNewest'
  BY <1>s DEF LiveTurnsAreNewest, Live, LeaveLock
(* A step that moves a live task on. *)
<1>c. ASSUME NEW t \in Tasks, NEW p, Goto(t, p), pc[t] \in Running, t \notin pending,
             UNCHANGED <<gen, num, pending, active>>
      PROVE  LiveTurnsAreNewest'
  BY <1>c DEF LiveTurnsAreNewest, Live
<1>u. ASSUME UNCHANGED <<pc, gen, num, active>>, pending \subseteq pending'
      PROVE  LiveTurnsAreNewest'
  BY <1>u DEF LiveTurnsAreNewest, Live
(* The newest turn starts: no other can be live. *)
<1>b. ASSUME NEW t \in Turns, Goto(t, "setup"), active' = t, IsLatest(t), pc[t] # "idle",
             UNCHANGED <<gen, num, pending>>
      PROVE  LiveTurnsAreNewest'
  <2>1. num[t] = gen /\ num[t] >= 1
    BY <1>b, <1>t DEF Numbered, IsLatest
  <2>2. ASSUME NEW u \in Tasks \ Resumes, u # t, Live(u)'
        PROVE  FALSE
    BY <2>1, <2>2, <1>b, <1>t DEF Live, LiveTurnsAreNewest, Numbered
  <2> QED
    BY <2>1, <2>2, <1>b DEF LiveTurnsAreNewest
<1>n. ASSUME NEW t \in Tasks, NEW e, Enter(t, e, IsLatest(t)), pc[t] # "idle",
             UNCHANGED <<gen, num, pending>>
      PROVE  LiveTurnsAreNewest'
  BY SMTT(30), <1>n, <1>w, <1>s, <1>b, <1>r, ApiEnterEffect
(* A cancelled registry leaves nobody live. *)
<1>a. ASSUME NEW t \in Tasks, pc[t] = "idle", CancelActive(t)
      PROVE  LiveTurnsAreNewest'
  BY <1>a DEF CancelActive, LiveTurnsAreNewest, Live
<1>1. ASSUME Evict PROVE LiveTurnsAreNewest'
  BY <1>1, <1>u DEF Evict
<1>2. ASSUME NEW t \in Tasks, ArriveTurn(t) PROVE LiveTurnsAreNewest'
  <2>1. t \in Turns /\ pc[t] = "idle" /\ gen' = gen + 1 /\ num' = [num EXCEPT ![t] = gen + 1]
    BY <1>2 DEF ArriveTurn
  <2>2. CASE CancelActive(t)
    BY <2>1, <2>2, <1>a
  <2>3. CASE ~Cancellable /\ (\E e \in Entries : Enter(t, e, TRUE)) /\ UNCHANGED cancelVars
    <3>1. \A u \in Tasks \ Resumes : ~Live(u)
      BY <2>3, <1>t, KindsAssumption DEF Cancellable, Registered, LiveTurnsAreNewest
    <3>2. \/ (Goto(t, "done") \/ Goto(t, "queued")) /\ active' = active
          \/ Goto(t, "setup") /\ active' = t
      BY <2>1, <2>3, KindsAssumption, ApiEnterEffect
    <3> QED
      BY <2>1, <2>3, <3>1, <3>2 DEF LiveTurnsAreNewest, Live
  <2> QED
    BY <1>2, <2>2, <2>3 DEF ArriveTurn
<1>3. ASSUME NEW t \in Tasks, ArriveResume(t) PROVE LiveTurnsAreNewest'
  <2>1. PICK e \in Entries : Enter(t, e, IsLatest(t))
    BY <1>3 DEF ArriveResume
  <2>2. t \in Resumes /\ t \notin Turns /\ UNCHANGED <<gen, num, pending>>
    BY <1>3, KindsAssumption DEF ArriveResume
  <2>3. (\E p \in {"done", "queued", "setup"} : Goto(t, p)) /\ active' = active
    BY <1>w, <2>1, <2>2, ApiEnterEffect
  <2> QED
    BY <1>r, <2>2, <2>3
<1>4. ASSUME NEW t \in Tasks, ArriveStop(t) PROVE LiveTurnsAreNewest'
  BY <1>4, <1>a, <1>s DEF ArriveStop
<1>5. ASSUME NEW t \in Tasks, GraceEnds(t) PROVE LiveTurnsAreNewest'
  BY <1>5, <1>n, <1>s DEF GraceEnds
<1>6. ASSUME NEW t \in Tasks, GraceExpires(t) PROVE LiveTurnsAreNewest'
  BY <1>6, <1>n, <1>s DEF GraceExpires
<1>7. ASSUME NEW t \in Tasks, CommitStop(t) PROVE LiveTurnsAreNewest'
  BY <1>7, <1>s DEF CommitStop
<1>8. ASSUME NEW t \in Tasks, Wake(t) PROVE LiveTurnsAreNewest'
  <2>1. /\ pc[t] = "queued" /\ UNCHANGED <<gen, num, pending>>
        /\ Body(t, lockOf[t], entry, IsLatest(t))
    BY <1>8 DEF Wake
  <2>2. \/ Goto(t, "done") /\ active' = active
        \/ Goto(t, "setup") /\ active' = t /\ t \in Turns /\ IsLatest(t)
        \/ Goto(t, "setup") /\ active' = active /\ t \in Resumes
    BY <1>w, <2>1, ApiBodyEffect
  <2> QED
    BY <2>1, <2>2, <1>s, <1>b, <1>r
<1>9. ASSUME NEW t \in Tasks, Refreshed(t) PROVE LiveTurnsAreNewest'
  BY <1>9 DEF Refreshed
<1>10. ASSUME NEW t \in Tasks, PersistInbound(t) PROVE LiveTurnsAreNewest'
  BY <1>10, <1>u DEF PersistInbound
<1>11. ASSUME NEW t \in Tasks, StartGraph(t) PROVE LiveTurnsAreNewest'
  BY <1>11, <1>c DEF StartGraph
<1>12. ASSUME NEW t \in Tasks, GraphReturns(t) PROVE LiveTurnsAreNewest'
  BY <1>12, <1>c DEF GraphReturns
<1>13. ASSUME NEW t \in Tasks, RunReturns(t) PROVE LiveTurnsAreNewest'
  BY <1>13, <1>s DEF RunReturns
<1>14. ASSUME NEW t \in Tasks, RunFails(t) PROVE LiveTurnsAreNewest'
  BY <1>14, <1>s DEF RunFails
<1>15. ASSUME NEW t \in Tasks, CancelLands(t) PROVE LiveTurnsAreNewest'
  BY <1>15 DEF CancelLands, LiveTurnsAreNewest, Live, LeaveLock
<1>16. ASSUME NEW t \in Tasks, SendReply(t) PROVE LiveTurnsAreNewest'
  BY <1>16, <1>s DEF SendReply
<1>17. ASSUME NEW t \in Tasks, PersistCancelled(t) PROVE LiveTurnsAreNewest'
  BY <1>17, <1>s DEF PersistCancelled
<1>18. ASSUME NEW t \in Tasks, CleanedUp(t) PROVE LiveTurnsAreNewest'
  BY <1>18, <1>s DEF CleanedUp
<1>19. ASSUME NEW t \in Tasks, Deadline(t) PROVE LiveTurnsAreNewest'
  BY <1>19, <1>s, <1>u DEF Deadline
<1>20. ASSUME UNCHANGED vars PROVE LiveTurnsAreNewest'
  BY <1>20, <1>u
<1> QED
  <2>1. CASE \E t \in Tasks : Arrive(t) \/ Progress(t) \/ Other(t)
    BY <2>1, <1>2, <1>3, <1>4, <1>5, <1>6, <1>7, <1>8, <1>9, <1>10, <1>11, <1>12, <1>13,
       <1>14, <1>15, <1>16, <1>17, <1>18, <1>19 DEF Arrive, Progress, Other
  <2> QED
    BY <2>1, <1>1, <1>20 DEF Next

(* When only API turns use the session, the live run is the newest turn and *)
(* the one the registry would cancel, however many turns arrive and         *)
(* whatever hangs: two turns are never live at once.                        *)
THEOREM ApiLiveTurnIsNewest ==
  ASSUME WaTurns = {}, Resumes = {}
  PROVE  Spec => []LiveTurnIsNewest
<1>1. Init => LiveTurnsAreNewest
  BY RunPlaces DEF Init, LiveTurnsAreNewest, Live
<1>2. TurnInv /\ LiveTurnsAreNewest /\ [Next]_vars => LiveTurnsAreNewest'
  BY ApiLiveStep
<1>3. LiveTurnsAreNewest => LiveTurnIsNewest
  BY DEF LiveTurnsAreNewest, LiveTurnIsNewest
<1> QED
  BY <1>1, <1>2, <1>3, TurnInvInit, TurnInvStep, PTL DEF Spec

(* In such a session two runs that nobody has told to stop never overlap,   *)
(* as session_lock.py says of every session; with resumed workflows or      *)
(* WhatsApp turns they may.                                                 *)
THEOREM ApiRunsAreExclusive ==
  ASSUME WaTurns = {}, Resumes = {}
  PROVE  Spec => []LiveRunsExclusive
<1>1. LiveTurnIsNewest => LiveRunsExclusive
  BY DEF LiveTurnIsNewest, LiveRunsExclusive
<1> QED
  BY <1>1, ApiLiveTurnIsNewest, PTL

----------------------------------------------------------------------------
(* What is left behind when no request is in flight. *)

(* A cancellation is outstanding only for a task that runs or unwinds.      *)
PendingRuns == \A t \in pending : pc[t] \in Running \cup Unwinding

(* An acquisition time stands on an entry with a lock, while somebody holds *)
(* a lock.                                                                  *)
AcquiredHeld == entry.acquired => entry.lock # 0 /\ \E t \in Tasks : pc[t] \in Holding

QuietInv == TurnInv /\ PendingRuns /\ AcquiredHeld

(* A fresh process has nothing outstanding. *)
LEMMA QuietInvInit == Init => QuietInv
<1> SUFFICES ASSUME Init PROVE QuietInv
  OBVIOUS
<1>1. PendingRuns /\ AcquiredHeld
  BY DEF Init, NoEntry, PendingRuns, AcquiredHeld
<1> QED
  BY <1>1, TurnInvInit DEF QuietInv

(* Whoever leaves the lock clears the time; whoever is told to stop runs.   *)
LEMMA QuietInvStep == QuietInv /\ [Next]_vars => QuietInv'
<1> SUFFICES ASSUME QuietInv, [Next]_vars PROVE QuietInv'
  OBVIOUS
<1>t. TypeOK /\ TurnInv' /\ Registered /\ PendingRuns /\ AcquiredHeld
  BY TurnInvStep DEF QuietInv, TurnInv
<1>y. /\ pc \in [Tasks -> Places] /\ lockOf \in [Tasks -> Nat] /\ entry \in LockEntry
      /\ made \in Nat /\ pending \in SUBSET Tasks /\ active \in Tasks \cup {NoTask}
  BY <1>t DEF TypeOK
<1> USE HoldingPlaces, RunPlaces, <1>y
<1> DEFINE Good == PendingRuns /\ AcquiredHeld
           Backed(e) == e.acquired => e.lock # 0 /\ \E u \in Tasks : pc[u] \in Holding
(* A task that held no lock takes one, or finds its turn superseded. *)
<1>b. ASSUME NEW t \in Tasks, pc[t] \notin Holding, NEW l, NEW e \in LockEntry, Backed(e),
             Body(t, l, e, TRUE) \/ Body(t, l, e, IsLatest(t)), pending' = pending
      PROVE  Good'
  <2>1. t \notin pending
    BY <1>b, <1>t DEF PendingRuns
  <2>2. /\ Stamped(e, TRUE).lock = e.lock /\ Stamped(e, FALSE).lock = e.lock
        /\ e.lock = 0 => Stamped(e, TRUE) = e /\ Stamped(e, FALSE) = e
        /\ e.lock # 0 => ~Stamped(e, FALSE).acquired
    BY DEF LockEntry, Stamped
  <2>3. \/ Goto(t, "done") /\ entry' = Stamped(e, FALSE)
        \/ (Goto(t, "refresh") \/ Goto(t, "setup")) /\ entry' = Stamped(e, TRUE)
    BY <1>b DEF Body
  <2>4. PendingRuns'
    BY <1>b, <1>t, <2>1, <2>3 DEF PendingRuns
  <2>5. CASE Goto(t, "done") /\ entry' = Stamped(e, FALSE)
    BY <1>b, <2>2, <2>4, <2>5 DEF AcquiredHeld
  <2>6. CASE (Goto(t, "refresh") \/ Goto(t, "setup")) /\ entry' = Stamped(e, TRUE)
    <3>1. pc'[t] \in Holding
      BY <2>6
    <3> QED
      BY <1>b, <2>2, <2>4, <2>6, <3>1 DEF AcquiredHeld
  <2> QED
    BY <2>3, <2>5, <2>6
(* A task that held no lock goes somewhere, the entry becomes a backed one. *)
<1>m. ASSUME NEW t \in Tasks, pc[t] \notin Holding, NEW p, Goto(t, p), Backed(entry'), pending' = pending
      PROVE  Good'
  BY <1>m, <1>t DEF PendingRuns, AcquiredHeld
<1>n. ASSUME NEW t \in Tasks, pc[t] \notin Holding, NEW e \in LockEntry, Backed(e),
             Enter(t, e, TRUE) \/ Enter(t, e, IsLatest(t)), pending' = pending
      PROVE  Good'
  <2>1. CASE Body(t, e.lock, e, TRUE) \/ Body(t, e.lock, e, IsLatest(t))
    BY <1>b, <1>n, <2>1
  <2>2. CASE Goto(t, "queued") /\ entry' = e
    BY <1>m, <1>n, <2>2
  <2> QED
    BY <1>n, <2>1, <2>2 DEF Enter
<1>e. Backed(entry) /\ Backed(FreshEntry) /\ FreshEntry \in LockEntry /\ \A e \in Entries : e \in LockEntry /\ Backed(e)
  <2>1. Backed(entry)
    BY <1>t DEF AcquiredHeld
  <2>2. Backed(FreshEntry) /\ FreshEntry \in LockEntry
    BY DEF FreshEntry, LockEntry
  <2>3. \A e \in Entries : e = entry \/ e = FreshEntry
    BY DEF Entries
  <2> QED
    BY <2>1, <2>2, <2>3
(* A task leaves the lock, nothing outstanding against it. *)
<1>l. ASSUME NEW t \in Tasks, NEW p, Goto(t, p), LeaveLock(t), pending' \subseteq pending \ {t}
      PROVE  Good'
  <2>1. ~entry'.acquired
    BY <1>l, <1>t DEF LeaveLock, Stamped, LockEntry, AcquiredHeld
  <2> QED
    BY <1>l, <1>t, <2>1 DEF PendingRuns, AcquiredHeld
(* A task that runs or unwinds goes on doing so. *)
<1>c. ASSUME NEW t \in Tasks, pc[t] \in Running \cup Unwinding, NEW p \in Running \cup Unwinding,
             Goto(t, p) \/ pc' = pc, entry' = entry, pending' \subseteq pending \cup {t}
      PROVE  Good'
  <2>1. pc'[t] \in Running \cup Unwinding /\ pc'[t] \in Holding /\ \A u \in Tasks \ {t} : pc'[u] = pc[u]
    BY <1>c
  <2> QED
    BY <1>c, <1>t, <2>1 DEF PendingRuns, AcquiredHeld
(* The registered task is told to stop, the other waits for it. *)
<1>a. ASSUME NEW t \in Tasks, pc[t] = "idle", CancelActive(t) PROVE Good'
  <2>1. /\ active \in Tasks /\ pc[active] \in Running \cup Unwinding /\ active # t
        /\ Goto(t, "grace") /\ pending' = pending \cup {active} /\ entry' = entry
    BY <1>a, <1>t, KindsAssumption DEF CancelActive, Cancellable, Registered
  <2>2. t \notin pending
    BY <1>a, <1>t DEF PendingRuns
  <2> QED
    BY <1>a, <1>t, <2>1, <2>2 DEF PendingRuns, AcquiredHeld
<1>1. ASSUME Evict PROVE Good'
  BY <1>1, <1>t DEF Evict, NoEntry, PendingRuns, AcquiredHeld
<1>2. ASSUME NEW t \in Tasks, ArriveTurn(t) PROVE Good'
  BY <1>2, <1>a, <1>e, <1>n DEF ArriveTurn
<1>3. ASSUME NEW t \in Tasks, ArriveResume(t) PROVE Good'
  BY <1>3, <1>e, <1>n DEF ArriveResume
<1>4. ASSUME NEW t \in Tasks, ArriveStop(t) PROVE Good'
  BY <1>4, <1>a, <1>e, <1>m DEF ArriveStop
<1>5. ASSUME NEW t \in Tasks, GraceEnds(t) PROVE Good'
  BY ZenonT(40), <1>5, <1>e, <1>m, <1>n DEF GraceEnds
<1>6. ASSUME NEW t \in Tasks, GraceExpires(t) PROVE Good'
  BY ZenonT(40), <1>6, <1>e, <1>m, <1>n DEF GraceExpires
<1>7. ASSUME NEW t \in Tasks, CommitStop(t) PROVE Good'
  BY <1>7, <1>e, <1>m DEF CommitStop
<1>8. ASSUME NEW t \in Tasks, Wake(t) PROVE Good'
  BY <1>8, <1>e, <1>b DEF Wake
<1>9. ASSUME NEW t \in Tasks, Refreshed(t) PROVE Good'
  <2>1. t \notin pending /\ pc[t] = "refresh" /\ pending' = pending
    BY <1>9, <1>t DEF Refreshed, PendingRuns
  <2>2. CASE LeaveLock(t) /\ Goto(t, "done")
    BY <1>l, <2>1, <2>2
  <2>3. CASE Goto(t, "setup") /\ entry' = entry
    <3>1. pc'[t] \in Holding
      BY <2>3
    <3> QED
      BY <1>t, <2>1, <2>3, <3>1 DEF PendingRuns, AcquiredHeld
  <2> QED
    BY <1>9, <2>2, <2>3 DEF Refreshed
<1>10. ASSUME NEW t \in Tasks, PersistInbound(t) PROVE Good'
  BY <1>10, <1>c DEF PersistInbound
<1>11. ASSUME NEW t \in Tasks, StartGraph(t) PROVE Good'
  BY <1>11, <1>c DEF StartGraph
<1>12. ASSUME NEW t \in Tasks, GraphReturns(t) PROVE Good'
  BY <1>12, <1>c DEF GraphReturns
<1>13. ASSUME NEW t \in Tasks, RunReturns(t) PROVE Good'
  BY <1>13, <1>l DEF RunReturns
<1>14. ASSUME NEW t \in Tasks, RunFails(t) PROVE Good'
  BY <1>14, <1>l DEF RunFails
<1>15. ASSUME NEW t \in Tasks, CancelLands(t) PROVE Good'
  BY <1>15, <1>c, <1>l DEF CancelLands
<1>16. ASSUME NEW t \in Tasks, SendReply(t) PROVE Good'
  BY <1>16, <1>e, <1>m DEF SendReply
<1>17. ASSUME NEW t \in Tasks, PersistCancelled(t) PROVE Good'
  BY <1>17, <1>c DEF PersistCancelled
<1>18. ASSUME NEW t \in Tasks, CleanedUp(t) PROVE Good'
  BY <1>18, <1>l DEF CleanedUp
<1>19. ASSUME NEW t \in Tasks, Deadline(t) PROVE Good'
  <2>1. CASE pc[t] = "queued" /\ Goto(t, "done") /\ entry' = entry /\ pending' = pending
    BY <1>e, <1>m, <2>1
  <2>2. CASE pc[t] = "refresh" /\ LeaveLock(t) /\ Goto(t, "done") /\ pending' = pending
    <3>1. t \notin pending
      BY <1>t, <2>2 DEF PendingRuns
    <3> QED
      BY <1>l, <2>2, <3>1
  <2>3. CASE pc[t] \in Running \cup Unwinding /\ pending' = pending \cup {t} /\ pc' = pc /\ entry' = entry
    BY <1>c, <2>3
  <2> QED
    BY <1>19, <2>1, <2>2, <2>3 DEF Deadline
<1>20. ASSUME UNCHANGED vars PROVE Good'
  BY <1>20, <1>t DEF PendingRuns, AcquiredHeld
<1>z. Good'
  <2>1. CASE \E t \in Tasks : Arrive(t) \/ Progress(t) \/ Other(t)
    BY <2>1, <1>2, <1>3, <1>4, <1>5, <1>6, <1>7, <1>8, <1>9, <1>10, <1>11, <1>12, <1>13,
       <1>14, <1>15, <1>16, <1>17, <1>18, <1>19 DEF Arrive, Progress, Other
  <2> QED
    BY <2>1, <1>1, <1>20 DEF Next
<1> QED
  BY <1>t, <1>z DEF QuietInv

(* When no request is in flight the registry is empty, the entry bears no   *)
(* acquisition time and no cancellation is outstanding, whatever timed out, *)
(* was interrupted or hung before (session_run_lock, cancel_active_run).    *)
THEOREM QuietIsClean == Spec => []QuiescentClean
<1>1. QuietInv => QuiescentClean
  BY HoldingPlaces, RunPlaces DEF QuietInv, TurnInv, TypeOK, Registered, PendingRuns, AcquiredHeld, QuiescentClean
<1> QED
  BY <1>1, QuietInvInit, QuietInvStep, PTL DEF Spec

----------------------------------------------------------------------------
(* A session that was switched off. *)

(* Whatever a step does, the turns that wait for their second look at the   *)
(* switch stay there, unless the step is that look or ends the turn.        *)
LEMMA RefreshStays ==
  ASSUME TypeOK, [Next]_vars, NEW w \in WaTurns, pc[w] = "refresh"
  PROVE  \/ pc'[w] # "setup"
         \/ Refreshed(w)
<1>y. pc \in [Tasks -> Places] /\ w \in Tasks /\ w \in Turns
  BY DEF TypeOK
<1> USE <1>y
(* Steps of the others move themselves only. *)
<1>o. ASSUME NEW t \in Tasks, NEW p, Goto(t, p), t # w \/ p # "setup" PROVE pc'[w] # "setup"
  BY <1>o
<1>n. ASSUME NEW t \in Tasks, t # w, NEW e, Enter(t, e, TRUE) \/ Enter(t, e, IsLatest(t))
      PROVE  pc'[w] # "setup"
  BY <1>n, <1>o, EnterEffect
<1>1. ASSUME NEW t \in Tasks, Arrive(t) PROVE pc'[w] # "setup"
  <2>1. t # w
    BY <1>1 DEF Arrive, ArriveTurn, ArriveResume, ArriveStop
  <2> QED
    BY <1>1, <1>n, <1>o, <2>1 DEF Arrive, ArriveTurn, ArriveResume, ArriveStop, CancelActive
<1>2. ASSUME NEW t \in Tasks, GraceEnds(t) \/ GraceExpires(t) PROVE pc'[w] # "setup"
  <2>1. t # w
    BY <1>2 DEF GraceEnds, GraceExpires
  <2> QED
    BY <1>2, <1>n, <1>o, <2>1 DEF GraceEnds, GraceExpires
<1>3. ASSUME NEW t \in Tasks, Wake(t) PROVE pc'[w] # "setup"
  <2>1. t # w
    BY <1>3 DEF Wake
  <2> QED
    BY <1>3, <1>o, <2>1, BodyEffect DEF Wake
<1>4. ASSUME NEW t \in Tasks, Refreshed(t) PROVE pc'[w] # "setup" \/ Refreshed(w)
  BY <1>4, <1>o DEF Refreshed
<1>5. ASSUME NEW t \in Tasks, CommitStop(t) \/ PersistInbound(t) \/ StartGraph(t) \/ GraphReturns(t)
                              \/ RunReturns(t) \/ RunFails(t) \/ CancelLands(t) \/ SendReply(t) \/ Other(t)
      PROVE  pc'[w] # "setup"
  BY <1>5, <1>o DEF CommitStop, PersistInbound, StartGraph, GraphReturns, RunReturns, RunFails, CancelLands,
     SendReply, Other, PersistCancelled, CleanedUp, Deadline
<1>6. ASSUME Evict \/ UNCHANGED vars PROVE pc'[w] # "setup"
  BY <1>6 DEF Evict
<1> QED
  BY <1>1, <1>2, <1>3, <1>4, <1>5, <1>6 DEF Next, Progress

(* A customer's turn passes its second look at ai_disabled only if it does  *)
(* so before the switch is committed (incoming_message, db.refresh under    *)
(* the run lock).                                                           *)
THEOREM NoneStartsDisabled == Spec => NoRunStartsDisabled
<1>1. TypeOK /\ [Next]_vars
      => [disabled => \A t \in WaTurns : pc[t] = "refresh" => pc'[t] # "setup"]_vars
  <2> SUFFICES ASSUME TypeOK, [Next]_vars, disabled, NEW t \in WaTurns, pc[t] = "refresh"
               PROVE  pc'[t] # "setup"
    OBVIOUS
  <2>1. CASE Refreshed(t)
    BY <2>1 DEF Refreshed, TypeOK
  <2> QED
    BY <2>1, RefreshStays
<1> QED
  BY <1>1, TypeCorrect, PTL DEF Spec, NoRunStartsDisabled

----------------------------------------------------------------------------
(* The API alone: what a client sees. *)

(* In such a session the newest turn never queues behind a run that nobody  *)
(* has told to stop (messages.py send_message; docs/recap.md asks for it).  *)
THEOREM ApiNewestQueuesBehindNoLiveRun ==
  ASSUME WaTurns = {}, Resumes = {}
  PROVE  Spec => []NewestQueuesBehindNoLiveRun
<1>1. TurnInv /\ LiveTurnIsNewest => NewestQueuesBehindNoLiveRun
  <2> SUFFICES ASSUME TurnInv, LiveTurnIsNewest, NEW t \in Turns, pc[t] = "queued", IsLatest(t),
                      NEW u \in Tasks, Live(u)
               PROVE  FALSE
    BY DEF NewestQueuesBehindNoLiveRun
  <2>1. num[u] = gen /\ num[t] = gen /\ num[t] >= 1
    BY DEF LiveTurnIsNewest, IsLatest, TurnInv, Numbered
  <2>2. u = t
    BY <2>1 DEF TurnInv, Numbered
  <2> QED
    BY <2>2, RunPlaces DEF Live
<1> QED
  BY <1>1, ApiLiveTurnIsNewest, TurnInvInit, TurnInvStep, PTL DEF Spec

----------------------------------------------------------------------------
(* API turns implement LatestTurn: what TurnStatus and NewestTurn make of a *)
(* state, and of a step that moves one task only.                           *)
StatusIs(t) ==
  /\ pc[t] = "idle" => TurnStatus(t) = "new"
  /\ pc[t] \in {"grace", "queued"} => TurnStatus(t) = "open"
  /\ Live(t) => TurnStatus(t) = "running"
  /\ pc[t] = "post" \/ (pc[t] = "done" /\ outcome[t] = "replied") => TurnStatus(t) = "answered"
  /\ pc[t] \notin {"idle", "grace", "queued", "post"} /\ ~Live(t) /\ outcome[t] # "replied"
       => TurnStatus(t) = "dropped"

LEMMA StatusIsSo == ASSUME NEW t PROVE StatusIs(t) /\ StatusIs(t)'
<1>1. StatusIs(t)
  BY DEF StatusIs, TurnStatus, Live, Running
<1>2. StatusIs(t)'
  BY DEF StatusIs, TurnStatus, Live, Running
<1> QED
  BY <1>1, <1>2

OnlyMoves(t) ==
  /\ UNCHANGED <<gen, num>>
  /\ \A u \in ApiTurns \ {t} : pc'[u] = pc[u] /\ outcome'[u] = outcome[u] /\ (u \in pending' <=> u \in pending)

LEMMA OthersKeep ==
  ASSUME NEW u, pc'[u] = pc[u], outcome'[u] = outcome[u], u \in pending' <=> u \in pending
  PROVE  TurnStatus(u)' = TurnStatus(u)
BY DEF TurnStatus, Live

LEMMA NewestKept == ASSUME UNCHANGED <<gen, num>> PROVE NewestTurn' = NewestTurn
BY DEF NewestTurn

LEMMA MapsStay ==
  ASSUME NEW t, OnlyMoves(t), t \in ApiTurns => TurnStatus(t)' = TurnStatus(t)
  PROVE  UNCHANGED Latest!vars
<1>1. \A u \in ApiTurns : TurnStatus(u)' = TurnStatus(u)
  BY OthersKeep DEF OnlyMoves
<1> QED
  BY <1>1, NewestKept DEF OnlyMoves, Latest!vars

LEMMA MapsDrop ==
  ASSUME NEW t \in ApiTurns, OnlyMoves(t), TurnStatus(t) \in {"open", "running"}, TurnStatus(t)' = "dropped"
  PROVE  Latest!Next
<1>1. \A u \in ApiTurns \ {t} : TurnStatus(u)' = TurnStatus(u)
  BY OthersKeep DEF OnlyMoves
<1>2. Latest!Drop(t)
  BY <1>1, NewestKept DEF OnlyMoves, Latest!Drop
<1> QED
  BY <1>2 DEF Latest!Next

LEMMA MapsAnswer ==
  ASSUME NEW t \in ApiTurns, OnlyMoves(t), TurnStatus(t) = "running", TurnStatus(t)' = "answered", NewestTurn = t
  PROVE  Latest!Next
<1>1. \A u \in ApiTurns \ {t} : TurnStatus(u)' = TurnStatus(u)
  BY OthersKeep DEF OnlyMoves
<1>2. Latest!Answer(t)
  BY <1>1, NewestKept DEF OnlyMoves, Latest!Answer
<1> QED
  BY <1>2 DEF Latest!Next

LEMMA MapsBegin ==
  ASSUME NEW t \in ApiTurns, OnlyMoves(t), TurnStatus(t) = "open", TurnStatus(t)' = "running", NewestTurn = t,
         \A u \in ApiTurns : TurnStatus(u) # "running"
  PROVE  Latest!Next
<1>1. \A u \in ApiTurns \ {t} : TurnStatus(u)' = TurnStatus(u)
  BY OthersKeep DEF OnlyMoves
<1>2. Latest!Begin(t)
  BY <1>1, NewestKept DEF OnlyMoves, Latest!Begin
<1> QED
  BY <1>2 DEF Latest!Next

LEMMA MapsSubmit ==
  ASSUME NEW t \in ApiTurns, TurnStatus(t) = "new", TurnStatus(t)' = "open", NewestTurn' = t,
         \A u \in ApiTurns \ {t} :
           TurnStatus(u)' = IF TurnStatus(u) = "running" THEN "dropped" ELSE TurnStatus(u)
  PROVE  Latest!Next
<1>1. Latest!Submit(t)
  BY DEF Latest!Submit
<1> QED
  BY <1>1 DEF Latest!Next

LEMMA MapsSubmitAndBegin ==
  ASSUME NEW t \in ApiTurns, TurnStatus(t) = "new", TurnStatus(t)' = "running", NewestTurn' = t,
         \A u \in ApiTurns : TurnStatus(u) # "running",
         \A u \in ApiTurns \ {t} : TurnStatus(u)' = TurnStatus(u)
  PROVE  Latest!Next
<1>1. Latest!SubmitAndBegin(t)
  BY DEF Latest!SubmitAndBegin
<1> QED
  BY <1>1 DEF Latest!Next

(* A request has no outcome before its end, and the newest number is some   *)
(* turn's.                                                                  *)
OutcomesLast == \A t \in Tasks : pc[t] # "done" => outcome[t] = "none"
NewestKnown == gen # 0 => \E t \in Turns : num[t] = gen
RefInv == QuietInv /\ LiveTurnsAreNewest /\ OutcomesLast /\ NewestKnown

LEMMA RefInvInit == Init => RefInv
<1> SUFFICES ASSUME Init PROVE RefInv
  OBVIOUS
<1>1. LiveTurnsAreNewest
  BY RunPlaces DEF Init, LiveTurnsAreNewest, Live
<1>2. OutcomesLast /\ NewestKnown
  BY DEF Init, OutcomesLast, NewestKnown
<1> QED
  BY <1>1, <1>2, QuietInvInit DEF RefInv

(* Numbers change when a turn arrives, and only then. *)
LEMMA NumbersStep ==
  ASSUME NewestKnown, TypeOK, [Next]_vars PROVE NewestKnown'
<1>1. ASSUME NEW t \in Turns, gen' = gen + 1, num' = [num EXCEPT ![t] = gen + 1] PROVE NewestKnown'
  BY <1>1 DEF NewestKnown, TypeOK
<1>2. ASSUME UNCHANGED <<gen, num>> PROVE NewestKnown'
  BY <1>2 DEF NewestKnown
<1>3. ASSUME NEW t \in Tasks, Arrive(t) PROVE NewestKnown'
  BY <1>1, <1>2, <1>3 DEF Arrive, ArriveTurn, ArriveResume, ArriveStop
<1>4. ASSUME NEW t \in Tasks, Progress(t) \/ Other(t) PROVE NewestKnown'
  BY <1>2, <1>4 DEF Progress, Other, GraceEnds, GraceExpires, CommitStop, Wake, Refreshed, PersistInbound,
     StartGraph, GraphReturns, RunReturns, RunFails, CancelLands, SendReply, PersistCancelled, CleanedUp, Deadline
<1> QED
  BY <1>2, <1>3, <1>4 DEF Next, Evict

(* What taking the lock does to a request's outcome. *)
LEMMA BodyOutcome ==
  ASSUME NEW t \in Tasks, NEW l, NEW e, NEW latest, Body(t, l, e, latest)
  PROVE  \/ Finish(t, "stale")
         \/ (\E p \in {"refresh", "setup"} : Goto(t, p)) /\ UNCHANGED outcome
BY DEF Body

LEMMA EnterOutcome ==
  ASSUME NEW t \in Tasks, NEW e, NEW latest, Enter(t, e, latest)
  PROVE  \/ Finish(t, "stale")
         \/ (\E p \in {"refresh", "setup", "queued"} : Goto(t, p)) /\ UNCHANGED outcome
BY BodyOutcome DEF Enter

(* The outcome is set with the last step. *)
LEMMA OutcomesStep ==
  ASSUME OutcomesLast, TypeOK, [Next]_vars PROVE OutcomesLast'
<1>y. pc \in [Tasks -> Places] /\ outcome \in [Tasks -> Outcomes]
  BY DEF TypeOK
<1> USE <1>y
<1>f. ASSUME NEW t \in Tasks, NEW how, Finish(t, how) PROVE OutcomesLast'
  BY <1>f DEF OutcomesLast
<1>g. ASSUME NEW t \in Tasks, NEW p, pc[t] # "done", Goto(t, p), UNCHANGED outcome PROVE OutcomesLast'
  BY <1>g DEF OutcomesLast
<1>u. ASSUME UNCHANGED <<pc, outcome>> PROVE OutcomesLast'
  BY <1>u DEF OutcomesLast
<1>n. ASSUME NEW t \in Tasks, NEW e, pc[t] # "done", Enter(t, e, TRUE) \/ Enter(t, e, IsLatest(t))
      PROVE  OutcomesLast'
  BY <1>n, <1>f, <1>g, EnterOutcome
<1>1. ASSUME NEW t \in Tasks, Arrive(t) PROVE OutcomesLast'
  BY <1>1, <1>g, <1>n DEF Arrive, ArriveTurn, ArriveResume, ArriveStop, CancelActive
<1>2. ASSUME NEW t \in Tasks, GraceEnds(t) \/ GraceExpires(t) PROVE OutcomesLast'
  BY <1>2, <1>g, <1>n DEF GraceEnds, GraceExpires
<1>3. ASSUME NEW t \in Tasks, Wake(t) PROVE OutcomesLast'
  BY <1>3, <1>f, <1>g, BodyOutcome DEF Wake
<1>4. ASSUME NEW t \in Tasks, CommitStop(t) \/ Refreshed(t) \/ RunReturns(t) \/ RunFails(t) \/ CleanedUp(t)
                               \/ CancelLands(t) \/ SendReply(t) \/ Deadline(t)
      PROVE  OutcomesLast'
  BY <1>4, <1>f, <1>g, <1>u, RunPlaces DEF CommitStop, Refreshed, RunReturns, RunFails, CleanedUp, CancelLands,
     SendReply, Deadline
<1>5. ASSUME NEW t \in Tasks, PersistInbound(t) \/ StartGraph(t) \/ GraphReturns(t) \/ PersistCancelled(t)
      PROVE  OutcomesLast'
  BY <1>5, <1>g, <1>u DEF PersistInbound, StartGraph, GraphReturns, PersistCancelled
<1> QED
  BY <1>1, <1>2, <1>3, <1>4, <1>5, <1>u DEF Next, Evict, Progress, Other

(* Without WhatsApp messages, every way into the lock leads to one          *)
(* of three places; the turn that starts is the newest.                     *)
LEMMA ApiEnterShape ==
  ASSUME WaTurns = {}, NEW t \in Tasks, NEW e, NEW latest \in BOOLEAN, Enter(t, e, latest)
  PROVE  \/ Finish(t, "stale") /\ t \in Turns /\ ~latest
         \/ Goto(t, "queued") /\ UNCHANGED outcome
         \/ Goto(t, "setup") /\ UNCHANGED outcome /\ t \in Turns /\ latest
         \/ Goto(t, "setup") /\ UNCHANGED outcome /\ t \in Resumes
<1>1. CASE Body(t, e.lock, e, latest)
  BY <1>1 DEF Body
<1>2. CASE Goto(t, "queued") /\ UNCHANGED outcome
  BY <1>2
<1> QED
  BY <1>1, <1>2 DEF Enter

(* Every step of such a session is a step of LatestTurn or none. *)
LEMMA ApiStepMaps ==
  ASSUME WaTurns = {}, RefInv, RefInv', [Next]_vars
  PROVE  Latest!Next \/ UNCHANGED Latest!vars
<1>t. /\ TypeOK /\ TypeOK' /\ Registered /\ Numbered /\ Numbered' /\ PendingRuns /\ PendingRuns'
      /\ LiveTurnsAreNewest /\ OutcomesLast /\ OutcomesLast' /\ NewestKnown
  BY DEF RefInv, QuietInv, TurnInv
<1>y. /\ pc \in [Tasks -> Places] /\ num \in [Tasks -> Nat] /\ gen \in Nat
      /\ active \in Tasks \cup {NoTask} /\ pending \in SUBSET Tasks /\ outcome \in [Tasks -> Outcomes]
      /\ ApiTurns = Turns /\ NoTask \notin Tasks
  BY <1>t, KindsAssumption DEF TypeOK
<1> USE RunPlaces, <1>y
<1>w. \A t \in Tasks : IsLatest(t) \in BOOLEAN
  BY DEF IsLatest
<1> DEFINE Maps == Latest!Next \/ UNCHANGED Latest!vars
(* The newest turn is the one whose number is the generation. *)
<1>1. ASSUME NEW t \in Turns, num[t] = gen, gen # 0 PROVE NewestTurn = t
  BY <1>1, <1>t DEF NewestTurn, Numbered
<1>2. ASSUME NEW t \in Turns, pc[t] # "idle", IsLatest(t) PROVE NewestTurn = t
  BY <1>1, <1>2, <1>t DEF IsLatest, Numbered
<1>3. ASSUME NEW t \in Turns, gen' = gen + 1, num' = [num EXCEPT ![t] = gen + 1] PROVE NewestTurn' = t
  <2>1. gen' # 0 /\ num'[t] = gen' /\ \A u \in ApiTurns : num'[u] = gen' => u = t
    BY <1>3, <1>t DEF Numbered
  <2> QED
    BY <2>1 DEF NewestTurn
<1>4. \A u \in ApiTurns : TurnStatus(u) = "running" <=> Live(u)
  BY DEF TurnStatus, Live, Running
(* A task moves where its status does not change, or drops out. *)
<1>s. ASSUME NEW t \in Tasks, OnlyMoves(t), t \in Turns => TurnStatus(t)' = TurnStatus(t) PROVE Maps
  BY <1>s, MapsStay
<1>d. ASSUME NEW t \in Tasks, OnlyMoves(t), NEW how, Finish(t, how), how # "replied",
             Live(t) \/ pc[t] \in {"grace", "queued"}
      PROVE  Maps
  <2>1. CASE t \in Turns
    <3>1. TurnStatus(t) \in {"open", "running"}
      BY <1>d, StatusIsSo DEF StatusIs
    <3>2. pc'[t] = "done" /\ outcome'[t] # "replied" /\ ~Live(t)'
      BY <1>d DEF Live
    <3>3. TurnStatus(t)' = "dropped"
      BY <3>2, StatusIsSo DEF StatusIs
    <3> QED
      BY <1>d, <2>1, <3>1, <3>3, MapsDrop
  <2>2. CASE t \notin Turns
    BY <1>d, <1>s, <2>2
  <2> QED
    BY <2>1, <2>2
(* The newest turn begins: it waited, and nobody is live. *)
<1>b. ASSUME NEW t \in Turns, OnlyMoves(t), pending' = pending, pc[t] \in {"grace", "queued"}, IsLatest(t),
             Goto(t, "setup"), UNCHANGED outcome
      PROVE  Maps
  <2>1. NewestTurn = t /\ num[t] = gen /\ num[t] >= 1
    BY <1>b, <1>2, <1>t DEF IsLatest, Numbered
  <2>2. \A u \in ApiTurns : ~Live(u)
    BY <1>b, <1>t, <2>1, KindsAssumption DEF LiveTurnsAreNewest, Live, Numbered
  <2>3. TurnStatus(t) = "open" /\ Live(t)'
    BY <1>b, <1>t, StatusIsSo DEF StatusIs, Live, PendingRuns
  <2>4. TurnStatus(t)' = "running"
    BY <2>3, StatusIsSo DEF StatusIs
  <2> QED
    BY <1>b, <1>4, <2>1, <2>2, <2>3, <2>4, MapsBegin
<1>q. ASSUME NEW t \in Tasks, OnlyMoves(t), pc[t] \in {"grace", "queued"}, Goto(t, "queued") PROVE Maps
  <2>1. TurnStatus(t) = "open" /\ TurnStatus(t)' = "open"
    BY <1>q, StatusIsSo DEF StatusIs
  <2> QED
    BY <1>q, <1>s, <2>1
<1>n. ASSUME NEW t \in Turns, NEW e, Enter(t, e, IsLatest(t)), pc[t] = "grace",
             UNCHANGED <<gen, num, pending>>
      PROVE  Maps
  <2>1. \/ Finish(t, "stale")
        \/ Goto(t, "queued") /\ UNCHANGED outcome
        \/ Goto(t, "setup") /\ UNCHANGED outcome /\ t \in Turns /\ IsLatest(t)
    BY <1>n, <1>w, KindsAssumption, ApiEnterShape
  <2>2. OnlyMoves(t)
    BY <1>n, <2>1 DEF OnlyMoves
  <2>3. CASE Finish(t, "stale")
    BY <1>n, <1>d, <2>2, <2>3
  <2>4. CASE Goto(t, "queued")
    BY <1>n, <1>q, <2>2, <2>4
  <2>5. CASE Goto(t, "setup") /\ UNCHANGED outcome /\ t \in Turns /\ IsLatest(t)
    BY <1>n, <1>b, <2>2, <2>5
  <2> QED
    BY <2>1, <2>3, <2>4, <2>5
(* A stop message moves, or a task that is no turn's. *)
<1>o. ASSUME NEW t \in Tasks, t \notin Turns, NEW p, Goto(t, p),
             UNCHANGED outcome \/ \E how : Finish(t, how), UNCHANGED <<gen, num, pending>>
      PROVE  Maps
  <2>1. OnlyMoves(t)
    BY <1>o DEF OnlyMoves
  <2> QED
    BY <1>o, <1>s, <2>1
(* The registered run is told to stop by a task that arrives. *)
<1>a. ASSUME NEW t \in Tasks, pc[t] = "idle", CancelActive(t)
      PROVE  \E a \in Turns \ {t} :
               /\ pc'[t] = "grace" /\ t \notin pending'
               /\ \A u \in Tasks \ {t, a} : pc'[u] = pc[u] /\ outcome'[u] = outcome[u] /\ (u \in pending' <=> u \in pending)
               /\ TurnStatus(a) \in {"running", "dropped"} /\ TurnStatus(a)' = "dropped"
               /\ \A u \in ApiTurns \ {a} : TurnStatus(u) # "running"
  <2>1. PICK a \in Turns : a = active
    BY <1>a, <1>t DEF CancelActive, Cancellable, Registered
  <2>2. /\ a # t /\ pc[a] \in Running \cup Unwinding
        /\ pc' = [pc EXCEPT ![t] = "grace"] /\ pending' = pending \cup {a} /\ outcome' = outcome
    BY <1>a, <1>t, <2>1 DEF CancelActive, Cancellable, Registered
  <2>3. t \notin pending'
    BY <1>a, <1>t, <2>2 DEF PendingRuns
  <2>4. /\ outcome[a] = "none" /\ outcome'[a] = "none" /\ ~Live(a)'
        /\ pc'[a] = pc[a] /\ pc[a] \notin {"idle", "grace", "queued", "post", "done"}
    BY <2>2, <1>t DEF OutcomesLast, Live
  <2>5. TurnStatus(a)' = "dropped" /\ TurnStatus(a) \in {"running", "dropped"}
    BY <2>4, StatusIsSo DEF StatusIs
  <2>6. \A u \in ApiTurns \ {a} : TurnStatus(u) # "running"
    BY <1>4, <1>t, <2>1, KindsAssumption DEF LiveTurnsAreNewest
  <2> QED
    BY <2>2, <2>3, <2>5, <2>6
<1>5. ASSUME NEW t \in Tasks, ArriveTurn(t) PROVE Maps
  <2>1. t \in Turns /\ pc[t] = "idle" /\ TurnStatus(t) = "new" /\ NewestTurn' = t
    BY <1>5, <1>3, StatusIsSo DEF ArriveTurn, StatusIs
  <2>2. CASE CancelActive(t)
    <3>1. PICK a \in Turns \ {t} :
            /\ pc'[t] = "grace"
            /\ \A u \in Tasks \ {t, a} : pc'[u] = pc[u] /\ outcome'[u] = outcome[u] /\ (u \in pending' <=> u \in pending)
            /\ TurnStatus(a) \in {"running", "dropped"} /\ TurnStatus(a)' = "dropped"
            /\ \A u \in ApiTurns \ {a} : TurnStatus(u) # "running"
      BY <1>a, <2>1, <2>2
    <3>2. TurnStatus(t)' = "open"
      BY <3>1, StatusIsSo DEF StatusIs
    <3>3. \A u \in ApiTurns \ {t, a} : TurnStatus(u)' = TurnStatus(u)
      BY <3>1, OthersKeep
    <3> QED
      BY <2>1, <3>1, <3>2, <3>3, MapsSubmit
  <2>3. CASE ~Cancellable /\ (\E e \in Entries : Enter(t, e, TRUE)) /\ UNCHANGED cancelVars
    <3>1. \A u \in ApiTurns : ~Live(u)
      BY <2>3, <1>t, KindsAssumption DEF Cancellable, Registered, LiveTurnsAreNewest
    <3>2. \/ Goto(t, "queued") /\ UNCHANGED outcome
          \/ Goto(t, "setup") /\ UNCHANGED outcome
      BY <2>1, <2>3, KindsAssumption, ApiEnterShape
    <3>3. \A u \in ApiTurns \ {t} : TurnStatus(u)' = TurnStatus(u) /\ TurnStatus(u) # "running"
      BY <1>4, <2>3, <3>1, <3>2, OthersKeep
    <3>4. CASE Goto(t, "queued") /\ UNCHANGED outcome
      <4>1. TurnStatus(t)' = "open"
        BY <3>4, StatusIsSo DEF StatusIs
      <4> QED
        BY <2>1, <3>3, <4>1, MapsSubmit
    <3>5. CASE Goto(t, "setup") /\ UNCHANGED outcome
      <4>1. Live(t)'
        BY <1>t, <2>1, <2>3, <3>5 DEF Live, PendingRuns
      <4>2. TurnStatus(t)' = "running"
        BY <4>1, StatusIsSo DEF StatusIs
      <4> QED
        BY <1>4, <2>1, <3>1, <3>3, <4>2, MapsSubmitAndBegin
    <3> QED
      BY <3>2, <3>4, <3>5
  <2> QED
    BY <1>5, <2>2, <2>3 DEF ArriveTurn
<1>6. ASSUME NEW t \in Tasks, ArriveStop(t) PROVE Maps
  <2>1. t \in Stops /\ t \notin Turns /\ pc[t] = "idle" /\ UNCHANGED <<gen, num>>
    BY <1>6, KindsAssumption DEF ArriveStop
  <2>2. CASE CancelActive(t)
    <3>1. PICK a \in Turns \ {t} :
            /\ \A u \in Tasks \ {t, a} : pc'[u] = pc[u] /\ outcome'[u] = outcome[u] /\ (u \in pending' <=> u \in pending)
            /\ TurnStatus(a) \in {"running", "dropped"} /\ TurnStatus(a)' = "dropped"
      BY <1>a, <2>1, <2>2
    <3>2. OnlyMoves(a)
      BY <2>1, <3>1 DEF OnlyMoves
    <3> QED
      BY <3>1, <3>2, MapsStay, MapsDrop
  <2>3. CASE Goto(t, "commit") /\ UNCHANGED <<outcome, cancelVars>>
    BY <1>o, <2>1, <2>3
  <2> QED
    BY <1>6, <2>2, <2>3 DEF ArriveStop
<1>7. ASSUME NEW t \in Tasks, ArriveResume(t) PROVE Maps
  <2>1. PICK e \in Entries : Enter(t, e, IsLatest(t))
    BY <1>7 DEF ArriveResume
  <2>2. t \in Resumes /\ t \notin Turns /\ UNCHANGED <<gen, num, pending>>
    BY <1>7, KindsAssumption DEF ArriveResume
  <2>3. (Goto(t, "queued") \/ Goto(t, "setup")) /\ UNCHANGED outcome
    BY <1>w, <2>1, <2>2, ApiEnterShape
  <2> QED
    BY <1>o, <2>2, <2>3
<1>8. ASSUME NEW t \in Tasks, GraceEnds(t) PROVE Maps
  BY <1>8, <1>n, <1>o, KindsAssumption DEF GraceEnds
<1>9. ASSUME NEW t \in Tasks, GraceExpires(t) PROVE Maps
  BY <1>9, <1>n, <1>o, KindsAssumption DEF GraceExpires
<1>10. ASSUME NEW t \in Tasks, CommitStop(t) PROVE Maps
  <2>1. OnlyMoves(t) /\ Finish(t, "stopped") /\ pending' = pending /\ pc[t] = "commit"
    BY <1>10 DEF CommitStop, OnlyMoves
  <2>2. TurnStatus(t) = "dropped" /\ TurnStatus(t)' = "dropped"
    <3>1. ~Live(t) /\ ~Live(t)' /\ outcome[t] # "replied" /\ outcome'[t] # "replied" /\ pc'[t] = "done"
      BY <1>t, <2>1 DEF Live, OutcomesLast
    <3> QED
      BY <2>1, <3>1, StatusIsSo DEF StatusIs
  <2> QED
    BY <1>s, <2>1, <2>2
<1>11. ASSUME NEW t \in Tasks, Wake(t) PROVE Maps
  <2>1. \/ Finish(t, "stale")
        \/ Goto(t, "setup") /\ UNCHANGED outcome /\ t \in Turns /\ IsLatest(t)
        \/ Goto(t, "setup") /\ UNCHANGED outcome /\ t \notin Turns
    BY <1>11, <1>w, KindsAssumption DEF Wake, Body
  <2>2. OnlyMoves(t) /\ pc[t] = "queued" /\ pending' = pending
    BY <1>11, <2>1 DEF Wake, OnlyMoves
  <2> QED
    BY <1>b, <1>d, <1>s, <2>1, <2>2
<1>12. ASSUME NEW t \in Tasks, Refreshed(t) PROVE Maps
  BY <1>12 DEF Refreshed
(* A live run goes on, a cancelled one unwinds. *)
<1>r. ASSUME NEW t \in Tasks, Live(t), NEW p \in Running, Goto(t, p), UNCHANGED <<outcome, pending, gen, num>>
      PROVE  Maps
  <2>1. OnlyMoves(t) /\ Live(t)'
    BY <1>r DEF OnlyMoves, Live
  <2>2. TurnStatus(t) = "running" /\ TurnStatus(t)' = "running"
    BY <1>r, <2>1, StatusIsSo DEF StatusIs
  <2> QED
    BY <1>s, <2>1, <2>2
<1>v. ASSUME NEW t \in Tasks, pc[t] \in Running \cup Unwinding, ~Live(t), ~Live(t)', OnlyMoves(t),
             \/ \E p \in Running \cup Unwinding : pc'[t] = p /\ outcome'[t] = outcome[t]
             \/ pc'[t] = "done" /\ outcome'[t] # "replied"
      PROVE  Maps
  <2>1. pc[t] \notin {"idle", "grace", "queued", "post", "done"} /\ outcome[t] # "replied"
    BY <1>v, <1>t DEF OutcomesLast
  <2>2. pc'[t] \notin {"idle", "grace", "queued", "post"} /\ outcome'[t] # "replied"
    BY <1>v, <2>1
  <2>3. TurnStatus(t) = "dropped" /\ TurnStatus(t)' = "dropped"
    BY <1>v, <2>1, <2>2, StatusIsSo DEF StatusIs
  <2> QED
    BY <1>s, <1>v, <2>3
<1>13. ASSUME NEW t \in Tasks, PersistInbound(t) PROVE Maps
  <2>1. UNCHANGED <<pc, outcome, pending, gen, num>>
    BY <1>13 DEF PersistInbound
  <2> QED
    BY <1>s, <2>1, OthersKeep DEF OnlyMoves
<1>14. ASSUME NEW t \in Tasks, StartGraph(t) \/ GraphReturns(t) PROVE Maps
  BY ZenonT(40), <1>14, <1>r DEF StartGraph, GraphReturns, Live
<1>15. ASSUME NEW t \in Tasks, RunReturns(t) PROVE Maps
  <2>1. Live(t) /\ UNCHANGED <<gen, num, pending>>
    BY <1>15 DEF RunReturns, Live
  <2>2. Finish(t, "suppressed") \/ (Goto(t, "post") /\ UNCHANGED outcome)
    BY <1>15 DEF RunReturns
  <2>3. OnlyMoves(t)
    BY <2>1, <2>2 DEF OnlyMoves
  <2>4. CASE t \in Turns
    <3>1. IsLatest(t)
      BY <1>t, <2>1, <2>4, KindsAssumption DEF LiveTurnsAreNewest, IsLatest
    <3>2. Goto(t, "post") /\ UNCHANGED outcome
      BY <1>15, <3>1 DEF RunReturns
    <3>3. TurnStatus(t) = "running" /\ TurnStatus(t)' = "answered"
      BY <2>1, <3>2, StatusIsSo DEF StatusIs
    <3>4. NewestTurn = t
      BY <1>2, <2>1, <2>4, <3>1 DEF Live
    <3> QED
      BY <2>3, <2>4, <3>3, <3>4, MapsAnswer
  <2>5. CASE t \notin Turns
    BY <1>s, <2>3, <2>5
  <2> QED
    BY <2>4, <2>5
<1>16. ASSUME NEW t \in Tasks, RunFails(t) PROVE Maps
  <2>1. Live(t) /\ OnlyMoves(t) /\ Finish(t, "error")
    BY <1>16 DEF RunFails, Live, OnlyMoves
  <2> QED
    BY <1>d, <2>1
<1>17. ASSUME NEW t \in Tasks, CancelLands(t) PROVE Maps
  <2>1. ~Live(t) /\ t \in pending /\ pc[t] \in Running \cup Unwinding
    BY <1>17, <1>t DEF CancelLands, Live, PendingRuns
  <2>2. \/ Goto(t, "persist") /\ UNCHANGED outcome
        \/ Finish(t, HowCancelled(t))
    BY <1>17 DEF CancelLands
  <2>3. OnlyMoves(t)
    BY <1>17, <2>2 DEF CancelLands, OnlyMoves
  <2>4. HowCancelled(t) # "replied"
    BY DEF HowCancelled
  <2>5. ~Live(t)' /\ ((pc'[t] \in Unwinding /\ outcome'[t] = outcome[t]) \/ (pc'[t] = "done" /\ outcome'[t] # "replied"))
    BY <2>1, <2>2, <2>4 DEF Live
  <2> QED
    BY <1>v, <2>1, <2>3, <2>5
<1>18. ASSUME NEW t \in Tasks, SendReply(t) PROVE Maps
  <2>1. OnlyMoves(t) /\ pc[t] = "post" /\ Finish(t, "replied")
    BY <1>18 DEF SendReply, OnlyMoves
  <2>2. TurnStatus(t) = "answered" /\ TurnStatus(t)' = "answered"
    BY <2>1, StatusIsSo DEF StatusIs
  <2> QED
    BY <1>s, <2>1, <2>2
<1>19. ASSUME NEW t \in Tasks, PersistCancelled(t) PROVE Maps
  <2>1. ~Live(t) /\ ~Live(t)' /\ OnlyMoves(t) /\ pc[t] \in Unwinding /\ pc'[t] \in Unwinding /\ outcome'[t] = outcome[t]
    BY <1>19 DEF PersistCancelled, Live, OnlyMoves
  <2> QED
    BY <1>v, <2>1
<1>20. ASSUME NEW t \in Tasks, CleanedUp(t) PROVE Maps
  <2>1. ~Live(t) /\ ~Live(t)' /\ OnlyMoves(t) /\ pc[t] \in Unwinding /\ Finish(t, HowCancelled(t))
    BY <1>20 DEF CleanedUp, Live, OnlyMoves
  <2>2. HowCancelled(t) # "replied"
    BY DEF HowCancelled
  <2> QED
    BY <1>v, <2>1, <2>2
<1>21. ASSUME NEW t \in Tasks, Deadline(t) PROVE Maps
  <2>1. CASE pc[t] = "queued" /\ Finish(t, "timeout") /\ UNCHANGED pending
    BY <1>21, <1>d, <2>1 DEF Deadline, OnlyMoves
  <2>2. CASE pc[t] = "refresh" /\ Finish(t, "timeout") /\ UNCHANGED pending
    <3>1. ~Live(t) /\ ~Live(t)' /\ outcome[t] # "replied" /\ outcome'[t] # "replied" /\ pc'[t] = "done" /\ OnlyMoves(t)
      BY <1>21, <1>t, <2>2 DEF Live, OutcomesLast, Deadline, OnlyMoves
    <3>2. TurnStatus(t) = "dropped" /\ TurnStatus(t)' = "dropped"
      BY <2>2, <3>1, StatusIsSo DEF StatusIs
    <3> QED
      BY <1>s, <3>1, <3>2
  <2>3. CASE pc[t] \in Running \cup Unwinding /\ pending' = pending \cup {t} /\ UNCHANGED <<pc, outcome>>
    <3>1. OnlyMoves(t) /\ ~Live(t)'
      BY <1>21, <2>3 DEF Deadline, OnlyMoves, Live
    <3>2. CASE ~Live(t)
      BY <1>v, <2>3, <3>1, <3>2
    <3>3. CASE Live(t) /\ t \in Turns
      <4>1. pc'[t] \notin {"idle", "grace", "queued", "post", "done"} /\ outcome'[t] # "replied"
        BY <1>t, <2>3 DEF OutcomesLast
      <4>2. TurnStatus(t) = "running" /\ TurnStatus(t)' = "dropped"
        BY <3>1, <3>3, <4>1, StatusIsSo DEF StatusIs
      <4> QED
        BY <3>1, <3>3, <4>2, MapsDrop
    <3>4. CASE t \notin Turns
      BY <1>s, <3>1, <3>4
    <3> QED
      BY <3>2, <3>3, <3>4
  <2> QED
    BY <1>21, <2>1, <2>2, <2>3 DEF Deadline
<1>22. ASSUME Evict \/ UNCHANGED vars PROVE Maps
  <2>1. UNCHANGED <<pc, outcome, pending, gen, num>>
    BY <1>22 DEF Evict
  <2>2. \A u \in ApiTurns : TurnStatus(u)' = TurnStatus(u)
    BY <2>1, OthersKeep
  <2> QED
    BY <2>1, <2>2, NewestKept DEF Latest!vars
<1> QED
  <2>1. CASE \E t \in Tasks : Arrive(t) \/ Progress(t) \/ Other(t)
    BY <2>1, <1>5, <1>6, <1>7, <1>8, <1>9, <1>10, <1>11, <1>12, <1>13, <1>14, <1>15, <1>16, <1>17,
       <1>18, <1>19, <1>20, <1>21 DEF Arrive, Progress, Other
  <2> QED
    BY <2>1, <1>22 DEF Next

(* Without WhatsApp messages the turns of a session implement LatestTurn,   *)
(* for any number of turns, resumed workflows and stop messages: at most    *)
(* one turn runs, only the newest starts, a newer one makes it drop out,    *)
(* and what dropped out is never answered (messages.py send_message,        *)
(* session_lock.py).                                                        *)
THEOREM ApiImplementsLatestTurn ==
  ASSUME WaTurns = {}
  PROVE  Spec => ImplementsLatestTurn
<1>1. Init => Latest!Init
  <2> SUFFICES ASSUME Init PROVE Latest!Init
    OBVIOUS
  <2>1. \A t \in ApiTurns : TurnStatus(t) = "new"
    BY StatusIsSo DEF Init, StatusIs
  <2> QED
    BY <2>1 DEF Init, NewestTurn, Latest!Init
<1>2. RefInv /\ [Next]_vars => RefInv'
  <2> SUFFICES ASSUME RefInv, [Next]_vars PROVE RefInv'
    OBVIOUS
  <2>1. QuietInv' /\ LiveTurnsAreNewest'
    BY QuietInvStep, ApiLiveStep DEF RefInv, QuietInv
  <2>2. OutcomesLast' /\ NewestKnown'
    BY OutcomesStep, NumbersStep DEF RefInv, QuietInv, TurnInv
  <2> QED
    BY <2>1, <2>2 DEF RefInv
<1>3. RefInv /\ RefInv' /\ [Next]_vars => [Latest!Next]_(Latest!vars)
  BY ApiStepMaps
<1> QED
  BY <1>1, <1>2, <1>3, RefInvInit, PTL DEF Spec, ImplementsLatestTurn, Latest!Spec
=============================================================================
