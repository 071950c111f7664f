-------------------------- MODULE SchedulerProofs --------------------------
(***************************************************************************)
(* Theorems about Scheduler, for any rows, processes and bounds.           *)
(***************************************************************************)
EXTENDS OneTimeReminders, TLAPS

USE DEF rowVars, runVars, userVars, history, vars

(* A row that does not exist has no executions and no deliveries. *)
Unborn ==
  \A j \in Jobs : status[j] = "none" =>
    next[j] = "never" /\ delivered[j] = 0 /\ \A r \in Runs : r[1] = j => at[r] = "free"

TypeInv == TypeOK /\ Unborn

(* The components of an execution's name. *)
LEMMA RunNames == \A r \in Runs : r[1] \in Jobs
BY DEF Runs

(* A free slot of a row is chosen among its own. *)
LEMMA SlotIsFree ==
  ASSUME NEW j, FreeSlots(j) # {}
  PROVE  Slot(j) \in Runs /\ Slot(j)[1] = j /\ at[Slot(j)] = "free"
BY DEF Slot, FreeSlots, InFlight

(* The initial state is well-typed. *)
LEMMA TypeInvInit == Init => TypeInv
<1> SUFFICES ASSUME Init PROVE TypeInv
  OBVIOUS
<1>1. PICK old \in [Beats -> OldRows] :
        /\ status = [j \in Jobs |-> IF j \in Beats THEN old[j][1] ELSE "none"]
        /\ next = [j \in Jobs |-> IF j \in Beats THEN old[j][2] ELSE "never"]
  BY DEF Init
<1>2. \A b \in Beats : /\ old[b][1] \in Statuses /\ old[b][2] \in Times
                       /\ old[b][1] = "none" => old[b][2] = "never"
  BY <1>1 DEF OldRows, Statuses, Times
<1>3. /\ status \in [Jobs -> Statuses] /\ next \in [Jobs -> Times]
      /\ \A j \in Jobs : status[j] = "none" => next[j] = "never"
  BY <1>1, <1>2 DEF Statuses, Times
<1>4. crashes \in 0..MaxCrashes
  BY BoundsAssumption DEF Init
<1> QED
  BY <1>3, <1>4, RunNames DEF Init, TypeInv, TypeOK, Unborn, Statuses, Stages

(* Every step keeps the types. *)
LEMMA TypeInvStep == TypeInv /\ [Next]_vars => TypeInv'
<1> SUFFICES ASSUME TypeInv, [Next]_vars PROVE TypeInv'
  OBVIOUS
<1> USE DEF TypeInv, TypeOK, Unborn
<1>n. /\ "none" \in Statuses /\ "active" \in Statuses /\ "running" \in Statuses
      /\ "done" \in Statuses /\ "cancelled" \in Statuses
      /\ "later" \in Times /\ "due" \in Times /\ "never" \in Times
      /\ "free" \in Stages /\ "queued" \in Stages /\ "sending" \in Stages
      /\ "sent" \in Stages /\ "failed" \in Stages
  BY DEF Statuses, Times, Stages
<1> USE <1>n, RunNames
<1>1. ASSUME NEW j \in Jobs, SetReminder(j) PROVE TypeInv'
  BY <1>1 DEF SetReminder
<1>2. ASSUME NEW j \in Jobs, CancelFinds(j) PROVE TypeInv'
  BY <1>2 DEF CancelFinds
<1>3. CASE DisableFindsNone
  <2>1. told' \in SUBSET Jobs
    BY <1>3 DEF DisableFindsNone, Jobs
  <2> QED
    BY <1>3, <2>1 DEF DisableFindsNone
<1>4. CASE CancelCommits
  BY <1>4 DEF CancelCommits
<1>5. ASSUME NEW j \in Jobs, BecomesDue(j) PROVE TypeInv'
  BY <1>5 DEF BecomesDue
<1>6. ASSUME NEW j \in Jobs, GoesStale(j) PROVE TypeInv'
  BY <1>6 DEF GoesStale
<1>7. ASSUME NEW i \in Instances, NEW claimed \in SUBSET Jobs, Tick(i, claimed) PROVE TypeInv'
  <2>1. stale' \in [Jobs -> BOOLEAN]
    BY <1>7 DEF Tick
  <2>2. at' \in [Runs -> Stages] /\ inst' \in [Runs -> Instances]
    BY <1>7 DEF Tick
  <2>3. Unborn'
    <3> SUFFICES ASSUME NEW j \in Jobs, status'[j] = "none"
                 PROVE  next'[j] = "never" /\ delivered'[j] = 0
                        /\ \A r \in Runs : r[1] = j => at'[r] = "free"
      OBVIOUS
    <3>1. j \notin claimed /\ status[j] = "none"
      BY <1>7 DEF Tick
    <3>2. \A k \in claimed : Slot(k)[1] = k
      BY <1>7, SlotIsFree DEF Tick
    <3>3. \A r \in Runs : r[1] = j => at'[r] = at[r]
      BY <1>7, <3>1, <3>2 DEF Tick
    <3> QED
      BY <1>7, <3>1, <3>3 DEF Tick
  <2> QED
    BY <1>7, <2>1, <2>2, <2>3 DEF Tick
<1>8. ASSUME NEW r \in Runs, Load(r) PROVE TypeInv'
  BY <1>8 DEF Load
<1>9. ASSUME NEW r \in Runs, Delivers(r) PROVE TypeInv'
  <2>1. delivered' \in [Jobs -> 0..2]
    BY <1>9 DEF Delivers, Arrives
  <2>2. Unborn'
    <3>1. \A j \in Jobs : j # r[1] => delivered'[j] = delivered[j]
      BY <1>9 DEF Delivers, Arrives
    <3>2. status[r[1]] # "none"
      BY <1>9 DEF Delivers
    <3> QED
      BY <1>9, <3>1, <3>2 DEF Delivers
  <2>3. lostAck' \in SUBSET Jobs
    BY <1>9 DEF Delivers, Unacknowledged
  <2> QED
    BY <1>9, <2>1, <2>2, <2>3 DEF Delivers
<1>10. ASSUME NEW r \in Runs, SendFails(r) PROVE TypeInv'
  <2>1. delivered' \in [Jobs -> 0..2]
    BY <1>10 DEF SendFails, Arrives
  <2>2. lostAck' \in SUBSET Jobs
    BY <1>10 DEF SendFails, Unacknowledged
  <2>3. Unborn'
    <3>1. \A j \in Jobs : j # r[1] => delivered'[j] = delivered[j]
      BY <1>10 DEF SendFails, Arrives
    <3>2. status[r[1]] # "none"
      BY <1>10 DEF SendFails
    <3> QED
      BY <1>10, <3>1, <3>2 DEF SendFails
  <2>4. at' \in [Runs -> Stages]
    BY <1>10 DEF SendFails
  <2> QED
    BY <1>10, <2>1, <2>2, <2>3, <2>4 DEF SendFails
<1>11. ASSUME NEW r \in Runs, Finish(r) PROVE TypeInv'
  <2>1. status' \in [Jobs -> Statuses]
    BY <1>11 DEF Finish, StatusAfter
  <2>2. next' \in [Jobs -> Times] /\ stale' \in [Jobs -> BOOLEAN]
    BY <1>11 DEF Finish
  <2>3. delivered' \in [Jobs -> 0..2]
    BY <1>11 DEF Finish
  <2>4. at' \in [Runs -> Stages] /\ was' \in [Runs -> Statuses]
    BY <1>11 DEF Finish, Ends
  <2>5. status[r[1]] # "none" /\ status'[r[1]] # "none"
    BY <1>11 DEF Finish, StatusAfter
  <2>6. \A j \in Jobs : j # r[1] =>
          status'[j] = status[j] /\ next'[j] = next[j] /\ delivered'[j] = delivered[j]
    BY <1>11 DEF Finish
  <2>7. Unborn'
    BY <1>11, <2>5, <2>6 DEF Finish, Ends
  <2> QED
    BY <1>11, <2>1, <2>2, <2>3, <2>4, <2>7 DEF Finish
<1>12. ASSUME NEW r \in Runs, Breaks(r) PROVE TypeInv'
  BY <1>12 DEF Breaks, Ends
<1>13. ASSUME NEW i \in Instances, Crash(i) PROVE TypeInv'
  BY <1>13, BoundsAssumption DEF Crash, Ends
<1>14. ASSUME NEW i \in Instances, Shutdown(i) PROVE TypeInv'
  BY <1>14, BoundsAssumption DEF Shutdown
<1>15. ASSUME NEW r \in Runs, Beat(r) PROVE TypeInv'
  BY <1>15 DEF Beat
<1>16. CASE UNCHANGED vars
  BY <1>16
<1> QED
  BY <1>1, <1>2, <1>3, <1>4, <1>5, <1>6, <1>7, <1>8, <1>9, <1>10, <1>11,
     <1>12, <1>13, <1>14, <1>16, <1>15 DEF Next, Tools, Execute

(* Type correctness of the rows, executions and histories. *)
THEOREM TypeCorrect == Spec => []TypeOK
<1>1. TypeInv => TypeOK
  BY DEF TypeInv
<1> QED
  BY <1>1, TypeInvInit, TypeInvStep, PTL DEF Spec

----------------------------------------------------------------------------
(* One execution per claim. *)

(* What a claim leaves behind for one row. *)
Claim(j) ==
  /\ \A r, s \in Runs : r[1] = j /\ s[1] = j /\ at[r] # "free" /\ at[s] # "free" => r = s
  /\ \A r \in Runs : r[1] = j /\ at[r] # "free" =>
       status[j] = "cancelled" \/ (status[j] = "running" /\ next[j] = "due")

Claims == \A j \in Jobs : j \notin stolen => Claim(j)

ClaimInv == TypeInv /\ Claims

(* Claims says of each row what OneExecutionPerClaim says of it. *)
LEMMA ClaimsAreExclusive == Claims => OneExecutionPerClaim
BY DEF Claims, Claim, OneExecutionPerClaim, Executions, InFlight

(* Nothing runs at first. *)
LEMMA ClaimsInit == Init => Claims
BY DEF Init, Claims, Claim

(* A row keeps its claim while its executions only come to an end and it    *)
(* stays claimed or is cancelled.                                           *)
LEMMA ClaimShrinks ==
  ASSUME NEW j \in Jobs, Claim(j),
         \A r \in Runs : r[1] = j /\ at'[r] # "free" => at[r] # "free",
         \/ \A r \in Runs : r[1] = j => at'[r] = "free"
         \/ status'[j] = "cancelled"
         \/ status'[j] = status[j] /\ (next'[j] = next[j] \/ next[j] # "due")
  PROVE  Claim(j)'
BY DEF Claim

(* Every step keeps the claims of the rows nobody stole. *)
LEMMA ClaimsStep == ClaimInv /\ [Next]_vars => Claims'
<1> SUFFICES ASSUME ClaimInv, [Next]_vars, NEW k \in Jobs, k \notin stolen'
             PROVE  Claim(k)'
  BY DEF Claims
<1> USE DEF ClaimInv, TypeInv, TypeOK
<1>1. stolen \subseteq stolen'
  BY DEF Next, Tools, Execute, SetReminder, CancelFinds, DisableFindsNone,
     CancelCommits, BecomesDue, GoesStale, Tick, Load, Delivers, SendFails,
     Beat, Finish, Breaks, Crash, Shutdown
<1>k. k \notin stolen /\ Claim(k)
  BY <1>1 DEF Claims
<1> USE RunNames
<1>2. ASSUME NEW j \in Jobs, SetReminder(j) PROVE Claim(k)'
  <2>1. k = j => \A r \in Runs : r[1] = k => at[r] = "free"
    BY <1>2 DEF SetReminder, Unborn
  <2> QED
    BY <1>2, <1>k, <2>1, ClaimShrinks DEF SetReminder
<1>3. ASSUME NEW j \in Jobs, CancelFinds(j) \/ DisableFindsNone PROVE Claim(k)'
  BY <1>3, <1>k, ClaimShrinks DEF CancelFinds, DisableFindsNone
<1>4. CASE CancelCommits
  BY <1>4, <1>k, ClaimShrinks DEF CancelCommits
<1>5. ASSUME NEW j \in Jobs, BecomesDue(j) \/ GoesStale(j) PROVE Claim(k)'
  BY <1>5, <1>k, ClaimShrinks DEF BecomesDue, GoesStale
<1>6. ASSUME NEW i \in Instances, NEW claimed \in SUBSET Jobs, Tick(i, claimed) PROVE Claim(k)'
  <2>1. \A j \in claimed : Slot(j) \in Runs /\ Slot(j)[1] = j /\ at[Slot(j)] = "free"
    BY <1>6, SlotIsFree DEF Tick
  <2>2. CASE k \notin claimed
    <3>1. \A r \in Runs : r[1] = k => at'[r] = at[r]
      BY <1>6, <2>1, <2>2 DEF Tick
    <3>2. status'[k] = status[k] /\ next'[k] = next[k]
      BY <1>6, <2>2 DEF Tick
    <3> QED
      BY <1>k, <3>1, <3>2, ClaimShrinks
  <2>3. CASE k \in claimed
    <3>1. status[k] = "active" /\ next[k] = "due"
      BY <1>6, <2>3 DEF Tick, Claimable
    <3>2. \A r \in Runs : r[1] = k => at[r] = "free"
      BY <1>k, <3>1 DEF Claim
    <3>3. \A r \in Runs : r[1] = k /\ at'[r] # "free" => r = Slot(k)
      BY <1>6, <2>1, <3>2 DEF Tick
    <3>4. status'[k] = "running" /\ next'[k] = "due"
      BY <1>6, <2>3, <3>1 DEF Tick
    <3> QED
      BY <3>3, <3>4 DEF Claim
  <2> QED
    BY <2>2, <2>3
<1>7. ASSUME NEW r \in Runs, Load(r) PROVE Claim(k)'
  BY <1>7, <1>k, ClaimShrinks DEF Load
<1>8. ASSUME NEW r \in Runs, Delivers(r) \/ SendFails(r) \/ Beat(r) PROVE Claim(k)'
  BY <1>8, <1>k, ClaimShrinks DEF Delivers, SendFails, Beat
<1>9. ASSUME NEW r \in Runs, Finish(r) PROVE Claim(k)'
  <2>1. \A s \in Runs : at'[s] # "free" => s # r /\ at'[s] = at[s]
    BY <1>9 DEF Finish, Ends
  <2>2. CASE k = r[1]
    <3>1. \A s \in Runs : s[1] = k => at'[s] = "free"
      BY <1>9, <1>k, <2>1, <2>2 DEF Claim, Finish
    <3> QED
      BY <1>k, <2>1, <3>1, ClaimShrinks
  <2>3. CASE k # r[1]
    <3>1. status'[k] = status[k] /\ next'[k] = next[k]
      BY <1>9, <2>3 DEF Finish
    <3> QED
      BY <1>k, <2>1, <3>1, ClaimShrinks
  <2> QED
    BY <2>2, <2>3
<1>10. ASSUME NEW r \in Runs, Breaks(r) PROVE Claim(k)'
  BY <1>10, <1>k, ClaimShrinks DEF Breaks, Ends
<1>11. ASSUME NEW i \in Instances, Crash(i) PROVE Claim(k)'
  BY <1>11, <1>k, ClaimShrinks DEF Crash, Ends
<1>12. ASSUME NEW i \in Instances, Shutdown(i) PROVE Claim(k)'
  BY <1>12, <1>k, ClaimShrinks DEF Shutdown
<1>13. CASE UNCHANGED vars
  BY <1>13, <1>k DEF Claim
<1> QED
  BY <1>2, <1>3, <1>4, <1>5, <1>6, <1>7, <1>8, <1>9, <1>10, <1>11, <1>12, <1>13
     DEF Next, Tools, Execute

(* A row has one execution at a time as long as no claim of it went stale,  *)
(* whichever processes tick and whenever they crash.                        *)
THEOREM OneExecutionPerClaimHolds == Spec => []OneExecutionPerClaim
<1>1. Init => ClaimInv
  BY TypeInvInit, ClaimsInit DEF ClaimInv
<1>2. ClaimInv /\ [Next]_vars => ClaimInv'
  BY TypeInvStep, ClaimsStep DEF ClaimInv
<1>3. ClaimInv => OneExecutionPerClaim
  BY ClaimsAreExclusive DEF ClaimInv
<1> QED
  BY <1>1, <1>2, <1>3, PTL DEF Spec

----------------------------------------------------------------------------
(* Cancellations. *)

(* What a firm cancellation means for one row. *)
Firm(j) ==
  /\ status[j] = "cancelled"
  /\ \A r \in Runs : r[1] = j => at[r] \in {"free", "queued"}

FirmInv == TypeInv /\ \A j \in firm : Firm(j)

(* Firm says of each row what FirmlyCancelled says of it. *)
LEMMA FirmIsFirm == FirmInv => FirmlyCancelled
BY DEF FirmInv, Firm, FirmlyCancelled, Executions, InFlight

(* A firmly cancelled row stays so through every step, and a cancellation   *)
(* is called firm only when nothing was past loading the row.               *)
LEMMA FirmStep == FirmInv /\ [Next]_vars => \A j \in firm' : Firm(j)'
<1> SUFFICES ASSUME FirmInv, [Next]_vars, NEW k \in firm' PROVE Firm(k)'
  OBVIOUS
<1> USE RunNames DEF FirmInv, TypeInv, TypeOK
<1>1. ASSUME NEW j \in Jobs, SetReminder(j) PROVE Firm(k)'
  BY <1>1 DEF SetReminder, Firm
<1>2. ASSUME NEW j \in Jobs, CancelFinds(j) PROVE Firm(k)'
  BY <1>2 DEF CancelFinds, Firm
<1>3. CASE CancelCommits
  <2>1. status'[k] = "cancelled"
    BY <1>3 DEF CancelCommits, Firm
  <2>2. \A r \in Runs : r[1] = k => at'[r] \in {"free", "queued"}
    BY <1>3 DEF CancelCommits, Firm, Loaded, Stages
  <2> QED
    BY <2>1, <2>2 DEF Firm
<1>4. ASSUME NEW j \in Jobs, BecomesDue(j) \/ GoesStale(j) PROVE Firm(k)'
  BY <1>4 DEF BecomesDue, GoesStale, Firm
<1>5. ASSUME NEW i \in Instances, NEW claimed \in SUBSET Jobs, Tick(i, claimed) PROVE Firm(k)'
  <2>1. k \in Jobs /\ Firm(k) /\ k \notin claimed
    BY <1>5 DEF Tick, Claimable, Firm
  <2>2. \A j \in claimed : Slot(j)[1] = j
    BY <1>5, SlotIsFree DEF Tick
  <2>3. status'[k] = status[k] /\ \A r \in Runs : r[1] = k => at'[r] = at[r]
    BY <1>5, <2>1, <2>2 DEF Tick
  <2> QED
    BY <2>1, <2>3 DEF Firm
<1>6. ASSUME NEW r \in Runs, Load(r) PROVE Firm(k)'
  BY <1>6 DEF Load, Firm
<1>7. ASSUME NEW r \in Runs, Delivers(r) \/ SendFails(r) \/ Beat(r) PROVE Firm(k)'
  BY <1>7 DEF Delivers, SendFails, Beat, Firm
<1>8. ASSUME NEW r \in Runs, Finish(r) PROVE Firm(k)'
  <2>1. k \in firm /\ k # r[1]
    BY <1>8 DEF Finish, Firm
  <2> QED
    BY <1>8, <2>1 DEF Finish, Ends, Firm
<1>9. ASSUME NEW r \in Runs, Breaks(r) PROVE Firm(k)'
  BY <1>9 DEF Breaks, Ends, Firm
<1>10. ASSUME NEW i \in Instances, Crash(i) PROVE Firm(k)'
  BY <1>10 DEF Crash, Ends, Firm
<1>11. ASSUME NEW i \in Instances, Shutdown(i) PROVE Firm(k)'
  BY <1>11 DEF Shutdown, Firm
<1>12. CASE UNCHANGED vars \/ DisableFindsNone
  BY <1>12 DEF DisableFindsNone, Firm
<1> QED
  BY <1>1, <1>2, <1>3, <1>4, <1>5, <1>6, <1>7, <1>8, <1>9, <1>10, <1>11, <1>12
     DEF Next, Tools, Execute

(* A row cancelled before any execution loaded it is never sent and never   *)
(* scheduled again, however late the queued executions get their permit.    *)
THEOREM FirmlyCancelledHolds == Spec => []FirmlyCancelled
<1>1. Init => FirmInv
  BY TypeInvInit DEF Init, FirmInv
<1>2. FirmInv /\ [Next]_vars => FirmInv'
  BY TypeInvStep, FirmStep DEF FirmInv
<1> QED
  BY <1>1, <1>2, FirmIsFirm, PTL DEF Spec

----------------------------------------------------------------------------
(* One-time reminders: how often they arrive. *)

(* Without a lost acknowledgement or a stolen claim, a one-time row that is *)
(* active or whose execution has not sent yet has not been delivered.       *)
Once(j) ==
  /\ delivered[j] <= 1
  /\ status[j] = "active" => delivered[j] = 0
  /\ \A r \in Runs : r[1] = j /\ at[r] \in {"queued", "sending", "failed"} => delivered[j] = 0

Single == \A j \in OneShots : j \notin lostAck \cup stolen => Once(j)

OnceInv == ClaimInv /\ Single

(* Nothing is delivered at first. *)
LEMMA OnceInit == Init => Single
BY DEF Init, Single, Once, Jobs, Reminders

(* A row's count is kept by a step that delivers nothing, starts nothing    *)
(* and does not activate it.                                                *)
LEMMA OnceKept ==
  ASSUME NEW j \in Jobs, Once(j),
         delivered'[j] = delivered[j],
         status'[j] = "active" => status[j] = "active" \/ delivered[j] = 0,
         \A r \in Runs : r[1] = j /\ at'[r] \in {"queued", "sending", "failed"} =>
           at[r] \in {"queued", "sending", "failed"}
  PROVE  Once(j)'
BY DEF Once

(* Every step keeps the counts that no lost acknowledgement explains. *)
LEMMA OnceStep == OnceInv /\ [Next]_vars => Single'
<1> SUFFICES ASSUME OnceInv, [Next]_vars, NEW k \in OneShots, k \notin lostAck' \cup stolen'
             PROVE  Once(k)'
  BY DEF Single
<1> USE RunNames DEF OnceInv, ClaimInv, TypeInv, TypeOK
<1>1. stolen \subseteq stolen' /\ lostAck \subseteq lostAck'
  BY DEF Next, Tools, Execute, SetReminder, CancelFinds, DisableFindsNone,
     CancelCommits, BecomesDue, GoesStale, Tick, Load, Delivers, SendFails,
     Unacknowledged, Beat, Finish, Breaks, Crash, Shutdown
<1>k. k \in Jobs /\ k \notin Crons \cup Beats /\ Once(k) /\ Claim(k)
  BY <1>1, JobsAssumption DEF Single, Claims, Jobs, Reminders
<1>2. ASSUME NEW j \in Jobs, SetReminder(j) PROVE Once(k)'
  <2>1. k = j => delivered[k] = 0
    BY <1>2 DEF SetReminder, Unborn
  <2> QED
    BY <1>2, <1>k, <2>1, OnceKept DEF SetReminder
<1>3. ASSUME NEW j \in Jobs, CancelFinds(j) PROVE Once(k)'
  BY <1>3, <1>k, OnceKept DEF CancelFinds
<1>4. CASE CancelCommits
  BY <1>4, <1>k, OnceKept DEF CancelCommits
<1>5. ASSUME NEW j \in Jobs, BecomesDue(j) \/ GoesStale(j) PROVE Once(k)'
  BY <1>5, <1>k, OnceKept DEF BecomesDue, GoesStale
<1>6. ASSUME NEW i \in Instances, NEW claimed \in SUBSET Jobs, Tick(i, claimed) PROVE Once(k)'
  <2>1. \A j \in claimed : Slot(j)[1] = j
    BY <1>6, SlotIsFree DEF Tick
  <2>2. CASE k \notin claimed
    <3>1. status'[k] = status[k] /\ \A r \in Runs : r[1] = k => at'[r] = at[r]
      BY <1>6, <1>k, <2>1, <2>2 DEF Tick
    <3> QED
      BY <1>6, <1>k, <3>1, OnceKept DEF Tick
  <2>3. CASE k \in claimed
    <3>1. status[k] = "active"
      BY <1>6, <2>3 DEF Tick, Claimable
    <3>2. delivered'[k] = 0 /\ status'[k] = "running"
      BY <1>6, <1>k, <2>3, <3>1 DEF Tick, Once
    <3> QED
      BY <3>2 DEF Once
  <2> QED
    BY <2>2, <2>3
<1>7. ASSUME NEW r \in Runs, Load(r) PROVE Once(k)'
  BY <1>7, <1>k, OnceKept DEF Load
<1>8. ASSUME NEW r \in Runs, Delivers(r) PROVE Once(k)'
  <2>1. CASE k = r[1]
    <3>1. delivered[k] = 0 /\ status[k] # "active"
      BY <1>8, <1>k, <2>1 DEF Delivers, Once, Claim
    <3>2. delivered'[k] = 1 /\ status'[k] # "active"
      BY <1>8, <1>k, <2>1, <3>1 DEF Delivers, Arrives, Unacknowledged
    <3>3. \A s \in Runs : s[1] = k /\ at'[s] # "free" => at'[s] = "sent"
      BY <1>8, <1>k, <2>1 DEF Delivers, Claim
    <3> QED
      BY <3>2, <3>3 DEF Once
  <2>2. CASE k # r[1]
    <3>1. delivered'[k] = delivered[k]
      BY <1>8, <1>k, <2>2 DEF Delivers, Arrives
    <3>2. /\ status' = status
          /\ \A s \in Runs : s[1] = k => at'[s] = at[s]
      BY <1>8, <2>2 DEF Delivers
    <3> QED
      BY <1>k, <3>1, <3>2, OnceKept
  <2> QED
    BY <2>1, <2>2
<1>9. ASSUME NEW r \in Runs, SendFails(r) PROVE Once(k)'
  <2>1. delivered'[k] = delivered[k]
    BY <1>9, <1>k DEF SendFails, Arrives, Unacknowledged
  <2> QED
    BY <1>9, <1>k, <2>1, OnceKept DEF SendFails
<1>10. ASSUME NEW r \in Runs, Finish(r) PROVE Once(k)'
  <2>1. delivered'[k] = delivered[k]
    BY <1>10, <1>k DEF Finish
  <2>2. status'[k] = "active" => status[k] = "active" \/ delivered[k] = 0
    <3>1. k = r[1] /\ at[r] = "failed" => delivered[k] = 0
      BY <1>k DEF Once
    <3>2. k = r[1] /\ at[r] = "sent" => StatusAfter(r) = "done"
      BY <1>k DEF StatusAfter, Repeats
    <3> QED
      BY <1>10, <1>k, <3>1, <3>2 DEF Finish
  <2> QED
    BY <1>10, <1>k, <2>1, <2>2, OnceKept DEF Finish, Ends
<1>11. ASSUME NEW r \in Runs, Beat(r) PROVE Once(k)'
  BY <1>11, <1>k, OnceKept DEF Beat
<1>12. ASSUME NEW r \in Runs, Breaks(r) PROVE Once(k)'
  BY <1>12, <1>k, OnceKept DEF Breaks, Ends
<1>13. ASSUME NEW i \in Instances, Crash(i) PROVE Once(k)'
  BY <1>13, <1>k, OnceKept DEF Crash, Ends
<1>14. ASSUME NEW i \in Instances, Shutdown(i) PROVE Once(k)'
  BY <1>14, <1>k, OnceKept DEF Shutdown
<1>15. CASE UNCHANGED vars \/ DisableFindsNone
  BY <1>15, <1>k, OnceKept DEF DisableFindsNone
<1> QED
  BY <1>2, <1>3, <1>4, <1>5, <1>6, <1>7, <1>8, <1>9, <1>10, <1>12, <1>13, <1>14, <1>15, <1>11
     DEF Next, Tools, Execute

(* A one-time reminder arrives twice only after a lost acknowledgement or a *)
(* stale claim.                                                             *)
THEOREM DuplicatesAreExplained == Spec => []DuplicatesExplained
<1>1. Init => OnceInv
  BY TypeInvInit, ClaimsInit, OnceInit DEF OnceInv, ClaimInv
<1>2. OnceInv /\ [Next]_vars => OnceInv'
  BY TypeInvStep, ClaimsStep, OnceStep DEF OnceInv, ClaimInv
<1>3. OnceInv => DuplicatesExplained
  BY DEF OnceInv, ClaimInv, TypeInv, TypeOK, Single, Once, DuplicatesExplained, Jobs, Reminders
<1> QED
  BY <1>1, <1>2, <1>3, PTL DEF Spec

(* A one-time row that is done, or about to be, has been delivered. *)
Arrived ==
  \A j \in OneShots :
    /\ status[j] = "done" => delivered[j] > 0
    /\ \A r \in Runs : r[1] = j /\ at[r] = "sent" => delivered[j] > 0

(* Nothing is done at first. *)
LEMMA ArrivedInit == Init => Arrived
<1> SUFFICES ASSUME Init PROVE Arrived
  OBVIOUS
<1>1. \A j \in OneShots : status[j] = "none"
  BY JobsAssumption DEF Init, Jobs, Reminders
<1> QED
  BY <1>1 DEF Init, Arrived

(* Without an orderly shutdown every step keeps what is done delivered.     *)
LEMMA ArrivedStep ==
  ASSUME Graceful = FALSE, TypeInv, Arrived, [Next]_vars
  PROVE  Arrived'
<1> SUFFICES ASSUME NEW k \in OneShots
             PROVE  /\ status'[k] = "done" => delivered'[k] > 0
                    /\ \A r \in Runs : r[1] = k /\ at'[r] = "sent" => delivered'[k] > 0
  BY DEF Arrived
<1> USE RunNames DEF TypeInv, TypeOK, Arrived
<1>k. k \in Jobs /\ k \notin Crons \cup Beats
  BY JobsAssumption DEF Jobs, Reminders
<1>0. \/ delivered'[k] = delivered[k]
      \/ delivered'[k] > 0 /\ status' = status
  <2>1. ASSUME NEW r \in Runs, Delivers(r) \/ SendFails(r)
        PROVE  status' = status /\ (delivered'[k] = delivered[k] \/ delivered'[k] > 0)
    BY <2>1, <1>k DEF Delivers, SendFails, Arrives
  <2>2. ASSUME NEW r \in Runs, Finish(r) PROVE delivered'[k] = delivered[k]
    BY <2>2, <1>k DEF Finish
  <2>3. \/ UNCHANGED delivered
        \/ \E r \in Runs : Delivers(r) \/ SendFails(r) \/ Finish(r)
    BY DEF Next, Tools, Execute, SetReminder, CancelFinds, DisableFindsNone,
       CancelCommits, BecomesDue, GoesStale, Tick, Load, Beat, Breaks, Crash, Shutdown
  <2> QED
    BY <2>1, <2>2, <2>3
<1>1. CASE UNCHANGED at /\ (status'[k] = "done" => status[k] = "done")
  BY <1>0, <1>1
<1>2. CASE Tools
  <2>1. UNCHANGED at
    BY <1>2 DEF Tools, SetReminder, CancelFinds, DisableFindsNone,
       CancelCommits
  <2>2. status'[k] = "done" => status[k] = "done"
    BY <1>2, <1>k DEF Tools, SetReminder, CancelFinds, DisableFindsNone,
       CancelCommits
  <2> QED
    BY <1>1, <2>1, <2>2
<1>3. ASSUME NEW j \in Jobs, BecomesDue(j) \/ GoesStale(j) PROVE UNCHANGED <<at, status>>
  BY <1>3 DEF BecomesDue, GoesStale
<1>4. ASSUME NEW i \in Instances, Crash(i) \/ Shutdown(i) \/ \E c \in SUBSET Jobs : Tick(i, c)
      PROVE  /\ status'[k] = "done" => status[k] = "done"
             /\ \A r \in Runs : at'[r] = "sent" => at[r] = "sent"
  <2>1. ~Shutdown(i)
    BY DEF Shutdown
  <2>2. CASE Crash(i)
    BY <2>2 DEF Crash, Ends
  <2>3. ASSUME NEW c \in SUBSET Jobs, Tick(i, c)
        PROVE  /\ status'[k] = "done" => status[k] = "done"
               /\ \A r \in Runs : at'[r] = "sent" => at[r] = "sent"
    BY <2>3, <1>k DEF Tick
  <2> QED
    BY <1>4, <2>1, <2>2, <2>3
<1>5. ASSUME NEW r \in Runs, Load(r) \/ Breaks(r)
      PROVE  /\ status' = status
             /\ \A s \in Runs : at'[s] = "sent" => at[s] = "sent"
  BY <1>5 DEF Load, Breaks, Ends
<1>6. ASSUME NEW r \in Runs, Delivers(r)
      PROVE  /\ status' = status
             /\ \A s \in Runs : at'[s] = "sent" => at[s] = "sent" \/ s = r
             /\ r[1] = k => delivered'[k] > 0
  BY <1>6, <1>k DEF Delivers, Arrives
<1>7. ASSUME NEW r \in Runs, SendFails(r)
      PROVE  /\ status' = status
             /\ \A s \in Runs : s[1] = k /\ at'[s] = "sent" => at[s] = "sent"
  BY <1>7, <1>k DEF SendFails
<1>10. ASSUME NEW r \in Runs, Beat(r)
       PROVE  /\ status' = status
              /\ \A s \in Runs : s[1] = k /\ at'[s] = "sent" => at[s] = "sent"
  BY <1>10, <1>k DEF Beat
<1>8. ASSUME NEW r \in Runs, Finish(r)
      PROVE  /\ \A s \in Runs : at'[s] = "sent" => at[s] = "sent"
             /\ status'[k] = "done" => status[k] = "done" \/ (k = r[1] /\ at[r] = "sent")
  BY <1>8 DEF Finish, Ends, StatusAfter, Repeats
<1>9. CASE UNCHANGED vars
  BY <1>1, <1>9
<1> QED
  BY <1>0, <1>2, <1>3, <1>4, <1>5, <1>6, <1>7, <1>8, <1>9, <1>10 DEF Next, Execute

(* Processes that crash but are never shut down in an orderly way mark a    *)
(* one-time reminder done only after its message got through.               *)
THEOREM DoneIsDeliveredWithoutShutdown ==
  ASSUME Graceful = FALSE
  PROVE  Spec => []DoneIsDelivered
<1> DEFINE I == TypeInv /\ Arrived
<1>1. Init => I
  BY TypeInvInit, ArrivedInit
<1>2. I /\ [Next]_vars => I'
  BY Zenon, TypeInvStep, ArrivedStep
<1>3. I => DoneIsDelivered
  BY DEF Arrived, DoneIsDelivered
<1> QED
  BY <1>1, <1>2, <1>3, PTL DEF Spec

----------------------------------------------------------------------------
(* The promise. *)

(* A row that a cancel call has found exists. *)
CallStands == call # NoJob => status[call] # "none"

PromiseInv == OnceInv /\ FirmInv /\ Arrived /\ CallStands

(* Rows that exist go on existing. *)
LEMMA CallStandsStep == TypeInv /\ CallStands /\ [Next]_vars => CallStands'
<1> SUFFICES ASSUME TypeInv, CallStands, [Next]_vars PROVE CallStands'
  OBVIOUS
<1> USE RunNames DEF TypeInv, TypeOK
<1>1. \A j \in Jobs : status[j] # "none" => status'[j] # "none"
  <2>1. CASE UNCHANGED status
    BY <2>1
  <2>2. ASSUME NEW j \in Jobs, SetReminder(j) \/ CancelFinds(j) \/ BecomesDue(j) \/ GoesStale(j)
        PROVE  \A k \in Jobs : status[k] # "none" => status'[k] # "none"
    BY <2>2 DEF SetReminder, CancelFinds, BecomesDue, GoesStale
  <2>3. CASE CancelCommits
    BY <2>3 DEF CancelCommits
  <2>4. ASSUME NEW i \in Instances, NEW c \in SUBSET Jobs, Tick(i, c)
        PROVE  \A k \in Jobs : status[k] # "none" => status'[k] # "none"
    BY <2>4 DEF Tick
  <2>5. ASSUME NEW r \in Runs, Finish(r)
        PROVE  \A k \in Jobs : status[k] # "none" => status'[k] # "none"
    BY <2>5 DEF Finish, StatusAfter
  <2>6. \/ UNCHANGED status \/ CancelCommits
        \/ \E j \in Jobs : SetReminder(j) \/ CancelFinds(j) \/ BecomesDue(j) \/ GoesStale(j)
        \/ \E i \in Instances, c \in SUBSET Jobs : Tick(i, c)
        \/ \E r \in Runs : Finish(r)
    BY DEF Next, Tools, Execute, DisableFindsNone, Load, Delivers, SendFails, Beat, Breaks, Crash, Shutdown
  <2> QED
    BY <2>1, <2>2, <2>3, <2>4, <2>5, <2>6
<1>2. call' \in {call, NoJob} \/ \E j \in Jobs : CancelFinds(j)
  BY DEF Next, Tools, Execute, SetReminder, DisableFindsNone, CancelCommits, BecomesDue, GoesStale, Tick, Load,
     Delivers, SendFails, Beat, Finish, Breaks, Crash, Shutdown
<1>3. ASSUME NEW j \in Jobs, CancelFinds(j) PROVE CallStands'
  BY <1>3 DEF CancelFinds, CallStands
<1> QED
  BY <1>1, <1>2, <1>3 DEF CallStands

(* What the promise sees of a step that changes nothing it tells apart. *)
LEMMA PromiseStays ==
  ASSUME \A j \in OneShots : Phase(j)' = Phase(j) /\ delivered'[j] = delivered[j], Unsure' = Unsure
  PROVE  UNCHANGED Promise!vars
<1>1. [j \in OneShots |-> Phase(j)]' = [j \in OneShots |-> Phase(j)]
  OBVIOUS
<1>2. [j \in OneShots |-> delivered[j]]' = [j \in OneShots |-> delivered[j]]
  OBVIOUS
<1> QED
  BY <1>1, <1>2 DEF Promise!vars

(* The phase of one reminder turns, and nothing else. *)
LEMMA PromiseTurns ==
  ASSUME NEW k \in OneShots, \A j \in OneShots : j # k => Phase(j)' = Phase(j),
         \A j \in OneShots : delivered'[j] = delivered[j], Unsure' = Unsure,
         \/ Phase(k)' = Phase(k)
         \/ Phase(k) = "unset" /\ Phase(k)' = "open"
         \/ Phase(k) = "open" /\ delivered[k] > 0 /\ Phase(k)' = "kept"
         \/ Phase(k) = "kept" /\ k \in Unsure /\ Phase(k)' = "open"
         \/ Phase(k) \in {"open", "kept"} /\ Phase(k)' = "off"
  PROVE  Promise!Next \/ UNCHANGED Promise!vars
<1> DEFINE phase == [j \in OneShots |-> Phase(j)]
           heard == [j \in OneShots |-> delivered[j]]
<1>1. CASE Phase(k)' = Phase(k)
  BY <1>1, PromiseStays
<1>2. phase' = [phase EXCEPT ![k] = Phase(k)'] /\ heard' = heard /\ phase[k] = Phase(k) /\ heard[k] = delivered[k]
  OBVIOUS
<1> HIDE DEF phase, heard
<1>3. CASE Phase(k) = "unset" /\ Phase(k)' = "open"
  <2>1. Promise!Sets(k)
    BY <1>2, <1>3 DEF Promise!Sets, phase, heard
  <2> QED
    BY <2>1 DEF Promise!Next
<1>4. CASE Phase(k) = "open" /\ delivered[k] > 0 /\ Phase(k)' = "kept"
  <2>1. Promise!Keeps(k)
    BY <1>2, <1>4 DEF Promise!Keeps, phase, heard
  <2> QED
    BY <2>1 DEF Promise!Next
<1>5. CASE Phase(k) = "kept" /\ k \in Unsure /\ Phase(k)' = "open"
  <2>1. Promise!Reopens(k)
    BY <1>2, <1>5 DEF Promise!Reopens, phase, heard
  <2> QED
    BY <2>1 DEF Promise!Next
<1>6. CASE Phase(k) \in {"open", "kept"} /\ Phase(k)' = "off"
  <2>1. Promise!CallsOff(k)
    BY <1>2, <1>6 DEF Promise!CallsOff, phase, heard
  <2> QED
    BY <2>1 DEF Promise!Next
<1> QED
  BY <1>1, <1>3, <1>4, <1>5, <1>6

(* A message of one reminder arrives: its first, or one of a reminder that  *)
(* is unsure from then on.                                                  *)
LEMMA PromiseReaches ==
  ASSUME NEW k \in OneShots, NEW n \in delivered[k] .. 2,
         \A j \in OneShots : Phase(j)' = Phase(j),
         \A j \in OneShots : delivered'[j] = IF j = k THEN n ELSE delivered[j],
         \/ Phase(k) = "open" /\ delivered[k] = 0 /\ n = 1 /\ Unsure' = Unsure
         \/ Phase(k) \in {"open", "kept"} /\ Unsure' = Unsure \cup {k}
  PROVE  Promise!Next
<1> DEFINE phase == [j \in OneShots |-> Phase(j)]
           heard == [j \in OneShots |-> delivered[j]]
<1>1. phase' = phase /\ heard' = [heard EXCEPT ![k] = n] /\ phase[k] = Phase(k) /\ heard[k] = delivered[k]
  OBVIOUS
<1> HIDE DEF phase, heard
<1>2. CASE Phase(k) = "open" /\ delivered[k] = 0 /\ n = 1 /\ Unsure' = Unsure
  <2>1. Promise!Reaches(k)
    BY <1>1, <1>2 DEF Promise!Reaches, phase, heard
  <2> QED
    BY <2>1 DEF Promise!Next
<1>3. CASE Phase(k) \in {"open", "kept"} /\ Unsure' = Unsure \cup {k}
  <2>1. Promise!ReachesAgain(k)
    BY <1>1, <1>3 DEF Promise!ReachesAgain, phase, heard
  <2> QED
    BY <2>1 DEF Promise!Next
<1> QED
  BY <1>2, <1>3

(* An arriving message: what the two sends have in common. *)
LEMMA SendMaps ==
  ASSUME PromiseInv, NEW r \in Runs, at[r] = "sending", r[1] \in Reminders, UNCHANGED <<status, firm, stolen>>,
         \/ UNCHANGED <<delivered, lostAck>>
         \/ Arrives(r[1], 1) /\ UNCHANGED lostAck
         \/ Unacknowledged(r[1]) /\ \E n \in 1..2 : Arrives(r[1], n)
  PROVE  Promise!Next \/ UNCHANGED Promise!vars
<1> DEFINE k == r[1]
<1>1. TypeOK /\ Unborn /\ Claims /\ Single /\ (\A j \in firm : Firm(j)) /\ k \in Jobs
  BY RunNames DEF PromiseInv, OnceInv, ClaimInv, FirmInv, TypeInv
<1>2. \A j \in OneShots : Phase(j)' = Phase(j) /\ j \in Jobs /\ delivered[j] \in 0..2
  BY <1>1 DEF Phase, TypeOK, Jobs, Reminders
<1>3. CASE UNCHANGED <<delivered, lostAck>>
  BY <1>2, <1>3, PromiseStays DEF Unsure
<1>4. CASE k \notin OneShots
  <2>1. \A j \in OneShots : delivered'[j] = delivered[j]
    BY <1>1, <1>2, <1>4 DEF Arrives, TypeOK
  <2>2. Unsure' = Unsure
    BY <1>4 DEF Unsure, Unacknowledged
  <2> QED
    BY <1>2, <2>1, <2>2, PromiseStays
<1>5. ASSUME k \in OneShots, NEW n \in 1..2, Arrives(k, n), UNCHANGED lostAck \/ Unacknowledged(k),
             n = 1 \/ Unacknowledged(k)
      PROVE  Promise!Next \/ UNCHANGED Promise!vars
  <2> DEFINE m == IF delivered[k] + n > 2 THEN 2 ELSE delivered[k] + n
  <2>1. m \in delivered[k] .. 2
    BY <1>2, <1>5
  <2>2. \A j \in OneShots : delivered'[j] = IF j = k THEN m ELSE delivered[j]
    BY <1>1, <1>2, <1>5 DEF Arrives, TypeOK
  <2>3. Phase(k) \in {"open", "kept"}
    <3>1. status[k] # "none" /\ k \notin firm
      BY <1>1 DEF Unborn, Firm
    <3> QED
      BY <3>1 DEF Phase
  <2>4. CASE Unacknowledged(k)
    <3>1. Unsure' = Unsure \cup {k}
      BY <1>5, <2>4 DEF Unsure, Unacknowledged
    <3> HIDE DEF m
    <3> QED
      BY <1>2, <1>5, <2>1, <2>2, <2>3, <3>1, PromiseReaches
  <2>5. CASE UNCHANGED lostAck /\ k \in Unsure
    <3>1. Unsure' = Unsure \cup {k}
      BY <2>5 DEF Unsure
    <3> HIDE DEF m
    <3> QED
      BY <1>2, <1>5, <2>1, <2>2, <2>3, <3>1, PromiseReaches
  <2>6. CASE UNCHANGED lostAck /\ k \notin Unsure /\ ~Unacknowledged(k)
    <3>1. Unsure' = Unsure /\ k \notin lostAck \cup stolen
      BY <1>5, <2>6 DEF Unsure
    <3>2. delivered[k] = 0 /\ n = 1
      BY <1>1, <1>5, <2>6, <3>1 DEF Single, Once
    <3>3. status[k] # "done"
      BY <1>1, <3>1 DEF Claims, Claim
    <3>4. Phase(k) = "open" /\ m = 1
      BY <2>3, <3>2, <3>3 DEF Phase
    <3> HIDE DEF m
    <3> QED
      BY <1>2, <1>5, <2>1, <2>2, <3>1, <3>2, <3>4, PromiseReaches
  <2> QED
    BY <1>5, <2>4, <2>5, <2>6
<1> QED
  BY <1>3, <1>4, <1>5

(* Every step is a step of the promise or none.                             *)
LEMMA PromiseStep ==
  ASSUME Graceful = FALSE, PromiseInv, [Next]_vars
  PROVE  Promise!Next \/ UNCHANGED Promise!vars
<1> DEFINE Maps == Promise!Next \/ UNCHANGED Promise!vars
<1>t. TypeOK /\ Unborn /\ Claims /\ Arrived /\ CallStands /\ (\A j \in firm : Firm(j))
  BY DEF PromiseInv, OnceInv, ClaimInv, FirmInv, TypeInv
<1>j. \A j \in OneShots : j \in Jobs /\ j \notin Crons \cup Beats
  BY JobsAssumption DEF Jobs, Reminders
<1>y. /\ status \in [Jobs -> Statuses] /\ delivered \in [Jobs -> 0..2] /\ call \in Jobs \cup {NoJob}
  BY <1>t DEF TypeOK
<1> USE RunNames
<1>1. ASSUME UNCHANGED <<status, firm, delivered, lostAck, stolen>> PROVE Maps
  BY <1>1, PromiseStays DEF Phase, Unsure
<1>2. ASSUME NEW j \in Jobs, SetReminder(j) PROVE Maps
  <2>1. \A k \in Jobs : k # j => Phase(k)' = Phase(k)
    BY <1>2, <1>y DEF SetReminder, Phase
  <2>2. (\A k \in Jobs : delivered'[k] = delivered[k]) /\ Unsure' = Unsure
    BY <1>2 DEF SetReminder, Unsure
  <2>3. Phase(j) = "unset" /\ Phase(j)' = "open"
    BY <1>2, <1>y, <1>t DEF SetReminder, Phase, Firm
  <2>4. CASE j \in OneShots
    BY <1>j, <2>1, <2>2, <2>3, <2>4, PromiseTurns
  <2>5. CASE j \notin OneShots
    BY <1>j, <2>1, <2>2, <2>5, PromiseStays
  <2> QED
    BY <2>4, <2>5
<1>3. CASE CancelCommits
  <2>1. PICK j \in Jobs : j = call /\ status[j] # "none"
    BY <1>3, <1>t, <1>y DEF CancelCommits, CallStands
  <2>2. \A k \in Jobs : k # j => Phase(k)' = Phase(k)
    BY <1>3, <1>y, <2>1 DEF CancelCommits, Phase
  <2>3. (\A k \in Jobs : delivered'[k] = delivered[k]) /\ Unsure' = Unsure
    BY <1>3 DEF CancelCommits, Unsure
  <2>4. status'[j] = "cancelled" /\ firm \subseteq firm'
    BY <1>3, <1>y, <2>1 DEF CancelCommits
  <2>5. CASE j \notin OneShots
    BY <1>j, <2>2, <2>3, <2>5, PromiseStays
  <2>6. CASE j \in OneShots /\ j \in firm'
    <3>1. Phase(j)' = "off" /\ Phase(j) \in {"off", "open", "kept"}
      BY <2>1, <2>4, <2>6 DEF Phase
    <3> QED
      BY <1>j, <2>2, <2>3, <2>6, <3>1, PromiseTurns
  <2>7. CASE j \in OneShots /\ j \notin firm'
    <3>1. Phase(j)' = "open" /\ Phase(j) \in {"open", "kept"}
      BY <2>1, <2>4, <2>7 DEF Phase
    <3>2. PICK r \in Runs : r[1] = j /\ at[r] \in Loaded
      BY <1>3, <2>1, <2>7 DEF CancelCommits
    <3>3. j \in stolen \/ status[j] # "done"
      BY <1>t, <2>1, <3>2 DEF Claims, Claim, Loaded
    <3>4. Phase(j) = "kept" => j \in Unsure
      BY <2>7, <3>3 DEF Phase, Unsure
    <3> QED
      BY <1>j, <2>2, <2>3, <2>7, <3>1, <3>4, PromiseTurns
  <2> QED
    BY <2>5, <2>6, <2>7
<1>4. ASSUME NEW i \in Instances, NEW c \in SUBSET Jobs, Tick(i, c) PROVE Maps
  <2>1. \A k \in Jobs : Phase(k)' = Phase(k)
    BY <1>4, <1>y DEF Tick, Claimable, Phase
  <2>2. \A k \in Jobs : delivered'[k] = delivered[k]
    BY <1>4 DEF Tick
  <2> DEFINE lost == {j \in c : status[j] = "running"} \cap OneShots
  <2>3. Unsure' = Unsure \cup lost /\ lost \in SUBSET OneShots
    BY <1>4 DEF Tick, Unsure
  <2> HIDE DEF lost
  <2>4. /\ [j \in OneShots |-> Phase(j)]' = [j \in OneShots |-> Phase(j)]
        /\ [j \in OneShots |-> delivered[j]]' = [j \in OneShots |-> delivered[j]]
    BY <1>j, <2>1, <2>2
  <2>5. Promise!Doubts(lost)
    BY <2>3, <2>4 DEF Promise!Doubts
  <2> QED
    BY <2>3, <2>5 DEF Promise!Next
<1>5. ASSUME NEW r \in Runs, Delivers(r) \/ SendFails(r) PROVE Maps
  BY <1>5, SendMaps DEF Delivers, SendFails
<1>6. ASSUME NEW r \in Runs, Finish(r) PROVE Maps
  <2> DEFINE k == r[1]
  <2>1. k \in Jobs /\ at[r] \in {"sent", "failed"} /\ status[k] # "none" /\ k \notin firm
    BY <1>6, <1>t DEF Finish, Unborn, Firm
  <2>2. \A j \in Jobs : j # k => Phase(j)' = Phase(j)
    BY <1>6, <1>y DEF Finish, Phase
  <2>3. (\A j \in OneShots : delivered'[j] = delivered[j]) /\ Unsure' = Unsure
    BY <1>6, <1>j, <1>y DEF Finish, Unsure
  <2>4. CASE k \notin OneShots
    BY <1>j, <2>2, <2>3, <2>4, PromiseStays
  <2>5. CASE k \in OneShots /\ status' = status
    <3>1. Phase(k)' = Phase(k)
      BY <1>6, <2>5 DEF Finish, Phase
    <3> QED
      BY <1>j, <2>2, <2>3, <2>5, <3>1, PromiseStays
  <2>6. CASE k \in OneShots /\ at[r] = "sent" /\ status' # status
    <3>1. status'[k] = "done" /\ firm' = firm
      BY <1>6, <1>j, <1>y, <2>1, <2>6 DEF Finish, StatusAfter, Repeats
    <3>2. Phase(k)' = "kept" /\ Phase(k) \in {"open", "kept"} /\ delivered[k] > 0
      BY <1>6, <1>t, <2>1, <2>6, <3>1 DEF Phase, Arrived
    <3> QED
      BY <1>j, <2>2, <2>3, <2>6, <3>2, PromiseTurns
  <2>7. CASE k \in OneShots /\ at[r] = "failed" /\ status' # status
    <3>1. status'[k] = "active" /\ firm' = firm
      BY <1>6, <1>y, <2>1, <2>7 DEF Finish, StatusAfter, Repeats
    <3>2. Phase(k)' = "open" /\ Phase(k) \in {"open", "kept"}
      BY <2>1, <3>1 DEF Phase
    <3>3. Phase(k) = "kept" => k \in Unsure
      BY <1>t, <2>1, <2>7 DEF Claims, Claim, Phase, Unsure
    <3> QED
      BY <1>j, <2>2, <2>3, <2>7, <3>2, <3>3, PromiseTurns
  <2> QED
    BY <2>1, <2>4, <2>5, <2>6, <2>7
<1>7. ASSUME NEW j \in Jobs, CancelFinds(j) \/ BecomesDue(j) \/ GoesStale(j) PROVE Maps
  BY <1>1, <1>7 DEF CancelFinds, BecomesDue, GoesStale
<1>8. ASSUME NEW r \in Runs, Load(r) \/ Beat(r) \/ Breaks(r) PROVE Maps
  BY <1>1, <1>8 DEF Load, Beat, Breaks
<1>9. ASSUME NEW i \in Instances, Crash(i) \/ Shutdown(i) PROVE Maps
  BY <1>1, <1>9 DEF Crash, Shutdown
<1>10. CASE DisableFindsNone \/ UNCHANGED vars
  BY <1>1, <1>10 DEF DisableFindsNone
<1> QED
  BY <1>2, <1>3, <1>4, <1>5, <1>6, <1>7, <1>8, <1>9, <1>10 DEF Next, Tools, Execute

(* The one-time reminders implement the promise, for any processes that     *)
(* tick, crash and lose claims, any number of retries and any cancelling,   *)
(* where no process is shut down in an orderly way: nothing is heard of a   *)
(* reminder that was called off, none counts as kept unheard, and a kept    *)
(* one is heard or opened again only if a claim went stale or an            *)
(* acknowledgement was lost (scheduler_service.py, scheduler_tool.py).      *)
THEOREM RemindersKeepThePromise ==
  ASSUME Graceful = FALSE
  PROVE  Spec => KeepsPromise
<1>1. Init => PromiseInv /\ Promise!Init
  <2> SUFFICES ASSUME Init PROVE PromiseInv /\ Promise!Init
    OBVIOUS
  <2>1. PromiseInv
    BY TypeInvInit, ClaimsInit, OnceInit, ArrivedInit
       DEF PromiseInv, OnceInv, ClaimInv, FirmInv, CallStands, Init
  <2>2. \A j \in OneShots : j \in Jobs /\ Phase(j) = "unset" /\ delivered[j] = 0
    BY JobsAssumption DEF Init, Jobs, Reminders, Phase
  <2>3. Unsure = {}
    BY DEF Init, Unsure
  <2> QED
    BY <2>1, <2>2, <2>3 DEF Promise!Init
<1>2. PromiseInv /\ [Next]_vars => PromiseInv'
  <2> SUFFICES ASSUME PromiseInv, [Next]_vars PROVE PromiseInv'
    OBVIOUS
  <2>1. OnceInv'
    BY TypeInvStep, ClaimsStep, OnceStep DEF PromiseInv, OnceInv, ClaimInv
  <2>2. FirmInv'
    BY TypeInvStep, FirmStep DEF PromiseInv, FirmInv
  <2>3. Arrived' /\ CallStands'
    BY ArrivedStep, CallStandsStep DEF PromiseInv, FirmInv
  <2> QED
    BY <2>1, <2>2, <2>3 DEF PromiseInv
<1>3. PromiseInv /\ [Next]_vars => [Promise!Next]_(Promise!vars)
  BY Zenon, PromiseStep
<1> QED
  BY <1>1, <1>2, <1>3, PTL DEF Spec, KeepsPromise, Promise!Spec
=============================================================================
