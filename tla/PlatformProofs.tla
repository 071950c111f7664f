--------------------------- MODULE PlatformProofs ---------------------------
(***************************************************************************)
(* Theorems about what stands around a run: the sandboxes and deployments  *)
(* (Containers), the reply on its way out (RunReply), the owners' accounts *)
(* and quotas (Accounts) and the agents that Arthur makes (Builder).  Each *)
(* part has its inductive invariant, then one lemma for each action.       *)
(***************************************************************************)
EXTENDS Containers, RunReply, ChatHistory, RunKit, Accounts, Builder, FiniteSetTheorems, WellFoundedInduction, TLAPS

-----------------------------------------------------------------------------
(* Sandboxes and deployments.                                              *)
DeploySpec == DeployInit /\ [][DeployNext]_deployVars
CommandSpec == CommandInit /\ [][CommandNext]_commandVars

-----------------------------------------------------------------------------
(* Deployments.                                                             *)
Places == {"idle", "evicted", "room", "clear", "app", "again", "tunnel", "listening", "heard"}
Thread == [at : Places, s : Sessions \cup {None}, born : Nat, tries : Nat, url : Nat]
Container == [by : Deploys \cup {None}, at : Nat, net : Deploys \cup {None}, url : Nat]

TypeInv ==
    /\ now \in Nat /\ urls \in Nat
    /\ registry \in [Sessions -> [url : Nat, at : Nat]]
    /\ app \in [Sessions -> Container] /\ cf \in [Sessions -> Container]
    /\ dep \in [Deploys -> Thread]
    /\ \A d \in Deploys : dep[d].at # "idle" => dep[d].s \in Sessions

(* A session whose entry can be relied on has one thread at most, and what  *)
(* bears its app's name is that thread's own.                               *)
Alone == \A s \in Sessions \ torn : \A d, e \in Busy(s) : d = e
OwnApp == \A d \in Deploys :
    /\ dep[d].at = "clear" /\ dep[d].s \notin torn => app[dep[d].s] = NoContainer
    /\ dep[d].at = "app" /\ dep[d].s \notin torn => app[dep[d].s] = NoContainer \/ app[dep[d].s].by = d

(* The tunnel beside an app that its thread still holds is that thread's.   *)
OwnTunnel == \A d \in Deploys :
    dep[d].at \in {"listening", "heard"} /\ Held(d) /\ There(cf[dep[d].s]) => cf[dep[d].s].net = d

UrlInv == TypeInv /\ Alone /\ OwnApp /\ OwnTunnel /\ UrlLeadsToTheApp

(* One thread at most is under way, and once it has made room there is room *)
(* for its session beside those that are registered.                        *)
OneDeploy == ~crowd => \A d, e \in Deploys : dep[d].at # "idle" /\ dep[e].at # "idle" => d = e
RoomLeft == ~crowd => \A d \in Deploys :
    dep[d].at \notin {"idle", "evicted"} => Cardinality(Registered \ {dep[d].s}) < MaxDeployments
LimitInv == TypeInv /\ IsFiniteSet(Registered) /\ OneDeploy /\ RoomLeft /\ DeploymentsKeepLimit

LEMMA DeployInitOK == DeployInit => UrlInv /\ LimitInv
<1> SUFFICES ASSUME DeployInit PROVE UrlInv /\ LimitInv
  OBVIOUS
<1>1. TypeInv
  BY DEF DeployInit, TypeInv, NoEntry, NoContainer, Idle, Thread, Container, Places
<1>2. Registered = {}
  BY DEF DeployInit, Registered, NoEntry
<1>3. \A d \in Deploys : dep[d].at = "idle"
  BY DEF DeployInit, Idle
<1>4. Alone /\ OwnApp /\ OwnTunnel /\ UrlLeadsToTheApp
  BY <1>2, <1>3 DEF Alone, OwnApp, OwnTunnel, UrlLeadsToTheApp, Busy, Status
<1>5. OneDeploy /\ RoomLeft
  BY <1>3 DEF OneDeploy, RoomLeft
<1>6. IsFiniteSet(Registered) /\ Cardinality(Registered) = 0
  BY <1>2, FS_EmptySet
<1> QED
  BY <1>1, <1>4, <1>5, <1>6, ContainerBounds DEF UrlInv, LimitInv, DeploymentsKeepLimit

(* Types: each action in turn.                                              *)
LEMMA TypeStep == TypeInv /\ [DeployNext]_deployVars => TypeInv'
<1> SUFFICES ASSUME TypeInv, [DeployNext]_deployVars PROVE TypeInv'
  OBVIOUS
<1> USE DEF TypeInv
<1>1. /\ NoEntry \in [url : Nat, at : Nat] /\ NoContainer \in Container /\ Idle \in Thread
      /\ Idle.at = "idle"
  BY DEF NoEntry, NoContainer, Container, Idle, Thread, Places
<1>2. \A dead : Killed(dead) => app' \in [Sessions -> Container] /\ cf' \in [Sessions -> Container]
  BY <1>1 DEF Killed
<1>3. \A dead : Unregistered(dead) => registry' \in [Sessions -> [url : Nat, at : Nat]]
  BY <1>1 DEF Unregistered
<1>4. Evicted => /\ app' \in [Sessions -> Container] /\ cf' \in [Sessions -> Container]
                 /\ registry' \in [Sessions -> [url : Nat, at : Nat]]
  BY <1>1, <1>3 DEF Evicted
<1>5. ASSUME NEW d \in Deploys, DeployStep(d) PROVE TypeInv'
  <2> DEFINE DepOK == /\ dep' \in [Deploys -> Thread]
                      /\ \A e \in Deploys : dep'[e].at # "idle" => dep'[e].s \in Sessions
  <2>1. ASSUME NEW place \in Places, Goes(d, place), dep[d].at # "idle" PROVE DepOK
    BY <2>1 DEF Goes, Thread
  <2>2. Ends(d) => DepOK
    BY <1>1 DEF Ends
  <2>3. ASSUME NEW s \in Sessions, Starts(d, s) PROVE TypeInv'
    <3>1. DepOK
      BY ZenonT(30), <2>3 DEF Starts, Thread, Places
    <3> QED
      BY <1>4, <2>3, <3>1 DEF Starts
  <2>4. CASE MakesRoom(d)
    <3>1. DepOK
      BY <2>1, <2>4 DEF MakesRoom, Places
    <3> QED
      BY <1>2, <1>3, <2>4, <3>1 DEF MakesRoom
  <2>5. CASE ClearsNames(d)
    <3>1. DepOK
      BY <2>1, <2>5 DEF ClearsNames, Places
    <3> QED
      BY <1>2, <2>5, <3>1 DEF ClearsNames
  <2>6. CASE RunsApp(d)
    <3>1. CASE ~There(app[dep[d].s])
      <4>1. app' = [app EXCEPT ![dep[d].s] = [NoContainer EXCEPT !.by = d, !.at = now]]
            /\ dep' = [dep EXCEPT ![d].at = "app", ![d].born = now]
        BY <2>6, <3>1 DEF RunsApp
      <4>2. [NoContainer EXCEPT !.by = d, !.at = now] \in Container
        BY <1>1 DEF NoContainer, Container
      <4>3. [dep[d] EXCEPT !.at = "app", !.born = now] \in Thread /\ dep[d].s \in Sessions
        BY <2>6 DEF RunsApp, Thread, Places
      <4>4. DepOK
        BY <4>1, <4>3 DEF Thread
      <4> QED
        BY <2>6, <4>1, <4>2, <4>4 DEF RunsApp
    <3>2. CASE There(app[dep[d].s])
      BY <2>2, <2>6, <3>2 DEF RunsApp
    <3> QED
      BY <3>1, <3>2
  <2>7. CASE AppExits(d)
    BY <1>1, <2>2, <2>7 DEF AppExits
  <2>8. CASE ClearsTunnel(d)
    <3>1. DepOK
      BY <2>1, <2>8 DEF ClearsTunnel, Places
    <3> QED
      BY <1>1, <2>8, <3>1 DEF ClearsTunnel
  <2>9. CASE RunsTunnel(d)
    <3>1. DepOK
      BY <2>1, <2>9 DEF RunsTunnel, Places
    <3>2. dep[d].born \in Nat
      BY DEF Thread
    <3>3. cf' \in [Sessions -> Container]
      BY <2>9, <3>2 DEF RunsTunnel, Container
    <3> QED
      BY <2>9, <3>1, <3>3 DEF RunsTunnel
  <2>10. CASE TunnelFails(d)
    <3>1. DepOK
      BY <2>2, <2>10 DEF TunnelFails, Thread, Places
    <3> QED
      BY <1>2, <2>10, <3>1 DEF TunnelFails
  <2>11. CASE HearsUrl(d)
    <3>1. cf[dep[d].s].url \in Nat
      BY <2>11 DEF HearsUrl, Container
    <3>2. DepOK
      BY ZenonT(30), <2>11, <3>1 DEF HearsUrl, Thread, Places
    <3> QED
      BY <2>11, <3>2 DEF HearsUrl
  <2>12. CASE HearsNothing(d)
    BY <2>2, <2>12 DEF HearsNothing
  <2>13. CASE Registers(d)
    <3>1. dep[d].url \in Nat
      BY DEF Thread
    <3>2. registry' \in [Sessions -> [url : Nat, at : Nat]]
      BY <2>13, <3>1 DEF Registers
    <3> QED
      BY <2>2, <2>13, <3>2 DEF Registers
  <2> QED
    BY <1>5, <2>3, <2>4, <2>5, <2>6, <2>7, <2>8, <2>9, <2>10, <2>11, <2>12, <2>13 DEF DeployStep
<1>6. ASSUME NEW s \in Sessions, Stops(s) \/ SeesItOver(s) PROVE TypeInv'
  BY <1>2, <1>3, <1>6 DEF Stops, SeesItOver
<1>7. ASSUME NEW s \in Sessions, TunnelReturns(s) PROVE TypeInv'
  <2>1. [cf[s] EXCEPT !.url = urls + 1] \in Container
    BY DEF Container
  <2>2. cf' = [cf EXCEPT ![s] = [cf[s] EXCEPT !.url = urls + 1]]
    BY <1>7 DEF TunnelReturns
  <2> QED
    BY <1>7, <2>1, <2>2 DEF TunnelReturns
<1>8. CASE CleansUp
  BY <1>4, <1>8 DEF CleansUp
<1>9. CASE Restarts
  BY <1>1, <1>3, <1>9 DEF Restarts
<1>10. CASE Ticks
  BY <1>10 DEF Ticks
<1>11. CASE UNCHANGED deployVars
  BY <1>11 DEF deployVars
<1> QED
  BY <1>5, <1>6, <1>7, <1>8, <1>9, <1>10, <1>11 DEF DeployNext

(* What a step does to one session's containers and entry: it leaves them,  *)
(* or takes them away, in part or whole.                                    *)
Thins(s) ==
    /\ app'[s] \in {app[s], NoContainer} /\ cf'[s] \in {cf[s], NoContainer}
    /\ registry'[s] \in {registry[s], NoEntry}

LEMMA ThinsKilled ==
  ASSUME NEW dead, Killed(dead), Unregistered(dead) \/ registry' = registry, TypeInv
  PROVE  \A s \in Sessions : Thins(s)
BY DEF Killed, Unregistered, Thins, TypeInv

LEMMA ThinsEvicted ==
  ASSUME Evicted, TypeInv PROVE \A s \in Sessions : Thins(s)
BY DEF Evicted, Unregistered, Thins, TypeInv

(* The address of a session stays right when its containers are thinned, no *)
(* thread ends for it, and it is as torn as before or more.                 *)
LEMMA UrlThinned ==
  ASSUME NEW s \in Sessions, TypeInv, UrlLeadsToTheApp, Thins(s), torn \subseteq torn',
         Busy(s)' = {} => Busy(s) = {}
  PROVE  (Status(s) = "running" /\ s \notin torn /\ Busy(s) = {})' =>
             registry'[s].url = cf'[s].url /\ cf'[s].net = app'[s].by
<1> SUFFICES ASSUME Status(s)' = "running", s \notin torn', Busy(s)' = {}
             PROVE  registry'[s].url = cf'[s].url /\ cf'[s].net = app'[s].by
  OBVIOUS
<1>1. registry'[s] # NoEntry /\ app'[s] # NoContainer /\ cf'[s] # NoContainer
  BY DEF Status, Registered, There
<1>2. registry'[s] = registry[s] /\ app'[s] = app[s] /\ cf'[s] = cf[s]
  BY <1>1 DEF Thins
<1>3. Status(s) = "running" /\ s \notin torn /\ Busy(s) = {}
  BY <1>1, <1>2 DEF Status, Registered, There
<1> QED
  BY <1>2, <1>3 DEF UrlLeadsToTheApp

(* A thread that does nothing keeps its claims while containers are thinned.*)
OwnOf(e) ==
    /\ dep[e].at = "clear" /\ dep[e].s \notin torn => app[dep[e].s] = NoContainer
    /\ dep[e].at = "app" /\ dep[e].s \notin torn => app[dep[e].s] = NoContainer \/ app[dep[e].s].by = e
    /\ dep[e].at \in {"listening", "heard"} /\ Held(e) /\ There(cf[dep[e].s]) => cf[dep[e].s].net = e

LEMMA OwnThinned ==
  ASSUME UrlInv, NEW e \in Deploys, dep'[e] = dep[e], dep[e].at # "idle" => Thins(dep[e].s),
         torn \subseteq torn'
  PROVE  OwnOf(e)'
<1>1. OwnOf(e)
  BY DEF UrlInv, OwnApp, OwnTunnel, OwnOf
<1>2. NoContainer.by # e
  BY ContainerBounds DEF NoContainer
<1>3. CASE dep[e].at = "idle"
  BY <1>3 DEF OwnOf
<1>4. CASE dep[e].at # "idle"
  BY <1>1, <1>2, <1>4 DEF OwnOf, Held, There, Thins
<1> QED
  BY <1>3, <1>4

(* A thread that goes on or ends leaves sessions as alone as they were.     *)
LEMMA StaysAlone ==
  ASSUME UrlInv, NEW d \in Deploys, \A e \in Deploys \ {d} : dep'[e] = dep[e], torn \subseteq torn',
         dep[d].at # "idle", dep'[d].s = dep[d].s \/ dep'[d].at = "idle"
  PROVE  /\ Alone'
         /\ dep'[d].at # "idle" => \A s \in Sessions : Busy(s)' = Busy(s)
         /\ \A s \in Sessions \ {dep[d].s} : Busy(s)' = Busy(s)
<1>1. \A s \in Sessions : Busy(s)' \subseteq Busy(s)
  BY DEF Busy
<1>2. dep'[d].at # "idle" => \A s \in Sessions : Busy(s)' = Busy(s)
  BY DEF Busy
<1>3. \A s \in Sessions \ {dep[d].s} : Busy(s)' = Busy(s)
  BY DEF Busy
<1> QED
  BY <1>1, <1>2, <1>3 DEF UrlInv, Alone

(* A thread's step that thins containers and goes on.                       *)
LEMMA UrlGoes ==
  ASSUME UrlInv, TypeInv', NEW d \in Deploys, \A e \in Deploys \ {d} : dep'[e] = dep[e], torn \subseteq torn',
         dep[d].at # "idle", dep'[d].at # "idle", dep'[d].s = dep[d].s,
         \A s \in Sessions : Thins(s), OwnOf(d)'
  PROVE  UrlInv'
<1>1. Alone' /\ \A s \in Sessions : Busy(s)' = Busy(s)
  BY StaysAlone
<1>2. \A e \in Deploys : OwnOf(e)'
  <2> TAKE e \in Deploys
  <2>1. ASSUME e # d PROVE OwnOf(e)'
    BY <2>1, OwnThinned DEF UrlInv, TypeInv
  <2> QED
    BY <2>1
<1>3. UrlLeadsToTheApp'
  BY <1>1, UrlThinned DEF UrlLeadsToTheApp, UrlInv
<1> QED
  BY <1>1, <1>2, <1>3 DEF UrlInv, OwnApp, OwnTunnel, OwnOf

(* A thread that ends: its session must be right, or not running.           *)
LEMMA UrlEnds ==
  ASSUME UrlInv, TypeInv', NEW d \in Deploys, Ends(d), torn \subseteq torn',
         dep[d].at # "idle", \A s \in Sessions : Thins(s),
         NEW ours \in Sessions, dep[d].s = ours, ours \in torn' \/ Status(ours)' # "running"
  PROVE  UrlInv'
<1>1. (\A e \in Deploys \ {d} : dep'[e] = dep[e]) /\ dep'[d] = Idle /\ Idle.at = "idle"
  BY DEF Ends, UrlInv, TypeInv, Idle
<1>2. Alone' /\ \A s \in Sessions \ {dep[d].s} : Busy(s)' = Busy(s)
  BY <1>1, StaysAlone
<1>3. \A e \in Deploys : OwnOf(e)'
  <2> TAKE e \in Deploys
  <2>1. ASSUME e # d PROVE OwnOf(e)'
    BY <1>1, <2>1, OwnThinned DEF UrlInv, TypeInv
  <2>2. OwnOf(d)'
    BY <1>1 DEF OwnOf
  <2> QED
    BY <2>1, <2>2
<1>4. UrlLeadsToTheApp'
  <2> SUFFICES ASSUME NEW s \in Sessions, (Status(s) = "running" /\ s \notin torn /\ Busy(s) = {})'
               PROVE  registry'[s].url = cf'[s].url /\ cf'[s].net = app'[s].by
    BY DEF UrlLeadsToTheApp
  <2>1. s # ours
    OBVIOUS
  <2> QED
    BY <1>2, <2>1, UrlThinned DEF UrlInv
<1> QED
  BY <1>2, <1>3, <1>4 DEF UrlInv, OwnApp, OwnTunnel, OwnOf

(* A step of no thread.                                                     *)
LEMMA UrlAround ==
  ASSUME UrlInv, TypeInv', dep' = dep, torn \subseteq torn',
         \A s \in Sessions : Thins(s) \/ (s \in torn' /\ app' = app /\ \A e \in Deploys : OwnOf(e)')
  PROVE  UrlInv'
<1>1. Alone' /\ \A s \in Sessions : Busy(s)' = Busy(s)
  BY DEF UrlInv, Alone, Busy
<1>2. \A e \in Deploys : OwnOf(e)'
  <2> TAKE e \in Deploys
  <2> QED
    BY OwnThinned DEF UrlInv, TypeInv, OwnOf
<1>3. UrlLeadsToTheApp'
  <2> SUFFICES ASSUME NEW s \in Sessions, (Status(s) = "running" /\ s \notin torn /\ Busy(s) = {})'
               PROVE  registry'[s].url = cf'[s].url /\ cf'[s].net = app'[s].by
    BY DEF UrlLeadsToTheApp
  <2> QED
    BY <1>1, UrlThinned DEF UrlInv
<1> QED
  BY <1>1, <1>2, <1>3 DEF UrlInv, OwnApp, OwnTunnel, OwnOf

(* The start of a thread: alone in its session, or the session is torn.     *)
LEMMA UrlStarts ==
  ASSUME UrlInv, TypeInv', NEW d \in Deploys, NEW ours \in Sessions, Starts(d, ours)
  PROVE  UrlInv'
<1>1. /\ \A e \in Deploys \ {d} : dep'[e] = dep[e]
      /\ dep[d].at = "idle" /\ dep'[d].at = "evicted" /\ dep'[d].s = ours
      /\ torn \subseteq torn' /\ (Busy(ours) # {} => ours \in torn')
  BY DEF Starts, UrlInv, TypeInv, Thread
<1>2. \A s \in Sessions : Thins(s)
  BY ThinsEvicted DEF Starts, UrlInv
<1>3. /\ \A s \in Sessions \ {ours} : Busy(s)' = Busy(s)
      /\ Busy(ours)' = Busy(ours) \cup {d}
  BY <1>1 DEF Busy, UrlInv, TypeInv, Thread
<1>4. Alone'
  BY <1>1, <1>3 DEF UrlInv, Alone
<1>5. \A e \in Deploys : OwnOf(e)'
  <2> TAKE e \in Deploys
  <2>1. ASSUME e # d PROVE OwnOf(e)'
    BY <1>1, <1>2, <2>1, OwnThinned DEF UrlInv, TypeInv
  <2>2. OwnOf(d)'
    BY <1>1 DEF OwnOf
  <2> QED
    BY <2>1, <2>2
<1>6. UrlLeadsToTheApp'
  BY <1>1, <1>2, <1>3, UrlThinned DEF UrlLeadsToTheApp, UrlInv
<1> QED
  BY <1>4, <1>5, <1>6 DEF UrlInv, OwnApp, OwnTunnel, OwnOf

(* The app starts: under a name that was free, and so only where no other   *)
(* thread's app can be.                                                     *)
LEMMA UrlRunsApp ==
  ASSUME UrlInv, TypeInv', NEW d \in Deploys, RunsApp(d)
  PROVE  UrlInv'
<1>1. dep[d].at = "clear" /\ dep[d].s \in Sessions /\ UNCHANGED <<registry, cf, torn>>
  BY DEF RunsApp, UrlInv, TypeInv
<1>2. PICK ours \in Sessions : dep[d].s = ours
  BY <1>1
<1>3. ours \notin torn => app[ours] = NoContainer
  BY <1>1, <1>2 DEF UrlInv, OwnApp
<1>4. CASE There(app[ours])
  <2>1. Ends(d) /\ app' = app
    BY <1>2, <1>4 DEF RunsApp
  <2>2. ours \in torn'
    BY <1>1, <1>3, <1>4 DEF There
  <2>3. \A s \in Sessions : Thins(s)
    BY <1>1, <2>1 DEF Thins
  <2> QED
    BY <1>1, <1>2, <2>1, <2>2, <2>3, UrlEnds
<1>5. CASE ~There(app[ours])
  <2>1. /\ app' = [app EXCEPT ![ours] = [NoContainer EXCEPT !.by = d, !.at = now]]
        /\ dep' = [dep EXCEPT ![d].at = "app", ![d].born = now]
    BY <1>2, <1>5 DEF RunsApp
  <2>2. /\ \A e \in Deploys \ {d} : dep'[e] = dep[e]
        /\ dep'[d].at = "app" /\ dep'[d].s = ours
        /\ app'[ours].by = d /\ \A s \in Sessions \ {ours} : app'[s] = app[s]
    BY <1>2, <2>1 DEF UrlInv, TypeInv, Thread, NoContainer
  <2>3. Alone' /\ \A s \in Sessions : Busy(s)' = Busy(s)
    BY <1>1, <1>2, <2>2, StaysAlone
  <2>4. \A e \in Deploys : OwnOf(e)'
    <3> TAKE e \in Deploys
    <3>1. CASE e = d
      BY <2>2, <3>1 DEF OwnOf
    <3>2. CASE e # d /\ dep[e].s = ours
      <4>1. ~Held(e)'
        BY <2>2, <3>2 DEF Held
      <4>2. dep[e].at # "idle" => ours \in torn
        BY <1>1, <1>2, <3>2 DEF UrlInv, Alone, Busy
      <4> QED
        BY <1>1, <2>2, <3>2, <4>1, <4>2 DEF OwnOf
    <3>3. CASE e # d /\ dep[e].s # ours
      <4>1. dep[e].at # "idle" => Thins(dep[e].s)
        BY <1>1, <2>2, <3>3 DEF Thins, UrlInv, TypeInv
      <4> QED
        BY <1>1, <2>2, <3>3, <4>1, OwnThinned
    <3> QED
      BY <3>1, <3>2, <3>3
  <2>5. UrlLeadsToTheApp'
    <3> SUFFICES ASSUME NEW s \in Sessions, (Status(s) = "running" /\ s \notin torn /\ Busy(s) = {})'
                 PROVE  registry'[s].url = cf'[s].url /\ cf'[s].net = app'[s].by
      BY DEF UrlLeadsToTheApp
    <3>1. s # ours
      BY <2>2 DEF Busy
    <3>2. Thins(s)
      BY <1>1, <2>2, <3>1 DEF Thins
    <3> QED
      BY <1>1, <2>3, <3>2, UrlThinned DEF UrlInv
  <2> QED
    BY <2>3, <2>4, <2>5 DEF UrlInv, OwnApp, OwnTunnel, OwnOf
<1> QED
  BY <1>4, <1>5

(* The tunnel starts beside the app its thread holds, which no other does.  *)
LEMMA UrlRunsTunnel ==
  ASSUME UrlInv, TypeInv', NEW d \in Deploys, RunsTunnel(d)
  PROVE  UrlInv'
<1>1. /\ dep[d].at = "tunnel" /\ dep[d].s \in Sessions /\ Held(d)
      /\ UNCHANGED <<registry, app, torn>>
      /\ \A e \in Deploys \ {d} : dep'[e] = dep[e]
      /\ dep'[d].at = "listening" /\ dep'[d].s = dep[d].s
      /\ cf'[dep[d].s].net = d /\ \A s \in Sessions \ {dep[d].s} : cf'[s] = cf[s]
  BY DEF RunsTunnel, Goes, UrlInv, TypeInv, Thread
<1>2. PICK ours \in Sessions : dep[d].s = ours
  BY <1>1
<1>3. Alone' /\ \A s \in Sessions : Busy(s)' = Busy(s)
  BY <1>1, StaysAlone
<1>4. \A e \in Deploys : OwnOf(e)'
  <2> TAKE e \in Deploys
  <2>1. CASE e = d
    BY <1>1, <2>1 DEF OwnOf
  <2>2. CASE e # d /\ dep[e].s = ours
    <3>1. ~Held(e)'
      BY <1>1, <1>2, <2>2 DEF Held
    <3>2. OwnOf(e)
      BY DEF UrlInv, OwnApp, OwnTunnel, OwnOf
    <3> QED
      BY <1>1, <2>2, <3>1, <3>2 DEF OwnOf
  <2>3. CASE e # d /\ dep[e].s # ours
    <3>1. dep[e].at # "idle" => Thins(dep[e].s)
      BY <1>1, <1>2, <2>3 DEF Thins, UrlInv, TypeInv
    <3> QED
      BY <1>1, <2>3, <3>1, OwnThinned
  <2> QED
    BY <2>1, <2>2, <2>3
<1>5. UrlLeadsToTheApp'
  <2> SUFFICES ASSUME NEW s \in Sessions, (Status(s) = "running" /\ s \notin torn /\ Busy(s) = {})'
               PROVE  registry'[s].url = cf'[s].url /\ cf'[s].net = app'[s].by
    BY DEF UrlLeadsToTheApp
  <2>1. s # ours
    BY <1>1, <1>2 DEF Busy
  <2>2. Thins(s)
    BY <1>1, <1>2, <2>1 DEF Thins
  <2> QED
    BY <1>1, <1>3, <2>2, UrlThinned DEF UrlInv
<1> QED
  BY <1>3, <1>4, <1>5 DEF UrlInv, OwnApp, OwnTunnel, OwnOf

(* A deploy is registered: the session is right again if its thread was     *)
(* alone, holds its app and heard the tunnel that runs.                     *)
LEMMA UrlRegisters ==
  ASSUME UrlInv, TypeInv', NEW d \in Deploys, Registers(d)
  PROVE  UrlInv'
<1>1. PICK ours \in Sessions : dep[d].s = ours
  BY DEF Registers, UrlInv, TypeInv
<1>2. /\ dep[d].at = "heard" /\ Ends(d) /\ UNCHANGED <<app, cf>>
      /\ registry'[ours].url = dep[d].url
      /\ \A s \in Sessions \ {ours} : registry'[s] = registry[s] /\ (s \in torn' <=> s \in torn)
      /\ ours \notin torn' => Busy(ours) = {d} /\ Held(d) /\ cf[ours].url = dep[d].url
  BY <1>1 DEF Registers, UrlInv, TypeInv
<1>3. /\ \A e \in Deploys \ {d} : dep'[e] = dep[e]
      /\ dep'[d].at = "idle"
  BY <1>2 DEF Ends, UrlInv, TypeInv, Idle
<1>4. /\ \A s \in Sessions \ {ours} : Busy(s)' = Busy(s)
      /\ Busy(ours)' \subseteq Busy(ours) \ {d}
  BY <1>1, <1>3 DEF Busy
<1>5. Alone'
  BY <1>2, <1>4 DEF UrlInv, Alone
<1>6. \A e \in Deploys : OwnOf(e)'
  <2> TAKE e \in Deploys
  <2>1. CASE e = d
    BY <1>3, <2>1 DEF OwnOf
  <2>2. CASE e # d
    <3>1. OwnOf(e)
      BY DEF UrlInv, OwnApp, OwnTunnel, OwnOf
    <3>2. dep[e].at # "idle" => dep[e].s \in torn' \/ dep[e].s \notin torn
      <4>1. CASE dep[e].s = ours
        BY <1>2, <2>2, <4>1 DEF Busy
      <4>2. CASE dep[e].s # ours
        BY <1>2, <4>2 DEF UrlInv, TypeInv
      <4> QED
        BY <4>1, <4>2
    <3> QED
      BY <1>2, <1>3, <2>2, <3>1, <3>2 DEF OwnOf, Held, There
  <2> QED
    BY <2>1, <2>2
<1>7. UrlLeadsToTheApp'
  <2> SUFFICES ASSUME NEW s \in Sessions, (Status(s) = "running" /\ s \notin torn /\ Busy(s) = {})'
               PROVE  registry'[s].url = cf'[s].url /\ cf'[s].net = app'[s].by
    BY DEF UrlLeadsToTheApp
  <2>1. CASE s = ours
    <3>1. There(cf[ours])
      BY <1>2, <2>1 DEF Status
    <3>2. Held(d) /\ cf[ours].url = dep[d].url
      BY <1>2, <2>1
    <3>3. cf[ours].net = d /\ app[ours].by = d
      BY <1>1, <1>2, <3>1, <3>2 DEF UrlInv, OwnTunnel, Held
    <3> QED
      BY <1>2, <2>1, <3>2, <3>3
  <2>2. CASE s # ours
    <3>1. Status(s) = "running" /\ s \notin torn /\ Busy(s) = {}
      BY <1>2, <1>4, <2>2 DEF Status, Registered, There
    <3> QED
      BY <1>2, <2>2, <3>1 DEF UrlInv, UrlLeadsToTheApp
  <2> QED
    BY <2>1, <2>2
<1> QED
  BY <1>5, <1>6, <1>7 DEF UrlInv, OwnApp, OwnTunnel, OwnOf

(* Every step of a thread.                                                  *)
LEMMA UrlThreadStep ==
  ASSUME UrlInv, TypeInv', NEW d \in Deploys, DeployStep(d)
  PROVE  UrlInv'
<1>1. TypeInv
  BY DEF UrlInv
<1>2. ASSUME NEW place \in Places \ {"idle"}, Goes(d, place), dep[d].at # "idle"
      PROVE  /\ \A e \in Deploys \ {d} : dep'[e] = dep[e]
             /\ dep'[d].at = place /\ dep'[d].s = dep[d].s /\ dep[d].s \in Sessions
  BY <1>1, <1>2 DEF Goes, TypeInv, Thread
<1>3. CASE MakesRoom(d)
  <2>1. \A s \in Sessions : Thins(s)
    BY <1>1, <1>3, ThinsKilled DEF MakesRoom, Thins
  <2>2. /\ \A e \in Deploys \ {d} : dep'[e] = dep[e]
        /\ dep[d].at # "idle" /\ dep'[d].at = "room" /\ dep'[d].s = dep[d].s /\ torn \subseteq torn'
    BY <1>2, <1>3 DEF MakesRoom, Places
  <2>3. OwnOf(d)'
    BY <2>2 DEF OwnOf
  <2> QED
    BY <2>1, <2>2, <2>3, UrlGoes
<1>4. CASE ClearsNames(d)
  <2>1. \A s \in Sessions : Thins(s)
    BY <1>1, <1>4, ThinsKilled DEF ClearsNames
  <2>2. /\ \A e \in Deploys \ {d} : dep'[e] = dep[e]
        /\ dep[d].at # "idle" /\ dep'[d].at = "clear" /\ dep'[d].s = dep[d].s /\ dep[d].s \in Sessions
        /\ torn \subseteq torn'
    BY <1>2, <1>4 DEF ClearsNames, Places
  <2>3. OwnOf(d)'
    BY <1>4, <2>2 DEF OwnOf, ClearsNames, Killed
  <2> QED
    BY <2>1, <2>2, <2>3, UrlGoes
<1>5. CASE AppExits(d)
  <2>1. PICK ours \in Sessions : dep[d].s = ours
    BY <1>1, <1>5 DEF AppExits, TypeInv
  <2>2. /\ dep[d].at = "app" /\ Ends(d) /\ UNCHANGED <<registry, cf, torn>>
        /\ app' = [app EXCEPT ![ours] = IF @.by = d THEN NoContainer ELSE @]
    BY <1>5, <2>1 DEF AppExits
  <2>3. \A s \in Sessions : Thins(s)
    BY <1>1, <2>2 DEF Thins, TypeInv
  <2>4. ours \notin torn => app'[ours] = NoContainer
    BY <1>1, <2>1, <2>2 DEF UrlInv, OwnApp, TypeInv
  <2>5. ours \in torn' \/ Status(ours)' # "running"
    BY <2>2, <2>4 DEF Status, There
  <2> QED
    BY <2>1, <2>2, <2>3, <2>5, UrlEnds
<1>6. CASE ClearsTunnel(d)
  <2>1. \A s \in Sessions : Thins(s)
    BY <1>1, <1>6 DEF ClearsTunnel, Thins, TypeInv
  <2>2. /\ \A e \in Deploys \ {d} : dep'[e] = dep[e]
        /\ dep[d].at # "idle" /\ dep'[d].at = "tunnel" /\ dep'[d].s = dep[d].s /\ torn \subseteq torn'
    BY <1>2, <1>6 DEF ClearsTunnel, Places
  <2>3. OwnOf(d)'
    BY <2>2 DEF OwnOf
  <2> QED
    BY <2>1, <2>2, <2>3, UrlGoes
<1>7. CASE TunnelFails(d)
  <2>1. PICK ours \in Sessions : dep[d].s = ours
    BY <1>1, <1>7 DEF TunnelFails, TypeInv
  <2>2. CASE dep[d].tries < 2
    <3>1. /\ \A e \in Deploys \ {d} : dep'[e] = dep[e]
          /\ dep[d].at # "idle" /\ dep'[d].at = "again" /\ dep'[d].s = dep[d].s
          /\ UNCHANGED <<registry, app, cf, torn>>
      BY <1>1, <1>7, <2>2 DEF TunnelFails, TypeInv, Thread
    <3>2. OwnOf(d)' /\ \A s \in Sessions : Thins(s)
      BY <3>1 DEF OwnOf, Thins
    <3> QED
      BY <3>1, <3>2, UrlGoes
  <2>3. CASE dep[d].tries = 2
    <3>1. dep[d].at # "idle" /\ Ends(d) /\ Killed({ours}) /\ UNCHANGED <<registry, torn>>
      BY <1>7, <2>1, <2>3 DEF TunnelFails
    <3>2. Status(ours)' # "running"
      BY <3>1 DEF Killed, Status, There
    <3>3. \A s \in Sessions : Thins(s)
      BY <1>1, <3>1, ThinsKilled
    <3> QED
      BY <2>1, <3>1, <3>2, <3>3, UrlEnds
  <2> QED
    BY <1>7, <2>2, <2>3 DEF TunnelFails
<1>8. CASE HearsUrl(d)
  <2>1. /\ \A e \in Deploys \ {d} : dep'[e] = dep[e]
        /\ dep[d].at = "listening" /\ dep'[d].at = "heard" /\ dep'[d].s = dep[d].s /\ dep'[d].born = dep[d].born
        /\ UNCHANGED <<registry, app, cf, torn>>
    BY <1>1, <1>8 DEF HearsUrl, TypeInv, Thread
  <2>2. OwnOf(d)' /\ \A s \in Sessions : Thins(s)
    BY <2>1 DEF OwnOf, Thins, UrlInv, OwnTunnel, Held, There
  <2> QED
    BY <2>1, <2>2, UrlGoes
<1>9. CASE HearsNothing(d)
  <2>1. PICK ours \in Sessions : dep[d].s = ours
    BY <1>1, <1>9 DEF HearsNothing, TypeInv
  <2>2. /\ dep[d].at = "listening" /\ Ends(d) /\ UNCHANGED <<registry, app, cf>>
        /\ torn \subseteq torn' /\ (registry[ours] # NoEntry => ours \in torn')
    BY <1>9, <2>1 DEF HearsNothing
  <2>3. ours \in torn' \/ Status(ours)' # "running"
    BY <2>2 DEF Status, Registered
  <2>4. \A s \in Sessions : Thins(s)
    BY <2>2 DEF Thins
  <2> QED
    BY <2>1, <2>2, <2>3, <2>4, UrlEnds
<1> QED
  BY <1>3, <1>4, <1>5, <1>6, <1>7, <1>8, <1>9, UrlStarts, UrlRunsApp, UrlRunsTunnel, UrlRegisters DEF DeployStep

LEMMA UrlStep == UrlInv /\ [DeployNext]_deployVars => UrlInv'
<1> SUFFICES ASSUME UrlInv, [DeployNext]_deployVars PROVE UrlInv'
  OBVIOUS
<1>1. TypeInv /\ TypeInv'
  BY TypeStep DEF UrlInv
<1>2. ASSUME NEW s \in Sessions, Stops(s) \/ SeesItOver(s) PROVE UrlInv'
  <2>1. \A t \in Sessions : Thins(t)
    BY <1>1, <1>2, ThinsKilled DEF Stops, SeesItOver
  <2>2. dep' = dep /\ torn \subseteq torn'
    BY <1>2 DEF Stops, SeesItOver
  <2> QED
    BY <1>1, <2>1, <2>2, UrlAround
<1>3. ASSUME NEW s \in Sessions, TunnelReturns(s) PROVE UrlInv'
  <2>1. /\ dep' = dep /\ app' = app /\ registry' = registry /\ torn \subseteq torn' /\ s \in torn'
        /\ There(cf[s]) /\ cf'[s].net = cf[s].net /\ \A t \in Sessions \ {s} : cf'[t] = cf[t]
    BY <1>1, <1>3 DEF TunnelReturns, TypeInv, Container
  <2>2. \A e \in Deploys : OwnOf(e)'
    <3> TAKE e \in Deploys
    <3>1. OwnOf(e)
      BY DEF UrlInv, OwnApp, OwnTunnel, OwnOf
    <3> QED
      BY <1>1, <2>1, <3>1 DEF OwnOf, Held, There, TypeInv
  <2>3. \A t \in Sessions \ {s} : Thins(t)
    BY <2>1 DEF Thins
  <2> QED
    BY <1>1, <2>1, <2>2, <2>3, UrlAround
<1>4. CASE CleansUp
  <2>1. \A t \in Sessions : Thins(t)
    BY <1>1, <1>4, ThinsEvicted DEF CleansUp
  <2> QED
    BY <1>1, <1>4, <2>1, UrlAround DEF CleansUp
<1>5. CASE Restarts
  <2>1. (\A d \in Deploys : dep'[d].at = "idle") /\ \A s \in Sessions : registry'[s] = NoEntry
    BY <1>5 DEF Restarts, Unregistered, Idle
  <2> QED
    BY <1>1, <2>1 DEF UrlInv, Alone, OwnApp, OwnTunnel, UrlLeadsToTheApp, Busy, Status, Registered
<1>6. CASE Ticks \/ UNCHANGED deployVars
  <2>1. dep' = dep /\ torn' = torn /\ \A t \in Sessions : Thins(t)
    BY <1>6 DEF Ticks, deployVars, Thins
  <2> QED
    BY <1>1, <2>1, UrlAround
<1> QED
  BY <1>1, <1>2, <1>3, <1>4, <1>5, <1>6, UrlThreadStep DEF DeployNext

-----------------------------------------------------------------------------
(* The limit on deployments.                                                *)

(* Fewer are registered, nobody starts: what there was room for still fits. *)
LEMMA LimitFewer ==
  ASSUME LimitInv, TypeInv', Registered' \subseteq Registered, crowd' = crowd,
         \A d \in Deploys : \/ dep'[d].at = "idle"
                            \/ dep'[d].s = dep[d].s /\ (dep[d].at \notin {"idle", "evicted"})
                            \/ dep'[d].s = dep[d].s /\ dep'[d].at = dep[d].at
  PROVE  LimitInv'
<1>1. \A S, T : IsFiniteSet(T) /\ S \subseteq T =>
          IsFiniteSet(S) /\ Cardinality(S) \in Nat /\ Cardinality(T) \in Nat /\ Cardinality(S) <= Cardinality(T)
  BY FS_Subset, FS_CardinalityType
<1>2. IsFiniteSet(Registered') /\ (DeploymentsKeepLimit)'
  BY <1>1, ContainerBounds DEF LimitInv, DeploymentsKeepLimit
<1>3. OneDeploy'
  BY DEF LimitInv, OneDeploy
<1>4. RoomLeft'
  <2> SUFFICES ASSUME ~crowd', NEW d \in Deploys, dep'[d].at \notin {"idle", "evicted"}
               PROVE  Cardinality(Registered' \ {dep'[d].s}) < MaxDeployments
    BY DEF RoomLeft
  <2>1. dep'[d].s = dep[d].s /\ dep[d].at \notin {"idle", "evicted"}
    OBVIOUS
  <2>2. Cardinality(Registered \ {dep[d].s}) < MaxDeployments
    BY <2>1 DEF LimitInv, RoomLeft
  <2>3. /\ Registered' \ {dep'[d].s} \subseteq Registered \ {dep[d].s}
        /\ Registered \ {dep[d].s} \subseteq Registered
    BY <2>1
  <2>4. IsFiniteSet(Registered \ {dep[d].s})
    BY <1>1, <2>3 DEF LimitInv
  <2> QED
    BY <1>1, <2>2, <2>3, <2>4, ContainerBounds
<1> QED
  BY <1>2, <1>3, <1>4 DEF LimitInv

LEMMA Fewer ==
  ASSUME TypeInv, \A s \in Sessions : Thins(s) PROVE Registered' \subseteq Registered
BY DEF Thins, Registered

(* Where a thread goes on or ends.                                          *)
LEMMA ThreadMoves ==
  ASSUME TypeInv, NEW d \in Deploys,
         Ends(d) \/ (dep[d].at \notin {"idle", "evicted"} /\ \E place \in Places : Goes(d, place))
  PROVE  \A e \in Deploys : \/ dep'[e].at = "idle"
                            \/ dep'[e].s = dep[e].s /\ (dep[e].at \notin {"idle", "evicted"})
                            \/ dep'[e].s = dep[e].s /\ dep'[e].at = dep[e].at
BY DEF TypeInv, Thread, Ends, Goes, Idle

(* Room is made: one goes if the limit is reached.                          *)
LEMMA LimitMakesRoom ==
  ASSUME LimitInv, TypeInv', NEW d \in Deploys, MakesRoom(d)
  PROVE  LimitInv'
<1>1. TypeInv /\ IsFiniteSet(Registered) /\ OneDeploy /\ DeploymentsKeepLimit /\ RoomLeft
  BY DEF LimitInv
<1>2. Cardinality(Registered) \in Nat /\ \A s : Cardinality(Registered \ {s}) \in Nat
  <2>1. \A s : IsFiniteSet(Registered \ {s})
    BY <1>1, FS_Subset
  <2> QED
    BY <1>1, <2>1, FS_CardinalityType
<1>3. \A s \in Registered : Cardinality(Registered \ {s}) = Cardinality(Registered) - 1
  BY <1>1, FS_RemoveElement
<1>4. \A s \in Sessions : Thins(s)
  BY <1>1, ThinsKilled DEF MakesRoom, Thins
<1>5. Registered' \subseteq Registered /\ IsFiniteSet(Registered')
  BY <1>1, <1>4, Fewer, FS_Subset
<1>6. /\ \A e \in Deploys \ {d} : dep'[e] = dep[e]
      /\ dep[d].at = "evicted" /\ dep'[d].at = "room" /\ dep'[d].s = dep[d].s /\ crowd' = crowd
  BY <1>1 DEF MakesRoom, Goes, TypeInv, Thread
<1>7. OneDeploy'
  BY <1>1, <1>6 DEF OneDeploy
<1>8. DeploymentsKeepLimit'
  <2>1. Cardinality(Registered') <= Cardinality(Registered) /\ Cardinality(Registered') \in Nat
    BY <1>1, <1>5, FS_Subset, FS_CardinalityType
  <2> QED
    BY <1>1, <1>2, <1>6, <2>1, ContainerBounds DEF DeploymentsKeepLimit
<1>9. ~crowd => Cardinality(Registered' \ {dep[d].s}) < MaxDeployments
  <2> SUFFICES ASSUME ~crowd PROVE Cardinality(Registered' \ {dep[d].s}) < MaxDeployments
    OBVIOUS
  <2>1. Cardinality(Registered) <= MaxDeployments
    BY <1>1, <1>2, ContainerBounds DEF DeploymentsKeepLimit
  <2>2. \A S, T : IsFiniteSet(T) /\ S \subseteq T =>
            Cardinality(S) \in Nat /\ Cardinality(T) \in Nat /\ Cardinality(S) <= Cardinality(T)
    BY FS_Subset, FS_CardinalityType
  <2>3. CASE \E oldest \in Registered : Unregistered({oldest})
    <3>1. PICK oldest \in Registered : Unregistered({oldest})
      BY <2>3
    <3>2. Registered' \subseteq Registered \ {oldest}
      BY <1>1, <3>1 DEF Unregistered, Registered
    <3>3. Cardinality(Registered \ {oldest}) < MaxDeployments /\ IsFiniteSet(Registered \ {oldest})
      BY <1>1, <1>2, <1>3, <2>1, FS_Subset, ContainerBounds
    <3>4. Registered' \ {dep[d].s} \subseteq Registered \ {oldest}
      BY <3>2
    <3> QED
      BY <1>2, <2>2, <3>3, <3>4, ContainerBounds
  <2>4. CASE dep[d].s \in Registered /\ registry' = registry
    BY <1>2, <1>3, <2>1, <2>4, ContainerBounds DEF Registered
  <2>5. CASE ~Full /\ registry' = registry
    <3>1. Registered' \ {dep[d].s} \subseteq Registered /\ Cardinality(Registered) < MaxDeployments
      BY <1>2, <2>5, ContainerBounds DEF Full, Registered
    <3> QED
      BY <1>1, <2>2, <3>1, ContainerBounds
  <2> QED
    BY <2>3, <2>4, <2>5 DEF MakesRoom
<1>10. RoomLeft'
  <2> SUFFICES ASSUME ~crowd', NEW e \in Deploys, dep'[e].at \notin {"idle", "evicted"}
               PROVE  Cardinality(Registered' \ {dep'[e].s}) < MaxDeployments
    BY DEF RoomLeft
  <2>1. e = d
    BY <1>6, <1>7 DEF OneDeploy
  <2> QED
    BY <1>6, <1>9, <2>1
<1> QED
  BY <1>5, <1>7, <1>8, <1>10 DEF LimitInv

(* The registration takes the room that was made.                           *)
LEMMA LimitRegisters ==
  ASSUME LimitInv, TypeInv', NEW d \in Deploys, Registers(d)
  PROVE  LimitInv'
<1>1. PICK ours \in Sessions : dep[d].s = ours
  BY DEF Registers, LimitInv, TypeInv
<1>2. /\ dep[d].at = "heard" /\ dep'[d].at = "idle" /\ crowd' = crowd
      /\ \A e \in Deploys \ {d} : dep'[e] = dep[e]
      /\ Registered' \subseteq Registered \cup {ours}
  BY <1>1 DEF Registers, Ends, Idle, LimitInv, TypeInv, Registered
<1>3. IsFiniteSet(Registered) /\ IsFiniteSet(Registered \ {ours})
  BY FS_Subset DEF LimitInv
<1>4. LET R == Registered \ {ours} IN
          IsFiniteSet(R \cup {ours}) /\ Cardinality(R \cup {ours}) = Cardinality(R) + 1 /\ Cardinality(R) \in Nat
  BY <1>3, FS_AddElement, FS_CardinalityType
<1>5. Registered' \subseteq (Registered \ {ours}) \cup {ours}
  BY <1>2
<1>6. IsFiniteSet(Registered') /\ Cardinality(Registered') <= Cardinality(Registered \ {ours}) + 1
      /\ Cardinality(Registered') \in Nat
  BY <1>4, <1>5, FS_Subset, FS_CardinalityType
<1>7. DeploymentsKeepLimit'
  <2>1. ~crowd => Cardinality(Registered \ {ours}) < MaxDeployments
    BY <1>1, <1>2 DEF LimitInv, RoomLeft
  <2> QED
    BY <1>2, <1>4, <1>6, <2>1, ContainerBounds DEF DeploymentsKeepLimit
<1>8. OneDeploy'
  BY <1>2 DEF LimitInv, OneDeploy
<1>9. RoomLeft'
  BY <1>2 DEF LimitInv, OneDeploy, RoomLeft
<1> QED
  BY <1>6, <1>7, <1>8, <1>9 DEF LimitInv

LEMMA LimitThreadStep ==
  ASSUME LimitInv, TypeInv', NEW d \in Deploys, DeployStep(d)
  PROVE  LimitInv'
<1>1. TypeInv
  BY DEF LimitInv
<1>2. ASSUME NEW s \in Sessions, Starts(d, s) PROVE LimitInv'
  <2>1. /\ \A e \in Deploys \ {d} : dep'[e] = dep[e]
        /\ dep[d].at = "idle" /\ dep'[d].at = "evicted"
        /\ crowd' = (crowd \/ \E e \in Deploys : dep[e].at # "idle")
    BY <1>1, <1>2 DEF Starts, TypeInv, Thread
  <2>2. Registered' \subseteq Registered
    BY <1>1, <1>2, ThinsEvicted, Fewer DEF Starts
  <2>3. /\ IsFiniteSet(Registered') /\ Cardinality(Registered') \in Nat
        /\ Cardinality(Registered) \in Nat /\ Cardinality(Registered') <= Cardinality(Registered)
    BY <2>2, FS_Subset, FS_CardinalityType DEF LimitInv
  <2>4. DeploymentsKeepLimit'
    <3>1. crowd => crowd'
      BY <2>1
    <3>2. Cardinality(Registered') > MaxDeployments => Cardinality(Registered) > MaxDeployments
      BY <2>3, ContainerBounds
    <3> QED
      BY <3>1, <3>2, Zenon DEF LimitInv, DeploymentsKeepLimit
  <2>5. OneDeploy' /\ RoomLeft'
    BY <2>1 DEF OneDeploy, RoomLeft
  <2> QED
    BY <2>3, <2>4, <2>5 DEF LimitInv
<1>3. ASSUME ClearsNames(d) \/ AppExits(d) \/ ClearsTunnel(d) \/ RunsTunnel(d) \/ HearsNothing(d)
      PROVE  LimitInv'
  <2>1. Ends(d) \/ (dep[d].at \notin {"idle", "evicted"} /\ \E place \in Places : Goes(d, place))
    BY <1>3 DEF ClearsNames, AppExits, ClearsTunnel, RunsTunnel, HearsNothing, Places
  <2>2. Registered' = Registered /\ crowd' = crowd
    BY <1>3 DEF ClearsNames, AppExits, ClearsTunnel, RunsTunnel, HearsNothing, Registered
  <2> QED
    BY <1>1, <2>1, <2>2, ThreadMoves, LimitFewer
<1>4. ASSUME RunsApp(d) \/ TunnelFails(d) \/ HearsUrl(d) PROVE LimitInv'
  <2>1. \A e \in Deploys : \/ dep'[e].at = "idle"
                           \/ dep'[e].s = dep[e].s /\ (dep[e].at \notin {"idle", "evicted"})
                           \/ dep'[e].s = dep[e].s /\ dep'[e].at = dep[e].at
    <3>1. CASE Ends(d)
      BY <1>1, <3>1, ThreadMoves
    <3>2. CASE ~Ends(d)
      BY <1>1, <1>4, <3>2 DEF RunsApp, TunnelFails, HearsUrl, TypeInv, Thread
    <3> QED
      BY <3>1, <3>2
  <2>2. Registered' = Registered /\ crowd' = crowd
    BY <1>4 DEF RunsApp, TunnelFails, HearsUrl, Registered
  <2> QED
    BY <2>1, <2>2, LimitFewer
<1> QED
  BY <1>2, <1>3, <1>4, LimitMakesRoom, LimitRegisters DEF DeployStep

LEMMA LimitStep == LimitInv /\ [DeployNext]_deployVars => LimitInv'
<1> SUFFICES ASSUME LimitInv, [DeployNext]_deployVars PROVE LimitInv'
  OBVIOUS
<1>1. TypeInv /\ TypeInv'
  BY TypeStep DEF LimitInv
<1>2. ASSUME dep' = dep, crowd' = crowd, Registered' \subseteq Registered PROVE LimitInv'
  BY <1>1, <1>2, LimitFewer
<1>3. ASSUME NEW s \in Sessions, Stops(s) \/ SeesItOver(s) PROVE LimitInv'
  <2>1. \A t \in Sessions : Thins(t)
    BY <1>1, <1>3, ThinsKilled DEF Stops, SeesItOver
  <2> QED
    BY <1>1, <1>2, <1>3, <2>1, Fewer DEF Stops, SeesItOver
<1>4. CASE CleansUp
  BY <1>1, <1>2, <1>4, ThinsEvicted, Fewer DEF CleansUp
<1>5. CASE Restarts
  <2>1. (\A d \in Deploys : dep'[d].at = "idle") /\ \A s \in Sessions : registry'[s] = NoEntry
    BY <1>5 DEF Restarts, Unregistered, Idle
  <2>2. Registered' = {}
    BY <2>1 DEF Registered
  <2>3. IsFiniteSet(Registered') /\ Cardinality(Registered') = 0
    BY <2>2, FS_EmptySet
  <2> QED
    BY <1>1, <2>1, <2>3, ContainerBounds DEF LimitInv, OneDeploy, RoomLeft, DeploymentsKeepLimit
<1>6. ASSUME Ticks \/ UNCHANGED deployVars \/ \E s \in Sessions : TunnelReturns(s) PROVE LimitInv'
  BY <1>2, <1>6 DEF Ticks, deployVars, TunnelReturns, Registered
<1> QED
  BY <1>1, <1>3, <1>4, <1>5, <1>6, LimitThreadStep DEF DeployNext

-----------------------------------------------------------------------------
(* Commands: one at most is between the look at Docker and the start unless *)
(* two have met there, and then it has seen room.                           *)
Command == [at : {"idle", "asked", "checked", "refused", "running", "done", "killed", "reaped"},
            s : Sessions \cup {None}, awaited : BOOLEAN, wanted : BOOLEAN]
Seen == {c \in Commands : cmd[c].at = "checked"}
CommandInv ==
    /\ cmd \in [Commands -> Command]
    /\ IsFiniteSet(RunningNow)
    /\ ~crowded => /\ \A b, c \in Seen : b = c
                   /\ Seen # {} => Cardinality(RunningNow) < MaxSandboxes
    /\ CommandsKeepLimit

LEMMA CommandInitOK == CommandInit => CommandInv
<1> SUFFICES ASSUME CommandInit PROVE CommandInv
  OBVIOUS
<1>1. cmd \in [Commands -> Command] /\ \A c \in Commands : cmd[c].at = "idle"
  BY DEF CommandInit, Command
<1>2. RunningNow = {} /\ Seen = {}
  BY <1>1 DEF RunningNow, Seen
<1>3. IsFiniteSet(RunningNow) /\ Cardinality(RunningNow) = 0
  BY <1>2, FS_EmptySet
<1> QED
  BY <1>1, <1>2, <1>3, ContainerBounds DEF CommandInv, CommandsKeepLimit

(* Fewer run, none that has not looked goes on, and whoever is killed was   *)
(* of a session whose turn was cancelled.                                   *)
LEMMA CommandFewer ==
  ASSUME CommandInv, cmd' \in [Commands -> Command], crowded' = crowded,
         RunningNow' \subseteq RunningNow, Seen' \subseteq Seen, turnedOff \subseteq turnedOff',
         \A c \in Commands : cmd'[c].at = "killed" =>
             cmd'[c].s \in turnedOff' \/ (cmd[c].at = "killed" /\ cmd'[c].s = cmd[c].s)
  PROVE  CommandInv'
<1>1. /\ IsFiniteSet(RunningNow') /\ Cardinality(RunningNow') \in Nat
      /\ Cardinality(RunningNow) \in Nat /\ Cardinality(RunningNow') <= Cardinality(RunningNow)
  BY FS_Subset, FS_CardinalityType DEF CommandInv
<1> QED
  BY <1>1, ContainerBounds DEF CommandInv, CommandsKeepLimit

LEMMA CommandStep == CommandInv /\ [CommandNext]_commandVars => CommandInv'
<1> SUFFICES ASSUME CommandInv, [CommandNext]_commandVars PROVE CommandInv'
  OBVIOUS
<1>1. cmd \in [Commands -> Command] /\ IsFiniteSet(RunningNow) /\ Cardinality(RunningNow) \in Nat
  BY FS_CardinalityType DEF CommandInv
<1>2. ASSUME NEW c \in Commands, NEW s \in Sessions, NEW awaited \in BOOLEAN, Asks(c, s, awaited)
      PROVE  CommandInv'
  <2>1. cmd' \in [Commands -> Command]
    <3>1. cmd[c] \in Command /\ cmd' = [cmd EXCEPT ![c].at = "asked", ![c].s = s, ![c].awaited = awaited]
      BY <1>1, <1>2 DEF Asks
    <3>2. [cmd[c] EXCEPT !.at = "asked", !.s = s, !.awaited = awaited] \in Command
      BY <1>2, <3>1, Zenon DEF Command
    <3> QED
      BY <1>1, <3>1, <3>2
  <2>2. (\A b \in Commands \ {c} : cmd'[b] = cmd[b]) /\ cmd'[c].at = "asked"
    BY <1>1, <1>2 DEF Asks, Command
  <2>3. RunningNow' \subseteq RunningNow /\ Seen' \subseteq Seen
    BY <2>2 DEF RunningNow, Seen
  <2> QED
    BY <1>2, <2>1, <2>2, <2>3, CommandFewer DEF Asks
<1>3. ASSUME NEW c \in Commands, LooksAtDocker(c) PROVE CommandInv'
  <2>1. cmd' \in [Commands -> Command]
    BY <1>1, <1>3 DEF LooksAtDocker, Turns, Command
  <2>2. /\ \A b \in Commands \ {c} : cmd'[b] = cmd[b]
        /\ cmd[c].at = "asked" /\ cmd'[c].at \in {"checked", "refused"} /\ turnedOff' = turnedOff
    BY <1>1, <1>3 DEF LooksAtDocker, Turns, Command
  <2>3. RunningNow' = RunningNow
    BY <2>2 DEF RunningNow
  <2>4. CASE cmd'[c].at = "refused"
    <3>1. crowded' = crowded /\ Seen' \subseteq Seen
      BY <1>1, <1>3, <2>2, <2>4 DEF LooksAtDocker, Turns, Seen, Command
    <3> QED
      BY <2>1, <2>2, <2>3, <2>4, <3>1, CommandFewer
  <2>5. CASE cmd'[c].at = "checked"
    <3>1. RoomForIt /\ crowded' = (crowded \/ Seen # {})
      BY <1>1, <1>3, <2>2, <2>5 DEF LooksAtDocker, Turns, Seen, Command
    <3>2. Seen' = Seen \cup {c}
      BY <2>2, <2>5 DEF Seen
    <3> QED
      BY <1>1, <2>1, <2>2, <2>3, <2>5, <3>1, <3>2 DEF CommandInv, CommandsKeepLimit, RoomForIt
  <2> QED
    BY <2>2, <2>4, <2>5
<1>4. ASSUME NEW c \in Commands, RunsIt(c) PROVE CommandInv'
  <2>1. cmd' \in [Commands -> Command]
    BY <1>1, <1>4 DEF RunsIt, Turns, Command
  <2>2. /\ \A b \in Commands \ {c} : cmd'[b] = cmd[b]
        /\ cmd[c].at = "checked" /\ cmd'[c].at = "running" /\ UNCHANGED <<turnedOff, crowded>>
    BY <1>1, <1>4 DEF RunsIt, Turns, Command
  <2>3. RunningNow' = RunningNow \cup {c} /\ Seen' = Seen \ {c} /\ c \in Seen
    BY <2>2 DEF RunningNow, Seen
  <2>4. IsFiniteSet(RunningNow') /\ Cardinality(RunningNow') \in Nat
        /\ Cardinality(RunningNow') <= Cardinality(RunningNow) + 1
    <3>1. /\ IsFiniteSet(RunningNow \cup {c})
          /\ Cardinality(RunningNow \cup {c}) =
                 IF c \in RunningNow THEN Cardinality(RunningNow) ELSE Cardinality(RunningNow) + 1
      BY <1>1, FS_AddElement
    <3> QED
      BY <1>1, <2>3, <3>1
  <2>5. ~crowded => Seen' = {} /\ Cardinality(RunningNow') <= MaxSandboxes
    BY <1>1, <2>3, <2>4, ContainerBounds DEF CommandInv
  <2> QED
    BY <1>1, <2>1, <2>2, <2>4, <2>5, ContainerBounds DEF CommandInv, CommandsKeepLimit
<1>5. ASSUME NEW c \in Commands, Finishes(c) \/ Reaps(c) PROVE CommandInv'
  <2>1. cmd' \in [Commands -> Command]
    BY <1>1, <1>5 DEF Finishes, Reaps, Turns, Command
  <2>2. /\ \A b \in Commands \ {c} : cmd'[b] = cmd[b]
        /\ cmd'[c].at \in {"done", "reaped"} /\ UNCHANGED <<turnedOff, crowded>>
    BY <1>1, <1>5 DEF Finishes, Reaps, Turns, Command
  <2>3. RunningNow' \subseteq RunningNow /\ Seen' \subseteq Seen
    BY <2>2 DEF RunningNow, Seen
  <2> QED
    BY <2>1, <2>2, <2>3, CommandFewer
<1>6. ASSUME NEW c \in Commands, Cancels(c) PROVE CommandInv'
  <2>1. \A b \in Commands : /\ cmd'[b].s = cmd[b].s
                            /\ \/ cmd'[b].at = cmd[b].at
                               \/ cmd'[b].at = "killed" /\ cmd[b].s = cmd[c].s
    BY Zenon, <1>1, <1>6 DEF Cancels, Command
  <2>2. cmd' \in [Commands -> Command]
    BY Zenon, <1>1, <1>6 DEF Cancels, Command
  <2>3. RunningNow' \subseteq RunningNow /\ Seen' \subseteq Seen
    BY <2>1 DEF RunningNow, Seen
  <2>4. turnedOff' = turnedOff \cup {cmd[c].s} /\ crowded' = crowded
    BY Zenon, <1>6 DEF Cancels
  <2> QED
    BY <2>1, <2>2, <2>3, <2>4, CommandFewer
<1>7. CASE UNCHANGED commandVars
  BY <1>1, <1>7, CommandFewer DEF commandVars, RunningNow, Seen
<1> QED
  BY <1>2, <1>3, <1>4, <1>5, <1>6, <1>7 DEF CommandNext

-----------------------------------------------------------------------------
(* The address a session is told is that of its tunnel, and the tunnel      *)
(* leads to its app, and deployments and commands keep to their limits,     *)
(* outside the situations that torn, crowd and crowded record; a command    *)
(* is killed only after its own session's turn was cancelled (deploy_app,   *)
(* get_deployment_status, bash_result, abash).                              *)
THEOREM ContainersAreAccountedFor == DeploySpec /\ CommandSpec => []ContainersAccountedFor
<1>1. DeploySpec => []UrlInv /\ []LimitInv
  BY DeployInitOK, UrlStep, LimitStep, PTL DEF DeploySpec
<1>2. CommandSpec => []CommandInv
  BY CommandInitOK, CommandStep, PTL DEF CommandSpec
<1>3. UrlInv /\ LimitInv /\ CommandInv => ContainersAccountedFor
  BY DEF UrlInv, LimitInv, CommandInv, ContainersAccountedFor
<1> QED
  BY <1>1, <1>2, <1>3, PTL

-----------------------------------------------------------------------------
(* Replies.  Who may have written the reply and what the guards may read in *)
(* it, stage by stage, and what is known of the attempt that answered.      *)
BuilderRuns == env.who = "builder"
FromTask == {"task", "number", "operator", "media", "fill", "link", "deliver", "over"}
FromNumber == FromTask \ {"task"}
FromOperator == FromNumber \ {"number"}
FromMedia == FromOperator \ {"operator"}
FromFill == FromMedia \ {"media"}
FromLink == FromFill \ {"fill"}

ReplyType == reply = Text(reply.by, reply.claims)

(* The attempt's steps, and what the guards see of them: all or, after a    *)
(* refusal for Google, nothing.                                             *)
StepsKept ==
    /\ ran \subseteq (IF BuilderRuns THEN BuilderSteps ELSE ToolSteps)
    /\ steps \in {ran, {}}
    /\ at = "tools" => did = ran
    /\ at \notin FromTask => steps = ran

(* Before the guards: nothing, the model's text, or the runner's own.       *)
FirstTexts ==
    /\ at = "tools" => reply = Empty
    /\ at \notin FromTask =>
         reply.by = "model" \/ reply \in {Empty, Text("fileSent", {"media", "number", "sent"}), Text("fileFailed", {})}
    /\ reply.by = "model" =>
         /\ BuilderRuns => reply.claims \subseteq BuilderClaims \cup {"url", "recovery"}
         /\ Reads("deliverable") => env.who = "operator"

(* What is left of a refused run has no word that a later guard looks for.  *)
Dropped ==
    /\ steps # ran => /\ reply.by \in {"auth", "unavailable", "ownersCase", "cannot"}
                      /\ reply.claims \subseteq {"recovery", "url", "google", "progress", "promise", "capability"}
    /\ reply.by = "auth" => steps = {}

(* The guards that have looked at the model's text have found their steps.  *)
Passed ==
    reply.by = "model" =>
      /\ at \in FromTask /\ Reads("google") /\ env.google /\ env.err = Absent =>
            GoogleRan(ran) \/ Reads("artifact") \/ Reads("recovery")
      /\ at \in FromOperator /\ Reads("number") /\ env.wants = "send" /\ env.who # "operator" => Replied(ran)
      /\ at \in FromMedia /\ Reads("deliverable") => Replied(ran)
      /\ at \in FromFill /\ Reads("media") => MediaSent(ran)
      /\ at \in FromLink => ~Reads("capability")

(* A refusal is true as long as it stands.                                  *)
Refused ==
    /\ reply.by = "mediaRefused" => ~MediaSent(ran)
    /\ reply.by = "fileFailed" => ~MediaSent(ran)
    /\ reply.by = "numberRefused" => ~Replied(ran)
    /\ reply.by = "notExecuted" => ~GoogleRan(ran)
    /\ reply.by = "auth" => ~ArtifactIn(ran)
    /\ reply.by \in {"taskUnfinished", "taskBlocked"} => ~Has(ran, "task", {"artifact"}) /\ ~MediaSent(ran)
    /\ reply.by = "createFailed" => Has(ran, "create", {"error"})
    /\ reply.by = "hiccup" => Creates(ran) = {}

(* Who, beside the builder, writes a link or that something was sent.       *)
Worded ==
    ~BuilderRuns =>
      /\ HasUrl(reply) => reply.by \in {"model", "auth", "seeUrl"}
      /\ Reads("sent") => reply.by \in {"model", "fileSent", "numberRefused", "mediaRefused"}

Heard ==
    /\ told # Absent => at = "over"
    /\ SomebodyAnswers

ReplyInv ==
    /\ env \in Env /\ ReplyType /\ StepsKept /\ FirstTexts /\ Dropped /\ Passed /\ Refused /\ Worded /\ Heard
    /\ RepairsActAsAsked

LEMMA ReplyInit == Init => ReplyInv
<1> SUFFICES ASSUME Init PROVE ReplyInv
  OBVIOUS
<1>1. env \in Env
  BY RunsAssumption DEF Init
<1>2. reply = Text("empty", {}) /\ at = "tools" /\ did = {} /\ ran = {} /\ steps = {} /\ told = Absent /\ acted.what = Absent
  BY DEF Init, Empty, Untouched, Repair
<1>3. reply.by = "empty" /\ reply.claims = {}
  BY <1>2 DEF Text
<1> QED
  BY <1>1, <1>2, <1>3 DEF ReplyInv, ReplyType, StepsKept, FirstTexts, Dropped, Passed, Refused, Worded, Heard, SomebodyAnswers,
     RepairsActAsAsked, FromTask, FromNumber, FromOperator, FromMedia, FromFill, FromLink, HasUrl, Reads, Text, Empty, Absent

(* A call that is repaired changes the event or the tab that was asked for. *)
LEMMA EventAsAsked ==
  ASSUME NEW given \in EventCalls, NEW calendar \in SUBSET Events, NEW o \in ManageEvent(given, calendar)
  PROVE  /\ o.result \in {"done", "failed", "refused"}
         /\ \/ o.target = Absent \/ given.id = o.target
            \/ \E S \in {Titled(given, calendar), Within(given, calendar)} :
                 {e.id : e \in S} = {o.target} /\ Titled(given, calendar) \in {{}, S}
<1>1. CASE ~NamesNoEvent(given)
  BY <1>1 DEF ManageEvent, Outcome
<1>2. CASE NamesNoEvent(given) /\ o = Outcome("refused", Absent)
  BY <1>2 DEF Outcome
<1>3. CASE NamesNoEvent(given) /\ o # Outcome("refused", Absent)
  <2> DEFINE S == Lookup(given, calendar)
             one == CHOOSE e \in S : TRUE
  <2>1. o = Outcome("done", one.id) /\ Cardinality(S) = 1
    BY <1>3 DEF ManageEvent
  <2>2. S \in {Titled(given, calendar), Within(given, calendar)} /\ Titled(given, calendar) \in {{}, S}
    BY DEF Lookup
  <2>3. IsFiniteSet(S)
    BY <2>2, EventsAssumption, FS_Subset DEF Titled, Within
  <2>4. PICK e : S = {e}
    BY <2>1, <2>3, FS_Singleton
  <2>5. {x.id : x \in S} = {one.id}
    BY <2>4
  <2> QED
    BY <2>1, <2>2, <2>5 DEF Outcome
<1> QED
  BY <1>1, <1>2, <1>3

LEMMA CellsAsAsked ==
  ASSUME NEW tab, NEW tabs, NEW creates \in BOOLEAN, NEW o \in WriteValues(tab, tabs, creates)
  PROVE  /\ o.result \in {"done", "failed"}
         /\ \/ o.target = Absent \/ o.target = tab
            \/ o.target = Tabs[1] /\ (tab = Absent \/ (tab \notin tabs /\ ~creates))
  BY DEF WriteValues, Outcome

(* What a tool step adds before the model answers disturbs nothing.         *)
TextInv == /\ env \in Env /\ ReplyType /\ StepsKept /\ FirstTexts /\ Dropped /\ Passed /\ Refused /\ Worded /\ Heard

LEMMA AddsKept ==
  ASSUME TextInv, at = "tools", UNCHANGED <<env, at, reply, told>>,
         NEW s \in IF BuilderRuns THEN BuilderSteps ELSE ToolSteps, Adds(s)
  PROVE  TextInv'
<1>1. StepsKept' /\ ran' = steps'
  BY DEF TextInv, StepsKept, Adds, FromTask, BuilderRuns, BuilderSteps, ToolSteps
<1>2. reply.by = "empty" /\ reply.claims = {} /\ told = Absent
  BY DEF TextInv, FirstTexts, Heard, Empty, Text
<1> QED
  BY <1>1, <1>2 DEF TextInv, ReplyType, FirstTexts, Dropped, Passed, Refused, Worded, Heard, SomebodyAnswers, HasUrl, Reads, Absent,
     BuilderRuns

LEMMA ToolRunsKeeps == ReplyInv /\ ToolRuns => ReplyInv'
<1> SUFFICES ASSUME ReplyInv, ToolRuns PROVE ReplyInv'
  OBVIOUS
<1>1. PICK s \in IF BuilderRuns THEN BuilderSteps ELSE ToolSteps : Adds(s)
  BY DEF ToolRuns, BuilderRuns
<1>2. TextInv'
  BY <1>1, AddsKept DEF ToolRuns, CanRun, ReplyInv, TextInv
<1> QED
  BY <1>2 DEF TextInv, ReplyInv, ToolRuns, RepairsActAsAsked

LEMMA GoogleSteps == \A r \in GoogleResults : Step("google", r) \in ToolSteps
  BY DEF ToolSteps

LEMMA ManagesEventKeeps == ReplyInv /\ ManagesEvent => ReplyInv'
<1> SUFFICES ASSUME ReplyInv, ManagesEvent PROVE ReplyInv'
  OBVIOUS
<1>0. PICK given \in EventCalls, calendar \in SUBSET Events : \E o \in ManageEvent(given, calendar) :
        Adds(Step("google", o.result)) /\ acted' = Repair("event", given, calendar, o.target)
  BY DEF ManagesEvent
<1>1. PICK o \in ManageEvent(given, calendar) :
        Adds(Step("google", o.result)) /\ acted' = Repair("event", given, calendar, o.target)
  BY <1>0
<1>2. ~BuilderRuns /\ at = "tools" /\ UNCHANGED <<env, at, reply, told>>
  BY DEF ManagesEvent, Google, BuilderRuns, CanRun
<1>3. Step("google", o.result) \in ToolSteps
  BY EventAsAsked, GoogleSteps DEF GoogleResults
<1>4. TextInv'
  BY <1>1, <1>2, <1>3, AddsKept DEF ReplyInv, TextInv
<1>5. /\ acted'.what = "event" /\ acted'.call = given /\ acted'.in = calendar /\ acted'.target = o.target
  BY <1>1 DEF Repair
<1>6. /\ Titled(acted'.call, acted'.in) = Titled(given, calendar)
      /\ Within(acted'.call, acted'.in) = Within(given, calendar)
  BY <1>5, Zenon
<1>7. RepairsActAsAsked'
  <2> DEFINE named(S) == {e.id : e \in S} = {o.target} /\ Titled(given, calendar) \in {{}, S}
  <2>1. o.target = Absent \/ given.id = o.target \/ \E S \in {Titled(given, calendar), Within(given, calendar)} : named(S)
    BY EventAsAsked
  <2>2. CASE o.target = Absent \/ given.id = o.target
    BY <1>5, <2>2, Zenon DEF RepairsActAsAsked
  <2>3. CASE \E S \in {Titled(given, calendar), Within(given, calendar)} : named(S)
    <3>1. \E S \in {Titled(acted'.call, acted'.in), Within(acted'.call, acted'.in)} :
            {e.id : e \in S} = {acted'.target} /\ Titled(acted'.call, acted'.in) \in {{}, S}
      BY <1>5, <1>6, <2>3, Zenon
    <3> QED
      BY <1>5, <3>1, Zenon DEF RepairsActAsAsked
  <2> QED
    BY <2>1, <2>2, <2>3
<1> QED
  BY <1>4, <1>7 DEF TextInv, ReplyInv

LEMMA WritesSheetKeeps == ReplyInv /\ WritesSheet => ReplyInv'
<1> SUFFICES ASSUME ReplyInv, WritesSheet PROVE ReplyInv'
  OBVIOUS
<1>0. PICK tab \in {Tabs[i] : i \in DOMAIN Tabs} \cup {Absent}, creates \in BOOLEAN, tabs \in SUBSET {Tabs[i] : i \in DOMAIN Tabs} :
        \E o \in WriteValues(tab, tabs, creates) :
          Adds(Step("google", o.result)) /\ acted' = Repair("cells", [tab |-> tab, creates |-> creates], tabs, o.target)
  BY DEF WritesSheet
<1>1. PICK o \in WriteValues(tab, tabs, creates) :
        Adds(Step("google", o.result)) /\ acted' = Repair("cells", [tab |-> tab, creates |-> creates], tabs, o.target)
  BY <1>0
<1>2. ~BuilderRuns /\ at = "tools" /\ UNCHANGED <<env, at, reply, told>>
  BY DEF WritesSheet, Google, BuilderRuns, CanRun
<1>3. Step("google", o.result) \in ToolSteps
  BY CellsAsAsked, GoogleSteps DEF GoogleResults
<1>4. TextInv'
  BY <1>1, <1>2, <1>3, AddsKept DEF ReplyInv, TextInv
<1>5. /\ acted'.what = "cells" /\ acted'.call.tab = tab /\ acted'.call.creates = creates
      /\ acted'.in = tabs /\ acted'.target = o.target
  BY <1>1 DEF Repair
<1>6. RepairsActAsAsked'
  BY <1>5, CellsAsAsked DEF RepairsActAsAsked
<1> QED
  BY <1>4, <1>6 DEF TextInv, ReplyInv

LEMMA CreatesFileKeeps == ReplyInv /\ CreatesFile => ReplyInv'
<1> SUFFICES ASSUME ReplyInv, CreatesFile PROVE ReplyInv'
  OBVIOUS
<1>1. PICK r \in GoogleResults : Adds(Step("google", r))
  BY DEF CreatesFile, GoogleResults, CreateSpreadsheet, CreatePresentation, CreateDriveFile, BatchUpdatePresentation, CreateShape,
     CreateSurveyForm
<1>2. ~BuilderRuns /\ at = "tools" /\ UNCHANGED <<env, at, acted, reply, told>>
  BY DEF CreatesFile, Google, BuilderRuns, CanRun
<1>3. TextInv'
  BY <1>1, <1>2, AddsKept, GoogleSteps DEF ReplyInv, TextInv
<1> QED
  BY <1>2, <1>3 DEF TextInv, ReplyInv, RepairsActAsAsked

LEMMA BlocksKeeps == ReplyInv /\ BlocksBeforeGraph => ReplyInv'
<1> SUFFICES ASSUME ReplyInv, BlocksBeforeGraph PROVE ReplyInv'
  OBVIOUS
<1>1. /\ at = "tools" /\ at' = "deliver" /\ told = Absent
      /\ ran = {} /\ steps = {} /\ UNCHANGED <<env, did, ran, steps, acted, told>>
  BY DEF BlocksBeforeGraph, ReplyInv, StepsKept, FromTask, Becomes, Heard
<1>2. \E url \in BOOLEAN : reply' = AuthBlocker(url) \/ reply' \in Unavailable
  BY DEF BlocksBeforeGraph, Says, LoginLinks, ReplyInv, Env
<1>3. /\ reply' = Text(reply'.by, reply'.claims)
      /\ \/ reply'.by = "auth" /\ reply'.claims \subseteq {"recovery", "url"}
         \/ reply'.by = "unavailable" /\ reply'.claims \subseteq {"google", "progress", "promise"}
  BY <1>2 DEF AuthBlocker, Unavailable, Text
<1> QED
  BY <1>1, <1>3 DEF ReplyInv, ReplyType, StepsKept, FirstTexts, Dropped, Passed, Refused, Worded, Heard, SomebodyAnswers,
     RepairsActAsAsked, FromTask, FromNumber, FromOperator, FromMedia, FromFill, FromLink, HasUrl, Reads, BuilderRuns, Absent,
     ArtifactIn, Has

(* A text of the model.                                                     *)
LEMMA ModelSays ==
  ASSUME NEW r \in ModelTexts
  PROVE  /\ r = Text(r.by, r.claims)
         /\ \/ r = Empty
            \/ /\ r.by = "model" /\ (BuilderRuns => r.claims \subseteq BuilderClaims)
               /\ "deliverable" \in r.claims => env.who = "operator"
  BY DEF ModelTexts, Text, Empty, BuilderRuns

LEMMA ModelAnswersKeeps == ReplyInv /\ ModelAnswers => ReplyInv'
<1> SUFFICES ASSUME ReplyInv, ModelAnswers PROVE ReplyInv'
  OBVIOUS
<1>1. /\ at = "tools" /\ at' = "file" /\ told = Absent /\ acted' = Untouched
      /\ ran = steps /\ UNCHANGED <<env, did, ran, steps, told>>
  BY DEF ModelAnswers, ReplyInv, StepsKept, FromTask, Becomes, Heard
<1>2. reply' \in ModelTexts
  BY DEF ModelAnswers, Says
<1>3. RepairsActAsAsked'
  BY <1>1 DEF RepairsActAsAsked, Untouched, Repair
<1> QED
  BY <1>1, <1>2, <1>3, ModelSays DEF ReplyInv, ReplyType, StepsKept, FirstTexts, Dropped, Passed, Refused, Worded, Heard, SomebodyAnswers,
     FromTask, FromNumber, FromOperator, FromMedia, FromFill, FromLink, HasUrl, Reads, BuilderRuns, Absent, Empty, Text

(* Which tools a run has.                                                   *)
LEMMA ToolsOf ==
  ASSUME StepsKept
  PROVE  /\ steps \subseteq ran
         /\ BuilderRuns => \A t \in {"notify", "media", "task", "google", "number", "reply_to_user"} : ~Ran(ran, t)
         /\ ~BuilderRuns => \A t \in {"create", "plan", "trial"} : ~Ran(ran, t)
<1>1. steps \subseteq ran
  BY DEF StepsKept
<1>2. \A s \in BuilderSteps : s.tool \in {"create", "plan", "trial"}
  BY DEF BuilderSteps, Step
<1>3. \A s \in ToolSteps : s.tool \in {"notify", "media", "task", "google", "number", "reply_to_user"}
  BY DEF ToolSteps, Step
<1> QED
  BY <1>1, <1>2, <1>3 DEF StepsKept, Ran

LEMMA HasRan == \A S, t, R : Has(S, t, R) => Ran(S, t)
  BY DEF Has, Ran

LEMMA DeliversFileKeeps == ReplyInv /\ DeliversFile => ReplyInv'
<1> SUFFICES ASSUME ReplyInv, DeliversFile PROVE ReplyInv'
  OBVIOUS
<1>1. /\ at = "file" /\ at' = "more" /\ told = Absent /\ ran = steps /\ UNCHANGED <<env, acted, told>>
  BY DEF DeliversFile, ReplyInv, StepsKept, FromTask, Becomes, Heard
<1>2. CASE UNCHANGED <<did, ran, steps, reply>>
  BY <1>1, <1>2 DEF ReplyInv, ReplyType, StepsKept, FirstTexts, Dropped, Passed, Refused, Worded, Heard, SomebodyAnswers,
     RepairsActAsAsked, FromTask, FromNumber, FromOperator, FromMedia, FromFill, FromLink, HasUrl, Reads, BuilderRuns, Absent
<1>3. CASE FileWaits /\ Adds(Step("media", "sent")) /\ Says(Text("fileSent", {"media", "number", "sent"}))
  <2>1. ~BuilderRuns /\ Step("media", "sent") \in ToolSteps
    BY <1>3 DEF FileWaits, BuilderRuns, ToolSteps
  <2>2. ran' = steps' /\ ran' \subseteq ToolSteps
    BY <1>1, <1>3, <2>1 DEF Adds, ReplyInv, StepsKept
  <2>3. reply' = Text("fileSent", {"media", "number", "sent"}) /\ reply'.by = "fileSent" /\ reply'.claims = {"media", "number", "sent"}
    BY <1>3 DEF Says, Text
  <2> QED
    BY <1>1, <2>1, <2>2, <2>3 DEF ReplyInv, ReplyType, StepsKept, FirstTexts, Dropped, Passed, Refused, Worded, Heard, SomebodyAnswers,
     RepairsActAsAsked, FromTask, FromNumber, FromOperator, FromMedia, FromFill, FromLink, HasUrl, Reads, BuilderRuns, Absent
<1>4. CASE FileWaits /\ (Adds(Step("media", "failed")) \/ UNCHANGED <<did, ran, steps>>) /\ Says(Text("fileFailed", {}))
  <2>1. ~BuilderRuns /\ Step("media", "failed") \in ToolSteps /\ ~MediaSent(steps)
    BY <1>4 DEF FileWaits, BuilderRuns, ToolSteps
  <2>2. ran' = steps' /\ ran' \subseteq ToolSteps
    BY <1>1, <1>4, <2>1 DEF Adds, ReplyInv, StepsKept
  <2>3. ~MediaSent(ran')
    BY <1>1, <1>4, <2>1 DEF Adds, MediaSent, Has, Step
  <2>4. reply' = Text("fileFailed", {}) /\ reply'.by = "fileFailed" /\ reply'.claims = {}
    BY <1>4 DEF Says, Text
  <2> QED
    BY <1>1, <2>1, <2>2, <2>3, <2>4 DEF ReplyInv, ReplyType, StepsKept, FirstTexts, Dropped, Passed, Refused, Worded, Heard, SomebodyAnswers,
     RepairsActAsAsked, FromTask, FromNumber, FromOperator, FromMedia, FromFill, FromLink, HasUrl, Reads, BuilderRuns, Absent
<1> QED
  BY <1>2, <1>3, <1>4 DEF DeliversFile

LEMMA FillsDocumentKeeps == ReplyInv /\ FillsDocument => ReplyInv'
<1> SUFFICES ASSUME ReplyInv, FillsDocument PROVE ReplyInv'
  OBVIOUS
<1>1. /\ at = "more" /\ at' = "google" /\ told = Absent /\ ran = steps /\ UNCHANGED <<env, acted, told>>
  BY DEF FillsDocument, ReplyInv, StepsKept, FromTask, Becomes, Heard
<1>2. CASE UNCHANGED <<did, ran, steps, reply>>
  BY <1>1, <1>2 DEF ReplyInv, ReplyType, StepsKept, FirstTexts, Dropped, Passed, Refused, Worded, Heard, SomebodyAnswers,
     RepairsActAsAsked, FromTask, FromNumber, FromOperator, FromMedia, FromFill, FromLink, HasUrl, Reads, BuilderRuns, Absent
<1>3. CASE HalfDone /\ ran' = steps' /\ steps' \in {{}} \cup {{Step("google", r)} : r \in {"done", "failed"}} /\ reply' \in ModelTexts
  <2>1. ~BuilderRuns
    BY <1>1, <1>3, ToolsOf, HasRan DEF HalfDone, ReplyInv
  <2>2. ran' \subseteq ToolSteps
    BY <1>3, GoogleSteps DEF GoogleResults
  <2>3. reply' = Text(reply'.by, reply'.claims) /\ (reply' = Empty \/ (reply'.by = "model" /\ ("deliverable" \in reply'.claims => env.who = "operator")))
    BY <1>3, ModelSays
  <2>4. reply' = Empty => reply'.by = "empty" /\ reply'.claims = {}
    BY DEF Empty, Text
  <2> QED
    BY <1>1, <1>3, <2>1, <2>2, <2>3, <2>4 DEF ReplyInv, ReplyType, StepsKept, FirstTexts, Dropped, Passed, Refused, Worded, Heard, SomebodyAnswers,
     RepairsActAsAsked, FromTask, FromNumber, FromOperator, FromMedia, FromFill, FromLink, HasUrl, Reads, BuilderRuns, Absent
<1> QED
  BY <1>2, <1>3 DEF FillsDocument, Says

LEMMA OverridesGoogleKeeps == ReplyInv /\ OverridesGoogle => ReplyInv'
<1> SUFFICES ASSUME ReplyInv, OverridesGoogle PROVE ReplyInv'
  OBVIOUS
<1>1. /\ at = "google" /\ at' = "task" /\ told = Absent /\ ran = steps /\ UNCHANGED <<env, did, ran, acted, told>>
      /\ steps' = IF MustAskLogin \/ MustSayDown THEN {} ELSE steps
  BY DEF OverridesGoogle, ReplyInv, StepsKept, FromTask, Becomes, Heard
<1>2. \/ reply.by = "model" \/ reply = Empty
      \/ reply.by = "fileSent" /\ reply.claims = {"media", "number", "sent"}
      \/ reply.by = "fileFailed" /\ reply.claims = {}
  BY <1>1 DEF ReplyInv, FirstTexts, FromTask, Text
<1>3. Empty.by = "empty" /\ Empty.claims = {}
  BY DEF Empty, Text
<1>4. PICK said \in IF MustAskLogin THEN {AuthBlocker(url) : url \in LoginLinks}
                   ELSE IF MustSayDown THEN Unavailable
                   ELSE IF NothingRan THEN {NotExecuted}
                   ELSE IF env.url /\ env.err = Absent /\ Reads("recovery") /\ ~GoogleRan(steps)
                        THEN {[reply EXCEPT !.claims = @ \cup {"url"}]}
                   ELSE {reply} :
          IF OwnersCase(said)
          THEN \E claims \in {{"capability", "promise"}, {"promise"}} : Says(Text("ownersCase", claims))
          ELSE Says(said)
  BY DEF OverridesGoogle
<1>5. CASE OwnersCase(said)
  <2>1. /\ reply' = Text("ownersCase", reply'.claims) /\ reply'.by = "ownersCase" /\ reply'.claims \subseteq {"capability", "promise"}
    BY <1>4, <1>5 DEF Says, Text
  <2>2. ~BuilderRuns
    BY <1>5 DEF OwnersCase, BuilderRuns
  <2> QED
    BY <1>1, <2>1, <2>2 DEF ReplyInv, ReplyType, StepsKept, FirstTexts, Dropped, Passed, Refused, Worded, Heard, SomebodyAnswers,
     RepairsActAsAsked, FromTask, FromNumber, FromOperator, FromMedia, FromFill, FromLink, HasUrl, Reads, BuilderRuns, Absent
<1>6. CASE ~OwnersCase(said) /\ MustAskLogin
  <2>1. /\ reply' = Text("auth", reply'.claims) /\ reply'.by = "auth" /\ reply'.claims \subseteq {"recovery", "url"}
    BY <1>4, <1>6 DEF Says, Text, AuthBlocker
  <2>2. steps' = {} /\ ~ArtifactIn(ran)
    BY <1>1, <1>6 DEF MustAskLogin, Artifact
  <2> QED
    BY <1>1, <2>1, <2>2 DEF ReplyInv, ReplyType, StepsKept, FirstTexts, Dropped, Passed, Refused, Worded, Heard, SomebodyAnswers,
     RepairsActAsAsked, FromTask, FromNumber, FromOperator, FromMedia, FromFill, FromLink, HasUrl, Reads, BuilderRuns, Absent
<1>7. CASE ~OwnersCase(said) /\ ~MustAskLogin /\ MustSayDown
  <2>1. /\ reply' = Text("unavailable", reply'.claims) /\ reply'.by = "unavailable"
        /\ reply'.claims \subseteq {"google", "progress", "promise"}
    BY <1>4, <1>7 DEF Says, Text, Unavailable
  <2>2. steps' = {}
    BY <1>1, <1>7
  <2> QED
    BY <1>1, <2>1, <2>2 DEF ReplyInv, ReplyType, StepsKept, FirstTexts, Dropped, Passed, Refused, Worded, Heard, SomebodyAnswers,
     RepairsActAsAsked, FromTask, FromNumber, FromOperator, FromMedia, FromFill, FromLink, HasUrl, Reads, BuilderRuns, Absent
<1>8. CASE ~OwnersCase(said) /\ ~MustAskLogin /\ ~MustSayDown /\ NothingRan
  <2>1. /\ reply' = Text("notExecuted", reply'.claims) /\ reply'.by = "notExecuted" /\ reply'.claims \subseteq {"promise"}
    BY <1>4, <1>8 DEF Says, Text, NotExecuted
  <2>2. steps' = ran /\ ~GoogleRan(ran)
    BY <1>1, <1>8 DEF NothingRan
  <2> QED
    BY <1>1, <2>1, <2>2 DEF ReplyInv, ReplyType, StepsKept, FirstTexts, Dropped, Passed, Refused, Worded, Heard, SomebodyAnswers,
     RepairsActAsAsked, FromTask, FromNumber, FromOperator, FromMedia, FromFill, FromLink, HasUrl, Reads, BuilderRuns, Absent
<1>9. CASE ~OwnersCase(said) /\ ~MustAskLogin /\ ~MustSayDown /\ ~NothingRan
  <2>1. \/ reply' = reply
        \/ reply' = [reply EXCEPT !.claims = @ \cup {"url"}] /\ Reads("recovery")
    BY <1>4, <1>9 DEF Says
  <2>2. steps' = ran
    BY <1>1, <1>9
  <2>3. env.google /\ env.err = Absent /\ Reads("google") => GoogleRan(ran) \/ Reads("artifact") \/ Reads("recovery")
    BY <1>1, <1>9 DEF NothingRan
  <2>4. CASE reply' = reply
    BY <1>1, <1>2, <1>3, <2>2, <2>3, <2>4 DEF ReplyInv, ReplyType, StepsKept, FirstTexts, Dropped, Passed, Refused, Worded, Heard, SomebodyAnswers,
     RepairsActAsAsked, FromTask, FromNumber, FromOperator, FromMedia, FromFill, FromLink, HasUrl, Reads, BuilderRuns, Absent
  <2>5. CASE reply' = [reply EXCEPT !.claims = @ \cup {"url"}] /\ Reads("recovery")
    <3>1. reply' = Text(reply.by, reply.claims \cup {"url"}) /\ reply'.by = reply.by /\ reply'.claims = reply.claims \cup {"url"}
      BY <2>5 DEF ReplyInv, ReplyType, Text
    <3>2. reply.by = "model"
      BY <1>2, <1>3, <2>5 DEF Reads
    <3> QED
      BY ZenonT(40), <1>1, <2>2, <2>3, <3>1, <3>2 DEF ReplyInv, ReplyType, StepsKept, FirstTexts, Dropped, Passed, Refused, Worded, Heard, SomebodyAnswers,
     RepairsActAsAsked, FromTask, FromNumber, FromOperator, FromMedia, FromFill, FromLink, HasUrl, Reads, BuilderRuns, Absent
  <2> QED
    BY <2>1, <2>4, <2>5
<1> QED
  BY <1>5, <1>6, <1>7, <1>8, <1>9

(* A guard that replaces the reply by a text of its own, or leaves it.      *)
LEMMA GuardsTaskKeeps == ReplyInv /\ GuardsTask => ReplyInv'
<1> SUFFICES ASSUME ReplyInv, GuardsTask PROVE ReplyInv'
  OBVIOUS
<1>1. at = "task" /\ at' = "number" /\ told = Absent /\ UNCHANGED <<env, did, ran, steps, acted, told>>
  BY DEF GuardsTask, ReplyInv, Becomes, Heard
<1>2. CASE reply' = reply
  BY <1>1, <1>2 DEF ReplyInv, ReplyType, StepsKept, FirstTexts, Dropped, Passed, Refused, Worded, Heard, SomebodyAnswers,
     RepairsActAsAsked, FromTask, FromNumber, FromOperator, FromMedia, FromFill, FromLink, HasUrl, Reads, BuilderRuns, Absent
<1>3. CASE TaskOpen /\ reply' \in {Text("taskBlocked", {}), Text("taskUnfinished", {})}
  <2>1. reply' = Text(reply'.by, {}) /\ reply'.by \in {"taskBlocked", "taskUnfinished"} /\ reply'.claims = {}
    BY <1>3 DEF Text
  <2>2. steps = ran
    BY <1>3 DEF ReplyInv, StepsKept, TaskOpen, Ran
  <2>3. ~Has(ran, "task", {"artifact"}) /\ ~MediaSent(ran)
    BY <1>3, <2>2 DEF TaskOpen
  <2> QED
    BY <1>1, <2>1, <2>2, <2>3 DEF ReplyInv, ReplyType, StepsKept, FirstTexts, Dropped, Passed, Refused, Worded, Heard, SomebodyAnswers,
     RepairsActAsAsked, FromTask, FromNumber, FromOperator, FromMedia, FromFill, FromLink, HasUrl, Reads, BuilderRuns, Absent
<1> QED
  BY <1>2, <1>3 DEF GuardsTask, Says

LEMMA GuardsNumberKeeps == ReplyInv /\ GuardsNumber => ReplyInv'
<1> SUFFICES ASSUME ReplyInv, GuardsNumber PROVE ReplyInv'
  OBVIOUS
<1>1. at = "number" /\ at' = "operator" /\ told = Absent /\ UNCHANGED <<env, did, ran, steps, acted, told>>
  BY DEF GuardsNumber, ReplyInv, Becomes, Heard
<1>2. CASE ~NumberUnsent
  <2>1. reply' = reply
    BY <1>2 DEF GuardsNumber, Rewrites, Says
  <2>2. reply.by = "model" => steps = ran
    BY DEF ReplyInv, Dropped
  <2>3. reply.by = "model" /\ Reads("number") /\ env.wants = "send" /\ env.who # "operator" => Replied(ran)
    BY <1>2, <2>2 DEF NumberUnsent
  <2> QED
    BY <1>1, <2>1, <2>3 DEF ReplyInv, ReplyType, StepsKept, FirstTexts, Dropped, Passed, Refused, Worded, Heard, SomebodyAnswers,
     RepairsActAsAsked, FromTask, FromNumber, FromOperator, FromMedia, FromFill, FromLink, HasUrl, Reads, BuilderRuns, Absent
<1>3. CASE NumberUnsent
  <2>1. /\ reply' = Text("numberRefused", {"number", "sent"}) /\ reply'.by = "numberRefused" /\ reply'.claims = {"number", "sent"}
    BY <1>3 DEF GuardsNumber, Rewrites, Says, NumberRefused, Text
  <2>2. steps = ran
    BY <1>3 DEF NumberUnsent, Reads, ReplyInv, Dropped
  <2>3. ~Replied(ran)
    BY <1>3, <2>2 DEF NumberUnsent
  <2> QED
    BY <1>1, <2>1, <2>2, <2>3 DEF ReplyInv, ReplyType, StepsKept, FirstTexts, Dropped, Passed, Refused, Worded, Heard, SomebodyAnswers,
     RepairsActAsAsked, FromTask, FromNumber, FromOperator, FromMedia, FromFill, FromLink, HasUrl, Reads, BuilderRuns, Absent
<1> QED
  BY <1>2, <1>3

LEMMA GuardsOperatorKeeps == ReplyInv /\ GuardsOperator => ReplyInv'
<1> SUFFICES ASSUME ReplyInv, GuardsOperator PROVE ReplyInv'
  OBVIOUS
<1> DEFINE Undone == env.who = "operator" /\ ~Replied(steps) /\ Reads("deliverable")
<1>1. at = "operator" /\ at' = "media" /\ told = Absent /\ UNCHANGED <<env, did, ran, steps, acted, told>>
  BY DEF GuardsOperator, ReplyInv, Becomes, Heard
<1>2. CASE ~Undone
  <2>1. reply' = reply
    BY <1>2 DEF GuardsOperator, Rewrites, Says
  <2>2. reply.by = "model" => steps = ran
    BY DEF ReplyInv, Dropped
  <2>3. reply.by = "model" /\ Reads("deliverable") => Replied(ran)
    BY <1>2, <2>2 DEF ReplyInv, FirstTexts
  <2> QED
    BY <1>1, <2>1, <2>3 DEF ReplyInv, ReplyType, StepsKept, FirstTexts, Dropped, Passed, Refused, Worded, Heard, SomebodyAnswers,
     RepairsActAsAsked, FromTask, FromNumber, FromOperator, FromMedia, FromFill, FromLink, HasUrl, Reads, BuilderRuns, Absent
<1>3. CASE Undone
  <2>1. reply' = Text(reply'.by, {}) /\ reply'.by \in {"operatorDraft", "operatorUndone"} /\ reply'.claims = {}
    BY <1>3 DEF GuardsOperator, Rewrites, Says, Text
  <2>2. steps = ran
    BY <1>3 DEF Reads, ReplyInv, Dropped
  <2> QED
    BY <1>1, <2>1, <2>2 DEF ReplyInv, ReplyType, StepsKept, FirstTexts, Dropped, Passed, Refused, Worded, Heard, SomebodyAnswers,
     RepairsActAsAsked, FromTask, FromNumber, FromOperator, FromMedia, FromFill, FromLink, HasUrl, Reads, BuilderRuns, Absent
<1> QED
  BY <1>2, <1>3

LEMMA GuardsMediaKeeps == ReplyInv /\ GuardsMedia => ReplyInv'
<1> SUFFICES ASSUME ReplyInv, GuardsMedia PROVE ReplyInv'
  OBVIOUS
<1>1. at = "media" /\ at' = "fill" /\ told = Absent /\ UNCHANGED <<env, did, ran, steps, acted, told>>
  BY DEF GuardsMedia, ReplyInv, Becomes, Heard
<1>2. CASE ~MediaUnsent
  <2>1. reply' = reply
    BY <1>2 DEF GuardsMedia, Rewrites, Says
  <2>2. reply.by = "model" => steps = ran /\ (BuilderRuns => ~Reads("media"))
    BY DEF ReplyInv, Dropped, FirstTexts, BuilderClaims, Reads
  <2>3. reply.by = "model" /\ Reads("media") => MediaSent(ran)
    BY <1>2, <2>2 DEF MediaUnsent, BuilderRuns
  <2> QED
    BY <1>1, <2>1, <2>3 DEF ReplyInv, ReplyType, StepsKept, FirstTexts, Dropped, Passed, Refused, Worded, Heard, SomebodyAnswers,
     RepairsActAsAsked, FromTask, FromNumber, FromOperator, FromMedia, FromFill, FromLink, HasUrl, Reads, BuilderRuns, Absent
<1>3. CASE MediaUnsent
  <2>1. /\ reply' = Text("mediaRefused", {"media", "number", "sent"}) /\ reply'.by = "mediaRefused"
        /\ reply'.claims = {"media", "number", "sent"}
    BY <1>3 DEF GuardsMedia, Rewrites, Says, MediaRefused, Text
  <2>2. steps = ran
    BY <1>3 DEF MediaUnsent, Reads, ReplyInv, Dropped
  <2>3. ~MediaSent(ran)
    BY <1>3, <2>2 DEF MediaUnsent
  <2> QED
    BY <1>1, <2>1, <2>2, <2>3 DEF ReplyInv, ReplyType, StepsKept, FirstTexts, Dropped, Passed, Refused, Worded, Heard, SomebodyAnswers,
     RepairsActAsAsked, FromTask, FromNumber, FromOperator, FromMedia, FromFill, FromLink, HasUrl, Reads, BuilderRuns, Absent
<1> QED
  BY <1>2, <1>3

(* What the builder's guard puts in the place of a text.                    *)
LEMMA FallbackTexts ==
  ASSUME NEW r \in Fallbacks
  PROVE  /\ r = Text(r.by, r.claims) /\ steps # {}
         /\ \E t \in {"create", "plan", "trial"} : Ran(steps, t)
         /\ r.by \in {"entitlement", "trialLink", "whichAgent", "createFailed", "created", "hiccup"}
         /\ r.by = "createFailed" => Has(steps, "create", {"error"})
         /\ r.by = "hiccup" => Creates(steps) = {}
<1>1. CASE EntitlementRetry
  BY <1>1 DEF Fallbacks, EntitlementRetry, Text, Has, Ran
<1>2. CASE ~EntitlementRetry /\ Has(steps, "trial", {"link"})
  BY <1>2 DEF Fallbacks, Text, Has, Ran
<1>3. CASE ~EntitlementRetry /\ ~Has(steps, "trial", {"link"}) /\ Ran(steps, "trial")
  BY <1>3 DEF Fallbacks, Text, Ran
<1>4. CASE ~EntitlementRetry /\ ~Has(steps, "trial", {"link"}) /\ ~Ran(steps, "trial")
  <2>1. CASE r = Text("hiccup", {"promise"}) /\ Creates(steps) = {} /\ Ran(steps, "plan")
    BY <2>1 DEF Text, Ran
  <2>2. CASE \E s \in Creates(steps) : r = Text(IF s.result = "error" THEN "createFailed" ELSE "created", {"clear", "onboarded"})
    <3>1. PICK s \in Creates(steps) : r = Text(IF s.result = "error" THEN "createFailed" ELSE "created", {"clear", "onboarded"})
      BY <2>2
    <3>2. s \in steps /\ s.tool = "create"
      BY DEF Creates
    <3> QED
      BY <3>1, <3>2 DEF Text, Ran, Has
  <2> QED
    BY <1>4, <2>1, <2>2 DEF Fallbacks
<1> QED
  BY <1>1, <1>2, <1>3, <1>4

LEMMA FillsKeeps == ReplyInv /\ Fills => ReplyInv'
<1> SUFFICES ASSUME ReplyInv, Fills PROVE ReplyInv'
  OBVIOUS
<1>1. at = "fill" /\ at' = "link" /\ told = Absent /\ UNCHANGED <<env, did, ran, steps, acted, told>>
  BY DEF Fills, ReplyInv, Becomes, Heard
<1>2. steps \subseteq ran /\ steps \in {ran, {}}
  BY ToolsOf DEF ReplyInv, StepsKept
<1>3. CASE \/ reply' \in Fallbacks
           \/ EntitlementRetry /\ reply' = Text("entitlement", {})
  <2>1. /\ reply' = Text(reply'.by, reply'.claims) /\ steps = ran
        /\ \E t \in {"create", "plan", "trial"} : Ran(steps, t)
        /\ reply'.by \in {"entitlement", "trialLink", "whichAgent", "createFailed", "created", "hiccup"}
        /\ reply'.by = "createFailed" => Has(steps, "create", {"error"})
        /\ reply'.by = "hiccup" => Creates(steps) = {}
    <3>1. CASE reply' \in Fallbacks
      BY <1>2, <3>1, FallbackTexts
    <3>2. CASE EntitlementRetry /\ reply' = Text("entitlement", {})
      BY <1>2, <3>2, HasRan DEF EntitlementRetry, Text, Ran
    <3> QED
      BY <1>3, <3>1, <3>2
  <2>2. BuilderRuns
    BY <2>1, ToolsOf DEF ReplyInv
  <2> QED
    BY <1>1, <2>1, <2>2 DEF ReplyInv, ReplyType, StepsKept, FirstTexts, Dropped, Passed, Refused, Worded, Heard, SomebodyAnswers,
     RepairsActAsAsked, FromTask, FromNumber, FromOperator, FromMedia, FromFill, FromLink, HasUrl, Reads, BuilderRuns, Absent
<1>4. CASE reply' = reply /\ ~Reads("capability")
  BY <1>1, <1>4 DEF ReplyInv, ReplyType, StepsKept, FirstTexts, Dropped, Passed, Refused, Worded, Heard, SomebodyAnswers,
     RepairsActAsAsked, FromTask, FromNumber, FromOperator, FromMedia, FromFill, FromLink, HasUrl, Reads, BuilderRuns, Absent
<1>5. CASE reply' = reply /\ EntitlementRetry
  <2>1. BuilderRuns
    BY <1>2, <1>5, HasRan, ToolsOf DEF EntitlementRetry, ReplyInv, Ran
  <2>2. reply.by = "model" => ~Reads("capability")
    BY <2>1 DEF ReplyInv, FirstTexts, BuilderClaims, Reads
  <2> QED
    BY <1>1, <1>5, <2>2 DEF ReplyInv, ReplyType, StepsKept, FirstTexts, Dropped, Passed, Refused, Worded, Heard, SomebodyAnswers,
     RepairsActAsAsked, FromTask, FromNumber, FromOperator, FromMedia, FromFill, FromLink, HasUrl, Reads, BuilderRuns, Absent
<1>6. CASE reply' = Text("cannot", {})
  <2>1. reply'.by = "cannot" /\ reply'.claims = {} /\ reply' = Text(reply'.by, reply'.claims)
    BY <1>6 DEF Text
  <2> QED
    BY <1>1, <2>1 DEF ReplyInv, ReplyType, StepsKept, FirstTexts, Dropped, Passed, Refused, Worded, Heard, SomebodyAnswers,
     RepairsActAsAsked, FromTask, FromNumber, FromOperator, FromMedia, FromFill, FromLink, HasUrl, Reads, BuilderRuns, Absent
<1>7. CASE reply = Empty /\ reply' \in {Text("seeUrl", {"url"}), Text("ranSomething", {}), Text("trouble", {})}
  <2>1. /\ reply' = Text(reply'.by, reply'.claims) /\ reply'.by \in {"seeUrl", "ranSomething", "trouble"}
        /\ reply'.claims \subseteq {"url"} /\ (reply'.by # "seeUrl" => reply'.claims = {})
    BY <1>7 DEF Text
  <2>2. steps = ran
    BY <1>7 DEF ReplyInv, Dropped, Empty, Text
  <2> QED
    BY <1>1, <2>1, <2>2 DEF ReplyInv, ReplyType, StepsKept, FirstTexts, Dropped, Passed, Refused, Worded, Heard, SomebodyAnswers,
     RepairsActAsAsked, FromTask, FromNumber, FromOperator, FromMedia, FromFill, FromLink, HasUrl, Reads, BuilderRuns, Absent
<1> QED
  BY <1>3, <1>4, <1>5, <1>6, <1>7 DEF Fills, Says, Rewrites

LEMMA AppendsLinkKeeps == ReplyInv /\ AppendsLink => ReplyInv'
<1> SUFFICES ASSUME ReplyInv, AppendsLink PROVE ReplyInv'
  OBVIOUS
<1>1. at = "link" /\ at' = "deliver" /\ told = Absent /\ UNCHANGED <<env, did, ran, steps, acted, told>>
  BY DEF AppendsLink, ReplyInv, Becomes, Heard
<1>2. CASE reply' = reply
  BY <1>1, <1>2 DEF ReplyInv, ReplyType, StepsKept, FirstTexts, Dropped, Passed, Refused, Worded, Heard, SomebodyAnswers,
     RepairsActAsAsked, FromTask, FromNumber, FromOperator, FromMedia, FromFill, FromLink, HasUrl, Reads, BuilderRuns, Absent
<1>3. CASE Has(steps, "create", {"google"}) /\ \E fetched \in BOOLEAN :
             reply' = [reply EXCEPT !.claims = @ \cup IF fetched THEN {"url", "recovery"} ELSE {"recovery"}]
  <2>1. BuilderRuns
    BY <1>3, HasRan, ToolsOf DEF ReplyInv, Ran
  <2>2. steps = ran /\ steps # {}
    BY <1>3 DEF ReplyInv, StepsKept, Has
  <2>3. /\ reply'.by = reply.by /\ reply'.claims \in {reply.claims \cup {"url", "recovery"}, reply.claims \cup {"recovery"}}
        /\ reply' = Text(reply'.by, reply'.claims)
    BY <1>3 DEF ReplyInv, ReplyType, Text
  <2> QED
    BY <1>1, <2>1, <2>2, <2>3 DEF ReplyInv, ReplyType, StepsKept, FirstTexts, Dropped, Passed, Refused, Worded, Heard, SomebodyAnswers,
     RepairsActAsAsked, FromTask, FromNumber, FromOperator, FromMedia, FromFill, FromLink, HasUrl, Reads, BuilderRuns, Absent
<1> QED
  BY <1>2, <1>3 DEF AppendsLink, Says

LEMMA DeliversKeeps == ReplyInv /\ Delivers => ReplyInv'
<1> SUFFICES ASSUME ReplyInv, Delivers PROVE ReplyInv'
  OBVIOUS
<1>1. at = "deliver" /\ at' = "over" /\ UNCHANGED <<env, did, ran, steps, acted, reply>>
  BY DEF Delivers, Becomes
<1>2. SomebodyAnswers'
  <2>1. SUFFICES ASSUME told' = "nothing"
                 PROVE  (Ran(ran, "notify") \/ Ran(ran, "media")) /\
                        reply.by \in {"model", "fileSent", "mediaRefused", "numberRefused", "seeUrl"}
    BY <1>1 DEF SomebodyAnswers
  <2>2. RepeatsNotice \/ RepeatsMedia
    BY <2>1 DEF Delivers
  <2>3. (Ran(steps, "notify") \/ Ran(steps, "media")) /\ steps # {}
    BY <2>2 DEF RepeatsNotice, RepeatsMedia, Ran
  <2>4. Ran(ran, "notify") \/ Ran(ran, "media")
    BY <2>3, ToolsOf DEF ReplyInv, Ran
  <2>5. ~BuilderRuns
    BY <2>4, ToolsOf DEF ReplyInv
  <2>6. reply.by # "auth"
    BY <2>3 DEF ReplyInv, Dropped
  <2> QED
    BY <2>2, <2>4, <2>5, <2>6 DEF RepeatsNotice, RepeatsMedia, ReplyInv, Worded
<1> QED
  BY <1>1, <1>2 DEF ReplyInv, ReplyType, StepsKept, FirstTexts, Dropped, Passed, Refused, Worded, Heard, RepairsActAsAsked,
     FromTask, FromNumber, FromOperator, FromMedia, FromFill, FromLink, HasUrl, Reads, BuilderRuns

LEMMA ReplyStep == ReplyInv /\ [Next]_vars => ReplyInv'
<1> SUFFICES ASSUME ReplyInv, [Next]_vars PROVE ReplyInv'
  OBVIOUS
<1>1. CASE UNCHANGED vars
  BY <1>1 DEF vars, ReplyInv, ReplyType, StepsKept, FirstTexts, Dropped, Passed, Refused, Worded, Heard, SomebodyAnswers,
     RepairsActAsAsked, FromTask, FromNumber, FromOperator, FromMedia, FromFill, FromLink, HasUrl, Reads, BuilderRuns, Absent, ArtifactIn
<1>2. CASE BlocksBeforeGraph \/ ToolRuns \/ ManagesEvent \/ WritesSheet \/ CreatesFile \/ ModelAnswers
  BY <1>2, BlocksKeeps, ToolRunsKeeps, ManagesEventKeeps, WritesSheetKeeps, CreatesFileKeeps, ModelAnswersKeeps
<1>3. CASE DeliversFile \/ FillsDocument \/ OverridesGoogle
  BY <1>3, DeliversFileKeeps, FillsDocumentKeeps, OverridesGoogleKeeps
<1>4. CASE GuardsTask \/ GuardsNumber \/ GuardsOperator \/ GuardsMedia
  BY <1>4, GuardsTaskKeeps, GuardsNumberKeeps, GuardsOperatorKeeps, GuardsMediaKeeps
<1>5. CASE Fills \/ AppendsLink \/ Delivers
  BY <1>5, FillsKeeps, AppendsLinkKeeps, DeliversKeeps
<1> QED
  BY <1>1, <1>2, <1>3, <1>4, <1>5 DEF Next

LEMMA ReplyAlways == Spec => []ReplyInv
  BY ReplyInit, ReplyStep, PTL DEF Spec

(* A claim of the model that reaches the user is borne out by a step of the *)
(* attempt that made it, however many steps and claims there are (the guard *)
(* chain of agent_runner.run_agent).                                        *)
THEOREM ClaimsBacked == Spec => []ClaimsAreBacked
<1>1. ReplyInv => ClaimsAreBacked
  BY DEF ReplyInv, Passed, Heard, ClaimsAreBacked, Claimed, Read, Absent, FromTask, FromNumber, FromOperator, FromMedia, FromFill, FromLink
<1> QED
  BY <1>1, ReplyAlways, PTL

(* A refusal that a guard of run_agent writes is true of the attempt it is  *)
(* about: nothing it denies was sent or run, no result it misses is there.  *)
THEOREM RefusalsTrue == Spec => []RefusalsAreTrue
<1>1. ReplyInv => RefusalsAreTrue
  BY DEF ReplyInv, Refused, RefusalsAreTrue, Read
<1> QED
  BY <1>1, ReplyAlways, PTL

(* should_skip_whatsapp_final_reply leaves nobody without a word: a reply   *)
(* is skipped only beside a tool that was to speak, and never a blocker, an *)
(* apology or a question.                                                   *)
THEOREM SomebodyAlwaysAnswers == Spec => []SomebodyAnswers
<1>1. ReplyInv => SomebodyAnswers
  BY DEF ReplyInv, Heard
<1> QED
  BY <1>1, ReplyAlways, PTL

(* A repaired Google call acts on the event or the tab that was asked for,  *)
(* for any calendar and any tabs.                                           *)
THEOREM RepairsAreAsAsked == Spec => []RepairsActAsAsked
<1>1. ReplyInv => RepairsActAsAsked
  BY DEF ReplyInv
<1> QED
  BY <1>1, ReplyAlways, PTL

-----------------------------------------------------------------------------
(* What a run has to work with.                                            *)
KitSpec == KitInit /\ [][KitNext]_kitVars

Given == ForAnyTurn \cup (IF setup.operator THEN {"operator"} ELSE ForCustomers)
Own == held \ {"google_workspace"}

KitShape ==
    /\ setup \in KitSetups
    /\ phase \in {"setup", "subagents", "telling", "google", "compiling", "running", "refused", "failed"}
    /\ graph = (IF phase = "running" THEN graph ELSE "none")
    /\ phase = "running" => graph \in {"deep", "react"}
    /\ phase # "running" => acts = {}
\* What is held is what the setup gives, but for what sub-agents change.
HeldAsGiven ==
    /\ phase = "setup" => held = {} /\ subs = {}
    /\ phase # "setup" => Own = (IF subs = {} THEN Given ELSE (Given \ {"deploy"}) \cup {"subagents"})
    /\ phase = "subagents" => subs = {} /\ Delegating
    /\ subs # {} => Delegating /\ subs \subseteq Subs
ClaimedAsStored ==
    phase \in {"google", "compiling", "running"} => claimed = {c \in Contract : c \in Own \/ Stored(c)}
GoogleAttached ==
    "google_workspace" \in held => /\ phase \in {"compiling", "running", "failed"}
                                   /\ GoogleOn /\ ~GoogleDenied
GraphAsBuilt == /\ setup.builder => graph # "deep"
                /\ graph = "react" /\ ~setup.builder => "sandbox" \notin held /\ subs = {}
ActsAllowed ==
    \A c \in acts : /\ c.google /\ c.tool \in LocalTools => ~(GoogleOn /\ ~GoogleDenied)
                    /\ setup.builder => c.by = "parent" /\ c.tool \notin LocalTools
                    /\ c.by = "parent" /\ c.tool = "deploy" => subs = {}
KitInv == KitShape /\ HeldAsGiven /\ ClaimedAsStored /\ GoogleAttached /\ GraphAsBuilt /\ ActsAllowed

LEMMA GivenIsNoneOfGoogles ==
    /\ "google_workspace" \notin Given
    /\ "subagents" \notin Given
    /\ setup.operator => Given \subseteq {"memory", "escalation", "operator"}
    /\ "sandbox" \in Given <=> Sandboxed
    /\ "deploy" \in Given => Sandboxed
BY DEF Given, ForAnyTurn, ForCustomers, Sandboxed

LEMMA KitInitHolds == KitInit => KitInv
BY SetupsAssumption DEF KitInit, KitInv, KitShape, HeldAsGiven, ClaimedAsStored, GoogleAttached, GraphAsBuilt, ActsAllowed

LEMMA SetupStays == ASSUME setup' = setup
                    PROVE  /\ Given' = Given /\ Delegating' = Delegating /\ GoogleOn' = GoogleOn
                           /\ GoogleDenied' = GoogleDenied
                           /\ \A c \in Contract : Stored(c)' = Stored(c)
BY DEF Given, ForAnyTurn, ForCustomers, Sandboxed, RemindsAnyway, On, Configured, ParentOnly, GoogleOn, Delegating,
       GoogleDenied, Stored

LEMMA KitStep == KitInv /\ [KitNext]_kitVars => KitInv'
<1> SUFFICES ASSUME KitInv, [KitNext]_kitVars PROVE KitInv'
  OBVIOUS
<1> USE DEF KitInv
<1>1. CASE SetsUp
  <2> USE <1>1 DEF SetsUp, Delegating
  <2>1. setup' = setup /\ held' = Given /\ subs' = {} /\ acts' = {} /\ graph' = "none" /\ phase' \in {"subagents", "telling"}
    BY DEF Given, KitShape, HeldAsGiven
  <2>2. phase' = "subagents" => Delegating
    BY DEF Delegating
  <2> QED BY <2>1, <2>2, SetupStays, GivenIsNoneOfGoogles
          DEF KitShape, HeldAsGiven, Own, ClaimedAsStored, GoogleAttached, GraphAsBuilt, ActsAllowed
<1>2. CASE BuildsSubagents
  <2> USE <1>2 DEF BuildsSubagents
  <2>1. setup' = setup /\ subs' \subseteq Subs /\ acts' = {} /\ graph' = "none" /\ phase' = "telling"
    BY DEF KitShape
  <2>2. held = Given /\ subs = {} /\ Delegating
    BY DEF HeldAsGiven, Own, GoogleAttached
  <2> QED BY <2>1, <2>2, SetupStays, GivenIsNoneOfGoogles
          DEF KitShape, HeldAsGiven, Own, ClaimedAsStored, GoogleAttached, GraphAsBuilt, ActsAllowed
<1>3. CASE Tells
  <2> USE <1>3 DEF Tells
  <2>1. Own = held
    BY DEF Own, GoogleAttached
  <2> QED BY <2>1, SetupStays
          DEF KitShape, HeldAsGiven, Own, ClaimedAsStored, GoogleAttached, GraphAsBuilt, ActsAllowed
<1>4. CASE Attaches
  <2> USE <1>4 DEF Attaches, Connects
  <2>1. /\ setup' = setup /\ subs' = subs /\ claimed' = claimed /\ graph' = graph /\ acts' = acts
        /\ phase' \in {"refused", "compiling"} /\ Own' = Own
    BY DEF Own
  <2>2. "google_workspace" \in held' => GoogleOn /\ ~GoogleDenied /\ phase' = "compiling"
    BY DEF GoogleAttached
  <2> QED BY <2>1, <2>2, SetupStays
          DEF KitShape, HeldAsGiven, ClaimedAsStored, GoogleAttached, GraphAsBuilt, ActsAllowed
<1>5. CASE Compiles
  <2> USE <1>5 DEF Compiles
  <2>1. /\ UNCHANGED <<setup, held, subs, claimed, acts>> /\ phase' \in {"running", "failed"} /\ Own' = Own
        /\ phase' = "running" => graph' \in {"deep", "react"}
        /\ phase' = "failed" => graph' = "none"
    BY DEF Own, KitShape
  <2>2. GraphAsBuilt'
    <3>1. setup.builder => "sandbox" \notin held
      BY GivenIsNoneOfGoogles DEF HeldAsGiven, Own, Sandboxed
    <3> QED BY <3>1, <2>1 DEF GraphAsBuilt, KitShape
  <2> QED BY <2>1, <2>2, SetupStays
          DEF KitShape, HeldAsGiven, ClaimedAsStored, GoogleAttached, ActsAllowed
<1>6. ASSUME NEW t \in Tools, NEW google \in BOOLEAN, Acts(t, google) PROVE KitInv'
  <2> USE <1>6 DEF Acts
  <2> DEFINE c == Call("parent", t, google)
  <2>1. UNCHANGED <<setup, phase, held, subs, claimed, graph>> /\ acts' = acts \cup {c} /\ Own' = Own
    BY DEF Own
  <2>2. c.tool = t /\ c.google = google /\ c.by = "parent"
    BY DEF Call
  <2>3. google /\ t \in LocalTools => ~(GoogleOn /\ ~GoogleDenied)
    <3>1. CASE graph = "deep"
      BY <3>1 DEF Blocked
    <3>2. CASE graph = "react"
      <4>1. "sandbox" \notin held
        BY <3>2, GivenIsNoneOfGoogles DEF GraphAsBuilt, HeldAsGiven, Own, Sandboxed
      <4>2. "task" \notin held /\ "files" \notin held
        BY DEF HeldAsGiven, Own, Given, ForAnyTurn, ForCustomers
      <4> QED BY <3>2, <4>1, <4>2 DEF Tools, LocalTools
    <3> QED BY <3>1, <3>2 DEF KitShape
  <2>4. setup.builder => t \notin LocalTools
    <3>1. setup.builder => graph # "deep" /\ "sandbox" \notin held
      BY GivenIsNoneOfGoogles DEF GraphAsBuilt, HeldAsGiven, Own, Sandboxed
    <3>2. "task" \notin held /\ "files" \notin held
      BY DEF HeldAsGiven, Own, Given, ForAnyTurn, ForCustomers
    <3> QED BY <3>1, <3>2 DEF Tools, LocalTools
  <2>5. t = "deploy" => subs = {}
    BY DEF Tools, HeldAsGiven, Own
  <2>6. ActsAllowed'
    BY <2>1, <2>2, <2>3, <2>4, <2>5, SetupStays DEF ActsAllowed
  <2> HIDE DEF c
  <2> QED BY <2>1, <2>6, SetupStays DEF KitShape, HeldAsGiven, ClaimedAsStored, GoogleAttached, GraphAsBuilt
<1>7. ASSUME NEW s \in subs, NEW t \in {"sandbox", "deploy"}, Delegates(s, t) PROVE KitInv'
  <2> USE <1>7 DEF Delegates
  <2> DEFINE c == Call(s, t, FALSE)
  <2>1. UNCHANGED <<setup, phase, held, subs, claimed, graph>> /\ acts' = acts \cup {c} /\ Own' = Own
    BY DEF Own
  <2>2. ~c.google /\ c.by = s /\ s # "parent"
    BY KitBounds DEF Call, HeldAsGiven
  <2>3. ~setup.builder
    BY DEF HeldAsGiven, Delegating
  <2> HIDE DEF c
  <2>4. ActsAllowed'
    <3>1. ASSUME NEW x \in acts'
          PROVE  /\ x.google /\ x.tool \in LocalTools => ~(GoogleOn /\ ~GoogleDenied)
                 /\ setup.builder => x.by = "parent" /\ x.tool \notin LocalTools
                 /\ x.by = "parent" /\ x.tool = "deploy" => subs = {}
      <4>1. CASE x \in acts
        BY <4>1 DEF ActsAllowed
      <4>2. CASE x = c
        BY <4>2, <2>2, <2>3
      <4> QED BY <3>1, <4>1, <4>2, <2>1
    <3>2. setup' = setup /\ subs' = subs
      BY <2>1
    <3> QED BY <3>1, <3>2 DEF ActsAllowed, GoogleOn, GoogleDenied
  <2> QED BY <2>1, <2>4, SetupStays DEF KitShape, HeldAsGiven, ClaimedAsStored, GoogleAttached, GraphAsBuilt
<1>8. CASE UNCHANGED kitVars
  BY <1>8, SetupStays DEF kitVars, KitShape, HeldAsGiven, Own, ClaimedAsStored, GoogleAttached, GraphAsBuilt, ActsAllowed
<1> QED BY <1>1, <1>2, <1>3, <1>4, <1>5, <1>6, <1>7, <1>8 DEF KitNext

LEMMA KitInvSuffices == KitInv => KitHolds
<1> SUFFICES ASSUME KitInv PROVE KitHolds
  OBVIOUS
<1> USE DEF KitInv
<1>1. ClaimsCanBeCalled
  <2> SUFFICES ASSUME Ready, NEW c \in claimed, c \notin held, ~Missing(c), ~(c = "deploy" /\ SubDeploys)
               PROVE  FALSE
    BY DEF ClaimsCanBeCalled
  <2>1. c \in Contract /\ Stored(c)
    BY DEF Ready, ClaimedAsStored, Own
  <2>2. setup.tools[c] = "true" /\ ~setup.operator /\ c # "google_workspace"
    BY <2>1 DEF Stored, Missing
  <2>3. Own = (IF subs = {} THEN Given ELSE (Given \ {"deploy"}) \cup {"subagents"}) /\ c \notin Own
    BY DEF Ready, HeldAsGiven, Own
  <2>4. c \notin {"memory", "escalation", "scheduler", "tavily", "whatsapp_media"}
    BY <2>2, <2>3 DEF Given, ForAnyTurn, ForCustomers, On, Configured, Missing, ForSandboxes
  <2>5. c \notin {"sandbox", "deploy"}
    BY <2>2, <2>3 DEF Given, ForCustomers, Sandboxed, On, Configured, Missing, ForSandboxes
  <2>6. c # "subagents"
    BY <2>3 DEF Missing
  <2> QED BY <2>1, <2>2, <2>4, <2>5, <2>6 DEF Contract
<1>2. NothingHidden
  <2> SUFFICES ASSUME Ready, NEW c \in held \cap HighRisk, c \notin claimed PROVE setup.tools[c] = "unsaid"
    BY DEF NothingHidden
  <2>1. c \in Contract /\ c \notin Own /\ ~Stored(c)
    BY DEF Ready, ClaimedAsStored, HighRisk, Contract
  <2>2. c = "google_workspace"
    BY <2>1 DEF Own
  <2> QED BY <2>1, <2>2 DEF GoogleAttached, GoogleOn, Stored
<1>3. GoogleIsForAdmins
  BY DEF GoogleIsForAdmins, GoogleAttached, GoogleDenied, ActsAllowed
<1>4. TurnsKeepToTheirWork
  <2>1. ASSUME Ready, setup.operator PROVE subs = {} /\ held \subseteq {"memory", "escalation", "operator", "google_workspace"}
    BY <2>1, GivenIsNoneOfGoogles DEF Ready, HeldAsGiven, Delegating, Own
  <2> QED BY <2>1 DEF TurnsKeepToTheirWork, ActsAllowed
<1> QED BY <1>1, <1>2, <1>3, <1>4 DEF KitHolds

\* For any agents, sub-agents and calls: what the prompt of a run calls active
\* can be called but for the reasons named, nothing high-risk is held that the
\* prompt denies, Google's tools are for those who may use them, and turns of
\* operators, builders and sub-agents keep to their own work.
THEOREM KitAlwaysHolds == KitSpec => []KitHolds
<1>1. KitSpec => []KitInv
  BY KitInitHolds, KitStep, PTL DEF KitSpec
<1> QED BY <1>1, KitInvSuffices, PTL

-----------------------------------------------------------------------------
(* Accounts.                                                                *)
PlanNames == {"trial", "starter", "pro"}
Numbers == {"number", "other"}
UserRecord == [ext : {"none", "own", "merged"} \cup Identities, phone : {"none"} \cup Numbers, lid : {"none", "hidden"}]
SubRecord == [status : {"none", "trial", "active", "grace_period", "expired", "merged"}, plan : PlanNames, quota : Nat, used : Nat]
AgentRecord == [live : BOOLEAN, owner : {"none"} \cup Identities, used : Nat, quota : Nat, lapsed : BOOLEAN]
Ledger == [quota : [Rows -> Nat], used : [Rows -> Nat], agent : [Agents -> Nat]]
CallRecord == [at : {"idle", "open"}, do : {"none", "provision", "build", "post", "topup", "upgrade", "activate", "delete", "renew",
                                            "run", "unpaid", "usage", "claim"},
               on : Rows \cup {"none"}, who : SUBSET (Identities \cup PlanNames), ref : {"none"} \cup Agents \cup References \cup Codes,
               read : SubRecord, seen : Nat, rows : SUBSET Rows]

AccountType ==
    /\ user \in [Rows -> UserRecord] /\ sub \in [Rows -> SubRecord] /\ agent \in [Agents -> AgentRecord]
    /\ call \in [Calls -> CallRecord] /\ \A r \in Calls : call[r].at = "idle" => call[r] = NoCall
    /\ due \in Ledger
    /\ code \in [Codes -> [state : {"none", "open", "expired", "used"}, by : SUBSET SUBSET Identities]]

(* A row bears its own identity or none any more; only the dashboard's has  *)
(* a number, which was linked to it.                                        *)
RowsOwn ==
    /\ user["web"].ext = "own" /\ \A i \in Identities : user[i].ext \in {"none", "merged", i} /\ user[i].phone = "none"
    /\ \A i \in Identities : user["web"].phone = i => Marked("linked", i) /\ Marked("moved", i)
    /\ \A i \in Identities : user[i].ext = i => sub[i].status # "none"
    /\ \A u \in Rows : sub[u].status = "none" => sub[u] = NoSub
    /\ \A a \in Agents : agent[a].owner = "none" => agent[a] = NoAgent

FoundBy(i, u) == user[u].ext # "none" /\ i \in {user[u].ext, user[u].phone, user[u].lid}

(* What a request in flight can rely on.                                    *)
MadeFor(q) == IF q.rows = {} THEN q.on = Known(q) ELSE user[q.on].ext # "none"
CallHolds(q) ==
    /\ q.do \in {"provision", "build", "topup", "upgrade", "activate", "usage"} => q.on \in Rows
    /\ q.do = "provision" => q.who \in {{i} : i \in Identities} \cup {{"number", "hidden"}} /\ MadeFor(q)
    /\ q.do \in {"build", "post"} => q.ref \in Agents /\ agent[q.ref] = NoAgent /\ \E i \in Identities : q.who = {i}
    /\ q.do = "build" => /\ MadeFor(q) /\ q.seen < MaxAgents(q.read.plan)
                         /\ \A i \in q.who : q.rows # {} /\ ~Marked("moved", i) => FoundBy(i, q.on)
    /\ q.do \in {"topup", "upgrade", "usage"} => sub[q.on].status # "none" /\ q.read.status # "none"
    /\ q.do \in {"upgrade", "activate"} => \E p \in Plans : q.who = {p}
    /\ q.do \in {"delete", "renew", "run", "unpaid", "usage"} => q.ref \in Agents /\ agent[q.ref].owner \in Identities
    /\ q.do = "claim" => q.ref \in Codes /\ q.who \in Senders /\ q.rows \subseteq Identities
CallsHold ==
    /\ \A r \in Calls : CallHolds(call[r])
    /\ \A r, s \in Calls : call[r].do \in {"build", "post"} /\ call[s].do \in {"build", "post"} /\ call[r].ref = call[s].ref => r = s

OneFound == \A i \in Identities : ~Marked("twofold", i) => \A u, v \in Rows : FoundBy(i, u) /\ FoundBy(i, v) => u = v

(* Owners are found, and have room.                                         *)
Steady(i) == ~Marked("crowded", i) /\ ~Marked("moved", i)
OwnersFound == \A i \in Identities : Steady(i) /\ OwnedBy(i) # {} => \E u \in Rows : FoundBy(i, u)
RoomKept == \A i \in Identities, u \in Rows :
    Steady(i) /\ ~Marked("twofold", i) /\ FoundBy(i, u) => Cardinality(OwnedBy(i)) <= MaxAgents(TrialFor(u).plan)

StillFound == \A i \in Identities :
    user[i].ext = "merged" => FoundBy(i, "web") \/ \E j \in Identities \ {i} : Marked("linked", j)

AccountInv ==
    /\ AccountType /\ RowsOwn /\ CallsHold
    /\ PaymentsAndUsageAddUp /\ OneFound /\ OwnersFound /\ RoomKept /\ OwnersPay /\ StillFound

LEMMA PlanBounds == \A p : MaxAgents(p) \in 1..2 /\ PlanQuota(p) \in 1..3
  BY DEF MaxAgents, PlanQuota

LEMMA NewSubs ==
  ASSUME NEW p \in PlanNames
  PROVE  /\ NewSub(p) \in SubRecord /\ NewSub(p).status # "none" /\ NewSub(p).plan = p
         /\ NewSub(p).used = 0 /\ NewSub(p).quota = PlanQuota(p)
  BY PlanBounds DEF NewSub, SubRecord, PlanNames

LEMMA PlansNamed == \A p \in Plans : p \in PlanNames
  BY AccountBounds DEF PlanNames

LEMMA NoSubTyped == NoSub \in SubRecord /\ NoSub.status = "none" /\ NoSub.used = 0 /\ NoSub.quota = 0 /\ NoSub.plan = "trial"
  BY DEF NoSub, SubRecord, PlanNames

LEMMA NoAgentTyped == NoAgent \in AgentRecord /\ NoAgent.used = 0 /\ NoAgent.owner = "none" /\ ~NoAgent.live
  BY DEF NoAgent, AgentRecord

LEMMA NoCallHolds == /\ NoCall \in CallRecord /\ NoCall.at = "idle" /\ NoCall.do = "none"
                     /\ CallHolds(NoCall)
<1>1. NoCall \in CallRecord /\ NoCall.do = "none" /\ NoCall.at = "idle"
  BY NoSubTyped DEF NoCall, CallRecord
<1> QED
  BY <1>1 DEF CallHolds

LEMMA KnownIs ==
  ASSUME NEW q
  PROVE  /\ \A i : q.who = {i} => Known(q) = i
         /\ q.who = {"number", "hidden"} => Known(q) = "number"
<1>1. ASSUME NEW i, q.who = {i} PROVE Known(q) = i
  BY <1>1 DEF Known
<1>2. ASSUME q.who = {"number", "hidden"} PROVE Known(q) = "number"
  <2>1. "number" \in q.who /\ "number" # "hidden"
    BY <1>2
  <2>2. \A j \in q.who : q.who = {j} \/ j # "hidden" => j = "number"
    BY <1>2
  <2> QED
    BY <2>1, <2>2 DEF Known
<1> QED
  BY <1>1, <1>2

LEMMA OwnedFinite ==
  ASSUME NEW i
  PROVE  IsFiniteSet(OwnedBy(i)) /\ Cardinality(OwnedBy(i)) \in Nat /\ (OwnedBy(i) = {} => Cardinality(OwnedBy(i)) = 0)
<1>1. OwnedBy(i) \in SUBSET Agents
  BY DEF OwnedBy
<1> QED
  BY <1>1, AccountBounds, FS_Subset, FS_CardinalityType, FS_EmptySet

LEMMA TrialTyped ==
  ASSUME NEW u \in Rows, sub[u] \in SubRecord
  PROVE  TrialFor(u) \in SubRecord /\ TrialFor(u).status # "none"
  BY NewSubs DEF TrialFor, PlanNames

LEMMA FoundMatching == \A i, u : u \in Matching(i) <=> u \in Rows /\ FoundBy(i, u)
  BY DEF Matching, FoundBy

LEMMA AccInit == AccountInit => AccountInv
<1> SUFFICES ASSUME AccountInit PROVE AccountInv
  OBVIOUS
<1> USE DEF AccountInit
<1>1. PICK s \in {NoSub} \cup {NewSub(p) : p \in Plans} : sub = [u \in Rows |-> IF u = "web" THEN s ELSE NoSub]
  OBVIOUS
<1>2. s \in SubRecord /\ s.used = 0 /\ (s.status = "none" => s = NoSub)
  BY <1>1, NewSubs, NoSubTyped, PlansNamed
<1>3. \A u \in Rows : sub[u] \in SubRecord /\ sub[u].used = 0 /\ (sub[u].status = "none" => sub[u] = NoSub)
  BY <1>1, <1>2, NoSubTyped
<1>4. \A i \in Identities : user[i] = NoUser
  BY DEF Rows, Identities
<1>5. user["web"].ext = "own" /\ user["web"].phone = "none" /\ user["web"].lid = "none"
  BY DEF Rows, NoUser
<1>6. \A i \in Identities, u \in Rows : ~FoundBy(i, u)
  BY <1>4, <1>5 DEF Rows, Identities, FoundBy, NoUser
<1>7. AccountType
  <2>1. user \in [Rows -> UserRecord]
    BY DEF UserRecord, NoUser
  <2>2. sub \in [Rows -> SubRecord]
    BY <1>1, <1>3
  <2>3. call \in [Calls -> CallRecord] /\ \A r \in Calls : call[r] = NoCall
    BY NoCallHolds
  <2>4. due \in Ledger
    BY <1>3 DEF SubRecord, Ledger
  <2>5. agent \in [Agents -> AgentRecord] /\ code \in [Codes -> [state : {"none", "open", "expired", "used"}, by : SUBSET SUBSET Identities]]
    BY NoAgentTyped
  <2> QED
    BY <2>1, <2>2, <2>3, <2>4, <2>5 DEF AccountType
<1>8. RowsOwn
  BY <1>3, <1>4, <1>5 DEF RowsOwn, NoUser, Identities, Rows
<1>9. CallsHold
  BY NoCallHolds DEF CallsHold
<1>10. PaymentsAndUsageAddUp
  BY <1>3, NoAgentTyped DEF PaymentsAndUsageAddUp
<1>11. \A i : OwnedBy(i) = {}
  BY NoAgentTyped DEF OwnedBy
<1>12. OneFound /\ OwnersFound /\ RoomKept /\ OwnersPay /\ StillFound
  BY <1>4, <1>6, <1>11 DEF OneFound, OwnersFound, RoomKept, OwnersPay, StillFound, Marked, NoUser
<1> QED
  BY <1>7, <1>8, <1>9, <1>10, <1>12 DEF AccountInv

(* A request that opens changes nothing but itself.                         *)
LEMMA OpensKeeps ==
  ASSUME AccountInv, NEW r \in Calls, NEW q \in CallRecord, Opens(r, q), CallHolds(q),
         q.do \in {"build", "post"} => \A s \in Calls : ~(call[s].do \in {"build", "post"} /\ call[s].ref = q.ref)
  PROVE  AccountInv'
<1> DEFINE o == [q EXCEPT !.at = "open"]
<1>1. call' = [call EXCEPT ![r] = o] /\ UNCHANGED <<user, sub, paid, agent, code, due, marks, changes>>
  BY DEF Opens
<1>2. /\ o \in CallRecord /\ o.at = "open" /\ o.do = q.do /\ o.on = q.on /\ o.who = q.who /\ o.ref = q.ref
      /\ o.read = q.read /\ o.seen = q.seen /\ o.rows = q.rows
  BY DEF CallRecord
<1>3. AccountType'
  BY <1>1, <1>2 DEF AccountInv, AccountType
<1>4. Known(o) = Known(q)
  BY <1>2 DEF Known
<1>5. CallHolds(o)
  BY <1>2, <1>4 DEF CallHolds, MadeFor
<1>6. \A s \in Calls : call'[s] = IF s = r THEN o ELSE call[s]
  BY <1>1 DEF AccountInv, AccountType
<1>7. \A s \in Calls : CallHolds(call'[s])
  BY <1>5, <1>6 DEF AccountInv, CallsHold
<1>8. \A s \in Calls : CallHolds(call[s])'
  BY <1>1, <1>7 DEF CallHolds, MadeFor, FoundBy, Marked
<1>9. \A s, t \in Calls : call'[s].do \in {"build", "post"} /\ call'[t].do \in {"build", "post"} /\ call'[s].ref = call'[t].ref => s = t
  <2>1. ASSUME NEW s \in Calls, NEW t \in Calls, call'[s].do \in {"build", "post"}, call'[t].do \in {"build", "post"},
               call'[s].ref = call'[t].ref, s # t
        PROVE  FALSE
    <3>1. CASE s # r /\ t # r
      BY <1>6, <2>1, <3>1 DEF AccountInv, CallsHold
    <3>2. CASE s = r
      <4>1. call'[s] = o /\ call'[t] = call[t]
        BY <1>6, <2>1, <3>2
      <4>2. q.do \in {"build", "post"} /\ call[t].do \in {"build", "post"} /\ call[t].ref = q.ref
        BY <1>2, <2>1, <4>1
      <4> QED
        BY <4>2
    <3>3. CASE t = r
      <4>1. call'[t] = o /\ call'[s] = call[s]
        BY <1>6, <2>1, <3>3
      <4>2. q.do \in {"build", "post"} /\ call[s].do \in {"build", "post"} /\ call[s].ref = q.ref
        BY <1>2, <2>1, <4>1
      <4> QED
        BY <4>2
    <3> QED
      BY <3>1, <3>2, <3>3
  <2> QED
    BY <2>1
<1>10. CallsHold'
  BY <1>8, <1>9 DEF CallsHold
<1>11. /\ RowsOwn' /\ PaymentsAndUsageAddUp' /\ OneFound' /\ OwnersFound' /\ RoomKept' /\ OwnersPay' /\ StillFound'
  BY <1>1 DEF AccountInv, RowsOwn, PaymentsAndUsageAddUp, OneFound, OwnersFound, RoomKept, OwnersPay, StillFound, Marked, Steady, FoundBy,
     OwnedBy, TrialFor
<1> QED
  BY <1>3, <1>10, <1>11 DEF AccountInv

LEMMA BeginsKeeps ==
  ASSUME AccountInv, NEW r \in Calls, Begins(r)
  PROVE  AccountInv'
<1> USE DEF AccountInv, AccountType
<1>1. CASE \E i \in Identities, learns \in BOOLEAN : Provision(r, i, learns)
  <2>1. PICK i \in Identities, learns \in BOOLEAN : Provision(r, i, learns)
    BY <1>1
  <2>2. PICK j \in Resolved(i), u \in Rows :
           /\ Provisions(j, learns, u) /\ (learns => j = "number")
           /\ Opens(r, [NoCall EXCEPT !.do = "provision", !.on = u, !.who = {j} \cup (IF learns THEN {"hidden"} ELSE {}), !.rows = Matching(j)])
    BY Zenon, <2>1 DEF Provision
  <2> DEFINE q == [NoCall EXCEPT !.do = "provision", !.on = u, !.who = {j} \cup (IF learns THEN {"hidden"} ELSE {}), !.rows = Matching(j)]
  <2>3. j \in Identities
    BY <2>2 DEF Resolved, RowsOwn, UserRecord, Numbers, Identities, Rows
  <2>4. /\ q.do = "provision" /\ q.on = u /\ q.who = {j} \cup (IF learns THEN {"hidden"} ELSE {}) /\ q.rows = Matching(j)
        /\ q \in CallRecord
    BY Zenon, <2>3, NoCallHolds DEF NoCall, CallRecord, Matching, Identities
  <2>5. q.who \in {{i1} : i1 \in Identities} \cup {{"number", "hidden"}} /\ Known(q) = j
    <3>1. CASE learns
      <4>1. j = "number" /\ q.who = {"number", "hidden"}
        BY <2>2, <2>4, <3>1
      <4> HIDE DEF q
      <4> QED
        BY <4>1, KnownIs
    <3>2. CASE ~learns
      <4>1. q.who = {j}
        BY <2>4, <3>2
      <4> QED
        BY <2>3, <4>1, KnownIs
    <3> QED
      BY <3>1, <3>2
  <2>6. MadeFor(q)
    BY <2>2, <2>4, <2>5, FoundMatching DEF MadeFor, Provisions, FoundBy
  <2>7. CallHolds(q)
    BY <2>4, <2>5, <2>6 DEF CallHolds
  <2> QED
    BY <2>2, <2>4, <2>7, OpensKeeps
<1>2. CASE \E u \in Rows, ref \in References : Topup(r, u, ref)
  <2>1. PICK u \in Rows, ref \in References : Topup(r, u, ref)
    BY <1>2
  <2> DEFINE q == [NoCall EXCEPT !.do = "topup", !.on = u, !.ref = ref, !.read = sub[u]]
  <2>2. q \in CallRecord /\ q.do = "topup" /\ q.on = u /\ q.read = sub[u]
    BY NoCallHolds DEF NoCall, CallRecord
  <2>3. CallHolds(q)
    BY <2>1, <2>2 DEF CallHolds, Topup
  <2> QED
    BY <2>1, <2>2, <2>3, OpensKeeps DEF Topup, ReadsSub
<1>3. CASE \E u \in Rows, ref \in References, p \in Plans : Upgrade(r, u, ref, p)
  <2>1. PICK u \in Rows, ref \in References, p \in Plans : Upgrade(r, u, ref, p)
    BY <1>3
  <2> DEFINE q == [NoCall EXCEPT !.do = "upgrade", !.on = u, !.ref = ref, !.read = sub[u], !.who = {p}]
  <2>0. {p} \in SUBSET (Identities \cup PlanNames) /\ sub[u] \in SubRecord
    BY PlansNamed
  <2>2. q \in CallRecord /\ q.do = "upgrade" /\ q.on = u /\ q.read = sub[u] /\ q.who = {p}
    BY <2>0, NoCallHolds DEF NoCall, CallRecord
  <2>3. CallHolds(q)
    BY <2>1, <2>2 DEF CallHolds, Upgrade
  <2> QED
    BY <2>1, <2>2, <2>3, OpensKeeps DEF Upgrade
<1>4. CASE \E u \in Rows, p \in Plans : Activate(r, u, p)
  <2>1. PICK u \in Rows, p \in Plans : Activate(r, u, p)
    BY <1>4
  <2> DEFINE q == [NoCall EXCEPT !.do = "activate", !.on = u, !.who = {p}]
  <2>0. {p} \in SUBSET (Identities \cup PlanNames)
    BY PlansNamed
  <2>2. q \in CallRecord /\ q.do = "activate" /\ q.on = u /\ q.who = {p}
    BY <2>0, NoCallHolds DEF NoCall, CallRecord
  <2>3. CallHolds(q)
    BY <2>1, <2>2 DEF CallHolds, Activate
  <2> QED
    BY <2>1, <2>2, <2>3, OpensKeeps DEF Activate
<1>5. CASE \E i \in Identities, a \in Agents : Build(r, i, a)
  <2>1. PICK i \in Identities, a \in Agents : Build(r, i, a)
    BY <1>5
  <2>2. PICK u \in Rows :
           /\ Provisions(i, FALSE, u) /\ SlotLeft(i, u) /\ agent[a] = NoAgent
           /\ \A s \in Calls : ~(call[s].do \in {"build", "post"} /\ call[s].ref = a)
           /\ Opens(r, [NoCall EXCEPT !.do = "build", !.on = u, !.who = {i}, !.ref = a, !.read = TrialFor(u),
                                      !.seen = Cardinality(OwnedBy(i)), !.rows = Matching(i)])
    BY Zenon, <2>1 DEF Build
  <2> DEFINE q == [NoCall EXCEPT !.do = "build", !.on = u, !.who = {i}, !.ref = a, !.read = TrialFor(u),
                                      !.seen = Cardinality(OwnedBy(i)), !.rows = Matching(i)]
  <2>3. /\ q.do = "build" /\ q.on = u /\ q.who = {i} /\ q.ref = a /\ q.read = TrialFor(u) /\ q.seen = Cardinality(OwnedBy(i))
        /\ q.rows = Matching(i) /\ q \in CallRecord
    BY Zenon, NoCallHolds, TrialTyped, OwnedFinite DEF NoCall, CallRecord, Matching
  <2>4. Known(q) = i
    BY <2>3, KnownIs
  <2>5. MadeFor(q) /\ (q.rows # {} => FoundBy(i, u))
    BY <2>2, <2>3, <2>4, FoundMatching DEF MadeFor, Provisions, FoundBy
  <2>6. CallHolds(q)
    BY <2>2, <2>3, <2>5 DEF CallHolds, SlotLeft
  <2> QED
    BY <2>2, <2>3, <2>6, OpensKeeps
<1>6. CASE \E i \in Identities, a \in Agents : Post(r, i, a)
  <2>1. PICK i \in Identities, a \in Agents : Post(r, i, a)
    BY <1>6
  <2> DEFINE q == [NoCall EXCEPT !.do = "post", !.ref = a, !.who = {i}]
  <2>2. q \in CallRecord /\ q.do = "post" /\ q.ref = a /\ q.who = {i}
    BY NoCallHolds DEF NoCall, CallRecord
  <2>3. CallHolds(q)
    BY <2>1, <2>2 DEF CallHolds, Post
  <2> QED
    BY <2>1, <2>2, <2>3, OpensKeeps DEF Post
<1>7. CASE \E a \in Agents, do \in {"delete", "renew", "run"} : ReadsAgent(r, do, a)
  <2>1. PICK a \in Agents, do \in {"delete", "renew", "run"} : ReadsAgent(r, do, a)
    BY <1>7
  <2> DEFINE q == [NoCall EXCEPT !.do = do, !.ref = a, !.seen = agent[a].used]
  <2>2. q \in CallRecord /\ q.do = do /\ q.ref = a
    BY NoCallHolds DEF NoCall, CallRecord, AgentRecord
  <2>3. agent[a].owner \in Identities
    BY <2>1, NoAgentTyped DEF ReadsAgent, RowsOwn, AgentRecord
  <2>4. CallHolds(q)
    BY <2>2, <2>3 DEF CallHolds
  <2> QED
    BY <2>1, <2>2, <2>4, OpensKeeps DEF ReadsAgent
<1>8. CASE \E c \in Codes, who \in Senders : Claim(r, c, who)
  <2>1. PICK c \in Codes, who \in Senders : Claim(r, c, who)
    BY <1>8
  <2> DEFINE q == [NoCall EXCEPT !.do = "claim", !.ref = c, !.who = who, !.rows = Shadows(who)]
  <2>2. Shadows(who) \subseteq Identities
    BY DEF Shadows, Rows
  <2>3. q \in CallRecord /\ q.do = "claim" /\ q.ref = c /\ q.who = who /\ q.rows = Shadows(who)
    BY <2>2, NoCallHolds DEF NoCall, CallRecord, Senders, Identities, Rows
  <2>4. CallHolds(q)
    BY <2>2, <2>3 DEF CallHolds
  <2> QED
    BY <2>1, <2>3, <2>4, OpensKeeps DEF Claim
<1> QED
  BY <1>1, <1>2, <1>3, <1>4, <1>5, <1>6, <1>7, <1>8 DEF Begins, Delete, Renew, Admits

-----------------------------------------------------------------------------
(* What no step undoes, and so what a request in flight keeps relying on.   *)
NeverUndone ==
    /\ marks \subseteq marks'
    /\ \A u \in Rows : user[u].ext # "none" => user'[u].ext # "none"
    /\ \A u \in Rows : sub[u].status # "none" => sub'[u].status # "none"
    /\ \A a \in Agents : agent[a].owner \in Identities => agent'[a].owner \in Identities
    /\ \A i \in Identities, u \in Rows : ~Marked("moved", i)' /\ FoundBy(i, u) => FoundBy(i, u)'

LEMMA HoldsOn ==
  ASSUME NEW q \in CallRecord, CallHolds(q), NeverUndone,
         q.do \in {"build", "post"} => agent'[q.ref] = NoAgent
  PROVE  CallHolds(q)'
<1>1. MadeFor(q) /\ q.on \in Rows => MadeFor(q)'
  BY DEF MadeFor, NeverUndone
<1>2. \A i \in Identities : ~Marked("moved", i)' => ~Marked("moved", i)
  BY Zenon DEF Marked, NeverUndone
<1>3. q.do = "build" => \A i \in q.who : i \in Identities
  BY DEF CallHolds
<1>4. q.do = "build" => \A i \in q.who : q.rows # {} /\ ~Marked("moved", i)' => FoundBy(i, q.on)'
  BY <1>2, <1>3 DEF CallHolds, NeverUndone
<1> QED
  BY <1>1, <1>4 DEF CallHolds, NeverUndone

LEMMA CallsFrame ==
  ASSUME AccountInv, NeverUndone, NEW r,
         \/ call' = [call EXCEPT ![r] = NoCall]
         \/ UNCHANGED call,
         \A a \in Agents : agent[a] = NoAgent => \/ agent'[a] = NoAgent
                                                 \/ /\ r \in Calls /\ call[r].do \in {"build", "post"} /\ call[r].ref = a
                                                    /\ call' = [call EXCEPT ![r] = NoCall]
  PROVE  /\ CallsHold' /\ call' \in [Calls -> CallRecord]
         /\ \A s \in Calls : call'[s].at = "idle" => call'[s] = NoCall
<1>1. \A s \in Calls : call'[s] = call[s] \/ call'[s] = NoCall
  BY DEF AccountInv, AccountType
<1>2. call' \in [Calls -> CallRecord] /\ \A s \in Calls : call'[s].at = "idle" => call'[s] = NoCall
  BY NoCallHolds DEF AccountInv, AccountType
<1>3. ASSUME NEW s \in Calls PROVE CallHolds(call[s])'
  <2>1. CASE call'[s] = NoCall
    <3>1. call'[s].do = "none"
      BY <2>1, NoCallHolds
    <3> QED
      BY <2>1, <3>1 DEF CallHolds
  <2>2. CASE call'[s] # NoCall
    <3>1. call'[s] = call[s] /\ call[s] \in CallRecord /\ CallHolds(call[s])
      BY <1>1, <2>2 DEF AccountInv, AccountType, CallsHold
    <3>2. call' = [call EXCEPT ![r] = NoCall] => s # r
      BY <2>2 DEF AccountInv, AccountType
    <3>3. call[s].do \in {"build", "post"} => agent'[call[s].ref] = NoAgent
      BY <3>1, <3>2 DEF CallHolds, AccountInv, CallsHold
    <3>4. \A q \in CallRecord : CallHolds(q) /\ (q.do \in {"build", "post"} => agent'[q.ref] = NoAgent) => CallHolds(q)'
      BY HoldsOn
    <3>5. \A q \in CallRecord : call'[s] = q /\ CallHolds(q)' => CallHolds(call[s])'
      BY DEF CallHolds, MadeFor, Known
    <3> QED
      BY <3>1, <3>3, <3>4, <3>5
  <2> QED
    BY <2>1, <2>2
<1>4. \A s, t \in Calls : call'[s].do \in {"build", "post"} /\ call'[t].do \in {"build", "post"} /\ call'[s].ref = call'[t].ref => s = t
  BY <1>1, NoCallHolds DEF AccountInv, CallsHold
<1> QED
  BY <1>2, <1>3, <1>4 DEF CallsHold

(* Owners keep their room where they have no more agents, and their plans   *)
(* do not shrink.                                                           *)
LEMMA RoomFrame ==
  ASSUME AccountInv, NeverUndone, OneFound', NEW i \in Identities,
         \A u \in Rows : Steady(i)' /\ FoundBy(i, u) => MaxAgents(TrialFor(u).plan) <= MaxAgents(TrialFor(u).plan)',
         OwnedBy(i)' \subseteq OwnedBy(i)
  PROVE  /\ Steady(i)' /\ OwnedBy(i)' # {} => \E u \in Rows : FoundBy(i, u)'
         /\ \A u \in Rows : Steady(i)' /\ ~Marked("twofold", i)' /\ FoundBy(i, u)' => Cardinality(OwnedBy(i)') <= MaxAgents(TrialFor(u).plan)'
<1>1. Steady(i)' => Steady(i) /\ ~Marked("moved", i)'
  BY DEF Steady, Marked, NeverUndone
<1>2. ~Marked("twofold", i)' => ~Marked("twofold", i)
  BY DEF Marked, NeverUndone
<1>3. Steady(i)' /\ OwnedBy(i)' # {} => \E u \in Rows : FoundBy(i, u) /\ FoundBy(i, u)'
  BY <1>1 DEF AccountInv, OwnersFound, NeverUndone
<1>4. Cardinality(OwnedBy(i)') <= Cardinality(OwnedBy(i)) /\ (OwnedBy(i)' = {} => Cardinality(OwnedBy(i)') = 0)
  BY OwnedFinite, FS_Subset, FS_EmptySet
<1>5. ASSUME NEW u \in Rows, Steady(i)', ~Marked("twofold", i)', FoundBy(i, u)'
      PROVE  Cardinality(OwnedBy(i)') <= MaxAgents(TrialFor(u).plan)'
  <2>1. MaxAgents(TrialFor(u).plan)' \in 1..2
    BY DEF MaxAgents
  <2>2. CASE OwnedBy(i)' = {}
    BY <1>4, <2>1, <2>2
  <2>3. CASE OwnedBy(i)' # {}
    <3>1. PICK v \in Rows : FoundBy(i, v) /\ FoundBy(i, v)'
      BY <1>3, <1>5, <2>3
    <3>2. v = u
      BY <1>5, <3>1 DEF OneFound
    <3>3. Cardinality(OwnedBy(i)) <= MaxAgents(TrialFor(u).plan)
      BY <1>1, <1>2, <1>5, <3>1, <3>2 DEF AccountInv, RoomKept
    <3>4. MaxAgents(TrialFor(u).plan) <= MaxAgents(TrialFor(u).plan)'
      BY <1>5, <3>1, <3>2
    <3>5. /\ MaxAgents(TrialFor(u).plan) \in Nat /\ Cardinality(OwnedBy(i)) \in Nat
          /\ Cardinality(OwnedBy(i)') \in Nat
      <4>1. IsFiniteSet(OwnedBy(i)')
        BY OwnedFinite, FS_Subset
      <4> QED
        BY <4>1, OwnedFinite, FS_CardinalityType, PlanBounds
    <3> QED
      BY <1>4, <2>1, <3>3, <3>4, <3>5
  <2> QED
    BY <2>2, <2>3
<1> QED
  BY <1>3, <1>5

(* Steps that leave every row's identities as they are and add no agent.    *)
LEMMA UsersStay ==
  ASSUME AccountInv, UNCHANGED user, marks \subseteq marks'
  PROVE  /\ \A i \in Identities, u \in Rows : FoundBy(i, u)' <=> FoundBy(i, u)
         /\ OneFound' /\ StillFound'
         /\ \A i \in Identities : Steady(i)' => Steady(i)
<1>1. \A i \in Identities, u \in Rows : FoundBy(i, u)' <=> FoundBy(i, u)
  BY DEF FoundBy
<1>2. \A m : m \in marks => m \in marks'
  OBVIOUS
<1>3. OneFound'
  BY <1>1, <1>2 DEF AccountInv, OneFound, Marked
<1>4. StillFound'
  BY <1>1, <1>2 DEF AccountInv, StillFound, Marked, FoundBy, Rows
<1> QED
  BY <1>1, <1>2, <1>3, <1>4 DEF Steady, Marked

LEMMA BooksKept ==
  ASSUME AccountInv, UNCHANGED user, marks \subseteq marks', NEW r,
         \/ call' = [call EXCEPT ![r] = NoCall]
         \/ UNCHANGED call,
         sub' \in [Rows -> SubRecord], agent' \in [Agents -> AgentRecord],
         due' \in Ledger,
         code' \in [Codes -> [state : {"none", "open", "expired", "used"}, by : SUBSET SUBSET Identities]],
         \A u \in Rows : sub'[u].status = "none" => sub[u].status = "none" /\ sub'[u] = NoSub,
         \A a \in Agents : /\ agent[a] = NoAgent => agent'[a] = NoAgent
                           /\ agent'[a].owner = agent[a].owner /\ (agent'[a].live => agent[a].live),
         \A i \in Identities : Marked("free", i)' => Marked("free", i),
         \A i \in Identities, u \in Rows :
             Steady(i)' /\ FoundBy(i, u) => MaxAgents(TrialFor(u).plan) <= MaxAgents(TrialFor(u).plan)',
         PaymentsAndUsageAddUp'
  PROVE  AccountInv'
<1>1. /\ \A i \in Identities, u \in Rows : FoundBy(i, u)' <=> FoundBy(i, u)
      /\ OneFound' /\ StillFound'
  BY UsersStay
<1>2. \A m : m \in marks => m \in marks'
  OBVIOUS
<1>3. NeverUndone
  BY <1>1, <1>2 DEF NeverUndone, Marked
<1>4. /\ CallsHold' /\ call' \in [Calls -> CallRecord]
      /\ \A s \in Calls : call'[s].at = "idle" => call'[s] = NoCall
  BY <1>3, CallsFrame
<1>5. AccountType'
  BY <1>4 DEF AccountInv, AccountType
<1>6. RowsOwn'
  BY <1>2, NoAgentTyped DEF AccountInv, RowsOwn, Marked, Rows
<1>7. \A i \in Identities : OwnedBy(i)' \subseteq OwnedBy(i)
  BY DEF OwnedBy
<1>8. OwnersFound' /\ RoomKept'
  <2>1. ASSUME NEW i \in Identities
        PROVE  /\ Steady(i)' /\ OwnedBy(i)' # {} => \E u \in Rows : FoundBy(i, u)'
               /\ \A u \in Rows : Steady(i)' /\ ~Marked("twofold", i)' /\ FoundBy(i, u)' => Cardinality(OwnedBy(i)') <= MaxAgents(TrialFor(u).plan)'
    BY <1>1, <1>3, <1>7, RoomFrame
  <2> QED
    BY <2>1 DEF OwnersFound, RoomKept
<1>9. OwnersPay'
  BY <1>2 DEF AccountInv, OwnersPay, Marked
<1> QED
  BY <1>1, <1>4, <1>5, <1>6, <1>8, <1>9 DEF AccountInv

LEMMA WrittenSub ==
  ASSUME NEW u \in Rows, sub[u] \in SubRecord, NEW read \in SubRecord, NEW new \in SubRecord
  PROVE  LET w == SubWritten(u, read, new)
         IN /\ w \in SubRecord
            /\ w.status = (IF new.status = read.status THEN sub[u].status ELSE new.status)
            /\ w.plan = (IF new.plan = read.plan THEN sub[u].plan ELSE new.plan)
            /\ w.quota = (IF new.quota = read.quota THEN sub[u].quota ELSE new.quota)
            /\ w.used = (IF new.used = read.used THEN sub[u].used ELSE new.used)
<1>1. DOMAIN new = {"status", "plan", "quota", "used"}
  BY DEF SubRecord
<1>2. SubWritten(u, read, new) = [c \in {"status", "plan", "quota", "used"} |-> IF new[c] = read[c] THEN sub[u][c] ELSE new[c]]
  BY <1>1 DEF SubWritten, Written
<1> QED
  BY <1>2 DEF SubRecord

LEMMA OverwritesMark ==
  ASSUME NEW u, NEW read, NEW columns, Overwrites(u, read, columns) \subseteq marks', ~Marked("overwritten", u)'
  PROVE  \A c \in columns : sub[u][c] = read[c]
  BY DEF Overwrites, Marked

LEMMA OtherMarks == \A u, v, read, columns, p : /\ <<"free", v>> \notin Overwrites(u, read, columns)
                                                /\ <<"free", v>> \notin Crowds(u, p)
  BY DEF Overwrites, Crowds


(* A request that ends without a write, and others that leave the books be. *)
LEMMA BooksClosed ==
  ASSUME AccountInv, UNCHANGED <<user, sub, agent, due, marks>>, NEW r,
         \/ call' = [call EXCEPT ![r] = NoCall]
         \/ UNCHANGED call,
         code' \in [Codes -> [state : {"none", "open", "expired", "used"}, by : SUBSET SUBSET Identities]]
  PROVE  AccountInv'
<1>1. PaymentsAndUsageAddUp'
  BY DEF AccountInv, PaymentsAndUsageAddUp, Marked
<1>2. \A v \in Rows : MaxAgents(TrialFor(v).plan) <= MaxAgents(TrialFor(v).plan)'
  BY PlanBounds DEF TrialFor
<1> QED
  BY <1>1, <1>2, BooksKept DEF AccountInv, AccountType, RowsOwn, Marked

(* The commits of a payment.                                                *)
LEMMA Billed ==
  ASSUME due \in Ledger, NEW u \in Rows, NEW n \in Nat
  PROVE  /\ LET d == [due EXCEPT !.quota[u] = n]
            IN d \in Ledger /\ d.quota = [due.quota EXCEPT ![u] = n] /\ d.used = due.used /\ d.agent = due.agent
         /\ LET d == [due EXCEPT !.quota[u] = @ + 1]
            IN d \in Ledger /\ d.quota = [due.quota EXCEPT ![u] = @ + 1] /\ d.used = due.used /\ d.agent = due.agent
<1>1. due.quota \in [Rows -> Nat] /\ due.used \in [Rows -> Nat] /\ due.agent \in [Agents -> Nat]
  BY DEF Ledger
<1>2. /\ [due.quota EXCEPT ![u] = n] \in [Rows -> Nat] /\ [due.quota EXCEPT ![u] = @ + 1] \in [Rows -> Nat]
  BY <1>1
<1>3. \A q : /\ [due EXCEPT !.quota = q].quota = q /\ [due EXCEPT !.quota = q].used = due.used /\ [due EXCEPT !.quota = q].agent = due.agent
             /\ q \in [Rows -> Nat] => [due EXCEPT !.quota = q] \in Ledger
  BY DEF Ledger
<1> QED
  BY <1>1, <1>2, <1>3 DEF Ledger

LEMMA TopupKeeps ==
  ASSUME AccountInv, NEW r \in Calls, TopupCommits(r)
  PROVE  AccountInv'
<1>1. PICK u \in Rows, read \in SubRecord : u = call[r].on /\ read = call[r].read
  BY DEF AccountInv, AccountType, CallsHold, CallHolds, TopupCommits, Open, CallRecord
<1>2. /\ Pays(r, ToppedUp(read), [due EXCEPT !.quota[u] = @ + 1], Overwrites(u, read, {"quota"}))
      /\ call[r].do = "topup"
  BY <1>1 DEF TopupCommits, Open
<1>3. /\ sub[u].status # "none" /\ read.status # "none"
      /\ call' = [call EXCEPT ![r] = NoCall] /\ UNCHANGED <<user, agent, code>>
  BY <1>1, <1>2 DEF AccountInv, CallsHold, CallHolds, Pays, Closes
<1>4. CASE Unused(call[r].ref)
  <2>1. /\ sub' = [sub EXCEPT ![u] = SubWritten(u, read, ToppedUp(read))] /\ due' = [due EXCEPT !.quota[u] = @ + 1]
        /\ marks' = marks \cup Overwrites(u, read, {"quota"})
    BY <1>1, <1>2, <1>4 DEF Pays, SubWrites
  <2>2. /\ ToppedUp(read) \in SubRecord /\ ToppedUp(read).quota = read.quota + 1 /\ ToppedUp(read).used = read.used
        /\ ToppedUp(read).plan = read.plan /\ ToppedUp(read).status # "none" /\ read.quota \in Nat
    <3>1. read.quota \in Nat /\ read.quota + 1 \in Nat /\ (IF read.status = "grace_period" THEN "active" ELSE read.status)
             \in {"trial", "active", "grace_period", "expired", "merged"}
      BY <1>3 DEF SubRecord
    <3> QED
      BY <3>1 DEF ToppedUp, SubRecord
  <2>3. sub \in [Rows -> SubRecord]
    BY DEF AccountInv, AccountType
  <2>4. /\ sub' \in [Rows -> SubRecord] /\ \A v \in Rows : v # u => sub'[v] = sub[v]
        /\ sub'[u].status # "none" /\ sub'[u].plan = sub[u].plan /\ sub'[u].used = sub[u].used /\ sub'[u].quota = read.quota + 1
    BY <1>3, <2>1, <2>2, <2>3, WrittenSub
  <2>5. due' \in Ledger /\ due'.used = due.used /\ due'.agent = due.agent /\ due'.quota = [due.quota EXCEPT ![u] = @ + 1]
    BY <2>1, 0 \in Nat, Billed DEF AccountInv, AccountType
  <2>6. ~Marked("overwritten", u)' => sub[u].quota = read.quota
    BY <2>1, OverwritesMark
  <2>7. \A x : ~Marked("overwritten", x)' => ~Marked("overwritten", x)
    BY <2>1 DEF Marked
  <2>8. PaymentsAndUsageAddUp'
    <3>1. ASSUME NEW v \in Rows, ~Marked("overwritten", v)' PROVE sub'[v].quota = due'.quota[v] /\ sub'[v].used = due'.used[v]
      BY <2>4, <2>5, <2>6, <2>7, <3>1 DEF AccountInv, AccountType, PaymentsAndUsageAddUp, Ledger
    <3>2. ASSUME NEW a \in Agents, ~Marked("overwritten", a)' PROVE agent'[a].used = due'.agent[a]
      BY <1>3, <2>5, <2>7, <3>2 DEF AccountInv, PaymentsAndUsageAddUp
    <3> QED
      BY <3>1, <3>2 DEF PaymentsAndUsageAddUp
  <2>9. \A v \in Rows : /\ sub'[v].status = "none" => sub[v].status = "none" /\ sub'[v] = NoSub
                        /\ MaxAgents(TrialFor(v).plan) <= MaxAgents(TrialFor(v).plan)'
    BY <1>3, <2>4, PlanBounds DEF AccountInv, RowsOwn, TrialFor
  <2>10. \A i \in Identities : Marked("free", i)' => Marked("free", i)
    BY <2>1, OtherMarks DEF Marked
  <2> QED
    BY <1>3, <2>1, <2>4, <2>5, <2>8, <2>9, <2>10, BooksKept DEF AccountInv, AccountType
<1>5. CASE ~Unused(call[r].ref)
  <2>1. UNCHANGED <<sub, due, marks>>
    BY <1>1, <1>2, <1>5 DEF Pays
  <2> QED
    BY <1>3, <2>1, BooksClosed DEF AccountInv, AccountType
<1> QED
  BY <1>4, <1>5

LEMMA BilledAnew ==
  ASSUME due \in Ledger, NEW u \in Rows, NEW n \in Nat, NEW m \in Nat, due' = [due EXCEPT !.quota[u] = n, !.used[u] = m]
  PROVE  due' \in Ledger /\ due'.quota = [due.quota EXCEPT ![u] = n] /\ due'.used = [due.used EXCEPT ![u] = m] /\ due'.agent = due.agent
<1>1. due.quota \in [Rows -> Nat] /\ due.used \in [Rows -> Nat] /\ due.agent \in [Agents -> Nat]
  BY DEF Ledger
<1>2. [due.quota EXCEPT ![u] = n] \in [Rows -> Nat] /\ [due.used EXCEPT ![u] = m] \in [Rows -> Nat]
  BY <1>1
<1>3. due' = [quota |-> [due.quota EXCEPT ![u] = n], used |-> [due.used EXCEPT ![u] = m], agent |-> due.agent]
  BY <1>1 DEF Ledger
<1> QED
  BY <1>1, <1>2, <1>3 DEF Ledger

LEMMA UpgradeKeeps ==
  ASSUME AccountInv, NEW r \in Calls, UpgradeCommits(r)
  PROVE  AccountInv'
<1>1. PICK u \in Rows, read \in SubRecord : u = call[r].on /\ read = call[r].read
  BY DEF AccountInv, AccountType, CallsHold, CallHolds, UpgradeCommits, Open, CallRecord
<1>2. PICK p \in call[r].who :
          Pays(r, NewSub(p), [due EXCEPT !.quota[u] = PlanQuota(p), !.used[u] = 0], Crowds(u, p) \cup Overwrites(u, read, {"quota", "used"}))
  BY Zenon, <1>1 DEF UpgradeCommits
<1>3. /\ sub[u].status # "none" /\ read.status # "none" /\ p \in PlanNames
      /\ call' = [call EXCEPT ![r] = NoCall] /\ UNCHANGED <<user, agent, code>>
  <2>1. call[r].do = "upgrade" /\ CallHolds(call[r])
    BY DEF UpgradeCommits, Open, AccountInv, CallsHold
  <2> QED
    BY <1>1, <1>2, <2>1, PlansNamed DEF CallHolds, Pays, Closes
<1>4. CASE Unused(call[r].ref)
  <2>1. /\ sub' = [sub EXCEPT ![u] = SubWritten(u, read, NewSub(p))]
        /\ due' = [due EXCEPT !.quota[u] = PlanQuota(p), !.used[u] = 0]
        /\ marks' = marks \cup Crowds(u, p) \cup Overwrites(u, read, {"quota", "used"})
    BY <1>1, <1>2, <1>4 DEF Pays, SubWrites
  <2>2. /\ NewSub(p) \in SubRecord /\ NewSub(p).status # "none" /\ NewSub(p).plan = p
        /\ NewSub(p).used = 0 /\ NewSub(p).quota = PlanQuota(p) /\ PlanQuota(p) \in Nat
    BY <1>3, NewSubs, PlanBounds
  <2>3. sub \in [Rows -> SubRecord]
    BY DEF AccountInv, AccountType
  <2>4. /\ sub' \in [Rows -> SubRecord] /\ \A v \in Rows : v # u => sub'[v] = sub[v]
        /\ sub'[u].status # "none" /\ sub'[u].plan \in {sub[u].plan, p}
        /\ sub'[u].used = (IF read.used = 0 THEN sub[u].used ELSE 0)
        /\ sub'[u].quota = (IF read.quota = PlanQuota(p) THEN sub[u].quota ELSE PlanQuota(p))
    <3>1. sub'[u] = SubWritten(u, read, NewSub(p)) /\ \A v \in Rows : v # u => sub'[v] = sub[v]
      BY <2>1, <2>3
    <3>2. SubWritten(u, read, NewSub(p)) \in SubRecord
      BY <2>2, <2>3, WrittenSub
    <3> QED
      BY <1>3, <2>1, <2>2, <2>3, <3>1, <3>2, WrittenSub
  <2>5. /\ due' \in Ledger /\ due'.used = [due.used EXCEPT ![u] = 0] /\ due'.agent = due.agent
        /\ due'.quota = [due.quota EXCEPT ![u] = PlanQuota(p)]
    <3>1. PICK n \in Nat, m \in Nat : n = PlanQuota(p) /\ m = 0
      BY <2>2
    <3>2. due' = [due EXCEPT !.quota[u] = n, !.used[u] = m] /\ due \in Ledger
      BY <2>1, <3>1 DEF AccountInv, AccountType
    <3>3. /\ due' \in Ledger /\ due'.used = [due.used EXCEPT ![u] = m] /\ due'.agent = due.agent
          /\ due'.quota = [due.quota EXCEPT ![u] = n]
      BY Zenon, <3>2, BilledAnew
    <3> QED
      BY <3>1, <3>3
  <2>6. ~Marked("overwritten", u)' => sub[u].quota = read.quota /\ sub[u].used = read.used
    <3>1. Overwrites(u, read, {"quota", "used"}) \subseteq marks'
      BY <2>1
    <3> QED
      BY <3>1, OverwritesMark
  <2>7. \A x : ~Marked("overwritten", x)' => ~Marked("overwritten", x)
    BY <2>1 DEF Marked
  <2>8. PaymentsAndUsageAddUp'
    <3>1. ASSUME NEW v \in Rows, ~Marked("overwritten", v)' PROVE sub'[v].quota = due'.quota[v] /\ sub'[v].used = due'.used[v]
      BY <2>4, <2>5, <2>6, <2>7, <3>1 DEF AccountInv, AccountType, PaymentsAndUsageAddUp, Ledger
    <3>2. ASSUME NEW a \in Agents, ~Marked("overwritten", a)' PROVE agent'[a].used = due'.agent[a]
      BY <1>3, <2>5, <2>7, <3>2 DEF AccountInv, PaymentsAndUsageAddUp
    <3> QED
      BY <3>1, <3>2 DEF PaymentsAndUsageAddUp
  <2>9. \A v \in Rows : sub'[v].status = "none" => sub[v].status = "none" /\ sub'[v] = NoSub
    BY <1>3, <2>4 DEF AccountInv, RowsOwn
  <2>10. ASSUME NEW i \in Identities, NEW v \in Rows, Steady(i)', FoundBy(i, v)
         PROVE  MaxAgents(TrialFor(v).plan) <= MaxAgents(TrialFor(v).plan)'
    <3>1. CASE v # u
      BY <2>4, <3>1, PlanBounds DEF TrialFor
    <3>2. CASE v = u
      <4>1. ~(MaxAgents(p) < MaxAgents(sub[u].plan))
        BY <2>1, <2>10, <3>2, FoundMatching DEF Crowds, Steady, Marked
      <4>2. TrialFor(u) = sub[u] /\ TrialFor(u)' = sub'[u]
        BY <1>3, <2>4 DEF TrialFor
      <4>3. \A x : MaxAgents(x) \in Nat
        BY PlanBounds
      <4> QED
        BY <2>4, <3>2, <4>1, <4>2, <4>3
    <3> QED
      BY <3>1, <3>2
  <2>11. \A i \in Identities : Marked("free", i)' => Marked("free", i)
    BY <2>1, OtherMarks DEF Marked
  <2>12. marks \subseteq marks'
    BY <2>1
  <2> QED
    BY <1>3, <2>12, <2>4, <2>5, <2>8, <2>9, <2>10, <2>11, BooksKept DEF AccountInv, AccountType
<1>5. CASE ~Unused(call[r].ref)
  <2>1. UNCHANGED <<sub, due, marks>>
    BY <1>1, <1>2, <1>5 DEF Pays
  <2> QED
    BY <1>3, <2>1, BooksClosed DEF AccountInv, AccountType
<1> QED
  BY <1>4, <1>5

(* An account that had no subscription gets a new one.                      *)
LEMMA NewlySubscribed ==
  ASSUME AccountInv, NEW u \in Rows, sub[u].status = "none", NEW p \in PlanNames,
         sub' = [sub EXCEPT ![u] = NewSub(p)], due' = [due EXCEPT !.quota[u] = PlanQuota(p)], marks \subseteq marks',
         \A a \in Agents : agent'[a].used = agent[a].used
  PROVE  /\ sub' \in [Rows -> SubRecord] /\ due' \in Ledger /\ PaymentsAndUsageAddUp'
         /\ \A v \in Rows : sub'[v].status = "none" => sub[v].status = "none" /\ sub'[v] = NoSub
         /\ sub'[u].status # "none" /\ \A v \in Rows : v # u => sub'[v] = sub[v]
         /\ \A v \in Rows : MaxAgents(TrialFor(v).plan) <= MaxAgents(TrialFor(v).plan)'
<1>1. /\ NewSub(p) \in SubRecord /\ NewSub(p).status # "none" /\ NewSub(p).plan = p
      /\ NewSub(p).used = 0 /\ NewSub(p).quota = PlanQuota(p) /\ PlanQuota(p) \in Nat
  BY NewSubs, PlanBounds
<1>2. sub \in [Rows -> SubRecord] /\ sub[u] = NoSub
  BY DEF AccountInv, AccountType, RowsOwn
<1>3. sub' \in [Rows -> SubRecord] /\ sub'[u] = NewSub(p) /\ \A v \in Rows : v # u => sub'[v] = sub[v]
  BY <1>1, <1>2
<1>4. due' \in Ledger /\ due'.used = due.used /\ due'.agent = due.agent /\ due'.quota = [due.quota EXCEPT ![u] = PlanQuota(p)]
  BY <1>1, Billed, 0 \in Nat DEF AccountInv, AccountType
<1>5. \A x : ~Marked("overwritten", x)' => ~Marked("overwritten", x)
  BY DEF Marked
<1>6. PaymentsAndUsageAddUp'
  <2>1. ASSUME NEW v \in Rows, ~Marked("overwritten", v)' PROVE sub'[v].quota = due'.quota[v] /\ sub'[v].used = due'.used[v]
    BY <1>1, <1>2, <1>3, <1>4, <1>5, <2>1, NoSubTyped DEF AccountInv, AccountType, PaymentsAndUsageAddUp, Ledger
  <2>2. ASSUME NEW a \in Agents, ~Marked("overwritten", a)' PROVE agent'[a].used = due'.agent[a]
    BY <1>4, <1>5, <2>2 DEF AccountInv, PaymentsAndUsageAddUp
  <2> QED
    BY <2>1, <2>2 DEF PaymentsAndUsageAddUp
<1>7. \A v \in Rows : sub'[v].status = "none" => sub[v].status = "none" /\ sub'[v] = NoSub
  BY <1>1, <1>3 DEF AccountInv, RowsOwn
<1>8. ASSUME NEW v \in Rows PROVE MaxAgents(TrialFor(v).plan) <= MaxAgents(TrialFor(v).plan)'
  <2>1. CASE v # u
    BY <1>3, <2>1, PlanBounds DEF TrialFor
  <2>2. CASE v = u
    <3>1. TrialFor(u).plan = "trial"
      BY NewSubs DEF TrialFor, PlanNames
    <3>2. MaxAgents("trial") = 1 /\ MaxAgents(TrialFor(u)'.plan) \in 1..2
      BY PlanBounds DEF MaxAgents
    <3> QED
      BY <2>2, <3>1, <3>2
  <2> QED
    BY <2>1, <2>2
<1> QED
  BY <1>1, <1>3, <1>4, <1>6, <1>7, <1>8

LEMMA ActivateKeeps ==
  ASSUME AccountInv, NEW r \in Calls, ActivateCommits(r)
  PROVE  AccountInv'
<1>1. call[r].do = "activate" /\ call[r].on \in Rows /\ \A p \in call[r].who : p \in PlanNames
  BY PlansNamed DEF AccountInv, CallsHold, CallHolds, ActivateCommits, Open
<1>2. PICK u \in Rows, p \in PlanNames :
         /\ u = call[r].on
         /\ IF sub[u].status = "none" THEN sub' = [sub EXCEPT ![u] = NewSub(p)] /\ due' = [due EXCEPT !.quota[u] = PlanQuota(p)]
            ELSE UNCHANGED <<sub, due>>
  BY <1>1 DEF ActivateCommits
<1>3. call' = [call EXCEPT ![r] = NoCall] /\ UNCHANGED <<user, agent, code, marks>>
  BY DEF ActivateCommits, Closes
<1>4. CASE sub[u].status = "none"
  <2>1. /\ sub' \in [Rows -> SubRecord] /\ due' \in Ledger /\ PaymentsAndUsageAddUp'
        /\ \A v \in Rows : sub'[v].status = "none" => sub[v].status = "none" /\ sub'[v] = NoSub
        /\ \A v \in Rows : MaxAgents(TrialFor(v).plan) <= MaxAgents(TrialFor(v).plan)'
    BY <1>2, <1>3, <1>4, NewlySubscribed
  <2>2. /\ marks \subseteq marks' /\ agent' \in [Agents -> AgentRecord]
        /\ code' \in [Codes -> [state : {"none", "open", "expired", "used"}, by : SUBSET SUBSET Identities]]
        /\ \A i \in Identities : Marked("free", i)' => Marked("free", i)
        /\ \A a \in Agents : /\ agent[a] = NoAgent => agent'[a] = NoAgent
                             /\ agent'[a].owner = agent[a].owner /\ (agent'[a].live => agent[a].live)
    BY <1>3 DEF AccountInv, AccountType, Marked
  <2>3. UNCHANGED user /\ (call' = [call EXCEPT ![r] = NoCall] \/ UNCHANGED call)
    BY <1>3
  <2> QED
    BY <2>1, <2>2, <2>3, BooksKept
<1>5. CASE sub[u].status # "none"
  BY <1>2, <1>3, <1>5, BooksClosed DEF AccountInv, AccountType
<1> QED
  BY <1>4, <1>5

(* Deletions, renewals, and what a run used.                                *)
LEMMA DeleteKeeps ==
  ASSUME AccountInv, NEW r \in Calls, DeleteCommits(r)
  PROVE  AccountInv'
<1>1. PICK a \in Agents : a = call[r].ref /\ agent[a].owner \in Identities
  BY DEF AccountInv, CallsHold, CallHolds, DeleteCommits, Open
<1>2. /\ call' = [call EXCEPT ![r] = NoCall] /\ agent' = [agent EXCEPT ![a].live = FALSE] /\ UNCHANGED <<user, sub, code, due, marks>>
  BY <1>1 DEF DeleteCommits, Closes
<1>3. agent \in [Agents -> AgentRecord] /\ agent[a] # NoAgent
  BY <1>1, NoAgentTyped DEF AccountInv, AccountType, Identities
<1>4. agent' \in [Agents -> AgentRecord] /\ \A b \in Agents : b # a => agent'[b] = agent[b]
  BY <1>2, <1>3 DEF AgentRecord
<1>5. agent'[a].owner = agent[a].owner /\ agent'[a].used = agent[a].used /\ ~agent'[a].live
  BY <1>2, <1>3 DEF AgentRecord
<1>6. PaymentsAndUsageAddUp'
  BY <1>2, <1>4, <1>5 DEF AccountInv, PaymentsAndUsageAddUp, Marked
<1>7. \A b \in Agents : /\ agent[b] = NoAgent => agent'[b] = NoAgent
                        /\ agent'[b].owner = agent[b].owner /\ (agent'[b].live => agent[b].live)
  BY <1>3, <1>4, <1>5
<1>8. \A v \in Rows : MaxAgents(TrialFor(v).plan) <= MaxAgents(TrialFor(v).plan)'
  BY <1>2, PlanBounds DEF TrialFor
<1> QED
  BY <1>2, <1>4, <1>6, <1>7, <1>8, BooksKept DEF AccountInv, AccountType, RowsOwn, Marked

LEMMA RenewKeeps ==
  ASSUME AccountInv, NEW r \in Calls, RenewCommits(r)
  PROVE  AccountInv'
<1>1. PICK a \in Agents, old \in Nat : a = call[r].ref /\ old = call[r].seen /\ agent[a].owner \in Identities
  BY DEF AccountInv, AccountType, CallRecord, CallsHold, CallHolds, RenewCommits, Open
<1>2. /\ call' = [call EXCEPT ![r] = NoCall] /\ UNCHANGED <<user, sub, code>>
      /\ agent' = [agent EXCEPT ![a].used = Written(old, 0, @), ![a].lapsed = FALSE]
      /\ due' = [due EXCEPT !.agent[a] = 0]
      /\ marks' = IF agent[a].used = old THEN marks ELSE marks \cup {<<"overwritten", a>>}
  BY <1>1 DEF RenewCommits, Closes
<1>3. agent \in [Agents -> AgentRecord] /\ agent[a] # NoAgent /\ agent[a] \in AgentRecord
  BY <1>1, NoAgentTyped DEF AccountInv, AccountType, Identities
<1>4. Written(old, 0, agent[a].used) \in Nat
  BY <1>3 DEF Written, AgentRecord
<1>5. /\ agent' \in [Agents -> AgentRecord] /\ \A b \in Agents : b # a => agent'[b] = agent[b]
      /\ agent'[a].owner = agent[a].owner /\ agent'[a].used = Written(old, 0, agent[a].used) /\ agent'[a].live = agent[a].live
  BY <1>2, <1>3, <1>4 DEF AgentRecord
<1>6. due' \in Ledger /\ due'.quota = due.quota /\ due'.used = due.used /\ due'.agent = [due.agent EXCEPT ![a] = 0]
  <2>1. due.quota \in [Rows -> Nat] /\ due.used \in [Rows -> Nat] /\ due.agent \in [Agents -> Nat]
    BY DEF AccountInv, AccountType, Ledger
  <2>2. [due.agent EXCEPT ![a] = 0] \in [Agents -> Nat]
    BY <2>1
  <2>3. due' = [quota |-> due.quota, used |-> due.used, agent |-> [due.agent EXCEPT ![a] = 0]]
    BY <1>2 DEF AccountInv, AccountType, Ledger
  <2> QED
    BY <2>1, <2>2, <2>3 DEF Ledger
<1>7. PaymentsAndUsageAddUp'
  <2>1. \A x : ~Marked("overwritten", x)' => ~Marked("overwritten", x)
    BY <1>2 DEF Marked
  <2>2. ~Marked("overwritten", a)' => agent[a].used = old
    BY <1>2 DEF Marked
  <2>3. \A v \in Rows : ~Marked("overwritten", v)' => sub'[v].quota = due'.quota[v] /\ sub'[v].used = due'.used[v]
    BY <1>2, <1>6, <2>1 DEF AccountInv, PaymentsAndUsageAddUp
  <2>4. \A b \in Agents : ~Marked("overwritten", b)' => agent'[b].used = due'.agent[b]
    BY <1>5, <1>6, <2>1, <2>2 DEF AccountInv, AccountType, Ledger, PaymentsAndUsageAddUp, Written
  <2> QED
    BY <2>3, <2>4 DEF PaymentsAndUsageAddUp
<1>8. \A b \in Agents : /\ agent[b] = NoAgent => agent'[b] = NoAgent
                        /\ agent'[b].owner = agent[b].owner /\ (agent'[b].live => agent[b].live)
  BY <1>3, <1>5
<1>9. \A v \in Rows : MaxAgents(TrialFor(v).plan) <= MaxAgents(TrialFor(v).plan)'
  BY <1>2, PlanBounds DEF TrialFor
<1>10. marks \subseteq marks' /\ \A i \in Identities : Marked("free", i)' => Marked("free", i)
  BY <1>2 DEF Marked
<1> QED
  BY <1>2, <1>5, <1>6, <1>7, <1>8, <1>9, <1>10, BooksKept DEF AccountInv, AccountType, RowsOwn

LEMMA UsageKeeps ==
  ASSUME AccountInv, NEW r \in Calls, UsageCommits(r)
  PROVE  AccountInv'
<1>0. call[r] \in CallRecord /\ CallHolds(call[r]) /\ call[r].do \in {"usage", "unpaid"}
  BY DEF AccountInv, AccountType, CallsHold, UsageCommits
<1>1. PICK a \in Agents, known \in Nat, read \in SubRecord, u \in Rows \cup {"none"}, charged \in BOOLEAN :
         /\ a = call[r].ref /\ known = call[r].seen /\ read = call[r].read /\ agent[a].owner \in Identities
         /\ u = call[r].on /\ (charged <=> call[r].do = "usage")
  BY <1>0 DEF CallRecord, CallHolds
<1>2. /\ call' = [call EXCEPT ![r] = NoCall] /\ UNCHANGED <<user, code>>
      /\ agent' = [agent EXCEPT ![a].used = known + 1]
      /\ sub' = IF charged THEN [sub EXCEPT ![u].used = read.used + 1] ELSE sub
      /\ due' = [due EXCEPT !.agent[a] = @ + 1, !.used = [v \in Rows |-> IF charged /\ v = u THEN @[v] + 1 ELSE @[v]]]
      /\ marks' = marks \cup (IF agent[a].used # known THEN {<<"overwritten", a>>} ELSE {})
                        \cup (IF charged THEN Overwrites(u, read, {"used"}) ELSE {})
  BY <1>1 DEF UsageCommits, Closes
<1>3. charged => u \in Rows /\ sub[u].status # "none"
  BY <1>0, <1>1 DEF CallHolds
<1>4. agent \in [Agents -> AgentRecord] /\ agent[a] # NoAgent /\ agent[a] \in AgentRecord
  BY <1>1, NoAgentTyped DEF AccountInv, AccountType, Identities
<1>5. /\ agent' \in [Agents -> AgentRecord] /\ \A b \in Agents : b # a => agent'[b] = agent[b]
      /\ agent'[a].owner = agent[a].owner /\ agent'[a].used = known + 1 /\ agent'[a].live = agent[a].live
  BY <1>1, <1>2, <1>4 DEF AgentRecord
<1>6. sub \in [Rows -> SubRecord] /\ read.used \in Nat
  BY DEF AccountInv, AccountType, SubRecord
<1>7. /\ sub' \in [Rows -> SubRecord] /\ \A v \in Rows : ~(charged /\ v = u) => sub'[v] = sub[v]
      /\ charged => /\ sub'[u].used = read.used + 1 /\ sub'[u].quota = sub[u].quota
                    /\ sub'[u].plan = sub[u].plan /\ sub'[u].status = sub[u].status
  <2>1. CASE ~charged
    BY <1>2, <1>6, <2>1
  <2>2. CASE charged
    BY <1>2, <1>3, <1>6, <2>2 DEF SubRecord
  <2> QED
    BY <2>1, <2>2
<1>8. /\ due.quota \in [Rows -> Nat] /\ due.used \in [Rows -> Nat] /\ due.agent \in [Agents -> Nat]
  BY DEF AccountInv, AccountType, Ledger
<1>9. /\ due' \in Ledger /\ due'.quota = due.quota /\ due'.agent = [due.agent EXCEPT ![a] = @ + 1]
      /\ due'.used = [v \in Rows |-> IF charged /\ v = u THEN due.used[v] + 1 ELSE due.used[v]]
  <2>1. /\ [due.agent EXCEPT ![a] = @ + 1] \in [Agents -> Nat]
        /\ [v \in Rows |-> IF charged /\ v = u THEN due.used[v] + 1 ELSE due.used[v]] \in [Rows -> Nat]
    BY <1>8
  <2>2. due' = [quota |-> due.quota, used |-> [v \in Rows |-> IF charged /\ v = u THEN due.used[v] + 1 ELSE due.used[v]],
                agent |-> [due.agent EXCEPT ![a] = @ + 1]]
    BY <1>2 DEF AccountInv, AccountType, Ledger
  <2> QED
    BY <2>1, <2>2, <1>8 DEF Ledger
<1>10. PaymentsAndUsageAddUp'
  <2>1. \A x : ~Marked("overwritten", x)' => ~Marked("overwritten", x)
    BY <1>2 DEF Marked
  <2>2. ~Marked("overwritten", a)' => agent[a].used = known
    BY <1>2 DEF Marked
  <2>3. charged /\ ~Marked("overwritten", u)' => sub[u].used = read.used
    <3>1. ASSUME charged, ~Marked("overwritten", u)' PROVE sub[u].used = read.used
      <4>1. Overwrites(u, read, {"used"}) \subseteq marks'
        BY <1>2, <3>1
      <4>2. \A c \in {"used"} : sub[u][c] = read[c]
        BY <3>1, <4>1, OverwritesMark
      <4> QED
        BY <4>2
    <3> QED
      BY <3>1
  <2>4. \A v \in Rows : ~Marked("overwritten", v)' => sub'[v].quota = due'.quota[v] /\ sub'[v].used = due'.used[v]
    <3>1. ASSUME NEW v \in Rows, ~Marked("overwritten", v)'
          PROVE  sub'[v].quota = due'.quota[v] /\ sub'[v].used = due'.used[v]
      <4>1. sub[v].quota = due.quota[v] /\ sub[v].used = due.used[v]
        BY <2>1, <3>1 DEF AccountInv, PaymentsAndUsageAddUp
      <4>2. CASE charged /\ v = u
        BY <1>7, <1>8, <1>9, <2>3, <3>1, <4>1, <4>2
      <4>3. CASE ~(charged /\ v = u)
        BY <1>7, <1>8, <1>9, <4>1, <4>3
      <4> QED
        BY <4>2, <4>3
    <3> QED
      BY <3>1
  <2>5. \A b \in Agents : ~Marked("overwritten", b)' => agent'[b].used = due'.agent[b]
    BY <1>5, <1>8, <1>9, <2>1, <2>2 DEF AccountInv, PaymentsAndUsageAddUp
  <2> QED
    BY <2>4, <2>5 DEF PaymentsAndUsageAddUp
<1>11. \A b \in Agents : /\ agent[b] = NoAgent => agent'[b] = NoAgent
                         /\ agent'[b].owner = agent[b].owner /\ (agent'[b].live => agent[b].live)
  BY <1>4, <1>5
<1>12. \A v \in Rows : /\ sub'[v].status = "none" => sub[v].status = "none" /\ sub'[v] = NoSub
                       /\ MaxAgents(TrialFor(v).plan) <= MaxAgents(TrialFor(v).plan)'
  BY <1>3, <1>7, PlanBounds DEF TrialFor, AccountInv, RowsOwn
<1>13. marks \subseteq marks' /\ \A i \in Identities : Marked("free", i)' => Marked("free", i)
  BY <1>2, OtherMarks DEF Marked
<1> QED
  BY Zenon, <1>2, <1>5, <1>7, <1>9, <1>10, <1>11, <1>12, <1>13, BooksKept DEF AccountInv, AccountType

LEMMA AgesKeeps ==
  ASSUME AccountInv, NEW u \in Rows, NEW s \in {"grace_period", "expired"}, Ages(u, s)
  PROVE  AccountInv'
<1>1. sub' = [sub EXCEPT ![u].status = s] /\ UNCHANGED <<user, agent, code, call, due, marks>> /\ sub[u].status # "none"
  BY DEF Ages, Usable
<1>2. sub \in [Rows -> SubRecord]
  BY DEF AccountInv, AccountType
<1>3. /\ sub' \in [Rows -> SubRecord] /\ \A v \in Rows : v # u => sub'[v] = sub[v]
      /\ sub'[u].status # "none" /\ sub'[u].plan = sub[u].plan /\ sub'[u].quota = sub[u].quota /\ sub'[u].used = sub[u].used
  BY <1>1, <1>2 DEF SubRecord
<1>4. PaymentsAndUsageAddUp'
  BY <1>1, <1>3 DEF AccountInv, PaymentsAndUsageAddUp, Marked
<1>5. \A v \in Rows : /\ sub'[v].status = "none" => sub[v].status = "none" /\ sub'[v] = NoSub
                      /\ MaxAgents(TrialFor(v).plan) <= MaxAgents(TrialFor(v).plan)'
  BY <1>1, <1>3, PlanBounds DEF TrialFor, AccountInv, RowsOwn
<1> QED
  BY <1>1, <1>3, <1>4, <1>5, BooksKept DEF AccountInv, AccountType, Marked

LEMMA LapsesKeeps ==
  ASSUME AccountInv, NEW a \in Agents, Lapses(a)
  PROVE  AccountInv'
<1>1. agent' = [agent EXCEPT ![a].lapsed = TRUE] /\ UNCHANGED <<user, sub, code, call, due, marks>> /\ agent[a].live
  BY DEF Lapses
<1>2. agent \in [Agents -> AgentRecord] /\ agent[a] # NoAgent
  BY <1>1, NoAgentTyped DEF AccountInv, AccountType
<1>3. /\ agent' \in [Agents -> AgentRecord] /\ \A b \in Agents : b # a => agent'[b] = agent[b]
      /\ agent'[a].owner = agent[a].owner /\ agent'[a].used = agent[a].used /\ agent'[a].live = agent[a].live
  BY <1>1, <1>2 DEF AgentRecord
<1>4. PaymentsAndUsageAddUp'
  BY <1>1, <1>3 DEF AccountInv, PaymentsAndUsageAddUp, Marked
<1>5. \A b \in Agents : /\ agent[b] = NoAgent => agent'[b] = NoAgent
                        /\ agent'[b].owner = agent[b].owner /\ (agent'[b].live => agent[b].live)
  BY <1>2, <1>3
<1>6. \A v \in Rows : MaxAgents(TrialFor(v).plan) <= MaxAgents(TrialFor(v).plan)'
  BY <1>1, PlanBounds DEF TrialFor
<1> QED
  BY <1>1, <1>3, <1>4, <1>5, <1>6, BooksKept DEF AccountInv, AccountType, RowsOwn, Marked

LEMMA GenerateKeeps ==
  ASSUME AccountInv, NEW c \in Codes, Generate(c)
  PROVE  AccountInv'
<1>1. /\ code' = [d \in Codes |-> IF d = c THEN [state |-> "open", by |-> {}]
                                  ELSE IF code[d].state = "open" THEN [code[d] EXCEPT !.state = "expired"] ELSE code[d]]
      /\ UNCHANGED <<user, sub, agent, call, due, marks>>
  BY DEF Generate
<1>2. code \in [Codes -> [state : {"none", "open", "expired", "used"}, by : SUBSET SUBSET Identities]]
  BY DEF AccountInv, AccountType
<1>3. code' \in [Codes -> [state : {"none", "open", "expired", "used"}, by : SUBSET SUBSET Identities]]
  BY <1>1, <1>2
<1> QED
  BY <1>1, <1>3, BooksClosed

(* A number is found by the row made for it, or else by the dashboard's     *)
(* account, which it was linked to.                                         *)
LEMMA NumbersFound ==
  ASSUME AccountInv, NEW i \in Identities, IsNumber(i), NEW u \in Rows, FoundBy(i, u), user[i].ext # i
  PROVE  u = "web" /\ Marked("linked", i) /\ Marked("moved", i)
<1>1. i # "hidden" /\ i \notin {"none", "own", "merged"} /\ user[u] \in UserRecord
  BY DEF IsNumber, Identities, AccountInv, AccountType
<1>2. user[u].lid # i
  BY <1>1 DEF UserRecord
<1>3. user[u].ext = i => u = i
  BY <1>1 DEF AccountInv, RowsOwn, Rows, Identities
<1>4. user[u].phone = i => u = "web" /\ Marked("linked", i) /\ Marked("moved", i)
  BY <1>1 DEF AccountInv, RowsOwn, Rows
<1> QED
  BY <1>2, <1>3, <1>4 DEF FoundBy

(* The owner is looked up: one that is found by no row of its own was       *)
(* linked, is a hidden id, or is found twice.                               *)
LEMMA RecordsKeeps ==
  ASSUME AccountInv, NEW r \in Calls, Records(r)
  PROVE  AccountInv'
<1>0. call[r] \in CallRecord /\ CallHolds(call[r]) /\ call[r].do = "run" /\ call[r].at = "open"
  BY Zenon DEF AccountInv, AccountType, CallsHold, Records, Open
<1>1. PICK a \in Agents : a = call[r].ref /\ agent[a].owner \in Identities
  BY <1>0 DEF CallHolds
<1>2. UNCHANGED <<user, sub, paid, agent, code, due, calls, changes>>
  BY Zenon DEF Records
<1>3. PICK q \in CallRecord : /\ call' = [call EXCEPT ![r] = q] /\ q.at = "open" /\ q.do \in {"usage", "unpaid"} /\ q.ref = a
                              /\ q.do = "usage" => q.on \in Rows /\ sub[q.on].status # "none" /\ q.read = sub[q.on]
  <2>1. CASE Charged(a) = {}
    <3> DEFINE p == [call[r] EXCEPT !.do = "unpaid"]
    <3>1. call' = [call EXCEPT ![r] = p]
      BY <1>0, <1>1, <2>1 DEF Records, AccountInv, AccountType
    <3>2. p \in CallRecord /\ p.at = "open" /\ p.do = "unpaid" /\ p.ref = a
      BY <1>0, <1>1 DEF CallRecord
    <3> HIDE DEF p
    <3> QED
      BY <3>1, <3>2
  <2>2. CASE Charged(a) # {}
    <3>1. PICK u \in Charged(a) : call' = [call EXCEPT ![r].do = "usage", ![r].on = u, ![r].read = sub[u]]
      BY Zenon, <1>1, <2>2 DEF Records
    <3>2. u \in Rows /\ sub[u].status # "none" /\ sub[u] \in SubRecord
      BY <3>1 DEF Charged, Payer, AccountInv, AccountType
    <3> DEFINE p == [call[r] EXCEPT !.do = "usage", !.on = u, !.read = sub[u]]
    <3>3. call' = [call EXCEPT ![r] = p]
      BY <3>1 DEF AccountInv, AccountType
    <3>4. p \in CallRecord /\ p.at = "open" /\ p.do = "usage" /\ p.ref = a /\ p.on = u /\ p.read = sub[u]
      BY <1>0, <1>1, <3>2 DEF CallRecord
    <3> HIDE DEF p
    <3> QED
      BY <3>2, <3>3, <3>4
  <2> QED
    BY <2>1, <2>2
<1>4. /\ marks \subseteq marks'
      /\ \A m \in marks' : m \in marks \/ (m = <<"free", agent[a].owner>> /\ Matching(agent[a].owner) # {} /\ Charged(a) = {})
  BY Zenon, <1>1 DEF Records
<1>5. /\ \A i \in Identities, u \in Rows : FoundBy(i, u)' <=> FoundBy(i, u)
      /\ OneFound' /\ StillFound'
  BY <1>2, <1>4, UsersStay
<1>6. \A m : m \in marks => m \in marks'
  BY <1>4
<1>7. NeverUndone
  BY <1>2, <1>5, <1>6 DEF NeverUndone, Marked
<1>8. \A s \in Calls : call'[s] = IF s = r THEN q ELSE call[s]
  BY <1>3 DEF AccountInv, AccountType
<1>9. AccountType'
  BY <1>2, <1>3, <1>8 DEF AccountInv, AccountType
<1>10. CallsHold'
  <2>1. CallHolds(q)'
    <3>1. q.do = "usage" => sub'[q.on].status # "none" /\ q.read.status # "none" /\ q.on \in Rows
      BY <1>2, <1>3
    <3>2. agent'[q.ref].owner \in Identities /\ q.ref \in Agents
      BY <1>1, <1>2, <1>3
    <3> QED
      BY <1>3, <3>1, <3>2 DEF CallHolds
  <2>2. ASSUME NEW s \in Calls PROVE CallHolds(call[s])'
    <3>1. CASE s = r
      <4>1. \A p : p = q => CallHolds(p)'
        BY <2>1
      <4>2. \A p : call'[s] = p /\ CallHolds(p)' => CallHolds(call[s])'
        BY DEF CallHolds, MadeFor, Known
      <4> QED
        BY <1>8, <2>1, <3>1, <4>2
    <3>2. CASE s # r
      <4>1. call'[s] = call[s] /\ call[s] \in CallRecord /\ CallHolds(call[s])
        BY <1>8, <3>2 DEF AccountInv, AccountType, CallsHold
      <4>2. call[s].do \in {"build", "post"} => agent'[call[s].ref] = NoAgent
        BY <1>2, <4>1 DEF CallHolds
      <4>3. \A p \in CallRecord : CallHolds(p) /\ (p.do \in {"build", "post"} => agent'[p.ref] = NoAgent) => CallHolds(p)'
        BY <1>7, HoldsOn
      <4>4. \A p : call'[s] = p /\ CallHolds(p)' => CallHolds(call[s])'
        BY DEF CallHolds, MadeFor, Known
      <4> QED
        BY <4>1, <4>2, <4>3, <4>4
    <3> QED
      BY <3>1, <3>2
  <2>3. \A s, t \in Calls : call'[s].do \in {"build", "post"} /\ call'[t].do \in {"build", "post"} /\ call'[s].ref = call'[t].ref => s = t
    BY <1>3, <1>8 DEF AccountInv, CallsHold
  <2> QED
    BY <2>2, <2>3 DEF CallsHold
<1>11. RowsOwn' /\ PaymentsAndUsageAddUp'
  BY <1>2, <1>6 DEF AccountInv, RowsOwn, PaymentsAndUsageAddUp, Marked, Rows
<1>12. OwnersFound' /\ RoomKept'
  <2>1. \A i \in Identities : OwnedBy(i)' \subseteq OwnedBy(i)
    BY <1>2 DEF OwnedBy
  <2>2. \A v \in Rows : MaxAgents(TrialFor(v).plan) <= MaxAgents(TrialFor(v).plan)'
    BY <1>2, PlanBounds DEF TrialFor
  <2>3. ASSUME NEW i \in Identities
        PROVE  /\ Steady(i)' /\ OwnedBy(i)' # {} => \E u \in Rows : FoundBy(i, u)'
               /\ \A u \in Rows : Steady(i)' /\ ~Marked("twofold", i)' /\ FoundBy(i, u)' => Cardinality(OwnedBy(i)') <= MaxAgents(TrialFor(u).plan)'
    BY <1>5, <1>7, <2>1, <2>2, RoomFrame
  <2> QED
    BY <2>3 DEF OwnersFound, RoomKept
<1>13. OwnersPay'
  <2>1. ASSUME NEW i \in Identities, Marked("free", i)', ~Marked("free", i), IsNumber(i) PROVE Marked("linked", i)
    <3>1. i = agent[a].owner /\ Matching(i) # {} /\ Charged(a) = {}
      BY <1>4, <2>1 DEF Marked
    <3>2. user[i].ext # i
      BY <3>1 DEF Charged, Payer, AccountInv, RowsOwn, Rows
    <3>3. PICK u \in Rows : FoundBy(i, u)
      BY <3>1, FoundMatching
    <3> QED
      BY <2>1, <3>2, <3>3, NumbersFound
  <2> QED
    BY <1>6, <2>1 DEF AccountInv, OwnersPay, Marked
<1> QED
  BY <1>5, <1>9, <1>10, <1>11, <1>12, <1>13 DEF AccountInv

(* A row is made, or found again, for an identity: whom others are found by *)
(* stays, and an identity that two rows answer to is marked.                *)
LEMMA RowMade ==
  ASSUME AccountInv, NEW q \in CallRecord, NEW i \in Identities, NEW learns \in BOOLEAN,
         Known(q) = i, q.on \in Rows, MadeFor(q), Insertable(q),
         user' = [user EXCEPT ![q.on] = UserOf(i, learns, q.on)], sub' = [sub EXCEPT ![q.on] = TrialFor(q.on)],
         due' = IF sub[q.on].status = "none" THEN [due EXCEPT !.quota[q.on] = PlanQuota("trial")] ELSE due,
         marks \subseteq marks', Twofold(q) \subseteq marks', TwoRows(learns, q.on) => Marked("twofold", "hidden")',
         \A j \in Identities : Marked("free", j)' => Marked("free", j),
         \A a \in Agents : /\ agent'[a].used = agent[a].used
                           /\ agent[a].owner \in Identities => agent'[a].owner \in Identities
                           /\ agent'[a].owner = "none" => agent'[a] = NoAgent
  PROVE  /\ user' \in [Rows -> UserRecord] /\ sub' \in [Rows -> SubRecord] /\ due' \in Ledger
         /\ RowsOwn' /\ NeverUndone /\ PaymentsAndUsageAddUp' /\ OneFound' /\ StillFound' /\ OwnersPay'
         /\ \A v \in Rows : TrialFor(v)' = TrialFor(v)
         /\ q.rows = {} \/ FoundBy(i, q.on) => FoundBy(i, q.on)'
<1>1. PICK u \in Rows : u = q.on
  OBVIOUS
<1>2. user \in [Rows -> UserRecord] /\ sub \in [Rows -> SubRecord] /\ user[u] \in UserRecord /\ sub[u] \in SubRecord
  BY DEF AccountInv, AccountType
<1>3. \A m : m \in marks => m \in marks'
  OBVIOUS
<1>4. /\ user'[u] = UserOf(i, learns, u) /\ \A v \in Rows : v # u => user'[v] = user[v]
      /\ sub'[u] = TrialFor(u) /\ \A v \in Rows : v # u => sub'[v] = sub[v]
  BY <1>1, <1>2
<1>5. user[u].ext = "none" => q.rows = {} /\ u = i
  BY <1>1 DEF MadeFor
<1>6. user[u].ext # "none" => q.rows # {}
  BY <1>1 DEF Insertable
<1>7. /\ user'[u] \in UserRecord
      /\ user'[u].lid = (IF learns THEN "hidden" ELSE IF user[u].ext = "none" THEN "none" ELSE user[u].lid)
      /\ user[u].ext = "none" => user'[u].ext = i /\ user'[u].phone = "none"
      /\ user[u].ext # "none" => user'[u].ext = user[u].ext /\ user'[u].phone = user[u].phone
  BY <1>2, <1>4 DEF UserOf, UserRecord, NoUser
<1>8. user' \in [Rows -> UserRecord]
  BY <1>1, <1>2, <1>4, <1>7
<1>9. TrialFor(u) \in SubRecord /\ TrialFor(u).status # "none" /\ sub'[u].status # "none"
  BY <1>2, <1>4, TrialTyped
<1>10. sub' \in [Rows -> SubRecord] /\ \A v \in Rows : TrialFor(v)' = TrialFor(v)
  BY <1>1, <1>2, <1>4, <1>9 DEF TrialFor
<1>11. \A j \in Identities, v \in Rows : FoundBy(j, v) => FoundBy(j, v)'
  BY <1>2, <1>4, <1>7 DEF FoundBy, UserRecord, Identities
<1>12. ASSUME NEW j \in Identities, NEW v \in Rows, FoundBy(j, v)', ~FoundBy(j, v)
       PROVE  v = u /\ ((q.rows = {} /\ j = i) \/ (learns /\ j = "hidden"))
  <2>1. v = u
    BY <1>4, <1>12 DEF FoundBy
  <2>2. /\ user'[u].ext # "none" /\ j \in {user'[u].ext, user'[u].phone, user'[u].lid} /\ j # "none"
        /\ user[u].ext # "none" => j \notin {user[u].ext, user[u].phone, user[u].lid}
    <3>1. user'[v].ext # "none" /\ j \in {user'[v].ext, user'[v].phone, user'[v].lid}
      BY <1>12 DEF FoundBy
    <3>2. user[v].ext # "none" => j \notin {user[v].ext, user[v].phone, user[v].lid}
      BY <1>12 DEF FoundBy
    <3>3. j # "none"
      BY DEF Identities
    <3> QED
      BY <2>1, <3>1, <3>2, <3>3
  <2>3. CASE user[u].ext = "none"
    BY <1>5, <1>7, <2>1, <2>2, <2>3
  <2>4. CASE user[u].ext # "none"
    BY <1>7, <2>1, <2>2, <2>4
  <2> QED
    BY <2>3, <2>4
<1>13. NeverUndone
  BY <1>2, <1>3, <1>4, <1>7, <1>9, <1>11 DEF NeverUndone, Identities
<1>14. OneFound'
  <2>1. ASSUME NEW j \in Identities, ~Marked("twofold", j)', NEW v \in Rows, NEW w \in Rows, FoundBy(j, v)', FoundBy(j, w)'
        PROVE  v = w
    <3>1. ~Marked("twofold", j)
      BY <1>3, <2>1 DEF Marked
    <3>2. CASE FoundBy(j, v) /\ FoundBy(j, w)
      BY <3>1, <3>2 DEF AccountInv, OneFound
    <3>3. ASSUME NEW x \in Rows, NEW y \in Rows, FoundBy(j, x)', ~FoundBy(j, x), FoundBy(j, y) PROVE x = y
      <4>1. x = u /\ ((q.rows = {} /\ j = i) \/ (learns /\ j = "hidden")) /\ y \in Matching(j)
        BY <1>12, <3>3, FoundMatching
      <4>2. CASE q.rows = {} /\ j = i
        <5>1. <<"twofold", i>> \in Twofold(q)
          BY <4>1, <4>2 DEF Twofold
        <5> QED
          BY <2>1, <4>2, <5>1 DEF Marked
      <4>3. CASE learns /\ j = "hidden"
        BY <1>1, <2>1, <4>1, <4>3 DEF TwoRows
      <4> QED
        BY <4>1, <4>2, <4>3
    <3> QED
      BY <1>12, <2>1, <3>2, <3>3
  <2> QED
    BY <2>1 DEF OneFound
<1>15. /\ due' \in Ledger /\ PaymentsAndUsageAddUp'
       /\ \A v \in Rows : sub'[v].status = "none" => sub[v].status = "none" /\ sub'[v] = NoSub
  <2>1. CASE sub[u].status = "none"
    <3>1. sub' = [sub EXCEPT ![u] = NewSub("trial")] /\ due' = [due EXCEPT !.quota[u] = PlanQuota("trial")] /\ "trial" \in PlanNames
      BY <1>1, <2>1 DEF TrialFor, PlanNames
    <3>2. marks \subseteq marks' /\ \A a \in Agents : agent'[a].used = agent[a].used
      OBVIOUS
    <3> HIDE DEF AccountInv
    <3> QED
      BY <2>1, <3>1, <3>2, NewlySubscribed
  <2>2. CASE sub[u].status # "none"
    <3>1. due' = due /\ \A v \in Rows : sub'[v] = sub[v]
      BY <1>1, <1>2, <1>4, <2>2 DEF TrialFor
    <3> QED
      BY ZenonT(30), <1>3, <3>1 DEF AccountInv, AccountType, RowsOwn, PaymentsAndUsageAddUp, Marked
  <2> QED
    BY <2>1, <2>2
<1>16. RowsOwn'
  <2>1. user'["web"].ext = "own"
    BY <1>4, <1>5, <1>7 DEF AccountInv, RowsOwn, Rows
  <2>2. \A j \in Identities : user'[j].ext \in {"none", "merged", j} /\ user'[j].phone = "none"
    BY <1>4, <1>5, <1>7 DEF AccountInv, RowsOwn, Rows
  <2>3. \A j \in Identities : user'["web"].phone = j => Marked("linked", j)' /\ Marked("moved", j)'
    <3>1. user["web"].phone = "none" \/ user'["web"].phone = user["web"].phone
      BY <1>4, <1>5, <1>7 DEF AccountInv, RowsOwn, Rows
    <3>2. user'["web"].phone \in {"none", user["web"].phone}
      BY <1>4, <1>7, <3>1 DEF Rows
    <3> QED
      BY <1>3, <3>2 DEF AccountInv, RowsOwn, Marked, Identities
  <2>4. \A j \in Identities : user'[j].ext = j => sub'[j].status # "none"
    BY <1>4, <1>7, <1>9 DEF AccountInv, RowsOwn, Rows
  <2> QED
    BY <1>15, <2>1, <2>2, <2>3, <2>4 DEF RowsOwn
<1>17. StillFound'
  <2>1. ASSUME NEW j \in Identities, user'[j].ext = "merged"
        PROVE  FoundBy(j, "web")' \/ \E k \in Identities \ {j} : Marked("linked", k)'
    <3>1. user[j].ext = "merged"
      BY <1>4, <1>7, <2>1 DEF Rows, Identities
    <3> QED
      BY <1>3, <1>11, <3>1 DEF AccountInv, StillFound, Marked, Rows
  <2> QED
    BY <2>1 DEF StillFound
<1>18. OwnersPay'
  BY <1>3 DEF AccountInv, OwnersPay, Marked
<1>19. q.rows = {} \/ FoundBy(i, u) => FoundBy(i, u)'
  BY <1>1, <1>5, <1>6, <1>7, <1>11 DEF FoundBy, Identities
<1> QED
  BY <1>1, <1>8, <1>10, <1>13, <1>14, <1>15, <1>16, <1>17, <1>18, <1>19

LEMMA ProvisionKeeps ==
  ASSUME AccountInv, NEW r \in Calls, ProvisionCommits(r)
  PROVE  AccountInv'
<1>0. PICK q \in CallRecord : q = call[r] /\ CallHolds(q) /\ q.do = "provision"
  BY DEF AccountInv, AccountType, CallsHold, ProvisionCommits, Open
<1>1. PICK u \in Rows, i \in Identities, learns \in BOOLEAN :
         u = q.on /\ i = Known(q) /\ (learns <=> q.who = {"number", "hidden"}) /\ MadeFor(q)
  <2>1. Known(q) \in Identities
    BY <1>0, KnownIs DEF CallHolds, Identities
  <2> QED
    BY <1>0, <2>1 DEF CallHolds
<1>2. call' = [call EXCEPT ![r] = NoCall] /\ UNCHANGED <<agent, code>>
  BY DEF ProvisionCommits, Closes
<1>3. CASE Insertable(q)
  <2>1. /\ user' = [user EXCEPT ![q.on] = UserOf(i, learns, q.on)] /\ sub' = [sub EXCEPT ![q.on] = TrialFor(q.on)]
        /\ due' = IF sub[q.on].status = "none" THEN [due EXCEPT !.quota[q.on] = PlanQuota("trial")] ELSE due
        /\ marks' = marks \cup Twofold(q) \cup (IF TwoRows(learns, q.on) THEN {<<"twofold", "hidden">>} ELSE {})
    <3>1. (learns <=> q.who = {"number", "hidden"}) /\ learns \in BOOLEAN
      BY <1>1
    <3>2. learns = (q.who = {"number", "hidden"})
      BY <3>1
    <3> QED
      BY <1>0, <1>1, <1>3, <3>2 DEF ProvisionCommits
  <2>2. /\ marks \subseteq marks' /\ Twofold(q) \subseteq marks' /\ (TwoRows(learns, q.on) => Marked("twofold", "hidden")')
        /\ \A j \in Identities : Marked("free", j)' => Marked("free", j)
    BY <2>1 DEF Marked, Twofold
  <2>3. \A a \in Agents : /\ agent'[a].used = agent[a].used
                          /\ agent[a].owner \in Identities => agent'[a].owner \in Identities
                          /\ agent'[a].owner = "none" => agent'[a] = NoAgent
    BY <1>2 DEF AccountInv, RowsOwn
  <2>4. /\ user' \in [Rows -> UserRecord] /\ sub' \in [Rows -> SubRecord] /\ due' \in Ledger
        /\ RowsOwn' /\ NeverUndone /\ PaymentsAndUsageAddUp' /\ OneFound' /\ StillFound' /\ OwnersPay'
        /\ \A v \in Rows : TrialFor(v)' = TrialFor(v)
    <3>1. q.on \in Rows /\ Known(q) = i
      BY <1>1
    <3>2. MadeFor(q) /\ Insertable(q)
      BY <1>1, <1>3
    <3> QED
      BY <2>1, <2>2, <2>3, <3>1, <3>2, RowMade
  <2>5. OwnersFound' /\ RoomKept'
    <3>1. \A j \in Identities : OwnedBy(j)' \subseteq OwnedBy(j)
      BY <1>2 DEF OwnedBy
    <3>2. \A v \in Rows : MaxAgents(TrialFor(v).plan) <= MaxAgents(TrialFor(v).plan)'
      BY <2>4, PlanBounds
    <3>3. ASSUME NEW j \in Identities
          PROVE  /\ Steady(j)' /\ OwnedBy(j)' # {} => \E v \in Rows : FoundBy(j, v)'
                 /\ \A v \in Rows : Steady(j)' /\ ~Marked("twofold", j)' /\ FoundBy(j, v)' => Cardinality(OwnedBy(j)') <= MaxAgents(TrialFor(v).plan)'
      BY <2>4, <3>1, <3>2, RoomFrame
    <3> QED
      BY <3>3 DEF OwnersFound, RoomKept
  <2>6. /\ CallsHold' /\ call' \in [Calls -> CallRecord]
        /\ \A s \in Calls : call'[s].at = "idle" => call'[s] = NoCall
    BY <1>2, <2>4, CallsFrame
  <2>7. AccountType'
    BY <1>2, <2>4, <2>6 DEF AccountInv, AccountType
  <2> QED
    BY <2>4, <2>5, <2>6, <2>7 DEF AccountInv
<1>4. CASE ~Insertable(q)
  <2>1. UNCHANGED <<user, sub, due, marks>>
    BY <1>0, <1>4 DEF ProvisionCommits
  <2> QED
    BY <1>2, <2>1, BooksClosed DEF AccountInv, AccountType
<1> QED
  BY <1>3, <1>4

(* An owner gets one agent more.                                            *)
LEMMA OneMore ==
  ASSUME AccountInv, NEW a \in Agents, agent[a] = NoAgent, NEW i \in Identities, NEW n \in Nat,
         agent' = [agent EXCEPT ![a] = [NoAgent EXCEPT !.live = TRUE, !.owner = i, !.quota = n]]
  PROVE  /\ agent' \in [Agents -> AgentRecord] /\ \A b \in Agents : b # a => agent'[b] = agent[b]
         /\ \A b \in Agents : /\ agent'[b].used = agent[b].used
                              /\ agent[b].owner \in Identities => agent'[b].owner \in Identities
                              /\ agent'[b].owner = "none" => agent'[b] = NoAgent
         /\ \A j \in Identities : j # i => OwnedBy(j)' \subseteq OwnedBy(j)
         /\ Cardinality(OwnedBy(i)') = Cardinality(OwnedBy(i)) + 1
<1>1. agent \in [Agents -> AgentRecord]
  BY DEF AccountInv, AccountType
<1> DEFINE new == [NoAgent EXCEPT !.live = TRUE, !.owner = i, !.quota = n]
<1>2. new \in AgentRecord /\ new.live /\ new.owner = i /\ new.used = 0
  BY DEF NoAgent, AgentRecord
<1> HIDE DEF new
<1>3. agent' = [agent EXCEPT ![a] = new]
  BY DEF new
<1>4. agent' \in [Agents -> AgentRecord] /\ agent'[a] = new /\ \A b \in Agents : b # a => agent'[b] = agent[b]
  BY <1>1, <1>2, <1>3
<1>5. i # "none" /\ ~agent[a].live /\ agent[a].used = 0 /\ agent[a].owner = "none"
  BY NoAgentTyped DEF Identities
<1>6. \A b \in Agents : /\ agent'[b].used = agent[b].used
                        /\ agent[b].owner \in Identities => agent'[b].owner \in Identities
                        /\ agent'[b].owner = "none" => agent'[b] = NoAgent
  BY <1>2, <1>4, <1>5 DEF AccountInv, RowsOwn, Identities
<1>7. \A j \in Identities : j # i => OwnedBy(j)' \subseteq OwnedBy(j)
  BY <1>2, <1>4 DEF OwnedBy
<1>8. OwnedBy(i)' = OwnedBy(i) \cup {a} /\ a \notin OwnedBy(i)
  BY <1>2, <1>4, <1>5 DEF OwnedBy
<1>9. Cardinality(OwnedBy(i) \cup {a}) = Cardinality(OwnedBy(i)) + 1
  BY <1>8, OwnedFinite, FS_AddElement
<1> QED
  BY <1>4, <1>6, <1>7, <1>8, <1>9

LEMMA PostKeeps ==
  ASSUME AccountInv, NEW r \in Calls, PostCommits(r)
  PROVE  AccountInv'
<1>0. PICK q \in CallRecord : q = call[r] /\ CallHolds(q) /\ q.do = "post"
  BY DEF AccountInv, AccountType, CallsHold, PostCommits, Open
<1>1. PICK a \in Agents, i \in Identities : a = q.ref /\ i = Known(q) /\ agent[a] = NoAgent
  BY <1>0, KnownIs DEF CallHolds
<1>2. /\ call' = [call EXCEPT ![r] = NoCall] /\ UNCHANGED <<user, sub, code, due>>
      /\ agent' = [agent EXCEPT ![a] = [NoAgent EXCEPT !.live = TRUE, !.owner = i, !.quota = 1]]
      /\ marks' = marks \cup {<<"crowded", i>>}
  BY <1>0, <1>1 DEF PostCommits, Closes
<1>3. /\ agent' \in [Agents -> AgentRecord] /\ \A b \in Agents : b # a => agent'[b] = agent[b]
      /\ \A b \in Agents : /\ agent'[b].used = agent[b].used
                           /\ agent[b].owner \in Identities => agent'[b].owner \in Identities
                           /\ agent'[b].owner = "none" => agent'[b] = NoAgent
      /\ \A j \in Identities : j # i => OwnedBy(j)' \subseteq OwnedBy(j)
  BY Zenon, <1>1, <1>2, OneMore, 1 \in Nat
<1>4. /\ \A j \in Identities, v \in Rows : FoundBy(j, v)' <=> FoundBy(j, v)
      /\ OneFound' /\ StillFound'
  BY <1>2, UsersStay
<1>5. \A m : m \in marks => m \in marks'
  BY <1>2
<1>6. NeverUndone
  BY <1>2, <1>3, <1>4, <1>5 DEF NeverUndone, Marked
<1>7. /\ CallsHold' /\ call' \in [Calls -> CallRecord]
      /\ \A s \in Calls : call'[s].at = "idle" => call'[s] = NoCall
  <2>1. \A b \in Agents : agent[b] = NoAgent => \/ agent'[b] = NoAgent
                                                \/ /\ r \in Calls /\ call[r].do \in {"build", "post"} /\ call[r].ref = b
                                                   /\ call' = [call EXCEPT ![r] = NoCall]
    BY <1>0, <1>1, <1>2, <1>3
  <2> QED
    BY <1>2, <1>6, <2>1, CallsFrame
<1>8. AccountType'
  BY <1>2, <1>3, <1>7 DEF AccountInv, AccountType
<1>9. RowsOwn'
  BY <1>2, <1>3, <1>5 DEF AccountInv, RowsOwn, Marked, Rows
<1>10. PaymentsAndUsageAddUp' /\ OwnersPay'
  <2>1. \A x : ~Marked("overwritten", x)' => ~Marked("overwritten", x)
    BY <1>5 DEF Marked
  <2>2. \A j : Marked("free", j)' => Marked("free", j)
    BY <1>2 DEF Marked
  <2>3. PaymentsAndUsageAddUp'
    BY <1>2, <1>3, <2>1 DEF AccountInv, PaymentsAndUsageAddUp
  <2> QED
    BY <1>5, <2>2, <2>3 DEF AccountInv, OwnersPay, Marked
<1>11. OwnersFound' /\ RoomKept'
  <2>1. ~Steady(i)'
    BY <1>2 DEF Steady, Marked
  <2>2. \A v \in Rows : MaxAgents(TrialFor(v).plan) <= MaxAgents(TrialFor(v).plan)'
    BY <1>2, PlanBounds DEF TrialFor
  <2>3. ASSUME NEW j \in Identities, j # i
        PROVE  /\ Steady(j)' /\ OwnedBy(j)' # {} => \E v \in Rows : FoundBy(j, v)'
               /\ \A v \in Rows : Steady(j)' /\ ~Marked("twofold", j)' /\ FoundBy(j, v)' => Cardinality(OwnedBy(j)') <= MaxAgents(TrialFor(v).plan)'
    BY <1>3, <1>4, <1>6, <2>2, <2>3, RoomFrame
  <2> QED
    BY <2>1, <2>3 DEF OwnersFound, RoomKept
<1> QED
  BY <1>4, <1>7, <1>8, <1>9, <1>10, <1>11 DEF AccountInv

LEMMA BuildKeeps ==
  ASSUME AccountInv, NEW r \in Calls, BuildCommits(r)
  PROVE  AccountInv'
<1>0. PICK q \in CallRecord : q = call[r] /\ CallHolds(q) /\ q.do = "build"
  BY DEF AccountInv, AccountType, CallsHold, BuildCommits, Open
<1>1. PICK a \in Agents, u \in Rows, i \in Identities, n \in Nat :
         /\ a = q.ref /\ u = q.on /\ i = Known(q) /\ q.who = {i} /\ n = q.read.quota /\ agent[a] = NoAgent /\ MadeFor(q)
  <2>1. PICK i \in Identities : q.who = {i} /\ Known(q) = i
    BY <1>0, KnownIs DEF CallHolds
  <2>2. q.ref \in Agents /\ q.on \in Rows /\ agent[q.ref] = NoAgent /\ MadeFor(q)
    BY <1>0 DEF CallHolds
  <2>3. q.read.quota \in Nat
    BY DEF CallRecord, SubRecord
  <2> QED
    BY <2>1, <2>2, <2>3
<1>2. call' = [call EXCEPT ![r] = NoCall] /\ UNCHANGED code
  BY DEF BuildCommits, Closes
<1>3. CASE Insertable(q)
  <2>1. /\ agent' = [agent EXCEPT ![a] = [NoAgent EXCEPT !.live = TRUE, !.owner = i, !.quota = n]]
        /\ user' = [user EXCEPT ![q.on] = UserOf(i, FALSE, q.on)] /\ sub' = [sub EXCEPT ![q.on] = TrialFor(q.on)]
        /\ due' = IF sub[q.on].status = "none" THEN [due EXCEPT !.quota[q.on] = PlanQuota("trial")] ELSE due
        /\ marks' = marks \cup Twofold(q)
              \cup (IF Cardinality(OwnedBy(i)) # q.seen \/ TrialFor(q.on).plan # q.read.plan THEN {<<"crowded", i>>} ELSE {})
    BY <1>0, <1>1, <1>3 DEF BuildCommits
  <2>2. /\ marks \subseteq marks' /\ Twofold(q) \subseteq marks' /\ ~TwoRows(FALSE, q.on)
        /\ \A j \in Identities : Marked("free", j)' => Marked("free", j)
    BY <2>1 DEF Marked, Twofold, TwoRows
  <2>3. /\ agent' \in [Agents -> AgentRecord] /\ \A b \in Agents : b # a => agent'[b] = agent[b]
        /\ \A b \in Agents : /\ agent'[b].used = agent[b].used
                             /\ agent[b].owner \in Identities => agent'[b].owner \in Identities
                             /\ agent'[b].owner = "none" => agent'[b] = NoAgent
        /\ \A j \in Identities : j # i => OwnedBy(j)' \subseteq OwnedBy(j)
        /\ Cardinality(OwnedBy(i)') = Cardinality(OwnedBy(i)) + 1
    BY ZenonT(30), <1>1, <2>1, OneMore
  <2>4. /\ user' \in [Rows -> UserRecord] /\ sub' \in [Rows -> SubRecord] /\ due' \in Ledger
        /\ RowsOwn' /\ NeverUndone /\ PaymentsAndUsageAddUp' /\ OneFound' /\ StillFound' /\ OwnersPay'
        /\ \A v \in Rows : TrialFor(v)' = TrialFor(v)
        /\ q.rows = {} \/ FoundBy(i, q.on) => FoundBy(i, q.on)'
    <3>1. q.on \in Rows /\ Known(q) = i /\ FALSE \in BOOLEAN
      BY <1>1
    <3>2. MadeFor(q) /\ Insertable(q) /\ (TwoRows(FALSE, q.on) => Marked("twofold", "hidden")')
      BY <1>1, <1>3, <2>2
    <3> QED
      BY <2>1, <2>2, <2>3, <3>1, <3>2, RowMade
  <2>5. /\ CallsHold' /\ call' \in [Calls -> CallRecord]
        /\ \A s \in Calls : call'[s].at = "idle" => call'[s] = NoCall
    <3>1. \A b \in Agents : agent[b] = NoAgent => \/ agent'[b] = NoAgent
                                                  \/ /\ r \in Calls /\ call[r].do \in {"build", "post"} /\ call[r].ref = b
                                                     /\ call' = [call EXCEPT ![r] = NoCall]
      BY <1>0, <1>1, <1>2, <2>3
    <3> QED
      BY <1>2, <2>4, <3>1, CallsFrame
  <2>6. AccountType'
    BY <1>2, <2>3, <2>4, <2>5 DEF AccountInv, AccountType
  <2>7. ASSUME NEW j \in Identities, j # i
        PROVE  /\ Steady(j)' /\ OwnedBy(j)' # {} => \E v \in Rows : FoundBy(j, v)'
               /\ \A v \in Rows : Steady(j)' /\ ~Marked("twofold", j)' /\ FoundBy(j, v)' => Cardinality(OwnedBy(j)') <= MaxAgents(TrialFor(v).plan)'
    <3>1. \A v \in Rows : MaxAgents(TrialFor(v).plan) <= MaxAgents(TrialFor(v).plan)'
      BY <2>4, PlanBounds
    <3> QED
      BY <2>3, <2>4, <2>7, <3>1, RoomFrame
  <2>8. Steady(i)' => FoundBy(i, u)'
    <3>1. Steady(i)' => ~Marked("moved", i)
      BY <2>2 DEF Steady, Marked
    <3>2. ~Marked("moved", i) /\ q.rows # {} => FoundBy(i, q.on)
      BY <1>0, <1>1 DEF CallHolds
    <3> QED
      BY <1>1, <2>4, <3>1, <3>2
  <2>9. Steady(i)' => Cardinality(OwnedBy(i)) = q.seen /\ TrialFor(u).plan = q.read.plan
    BY <1>1, <2>1 DEF Steady, Marked
  <2>10. \A v \in Rows : Steady(i)' /\ ~Marked("twofold", i)' /\ FoundBy(i, v)' => Cardinality(OwnedBy(i)') <= MaxAgents(TrialFor(v).plan)'
    <3>1. ASSUME NEW v \in Rows, Steady(i)', ~Marked("twofold", i)', FoundBy(i, v)'
          PROVE  Cardinality(OwnedBy(i)') <= MaxAgents(TrialFor(v).plan)'
      <4>1. v = u
        BY <2>4, <2>8, <3>1 DEF OneFound
      <4>2. q.seen < MaxAgents(q.read.plan) /\ q.seen \in Nat /\ MaxAgents(q.read.plan) \in Nat
        BY <1>0, PlanBounds DEF CallHolds, CallRecord
      <4>3. MaxAgents(TrialFor(v).plan)' = MaxAgents(q.read.plan)
        BY <2>4, <2>9, <3>1, <4>1
      <4> QED
        BY <2>3, <2>9, <3>1, <4>2, <4>3
    <3> QED
      BY <3>1
  <2>11. OwnersFound' /\ RoomKept'
    BY <2>7, <2>8, <2>10 DEF OwnersFound, RoomKept
  <2> QED
    BY <2>4, <2>5, <2>6, <2>11 DEF AccountInv
<1>4. CASE ~Insertable(q)
  <2>1. UNCHANGED <<agent, user, sub, due, marks>>
    BY <1>0, <1>4 DEF BuildCommits
  <2> QED
    BY <1>2, <2>1, BooksClosed DEF AccountInv, AccountType
<1> QED
  BY <1>3, <1>4

(* Identities that are given to other rows.                                 *)
LEMMA Reassigned ==
  ASSUME AccountInv, UNCHANGED <<agent, due>>, NEW r,
         \/ call' = [call EXCEPT ![r] = NoCall]
         \/ UNCHANGED call,
         code' \in [Codes -> [state : {"none", "open", "expired", "used"}, by : SUBSET SUBSET Identities]],
         marks \subseteq marks', \A j \in Identities : Marked("free", j)' => Marked("free", j),
         user' \in [Rows -> UserRecord], sub' \in [Rows -> SubRecord],
         \A v \in Rows : /\ sub'[v].status = "none" <=> sub[v].status = "none"
                         /\ sub'[v].plan = sub[v].plan /\ sub'[v].quota = sub[v].quota /\ sub'[v].used = sub[v].used,
         RowsOwn', NeverUndone, OneFound', StillFound'
  PROVE  AccountInv'
<1>1. \A m : m \in marks => m \in marks'
  OBVIOUS
<1>2. /\ CallsHold' /\ call' \in [Calls -> CallRecord]
      /\ \A s \in Calls : call'[s].at = "idle" => call'[s] = NoCall
  BY CallsFrame
<1>3. AccountType'
  BY <1>2 DEF AccountInv, AccountType
<1>4. PaymentsAndUsageAddUp' /\ OwnersPay'
  <2>1. \A x : ~Marked("overwritten", x)' => ~Marked("overwritten", x)
    BY <1>1 DEF Marked
  <2>2. PaymentsAndUsageAddUp'
    BY <2>1 DEF AccountInv, PaymentsAndUsageAddUp
  <2> QED
    BY <1>1, <2>2 DEF AccountInv, OwnersPay, Marked
<1>5. OwnersFound' /\ RoomKept'
  <2>1. \A j \in Identities : OwnedBy(j)' \subseteq OwnedBy(j)
    BY DEF OwnedBy
  <2>2. \A v \in Rows : MaxAgents(TrialFor(v).plan) <= MaxAgents(TrialFor(v).plan)'
    <3>1. \A v \in Rows : TrialFor(v).plan = TrialFor(v)'.plan
      BY DEF TrialFor
    <3> QED
      BY <3>1, PlanBounds
  <2>3. ASSUME NEW j \in Identities
        PROVE  /\ Steady(j)' /\ OwnedBy(j)' # {} => \E v \in Rows : FoundBy(j, v)'
               /\ \A v \in Rows : Steady(j)' /\ ~Marked("twofold", j)' /\ FoundBy(j, v)' => Cardinality(OwnedBy(j)') <= MaxAgents(TrialFor(v).plan)'
    BY <2>1, <2>2, RoomFrame
  <2> QED
    BY <2>3 DEF OwnersFound, RoomKept
<1> QED
  BY <1>2, <1>3, <1>4, <1>5 DEF AccountInv

LEMMA LinkedFields ==
  ASSUME user["web"] \in UserRecord, NEW who \in Senders
  PROVE  LET w == Linked(user["web"], who)
         IN /\ w \in UserRecord /\ w.ext = user["web"].ext
            /\ w.phone \in Identities \cap who \/ (w.phone = user["web"].phone /\ \A i \in who : ~IsNumber(i))
            /\ w.lid = (IF "hidden" \in who THEN "hidden" ELSE user["web"].lid)
<1>1. PICK p : p = (IF PhoneOf(who) = {} THEN user["web"].phone ELSE CHOOSE i \in PhoneOf(who) : TRUE)
  OBVIOUS
<1>2. \A i \in PhoneOf(who) : i \in Numbers /\ i \in who
  BY DEF PhoneOf, Senders, Numbers, IsNumber
<1>3. p \in {"none"} \cup Numbers /\ (p \in who \cap Numbers \/ (p = user["web"].phone /\ \A i \in who : ~IsNumber(i)))
  BY <1>1, <1>2 DEF UserRecord, PhoneOf
<1>4. Linked(user["web"], who) = [user["web"] EXCEPT !.phone = p, !.lid = IF "hidden" \in who THEN "hidden" ELSE @]
  BY <1>1 DEF Linked
<1> QED
  BY <1>3, <1>4 DEF UserRecord, Numbers, Identities

LEMMA ClaimKeeps ==
  ASSUME AccountInv, NEW r \in Calls, ClaimCommits(r)
  PROVE  AccountInv'
<1>0. PICK q \in CallRecord : q = call[r] /\ CallHolds(q) /\ q.do = "claim"
  BY DEF AccountInv, AccountType, CallsHold, ClaimCommits, Open
<1>1. PICK who \in Senders, shadows \in SUBSET Identities, c \in Codes : who = q.who /\ shadows = q.rows /\ c = q.ref
  BY <1>0 DEF CallHolds
<1>2. /\ call' = [call EXCEPT ![r] = NoCall] /\ UNCHANGED <<agent, due>>
      /\ user' = [u \in Rows |-> IF u \in shadows THEN Archived ELSE IF u = "web" THEN Linked(user[u], who) ELSE user[u]]
      /\ sub' = [u \in Rows |-> IF u \in shadows THEN Merged(sub[u]) ELSE sub[u]]
      /\ code' = [code EXCEPT ![c] = [state |-> "used", by |-> @.by \cup {who}]]
      /\ marks' = marks \cup {<<"linked", i>> : i \in who} \cup {<<"moved", i>> : i \in Moves(q)}
                        \cup (IF Shadows(who) # shadows \/ code[c].state # "open" THEN {<<"twofold", i>> : i \in who} ELSE {})
  BY <1>0, <1>1 DEF ClaimCommits, Closes, Archives
<1>3. who \subseteq Identities /\ \A i \in Identities : i \in who \/ Matching(i) \cap shadows # {} => i \in Moves(q)
  BY <1>1 DEF Senders, Identities, Moves
<1>4. /\ \A m : m \in marks => m \in marks'
      /\ \A i \in who : Marked("linked", i)' /\ Marked("moved", i)'
      /\ \A i \in Identities : ~Marked("moved", i)' => ~Marked("moved", i) /\ Matching(i) \cap shadows = {}
      /\ \A i : Marked("free", i)' => Marked("free", i)
      /\ \A i \in who : ~Marked("twofold", i)' => Shadows(who) = shadows
      /\ \A i : ~Marked("twofold", i)' => ~Marked("twofold", i)
  BY <1>2, <1>3 DEF Marked
<1>5. user \in [Rows -> UserRecord] /\ sub \in [Rows -> SubRecord] /\ "web" \in Rows /\ "web" \notin Identities /\ Identities \subseteq Rows
  BY DEF AccountInv, AccountType, Rows, Identities
<1>6. PICK w \in UserRecord : /\ w = Linked(user["web"], who) /\ w.ext = "own"
                              /\ w.phone \in Identities \cap who \/ (w.phone = user["web"].phone /\ \A i \in who : ~IsNumber(i))
                              /\ w.lid = (IF "hidden" \in who THEN "hidden" ELSE user["web"].lid)
  <2>1. user["web"] \in UserRecord /\ user["web"].ext = "own"
    BY <1>5 DEF AccountInv, RowsOwn
  <2> QED
    BY <2>1, LinkedFields
<1>7. Archived \in UserRecord /\ Archived.ext = "merged" /\ Archived.phone = "none" /\ Archived.lid = "none"
  BY DEF Archived, NoUser, UserRecord
<1>8. /\ user'["web"] = w /\ \A i \in Identities : user'[i] = IF i \in shadows THEN Archived ELSE user[i]
      /\ user' \in [Rows -> UserRecord]
  BY <1>2, <1>5, <1>6, <1>7
<1>9. ASSUME NEW s \in SubRecord
      PROVE  /\ Merged(s) \in SubRecord /\ (Merged(s).status = "none" <=> s.status = "none") /\ (s.status = "none" => Merged(s) = s)
             /\ Merged(s).plan = s.plan /\ Merged(s).quota = s.quota /\ Merged(s).used = s.used
  BY DEF Merged, Usable, SubRecord
<1>10. /\ sub' \in [Rows -> SubRecord]
       /\ \A v \in Rows : /\ sub'[v].status = "none" <=> sub[v].status = "none"
                          /\ sub[v].status = "none" => sub'[v] = sub[v]
                          /\ sub'[v].plan = sub[v].plan /\ sub'[v].quota = sub[v].quota /\ sub'[v].used = sub[v].used
  BY <1>2, <1>5, <1>9
<1>11. RowsOwn'
  <2>1. \A i \in Identities : user'[i].ext \in {"none", "merged", i} /\ user'[i].phone = "none"
    BY <1>7, <1>8 DEF AccountInv, RowsOwn
  <2>2. \A i \in Identities : w.phone = i => Marked("linked", i)' /\ Marked("moved", i)'
    BY <1>4, <1>6 DEF AccountInv, RowsOwn, Marked
  <2>3. \A i \in Identities : user'[i].ext = i => sub'[i].status # "none"
    BY <1>5, <1>7, <1>8, <1>10 DEF AccountInv, RowsOwn, Identities
  <2>4. \A v \in Rows : sub'[v].status = "none" => sub'[v] = NoSub
    BY <1>10 DEF AccountInv, RowsOwn
  <2> QED
    BY <1>2, <1>6, <1>8, <2>1, <2>2, <2>3, <2>4 DEF AccountInv, RowsOwn
<1>12. /\ \A j \in Identities, v \in Identities : FoundBy(j, v)' <=> v \notin shadows /\ FoundBy(j, v)
       /\ \A j \in Identities : FoundBy(j, "web")' <=> j \in {w.phone, w.lid}
       /\ \A j \in Identities : FoundBy(j, "web") <=> j \in {user["web"].phone, user["web"].lid}
  <2>1. user["web"].ext = "own" /\ \A j \in Identities : j \notin {"none", "own", "merged"}
    BY DEF AccountInv, RowsOwn, Identities
  <2>2. \A j \in Identities, v \in Identities : FoundBy(j, v)' <=> v \notin shadows /\ FoundBy(j, v)
    BY <1>7, <1>8, <2>1 DEF FoundBy
  <2>3. \A j \in Identities : FoundBy(j, "web")' <=> j \in {w.phone, w.lid}
    BY <1>6, <1>8, <2>1 DEF FoundBy
  <2> QED
    BY <2>1, <2>2, <2>3 DEF FoundBy
<1>13. \A j \in Identities : FoundBy(j, "web") /\ (j \in who \/ (\A i \in who : ~IsNumber(i)) \/ ~Marked("moved", j)) => FoundBy(j, "web")'
  <2>1. ASSUME NEW j \in Identities, FoundBy(j, "web"), j \in who \/ (\A i \in who : ~IsNumber(i)) \/ ~Marked("moved", j)
        PROVE  FoundBy(j, "web")'
    <3>1. CASE j = user["web"].lid
      <4>1. j = "hidden"
        BY <1>5, <3>1 DEF UserRecord, Identities
      <4> QED
        BY <1>6, <1>12, <3>1, <4>1
    <3>2. CASE j = user["web"].phone /\ j # user["web"].lid
      <4>1. Marked("moved", j) /\ IsNumber(j)
        <5>1. user["web"].phone \in {"none", "number", "other"} /\ j # "none"
          BY <1>5 DEF UserRecord, Numbers, Identities
        <5> QED
          BY <3>2, <5>1 DEF AccountInv, RowsOwn, IsNumber
      <4>2. CASE \A i \in who : ~IsNumber(i)
        <5>1. w.phone \in Identities => IsNumber(w.phone)
          BY DEF UserRecord, Numbers, Identities, IsNumber
        <5>2. w.phone = user["web"].phone
          BY <1>6, <4>2, <5>1
        <5> QED
          BY <1>12, <3>2, <5>2
      <4>3. CASE j \in who
        <5>1. w.phone \in who /\ IsNumber(w.phone)
          BY <1>6, <4>1, <4>3 DEF UserRecord, Numbers, IsNumber
        <5>2. \A x, y \in who : IsNumber(x) /\ IsNumber(y) => x = y
          BY DEF Senders, IsNumber
        <5> QED
          BY <1>12, <4>1, <4>3, <5>1, <5>2
      <4> QED
        BY <2>1, <4>1, <4>2, <4>3
    <3> QED
      BY <1>12, <2>1, <3>1, <3>2
  <2> QED
    BY <2>1
<1>14. NeverUndone
  <2>1. \A u \in Rows : user[u].ext # "none" => user'[u].ext # "none"
    BY <1>6, <1>7, <1>8 DEF Rows
  <2>2. \A j \in Identities, v \in Rows : ~Marked("moved", j)' /\ FoundBy(j, v) => FoundBy(j, v)'
    <3>1. ASSUME NEW j \in Identities, NEW v \in Identities, ~Marked("moved", j)', FoundBy(j, v) PROVE FoundBy(j, v)'
      <4>1. v \in Matching(j) /\ Matching(j) \cap shadows = {}
        BY <1>4, <1>5, <3>1, FoundMatching
      <4> QED
        BY <1>12, <3>1, <4>1
    <3>2. \A j \in Identities : ~Marked("moved", j)' /\ FoundBy(j, "web") => FoundBy(j, "web")'
      BY <1>4, <1>13
    <3> QED
      BY <3>1, <3>2 DEF Rows
  <2> QED
    BY <1>2, <1>4, <1>10, <2>1, <2>2 DEF NeverUndone
<1>15. OneFound'
  <2>1. ASSUME NEW j \in Identities, ~Marked("twofold", j)', NEW u \in Rows, NEW v \in Rows, FoundBy(j, u)', FoundBy(j, v)' PROVE u = v
    <3>1. CASE j \in who
      <4>1. ASSUME NEW x \in Identities PROVE ~FoundBy(j, x)'
        <5>1. FoundBy(j, x) => x \in Shadows(who)
          BY <1>5, <3>1 DEF FoundBy, Shadows
        <5> QED
          BY <1>4, <1>12, <2>1, <3>1, <5>1
      <4> QED
        BY <2>1, <4>1 DEF Rows
    <3>2. CASE j \notin who
      <4>1. FoundBy(j, "web")' => FoundBy(j, "web")
        BY <1>6, <1>12, <3>2
      <4>2. FoundBy(j, u) /\ FoundBy(j, v)
        BY <1>12, <2>1, <4>1 DEF Rows
      <4> QED
        BY <1>4, <2>1, <4>2 DEF AccountInv, OneFound
    <3> QED
      BY <3>1, <3>2
  <2> QED
    BY <2>1 DEF OneFound
<1>16. StillFound'
  <2>1. ASSUME NEW j \in Identities, user'[j].ext = "merged", \A i \in Identities \ {j} : ~Marked("linked", i)' PROVE FoundBy(j, "web")'
    <3>1. who = {j}
      BY <1>3, <1>4, <2>1 DEF Senders
    <3>2. CASE IsNumber(j)
      BY <1>6, <1>12, <3>1, <3>2
    <3>3. CASE ~IsNumber(j)
      BY <1>6, <1>12, <3>1, <3>3 DEF IsNumber
    <3> QED
      BY <3>2, <3>3
  <2> QED
    BY <1>8, <2>1 DEF StillFound
<1>17. code' \in [Codes -> [state : {"none", "open", "expired", "used"}, by : SUBSET SUBSET Identities]]
  <2>1. code \in [Codes -> [state : {"none", "open", "expired", "used"}, by : SUBSET SUBSET Identities]] /\ who \in SUBSET Identities
    BY <1>3 DEF AccountInv, AccountType
  <2>2. code[c].by \cup {who} \in SUBSET SUBSET Identities
    BY <2>1
  <2>3. [state |-> "used", by |-> code[c].by \cup {who}] \in [state : {"none", "open", "expired", "used"}, by : SUBSET SUBSET Identities]
    BY <2>2
  <2> QED
    BY <1>2, <2>1, <2>3
<1>18. marks \subseteq marks' /\ UNCHANGED <<agent, due>>
  BY <1>2
<1> QED
  BY <1>2, <1>4, <1>8, <1>10, <1>11, <1>14, <1>15, <1>16, <1>17, <1>18, Reassigned

LEMMA ProfileKeeps ==
  ASSUME AccountInv, NEW i \in Identities, Profile(i)
  PROVE  AccountInv'
<1>1. /\ IsNumber(i) /\ user' = [user EXCEPT !["web"].phone = i] /\ UNCHANGED <<sub, paid, agent, code, call, due, calls>>
      /\ marks' = marks \cup {<<"linked", i>>, <<"moved", i>>} \cup (IF Matching(i) \subseteq {"web"} THEN {} ELSE {<<"twofold", i>>})
  BY DEF Profile
<1>2. user \in [Rows -> UserRecord] /\ i \in Numbers /\ "web" \in Rows /\ "web" \notin Identities /\ Identities \subseteq Rows
  BY <1>1 DEF AccountInv, AccountType, Rows, Identities, Numbers, IsNumber
<1>3. /\ user' \in [Rows -> UserRecord] /\ \A v \in Rows : v # "web" => user'[v] = user[v]
      /\ user'["web"].ext = user["web"].ext /\ user'["web"].phone = i /\ user'["web"].lid = user["web"].lid
  BY <1>1, <1>2 DEF UserRecord
<1>4. /\ \A m : m \in marks => m \in marks'
      /\ Marked("linked", i)' /\ Marked("moved", i)' /\ \A j : Marked("free", j)' => Marked("free", j)
      /\ ~Marked("twofold", i)' => Matching(i) \subseteq {"web"}
      /\ \A j : ~Marked("twofold", j)' => ~Marked("twofold", j)
  BY <1>1 DEF Marked
<1>5. RowsOwn'
  <2>1. \A j \in Identities : user'[j] = user[j]
    BY <1>2, <1>3
  <2> QED
    BY <1>1, <1>3, <1>4, <2>1 DEF AccountInv, RowsOwn
<1>6. user["web"].ext = "own" /\ \A j \in Identities : j \notin {"none", "own"}
  BY DEF AccountInv, RowsOwn, Identities
<1>7. /\ \A j \in Identities, v \in Identities : FoundBy(j, v)' <=> FoundBy(j, v)
      /\ \A j \in Identities : FoundBy(j, "web")' <=> j \in {i, user["web"].lid}
      /\ \A j \in Identities : FoundBy(j, "web") <=> j \in {user["web"].phone, user["web"].lid}
  BY <1>2, <1>3, <1>6 DEF FoundBy
<1>8. NeverUndone
  <2>1. \A u \in Rows : user[u].ext # "none" => user'[u].ext # "none"
    BY <1>3, <1>6
  <2>2. \A j \in Identities : ~Marked("moved", j)' /\ FoundBy(j, "web") => FoundBy(j, "web")'
    BY <1>4, <1>7 DEF AccountInv, RowsOwn, Marked
  <2> QED
    BY <1>1, <1>4, <1>7, <2>1, <2>2 DEF NeverUndone, Rows
<1>9. OneFound'
  <2>1. ASSUME NEW j \in Identities, ~Marked("twofold", j)', NEW u \in Rows, NEW v \in Rows, FoundBy(j, u)', FoundBy(j, v)' PROVE u = v
    <3>1. CASE j = i
      <4>1. \A x \in Identities : ~FoundBy(i, x)
        BY <1>2, <1>4, <2>1, <3>1, FoundMatching
      <4> QED
        BY <1>7, <2>1, <3>1, <4>1 DEF Rows
    <3>2. CASE j # i
      <4>1. FoundBy(j, u) /\ FoundBy(j, v)
        BY <1>7, <2>1, <3>2 DEF Rows
      <4> QED
        BY <1>4, <2>1, <4>1 DEF AccountInv, OneFound
    <3> QED
      BY <3>1, <3>2
  <2> QED
    BY <2>1 DEF OneFound
<1>10. StillFound'
  <2>1. ASSUME NEW j \in Identities, user'[j].ext = "merged", \A k \in Identities \ {j} : ~Marked("linked", k)' PROVE FoundBy(j, "web")'
    BY <1>4, <1>7, <2>1
  <2> QED
    BY <1>2, <1>3, <2>1 DEF StillFound
<1>11. /\ UNCHANGED <<agent, due>> /\ UNCHANGED call /\ marks \subseteq marks'
       /\ code' \in [Codes -> [state : {"none", "open", "expired", "used"}, by : SUBSET SUBSET Identities]]
       /\ sub' \in [Rows -> SubRecord]
       /\ \A v \in Rows : /\ sub'[v].status = "none" <=> sub[v].status = "none"
                          /\ sub'[v].plan = sub[v].plan /\ sub'[v].quota = sub[v].quota /\ sub'[v].used = sub[v].used
       /\ \A j \in Identities : Marked("free", j)' => Marked("free", j)
  BY <1>1, <1>4 DEF AccountInv, AccountType
<1> QED
  BY <1>3, <1>5, <1>8, <1>9, <1>10, <1>11, Reassigned

-----------------------------------------------------------------------------
LEMMA AccountStep == AccountInv /\ [AccountNext]_accountVars => AccountInv'
<1> SUFFICES ASSUME AccountInv, [AccountNext]_accountVars PROVE AccountInv'
  OBVIOUS
<1>1. CASE \E r \in Calls : Begins(r)
  BY <1>1, BeginsKeeps
<1>2. CASE \E r \in Calls : Commits(r)
  BY <1>2, ProvisionKeeps, TopupKeeps, UpgradeKeeps, ActivateKeeps, BuildKeeps, PostKeeps, DeleteKeeps, RenewKeeps, RecordsKeeps,
     UsageKeeps, ClaimKeeps DEF Commits
<1>3. CASE \E c \in Codes : Generate(c)
  BY <1>3, GenerateKeeps
<1>4. CASE \E u \in Rows : Ages(u, "grace_period") \/ Ages(u, "expired")
  BY <1>4, AgesKeeps
<1>5. CASE \E a \in Agents : Lapses(a)
  BY <1>5, LapsesKeeps
<1>6. CASE \E i \in Identities : Profile(i)
  BY <1>6, ProfileKeeps
<1>7. CASE UNCHANGED accountVars
  <2>1. UNCHANGED <<user, sub, agent, due, marks, call, code>>
    BY <1>7 DEF accountVars
  <2> QED
    BY <2>1, BooksClosed DEF AccountInv, AccountType
<1> QED
  BY <1>1, <1>2, <1>3, <1>4, <1>5, <1>6, <1>7 DEF AccountNext

LEMMA AddsUp == AccountInv => AccountsAddUp
<1> SUFFICES ASSUME AccountInv PROVE AccountsAddUp
  OBVIOUS
<1>1. OneRowEach
  <2>1. ASSUME NEW i \in Identities, ~Marked("twofold", i) PROVE Cardinality(Matching(i)) <= 1
    <3>1. CASE Matching(i) = {}
      BY <3>1, FS_EmptySet
    <3>2. CASE Matching(i) # {}
      <4>1. PICK u \in Rows : Matching(i) = {u}
        BY <2>1, <3>2, FoundMatching DEF AccountInv, OneFound, Matching
      <4> QED
        BY <4>1, FS_Singleton
    <3> QED
      BY <3>1, <3>2
  <2> QED
    BY <2>1 DEF OneRowEach
<1>2. SlotsKept
  BY FoundMatching DEF AccountInv, RoomKept, SlotsKept, Steady
<1>3. NobodyIsLockedOut
  BY FoundMatching DEF AccountInv, StillFound, NobodyIsLockedOut, Rows
<1> QED
  BY <1>1, <1>2, <1>3 DEF AccountInv, AccountsAddUp

(* Whatever requests run side by side, and in whatever order they read and  *)
(* commit: what was paid for and used is what the rows say, an identity is  *)
(* found in one row, owners keep to their plans, runs are charged to those  *)
(* who can be found, and nobody loses the account by linking it, but for    *)
(* what the code does not guard against and the marks name                  *)
(* (subscription_service.py, wa_link_service.py, auth_service.py).          *)
THEOREM AccountsHold == AccountSpec => []AccountsAddUp
<1>1. AccountSpec => []AccountInv
  BY AccInit, AccountStep, PTL DEF AccountSpec
<1> QED
  BY <1>1, AddsUp, PTL

-----------------------------------------------------------------------------
(* Agents that Arthur makes and changes.                                    *)
Titles == STRING \cup {"none"}
RowRecord == [live : BOOLEAN, name : Titles, says : SUBSET Words, block : BOOLEAN, keeps : SUBSET Contracts,
              tools : SUBSET Capabilities, told : SUBSET Words, version : Nat]
ManualRecord == [agent : Built, version : Nat, state : {"usable", "review"}, fits : BOOLEAN]
MemoryRecord == [agent : Built, key : {"soul", "context"}, v : Nat, says : Nat, copy : Nat, by : {"create", "update", "memory"}]
ChangeRecord == [do : {"update", "patch"}, name : STRING, fields : SUBSET {"instructions", "tools_config", "model"},
                 says : SUBSET Words, keeps : SUBSET Contracts, tools : SUBSET Capabilities, off : SUBSET Capabilities,
                 manual : {"none", "usable", "review"}, told : SUBSET Words, mode : {"none", "selective", "major"}]
Deeds == {"create", "update", "patch", "knowledge", "memory", "delete"}
Working(r) == req[r].at # "idle"
Jobs == {Nothing} \cup Specs \cup ChangeRecord \cup [do : {"knowledge", "delete"}] \cup [do : {"memory"}, key : {"soul", "context"}]
RequestRecord == [at : {"idle", "open", "locked"}, agent : Built \cup {"none"}, for : Jobs, read : RowRecord,
                  seen : SUBSET Built, keys : SUBSET MemoryRecord]
WholeRequest(o) == o = [at |-> o.at, agent |-> o.agent, for |-> o.for, read |-> o.read, seen |-> o.seen, keys |-> o.keys]

BuilderType ==
    /\ row \in [Built -> RowRecord] /\ manual \subseteq ManualRecord /\ docs \subseteq Built
    /\ memory \subseteq MemoryRecord /\ IsFiniteSet(memory) /\ holds \in [Built -> Requests \cup {"none"}] /\ open \in BOOLEAN
    /\ req \in [Requests -> RequestRecord]
    /\ \A r \in Requests : IF Working(r) THEN req[r].agent \in Built /\ req[r].for.do \in Deeds ELSE req[r] = Free

(* What an agent owns, it owns since it was made.                           *)
RowsOk ==
    /\ \A a \in Built : row[a] = NoRow \/ row[a].version > 0
    /\ \A m \in manual : row[m.agent].version > 0
    /\ \A m \in memory : row[m.agent].version > 0
    /\ \A a \in docs : row[a].version > 0

(* A live agent has a manual, and none is ahead of the agent.               *)
ManualsOk ==
    /\ \E n \in Nat : \A m \in manual : m.version <= n
    /\ \A a \in Built : row[a].live =>
          /\ \E m \in manual : m.agent = a
          /\ Excused(a, {"overtaken", "numbered"}) \/ \A m \in manual : m.agent = a => m.version <= row[a].version

(* What a call was let in with still stands: a new agent's id is unused, a  *)
(* change passed the check against what it read, and the keys it saw are    *)
(* there.                                                                   *)
RequestOk(x) ==
    /\ x.for.do = "create" => SpecOk(x.for) /\ Accepts(x.for) /\ row[x.agent] = NoRow /\ x.seen = {}
    /\ x.for.do # "create" => row[x.agent].version > 0
    /\ x.for.do \in {"update", "patch"} => x.for \in ChangeRecord
    /\ x.for.do = "update" => UpdateAccepts(x.read, x.for) /\ (x.for.name # "" => x.seen \subseteq {x.agent})
    /\ x.for.do = "memory" => x.for.key \in {"soul", "context"}
    /\ \A m \in x.keys : m.agent = x.agent /\ \E n \in memory : SameKey(n, m)

(* An update that has the row's lock saw every key but those of the memory  *)
(* tool.                                                                    *)
LockOk(r) == /\ req[r].for.do = "update" /\ holds[req[r].agent] = r
             /\ \A m \in Keys(req[r].agent) : m.by = "memory" \/ \E n \in req[r].keys : SameKey(m, n)
RequestsOk ==
    /\ \A r \in Requests, x \in RequestRecord : Working(r) /\ x = req[r] => RequestOk(x)
    /\ \A r, q \in Requests : Working(r) /\ Working(q) /\ r # q /\ req[r].for.do = "create" => req[q].agent # req[r].agent
    /\ \A r \in Requests : req[r].at = "locked" => LockOk(r)

BuilderInv == BuilderType /\ RowsOk /\ ManualsOk /\ RequestsOk /\ BuiltAsAgreed

(* Fewer words, or more tools, lack nothing more.                           *)
LEMMA LackingShrinks ==
  ASSUME NEW w, NEW v, v \subseteq w, NEW k, NEW t, NEW u, t \subseteq u, Lacking(w, k, t) = {}
  PROVE  Lacking(v, k, u) = {}
<1>1. /\ ~(Payment(w) /\ ~("approval" \in k /\ "escalation" \in t))
      /\ ~(Delivery(w) /\ ~("parent" \in k /\ "media" \in t))
      /\ ~(Generated(w) /\ ~({"sandbox", "subagents"} \subseteq t))
  BY DEF Lacking
<1>2. (Payment(v) => Payment(w)) /\ (Delivery(v) => Delivery(w)) /\ (Generated(v) => Generated(w))
  BY DEF Payment, Delivery, Generated
<1> QED
  BY <1>1, <1>2 DEF Lacking

(* A row is its columns.                                                    *)
WholeEntry(e) == e = [live |-> e.live, name |-> e.name, says |-> e.says, block |-> e.block, keeps |-> e.keeps,
                 tools |-> e.tools, told |-> e.told, version |-> e.version]

(* A change of a row, column by column.                                     *)
LEMMA ChangedRow ==
  ASSUME NEW read \in RowRecord, NEW c \in ChangeRecord
  PROVE  LET d == Changed(read, c) IN
         /\ d \in RowRecord /\ d.live = read.live /\ d.told = read.told /\ d.version = read.version
         /\ d.name = IF c.name = "" THEN read.name ELSE c.name
         /\ ~TakesText(c) => d.says = read.says /\ d.block = read.block /\ d.keeps = read.keeps
         /\ "rag" \in read.tools /\ ~(TakesTools(c) /\ "rag" \in c.off) => "rag" \in d.tools
<1> DEFINE title == IF c.name = "" THEN read.name ELSE c.name
           says == IF TakesText(c) THEN c.says ELSE read.says
           keeps == IF TakesText(c) THEN c.keeps ELSE read.keeps
           tools == LaunchSafe(IF TakesTools(c) THEN (read.tools \cup c.tools) \ c.off ELSE read.tools)
<1>1. tools \subseteq Capabilities
  BY DEF LaunchSafe, RowRecord, ChangeRecord
<1>2. "rag" \in read.tools /\ ~(TakesTools(c) /\ "rag" \in c.off) => "rag" \in tools
  BY DEF LaunchSafe
<1> HIDE DEF tools
<1>3. PICK bl \in BOOLEAN : bl <=> read.block /\ ~TakesText(c)
  OBVIOUS
<1>4. (read.block /\ ~TakesText(c)) = bl
  BY <1>3 DEF TakesText, RowRecord
<1> DEFINE d == Changed(read, c)
<1>5. d = [read EXCEPT !.name = title, !.says = says, !.keeps = keeps, !.block = bl, !.tools = tools]
  BY <1>4 DEF Changed, tools
<1> HIDE DEF d, title, says, keeps
<1>6. /\ WholeEntry(d) /\ d.live = read.live /\ d.name = title /\ d.says = says /\ d.keeps = keeps
      /\ d.block = bl /\ d.tools = tools /\ d.told = read.told /\ d.version = read.version
  BY <1>5 DEF RowRecord, WholeEntry
<1>7. d \in RowRecord
  BY Zenon, <1>1, <1>6 DEF RowRecord, ChangeRecord, WholeEntry, title, says, keeps, Titles
<1>8. ~TakesText(c) => bl = read.block
  BY <1>3 DEF RowRecord
<1> QED
  BY Zenon, <1>2, <1>6, <1>7, <1>8 DEF d, title, says, keeps

(* What an update writes.                                                   *)
LEMMA NewRow ==
  ASSUME NEW read \in RowRecord, NEW c \in ChangeRecord
  PROVE  LET d == Changed(read, c)  e == New(read, c) IN
         /\ e \in RowRecord /\ e.live = read.live /\ e.version = read.version + 1
         /\ e.name = d.name /\ e.says = d.says /\ e.keeps = d.keeps /\ e.tools = d.tools
         /\ ~WorkflowIsTouched(read, c) => /\ e.name = read.name /\ e.says = read.says /\ e.block = read.block
                                           /\ e.keeps = read.keeps /\ e.tools = read.tools
<1> DEFINE d == Changed(read, c)
<1>1. d \in RowRecord /\ d.live = read.live /\ d.told = read.told
      /\ d.name = (IF c.name = "" THEN read.name ELSE c.name)
      /\ (~TakesText(c) => d.says = read.says /\ d.block = read.block /\ d.keeps = read.keeps)
  BY Zenon, ChangedRow
<1>2. PICK bl \in BOOLEAN : bl <=> d.block \/ IdentityIsTouched(c)
  OBVIOUS
<1>3. (d.block \/ IdentityIsTouched(c)) = bl
  BY Zenon, <1>1, <1>2 DEF IdentityIsTouched, TakesText, TakesTools, RowRecord
<1> DEFINE e == New(read, c)  words == IF AsksManual(c) THEN c.told ELSE d.told
<1>4. e = [d EXCEPT !.block = bl, !.told = words, !.version = read.version + 1]
  BY <1>3 DEF New
<1> HIDE DEF words, d, e
<1>5. /\ WholeEntry(e) /\ e.live = d.live /\ e.name = d.name /\ e.says = d.says /\ e.block = bl /\ e.keeps = d.keeps
      /\ e.tools = d.tools /\ e.told = words /\ e.version = read.version + 1
  BY Zenon, <1>1, <1>4 DEF RowRecord, WholeEntry
<1>6. WorkflowIsTouched(read, c) <=> c.name # "" \/ IdentityIsTouched(c) \/ d.tools # read.tools
  BY DEF WorkflowIsTouched, d
<1>7. TakesText(c) => IdentityIsTouched(c)
  BY DEF IdentityIsTouched
<1>8. ~WorkflowIsTouched(read, c) => d.name = read.name /\ d.says = read.says /\ bl = read.block
                                     /\ d.keeps = read.keeps /\ d.tools = read.tools
  BY Zenon, <1>1, <1>2, <1>6, <1>7 DEF RowRecord
<1>9. words \subseteq Words
  BY Zenon, <1>1 DEF words, RowRecord, ChangeRecord
<1>10. read.version + 1 \in Nat
  BY DEF RowRecord
<1>11. /\ d.live \in BOOLEAN /\ d.name \in Titles /\ d.says \in SUBSET Words
       /\ d.keeps \in SUBSET Contracts /\ d.tools \in SUBSET Capabilities
  BY <1>1, ZenonT(20) DEF RowRecord
<1>12. [live |-> d.live, name |-> d.name, says |-> d.says, block |-> bl, keeps |-> d.keeps, tools |-> d.tools, told |-> words,
        version |-> read.version + 1] \in RowRecord
  BY <1>2, <1>9, <1>11, <1>10 DEF RowRecord
<1>13. e \in RowRecord
  BY <1>5, <1>12 DEF WholeEntry
<1> QED
  BY Zenon, <1>1, <1>5, <1>8, <1>13 DEF d, e

(* The columns that differ are written over the row as it is now.           *)
LEMMA MergedRow ==
  ASSUME NEW read \in RowRecord, NEW new \in RowRecord, NEW now_ \in RowRecord
  PROVE  LET d == Merge(read, new, now_) IN
         /\ d \in RowRecord /\ d.live = now_.live /\ d.version = new.version
         /\ d.name = IF new.name = read.name THEN now_.name ELSE new.name
         /\ new.says = read.says /\ new.block = read.block /\ new.keeps = read.keeps =>
               d.says = now_.says /\ d.block = now_.block /\ d.keeps = now_.keeps
         /\ now_.says = read.says /\ now_.block = read.block /\ now_.keeps = read.keeps =>
               d.says = new.says /\ d.block = new.block /\ d.keeps = new.keeps
         /\ new.tools = read.tools /\ new.told = read.told => d.tools = now_.tools /\ d.told = now_.told
         /\ now_.tools = read.tools /\ now_.told = read.told => d.tools = new.tools /\ d.told = new.told
<1> DEFINE texts == Column(read, new, now_, Instructions)
           config == Column(read, new, now_, ToolsConfig)
           title == Column(read, new, now_, {"name"})
<1>1. texts = IF new.says = read.says /\ new.block = read.block /\ new.keeps = read.keeps THEN now_ ELSE new
  BY DEF Column, Instructions
<1>2. config = IF new.tools = read.tools /\ new.told = read.told THEN now_ ELSE new
  BY DEF Column, ToolsConfig
<1>3. title = IF new.name = read.name THEN now_ ELSE new
  BY DEF Column
<1> HIDE DEF texts, config, title
<1> DEFINE d == Merge(read, new, now_)
<1>4. d = [now_ EXCEPT !.name = title.name, !.version = new.version, !.says = texts.says, !.block = texts.block,
                       !.keeps = texts.keeps, !.tools = config.tools, !.told = config.told]
  BY DEF Merge, texts, config, title
<1> HIDE DEF d
<1>5. /\ WholeEntry(d) /\ d.live = now_.live /\ d.name = title.name /\ d.says = texts.says /\ d.block = texts.block
      /\ d.keeps = texts.keeps /\ d.tools = config.tools /\ d.told = config.told /\ d.version = new.version
  BY <1>4 DEF RowRecord, WholeEntry
<1>6. texts \in RowRecord /\ config \in RowRecord /\ title \in RowRecord
  BY <1>1, <1>2, <1>3
<1>7. d \in RowRecord
  BY <1>5, <1>6 DEF RowRecord, WholeEntry
<1> QED
  BY <1>1, <1>2, <1>3, <1>5, <1>7 DEF d

(* Where nobody else's change is noted, the row still has the texts and the *)
(* tools that were read.                                                    *)
LEMMA NotOvertaken ==
  ASSUME NEW a \in Built, row[a] \in RowRecord, NEW read \in RowRecord, Overtaken(a, read) = {}
  PROVE  /\ row[a].says = read.says /\ row[a].block = read.block /\ row[a].keeps = read.keeps
         /\ row[a].tools = read.tools /\ row[a].told = read.told /\ row[a].version <= read.version + 1
<1>1. \A x \in Instructions \cup ToolsConfig : row[a][x] = read[x]
  BY DEF Overtaken
<1>2. ~(row[a].version > read.version + 1)
  BY <1>1 DEF Overtaken
<1> QED
  BY <1>1, <1>2 DEF Instructions, ToolsConfig, RowRecord

LEMMA OvertakenIs ==
  ASSUME NEW a, NEW read
  PROVE  Overtaken(a, read) = {} \/ Overtaken(a, read) = {<<"overtaken", a>>}
BY DEF Overtaken

LEMMA NoRowTyped == NoRow \in RowRecord /\ NoRow.version = 0 /\ ~NoRow.live
BY DEF NoRow, RowRecord, Titles

LEMMA FreeTyped == /\ Free \in RequestRecord /\ Free.at = "idle" /\ Free.keys = {} /\ Free.seen = {} /\ Free.agent = "none"
                   /\ Free.read = NoRow /\ Free.for = Nothing
<1>1. Nothing \in Jobs
  BY DEF Jobs
<1> QED
  BY <1>1, NoRowTyped DEF Free, RequestRecord

LEMMA RequestStands ==
  ASSUME BuilderInv, NEW r \in Requests, Working(r)
  PROVE  /\ req[r] \in RequestRecord /\ req[r].agent \in Built /\ req[r].for.do \in Deeds /\ RequestOk(req[r])
         /\ row[req[r].agent] \in RowRecord /\ req[r].read \in RowRecord
<1>1. req[r] \in RequestRecord /\ req[r].agent \in Built /\ req[r].for.do \in Deeds
  BY DEF BuilderInv, BuilderType
<1>2. RequestOk(req[r])
  BY <1>1 DEF BuilderInv, RequestsOk
<1> QED
  BY <1>1, <1>2 DEF BuilderInv, BuilderType, RequestRecord

(* A step that leaves the rows and the memories alone.                      *)
LEMMA SameAgents ==
  ASSUME UNCHANGED <<row, manual, memory, docs, open, excused>>
  PROVE  /\ (RowsOk <=> RowsOk') /\ (ManualsOk <=> ManualsOk')
         /\ (BuiltAsAgreed <=> BuiltAsAgreed')
         /\ \A x : RequestOk(x) <=> RequestOk(x)'
<1>1. (RowsOk <=> RowsOk') /\ (ManualsOk <=> ManualsOk')
  BY DEF RowsOk, ManualsOk, Excused
<1>2. BuiltAsAgreed <=> BuiltAsAgreed'
  BY DEF BuiltAsAgreed, ContractsHold, ManualIsCurrent, MemoryIsReadable, DocumentsAreSearched, NamesAreTheirOwn, Excused, Latest, Keys
<1>3. \A x : RequestOk(x) <=> RequestOk(x)'
  BY DEF RequestOk, Accepts, Closed, Undecided, LaunchSafe, UpdateAccepts, WorkflowIsTouched, CriticalErrors, Changed
<1> QED
  BY <1>1, <1>2, <1>3

(* A call that opens changes nothing but itself.                            *)
LEMMA OpenedKeeps ==
  ASSUME BuilderInv, NEW r \in Requests, NEW o \in RequestRecord, o.at = "open", o.agent \in Built, o.for.do \in Deeds,
         req[r].at = "idle", req' = [req EXCEPT ![r] = o],
         UNCHANGED <<row, manual, memory, docs, holds, open, excused>>, RequestOk(o),
         o.for.do = "create" => \A q \in Requests : req[q].agent # o.agent
  PROVE  BuilderInv'
<1>1. \A q \in Requests : req'[q] = IF q = r THEN o ELSE req[q]
  BY DEF BuilderInv, BuilderType
<1>2. BuilderType'
  BY <1>1 DEF BuilderInv, BuilderType, Working
<1>3. \A q \in Requests : req'[q].at # "idle" => RequestOk(req'[q])
  BY <1>1, RequestStands DEF Working
<1>4. \A q \in Requests, x \in RequestRecord : (Working(q) /\ x = req[q] => RequestOk(x))'
  BY <1>3, SameAgents DEF Working
<1>5. ASSUME NEW q \in Requests, NEW s \in Requests, Working(q)', Working(s)', q # s, req'[q].for.do = "create"
      PROVE  req'[s].agent # req'[q].agent
  <2>1. CASE q = r
    BY <1>1, <1>5, <2>1
  <2>2. CASE s = r
    <3>1. req'[q] = req[q] /\ Working(q) /\ RequestOk(req[q]) /\ req'[s] = o
      BY <1>1, <1>5, <2>2, RequestStands DEF Working
    <3>2. row[req[q].agent] = NoRow /\ req[q].for.do = "create"
      BY Zenon, <1>5, <3>1 DEF RequestOk
    <3>3. o.for.do # "create" => row[o.agent].version > 0
      BY Zenon DEF RequestOk
    <3>4. CASE o.for.do = "create"
      BY <3>1, <3>4
    <3> QED
      BY <3>1, <3>2, <3>3, <3>4, NoRowTyped
  <2>3. CASE q # r /\ s # r
    BY <1>1, <1>5, <2>3 DEF BuilderInv, RequestsOk, Working
  <2> QED
    BY <2>1, <2>2, <2>3
<1>6. \A q \in Requests : (req[q].at = "locked" => LockOk(q))'
  BY <1>1 DEF BuilderInv, RequestsOk, LockOk, Keys
<1>7. RequestsOk'
  BY <1>4, <1>5, <1>6 DEF RequestsOk
<1> QED
  BY <1>2, <1>7, SameAgents DEF BuilderInv

LEMMA CreateKeeps ==
  ASSUME BuilderInv, NEW r \in Requests, NEW a \in Built, NEW s \in Specs, Create(r, a, s)
  PROVE  BuilderInv'
<1> DEFINE q == [Free EXCEPT !.for = s, !.seen = {}]
           o == [q EXCEPT !.at = "open", !.agent = a]
<1>1. /\ row[a] = NoRow /\ (\A p \in Requests : req[p].agent # a) /\ Accepts(s) /\ Opened(r, a, q)
  BY DEF Create
<1>2. SpecOk(s) /\ s.do = "create" /\ s \in Jobs
  BY Zenon, SpecsAreSpecs DEF SpecOk, Jobs
<1>3. o.at = "open" /\ o.agent = a /\ o.for = s /\ o.seen = {} /\ o.keys = {}
  BY DEF Free
<1>4. o \in RequestRecord
  BY <1>2, FreeTyped DEF Free, RequestRecord
<1>5. /\ req[r].at = "idle" /\ req' = [req EXCEPT ![r] = o] /\ UNCHANGED <<row, manual, memory, docs, holds, open, excused>>
  BY <1>1 DEF Opened
<1> HIDE DEF q, o
<1>6. RequestOk(o)
  BY <1>1, <1>2, <1>3 DEF RequestOk
<1>7. o.for.do \in Deeds
  BY <1>2, <1>3 DEF Deeds
<1> QED
  BY <1>1, <1>3, <1>4, <1>5, <1>6, <1>7, OpenedKeeps

(* Calls on an agent that there is.                                         *)
LEMMA OpenedOnLive ==
  ASSUME BuilderInv, NEW r \in Requests, NEW a \in Built, row[a].live, NEW f \in Jobs, f.do \in Deeds \ {"create"},
         NEW sn \in SUBSET Built, NEW ks, ks \in {{}, Keys(a)}, NEW rd \in {NoRow, row[a]}, NEW o,
         o.at = "open", o.agent = a, o.for = f, o.read = rd, o.seen = sn, o.keys = ks,
         WholeRequest(o),
         req[r].at = "idle", req' = [req EXCEPT ![r] = o], UNCHANGED <<row, manual, memory, docs, holds, open, excused>>,
         f.do \in {"update", "patch"} => f \in ChangeRecord,
         f.do = "update" => UpdateAccepts(rd, f) /\ (f.name # "" => sn \subseteq {a}),
         f.do = "memory" => f.key \in {"soul", "context"}
  PROVE  BuilderInv'
<1>1. row[a].version > 0 /\ rd \in RowRecord
  BY Zenon, NoRowTyped DEF BuilderInv, RowsOk, BuilderType
<1>2. ks \subseteq MemoryRecord /\ \A m \in ks : m.agent = a /\ \E n \in memory : SameKey(n, m)
  BY Zenon DEF Keys, SameKey, BuilderInv, BuilderType
<1>3. o \in RequestRecord
  BY Zenon, <1>1, <1>2 DEF RequestRecord, WholeRequest
<1>4. RequestOk(o)
  BY Zenon, <1>1, <1>2 DEF RequestOk
<1> QED
  BY Zenon, <1>3, <1>4, OpenedKeeps

LEMMA HearsKeeps ==
  ASSUME BuilderInv, NEW r \in Requests, Hears(r)
  PROVE  BuilderInv'
<1>1. ASSUME NEW a \in Built, NEW s \in Specs, Create(r, a, s)
      PROVE  BuilderInv'
  BY <1>1, CreateKeeps
<1>2. ASSUME NEW a \in Built, NEW c \in Changes, Update(r, a, c)
      PROVE  BuilderInv'
  <2> DEFINE sn == IF c.name = "" THEN {} ELSE Named(c.name)
             q == [Free EXCEPT !.for = c, !.read = row[a], !.seen = sn]
             o == [q EXCEPT !.at = "open", !.agent = a]
  <2>1. c \in ChangeRecord /\ c \in Jobs /\ c.do = "update" /\ c.do \in Deeds \ {"create"}
    BY ChangesAreChanges DEF ChangeRecord, Jobs, Deeds
  <2>2. row[a].live /\ UpdateAccepts(row[a], c) /\ (c.name # "" => sn \subseteq {a}) /\ sn \in SUBSET Built /\ Opened(r, a, q)
    BY Zenon, <1>2 DEF Update, Named
  <2> HIDE DEF sn
  <2>6. o = [q EXCEPT !.at = "open", !.agent = a]
    OBVIOUS
  <2>7. /\ req[r].at = "idle" /\ req' = [req EXCEPT ![r] = o] /\ UNCHANGED <<row, manual, memory, docs, holds, open, excused>>
    BY Zenon, <2>2 DEF Opened
  <2> HIDE DEF o
  <2>3. /\ o.at = "open" /\ o.agent = a /\ o.for = c /\ o.read = row[a] /\ o.seen = sn /\ o.keys = {}
        /\ WholeRequest(o)
    BY <2>6 DEF Free, WholeRequest
  <2> QED
    BY Zenon, <2>1, <2>2, <2>3, <2>7, OpenedOnLive
<1>3. ASSUME NEW a \in Built, NEW c \in Changes, Patch(r, a, c)
      PROVE  BuilderInv'
  <2> DEFINE f == [c EXCEPT !.do = "patch"]
             q == [Free EXCEPT !.for = f, !.read = row[a]]
             o == [q EXCEPT !.at = "open", !.agent = a]
  <2>1. f \in ChangeRecord /\ f.do = "patch"
    BY ChangesAreChanges DEF ChangeRecord
  <2>2. f \in Jobs /\ f.do \in Deeds \ {"create"}
    BY <2>1 DEF Jobs, Deeds
  <2>3. row[a].live /\ Opened(r, a, q)
    BY <1>3 DEF Patch
  <2> HIDE DEF f
  <2>6. o = [q EXCEPT !.at = "open", !.agent = a]
    OBVIOUS
  <2>7. /\ req[r].at = "idle" /\ req' = [req EXCEPT ![r] = o] /\ UNCHANGED <<row, manual, memory, docs, holds, open, excused>>
    BY <2>3 DEF Opened
  <2> HIDE DEF o
  <2>4. /\ o.at = "open" /\ o.agent = a /\ o.for = f /\ o.read = row[a] /\ o.seen = {} /\ o.keys = {}
        /\ WholeRequest(o)
    BY <2>6 DEF Free, WholeRequest
  <2> QED
    BY Zenon, <2>1, <2>2, <2>3, <2>4, <2>7, OpenedOnLive
<1>4. ASSUME NEW a \in Built, NEW do \in {"knowledge", "delete"}, row[a].live, Opened(r, a, [Free EXCEPT !.for = [do |-> do], !.read = row[a]])
      PROVE  BuilderInv'
  <2> DEFINE f == [do |-> do]
             q == [Free EXCEPT !.for = f, !.read = row[a]]
             o == [q EXCEPT !.at = "open", !.agent = a]
  <2>1. f \in Jobs /\ f.do = do /\ f.do \in Deeds \ {"create", "update", "patch", "memory"}
    BY DEF Jobs, Deeds
  <2> HIDE DEF f
  <2>6. o = [q EXCEPT !.at = "open", !.agent = a]
    OBVIOUS
  <2>7. /\ req[r].at = "idle" /\ req' = [req EXCEPT ![r] = o] /\ UNCHANGED <<row, manual, memory, docs, holds, open, excused>>
    BY <1>4 DEF Opened, f
  <2> HIDE DEF o
  <2>4. /\ o.at = "open" /\ o.agent = a /\ o.for = f /\ o.read = row[a] /\ o.seen = {} /\ o.keys = {}
        /\ WholeRequest(o)
    BY <2>6 DEF Free, WholeRequest
  <2> QED
    BY Zenon, <1>4, <2>1, <2>4, <2>7, OpenedOnLive
<1>5. ASSUME NEW a \in Built, NEW k \in {"soul", "context"}, SetMemory(r, a, k)
      PROVE  BuilderInv'
  <2> DEFINE f == [do |-> "memory", key |-> k]
             ks == Keys(a)
             q == [Free EXCEPT !.for = f, !.keys = ks]
             o == [q EXCEPT !.at = "open", !.agent = a]
  <2>1. f \in Jobs /\ f.do = "memory" /\ f.do \in Deeds \ {"create", "update", "patch"} /\ f.key \in {"soul", "context"}
    BY DEF Jobs, Deeds
  <2>3. row[a].live /\ Opened(r, a, q)
    BY <1>5 DEF SetMemory
  <2> HIDE DEF f, ks
  <2>6. o = [q EXCEPT !.at = "open", !.agent = a]
    OBVIOUS
  <2>7. /\ req[r].at = "idle" /\ req' = [req EXCEPT ![r] = o] /\ UNCHANGED <<row, manual, memory, docs, holds, open, excused>>
    BY <2>3 DEF Opened
  <2> HIDE DEF o
  <2>4. /\ o.at = "open" /\ o.agent = a /\ o.for = f /\ o.read = NoRow /\ o.seen = {} /\ o.keys = ks
        /\ WholeRequest(o)
    BY <2>6 DEF Free, WholeRequest
  <2>8. ks \in {{}, Keys(a)}
    BY DEF ks
  <2> QED
    BY Zenon, <2>1, <2>3, <2>4, <2>7, <2>8, OpenedOnLive
<1> QED
  BY Zenon, <1>1, <1>2, <1>3, <1>4, <1>5 DEF Hears, Knowledge, DeleteAgent

-----------------------------------------------------------------------------
(* Memories: an upsert loses no key, and what it leaves is its own or was   *)
(* there.                                                                   *)
OneEach(rows, a) == \A m, n \in rows : m.agent = a /\ SameKey(m, n) => m = n

LEMMA UpsertedMemory ==
  ASSUME NEW rows, rows \subseteq MemoryRecord, IsFiniteSet(rows), NEW known, NEW new \in MemoryRecord,
         \A m \in known : \E n \in rows : SameKey(n, m)
  PROVE  LET up == Upserted(rows, known, new) IN
         /\ up \subseteq MemoryRecord /\ IsFiniteSet(up)
         /\ \A m \in rows : \E n \in up : SameKey(n, m)
         /\ \E n \in up : SameKey(n, new)
         /\ \A n \in up : \/ SameKey(n, new) /\ n.by = new.by /\ n.says = new.says
                          \/ \E m \in rows : SameKey(n, m) /\ n.by = m.by /\ (n.says = m.says \/ (n.says = new.says /\ SameKey(n, new)))
         /\ \A a : OneEach(rows, a) /\ (new.agent = a /\ Found(known, new) = {} => Found(rows, new) = {}) => OneEach(up, a)
<1> DEFINE up == Upserted(rows, known, new)
<1>1. CASE Found(known, new) = {}
  <2>1. Cardinality(Found(rows, new)) \in Nat
    <3>1. Found(rows, new) \subseteq rows
      BY DEF Found
    <3> QED
      BY <3>1, FS_Subset, FS_CardinalityType
  <2> DEFINE k == Cardinality(Found(rows, new)) + 1
  <2>2. k \in Nat
    BY <2>1
  <2> HIDE DEF k
  <2>3. PICK x : x = [new EXCEPT !.copy = k]
    OBVIOUS
  <2>4. up = rows \cup {x}
    BY <1>1, <2>3 DEF Upserted, k
  <2>5. /\ x \in MemoryRecord /\ x.agent = new.agent /\ x.key = new.key /\ x.v = new.v /\ x.by = new.by /\ x.says = new.says
    BY <2>2, <2>3 DEF MemoryRecord
  <2>6. IsFiniteSet(up)
    BY <2>4, FS_AddElement
  <2>7. SameKey(x, new)
    BY <2>5 DEF SameKey
  <2> HIDE DEF up
  <2>8. ASSUME NEW a, OneEach(rows, a), new.agent = a => Found(rows, new) = {}, NEW m \in up, NEW n \in up, m.agent = a, SameKey(m, n)
        PROVE  m = n
    <3>1. CASE m \in rows /\ n \in rows
      BY <2>8, <3>1 DEF OneEach
    <3>2. CASE m = x /\ n \in rows
      <4>1. n \in Found(rows, new) /\ new.agent = a
        BY <2>5, <2>8, <3>2 DEF Found, SameKey
      <4> QED
        BY <2>8, <4>1
    <3>3. CASE n = x /\ m \in rows
      <4>1. m \in Found(rows, new) /\ new.agent = a
        BY <2>5, <2>8, <3>3 DEF Found, SameKey
      <4> QED
        BY <2>8, <4>1
    <3> QED
      BY <2>4, <2>8, <3>1, <3>2, <3>3
  <2>9. \A a : OneEach(rows, a) /\ (new.agent = a /\ Found(known, new) = {} => Found(rows, new) = {}) => OneEach(up, a)
    BY <1>1, <2>8 DEF OneEach
  <2>10. \A m \in rows : m \in up /\ SameKey(m, m)
    BY <2>4 DEF SameKey
  <2>11. \A n \in up : \/ SameKey(n, new) /\ n.by = new.by /\ n.says = new.says
                       \/ \E m \in rows : SameKey(n, m) /\ n.by = m.by /\ n.says = m.says
    BY <2>4, <2>5, <2>7, <2>10
  <2>13. \A n \in up : \/ SameKey(n, new) /\ n.by = new.by /\ n.says = new.says
                       \/ \E m \in rows : SameKey(n, m) /\ n.by = m.by /\ (n.says = m.says \/ (n.says = new.says /\ SameKey(n, new)))
    BY <2>11, Zenon
  <2>12. up \subseteq MemoryRecord /\ (\A m \in rows : \E n \in up : SameKey(n, m)) /\ \E n \in up : SameKey(n, new)
    BY <2>4, <2>5, <2>7, <2>10
  <2> QED
    BY <2>6, <2>9, <2>12, <2>13 DEF up
<1>2. CASE Found(known, new) # {}
  <2> DEFINE said(m) == IF SameKey(m, new) /\ \E o \in Found(known, new) : o.copy = m.copy THEN [m EXCEPT !.says = new.says] ELSE m
             w == [m \in rows |-> said(m)]
  <2>10. up = {said(m) : m \in rows}
    BY <1>2, Zenon DEF Upserted
  <2>11. \A m \in rows : said(m) = m \/ (said(m) = [m EXCEPT !.says = new.says] /\ SameKey(m, new))
    BY Zenon
  <2> HIDE DEF said
  <2>12. \A m \in rows : w[m] = said(m)
    OBVIOUS
  <2>13. w = [m \in rows |-> w[m]]
    OBVIOUS
  <2> HIDE DEF w, up
  <2>1. up = {w[m] : m \in rows}
    BY <2>10, <2>12
  <2>2. \A m \in rows : /\ w[m] \in MemoryRecord /\ w[m].agent = m.agent /\ w[m].key = m.key /\ w[m].v = m.v /\ w[m].by = m.by
                        /\ w[m].says = m.says \/ (w[m].says = new.says /\ SameKey(m, new))
    <3>1. SUFFICES ASSUME NEW m \in rows
                   PROVE  /\ w[m] \in MemoryRecord /\ w[m].agent = m.agent /\ w[m].key = m.key /\ w[m].v = m.v /\ w[m].by = m.by
                          /\ w[m].says = m.says \/ (w[m].says = new.says /\ SameKey(m, new))
      OBVIOUS
    <3>2. PICK x : x = [m EXCEPT !.says = new.says]
      OBVIOUS
    <3>3. x \in MemoryRecord /\ x.agent = m.agent /\ x.key = m.key /\ x.v = m.v /\ x.by = m.by /\ x.says = new.says
      BY <3>2 DEF MemoryRecord
    <3>4. m \in MemoryRecord /\ (w[m] = m \/ (w[m] = x /\ SameKey(m, new)))
      BY <2>11, <2>12, <3>2
    <3> QED
      BY <3>3, <3>4
  <2>3. IsFiniteSet(up)
    <3>1. w \in Surjection(rows, up)
      BY <2>1, <2>13 DEF Surjection
    <3> QED
      BY <3>1, FS_Surjection
  <2>4. \A m \in rows : w[m] \in up /\ SameKey(w[m], m)
    BY <2>1, <2>2 DEF SameKey
  <2>5. \E n \in up : SameKey(n, new)
    <3>1. PICK o \in known : SameKey(o, new)
      BY <1>2 DEF Found
    <3>2. PICK m \in rows : SameKey(m, o)
      BY <3>1
    <3> QED
      BY <2>4, <3>1, <3>2 DEF SameKey
  <2>6. \A n \in up : \E m \in rows : SameKey(n, m) /\ n.by = m.by /\ (n.says = m.says \/ (n.says = new.says /\ SameKey(n, new)))
    BY <2>1, <2>2 DEF SameKey
  <2>7. ASSUME NEW a, OneEach(rows, a), NEW m \in up, NEW n \in up, m.agent = a, SameKey(m, n)
        PROVE  m = n
    <3>1. PICK g \in rows, h \in rows : m = w[g] /\ n = w[h]
      BY <2>1
    <3>2. g.agent = a /\ SameKey(g, h)
      BY <2>2, <2>7, <3>1 DEF SameKey
    <3> QED
      BY <2>7, <3>1, <3>2 DEF OneEach
  <2>8. \A a : OneEach(rows, a) => OneEach(up, a)
    BY <2>7 DEF OneEach
  <2>9. up \subseteq MemoryRecord
    BY <2>1, <2>2
  <2> QED
    BY <2>3, <2>4, <2>5, <2>6, <2>8, <2>9 DEF up
<1> QED
  BY <1>1, <1>2

(* A bounded set of manuals has a latest one.                               *)
LatestOf(all, a) == {m \in all : m.agent = a /\ \A n \in all : n.agent = a => n.version <= m.version}

LEMMA LatestIs == \A a : Latest(a) = LatestOf(manual, a) /\ (Latest(a))' = LatestOf(manual', a)
BY DEF Latest, LatestOf

LEMMA LeastNumber ==
  ASSUME NEW T, T \subseteq Nat, T # {}
  PROVE  \E x \in T : \A y \in T : x <= y
<1> DEFINE R == OpToRel(<, Nat)
<1>1. IsWellFoundedOn(R, Nat)
  BY Zenon, NatLessThanWellFounded
<1> HIDE DEF R
<1>2. PICK x \in T : \A y \in T : ~(<<y, x>> \in R)
  BY <1>1, WFMin, Zenon
<1>3. \A y \in Nat : y < x => <<y, x>> \in R
  BY <1>2 DEF R, OpToRel
<1>4. \A y \in T : ~(y < x)
  BY <1>2, <1>3, Zenon
<1> QED
  BY <1>4

LEMMA LatestThere ==
  ASSUME NEW all, all \subseteq ManualRecord, NEW n \in Nat, \A m \in all : m.version <= n, NEW a, \E m \in all : m.agent = a
  PROVE  LatestOf(all, a) # {}
<1> DEFINE T == {n - m.version : m \in {p \in all : p.agent = a}}
<1>1. T \subseteq Nat /\ T # {}
  BY DEF ManualRecord
<1> HIDE DEF T
<1>2. PICK x \in T : \A y \in T : x <= y
  BY <1>1, LeastNumber
<1>3. PICK m \in all : m.agent = a /\ x = n - m.version
  BY <1>2 DEF T
<1>4. \A p \in all : p.agent = a => p.version <= m.version
  <2>1. ASSUME NEW p \in all, p.agent = a
        PROVE  p.version <= m.version
    <3>1. n - p.version \in T
      BY <2>1 DEF T
    <3>2. n - m.version <= n - p.version
      BY <1>2, <1>3, <3>1
    <3>3. p.version \in Nat /\ m.version \in Nat
      BY DEF ManualRecord
    <3> QED
      BY <3>2, <3>3
  <2> QED
    BY <2>1
<1> QED
  BY <1>3, <1>4 DEF LatestOf

-----------------------------------------------------------------------------
(* What the commits have in common.  Whether a call is accepted depends on  *)
(* the setting and on nothing that changes.                                 *)
LEMMA AcceptedStays ==
  ASSUME open' = open
  PROVE  /\ \A s : Accepts(s) <=> Accepts(s)'
         /\ \A read, c : UpdateAccepts(read, c) <=> UpdateAccepts(read, c)'
BY DEF Accepts, Closed, Undecided, LaunchSafe, UpdateAccepts, WorkflowIsTouched, CriticalErrors, Changed

LEMMA AnsweredKeeps ==
  ASSUME BuilderInv, NEW r \in Requests, Working(r), NEW a \in Built, a = req[r].agent, req' = [req EXCEPT ![r] = Free],
         open' = open, row' \in [Built -> RowRecord], row'[a].version > 0, \A b \in Built : b # a => row'[b] = row[b],
         \A m \in memory : \E n \in memory' : SameKey(n, m),
         \A q \in Requests : req[q].at = "locked" /\ q # r => holds'[req[q].agent] = holds[req[q].agent],
         \A q \in Requests, m \in memory' : req[q].at = "locked" /\ q # r /\ m.agent = req[q].agent =>
             m.by = "memory" \/ \E n \in memory : SameKey(m, n) /\ n.by # "memory"
  PROVE  /\ RequestsOk' /\ req' \in [Requests -> RequestRecord]
         /\ \A q \in Requests : (IF Working(q) THEN req[q].agent \in Built /\ req[q].for.do \in Deeds ELSE req[q] = Free)'
<1>1. \A q \in Requests : req'[q] = IF q = r THEN Free ELSE req[q]
  BY DEF BuilderInv, BuilderType
<1>2. /\ req' \in [Requests -> RequestRecord]
      /\ \A q \in Requests : (IF Working(q) THEN req[q].agent \in Built /\ req[q].for.do \in Deeds ELSE req[q] = Free)'
  BY <1>1, FreeTyped DEF BuilderInv, BuilderType, Working
<1>3. \A q \in Requests : Working(q)' => q # r /\ Working(q) /\ req'[q] = req[q] /\ RequestOk(req[q]) /\ req[q].agent \in Built
  BY <1>1, FreeTyped, RequestStands DEF Working
<1>4. ASSUME NEW q \in Requests, NEW x \in RequestRecord, Working(q)', x = req'[q]
      PROVE  RequestOk(x)'
  <2>1. q # r /\ Working(q) /\ x = req[q] /\ RequestOk(x) /\ x.agent \in Built
    BY <1>3, <1>4
  <2>2. /\ x.for.do = "create" => row'[x.agent] = NoRow
        /\ x.for.do # "create" => row'[x.agent].version > 0
    BY Zenon, <2>1 DEF RequestOk, RequestsOk, BuilderInv
  <2>3. \A m \in x.keys : m.agent = x.agent /\ \E n \in memory' : SameKey(n, m)
    <3>1. \A m \in x.keys : m.agent = x.agent /\ \E n \in memory : SameKey(n, m)
      BY Zenon, <2>1 DEF RequestOk
    <3>2. ASSUME NEW m \in x.keys
          PROVE  \E n \in memory' : SameKey(n, m)
      <4>1. PICK o \in memory : SameKey(o, m)
        BY <3>1
      <4>2. PICK n \in memory' : SameKey(n, o)
        OBVIOUS
      <4> QED
        BY <4>1, <4>2 DEF SameKey
    <3> QED
      BY <3>1, <3>2
  <2>4. /\ x.for.do = "create" => SpecOk(x.for) /\ Accepts(x.for) /\ x.seen = {}
        /\ x.for.do \in {"update", "patch"} => x.for \in ChangeRecord
        /\ x.for.do = "update" => UpdateAccepts(x.read, x.for) /\ (x.for.name # "" => x.seen \subseteq {x.agent})
        /\ x.for.do = "memory" => x.for.key \in {"soul", "context"}
    BY Zenon, <2>1 DEF RequestOk
  <2>5. (x.for.do = "create" => Accepts(x.for)') /\ (x.for.do = "update" => UpdateAccepts(x.read, x.for)')
    BY Zenon, <2>4, AcceptedStays
  <2> QED
    BY Zenon, <2>2, <2>3, <2>4, <2>5 DEF RequestOk
<1>5. \A q, s \in Requests : Working(q)' /\ Working(s)' /\ q # s /\ req'[q].for.do = "create" => req'[s].agent # req'[q].agent
  BY <1>3 DEF BuilderInv, RequestsOk
<1>6. ASSUME NEW q \in Requests, req'[q].at = "locked"
      PROVE  LockOk(q)'
  <2>1. q # r /\ req'[q] = req[q] /\ req[q].at = "locked" /\ LockOk(q) /\ req[q].agent \in Built
    BY <1>1, <1>6, FreeTyped DEF BuilderInv, BuilderType, RequestsOk, Working
  <2>2. ASSUME NEW m \in memory', m.agent = req[q].agent, m.by # "memory"
        PROVE  \E n \in req[q].keys : SameKey(m, n)
    <3>1. PICK o \in memory : SameKey(m, o) /\ o.by # "memory"
      BY <2>1, <2>2
    <3>2. PICK n \in req[q].keys : SameKey(o, n)
      BY <2>1, <2>2, <3>1 DEF LockOk, Keys, SameKey
    <3> QED
      BY <3>1, <3>2 DEF SameKey
  <2>3. holds'[req[q].agent] = q /\ req[q].for.do = "update"
    BY <2>1 DEF LockOk
  <2> QED
    BY <2>1, <2>2, <2>3 DEF LockOk, Keys
<1>7. RequestsOk'
  BY <1>4, <1>5, <1>6 DEF RequestsOk
<1> QED
  BY <1>2, <1>7

(* Excuses are never withdrawn.                                             *)
LEMMA ExcusesStay ==
  ASSUME excused \subseteq excused'
  PROVE  \A a, why : Excused(a, why) => Excused(a, why)'
BY DEF Excused

(* A row is written, and the manuals of other agents are left alone.        *)
LEMMA RowWritten ==
  ASSUME BuilderInv, NEW a \in Built, NEW d \in RowRecord, row' = [row EXCEPT ![a] = d], d.version > 0,
         excused \subseteq excused',
         manual' \subseteq ManualRecord, \A m : m.agent # a => (m \in manual' <=> m \in manual),
         \E n \in Nat : \A m \in manual' : m.version <= n,
         memory' \subseteq MemoryRecord, \A m \in memory' : m.agent = a \/ \E n \in memory : n.agent = m.agent,
         docs' \subseteq docs \cup {a},
         d.live /\ ~(Excused(a, {"patched", "overtaken"}))' => Lacking(d.says, d.keeps, d.tools) = {},
         d.live => /\ \E m \in manual' : m.agent = a
                   /\ (Excused(a, {"overtaken", "numbered"}))' \/ \A m \in manual' : m.agent = a => m.version <= d.version
                   /\ (Excused(a, {"patched", "overtaken", "numbered"}))' \/ \A m \in LatestOf(manual', a) : m.fits \/ m.state = "review",
         a \in docs' => (Excused(a, {"patched", "overtaken", "silenced"}))' \/ "rag" \in d.tools,
         d.live => \A b \in Built : b # a /\ row[b].live /\ row[b].name = d.name =>
                       \/ row[a].live /\ row[a].name = d.name
                       \/ (Excused(a, {"raced"}))' /\ (Excused(b, {"raced"}))'
  PROVE  /\ row' \in [Built -> RowRecord] /\ row'[a] = d /\ \A b \in Built : b # a => row'[b] = row[b]
         /\ RowsOk' /\ ManualsOk' /\ ContractsHold' /\ ManualIsCurrent' /\ DocumentsAreSearched' /\ NamesAreTheirOwn'
<1>1. row' \in [Built -> RowRecord] /\ row'[a] = d /\ \A b \in Built : b # a => row'[b] = row[b]
  BY DEF BuilderInv, BuilderType
<1>2. RowsOk'
  <2>1. \A b \in Built : row'[b] = NoRow \/ row'[b].version > 0
    BY <1>1 DEF BuilderInv, RowsOk
  <2>2. \A m \in manual' : m.agent \in Built /\ row'[m.agent].version > 0
    BY <1>1 DEF BuilderInv, RowsOk, ManualRecord
  <2>3. \A m \in memory' : row'[m.agent].version > 0
    BY <1>1 DEF BuilderInv, BuilderType, RowsOk, MemoryRecord
  <2>4. \A b \in docs' : row'[b].version > 0
    BY <1>1 DEF BuilderInv, BuilderType, RowsOk
  <2> QED
    BY <2>1, <2>2, <2>3, <2>4 DEF RowsOk
<1>3. ContractsHold'
  <2>1. ASSUME NEW b \in Built, row'[b].live, ~(Excused(b, {"patched", "overtaken"}))'
        PROVE  Lacking(row'[b].says, row'[b].keeps, row'[b].tools) = {}
    <3>1. CASE b = a
      BY <1>1, <2>1, <3>1
    <3>2. CASE b # a
      <4>1. ~Excused(b, {"patched", "overtaken"})
        BY <2>1, ExcusesStay
      <4> QED
        BY <1>1, <2>1, <3>2, <4>1 DEF BuilderInv, BuiltAsAgreed, ContractsHold
    <3> QED
      BY <3>1, <3>2
  <2> QED
    BY <2>1 DEF ContractsHold
<1>4. ASSUME NEW b \in Built, b # a
      PROVE  /\ \A m : m \in manual' /\ m.agent = b <=> m \in manual /\ m.agent = b
             /\ (Latest(b))' = Latest(b)
  <2>1. \A m : m \in manual' /\ m.agent = b <=> m \in manual /\ m.agent = b
    BY <1>4
  <2> QED
    BY <2>1, LatestIs DEF LatestOf
<1>5. \A b \in Built : row'[b].live =>
          /\ \E m \in manual' : m.agent = b
          /\ (Excused(b, {"overtaken", "numbered"}))' \/ \A m \in manual' : m.agent = b => m.version <= row'[b].version
  <2>1. SUFFICES ASSUME NEW b \in Built, row'[b].live, b # a
                 PROVE  /\ \E m \in manual' : m.agent = b
                        /\ (Excused(b, {"overtaken", "numbered"}))' \/ \A m \in manual' : m.agent = b => m.version <= row'[b].version
    BY <1>1
  <2>2. /\ \E m \in manual : m.agent = b
        /\ Excused(b, {"overtaken", "numbered"}) \/ \A m \in manual : m.agent = b => m.version <= row[b].version
    BY <1>1, <2>1 DEF BuilderInv, ManualsOk
  <2> QED
    BY <1>1, <1>4, <2>1, <2>2, ExcusesStay
<1>6. ManualsOk'
  BY <1>5 DEF ManualsOk
<1>7. ManualIsCurrent'
  <2>1. ASSUME NEW b \in Built, row'[b].live
        PROVE  /\ (Latest(b))' # {}
               /\ (Excused(b, {"patched", "overtaken", "numbered"}))' \/ \A m \in (Latest(b))' : m.fits \/ m.state = "review"
    <3>1. (Latest(b))' # {}
      BY <1>5, <2>1, LatestThere, LatestIs
    <3>2. CASE b = a
      BY <1>1, <2>1, <3>1, <3>2, LatestIs
    <3>3. CASE b # a
      <4>1. Excused(b, {"patched", "overtaken", "numbered"}) \/ \A m \in Latest(b) : m.fits \/ m.state = "review"
        BY <1>1, <2>1, <3>3 DEF BuilderInv, BuiltAsAgreed, ManualIsCurrent
      <4> QED
        BY <1>4, <3>1, <3>3, <4>1, ExcusesStay
    <3> QED
      BY <3>2, <3>3
  <2> QED
    BY <2>1 DEF ManualIsCurrent
<1>8. DocumentsAreSearched'
  <2>1. ASSUME NEW b \in docs'
        PROVE  (Excused(b, {"patched", "overtaken", "silenced"}))' \/ "rag" \in row'[b].tools
    <3>1. CASE b = a
      BY <1>1, <2>1, <3>1
    <3>2. CASE b # a
      <4>1. b \in docs /\ b \in Built
        BY <2>1, <3>2 DEF BuilderInv, BuilderType
      <4> QED
        BY <1>1, <3>2, <4>1, ExcusesStay DEF BuilderInv, BuiltAsAgreed, DocumentsAreSearched
    <3> QED
      BY <3>1, <3>2
  <2> QED
    BY <2>1 DEF DocumentsAreSearched
<1>9. NamesAreTheirOwn'
  <2>1. \A b, c \in Built : row[b].live /\ row[c].live /\ b # c /\ row[b].name = row[c].name => (Excused(b, {"raced"}))'
    BY ExcusesStay DEF BuilderInv, BuiltAsAgreed, NamesAreTheirOwn
  <2>2. ASSUME NEW b \in Built, NEW c \in Built, row'[b].live, row'[c].live, b # c, row'[b].name = row'[c].name
        PROVE  (Excused(b, {"raced"}))'
    <3>1. CASE b # a /\ c # a
      BY <1>1, <2>1, <2>2, <3>1
    <3>2. CASE b = a
      BY <1>1, <2>1, <2>2, <3>2
    <3>3. CASE c = a
      BY <1>1, <2>1, <2>2, <3>3
    <3> QED
      BY <3>1, <3>2, <3>3
  <2> QED
    BY <2>2 DEF NamesAreTheirOwn
<1> QED
  BY <1>1, <1>2, <1>3, <1>6, <1>7, <1>8, <1>9

(* A step that adds no memory and takes none away.                          *)
LEMMA MemoryStays ==
  ASSUME BuilderInv, memory' = memory, excused \subseteq excused'
  PROVE  /\ MemoryIsReadable' /\ memory' \subseteq MemoryRecord /\ IsFiniteSet(memory')
         /\ \A m \in memory : \E n \in memory' : SameKey(n, m)
         /\ \A a, m \in memory' : m.agent = a \/ \E n \in memory : n.agent = m.agent
         /\ \A q \in Requests, m \in memory' : m.by = "memory" \/ \E n \in memory : SameKey(m, n) /\ n.by # "memory"
<1>1. MemoryIsReadable
  BY DEF BuilderInv, BuiltAsAgreed
<1>2. \A m \in memory : SameKey(m, m)
  BY DEF SameKey
<1>3. MemoryIsReadable'
  BY <1>1, ExcusesStay DEF MemoryIsReadable, Keys
<1> QED
  BY <1>2, <1>3 DEF BuilderInv, BuilderType

LEMMA CreateCommitsKeeps ==
  ASSUME BuilderInv, NEW r \in Requests, CreateCommits(r)
  PROVE  BuilderInv'
<1>1. PICK a, s : a = req[r].agent /\ s = req[r].for
  OBVIOUS
<1>2. /\ req[r].at = "open" /\ s.do = "create" /\ req' = [req EXCEPT ![r] = Free] /\ UNCHANGED <<asked, open, docs, holds>>
      /\ row' = [row EXCEPT ![a] = Made(s)]
      /\ manual' = manual \cup {[agent |-> a, version |-> s.numbered, state |-> s.manual, fits |-> TRUE]}
      /\ memory' = memory \cup {Memory(a, "soul", 0, 0, "create")}
      /\ excused' = excused \cup SameName(r, s.name) \cup (IF s.numbered > 1 THEN {<<"numbered", a>>} ELSE {})
  BY <1>1 DEF CreateCommits, Doing, Answered
<1>3. Working(r) /\ a \in Built /\ SpecOk(s) /\ Accepts(s) /\ row[a] = NoRow /\ req[r].seen = {}
  BY Zenon, <1>1, <1>2, RequestStands DEF Working, RequestOk
<1>4. \A q \in Requests : Working(q) /\ q # r => req[q].agent # a
  BY <1>1, <1>2, <1>3 DEF BuilderInv, RequestsOk
<1>5. PICK d : d = Made(s)
  OBVIOUS
<1> DEFINE tools == LaunchSafe(Wanted(s))
<1>6. tools \subseteq Capabilities
  BY Zenon, <1>3 DEF LaunchSafe, Wanted, SpecOk, Capabilities
<1>7. d = [NoRow EXCEPT !.live = TRUE, !.name = s.name, !.says = s.says, !.block = TRUE, !.keeps = s.keeps,
                        !.tools = tools, !.told = s.told, !.version = 1]
  BY <1>5 DEF Made
<1> HIDE DEF tools
<1>8. /\ WholeEntry(d) /\ d.live /\ d.live = TRUE /\ d.name = s.name /\ d.says = s.says /\ d.block = TRUE /\ d.keeps = s.keeps
      /\ d.tools = tools /\ d.told = s.told /\ d.version = 1
  BY <1>7 DEF NoRow, WholeEntry
<1>26. /\ s.name \in Titles /\ s.says \in SUBSET Words /\ s.told \in SUBSET Words /\ s.keeps \in SUBSET Contracts
       /\ s.manual \in {"usable", "review"} /\ s.numbered \in 1..9
  BY Zenon, <1>3 DEF SpecOk, Titles
<1>9. d \in RowRecord
  <2>1. [live |-> TRUE, name |-> s.name, says |-> s.says, block |-> TRUE, keeps |-> s.keeps, tools |-> tools, told |-> s.told,
         version |-> 1] \in RowRecord
    BY <1>6, <1>26 DEF RowRecord
  <2> QED
    BY <1>8, <2>1 DEF WholeEntry
<1>10. Lacking(d.says, d.keeps, d.tools) = {}
  <2>1. Lacking(s.says \cup s.aside, s.keeps, tools) = {}
    BY <1>3 DEF Accepts, tools
  <2>2. s.says \subseteq s.says \cup s.aside
    OBVIOUS
  <2>3. Lacking(s.says, s.keeps, tools) = {}
    BY <2>1, <2>2, LackingShrinks
  <2> QED
    BY <1>8, <2>3
<1>11. PICK x : x = [agent |-> a, version |-> s.numbered, state |-> s.manual, fits |-> TRUE]
  OBVIOUS
<1>12. x \in ManualRecord /\ x.agent = a /\ x.version = s.numbered /\ x.fits /\ manual' = manual \cup {x} /\ s.numbered \in 1..9
  BY <1>2, <1>3, <1>11, <1>26 DEF ManualRecord
<1>13. \A m \in manual : m.agent # a
  BY <1>3, NoRowTyped DEF BuilderInv, RowsOk
<1>14. \E n \in Nat : \A m \in manual' : m.version <= n
  <2>1. PICK n \in Nat : \A m \in manual : m.version <= n
    BY DEF BuilderInv, ManualsOk
  <2>2. \A m \in manual' : m.version <= n + 9
    BY <1>12, <2>1 DEF BuilderInv, BuilderType, ManualRecord
  <2> QED
    BY <2>2
<1>15. PICK y : y = Memory(a, "soul", 0, 0, "create")
  OBVIOUS
<1>16. y \in MemoryRecord /\ y.agent = a /\ y.key = "soul" /\ y.says = 0 /\ memory' = memory \cup {y}
  BY <1>2, <1>3, <1>15 DEF Memory, MemoryRecord
<1>17. \A m \in memory : m.agent # a
  BY <1>3, NoRowTyped DEF BuilderInv, RowsOk
<1>18. excused \subseteq excused'
  BY <1>2
<1>19. \A b \in Built : b # a /\ row[b].live /\ row[b].name = d.name => (Excused(a, {"raced"}))' /\ (Excused(b, {"raced"}))'
  <2>1. ASSUME NEW b \in Built, b # a, row[b].live, row[b].name = s.name
        PROVE  <<"raced", a>> \in SameName(r, s.name) /\ <<"raced", b>> \in SameName(r, s.name)
    <3>1. b \in Taken(r, s.name)
      BY <1>1, <1>3, <2>1 DEF Taken, Named
    <3> QED
      BY <1>1, <3>1 DEF SameName
  <2> QED
    BY <1>2, <1>8, <2>1 DEF Excused
<1>20. /\ row' \in [Built -> RowRecord] /\ row'[a] = d /\ \A b \in Built : b # a => row'[b] = row[b]
       /\ RowsOk' /\ ManualsOk' /\ ContractsHold' /\ ManualIsCurrent' /\ DocumentsAreSearched' /\ NamesAreTheirOwn'
  <2>1. row' = [row EXCEPT ![a] = d] /\ d.version > 0
    BY <1>2, <1>5, <1>8
  <2>2. manual' \subseteq ManualRecord /\ \A m : m.agent # a => (m \in manual' <=> m \in manual)
    BY <1>12 DEF BuilderInv, BuilderType
  <2>3. memory' \subseteq MemoryRecord /\ \A m \in memory' : m.agent = a \/ \E n \in memory : n.agent = m.agent
    BY <1>16 DEF BuilderInv, BuilderType
  <2>4. docs' \subseteq docs \cup {a} /\ a \notin docs'
    BY <1>2, <1>3, NoRowTyped DEF BuilderInv, RowsOk
  <2>5. /\ \E m \in manual' : m.agent = a
        /\ \A m \in manual' : m.agent = a => m = x
    BY <1>12, <1>13
  <2>6. (Excused(a, {"overtaken", "numbered"}))' \/ \A m \in manual' : m.agent = a => m.version <= d.version
    <3>1. CASE s.numbered > 1
      BY <1>2, <3>1 DEF Excused
    <3>2. CASE ~(s.numbered > 1)
      BY <1>8, <1>12, <2>5, <3>2
    <3> QED
      BY <3>1, <3>2
  <2>7. \A m \in LatestOf(manual', a) : m.fits
    BY <1>12, <2>5 DEF LatestOf
  <2> QED
    BY <1>3, <1>9, <1>10, <1>14, <1>18, <1>19, <2>1, <2>2, <2>3, <2>4, <2>5, <2>6, <2>7, RowWritten
<1>21. MemoryIsReadable'
  <2>1. MemoryIsReadable
    BY DEF BuilderInv, BuiltAsAgreed
  <2>2. \A m \in memory' : m.key = "context" /\ m.says > 0 => \E n \in memory' : n.agent = m.agent /\ n.key = "soul" /\ n.v = m.says
    BY <1>16, <2>1 DEF MemoryIsReadable
  <2>3. ASSUME NEW b \in Built, ~(Excused(b, {"doubled"}))', NEW m \in memory', NEW n \in memory', m.agent = b, n.agent = b,
               m.key = n.key, m.v = n.v
        PROVE  m = n
    <3>1. ~Excused(b, {"doubled"})
      BY <1>18, <2>3, ExcusesStay
    <3> QED
      BY <1>16, <1>17, <2>1, <2>3, <3>1 DEF MemoryIsReadable, Keys
  <2> QED
    BY <2>2, <2>3 DEF MemoryIsReadable, Keys
<1>22. /\ memory' \subseteq MemoryRecord /\ IsFiniteSet(memory')
       /\ \A m \in memory : m \in memory' /\ SameKey(m, m)
  BY <1>16, FS_AddElement DEF BuilderInv, BuilderType, SameKey
<1>23. \A q \in Requests, m \in memory' : req[q].at = "locked" /\ q # r /\ m.agent = req[q].agent =>
           m.by = "memory" \/ \E n \in memory : SameKey(m, n) /\ n.by # "memory"
  BY <1>4, <1>16, <1>22 DEF Working
<1>24. /\ RequestsOk' /\ req' \in [Requests -> RequestRecord]
       /\ \A q \in Requests : (IF Working(q) THEN req[q].agent \in Built /\ req[q].for.do \in Deeds ELSE req[q] = Free)'
  <2>1. /\ open' = open /\ row'[a].version > 0 /\ (\A m \in memory : \E n \in memory' : SameKey(n, m))
        /\ \A q \in Requests : req[q].at = "locked" /\ q # r => holds'[req[q].agent] = holds[req[q].agent]
    BY <1>2, <1>8, <1>20, <1>22
  <2> QED
    BY <1>1, <1>2, <1>3, <1>20, <1>23, <2>1, AnsweredKeeps
<1>25. BuilderType'
  BY <1>2, <1>12, <1>20, <1>22, <1>24 DEF BuilderInv, BuilderType
<1> QED
  BY <1>20, <1>21, <1>24, <1>25 DEF BuilderInv, BuiltAsAgreed

LEMMA RowsStay ==
  ASSUME BuilderInv, UNCHANGED <<row, manual, docs>>, excused \subseteq excused'
  PROVE  /\ ManualsOk' /\ ContractsHold' /\ ManualIsCurrent' /\ DocumentsAreSearched' /\ NamesAreTheirOwn'
         /\ (\A m \in memory' : \E n \in memory : n.agent = m.agent) => RowsOk'
<1>1. ManualsOk'
  BY ExcusesStay DEF BuilderInv, ManualsOk
<1>2. ContractsHold'
  BY ExcusesStay DEF BuilderInv, BuiltAsAgreed, ContractsHold
<1>3. ManualIsCurrent'
  <2>1. \A a : (Latest(a))' = Latest(a)
    BY DEF Latest
  <2> QED
    BY <2>1, ExcusesStay DEF BuilderInv, BuiltAsAgreed, ManualIsCurrent
<1>4. DocumentsAreSearched' /\ NamesAreTheirOwn'
  BY ExcusesStay DEF BuilderInv, BuiltAsAgreed, DocumentsAreSearched, NamesAreTheirOwn
<1>5. (\A m \in memory' : \E n \in memory : n.agent = m.agent) => RowsOk'
  BY DEF BuilderInv, RowsOk
<1> QED
  BY <1>1, <1>2, <1>3, <1>4, <1>5

(* What is read of the memories.                                            *)
SoulsLinked(rows) == \A m \in rows : m.key = "context" /\ m.says > 0 => \E n \in rows : n.agent = m.agent /\ n.key = "soul" /\ n.v = m.says

LEMMA ReadableIs ==
  /\ MemoryIsReadable <=> SoulsLinked(memory) /\ \A a \in Built : ~Excused(a, {"doubled"}) => OneEach(memory, a)
  /\ MemoryIsReadable' <=> SoulsLinked(memory') /\ \A a \in Built : ~(Excused(a, {"doubled"}))' => OneEach(memory', a)
BY DEF MemoryIsReadable, SoulsLinked, OneEach, Keys, SameKey

LEMMA UpsertedLinks ==
  ASSUME NEW rows, rows \subseteq MemoryRecord, IsFiniteSet(rows), NEW known, NEW new \in MemoryRecord,
         \A m \in known : \E n \in rows : SameKey(n, m), SoulsLinked(rows),
         new.key = "context" /\ new.says > 0 => \E n \in rows : n.agent = new.agent /\ n.key = "soul" /\ n.v = new.says
  PROVE  SoulsLinked(Upserted(rows, known, new))
<1> DEFINE up == Upserted(rows, known, new)
<1>1. /\ up \subseteq MemoryRecord
      /\ \A m \in rows : \E n \in up : SameKey(n, m)
      /\ \A n \in up : \/ SameKey(n, new) /\ n.by = new.by /\ n.says = new.says
                       \/ \E m \in rows : SameKey(n, m) /\ n.by = m.by /\ (n.says = m.says \/ (n.says = new.says /\ SameKey(n, new)))
  BY UpsertedMemory
<1> HIDE DEF up
<1>2. ASSUME NEW m \in up, m.key = "context", m.says > 0
      PROVE  \E n \in up : n.agent = m.agent /\ n.key = "soul" /\ n.v = m.says
  <2>1. \E n \in rows : n.agent = m.agent /\ n.key = "soul" /\ n.v = m.says
    <3>1. CASE SameKey(m, new) /\ m.says = new.says
      BY <1>2, <3>1 DEF SameKey
    <3>2. CASE \E o \in rows : SameKey(m, o) /\ m.says = o.says
      BY <1>2, <3>2 DEF SameKey, SoulsLinked
    <3> QED
      BY <1>1, <3>1, <3>2
  <2>2. PICK n \in rows : n.agent = m.agent /\ n.key = "soul" /\ n.v = m.says
    BY <2>1
  <2>3. PICK o \in up : SameKey(o, n)
    BY <1>1
  <2> QED
    BY <2>2, <2>3 DEF SameKey
<1> QED
  BY <1>2 DEF SoulsLinked, up

LEMMA LocksKeeps ==
  ASSUME BuilderInv, NEW r \in Requests, Locks(r)
  PROVE  BuilderInv'
<1>1. PICK a : a = req[r].agent
  OBVIOUS
<1>2. /\ req[r].at = "open" /\ req[r].for.do = "update" /\ holds[a] = "none"
      /\ req' = [req EXCEPT ![r].at = "locked", ![r].keys = Keys(a)] /\ holds' = [holds EXCEPT ![a] = r]
      /\ UNCHANGED <<row, manual, memory, docs, asked, open, excused>>
  BY <1>1 DEF Locks, Doing, RowFree
<1>3. Working(r) /\ a \in Built /\ RequestOk(req[r]) /\ req[r] \in RequestRecord
  BY <1>1, <1>2, RequestStands DEF Working
<1>4. PICK o : o = [[req[r] EXCEPT !.at = "locked"] EXCEPT !.keys = Keys(a)]
  OBVIOUS
<1>5. \A q \in Requests : req'[q] = IF q = r THEN o ELSE req[q]
  BY <1>2, <1>4 DEF BuilderInv, BuilderType
<1>6. /\ WholeRequest(o) /\ o.at = "locked" /\ o.agent = a /\ o.for = req[r].for /\ o.read = req[r].read /\ o.seen = req[r].seen
      /\ o.keys = Keys(a)
  BY <1>1, <1>3, <1>4 DEF WholeRequest, RequestRecord
<1>7. Keys(a) \subseteq memory /\ memory \subseteq MemoryRecord /\ \A m \in Keys(a) : m.agent = a /\ SameKey(m, m)
  BY DEF BuilderInv, BuilderType, Keys, SameKey
<1>8. o \in RequestRecord
  BY <1>3, <1>6, <1>7 DEF RequestRecord, WholeRequest
<1>9. RequestOk(o)
  BY Zenon, <1>1, <1>2, <1>3, <1>6, <1>7 DEF RequestOk
<1>10. BuilderType'
  <2>1. req' \in [Requests -> RequestRecord]
    BY <1>2, <1>5, <1>8 DEF BuilderInv, BuilderType
  <2>2. \A q \in Requests : (IF Working(q) THEN req[q].agent \in Built /\ req[q].for.do \in Deeds ELSE req[q] = Free)'
    BY <1>2, <1>3, <1>5, <1>6 DEF BuilderInv, BuilderType, Working, Deeds
  <2>3. holds' \in [Built -> Requests \cup {"none"}]
    BY <1>2, <1>3 DEF BuilderInv, BuilderType
  <2> QED
    BY <1>2, <2>1, <2>2, <2>3 DEF BuilderInv, BuilderType
<1>11. \A q \in Requests, x \in RequestRecord : (Working(q) /\ x = req[q] => RequestOk(x))'
  <2>1. \A q \in Requests : req'[q].at # "idle" => RequestOk(req'[q])
    BY <1>5, <1>9, RequestStands DEF Working
  <2> QED
    BY <1>2, <2>1, SameAgents DEF Working
<1>12. \A q, s \in Requests : Working(q)' /\ Working(s)' /\ q # s /\ req'[q].for.do = "create" => req'[s].agent # req'[q].agent
  <2>1. \A q \in Requests : req'[q].agent = req[q].agent /\ req'[q].for = req[q].for /\ (Working(q)' <=> Working(q))
    BY <1>1, <1>2, <1>5, <1>6 DEF Working
  <2> QED
    BY <2>1 DEF BuilderInv, RequestsOk
<1>13. ASSUME NEW q \in Requests, req'[q].at = "locked"
       PROVE  LockOk(q)'
  <2>1. CASE q = r
    <3>1. holds'[a] = r
      BY <1>2, <1>3 DEF BuilderInv, BuilderType
    <3> QED
      BY ZenonT(40), <1>2, <1>5, <1>6, <1>7, <2>1, <3>1 DEF LockOk, Keys
  <2>2. CASE q # r
    <3>1. req'[q] = req[q] /\ LockOk(q) /\ req[q].agent \in Built
      BY <1>5, <1>13, <2>2 DEF BuilderInv, BuilderType, RequestsOk, Working
    <3>2. holds[req[q].agent] = q /\ q # "none"
      BY <3>1, BuilderBounds DEF LockOk
    <3>3. holds'[req[q].agent] = holds[req[q].agent]
      BY <1>2, <3>1, <3>2 DEF BuilderInv, BuilderType
    <3> QED
      BY <1>2, <3>1, <3>3 DEF LockOk, Keys
  <2> QED
    BY <2>1, <2>2
<1>14. RequestsOk'
  BY <1>11, <1>12, <1>13 DEF RequestsOk
<1> QED
  BY <1>2, <1>10, <1>14, SameAgents DEF BuilderInv

LEMMA SetMemoryCommitsKeeps ==
  ASSUME BuilderInv, NEW r \in Requests, SetMemoryCommits(r)
  PROVE  BuilderInv'
<1>1. PICK a, known, k : a = req[r].agent /\ known = req[r].keys /\ k = req[r].for.key
  OBVIOUS
<1>2. PICK new : new = Memory(a, k, 0, 0, "memory")
  OBVIOUS
<1>3. /\ req[r].at = "open" /\ req[r].for.do = "memory" /\ req' = [req EXCEPT ![r] = Free]
      /\ UNCHANGED <<row, manual, docs, holds, asked, open>>
      /\ \/ memory' = Upserted(memory, known, new) /\ excused' = excused \cup Doubled(memory, known, new)
         \/ UNCHANGED <<memory, excused>>
  BY <1>1, <1>2 DEF SetMemoryCommits, Doing, Answered
<1>4. /\ Working(r) /\ a \in Built /\ k \in {"soul", "context"} /\ row[a].version > 0
      /\ \A m \in known : \E n \in memory : SameKey(n, m)
  BY Zenon, <1>1, <1>3, RequestStands DEF Working, RequestOk
<1>5. /\ new \in MemoryRecord /\ new.agent = a /\ new.key = k /\ new.says = 0 /\ new.by = "memory"
  BY <1>2, <1>4 DEF Memory, MemoryRecord
<1>6. excused \subseteq excused'
  BY <1>3
<1>7. /\ MemoryIsReadable' /\ memory' \subseteq MemoryRecord /\ IsFiniteSet(memory')
      /\ \A m \in memory : \E n \in memory' : SameKey(n, m)
      /\ \A m \in memory' : m.agent = a \/ \E n \in memory : n.agent = m.agent
      /\ \A m \in memory' : m.by = "memory" \/ \E n \in memory : SameKey(m, n) /\ n.by # "memory"
  <2>1. CASE UNCHANGED <<memory, excused>>
    <3>1. memory' = memory /\ \A m \in memory : SameKey(m, m)
      BY <2>1 DEF SameKey
    <3>2. MemoryIsReadable'
      BY <1>6, <3>1, MemoryStays
    <3> QED
      BY <3>1, <3>2 DEF BuilderInv, BuilderType
  <2>2. CASE memory' = Upserted(memory, known, new) /\ excused' = excused \cup Doubled(memory, known, new)
    <3>1. memory \subseteq MemoryRecord /\ IsFiniteSet(memory)
      BY DEF BuilderInv, BuilderType
    <3>2. /\ memory' \subseteq MemoryRecord /\ IsFiniteSet(memory')
          /\ \A m \in memory : \E n \in memory' : SameKey(n, m)
          /\ \A n \in memory' : \/ SameKey(n, new) /\ n.by = new.by /\ n.says = new.says
                                \/ \E m \in memory : SameKey(n, m) /\ n.by = m.by /\ (n.says = m.says \/ (n.says = new.says /\ SameKey(n, new)))
          /\ \A b : OneEach(memory, b) /\ (new.agent = b /\ Found(known, new) = {} => Found(memory, new) = {}) => OneEach(memory', b)
      BY <1>4, <1>5, <2>2, <3>1, UpsertedMemory
    <3>3. SoulsLinked(memory')
      <4>1. SoulsLinked(memory)
        BY ReadableIs DEF BuilderInv, BuiltAsAgreed
      <4> QED
        BY <1>4, <1>5, <2>2, <3>1, <4>1, UpsertedLinks
    <3>4. ASSUME NEW b \in Built, ~(Excused(b, {"doubled"}))'
          PROVE  OneEach(memory', b)
      <4>1. OneEach(memory, b)
        BY <1>6, <3>4, ExcusesStay, ReadableIs DEF BuilderInv, BuiltAsAgreed
      <4>2. ASSUME new.agent = b, Found(known, new) = {}, Found(memory, new) # {}
            PROVE  FALSE
        <5>1. Doubled(memory, known, new) = {<<"doubled", b>>}
          BY <1>5, <4>2 DEF Doubled
        <5> QED
          BY <2>2, <3>4, <5>1 DEF Excused
      <4> QED
        BY <3>2, <4>1, <4>2
    <3>5. MemoryIsReadable'
      BY <3>3, <3>4, ReadableIs
    <3>6. /\ \A m \in memory' : m.agent = a \/ \E n \in memory : n.agent = m.agent
          /\ \A m \in memory' : m.by = "memory" \/ \E n \in memory : SameKey(m, n) /\ n.by # "memory"
      BY <1>5, <3>2 DEF SameKey
    <3> QED
      BY <3>2, <3>5, <3>6
  <2> QED
    BY <1>3, <2>1, <2>2
<1>8. /\ ManualsOk' /\ ContractsHold' /\ ManualIsCurrent' /\ DocumentsAreSearched' /\ NamesAreTheirOwn'
  BY <1>3, <1>6, RowsStay
<1>9. RowsOk'
  BY <1>3, <1>4, <1>7 DEF BuilderInv, RowsOk
<1>10. /\ RequestsOk' /\ req' \in [Requests -> RequestRecord]
       /\ \A q \in Requests : (IF Working(q) THEN req[q].agent \in Built /\ req[q].for.do \in Deeds ELSE req[q] = Free)'
  <2>1. /\ row' \in [Built -> RowRecord] /\ row'[a].version > 0 /\ \A b \in Built : b # a => row'[b] = row[b]
    BY <1>3, <1>4 DEF BuilderInv, BuilderType
  <2>2. \A q \in Requests, m \in memory' : req[q].at = "locked" /\ q # r /\ m.agent = req[q].agent =>
           m.by = "memory" \/ \E n \in memory : SameKey(m, n) /\ n.by # "memory"
    BY <1>7
  <2>3. \A q \in Requests : req[q].at = "locked" /\ q # r => holds'[req[q].agent] = holds[req[q].agent]
    BY <1>3
  <2>4. open' = open /\ \A m \in memory : \E n \in memory' : SameKey(n, m)
    BY <1>3, <1>7
  <2> QED
    BY <1>1, <1>3, <1>4, <2>1, <2>2, <2>3, <2>4, AnsweredKeeps
<1>11. BuilderType'
  BY <1>3, <1>7, <1>10 DEF BuilderInv, BuilderType
<1> QED
  BY <1>7, <1>8, <1>9, <1>10, <1>11 DEF BuilderInv, BuiltAsAgreed

(* A row is written and the manuals and the memories stay.                  *)
LEMMA RowChanged ==
  ASSUME BuilderInv, NEW a \in Built, NEW d \in RowRecord, row' = [row EXCEPT ![a] = d], d.version > 0,
         excused \subseteq excused', manual' = manual, memory' = memory, docs' \subseteq docs \cup {a},
         d.live => row[a].live,
         d.live /\ ~(Excused(a, {"patched", "overtaken"}))' => Lacking(d.says, d.keeps, d.tools) = {},
         d.live => (Excused(a, {"overtaken"}))' \/ row[a].version <= d.version,
         a \in docs' => (Excused(a, {"patched", "overtaken", "silenced"}))' \/ "rag" \in d.tools,
         \A b \in Built : b # a /\ row[b].live /\ row[b].name = d.name =>
             d.name = row[a].name \/ ((Excused(a, {"raced"}))' /\ (Excused(b, {"raced"}))')
  PROVE  /\ row' \in [Built -> RowRecord] /\ row'[a] = d /\ \A b \in Built : b # a => row'[b] = row[b]
         /\ RowsOk' /\ ManualsOk' /\ ContractsHold' /\ ManualIsCurrent' /\ DocumentsAreSearched' /\ NamesAreTheirOwn'
<1>1. manual' \subseteq ManualRecord /\ (\A m : m.agent # a => (m \in manual' <=> m \in manual)) /\ \E n \in Nat : \A m \in manual' : m.version <= n
  BY DEF BuilderInv, BuilderType, ManualsOk
<1>2. memory' \subseteq MemoryRecord /\ \A m \in memory' : m.agent = a \/ \E n \in memory : n.agent = m.agent
  BY DEF BuilderInv, BuilderType
<1>3. ASSUME d.live
      PROVE  /\ \E m \in manual' : m.agent = a
             /\ (Excused(a, {"overtaken", "numbered"}))' \/ \A m \in manual' : m.agent = a => m.version <= d.version
             /\ (Excused(a, {"patched", "overtaken", "numbered"}))' \/ \A m \in LatestOf(manual', a) : m.fits \/ m.state = "review"
  <2>1. row[a].live
    BY <1>3
  <2>2. /\ \E m \in manual : m.agent = a
        /\ Excused(a, {"overtaken", "numbered"}) \/ \A m \in manual : m.agent = a => m.version <= row[a].version
    BY <2>1 DEF BuilderInv, ManualsOk
  <2>3. Excused(a, {"patched", "overtaken", "numbered"}) \/ \A m \in LatestOf(manual, a) : m.fits \/ m.state = "review"
    BY <2>1, LatestIs DEF BuilderInv, BuiltAsAgreed, ManualIsCurrent
  <2>4. (Excused(a, {"overtaken", "numbered"}))' \/ \A m \in manual' : m.agent = a => m.version <= d.version
    <3>1. CASE Excused(a, {"overtaken", "numbered"})
      BY <3>1, ExcusesStay
    <3>2. CASE (Excused(a, {"overtaken"}))'
      BY <3>2 DEF Excused
    <3>3. CASE row[a].version <= d.version /\ \A m \in manual : m.agent = a => m.version <= row[a].version
      BY <3>3 DEF BuilderInv, BuilderType, ManualRecord, RowRecord
    <3> QED
      BY <1>3, <2>2, <3>1, <3>2, <3>3
  <2>5. (Excused(a, {"patched", "overtaken", "numbered"}))' \/ \A m \in LatestOf(manual', a) : m.fits \/ m.state = "review"
    BY <2>3, ExcusesStay
  <2> QED
    BY <2>2, <2>4, <2>5
<1>4. d.live => \A b \in Built : b # a /\ row[b].live /\ row[b].name = d.name =>
                    \/ row[a].live /\ row[a].name = d.name
                    \/ (Excused(a, {"raced"}))' /\ (Excused(b, {"raced"}))'
  OBVIOUS
<1> QED
  BY <1>1, <1>2, <1>3, <1>4, RowWritten

(* What is known of an agent that is not excused.                           *)
LEMMA AsAgreed ==
  ASSUME BuilderInv, NEW a \in Built, excused \subseteq excused'
  PROVE  /\ row[a].live /\ ~(Excused(a, {"patched", "overtaken"}))' => Lacking(row[a].says, row[a].keeps, row[a].tools) = {}
         /\ a \in docs => (Excused(a, {"patched", "overtaken", "silenced"}))' \/ "rag" \in row[a].tools
<1>1. row[a].live /\ ~(Excused(a, {"patched", "overtaken"}))' => Lacking(row[a].says, row[a].keeps, row[a].tools) = {}
  BY ExcusesStay DEF BuilderInv, BuiltAsAgreed, ContractsHold
<1>2. a \in docs => (Excused(a, {"patched", "overtaken", "silenced"}))' \/ "rag" \in row[a].tools
  BY ExcusesStay DEF BuilderInv, BuiltAsAgreed, DocumentsAreSearched
<1> QED
  BY <1>1, <1>2

(* A call that writes a row and no memory.                                  *)
LEMMA RowCommits ==
  ASSUME BuilderInv, NEW r \in Requests, Working(r), NEW a \in Built, a = req[r].agent, req' = [req EXCEPT ![r] = Free],
         UNCHANGED <<open, manual, memory, holds>>, docs' \subseteq docs \cup {a}, excused \subseteq excused',
         row' \in [Built -> RowRecord], row'[a].version > 0, \A b \in Built : b # a => row'[b] = row[b],
         RowsOk', ManualsOk', ContractsHold', ManualIsCurrent', DocumentsAreSearched', NamesAreTheirOwn'
  PROVE  BuilderInv'
<1>1. /\ MemoryIsReadable' /\ memory' \subseteq MemoryRecord /\ IsFiniteSet(memory')
      /\ \A m \in memory : \E n \in memory' : SameKey(n, m)
      /\ \A q \in Requests, m \in memory' : m.by = "memory" \/ \E n \in memory : SameKey(m, n) /\ n.by # "memory"
  BY MemoryStays
<1>2. \A q \in Requests : req[q].at = "locked" /\ q # r => holds'[req[q].agent] = holds[req[q].agent]
  OBVIOUS
<1>3. \A q \in Requests, m \in memory' : req[q].at = "locked" /\ q # r /\ m.agent = req[q].agent =>
          m.by = "memory" \/ \E n \in memory : SameKey(m, n) /\ n.by # "memory"
  BY <1>1
<1>4. /\ RequestsOk' /\ req' \in [Requests -> RequestRecord]
      /\ \A q \in Requests : (IF Working(q) THEN req[q].agent \in Built /\ req[q].for.do \in Deeds ELSE req[q] = Free)'
  BY <1>1, <1>2, <1>3, AnsweredKeeps
<1>5. BuilderType'
  BY <1>1, <1>4 DEF BuilderInv, BuilderType
<1> QED
  BY <1>1, <1>4, <1>5 DEF BuilderInv, BuiltAsAgreed

LEMMA KnowledgeCommitsKeeps ==
  ASSUME BuilderInv, NEW r \in Requests, KnowledgeCommits(r)
  PROVE  BuilderInv'
<1>1. PICK a, read : a = req[r].agent /\ read = req[r].read
  OBVIOUS
<1>2. /\ req[r].at = "open" /\ req[r].for.do = "knowledge" /\ req' = [req EXCEPT ![r] = Free] /\ UNCHANGED <<asked, open, manual, memory, holds>>
      /\ docs' = docs \cup {a}
      /\ row' = IF "rag" \notin read.tools THEN [row EXCEPT ![a].tools = read.tools \cup {"rag"}, ![a].told = read.told] ELSE row
      /\ excused' = excused \cup (IF row[a].tools # read.tools \/ row[a].told # read.told THEN {<<"overtaken", a>>} ELSE {})
  BY <1>1 DEF KnowledgeCommits, Doing, Answered
<1>3. Working(r) /\ a \in Built /\ row[a].version > 0 /\ row[a] \in RowRecord /\ read \in RowRecord
  BY Zenon, <1>1, <1>2, RequestStands DEF Working, RequestOk
<1>4. PICK d : d = IF "rag" \notin read.tools THEN [row[a] EXCEPT !.tools = read.tools \cup {"rag"}, !.told = read.told] ELSE row[a]
  OBVIOUS
<1>5. /\ d \in RowRecord /\ d.live = row[a].live /\ d.name = row[a].name /\ d.says = row[a].says /\ d.keeps = row[a].keeps
      /\ d.version = row[a].version
      /\ IF "rag" \notin read.tools THEN d.tools = read.tools \cup {"rag"} ELSE d.tools = row[a].tools
  <2>1. CASE "rag" \notin read.tools
    <3>1. d = [row[a] EXCEPT !.tools = read.tools \cup {"rag"}, !.told = read.told]
      BY <1>4, <2>1
    <3>2. /\ WholeEntry(d) /\ d.live = row[a].live /\ d.name = row[a].name /\ d.says = row[a].says /\ d.block = row[a].block
          /\ d.keeps = row[a].keeps /\ d.tools = read.tools \cup {"rag"} /\ d.told = read.told /\ d.version = row[a].version
      BY <1>3, <3>1 DEF RowRecord, WholeEntry
    <3>3. d \in RowRecord
      BY <1>3, <3>2 DEF RowRecord, WholeEntry, Capabilities
    <3> QED
      BY <2>1, <3>2, <3>3
  <2>2. CASE ~("rag" \notin read.tools)
    BY <1>3, <1>4, <2>2
  <2> QED
    BY <2>1, <2>2
<1>6. row' = [row EXCEPT ![a] = d]
  BY <1>2, <1>3, <1>4 DEF BuilderInv, BuilderType
<1>7. excused \subseteq excused' /\ (~(Excused(a, {"patched", "overtaken"}))' => row[a].tools = read.tools)
  BY <1>2 DEF Excused
<1>8. /\ row' \in [Built -> RowRecord] /\ row'[a] = d /\ \A b \in Built : b # a => row'[b] = row[b]
      /\ RowsOk' /\ ManualsOk' /\ ContractsHold' /\ ManualIsCurrent' /\ DocumentsAreSearched' /\ NamesAreTheirOwn'
  <2>1. d.live /\ ~(Excused(a, {"patched", "overtaken"}))' => Lacking(d.says, d.keeps, d.tools) = {}
    <3>1. SUFFICES ASSUME d.live, ~(Excused(a, {"patched", "overtaken"}))'
                   PROVE  Lacking(d.says, d.keeps, d.tools) = {}
      OBVIOUS
    <3>2. Lacking(row[a].says, row[a].keeps, row[a].tools) = {}
      BY <1>3, <1>5, <1>7, <3>1, AsAgreed
    <3>3. row[a].tools \subseteq d.tools
      BY <1>5, <1>7, <3>1
    <3> QED
      BY <1>5, <3>2, <3>3, LackingShrinks
  <2>2. a \in docs' => (Excused(a, {"patched", "overtaken", "silenced"}))' \/ "rag" \in d.tools
    <3>1. (Excused(a, {"patched", "overtaken"}))' => (Excused(a, {"patched", "overtaken", "silenced"}))'
      BY DEF Excused
    <3> QED
      BY <1>5, <1>7, <3>1
  <2>3. d.live => (Excused(a, {"overtaken"}))' \/ row[a].version <= d.version
    BY <1>3, <1>5 DEF RowRecord
  <2>4. manual' = manual /\ memory' = memory /\ docs' \subseteq docs \cup {a}
    BY <1>2
  <2>5. d.version > 0 /\ (d.live => row[a].live)
    BY <1>3, <1>5
  <2>6. \A b \in Built : b # a /\ row[b].live /\ row[b].name = d.name =>
             d.name = row[a].name \/ ((Excused(a, {"raced"}))' /\ (Excused(b, {"raced"}))')
    BY <1>5
  <2> QED
    BY <1>3, <1>5, <1>6, <1>7, <2>1, <2>2, <2>3, <2>4, <2>5, <2>6, RowChanged
<1>9. row'[a].version > 0 /\ docs' \subseteq docs \cup {a} /\ UNCHANGED <<open, manual, memory, holds>>
  BY <1>2, <1>3, <1>5, <1>8
<1> QED
  BY <1>1, <1>2, <1>3, <1>7, <1>8, <1>9, RowCommits

LEMMA DeleteAgentCommitsKeeps ==
  ASSUME BuilderInv, NEW r \in Requests, DeleteAgentCommits(r)
  PROVE  BuilderInv'
<1>1. PICK a, read : a = req[r].agent /\ read = req[r].read
  OBVIOUS
<1>2. /\ req[r].at = "open" /\ req[r].for.do = "delete" /\ req' = [req EXCEPT ![r] = Free]
      /\ UNCHANGED <<asked, open, manual, memory, docs, holds, excused>>
      /\ row' = [row EXCEPT ![a] = [@ EXCEPT !.live = FALSE, !.version = read.version + 1]]
  BY <1>1 DEF DeleteAgentCommits, Doing, Answered
<1>3. Working(r) /\ a \in Built /\ row[a].version > 0 /\ row[a] \in RowRecord /\ read \in RowRecord
  BY Zenon, <1>1, <1>2, RequestStands DEF Working, RequestOk
<1>4. PICK d : d = [row[a] EXCEPT !.live = FALSE, !.version = read.version + 1]
  OBVIOUS
<1>5. /\ WholeEntry(d) /\ d.live = FALSE /\ d.name = row[a].name /\ d.says = row[a].says /\ d.block = row[a].block
      /\ d.keeps = row[a].keeps /\ d.tools = row[a].tools /\ d.told = row[a].told /\ d.version = read.version + 1
  BY <1>3, <1>4 DEF RowRecord, WholeEntry
<1>6. read.version + 1 \in Nat /\ read.version + 1 > 0
  BY <1>3 DEF RowRecord
<1>7. d \in RowRecord
  BY <1>3, <1>5, <1>6 DEF RowRecord, WholeEntry
<1>8. row' = [row EXCEPT ![a] = d]
  BY <1>2, <1>4
<1>9. /\ row' \in [Built -> RowRecord] /\ row'[a] = d /\ \A b \in Built : b # a => row'[b] = row[b]
      /\ RowsOk' /\ ManualsOk' /\ ContractsHold' /\ ManualIsCurrent' /\ DocumentsAreSearched' /\ NamesAreTheirOwn'
  <2>1. manual' = manual /\ memory' = memory /\ docs' \subseteq docs \cup {a} /\ excused \subseteq excused' /\ docs' = docs
    BY <1>2
  <2>2. a \in docs' => (Excused(a, {"patched", "overtaken", "silenced"}))' \/ "rag" \in d.tools
    BY <1>3, <1>5, <2>1, AsAgreed
  <2>3. ~d.live /\ d.version > 0
    BY <1>5, <1>6
  <2>4. \A b \in Built : b # a /\ row[b].live /\ row[b].name = d.name =>
             d.name = row[a].name \/ ((Excused(a, {"raced"}))' /\ (Excused(b, {"raced"}))')
    BY <1>5
  <2> QED
    BY ZenonT(40), <1>3, <1>7, <1>8, <2>1, <2>2, <2>3, <2>4, RowChanged
<1>10. /\ row'[a].version > 0 /\ docs' \subseteq docs \cup {a} /\ UNCHANGED <<open, manual, memory, holds>> /\ excused \subseteq excused'
  BY <1>2, <1>5, <1>6, <1>9
<1> QED
  BY <1>1, <1>2, <1>3, <1>9, <1>10, RowCommits

LEMMA PatchCommitsKeeps ==
  ASSUME BuilderInv, NEW r \in Requests, PatchCommits(r)
  PROVE  BuilderInv'
<1>1. PICK a, c, read : a = req[r].agent /\ c = req[r].for /\ read = req[r].read
  OBVIOUS
<1>2. PICK f : f = Changed(read, c)
  OBVIOUS
<1>3. PICK tools, words : /\ tools = (IF TakesTools(c) THEN c.tools ELSE read.tools)
                         /\ words = (IF TakesTools(c) THEN {} ELSE f.told)
  OBVIOUS
<1>4. PICK e : e = [f EXCEPT !.version = read.version + 1, !.tools = tools, !.told = words]
  OBVIOUS
<1>5. PICK d : d = Merge(read, e, row[a])
  OBVIOUS
<1>6. /\ req[r].at = "open" /\ c.do = "patch" /\ req' = [req EXCEPT ![r] = Free]
      /\ UNCHANGED <<asked, open, manual, memory, docs, holds>>
      /\ row' = [row EXCEPT ![a] = Merge(read, [Changed(read, c) EXCEPT !.version = read.version + 1,
                                                     !.tools = IF TakesTools(c) THEN c.tools ELSE read.tools,
                                                     !.told = IF TakesTools(c) THEN {} ELSE @], @)]
      /\ excused' = excused \cup Overtaken(a, read) \cup (IF IdentityIsTouched(c) THEN {<<"patched", a>>} ELSE {})
                       \cup (IF c.name = "" THEN {} ELSE {<<"raced", b>> : b \in {a} \cup Named(c.name)})
  BY Zenon, <1>1 DEF PatchCommits, Doing, Answered
<1>7. Working(r) /\ a \in Built /\ row[a].version > 0 /\ row[a] \in RowRecord /\ read \in RowRecord /\ c \in ChangeRecord
  BY Zenon, <1>1, <1>6, RequestStands DEF Working, RequestOk
<1>8. /\ f \in RowRecord /\ f.told = read.told /\ f.name = (IF c.name = "" THEN read.name ELSE c.name)
      /\ (~TakesText(c) => f.says = read.says /\ f.block = read.block /\ f.keeps = read.keeps)
  BY Zenon, <1>2, <1>7, ChangedRow
<1>9. /\ WholeEntry(e) /\ e.live = f.live /\ e.name = f.name /\ e.says = f.says /\ e.block = f.block /\ e.keeps = f.keeps
      /\ e.tools = tools /\ e.told = words /\ e.version = read.version + 1
  BY Zenon, <1>4, <1>8 DEF RowRecord, WholeEntry
<1>10. read.version + 1 \in Nat /\ read.version + 1 > 0
  BY <1>7 DEF RowRecord
<1>11. e \in RowRecord
  <2>1. tools \in SUBSET Capabilities /\ words \in SUBSET Words
    BY Zenon, <1>3, <1>7, <1>8 DEF RowRecord, ChangeRecord
  <2>2. /\ f.live \in BOOLEAN /\ f.name \in Titles /\ f.says \in SUBSET Words /\ f.block \in BOOLEAN /\ f.keeps \in SUBSET Contracts
    BY <1>8, Zenon DEF RowRecord
  <2>3. [live |-> f.live, name |-> f.name, says |-> f.says, block |-> f.block, keeps |-> f.keeps, tools |-> tools, told |-> words,
         version |-> read.version + 1] \in RowRecord
    BY <1>10, <2>1, <2>2 DEF RowRecord
  <2> QED
    BY <1>9, <2>3 DEF WholeEntry
<1>12. /\ d \in RowRecord /\ d.live = row[a].live /\ d.version = read.version + 1
       /\ d.name = (IF e.name = read.name THEN row[a].name ELSE e.name)
       /\ (e.says = read.says /\ e.block = read.block /\ e.keeps = read.keeps => d.says = row[a].says /\ d.keeps = row[a].keeps)
       /\ (e.tools = read.tools /\ e.told = read.told => d.tools = row[a].tools)
  BY <1>5, <1>7, <1>9, <1>11, MergedRow
<1>13. row' = [row EXCEPT ![a] = d]
  <2>1. [Changed(read, c) EXCEPT !.version = read.version + 1, !.tools = IF TakesTools(c) THEN c.tools ELSE read.tools,
                                 !.told = IF TakesTools(c) THEN {} ELSE @] = e
    BY <1>2, <1>3, <1>4
  <2> QED
    BY Zenon, <1>5, <1>6, <2>1
<1>14. excused \subseteq excused'
  BY Zenon, <1>6
<1>15. ~IdentityIsTouched(c) => d.says = row[a].says /\ d.keeps = row[a].keeps /\ d.tools = row[a].tools
  BY Zenon, <1>3, <1>8, <1>9, <1>12 DEF IdentityIsTouched
<1>16. IdentityIsTouched(c) => (Excused(a, {"patched", "overtaken"}))' /\ (Excused(a, {"patched", "overtaken", "silenced"}))'
  BY Zenon, <1>6 DEF Excused
<1>17. (Excused(a, {"overtaken"}))' \/ row[a].version <= d.version
  BY ZenonT(30), <1>6, <1>7, <1>12, NotOvertaken, OvertakenIs DEF Excused
<1>18. /\ row' \in [Built -> RowRecord] /\ row'[a] = d /\ \A b \in Built : b # a => row'[b] = row[b]
       /\ RowsOk' /\ ManualsOk' /\ ContractsHold' /\ ManualIsCurrent' /\ DocumentsAreSearched' /\ NamesAreTheirOwn'
  <2>1. manual' = manual /\ memory' = memory /\ docs' \subseteq docs \cup {a} /\ docs' = docs
    BY Zenon, <1>6
  <2>2. a \in docs' => (Excused(a, {"patched", "overtaken", "silenced"}))' \/ "rag" \in d.tools
    BY <1>7, <1>14, <1>15, <1>16, <2>1, AsAgreed
  <2>3. d.live /\ ~(Excused(a, {"patched", "overtaken"}))' => Lacking(d.says, d.keeps, d.tools) = {}
    BY <1>7, <1>12, <1>14, <1>15, <1>16, AsAgreed
  <2>4. d.version > 0 /\ (d.live => row[a].live)
    BY <1>10, <1>12
  <2>5. ASSUME NEW b \in Built, b # a, row[b].live, row[b].name = d.name
        PROVE  d.name = row[a].name \/ ((Excused(a, {"raced"}))' /\ (Excused(b, {"raced"}))')
    <3>1. CASE c.name = "" \/ e.name = read.name
      BY Zenon, <1>8, <1>9, <1>12, <3>1
    <3>2. CASE c.name # "" /\ e.name # read.name
      <4>1. d.name = c.name
        BY Zenon, <1>8, <1>9, <1>12, <3>2
      <4>2. b \in Named(c.name)
        BY <2>5, <4>1 DEF Named
      <4>3. <<"raced", a>> \in excused' /\ <<"raced", b>> \in excused'
        BY Zenon, <1>6, <3>2, <4>2
      <4> QED
        BY <4>3 DEF Excused
    <3> QED
      BY Zenon, <3>1, <3>2
  <2>6. \A b \in Built : b # a /\ row[b].live /\ row[b].name = d.name =>
             d.name = row[a].name \/ ((Excused(a, {"raced"}))' /\ (Excused(b, {"raced"}))')
    BY <2>5
  <2> QED
    BY <1>7, <1>12, <1>13, <1>14, <1>17, <2>1, <2>2, <2>3, <2>4, <2>6, RowChanged
<1>19. /\ row'[a].version > 0 /\ docs' \subseteq docs \cup {a} /\ UNCHANGED <<open, manual, memory, holds>>
  BY Zenon, <1>6, <1>10, <1>12, <1>18
<1> QED
  BY Zenon, <1>1, <1>6, <1>7, <1>14, <1>18, <1>19, RowCommits

(* The manuals that an update leaves.                                       *)
ManualsFollow(a, read, c) ==
    /\ manual' \subseteq ManualRecord /\ \A m : m.agent # a => (m \in manual' <=> m \in manual)
    /\ \E n \in Nat : \A m \in manual' : m.version <= n
    /\ (\E m \in manual : m.agent = a) => \E m \in manual' : m.agent = a
    /\ \A m \in manual' : m.agent = a => m.version = read.version + 1 \/ \E n \in manual : n.agent = a /\ n.version = m.version
    /\ \/ manual' = manual /\ ~WorkflowIsTouched(read, c) /\ ~AsksManual(c)
       \/ \E m \in manual' : /\ m.agent = a /\ m.version = read.version + 1
                             /\ \A n \in manual' : n.agent = a /\ n.version = m.version => n = m
                             /\ \/ m.fits
                                \/ \E x \in Instructions \cup ToolsConfig : Merge(read, New(read, c), row[a])[x] # New(read, c)[x]

LEMMA UpdatedManuals ==
  ASSUME BuilderInv, NEW a \in Built, NEW read \in RowRecord, NEW c \in ChangeRecord, manual' = Manuals(a, read, c)
  PROVE  ManualsFollow(a, read, c)
<1>1. manual \subseteq ManualRecord /\ read.version + 1 \in Nat
  BY DEF BuilderInv, BuilderType, RowRecord
<1>2. PICK n \in Nat : \A m \in manual : m.version <= n
  BY DEF BuilderInv, ManualsOk
<1>3. CASE ~(WorkflowIsTouched(read, c) \/ AsksManual(c))
  <2>1. manual' = manual
    BY <1>3 DEF Manuals
  <2> QED
    BY <1>1, <1>2, <1>3, <2>1 DEF ManualsFollow
<1>4. CASE WorkflowIsTouched(read, c) \/ AsksManual(c)
  <2>1. PICK fits \in BOOLEAN : fits <=> \A x \in Instructions \cup ToolsConfig : Merge(read, New(read, c), row[a])[x] = New(read, c)[x]
    OBVIOUS
  <2>2. (\A x \in Instructions \cup ToolsConfig : Merge(read, New(read, c), row[a])[x] = New(read, c)[x]) = fits
    BY <2>1
  <2>3. PICK state : state = IF AsksManual(c) THEN c.manual ELSE "review"
    OBVIOUS
  <2>4. PICK next : next = [agent |-> a, version |-> read.version + 1, state |-> state, fits |-> fits]
    OBVIOUS
  <2>5. state \in {"usable", "review"}
    BY <2>3 DEF AsksManual, ChangeRecord
  <2>6. next \in ManualRecord /\ next.agent = a /\ next.version = read.version + 1 /\ next.fits = fits
    BY <1>1, <2>1, <2>4, <2>5 DEF ManualRecord
  <2> DEFINE aged == {[m EXCEPT !.fits = m.fits /\ m.agent # a] : m \in manual}
  <2>7. manual' = {m \in aged : m.agent # a \/ m.version # next.version} \cup {next}
    BY <1>4, <2>2, <2>3, <2>4, Zenon DEF Manuals
  <2>8. ASSUME NEW m \in manual, NEW x, x = [m EXCEPT !.fits = m.fits /\ m.agent # a]
        PROVE  /\ x \in ManualRecord /\ x.agent = m.agent /\ x.version = m.version /\ (m.agent # a => x = m)
    <3>1. PICK g \in BOOLEAN : g <=> m.fits /\ m.agent # a
      OBVIOUS
    <3>2. m \in ManualRecord /\ (m.fits /\ m.agent # a) = g
      BY <1>1, <3>1 DEF ManualRecord
    <3>3. x = [m EXCEPT !.fits = g]
      BY <2>8, <3>2
    <3>4. x \in ManualRecord /\ x.agent = m.agent /\ x.version = m.version
      BY <3>2, <3>3 DEF ManualRecord
    <3>5. m.agent # a => g = m.fits
      BY <3>1, <3>2 DEF ManualRecord
    <3>6. m.agent # a => x = m
      BY <3>2, <3>3, <3>5 DEF ManualRecord
    <3> QED
      BY <3>4, <3>6
  <2>9. \A x \in aged : x \in ManualRecord /\ \E m \in manual : x.agent = m.agent /\ x.version = m.version /\ (m.agent # a => x = m)
    BY <2>8
  <2>10. \A m \in manual : m.agent # a => m \in aged
    BY <2>8
  <2> HIDE DEF aged
  <2>11. manual' \subseteq ManualRecord
    BY <2>6, <2>7, <2>9
  <2>12. ASSUME NEW m, m.agent # a
         PROVE  m \in manual' <=> m \in manual
    BY <2>6, <2>7, <2>9, <2>10, <2>12
  <2>13. \A m \in manual' : m.version <= n + read.version + 1
    <3>1. ASSUME NEW m \in manual'
          PROVE  m.version <= n + read.version + 1
      <4>1. CASE m = next
        BY <1>1, <2>6, <4>1 DEF RowRecord
      <4>2. CASE m \in aged
        <5>1. PICK p \in manual : m.version = p.version
          BY <2>9, <4>2
        <5>2. p.version <= n /\ p.version \in Nat /\ read.version \in Nat
          BY <1>1, <1>2 DEF ManualRecord, RowRecord
        <5> QED
          BY <5>1, <5>2
      <4> QED
        BY <2>7, <3>1, <4>1, <4>2
    <3> QED
      BY <3>1
  <2>14. n + read.version + 1 \in Nat
    BY DEF RowRecord
  <2>15. \A m \in manual' : m.agent = a => m.version = read.version + 1 \/ \E p \in manual : p.agent = a /\ p.version = m.version
    BY <2>6, <2>7, <2>9
  <2>16. /\ next \in manual'
         /\ \A p \in manual' : p.agent = a /\ p.version = next.version => p = next
         /\ \/ next.fits
            \/ \E x \in Instructions \cup ToolsConfig : Merge(read, New(read, c), row[a])[x] # New(read, c)[x]
    BY <2>1, <2>6, <2>7
  <2> QED
    BY <2>6, <2>11, <2>12, <2>13, <2>14, <2>15, <2>16 DEF ManualsFollow
<1> QED
  BY <1>3, <1>4

LEMMA UpdateCommitsKeeps ==
  ASSUME BuilderInv, NEW r \in Requests, UpdateCommits(r)
  PROVE  BuilderInv'
<1>1. PICK a, c, read, known : a = req[r].agent /\ c = req[r].for /\ read = req[r].read /\ known = req[r].keys
  OBVIOUS
<1>2. PICK soul, context : soul = Memory(a, "soul", read.version + 1, 0, "update") /\ context = Memory(a, "context", 0, read.version + 1, "update")
  OBVIOUS
<1>3. PICK e, d : e = New(read, c) /\ d = Merge(read, e, row[a])
  OBVIOUS
<1>4. /\ req[r].at = "locked" /\ c.do = "update" /\ req' = [req EXCEPT ![r] = Free] /\ holds' = [holds EXCEPT ![a] = "none"]
      /\ UNCHANGED <<asked, open, docs>>
      /\ \/ UNCHANGED <<row, manual, memory, excused>>
         \/ /\ row' = [row EXCEPT ![a] = d] /\ manual' = Manuals(a, read, c)
            /\ memory' = (IF Refreshes(c) THEN Upserted(Upserted(memory, known, soul), known, context) ELSE memory)
            /\ excused' = excused \cup SameName(r, c.name) \cup Overtaken(a, read)
                             \cup (IF TakesTools(c) /\ "rag" \in c.off THEN {<<"silenced", a>>} ELSE {})
                             \cup (IF Refreshes(c) THEN Doubled(memory, known, soul) \cup Doubled(memory, known, context) ELSE {})
  BY <1>1, <1>2, <1>3 DEF UpdateCommits, Doing, Answered, Releases
<1>5. /\ Working(r) /\ a \in Built /\ row[a].version > 0 /\ row[a] \in RowRecord /\ read \in RowRecord /\ c \in ChangeRecord
      /\ UpdateAccepts(read, c) /\ (c.name # "" => req[r].seen \subseteq {a})
      /\ \A m \in known : \E n \in memory : SameKey(n, m)
  BY Zenon, <1>1, <1>4, RequestStands DEF Working, RequestOk
<1>6. /\ holds[a] = r
      /\ \A m \in memory : m.agent = a => m.by = "memory" \/ \E n \in known : SameKey(m, n)
  BY <1>1, <1>4 DEF BuilderInv, RequestsOk, LockOk, Keys
<1>7. \A q \in Requests : req[q].at = "locked" /\ q # r => req[q].agent # a /\ req[q].agent \in Built
  BY <1>6 DEF BuilderInv, RequestsOk, LockOk, BuilderType, Working
<1>8. \A q \in Requests : req[q].at = "locked" /\ q # r => holds'[req[q].agent] = holds[req[q].agent]
  BY <1>4, <1>7 DEF BuilderInv, BuilderType
<1>9. holds' \in [Built -> Requests \cup {"none"}]
  BY <1>4 DEF BuilderInv, BuilderType
<1>10. excused \subseteq excused' /\ read.version + 1 \in Nat /\ read.version + 1 > 0
  <2>1. excused \subseteq excused'
    <3>1. \/ excused' = excused
          \/ excused' = excused \cup SameName(r, c.name) \cup Overtaken(a, read)
                             \cup (IF TakesTools(c) /\ "rag" \in c.off THEN {<<"silenced", a>>} ELSE {})
                             \cup (IF Refreshes(c) THEN Doubled(memory, known, soul) \cup Doubled(memory, known, context) ELSE {})
      BY <1>4, ZenonT(20)
    <3> QED
      BY <3>1, SMT
  <2>2. read.version \in Nat
    <3>1. read \in RowRecord
      BY Zenon, <1>5
    <3> QED
      BY <3>1 DEF RowRecord
  <2> QED
    BY <2>1, <2>2
(* The memories.                                                            *)
<1>11. /\ MemoryIsReadable' /\ memory' \subseteq MemoryRecord /\ IsFiniteSet(memory')
       /\ \A m \in memory : \E n \in memory' : SameKey(n, m)
       /\ \A m \in memory' : m.agent = a \/ \E n \in memory : SameKey(m, n) /\ n.by = m.by
  <2>1. CASE memory' = memory
    <3>1. \A m \in memory : SameKey(m, m)
      BY DEF SameKey
    <3> QED
      BY <1>10, <2>1, <3>1, MemoryStays
  <2>2. CASE /\ memory' = Upserted(Upserted(memory, known, soul), known, context)
             /\ Doubled(memory, known, soul) \cup Doubled(memory, known, context) \subseteq excused'
    <3>1. /\ soul \in MemoryRecord /\ soul.agent = a /\ soul.key = "soul" /\ soul.v = read.version + 1 /\ soul.says = 0 /\ soul.by = "update"
          /\ context \in MemoryRecord /\ context.agent = a /\ context.key = "context" /\ context.says = read.version + 1 /\ context.by = "update"
      BY Zenon, <1>2, <1>5, <1>10 DEF Memory, MemoryRecord
    <3>2. PICK mid : mid = Upserted(memory, known, soul)
      OBVIOUS
    <3>3. memory \subseteq MemoryRecord /\ IsFiniteSet(memory)
      BY DEF BuilderInv, BuilderType
    <3>4. /\ mid \subseteq MemoryRecord /\ IsFiniteSet(mid)
          /\ \A m \in memory : \E n \in mid : SameKey(n, m)
          /\ \E n \in mid : SameKey(n, soul)
          /\ \A n \in mid : \/ SameKey(n, soul) /\ n.by = soul.by /\ n.says = soul.says
                            \/ \E m \in memory : SameKey(n, m) /\ n.by = m.by /\ (n.says = m.says \/ (n.says = soul.says /\ SameKey(n, soul)))
          /\ \A b : OneEach(memory, b) /\ (soul.agent = b /\ Found(known, soul) = {} => Found(memory, soul) = {}) => OneEach(mid, b)
      <4>1. LET up == Upserted(memory, known, soul) IN
          /\ up \subseteq MemoryRecord /\ IsFiniteSet(up)
          /\ \A m \in memory : \E n \in up : SameKey(n, m)
          /\ \E n \in up : SameKey(n, soul)
          /\ \A n \in up : \/ SameKey(n, soul) /\ n.by = soul.by /\ n.says = soul.says
                           \/ \E m \in memory : SameKey(n, m) /\ n.by = m.by /\ (n.says = m.says \/ (n.says = soul.says /\ SameKey(n, soul)))
          /\ \A b : OneEach(memory, b) /\ (soul.agent = b /\ Found(known, soul) = {} => Found(memory, soul) = {}) => OneEach(up, b)
        BY Zenon, <1>5, <3>1, <3>3, UpsertedMemory
      <4> QED
        BY <3>2, <4>1
    <3>5. \A m \in known : \E n \in mid : SameKey(n, m)
      <4>1. ASSUME NEW m \in known
            PROVE  \E n \in mid : SameKey(n, m)
        <5>1. PICK o \in memory : SameKey(o, m)
          BY Zenon, <1>5
        <5>2. PICK n \in mid : SameKey(n, o)
          BY <3>4
        <5> QED
          BY <5>1, <5>2 DEF SameKey
      <4> QED
        BY <4>1
    <3>6. memory' = Upserted(mid, known, context)
      BY <2>2, <3>2
    <3>7. /\ memory' \subseteq MemoryRecord /\ IsFiniteSet(memory')
          /\ \A m \in mid : \E n \in memory' : SameKey(n, m)
          /\ \A n \in memory' : \/ SameKey(n, context) /\ n.by = context.by /\ n.says = context.says
                                \/ \E m \in mid : SameKey(n, m) /\ n.by = m.by /\ (n.says = m.says \/ (n.says = context.says /\ SameKey(n, context)))
          /\ \A b : OneEach(mid, b) /\ (context.agent = b /\ Found(known, context) = {} => Found(mid, context) = {}) => OneEach(memory', b)
      BY <3>1, <3>4, <3>5, <3>6, UpsertedMemory
    <3>8. SoulsLinked(memory')
      <4>1. SoulsLinked(memory)
        BY ReadableIs DEF BuilderInv, BuiltAsAgreed
      <4>2. SoulsLinked(mid)
        BY Zenon, <1>5, <3>1, <3>2, <3>3, <4>1, UpsertedLinks
      <4>3. \E n \in mid : n.agent = context.agent /\ n.key = "soul" /\ n.v = context.says
        BY <3>1, <3>4 DEF SameKey
      <4> QED
        BY <3>1, <3>4, <3>5, <3>6, <4>2, <4>3, UpsertedLinks
    <3>9. ASSUME NEW b \in Built, ~(Excused(b, {"doubled"}))'
          PROVE  OneEach(memory', b)
      <4>1. OneEach(memory, b)
        BY <1>10, <3>9, ExcusesStay, ReadableIs DEF BuilderInv, BuiltAsAgreed
      <4>2. ASSUME NEW new \in {soul, context}, new.agent = b, Found(known, new) = {}, Found(memory, new) # {}
            PROVE  FALSE
        <5>1. PICK m \in memory : SameKey(m, new)
          BY <4>2 DEF Found
        <5>2. m.by = "memory"
          <6>1. m.agent = a
            BY <3>1, <4>2, <5>1 DEF SameKey
          <6>2. ~\E n \in known : SameKey(m, n)
            BY <4>2, <5>1 DEF Found, SameKey
          <6> QED
            BY <1>6, <6>1, <6>2
        <5>3. m \in Found(memory, new)
          BY <5>1 DEF Found
        <5>4. <<"doubled", b>> \in Doubled(memory, known, new)
          BY <4>2, <5>2, <5>3 DEF Doubled
        <5>5. <<"doubled", b>> \in excused'
          BY <2>2, <4>2, <5>4
        <5> QED
          BY <3>9, <5>5 DEF Excused
      <4>3. OneEach(mid, b)
        BY <3>4, <4>1, <4>2
      <4>4. context.agent = b /\ Found(known, context) = {} => Found(mid, context) = {}
        <5>1. SUFFICES ASSUME context.agent = b, Found(known, context) = {}, NEW n \in Found(mid, context)
                       PROVE  FALSE
          OBVIOUS
        <5>2. n \in mid /\ SameKey(n, context) /\ ~SameKey(n, soul)
          BY <3>1 DEF Found, SameKey
        <5>3. PICK m \in memory : SameKey(n, m)
          BY <3>4, <5>2
        <5>4. m \in Found(memory, context)
          BY <5>2, <5>3 DEF Found, SameKey
        <5> QED
          BY <4>2, <5>1, <5>4
      <4> QED
        BY <3>7, <4>3, <4>4
    <3>10. MemoryIsReadable'
      BY <3>8, <3>9, ReadableIs
    <3>11. \A m \in memory : \E n \in memory' : SameKey(n, m)
      <4>1. ASSUME NEW m \in memory
            PROVE  \E n \in memory' : SameKey(n, m)
        <5>1. PICK o \in mid : SameKey(o, m)
          BY <3>4
        <5>2. PICK n \in memory' : SameKey(n, o)
          BY <3>7
        <5> QED
          BY <5>1, <5>2 DEF SameKey
      <4> QED
        BY <4>1
    <3>12. \A m \in memory' : m.agent = a \/ \E n \in memory : SameKey(m, n) /\ n.by = m.by
      <4>1. ASSUME NEW m \in memory', m.agent # a
            PROVE  \E n \in memory : SameKey(m, n) /\ n.by = m.by
        <5>1. PICK o \in mid : SameKey(m, o) /\ m.by = o.by
          BY <3>1, <3>7, <4>1 DEF SameKey
        <5>2. PICK n \in memory : SameKey(o, n) /\ o.by = n.by
          BY <3>1, <3>4, <4>1, <5>1 DEF SameKey
        <5> QED
          BY <5>1, <5>2 DEF SameKey
      <4> QED
        BY <4>1
    <3> QED
      BY <3>7, <3>10, <3>11, <3>12
  <2>3. CASE UNCHANGED <<row, manual, memory, excused>>
    BY <2>1, <2>3
  <2> QED
    BY <1>4, <2>1, <2>2, <2>3
(* The rows and the manuals.                                                *)
<1>12. /\ row' \in [Built -> RowRecord] /\ row'[a].version > 0 /\ \A b \in Built : b # a => row'[b] = row[b]
       /\ RowsOk' /\ ManualsOk' /\ ContractsHold' /\ ManualIsCurrent' /\ DocumentsAreSearched' /\ NamesAreTheirOwn'
       /\ manual' \subseteq ManualRecord
  <2>1. CASE UNCHANGED <<row, manual, memory, excused>>
    <3>1. \A m \in memory' : \E n \in memory : n.agent = m.agent
      BY <2>1
    <3> QED
      BY Zenon, <1>4, <1>5, <1>10, <2>1, <3>1, RowsStay DEF BuilderInv, BuilderType
  <2>2. CASE /\ row' = [row EXCEPT ![a] = d] /\ manual' = Manuals(a, read, c)
             /\ excused' = excused \cup SameName(r, c.name) \cup Overtaken(a, read)
                             \cup (IF TakesTools(c) /\ "rag" \in c.off THEN {<<"silenced", a>>} ELSE {})
                             \cup (IF Refreshes(c) THEN Doubled(memory, known, soul) \cup Doubled(memory, known, context) ELSE {})
    <3>1. PICK f : f = Changed(read, c)
      OBVIOUS
    <3>2. /\ f \in RowRecord /\ f.name = (IF c.name = "" THEN read.name ELSE c.name)
          /\ ("rag" \in read.tools /\ ~(TakesTools(c) /\ "rag" \in c.off) => "rag" \in f.tools)
      BY Zenon, <1>5, <3>1, ChangedRow
    <3>3. /\ e \in RowRecord /\ e.version = read.version + 1
          /\ e.name = f.name /\ e.says = f.says /\ e.keeps = f.keeps /\ e.tools = f.tools
          /\ (~WorkflowIsTouched(read, c) => e.says = read.says /\ e.keeps = read.keeps /\ e.tools = read.tools)
      BY Zenon, <1>3, <1>5, <3>1, NewRow
    <3>4. /\ d \in RowRecord /\ d.live = row[a].live /\ d.version = read.version + 1
          /\ d.name = (IF e.name = read.name THEN row[a].name ELSE e.name)
          /\ (row[a].says = read.says /\ row[a].block = read.block /\ row[a].keeps = read.keeps =>
                d.says = e.says /\ d.block = e.block /\ d.keeps = e.keeps)
          /\ (row[a].tools = read.tools /\ row[a].told = read.told => d.tools = e.tools /\ d.told = e.told)
      <4>1. read \in RowRecord /\ e \in RowRecord /\ row[a] \in RowRecord
        BY Zenon, <1>5, <3>3
      <4>2. LET m == Merge(read, e, row[a]) IN
            /\ m \in RowRecord /\ m.live = row[a].live /\ m.version = e.version
            /\ m.name = IF e.name = read.name THEN row[a].name ELSE e.name
            /\ e.says = read.says /\ e.block = read.block /\ e.keeps = read.keeps =>
                  m.says = row[a].says /\ m.block = row[a].block /\ m.keeps = row[a].keeps
            /\ row[a].says = read.says /\ row[a].block = read.block /\ row[a].keeps = read.keeps =>
                  m.says = e.says /\ m.block = e.block /\ m.keeps = e.keeps
            /\ e.tools = read.tools /\ e.told = read.told => m.tools = row[a].tools /\ m.told = row[a].told
            /\ row[a].tools = read.tools /\ row[a].told = read.told => m.tools = e.tools /\ m.told = e.told
        BY <4>1, MergedRow
      <4> QED
        BY <1>3, <3>3, <4>2
    <3>5. \/ (Excused(a, {"overtaken"}))' /\ (Excused(a, {"patched", "overtaken"}))' /\ (Excused(a, {"patched", "overtaken", "silenced"}))'
             /\ (Excused(a, {"overtaken", "numbered"}))' /\ (Excused(a, {"patched", "overtaken", "numbered"}))'
          \/ /\ row[a].says = read.says /\ row[a].block = read.block /\ row[a].keeps = read.keeps
             /\ row[a].tools = read.tools /\ row[a].told = read.told /\ row[a].version <= read.version + 1
      <4>1. CASE Overtaken(a, read) = {}
        BY Zenon, <1>5, <4>1, NotOvertaken
      <4>2. CASE Overtaken(a, read) = {<<"overtaken", a>>}
        BY <2>2, <4>2 DEF Excused
      <4> QED
        BY <4>1, <4>2, OvertakenIs
    <3>6. d.live /\ ~(Excused(a, {"patched", "overtaken"}))' => Lacking(d.says, d.keeps, d.tools) = {}
      <4>1. SUFFICES ASSUME d.live, ~(Excused(a, {"patched", "overtaken"}))'
                     PROVE  Lacking(d.says, d.keeps, d.tools) = {}
        OBVIOUS
      <4>2. d.says = e.says /\ d.keeps = e.keeps /\ d.tools = e.tools
        BY <3>4, <3>5, <4>1
      <4>3. CASE WorkflowIsTouched(read, c)
        <5>1. Lacking(Texts(f), f.keeps, f.tools) = {}
          BY Zenon, <1>5, <3>1, <4>3 DEF UpdateAccepts, CriticalErrors
        <5>2. f.says \subseteq Texts(f)
          BY DEF Texts
        <5>3. Lacking(f.says, f.keeps, f.tools) = {}
          BY <5>1, <5>2, LackingShrinks
        <5> QED
          BY <3>3, <4>2, <5>3
      <4>4. CASE ~WorkflowIsTouched(read, c)
        <5>1. Lacking(row[a].says, row[a].keeps, row[a].tools) = {}
          BY Zenon, <1>5, <1>10, <3>4, <4>1, AsAgreed
        <5> QED
          BY <3>3, <3>5, <4>1, <4>2, <4>4, <5>1
      <4> QED
        BY <4>3, <4>4
    <3>7. a \in docs' => (Excused(a, {"patched", "overtaken", "silenced"}))' \/ "rag" \in d.tools
      <4>1. SUFFICES ASSUME a \in docs', ~(Excused(a, {"patched", "overtaken", "silenced"}))'
                     PROVE  "rag" \in d.tools
        OBVIOUS
      <4>2. "rag" \in row[a].tools
        BY Zenon, <1>4, <1>5, <1>10, <4>1, AsAgreed
      <4>3. ~(TakesTools(c) /\ "rag" \in c.off)
        <5>1. ~(<<"silenced", a>> \in excused')
          BY <4>1 DEF Excused
        <5> QED
          BY <2>2, <5>1
      <4> QED
        BY Zenon, <3>2, <3>3, <3>4, <3>5, <4>1, <4>2, <4>3
    <3>8. ASSUME NEW b \in Built, b # a, row[b].live, row[b].name = d.name
          PROVE  d.name = row[a].name \/ ((Excused(a, {"raced"}))' /\ (Excused(b, {"raced"}))')
      <4>1. CASE c.name = "" \/ e.name = read.name
        BY Zenon, <3>2, <3>3, <3>4, <4>1
      <4>2. CASE c.name # "" /\ e.name # read.name
        <5>1. d.name = c.name
          BY Zenon, <3>2, <3>3, <3>4, <4>2
        <5>2. b \in Taken(r, c.name)
          BY Zenon, <1>1, <1>5, <3>8, <4>2, <5>1 DEF Taken, Named
        <5>3. <<"raced", a>> \in SameName(r, c.name) /\ <<"raced", b>> \in SameName(r, c.name)
          BY <1>1, <5>2 DEF SameName
        <5> QED
          BY <2>2, <5>3 DEF Excused
      <4> QED
        BY Zenon, <4>1, <4>2
    <3>9. /\ manual' \subseteq ManualRecord /\ (\A m : m.agent # a => (m \in manual' <=> m \in manual))
          /\ (\E n \in Nat : \A m \in manual' : m.version <= n)
          /\ ((\E m \in manual : m.agent = a) => \E m \in manual' : m.agent = a)
          /\ (\A m \in manual' : m.agent = a => m.version = read.version + 1 \/ \E n \in manual : n.agent = a /\ n.version = m.version)
          /\ \/ manual' = manual /\ ~WorkflowIsTouched(read, c) /\ ~AsksManual(c)
             \/ \E m \in manual' : /\ m.agent = a /\ m.version = read.version + 1
                                   /\ \A n \in manual' : n.agent = a /\ n.version = m.version => n = m
                                   /\ \/ m.fits
                                      \/ \E x \in Instructions \cup ToolsConfig : Merge(read, New(read, c), row[a])[x] # New(read, c)[x]
      <4>1. manual' = Manuals(a, read, c)
        BY <2>2
      <4>2. read \in RowRecord /\ c \in ChangeRecord /\ a \in Built
        BY Zenon, <1>5
      <4>3. ManualsFollow(a, read, c)
        BY <4>1, <4>2, UpdatedManuals
      <4> QED
        BY <4>3 DEF ManualsFollow
    <3>10. d.live => \E m \in manual' : m.agent = a
      BY Zenon, <1>5, <3>4, <3>9 DEF BuilderInv, ManualsOk
    <3>11. d.live => (Excused(a, {"overtaken", "numbered"}))' \/ \A m \in manual' : m.agent = a => m.version <= d.version
      <4>1. SUFFICES ASSUME d.live, ~(Excused(a, {"overtaken", "numbered"}))', NEW m \in manual', m.agent = a
                     PROVE  m.version <= d.version
        OBVIOUS
      <4>2. \A n \in manual : n.agent = a => n.version <= row[a].version
        <5>1. ~Excused(a, {"overtaken", "numbered"})
          BY <1>10, <4>1, ExcusesStay
        <5> QED
          BY Zenon, <1>5, <3>4, <4>1, <5>1 DEF BuilderInv, ManualsOk
      <4>3. CASE m.version = read.version + 1
        BY <1>10, <3>4, <4>3
      <4>4. CASE \E n \in manual : n.agent = a /\ n.version = m.version
        <5>1. PICK n \in manual : n.agent = a /\ n.version = m.version
          BY <4>4
        <5>2. n.version <= row[a].version /\ row[a].version <= d.version
          BY <3>4, <3>5, <4>1, <4>2, <5>1
        <5>3. n.version \in Nat /\ row[a].version \in Nat /\ d.version \in Nat
          BY Zenon, <1>5, <3>4 DEF BuilderInv, BuilderType, ManualRecord, RowRecord
        <5> QED
          BY <5>1, <5>2, <5>3
      <4> QED
        BY <3>9, <4>1, <4>3, <4>4
    <3>12. d.live => (Excused(a, {"patched", "overtaken", "numbered"}))' \/ \A m \in LatestOf(manual', a) : m.fits \/ m.state = "review"
      <4>1. SUFFICES ASSUME d.live, ~(Excused(a, {"patched", "overtaken", "numbered"}))', NEW m \in LatestOf(manual', a)
                     PROVE  m.fits \/ m.state = "review"
        OBVIOUS
      <4>2. CASE manual' = manual
        <5>1. m \in Latest(a) /\ ~Excused(a, {"patched", "overtaken", "numbered"})
          BY <1>10, <4>1, <4>2, ExcusesStay, LatestIs
        <5> QED
          BY Zenon, <1>5, <3>4, <4>1, <5>1 DEF BuilderInv, BuiltAsAgreed, ManualIsCurrent
      <4>3. ASSUME NEW p \in manual', p.agent = a, p.version = read.version + 1,
                   \A n \in manual' : n.agent = a /\ n.version = p.version => n = p,
                   \/ p.fits
                   \/ \E x \in Instructions \cup ToolsConfig : Merge(read, New(read, c), row[a])[x] # New(read, c)[x]
            PROVE  m.fits
        <5>1. m \in manual' /\ m.agent = a /\ p.version <= m.version
          BY <4>1, <4>3 DEF LatestOf
        <5>2. ~(Excused(a, {"overtaken", "numbered"}))'
          BY <4>1 DEF Excused
        <5>3. m.version <= d.version
          BY <3>11, <4>1, <5>1, <5>2
        <5>4. m.version = p.version
          BY <1>10, <3>4, <3>9, <4>3, <5>1, <5>3 DEF ManualRecord
        <5>5. m = p
          BY <4>3, <5>1, <5>4
        <5>6. \A x \in Instructions \cup ToolsConfig : d[x] = e[x]
          BY <3>4, <3>5, <4>1 DEF Instructions, ToolsConfig
        <5> QED
          BY <1>3, <4>3, <5>5, <5>6
      <4> QED
        BY <3>9, <4>2, <4>3
    <3>13. /\ d.version > 0 /\ docs' \subseteq docs \cup {a} /\ memory' \subseteq MemoryRecord
           /\ \A m \in memory' : m.agent = a \/ \E n \in memory : n.agent = m.agent
      <4>1. d.version > 0
        <5>1. d.version = read.version + 1
          BY <3>4
        <5> QED
          BY <1>10, <5>1
      <4>2. docs' \subseteq docs \cup {a}
        BY <1>4
      <4>3. \A m \in memory' : m.agent = a \/ \E n \in memory : n.agent = m.agent
        BY <1>11 DEF SameKey
      <4> QED
        BY <1>11, <4>1, <4>2, <4>3
    <3>14. d.live => \A b \in Built : b # a /\ row[b].live /\ row[b].name = d.name =>
                         \/ row[a].live /\ row[a].name = d.name
                         \/ (Excused(a, {"raced"}))' /\ (Excused(b, {"raced"}))'
      BY <3>4, <3>8
    <3>15. row' = [row EXCEPT ![a] = d]
      BY <2>2
    <3>16. /\ row' \in [Built -> RowRecord] /\ row'[a] = d /\ \A b \in Built : b # a => row'[b] = row[b]
           /\ RowsOk' /\ ManualsOk' /\ ContractsHold' /\ ManualIsCurrent' /\ DocumentsAreSearched' /\ NamesAreTheirOwn'
      BY Zenon, <1>5, <1>10, <3>4, <3>6, <3>7, <3>9, <3>10, <3>11, <3>12, <3>13, <3>14, <3>15, RowWritten
    <3> QED
      BY <3>9, <3>13, <3>16
  <2> QED
    BY <1>4, <2>1, <2>2
<1>13. \A q \in Requests, m \in memory' : req[q].at = "locked" /\ q # r /\ m.agent = req[q].agent =>
           m.by = "memory" \/ \E n \in memory : SameKey(m, n) /\ n.by # "memory"
  BY <1>7, <1>11
<1>14. /\ RequestsOk' /\ req' \in [Requests -> RequestRecord]
       /\ \A q \in Requests : (IF Working(q) THEN req[q].agent \in Built /\ req[q].for.do \in Deeds ELSE req[q] = Free)'
  <2>1. open' = open /\ \A m \in memory : \E n \in memory' : SameKey(n, m)
    BY <1>4, <1>11
  <2> QED
    BY Zenon, <1>1, <1>4, <1>5, <1>8, <1>12, <1>13, <2>1, AnsweredKeeps
<1>15. BuilderType'
  BY <1>4, <1>9, <1>11, <1>12, <1>14 DEF BuilderInv, BuilderType
<1> QED
  BY <1>11, <1>12, <1>14, <1>15 DEF BuilderInv, BuiltAsAgreed

LEMMA BuilderStarts ==
  ASSUME BuilderInit
  PROVE  BuilderInv
<1>1. /\ \A a \in Built : row[a] = NoRow /\ holds[a] = "none"
      /\ row = [a \in Built |-> NoRow] /\ manual = {} /\ memory = {} /\ docs = {} /\ holds = [a \in Built |-> "none"]
      /\ req = [r \in Requests |-> Free] /\ open \in BOOLEAN
  BY DEF BuilderInit
<1>2. IsFiniteSet(memory)
  BY <1>1, FS_EmptySet
<1>3. BuilderType
  BY <1>1, <1>2, FreeTyped, NoRowTyped DEF BuilderType, Working
<1>4. RowsOk
  BY <1>1 DEF RowsOk
<1>5. ManualsOk
  <2>1. \A m \in manual : m.version <= 0
    BY <1>1
  <2> QED
    BY <1>1, <2>1, NoRowTyped DEF ManualsOk
<1>6. RequestsOk
  BY <1>1, FreeTyped DEF RequestsOk, Working
<1>7. ContractsHold /\ ManualIsCurrent
  BY <1>1, NoRowTyped DEF ContractsHold, ManualIsCurrent
<1>8. MemoryIsReadable
  BY <1>1 DEF MemoryIsReadable, Keys
<1>9. DocumentsAreSearched /\ NamesAreTheirOwn
  BY <1>1, NoRowTyped DEF DocumentsAreSearched, NamesAreTheirOwn
<1> QED
  BY <1>3, <1>4, <1>5, <1>6, <1>7, <1>8, <1>9 DEF BuilderInv, BuiltAsAgreed

LEMMA BuilderStepKeeps ==
  ASSUME BuilderInv, [BuilderNext]_builderVars
  PROVE  BuilderInv'
<1>1. CASE UNCHANGED builderVars
  <2>1. UNCHANGED <<row, manual, memory, docs, holds, req, asked, open, excused>>
    BY <1>1 DEF builderVars
  <2>2. BuilderType'
    BY <2>1 DEF BuilderInv, BuilderType, Working
  <2>3. \A q \in Requests, x \in RequestRecord : (Working(q) /\ x = req[q] => RequestOk(x))'
    BY <2>1, SameAgents DEF BuilderInv, RequestsOk, Working
  <2>4. RequestsOk'
    BY <2>1, <2>3 DEF BuilderInv, RequestsOk, LockOk, Keys, Working
  <2> QED
    BY <2>1, <2>2, <2>4, SameAgents DEF BuilderInv
<1>2. ASSUME NEW r \in Requests, Hears(r) \/ Settles(r)
      PROVE  BuilderInv'
  <2>1. CASE Hears(r)
    BY <2>1, HearsKeeps
  <2>2. CASE Settles(r)
    BY <2>2, CreateCommitsKeeps, LocksKeeps, UpdateCommitsKeeps, KnowledgeCommitsKeeps, SetMemoryCommitsKeeps, DeleteAgentCommitsKeeps,
       PatchCommitsKeeps DEF Settles
  <2> QED
    BY <1>2, <2>1, <2>2
<1> QED
  BY <1>1, <1>2 DEF BuilderNext

(* However Arthur's calls and the API's interleave (builder_update_tools.py, *)
(* builder_management_tools.py, agents.py), a live agent keeps the contracts *)
(* and tools its workflows were accepted with, its latest manual belongs to  *)
(* its configuration or asks for a review, its memories have one row per key *)
(* and the soul their version points to, its documents are searched, and its *)
(* name is its owner's only one, except where the formulas' excuses name a   *)
(* call that came between or a PATCH that checks nothing.                    *)
THEOREM AgentsStayAsAgreed == BuilderSpec => []BuiltAsAgreed
<1>1. BuilderInit => BuilderInv
  BY BuilderStarts
<1>2. BuilderInv /\ [BuilderNext]_builderVars => BuilderInv'
  BY BuilderStepKeeps
<1>3. BuilderInv => BuiltAsAgreed
  BY DEF BuilderInv
<1> QED
  BY <1>1, <1>2, <1>3, PTL DEF BuilderSpec

-----------------------------------------------------------------------------
(* What a run is told of the chat.                                         *)
Stages == {"new", "waiting", "summing", "asking", "running", "written", "done", "mute", "blocked", "failed", "cancelled", "lost",
           "abandoned", "dropped"}
ChatRows == [by : Chatting \cup {NoRun}, who : {"user", "agent", "assistant"}, step : Nat, time : Nat]
Metas == [sum : SUBSET Nat, at : Nat]
Copies == [copy : Metas, time : Nat]
Views == [sum : SUBSET Nat, read : SUBSET Nat, left : SUBSET Nat, base : Nat, active : CustomerTurns \cup {NoRun},
          was : Stages \cup {"none"}]
Outs == [rows : Said, lines : SUBSET CustomerTurns, behind : SUBSET CustomerTurns]
HistoryShape ==
    /\ chat \in Seq(ChatRows) /\ gone \in Nat /\ gone <= Len(chat)
    /\ meta \in Metas /\ desk \subseteq Metas
    /\ durable \in [active : CustomerTurns \cup {NoRun}, lines : SUBSET CustomerTurns]
    /\ stage \in [Chatting -> Stages]
    /\ own \in [Chatting -> Copies]
    /\ seen \in [Chatting -> Views]
    /\ out \in [Chatting -> Outs]
    /\ dirty \subseteq Chatting /\ overlapped \in BOOLEAN /\ hidden \in BOOLEAN /\ carried \in BOOLEAN

\* Runs that are over know nothing any more.
OverKnowNothing == \A r \in Chatting : stage[r] \notin UnderWay => own[r].copy.sum = {} /\ seen[r].sum = {}
\* No summary anywhere holds a deleted row.
Remains(S) == \A i \in S : i > gone \/ i \in Whole
CopiesForget ==
    carried \/ /\ Remains(meta.sum) /\ \A m \in desk : Remains(m.sum)
               /\ \A r \in Chatting : Remains(own[r].copy.sum) /\ Remains(seen[r].sum)

\* Whose rows there can be: none before a run has stored its message, answers
\* of those that are done, and of these an answer after each message.
Unstored == {"new", "waiting", "summing", "asking", "dropped"}
AnswerTo(i, j) == j > i /\ chat[j].by = chat[i].by /\ chat[j].who = "agent" /\ chat[j].step > chat[i].step
RowsHaveRuns ==
    \A i \in DOMAIN chat : LET q == chat[i].by IN
        IF q = NoRun THEN chat[i].who = "agent"
        ELSE /\ q \in Chatting /\ stage[q] \notin Unstored
             /\ chat[i].who = "agent" => stage[q] = "done"
             /\ stage[q] \in {"running", "written"} => chat[i].step = seen[q].base
             /\ chat[i].who = "user" /\ stage[q] = "done" => \E j \in DOMAIN chat : AnswerTo(i, j)

\* Unless runs overlapped, one run at a time is between its reading and its saving.
OneBetween == overlapped \/ \A q, r \in Chatting : stage[q] \in Between /\ stage[r] \in Between => q = r
LinesAreKept ==
    overlapped \/ \A t \in CustomerTurns : stage[t] \in {"done", "mute"} =>
        t \in durable.lines /\ \A r \in Chatting : stage[r] = "written" => t \in out[r].lines

Calm == ~Noted /\ ~overlapped /\ ~hidden
\* The rows that count are read back in the order of their commits, and the
\* next row of a run comes after all of them.
InOrder == Calm => \A i, j \in Alive : i < j => Before(i, j)
ComesNext ==
    Calm => \A r \in Chatting : stage[r] \in Between =>
        \A i \in Alive : chat[i].by = r \/ chat[i].step < seen[r].base
\* The last answered turn of the customer is the one active_context is about,
\* unless that one left no text.
ActiveIsMute == \E q \in CustomerTurns : q = durable.active /\ stage[q] = "mute"
LastIsActive ==
    Calm => \A i \in Alive : chat[i].who = "agent" /\ chat[i].by \in CustomerTurns =>
                ActiveIsMute \/ \E j \in Alive : j >= i /\ chat[j].who = "agent" /\ chat[j].by = durable.active
ReadRowsStay == \A r \in Chatting : HasRead(r) => seen[r].read \subseteq DOMAIN chat
StepsBounded == \E b \in Nat : \A i \in DOMAIN chat : chat[i].step <= b
HistorySpec == HistoryInit /\ [][HistoryNext]_historyVars

(* What concerns the rows, whoever holds summaries of them.                 *)
OfRows == /\ RowsHaveRuns /\ OneBetween /\ LinesAreKept /\ InOrder /\ ComesNext /\ LastIsActive /\ ReadRowsStay
          /\ StepsBounded /\ ReadsTheLast /\ CancelledIsTrue /\ ActiveIsLatest
HistoryInv == HistoryShape /\ OverKnowNothing /\ CopiesForget /\ OfRows

LEMMA RowTypes ==
  ASSUME chat \in Seq(ChatRows)
  PROVE  /\ DOMAIN chat = 1 .. Len(chat) /\ Len(chat) \in Nat
         /\ \A i \in DOMAIN chat : /\ chat[i] \in ChatRows /\ i \in Nat /\ chat[i].step \in Nat /\ chat[i].time \in Nat
                                /\ chat[i].by \in Chatting \cup {NoRun} /\ chat[i].who \in {"user", "agent", "assistant"}
<1>1. DOMAIN chat = 1 .. Len(chat) /\ Len(chat) \in Nat
  OBVIOUS
<1>2. \A i \in DOMAIN chat : chat[i] \in ChatRows
  OBVIOUS
<1>3. \A x \in ChatRows : /\ x.step \in Nat /\ x.time \in Nat /\ x.by \in Chatting \cup {NoRun}
                     /\ x.who \in {"user", "agent", "assistant"}
  BY DEF ChatRows
<1> QED BY <1>1, <1>2, <1>3

LEMMA ChatThere == HistoryShape => chat \in Seq(ChatRows) /\ gone \in Nat /\ gone <= Len(chat)
BY DEF HistoryShape

(* The order in which rows are read back.                                   *)
LEMMA BeforeOrders ==
  ASSUME HistoryShape
  PROVE  /\ \A i, j, k \in DOMAIN chat : Before(i, j) /\ Before(j, k) => Before(i, k)
         /\ \A i, j \in DOMAIN chat : i # j => Before(i, j) \/ Before(j, i)
         /\ \A i, j \in DOMAIN chat : Before(i, j) => chat[i].step <= chat[j].step /\ ~Before(j, i)
<1>1. /\ DOMAIN chat = 1 .. Len(chat) /\ Len(chat) \in Nat
      /\ \A i \in DOMAIN chat : chat[i].step \in Nat /\ chat[i].time \in Nat /\ i \in Nat
  BY RowTypes, ChatThere
<1> QED BY SMTT(30), <1>1 DEF Before

LEMMA RowsThere ==
  ASSUME HistoryShape
  PROVE  /\ DOMAIN chat = 1 .. Len(chat) /\ Len(chat) \in Nat /\ Present \subseteq DOMAIN chat
         /\ Present \subseteq Nat /\ Alive \subseteq Kept /\ Kept \subseteq Present /\ IsFiniteSet(Present)
         /\ \A i \in DOMAIN chat : chat[i] \in ChatRows /\ i \in Nat
         /\ \A i \in Present : i > gone
         /\ \A i \in DOMAIN chat : i > gone => i \in Present
<1>1. DOMAIN chat = 1 .. Len(chat) /\ Len(chat) \in Nat /\ gone \in Nat
  BY RowTypes, ChatThere
<1>2. IsFiniteSet(Present)
  BY <1>1, FS_Interval DEF Present
<1> QED BY <1>1, <1>2, RowTypes, ChatThere DEF Present, Alive, Kept

LEMMA NewestUpward ==
  ASSUME HistoryShape, NEW n \in Nat, NEW i \in Newest(Kept, n), NEW j \in Kept, Before(i, j)
  PROVE  j \in Newest(Kept, n)
<1> DEFINE After(k) == {m \in Kept : Before(k, m)}
<1>1. Kept \subseteq DOMAIN chat /\ IsFiniteSet(Kept)
  BY RowsThere, FS_Subset
<1>2. After(j) \subseteq After(i) /\ After(i) \subseteq Kept /\ i \in Kept
  BY <1>1, BeforeOrders DEF Newest
<1>3. IsFiniteSet(After(i)) /\ IsFiniteSet(After(j))
  BY <1>1, <1>2, FS_Subset
<1>4. Cardinality(After(j)) <= Cardinality(After(i)) /\ Cardinality(After(i)) \in Nat /\ Cardinality(After(j)) \in Nat
  BY <1>2, <1>3, FS_Subset, FS_CardinalityType
<1>5. Cardinality(After(i)) < n
  BY DEF Newest
<1> QED BY <1>4, <1>5 DEF Newest

LEMMA WindowUpward ==
  ASSUME HistoryShape, NEW n \in Nat, NEW i \in Window(n), NEW j \in Alive, Before(i, j)
  PROVE  j \in Window(n)
BY NewestUpward, RowsThere DEF Window, Alive

LEMMA WindowPart == \A n : Window(n) \subseteq Alive
BY DEF Window, Newest, Alive

(* The step after the last one read.                                        *)
LEMMA BaseIsNext ==
  ASSUME HistoryShape, NEW W, W \subseteq DOMAIN chat,
         NEW b \in Nat, \A i \in DOMAIN chat : chat[i].step <= b
  PROVE  Base(W) \in Nat /\ \A i \in W : chat[i].step < Base(W)
<1>1. CASE W = {}
  BY <1>1 DEF Base
<1>2. CASE W # {}
  <2> DEFINE S == {chat[i].step : i \in W}
             T == {b - chat[i].step : i \in W}
  <2>1. \A i \in W : chat[i].step \in Nat /\ chat[i].step <= b
    BY RowTypes, ChatThere
  <2>2. T \subseteq Nat /\ T # {}
    BY <1>2, <2>1
  <2> HIDE DEF T
  <2>3. PICK x \in T : \A y \in T : x <= y
    BY <2>2, LeastNumber
  <2> USE DEF T
  <2>4. PICK k \in W : x = b - chat[k].step
    OBVIOUS
  <2>5. \A i \in W : chat[i].step <= chat[k].step
    <3> TAKE i \in W
    <3>1. b - chat[i].step \in T
      OBVIOUS
    <3> QED BY <3>1, <2>1, <2>3, <2>4
  <2>6. \E s \in S : \A i \in W : chat[i].step <= s
    BY <2>5
  <2> DEFINE m == CHOOSE s \in S : \A i \in W : chat[i].step <= s
  <2>7. m \in S /\ \A i \in W : chat[i].step <= m
    BY <2>6
  <2>8. m \in Nat /\ Base(W) = 1 + m
    BY <2>7, <2>1, <1>2 DEF Base
  <2> HIDE DEF m
  <2> QED BY <2>7, <2>8, <2>1
<1> QED BY <1>1, <1>2

(* What a step keeps that touches neither rows nor memory.                  *)
LEMMA StageMoves ==
  ASSUME HistoryInv, NEW r \in Chatting, NEW to \in Stages, StepsTo(r, to),
         chat' = chat, gone' = gone, durable' = durable, overlapped' = overlapped, hidden' = hidden,
         stage[r] \notin {"done", "mute", "failed", "cancelled", "abandoned"}, to \notin {"asking", "done", "mute"},
         stage[r] \in Unstored <=> to \in Unstored,
         to \in {"running", "written"} => stage[r] \in {"running", "written"} /\ seen'[r].base = seen[r].base,
         \A x \in Chatting \ {r} : seen'[x] = seen[x] /\ out'[x] = out[x],
         to = "written" => out'[r].lines = durable.lines
  PROVE  OfRows'
<1> USE DEF HistoryInv, OfRows
<1>1. stage'[r] = to /\ \A x \in Chatting \ {r} : stage'[x] = stage[x]
  BY DEF StepsTo, HistoryShape
<1>2. DOMAIN chat = 1 .. Len(chat) /\ \A i \in DOMAIN chat : chat[i].by \in Chatting \cup {NoRun}
  BY RowTypes, ChatThere
<1>3. Alive' \subseteq Alive /\ \A i \in Alive : chat[i].who = "agent" => i \in Alive'
  <2>1. Present' = Present /\ Kept' = Kept /\ Kept \subseteq DOMAIN chat
    BY RowsThere DEF Present, Kept
  <2>2. \A i \in Kept : Dead(i) => Dead(i)'
    BY <1>1, <1>2, <2>1 DEF Dead
  <2>3. \A i \in Kept : chat[i].who = "agent" /\ Dead(i)' => Dead(i)
    BY <1>1, <1>2, <2>1 DEF Dead, RowsHaveRuns
  <2> QED BY <2>1, <2>2, <2>3 DEF Alive
<1>4. Noted' = Noted /\ Calm' = Calm /\ \A i, j : Before(i, j)' = Before(i, j)
  BY DEF Noted, Calm, Before
<1>5. \A x \in Chatting : HasRead(x)' => HasRead(x) /\ seen'[x] = seen[x]
  BY <1>1 DEF HasRead
<1>6. RowsHaveRuns'
  BY <1>1 DEF RowsHaveRuns, AnswerTo
<1>7. \A x \in Chatting : stage'[x] \in Between => stage[x] \in Between /\ seen'[x].base = seen[x].base
  BY <1>1 DEF Between
<1>8. OneBetween' /\ LinesAreKept'
  <2>1. OneBetween'
    BY <1>7 DEF OneBetween
  <2>2. ASSUME ~overlapped, NEW t \in CustomerTurns, stage'[t] \in {"done", "mute"}
        PROVE  t \in durable.lines /\ \A x \in Chatting : stage'[x] = "written" => t \in out'[x].lines
    <3>1. t \in Chatting /\ t # r /\ stage[t] \in {"done", "mute"}
      BY <2>2, <1>1 DEF Chatting
    <3>2. t \in durable.lines /\ \A x \in Chatting : stage[x] = "written" => t \in out[x].lines
      BY <3>1, <2>2 DEF LinesAreKept
    <3> QED BY <3>2, <1>1
  <2> QED BY <2>1, <2>2 DEF LinesAreKept
<1>9. InOrder' /\ ComesNext'
  BY <1>3, <1>4, <1>7 DEF InOrder, ComesNext
<1>0. \A x \in CustomerTurns : stage[x] = "mute" => stage'[x] = "mute"
  BY <1>1 DEF Chatting
<1>10. LastIsActive'
  BY <1>0, <1>3, <1>4 DEF LastIsActive, ActiveIsMute
<1>11. ReadRowsStay' /\ StepsBounded' /\ ReadsTheLast' /\ CancelledIsTrue'
  BY <1>4, <1>5 DEF ReadRowsStay, StepsBounded, ReadsTheLast, CancelledIsTrue
<1>12. ActiveIsLatest'
  BY <1>0, <1>4, <1>5 DEF ActiveIsLatest, TellsTheLast, AnswersRead
<1> QED BY <1>6, <1>8, <1>9, <1>10, <1>11, <1>12

LEMMA Reading ==
  ASSUME HistoryInv, NEW r \in Chatting, stage[r] \in {"waiting", "summing"}, NEW sum, ReadsBack(r, sum),
         chat' = chat, gone' = gone, durable' = durable, out' = out
  PROVE  OfRows' /\ seen' = [seen EXCEPT ![r] = seen'[r]] /\ StepsTo(r, "asking")
         /\ seen'[r].sum = sum /\ seen'[r].read \in SUBSET Nat /\ seen'[r].left \in SUBSET Nat /\ seen'[r].base \in Nat
         /\ seen'[r].active = durable.active /\ seen'[r].was \in Stages \cup {"none"}
<1> USE DEF HistoryInv, OfRows
<1> DEFINE n == IF sum = {} THEN Long ELSE Short
           W == Window(n)
<1>n. n \in Nat
  BY HistoryBounds
<1>1. /\ stage'[r] = "asking" /\ \A x \in Chatting \ {r} : stage'[x] = stage[x] /\ seen'[x] = seen[x]
      /\ seen'[r] = [sum |-> sum, read |-> W, left |-> Alive \ W, base |-> Base(W), active |-> durable.active, was |-> EndOf(W)]
      /\ seen' = [seen EXCEPT ![r] = seen'[r]]
  BY DEF ReadsBack, StepsTo, HistoryShape
<1>2. /\ DOMAIN chat = 1 .. Len(chat)
      /\ \A i \in DOMAIN chat : i \in Nat /\ chat[i].by \in Chatting \cup {NoRun} /\ chat[i].step \in Nat /\ chat[i].by # r
  BY RowTypes, ChatThere, HistoryBounds DEF RowsHaveRuns, Unstored, Chatting
<1>3. W \subseteq Alive /\ Alive \subseteq DOMAIN chat /\ Alive \subseteq Kept /\ Alive \subseteq Nat /\ Kept \subseteq DOMAIN chat
  BY WindowPart, RowsThere
<1> HIDE DEF n
<1>4. Alive' = Alive /\ Noted' = Noted /\ \A i, j : Before(i, j)' = Before(i, j)
  <2>1. Present' = Present /\ Kept' = Kept
    BY DEF Present, Kept
  <2>2. \A i \in Kept : Dead(i)' = Dead(i)
    BY <1>1, <1>2, <1>3 DEF Dead
  <2> QED BY <2>1, <2>2 DEF Alive, Noted, Before
<1>5. /\ overlapped' = (overlapped \/ \E q \in Chatting : stage[q] \in Between)
      /\ hidden' = (hidden \/ (W = {} /\ Alive # {}))
  BY DEF ReadsBack, n
<1> HIDE DEF W
<1>6. Calm' => Calm /\ (W = {} => Alive = {})
  BY <1>4, <1>5 DEF Calm
<1>7. Base(W) \in Nat /\ \A i \in W : chat[i].step < Base(W)
  BY BaseIsNext, <1>3 DEF StepsBounded
<1>8. \A i \in Alive \ W, j \in W : ~Before(j, i)
  BY WindowUpward, <1>n DEF W
<1>9. ASSUME Calm', NEW i \in Alive \ W, NEW j \in W PROVE i < j /\ Before(i, j)
  <2>1. Before(i, j) /\ i # j
    BY <1>3, <1>8, BeforeOrders
  <2>2. ~(j < i)
    BY <1>3, <1>6, <1>8, <1>9 DEF InOrder
  <2> QED BY <2>1, <2>2, <1>3
<1>10. Calm' => \A i \in Alive : chat[i].step < Base(W)
  <2> SUFFICES ASSUME Calm', NEW i \in Alive PROVE chat[i].step < Base(W)
    OBVIOUS
  <2>1. CASE i \in W
    BY <2>1, <1>7
  <2>2. CASE i \notin W
    <3>1. PICK j \in W : TRUE
      BY <1>6
    <3>2. chat[i].step <= chat[j].step
      BY <1>9, <2>2, BeforeOrders, <1>3
    <3> QED BY <3>2, <1>7, <1>2, <1>3
  <2> QED BY <2>1, <2>2
<1>11. RowsHaveRuns'
  BY <1>1, <1>2 DEF RowsHaveRuns, AnswerTo
<1>12. OneBetween' /\ LinesAreKept'
  <2>1. OneBetween'
    BY <1>1, <1>5 DEF OneBetween
  <2>2. \A x \in Chatting : stage'[x] \in {"done", "mute", "written"} => stage[x] = stage'[x]
    BY <1>1
  <2> QED BY <2>1, <2>2, <1>5 DEF LinesAreKept, Chatting
<1>21. \A x \in CustomerTurns : stage[x] = "mute" => stage'[x] = "mute"
  BY <1>1 DEF Chatting
<1>13. InOrder' /\ LastIsActive'
  BY <1>4, <1>6, <1>21 DEF InOrder, LastIsActive, ActiveIsMute
<1>14. ComesNext'
  <2> SUFFICES ASSUME Calm', NEW x \in Chatting, stage'[x] \in Between, NEW i \in Alive
               PROVE  chat[i].by = x \/ chat[i].step < seen'[x].base
    BY <1>4 DEF ComesNext, Between
  <2>1. x = r
    BY <1>1, <1>5 DEF Calm
  <2> QED BY <2>1, <1>1, <1>10
<1>15. ReadRowsStay' /\ StepsBounded'
  BY <1>1, <1>3 DEF ReadRowsStay, StepsBounded, HasRead
<1>16. ReadsTheLast'
  <2> SUFFICES ASSUME NEW x \in Chatting, HasRead(x)', ~(Noted \/ overlapped \/ hidden)'
               PROVE  /\ seen'[x].left # {} => seen'[x].read # {}
                      /\ \A i \in seen'[x].left, j \in seen'[x].read : i < j
    BY DEF ReadsTheLast
  <2>1. CASE x = r
    BY <2>1, <1>1, <1>4, <1>5, <1>6, <1>9 DEF Calm
  <2>2. CASE x # r
    BY <2>2, <1>1, <1>4, <1>5 DEF ReadsTheLast, HasRead
  <2> QED BY <2>1, <2>2
<1>17. EndOf(W) \in Stages \cup {"none"} /\ (EndOf(W) \in {"none", "cancelled", "lost", "blocked", "mute"} \/ overlapped')
  <2>1. CASE Unanswered(W) = {}
    BY <2>1 DEF EndOf
  <2>2. CASE Unanswered(W) # {}
    <3>1. PICK i \in Unanswered(W) : EndOf(W) = stage[chat[i].by]
      BY <2>2 DEF EndOf
    <3>2. i \in W /\ chat[i].who = "user" /\ \A j \in W \ {i} : Before(j, i)
      BY <3>1 DEF Unanswered
    <3>3. chat[i].by \in Chatting /\ ~Dead(i) /\ stage[chat[i].by] \notin Unstored
      BY <3>2, <1>2, <1>3 DEF RowsHaveRuns, Alive
    <3>4. stage[chat[i].by] \in Stages
      BY <3>3 DEF HistoryShape
    <3>5. stage[chat[i].by] \notin {"failed", "abandoned"}
      BY <3>3, HistoryBounds DEF Dead, Chatting
    <3>6. stage[chat[i].by] # "done"
      <4> SUFFICES ASSUME stage[chat[i].by] = "done" PROVE FALSE
        OBVIOUS
      <4>1. PICK j \in DOMAIN chat : AnswerTo(i, j)
        BY <3>2, <3>3, <1>3, HistoryBounds DEF RowsHaveRuns, Chatting
      <4>2. j \in Alive
        <5>1. j > gone
          <6>1. i \in Nat /\ i > gone /\ j \in Nat /\ gone \in Nat
            BY <3>2, <1>2, <1>3, RowsThere, ChatThere
          <6> QED BY <6>1, <4>1 DEF AnswerTo
        <5>2. j \in Kept
          BY <5>1, <4>1, RowsThere DEF AnswerTo, Kept
        <5>3. ~Dead(j)
          BY <4>1 DEF AnswerTo, Dead
        <5> QED BY <5>2, <5>3 DEF Alive
      <4>3. Before(i, j) /\ i # j
        BY <4>1, <1>2, <3>2, <1>3 DEF Before, AnswerTo
      <4>4. j \in W
        BY <4>2, <4>3, <3>2, WindowUpward, <1>n DEF W
      <4> QED BY <4>3, <4>4, <3>2, <1>3, BeforeOrders
    <3>7. stage[chat[i].by] \in {"running", "written"} => overlapped'
      BY <3>3, <1>5 DEF Between
    <3> QED BY <3>1, <3>3, <3>4, <3>5, <3>6, <3>7 DEF Stages, Unstored
  <2> QED BY <2>1, <2>2
<1>18. CancelledIsTrue'
  <2>1. ASSUME NEW x \in Chatting, HasRead(x)', x # r PROVE HasRead(x) /\ seen'[x] = seen[x]
    BY <2>1, <1>1 DEF HasRead
  <2>2. seen'[r].was = EndOf(W)
    BY <1>1
  <2> QED BY <2>1, <2>2, <1>5, <1>17 DEF CancelledIsTrue
<1>19. ActiveIsLatest'
  <2> SUFFICES ASSUME NEW x \in Chatting, HasRead(x)', ~(Noted \/ overlapped \/ hidden)',
                      ~ \E q \in CustomerTurns : q = seen'[x].active /\ stage'[q] = "mute"
               PROVE  TellsTheLast(x)'
    BY DEF ActiveIsLatest
  <2>0. AnswersRead(x)' = {i \in seen'[x].read : chat[i].who # "user" /\ chat[i].by \in CustomerTurns}
    BY DEF AnswersRead
  <2>1. ASSUME x = r, NEW i \in AnswersRead(x)', \A j \in AnswersRead(x)' : ~Before(i, j) PROVE chat[i].by = seen'[x].active
    <3>1. i \in W /\ i \in Alive /\ chat[i].who = "agent" /\ chat[i].by \in CustomerTurns /\ Calm /\ Calm' /\ seen'[x].active = durable.active
      <4>1. i \in W /\ chat[i].who # "user" /\ chat[i].by \in CustomerTurns /\ seen'[x].active = durable.active
        BY <2>0, <2>1, <1>1
      <4>2. Calm' /\ Calm
        BY <1>6 DEF Calm
      <4> QED BY <4>1, <4>2, <1>3 DEF Kept
    <3>2. PICK j \in Alive : j >= i /\ chat[j].who = "agent" /\ chat[j].by = durable.active
      BY <3>1, <1>21 DEF LastIsActive, ActiveIsMute
    <3>3. CASE j = i
      BY <3>3, <3>2, <3>1
    <3>4. CASE j # i
      <4>1. Before(i, j)
        BY <3>1, <3>2, <3>4, <1>3 DEF InOrder
      <4>2. j \in W
        BY <4>1, <3>1, WindowUpward, <1>n DEF W
      <4>3. chat[j].by \in CustomerTurns
        BY <3>1, <3>2, <1>3 DEF Calm, Noted, HistoryShape
      <4>4. j \in AnswersRead(x)'
        BY <4>2, <4>3, <3>2, <2>0, <2>1, <1>1
      <4> QED BY <4>1, <4>4, <2>1
    <3> QED BY <3>3, <3>4
  <2>2. CASE x # r
    <3>1. seen'[x] = seen[x] /\ HasRead(x) /\ ~(Noted \/ overlapped \/ hidden)
      BY <2>2, <1>1, <1>4, <1>5 DEF HasRead
    <3>2. ~ \E q \in CustomerTurns : q = seen[x].active /\ stage[q] = "mute"
      BY <3>1, <1>21
    <3>3. TellsTheLast(x)
      BY <3>1, <3>2 DEF ActiveIsLatest
    <3> QED BY <3>1, <3>3, <1>4 DEF TellsTheLast, AnswersRead
  <2> QED BY <2>1, <2>2, <1>4 DEF TellsTheLast
<1>20. StepsTo(r, "asking")
  BY DEF ReadsBack
<1> QED BY <1>1, <1>3, <1>7, <1>11, <1>12, <1>13, <1>14, <1>15, <1>16, <1>17, <1>18, <1>19, <1>20

LEMMA RowsUndisturbed ==
  ASSUME HistoryInv, UNCHANGED <<chat, gone, durable, stage, seen, out, overlapped, hidden>>
  PROVE  OfRows'
<1> USE DEF HistoryInv, OfRows
<1>1. Alive' = Alive /\ Noted' = Noted /\ Calm' = Calm /\ \A i, j : Before(i, j)' = Before(i, j)
  BY DEF Alive, Kept, Present, Dead, Noted, Calm, Before
<1>2. InOrder' /\ ComesNext' /\ LastIsActive'
  BY <1>1 DEF InOrder, ComesNext, LastIsActive, ActiveIsMute
<1>3. RowsHaveRuns' /\ OneBetween' /\ LinesAreKept' /\ ReadRowsStay' /\ StepsBounded'
  BY DEF RowsHaveRuns, AnswerTo, OneBetween, LinesAreKept, ReadRowsStay, HasRead, StepsBounded
<1>4. ReadsTheLast' /\ CancelledIsTrue' /\ ActiveIsLatest'
  BY <1>1 DEF ReadsTheLast, CancelledIsTrue, ActiveIsLatest, TellsTheLast, AnswersRead, HasRead
<1> QED BY <1>2, <1>3, <1>4

LEMMA UserMessagesCount == HistoryShape => UserMessages \in Nat
<1> SUFFICES ASSUME HistoryShape PROVE UserMessages \in Nat
  OBVIOUS
<1>1. IsFiniteSet({i \in Present : chat[i].who = "user"})
  BY RowsThere, FS_Subset
<1> QED BY <1>1, FS_CardinalityType DEF UserMessages

LEMMA SummaryRemains ==
  ASSUME HistoryShape, NEW n
  PROVE  Whole \cup Oldest(Alive, n) \in SUBSET Nat /\ Remains(Whole \cup Oldest(Alive, n))
BY RowsThere DEF Oldest, Remains, Whole

LEMMA BlankTypes ==
  /\ NoMeta \in Metas /\ NoMeta.sum = {} /\ Fresh.copy = NoMeta /\ Fresh.time = 0 /\ Unseen.sum = {}
  /\ Fresh \in Copies /\ Unseen \in Views /\ NoReply \in Outs
<1>1. /\ NoMeta \in Metas /\ NoMeta.sum = {} /\ Fresh.copy = NoMeta /\ Fresh.time = 0 /\ Unseen.sum = {}
  BY DEF NoMeta, Metas, Fresh, Unseen
<1>2. Fresh \in Copies /\ Unseen \in Views /\ NoReply \in Outs
  <2>1. <<>> \in [1 .. 0 -> {"agent"}] /\ 0 \in 0 .. MaxTexts
    BY HistoryBounds
  <2>2. <<>> \in Said
    BY <2>1 DEF Said
  <2> QED BY <1>1, <2>2 DEF Copies, Views, Outs, Fresh, Unseen, NoReply
<1> QED BY <1>1, <1>2

LEMMA HistoryInitHolds == HistoryInit => HistoryInv
<1> SUFFICES ASSUME HistoryInit PROVE HistoryInv
  OBVIOUS
<1> USE DEF HistoryInit
<1>1. /\ NoMeta \in Metas /\ NoMeta.sum = {} /\ Fresh.copy = NoMeta /\ Fresh.time = 0 /\ Unseen.sum = {}
      /\ Fresh \in Copies /\ Unseen \in Views /\ NoReply \in Outs
  BY BlankTypes
<1>0. HistoryShape
  <2>1. chat \in Seq(ChatRows) /\ gone \in Nat /\ gone <= Len(chat)
    OBVIOUS
  <2> QED BY <2>1, <1>1 DEF HistoryShape, Stages
<1>3. OverKnowNothing /\ CopiesForget
  BY <1>1 DEF OverKnowNothing, CopiesForget, Remains
<1>4. DOMAIN chat = {} /\ Present = {} /\ Alive = {}
  BY DEF Present, Alive, Kept
<1>5. RowsHaveRuns /\ OneBetween /\ LinesAreKept /\ InOrder /\ ComesNext /\ LastIsActive /\ ReadRowsStay
  BY <1>4 DEF RowsHaveRuns, OneBetween, LinesAreKept, InOrder, ComesNext, LastIsActive, ReadRowsStay, HasRead,
              Between, Chatting
<1>6. StepsBounded /\ ReadsTheLast /\ CancelledIsTrue /\ ActiveIsLatest
  BY <1>4 DEF StepsBounded, ReadsTheLast, CancelledIsTrue, ActiveIsLatest, HasRead
<1> QED BY <1>0, <1>3, <1>5, <1>6 DEF HistoryInv, OfRows

(* The steps of a run that add no row.                                      *)
LEMMA ArrivesKeeps == ASSUME HistoryInv, NEW r \in Chatting, Arrives(r) PROVE HistoryInv'
<1> USE DEF HistoryInv, Arrives
<1>1. OfRows'
  BY StageMoves DEF Stages, Unstored
<1>2. HistoryShape'
  <2>1. [copy |-> meta, time |-> Len(chat)] \in Copies
    BY ChatThere, RowTypes DEF Copies, HistoryShape
  <2> QED BY <2>1 DEF HistoryShape, StepsTo, Stages
<1>3. OverKnowNothing'
  BY DEF OverKnowNothing, StepsTo, UnderWay, HistoryShape
<1>4. CopiesForget'
  BY DEF CopiesForget, Remains, HistoryShape
<1> QED BY <1>1, <1>2, <1>3, <1>4

LEMMA ReadingKeeps ==
  ASSUME HistoryInv, NEW r \in Chatting, stage[r] \in {"waiting", "summing"},
         NEW sum \in SUBSET Nat, ReadsBack(r, sum), carried \/ Remains(sum),
         chat' = chat, gone' = gone, durable' = durable, out' = out, meta' = meta, desk' = desk, carried' = carried,
         dirty' \subseteq Chatting,
         own' = own \/ \E n \in Nat : own' = [own EXCEPT ![r].copy = [sum |-> sum, at |-> n]]
  PROVE  HistoryInv'
<1> USE DEF HistoryInv
<1>1. /\ OfRows' /\ seen' = [seen EXCEPT ![r] = seen'[r]] /\ StepsTo(r, "asking") /\ seen'[r].sum = sum
      /\ seen'[r].read \in SUBSET Nat /\ seen'[r].left \in SUBSET Nat /\ seen'[r].base \in Nat
      /\ seen'[r].active = durable.active /\ seen'[r].was \in Stages \cup {"none"}
  BY Reading
<1>2. seen'[r] = [sum |-> sum, read |-> seen'[r].read, left |-> seen'[r].left, base |-> seen'[r].base,
                  active |-> seen'[r].active, was |-> seen'[r].was]
  BY DEF ReadsBack, HistoryShape
<1>3. /\ \A x \in Chatting \ {r} : own'[x] = own[x] /\ seen'[x] = seen[x] /\ stage'[x] = stage[x]
      /\ own'[r].copy.sum \in {sum, own[r].copy.sum} /\ stage'[r] = "asking"
      /\ own' \in [Chatting -> Copies]
  <2>1. \A n \in Nat, c \in Copies : [c EXCEPT !.copy = [sum |-> sum, at |-> n]] \in Copies
    BY DEF Copies, Metas
  <2>2. \A n : [own EXCEPT ![r].copy = [sum |-> sum, at |-> n]] = [own EXCEPT ![r] = [own[r] EXCEPT !.copy = [sum |-> sum, at |-> n]]]
    BY DEF HistoryShape
  <2>3. own' \in [Chatting -> Copies]
    BY <2>1, <2>2 DEF HistoryShape
  <2>4. own'[r].copy.sum \in {sum, own[r].copy.sum} /\ \A x \in Chatting \ {r} : own'[x] = own[x]
    BY <2>2 DEF HistoryShape, Copies
  <2> QED BY <1>1, <2>3, <2>4 DEF HistoryShape, StepsTo
<1>4. seen' \in [Chatting -> Views]
  <2>1. seen'[r] \in Views
    BY <1>1, <1>2 DEF Views, HistoryShape
  <2> QED BY <2>1, <1>1 DEF HistoryShape
<1>5. HistoryShape'
  BY <1>3, <1>4, <1>1 DEF HistoryShape, StepsTo, Stages, ReadsBack
<1>6. OverKnowNothing'
  BY <1>3 DEF OverKnowNothing, UnderWay, Between
<1>7. CopiesForget'
  <2>1. CASE carried
    BY <2>1 DEF CopiesForget
  <2>2. CASE ~carried
    <3>1. Remains(sum)' /\ \A S : Remains(S)' = Remains(S)
      BY <2>2 DEF Remains
    <3>2. \A x \in Chatting : Remains(own'[x].copy.sum) /\ Remains(seen'[x].sum)
      BY <1>1, <1>3, <2>2, <3>1 DEF CopiesForget
    <3> QED BY <3>1, <3>2, <2>2 DEF CopiesForget
  <2> QED BY <2>1, <2>2
<1> QED BY <1>1, <1>5, <1>6, <1>7

LEMMA EntersKeeps == ASSUME HistoryInv, NEW r \in Chatting, Enters(r) PROVE HistoryInv'
<1> USE DEF HistoryInv
<1>1. CASE Summarises(r)
  <2>1. /\ stage[r] = "waiting" /\ StepsTo(r, "summing") /\ UNCHANGED <<overlapped, hidden>>
        /\ seen' = [seen EXCEPT ![r].sum = Whole \cup Oldest(Alive, Fits), ![r].base = UserMessages]
        /\ UNCHANGED <<chat, gone, meta, durable, own, out, dirty, desk, troubles, carried>>
    BY <1>1 DEF Enters
  <2> HIDE DEF HistoryInv
  <2>2. OfRows'
    BY <2>1, StageMoves DEF Stages, Unstored, HistoryInv, HistoryShape
  <2> USE DEF HistoryInv
  <2>3. HistoryShape'
    <3> DEFINE S == Whole \cup Oldest(Alive, Fits)
    <3>1. /\ S \in SUBSET Nat /\ UserMessages \in Nat
          /\ seen' = [seen EXCEPT ![r].sum = S, ![r].base = UserMessages]
      BY <2>1, UserMessagesCount, SummaryRemains
    <3> HIDE DEF S
    <3>2. seen' \in [Chatting -> Views]
      <4>1. ASSUME NEW v \in Views PROVE [v EXCEPT !.sum = S, !.base = UserMessages] \in Views
        BY <3>1, <4>1 DEF Views
      <4>2. seen' = [seen EXCEPT ![r] = [seen[r] EXCEPT !.sum = S, !.base = UserMessages]]
        BY <3>1 DEF HistoryShape
      <4> QED BY Zenon, <4>1, <4>2 DEF HistoryShape
    <3> QED BY <2>1, <3>2 DEF HistoryShape, StepsTo, Stages
  <2>4. OverKnowNothing'
    BY <2>1 DEF OverKnowNothing, StepsTo, UnderWay, HistoryShape
  <2>5. CopiesForget'
    <3>1. Remains(Whole \cup Oldest(Alive, Fits)) /\ \A S : Remains(S)' = Remains(S)
      BY <2>1, SummaryRemains DEF Remains
    <3>2. \A x \in Chatting : seen'[x].sum \in {seen[x].sum, Whole \cup Oldest(Alive, Fits)}
      BY <2>1 DEF HistoryShape
    <3> QED BY <2>1, <3>1, <3>2 DEF CopiesForget
  <2> QED BY <2>2, <2>3, <2>4, <2>5
<1>2. CASE ~Summarises(r)
  <2> DEFINE sum == IF UserMessages >= Trigger /\ Cached(r) THEN own[r].copy.sum ELSE {}
  <2>1. /\ stage[r] = "waiting" /\ ReadsBack(r, sum)
        /\ UNCHANGED <<chat, gone, meta, durable, own, out, dirty, desk, troubles, carried>>
    BY <1>2 DEF Enters
  <2>2. sum \in SUBSET Nat /\ (carried \/ Remains(sum)) /\ dirty \subseteq Chatting
    BY DEF HistoryShape, Copies, Metas, CopiesForget, Remains
  <2> HIDE DEF sum, HistoryInv
  <2> QED BY <2>1, <2>2, ReadingKeeps
<1> QED BY <1>1, <1>2

LEMMA SummarisedKeeps == ASSUME HistoryInv, NEW r \in Chatting, Summarised(r) PROVE HistoryInv'
<1>1. seen[r].sum \in SUBSET Nat /\ seen[r].base \in Nat /\ (carried \/ Remains(seen[r].sum))
  BY DEF HistoryInv, HistoryShape, Views, CopiesForget
<1>2. /\ stage[r] = "summing" /\ ReadsBack(r, seen[r].sum) /\ dirty' \subseteq Chatting
      /\ UNCHANGED <<chat, gone, meta, durable, out, desk, carried>>
      /\ own' = [own EXCEPT ![r].copy = [sum |-> seen[r].sum, at |-> seen[r].base]]
  BY DEF Summarised
<1> QED BY <1>1, <1>2, ReadingKeeps

LEMMA SummaryFailsKeeps == ASSUME HistoryInv, NEW r \in Chatting, SummaryFails(r) PROVE HistoryInv'
<1>1. stage[r] = "summing" /\ ReadsBack(r, {}) /\ dirty' \subseteq Chatting /\ Remains({})
      /\ UNCHANGED <<chat, gone, meta, durable, own, out, dirty, desk, carried>>
  BY DEF SummaryFails, Remains, HistoryInv, HistoryShape
<1> QED BY <1>1, ReadingKeeps

LEMMA RepliesKeeps == ASSUME HistoryInv, NEW r \in Chatting, NEW rows \in Said, Replies(r, rows) PROVE HistoryInv'
<1> USE DEF HistoryInv, Replies
<1>1. OfRows'
  <2>1. out'[r].lines = durable.lines /\ \A x \in Chatting \ {r} : seen'[x] = seen[x] /\ out'[x] = out[x]
    BY DEF HistoryShape
  <2> QED BY <2>1, StageMoves DEF Stages, Unstored
<1>2. HistoryShape'
  <2>1. out'[r] \in Outs /\ out' = [out EXCEPT ![r] = out'[r]]
    BY DEF HistoryShape, Outs
  <2>2. dirty' \subseteq Chatting
    BY DEF HistoryShape
  <2> QED BY <2>1, <2>2 DEF HistoryShape, StepsTo, Stages
<1>3. OverKnowNothing'
  BY DEF OverKnowNothing, StepsTo, UnderWay, Between, HistoryShape
<1>4. CopiesForget'
  BY DEF CopiesForget, Remains
<1> QED BY <1>1, <1>2, <1>3, <1>4

(* A run that is over without an answer.                                    *)
LEMMA OverKeeps ==
  ASSUME HistoryInv, NEW r \in Chatting, NEW to \in {"failed", "cancelled", "lost", "abandoned", "dropped"}, IsOver(r, to),
         stage[r] \notin {"done", "mute", "failed", "cancelled", "abandoned"}, stage[r] \in Unstored <=> to = "dropped",
         UNCHANGED <<chat, gone, meta, durable, desk, overlapped, hidden, carried>>
  PROVE  HistoryInv'
<1> USE DEF HistoryInv, IsOver
<1>1. OfRows'
  <2>1. \A x \in Chatting \ {r} : seen'[x] = seen[x] /\ out'[x] = out[x]
    BY DEF HistoryShape
  <2> QED BY <2>1, StageMoves DEF Stages, Unstored
<1>2. /\ NoMeta \in Metas /\ NoMeta.sum = {} /\ Fresh.copy = NoMeta /\ Unseen.sum = {}
      /\ Fresh \in Copies /\ Unseen \in Views /\ NoReply \in Outs
  BY BlankTypes
<1>3. HistoryShape'
  BY <1>2 DEF HistoryShape, StepsTo, Stages
<1>4. OverKnowNothing'
  BY <1>2 DEF OverKnowNothing, StepsTo, HistoryShape
<1>5. CopiesForget'
  BY <1>2 DEF CopiesForget, Remains, HistoryShape
<1> QED BY <1>1, <1>3, <1>4, <1>5

(* What new rows leave of the old ones.                                     *)
LEMMA RowsAdded ==
  ASSUME HistoryInv, NEW new \in Seq(ChatRows), chat' = chat \o new, gone' = gone
  PROVE  /\ chat' \in Seq(ChatRows) /\ gone' <= Len(chat') /\ Len(chat') = Len(chat) + Len(new)
         /\ DOMAIN chat = 1 .. Len(chat) /\ DOMAIN chat' = 1 .. Len(chat') /\ Len(chat) \in Nat /\ Len(new) \in Nat
         /\ \A i \in DOMAIN chat : i \in DOMAIN chat' /\ chat'[i] = chat[i]
         /\ \A k \in 1 .. Len(new) : Len(chat) + k \in DOMAIN chat' /\ chat'[Len(chat) + k] = new[k]
         /\ \A i \in DOMAIN chat' : i \in DOMAIN chat \/ \E k \in 1 .. Len(new) : i = Len(chat) + k
         /\ \A i, j \in DOMAIN chat : Before(i, j)' = Before(i, j)
         /\ \A i \in DOMAIN chat : i \in Kept' <=> i \in Kept
         /\ \A k \in 1 .. Len(new) : Len(chat) + k \in Kept' <=> new[k].who \in {"user", "agent"}
         /\ Kept \subseteq DOMAIN chat /\ Kept' \subseteq DOMAIN chat'
<1>1. chat \in Seq(ChatRows) /\ gone \in Nat /\ gone <= Len(chat)
  BY ChatThere DEF HistoryInv
<1>2. /\ chat' \in Seq(ChatRows) /\ Len(chat') = Len(chat) + Len(new)
      /\ DOMAIN chat = 1 .. Len(chat) /\ DOMAIN chat' = 1 .. Len(chat') /\ Len(chat) \in Nat /\ Len(new) \in Nat
  BY <1>1
<1>3. \A i \in DOMAIN chat : i \in DOMAIN chat' /\ chat'[i] = chat[i]
  BY <1>1, <1>2
<1>4. \A k \in 1 .. Len(new) : Len(chat) + k \in DOMAIN chat' /\ chat'[Len(chat) + k] = new[k]
  BY <1>1, <1>2
<1>5. \A i \in DOMAIN chat' : i \in DOMAIN chat \/ \E k \in 1 .. Len(new) : i = Len(chat) + k
  <2> TAKE i \in DOMAIN chat'
  <2>1. i \in 1 .. Len(chat) \/ (i - Len(chat) \in 1 .. Len(new) /\ i = Len(chat) + (i - Len(chat)))
    BY <1>2
  <2> QED BY <2>1, <1>2
<1>6. \A i, j \in DOMAIN chat : Before(i, j)' = Before(i, j)
  BY <1>3 DEF Before
<1>7. Present \subseteq DOMAIN chat /\ Present' \subseteq DOMAIN chat' /\ \A i \in DOMAIN chat : i \in Present' <=> i \in Present
  BY <1>1, <1>2 DEF Present
<1>8. \A k \in 1 .. Len(new) : Len(chat) + k \in Present'
  BY <1>1, <1>2 DEF Present
<1>9. /\ \A i \in DOMAIN chat : i \in Kept' <=> i \in Kept
      /\ \A k \in 1 .. Len(new) : Len(chat) + k \in Kept' <=> new[k].who \in {"user", "agent"}
      /\ Kept \subseteq DOMAIN chat /\ Kept' \subseteq DOMAIN chat'
  BY <1>3, <1>4, <1>7, <1>8 DEF Kept
<1> QED BY <1>1, <1>2, <1>3, <1>4, <1>5, <1>6, <1>9

(* Those who have read are not disturbed by new rows.                       *)
LEMMA ReadersStay ==
  ASSUME HistoryInv, NEW new \in Seq(ChatRows), chat' = chat \o new, gone' = gone, overlapped' = overlapped, hidden' = hidden,
         \A x \in Chatting : HasRead(x)' => HasRead(x) /\ seen'[x] = seen[x],
         \A x \in Chatting : stage[x] = "mute" => stage'[x] = "mute"
  PROVE  ReadRowsStay' /\ ReadsTheLast' /\ CancelledIsTrue' /\ ActiveIsLatest' /\ (Noted => Noted')
<1> USE DEF HistoryInv, OfRows
<1>1. /\ \A i \in DOMAIN chat : i \in DOMAIN chat' /\ chat'[i] = chat[i]
      /\ \A i, j \in DOMAIN chat : Before(i, j)' = Before(i, j)
  BY RowsAdded
<1>2. Noted => Noted'
  BY <1>1 DEF Noted
<1>3. ReadRowsStay'
  BY <1>1 DEF ReadRowsStay
<1>4. ReadsTheLast' /\ CancelledIsTrue'
  BY <1>2 DEF ReadsTheLast, CancelledIsTrue
<1>5. ActiveIsLatest'
  <2> SUFFICES ASSUME NEW x \in Chatting, HasRead(x)', ~(Noted' \/ overlapped' \/ hidden'),
                      ~ \E q \in CustomerTurns : q = seen'[x].active /\ stage'[q] = "mute"
               PROVE  TellsTheLast(x)'
    BY DEF ActiveIsLatest
  <2>1. HasRead(x) /\ seen'[x] = seen[x] /\ ~(Noted \/ overlapped \/ hidden) /\ seen[x].read \subseteq DOMAIN chat
    BY <1>2 DEF ReadRowsStay
  <2>2. ~ \E q \in CustomerTurns : q = seen[x].active /\ stage[q] = "mute"
    BY <2>1 DEF Chatting
  <2>3. TellsTheLast(x)
    BY <2>1, <2>2 DEF ActiveIsLatest
  <2>4. AnswersRead(x)' = AnswersRead(x) /\ AnswersRead(x) \subseteq DOMAIN chat
    BY <2>1, <1>1 DEF AnswersRead
  <2> QED BY <2>1, <2>3, <2>4, <1>1 DEF TellsTheLast
<1> QED BY <1>2, <1>3, <1>4, <1>5

LEMMA StoresKeeps == ASSUME HistoryInv, NEW r \in Chatting, Stores(r) PROVE HistoryInv'
<1> USE DEF HistoryInv, OfRows
<1> DEFINE added == Message(r, "user", seen[r].base, own[r].time)
           base == seen[r].base
<1>1. /\ stage[r] = "asking" /\ stage' = [stage EXCEPT ![r] = "running"] /\ gone' = gone
      /\ UNCHANGED <<durable, out, desk, overlapped, hidden, carried>>
  BY DEF Stores, StepsTo
<1>2. /\ stage'[r] = "running" /\ \A x \in Chatting \ {r} : stage'[x] = stage[x] /\ seen'[x] = seen[x] /\ own'[x] = own[x]
      /\ base \in Nat /\ own[r].time \in Nat /\ seen'[r].base = base /\ seen'[r].sum = {} /\ own'[r].copy = own[r].copy
      /\ seen' \in [Chatting -> Views] /\ own' \in [Chatting -> Copies]
  <2>1. base \in Nat /\ own[r].time \in Nat
    BY DEF HistoryShape, Views, Copies
  <2>2. [Unseen EXCEPT !.base = base] \in Views /\ [Unseen EXCEPT !.base = base].base = base /\ [Unseen EXCEPT !.base = base].sum = {}
    BY <2>1 DEF Views, Unseen
  <2>3. /\ [own[r] EXCEPT !.time = Len(chat) + 1] \in Copies
        /\ [own[r] EXCEPT !.time = Len(chat) + 1].copy = own[r].copy
        /\ own' = [own EXCEPT ![r] = [own[r] EXCEPT !.time = Len(chat) + 1]]
    BY RowTypes, ChatThere DEF Stores, Copies, HistoryShape
  <2> QED BY <1>1, <2>1, <2>2, <2>3 DEF Stores, HistoryShape
<1>3. added \in ChatRows /\ added.by = r /\ added.who = "user" /\ added.step = base
  BY <1>2 DEF Message, ChatRows
<1>4. <<added>> \in Seq(ChatRows) /\ Len(<<added>>) = 1 /\ <<added>>[1] = added /\ chat' = chat \o <<added>>
  BY <1>3, ChatThere DEF Stores
<1> DEFINE last == Len(chat) + 1
<1> HIDE DEF added
<1>5. /\ chat' \in Seq(ChatRows) /\ gone' <= Len(chat')
      /\ DOMAIN chat = 1 .. Len(chat) /\ Len(chat) \in Nat /\ DOMAIN chat' = DOMAIN chat \cup {last}
      /\ \A i \in DOMAIN chat : chat'[i] = chat[i] /\ i < last
      /\ chat'[last] = added
      /\ \A i, j \in DOMAIN chat : Before(i, j)' = Before(i, j)
      /\ \A i \in DOMAIN chat : i \in Kept' <=> i \in Kept
      /\ Kept \subseteq DOMAIN chat /\ Kept' \subseteq DOMAIN chat' /\ last \in Nat
  <2> DEFINE new == <<added>>
  <2>1. new \in Seq(ChatRows) /\ Len(new) = 1 /\ new[1] = added /\ chat' = chat \o new
    BY <1>4
  <2> HIDE DEF new
  <2>2. /\ chat' \in Seq(ChatRows) /\ gone' <= Len(chat') /\ Len(chat') = Len(chat) + 1
        /\ DOMAIN chat = 1 .. Len(chat) /\ DOMAIN chat' = 1 .. Len(chat') /\ Len(chat) \in Nat
        /\ \A i \in DOMAIN chat : chat'[i] = chat[i]
        /\ \A k \in 1 .. 1 : chat'[Len(chat) + k] = new[k]
        /\ \A i, j \in DOMAIN chat : Before(i, j)' = Before(i, j)
        /\ \A i \in DOMAIN chat : i \in Kept' <=> i \in Kept
        /\ Kept \subseteq DOMAIN chat /\ Kept' \subseteq DOMAIN chat'
    BY <1>1, <2>1, RowsAdded
  <2>3. DOMAIN chat' = DOMAIN chat \cup {last} /\ last \in Nat /\ \A i \in DOMAIN chat : i < last
    BY <2>2
  <2>4. chat'[last] = added
    BY <2>1, <2>2
  <2> QED BY <2>2, <2>3, <2>4
<1> HIDE DEF last
<1>6. \A i \in DOMAIN chat : chat[i].by # r /\ chat[i].by \in Chatting \cup {NoRun} /\ chat[i].step \in Nat
  BY <1>1, RowTypes, ChatThere, HistoryBounds DEF RowsHaveRuns, Unstored, Chatting
<1>7. Alive' \subseteq Alive \cup {last} /\ Alive \subseteq Alive' /\ Alive \subseteq DOMAIN chat
  <2>1. \A i \in DOMAIN chat : Dead(i)' = Dead(i)
    BY <1>2, <1>5, <1>6 DEF Dead
  <2> QED BY <1>5, <2>1 DEF Alive
<1>8. Noted' => Noted
  BY <1>3, <1>5, HistoryBounds DEF Noted, Chatting
<1>9. \A x \in Chatting : HasRead(x)' => HasRead(x) /\ seen'[x] = seen[x]
  BY <1>2 DEF HasRead
<1>20. \A x \in Chatting : stage[x] = "mute" => stage'[x] = "mute"
  BY <1>1, <1>2
<1>10. ReadRowsStay' /\ ReadsTheLast' /\ CancelledIsTrue' /\ ActiveIsLatest' /\ (Calm' => Calm)
  BY <1>1, <1>4, <1>9, <1>20, ReadersStay DEF Calm
<1>11. RowsHaveRuns'
  <2> SUFFICES ASSUME NEW i \in DOMAIN chat', chat'[i].by # NoRun
               PROVE  /\ chat'[i].by \in Chatting /\ stage'[chat'[i].by] \notin Unstored
                      /\ chat'[i].who = "agent" => stage'[chat'[i].by] = "done"
                      /\ stage'[chat'[i].by] \in {"running", "written"} => chat'[i].step = seen'[chat'[i].by].base
                      /\ chat'[i].who = "user" /\ stage'[chat'[i].by] = "done" => \E j \in DOMAIN chat' : AnswerTo(i, j)'
    <3>1. \A i \in DOMAIN chat' : chat'[i].by = NoRun => chat'[i].who = "agent"
      BY <1>3, <1>5, HistoryBounds DEF RowsHaveRuns, Chatting
    <3> QED BY <3>1 DEF RowsHaveRuns
  <2>1. CASE i = last
    BY <2>1, <1>2, <1>3, <1>5 DEF Unstored
  <2>2. CASE i \in DOMAIN chat
    <3>1. chat'[i] = chat[i] /\ chat[i].by \in Chatting \ {r} /\ \A j \in DOMAIN chat : AnswerTo(i, j) => AnswerTo(i, j)'
      BY <2>2, <1>5, <1>6 DEF AnswerTo
    <3> QED BY <3>1, <2>2, <1>2, <1>5 DEF RowsHaveRuns
  <2> QED BY <2>1, <2>2, <1>5
<1>12. OneBetween' /\ LinesAreKept'
  <2>1. \A x \in Chatting : /\ stage'[x] \in Between => stage[x] \in Between
                            /\ stage'[x] \in {"done", "mute", "written"} => stage[x] = stage'[x]
                            /\ stage[x] \in {"done", "mute", "written"} => stage[x] = stage'[x]
    BY <1>1, <1>2 DEF Between
  <2>2. OneBetween'
    BY <2>1, <1>1 DEF OneBetween
  <2>3. CustomerTurns \subseteq Chatting
    BY DEF Chatting
  <2> QED BY <2>1, <2>2, <2>3, <1>1 DEF LinesAreKept
<1>13. InOrder'
  <2> SUFFICES ASSUME Calm', NEW i \in Alive', NEW j \in Alive', i < j PROVE Before(i, j)'
    BY DEF InOrder
  <2>1. Calm
    BY <1>10
  <2>2. CASE j \in Alive
    <3>1. i \in Alive
      BY <2>2, <1>5, <1>7
    <3> QED BY <3>1, <2>1, <2>2, <1>5, <1>7 DEF InOrder
  <2>3. CASE j = last
    <3>1. i \in Alive
      BY <2>3, <1>5, <1>7
    <3>2. chat[i].step < base
      BY <3>1, <2>1, <1>1, <1>6, <1>7 DEF ComesNext, Between
    <3>3. chat'[i].step < chat'[j].step
      BY <3>1, <3>2, <2>3, <1>3, <1>5, <1>7
    <3> QED BY <3>3 DEF Before
  <2> QED BY <2>2, <2>3, <1>7
<1>14. ComesNext'
  <2> SUFFICES ASSUME Calm', NEW x \in Chatting, stage'[x] \in Between, NEW i \in Alive'
               PROVE  chat'[i].by = x \/ chat'[i].step < seen'[x].base
    BY DEF ComesNext
  <2>1. Calm
    BY <1>10
  <2>2. x = r
    BY <2>1, <1>1, <1>2 DEF Calm, OneBetween, Between
  <2>3. CASE i = last
    BY <2>2, <2>3, <1>3, <1>5
  <2>4. CASE i \in Alive
    BY <2>1, <2>2, <2>4, <1>1, <1>2, <1>5, <1>6, <1>7 DEF ComesNext, Between
  <2> QED BY <2>3, <2>4, <1>7
<1>15. LastIsActive'
  <2> SUFFICES ASSUME Calm', NEW i \in Alive', chat'[i].who = "agent", chat'[i].by \in CustomerTurns
               PROVE  ActiveIsMute' \/ \E j \in Alive' : j >= i /\ chat'[j].who = "agent" /\ chat'[j].by = durable.active
    BY <1>1 DEF LastIsActive
  <2>1. Calm
    BY <1>10
  <2>2. i \in Alive
    BY <1>3, <1>5, <1>7
  <2>3. ActiveIsMute => ActiveIsMute'
    BY <1>1, <1>20 DEF ActiveIsMute, Chatting
  <2>4. ActiveIsMute \/ \E j \in Alive : j >= i /\ chat[j].who = "agent" /\ chat[j].by = durable.active
    BY <2>1, <2>2, <1>5, <1>7 DEF LastIsActive
  <2> QED BY <2>3, <2>4, <1>5, <1>7
<1>16. StepsBounded'
  <2>1. PICK b \in Nat : \A i \in DOMAIN chat : chat[i].step <= b
    BY DEF StepsBounded
  <2>2. b + base \in Nat /\ \A i \in DOMAIN chat' : chat'[i].step <= b + base
    BY <2>1, <1>2, <1>3, <1>5, <1>6
  <2> QED BY <2>2 DEF StepsBounded
<1>17. meta' \in Metas /\ dirty' \subseteq Chatting /\ meta' \in {meta, own[r].copy}
  BY DEF Stores, CommitsMeta, HistoryShape, Copies
<1>18. HistoryShape'
  BY <1>1, <1>2, <1>5, <1>17 DEF HistoryShape, Stages
<1>19. OverKnowNothing' /\ CopiesForget'
  <2>1. \A x \in Chatting \ {r} : stage'[x] = stage[x] /\ own'[x] = own[x] /\ seen'[x] = seen[x]
    BY <1>2
  <2>2. own'[r].copy = own[r].copy /\ seen'[r].sum = {} /\ stage'[r] \in UnderWay
    BY <1>2 DEF UnderWay, Between
  <2>3. (\A S : Remains(S)' = Remains(S)) /\ Remains({})
    BY <1>1 DEF Remains
  <2>4. carried' = carried /\ desk' = desk /\ (carried \/ Remains(meta'.sum))
    BY <1>1, <1>17 DEF CopiesForget
  <2>5. OverKnowNothing'
    BY <2>1, <2>2 DEF OverKnowNothing
  <2>6. CopiesForget'
    BY <2>1, <2>2, <2>3, <2>4 DEF CopiesForget
  <2> QED BY <2>5, <2>6
<1> QED BY <1>10, <1>11, <1>12, <1>13, <1>14, <1>15, <1>16, <1>18, <1>19

LEMMA SavesKeeps == ASSUME HistoryInv, NEW r \in Chatting, Saves(r) PROVE HistoryInv'
<1> USE DEF HistoryInv, OfRows
<1> DEFINE rows == out[r].rows
           base == seen[r].base
           new == [k \in 1 .. Len(rows) |-> Message(r, rows[k], base + k, own[r].time)]
           to == EndsAs(rows)
           len == Len(rows)
<1>n. PICK n \in Nat : n = Len(chat)
  BY Zenon, ChatThere, RowTypes
<1>1. /\ stage[r] = "written" /\ rows \in Said /\ IsOver(r, to) /\ chat' = chat \o new
      /\ durable' = IF Remembers(r, rows) THEN [active |-> r, lines |-> out[r].lines \cup {r}] ELSE durable
      /\ CommitsMeta(r) /\ UNCHANGED <<gone, desk, overlapped, hidden, carried>>
  BY DEF Saves, HistoryShape, Outs
<1>2. /\ stage'[r] = to /\ \A x \in Chatting \ {r} : stage'[x] = stage[x] /\ seen'[x] = seen[x] /\ own'[x] = own[x] /\ out'[x] = out[x]
      /\ base \in Nat /\ own[r].time \in Nat /\ seen'[r].sum = {} /\ own'[r].copy.sum = {}
      /\ seen' \in [Chatting -> Views] /\ own' \in [Chatting -> Copies] /\ out' \in [Chatting -> Outs]
      /\ stage' \in [Chatting -> Stages] /\ dirty' \subseteq Chatting
  <2>1. base \in Nat /\ own[r].time \in Nat
    BY DEF HistoryShape, Views, Copies
  <2>2. to \in Stages
    BY DEF EndsAs, Stages
  <2> HIDE DEF to
  <2> QED BY <1>1, <2>1, <2>2, BlankTypes DEF IsOver, StepsTo, HistoryShape
<1>3. /\ len \in Nat /\ to \in {"done", "mute", "blocked"} /\ (to = "done" => 1 <= len) /\ (to = "mute" => len = 0)
      /\ \A k \in 1 .. len : rows[k] = IF to = "done" THEN "agent" ELSE "assistant"
      /\ rows # <<"assistant">> <=> to # "blocked"
  <2>1. ASSUME NEW m \in 0 .. MaxTexts, rows \in [1 .. m -> {"agent"}]
        PROVE  /\ len = m /\ rows # <<"assistant">> /\ \A k \in 1 .. len : rows[k] = "agent"
               /\ (to = "done" => 1 <= m) /\ (to = "mute" => m = 0) /\ to \in {"done", "mute"}
    <3>1. m \in Nat /\ len = m /\ \A k \in 1 .. m : rows[k] = "agent"
      BY <2>1, HistoryBounds
    <3>2. rows # <<"assistant">>
      <4>1. Len(<<"assistant">>) = 1 /\ <<"assistant">>[1] = "assistant" /\ 1 \in 1 .. 1
        OBVIOUS
      <4> QED BY <3>1, <4>1
    <3>3. m = 0 <=> rows = <<>>
      BY <3>1, <2>1
    <3> QED BY <3>1, <3>2, <3>3 DEF EndsAs
  <2>3. CASE rows = <<"assistant">>
    BY <2>3 DEF EndsAs
  <2>4. CASE rows # <<"assistant">>
    <3>1. PICK m \in 0 .. MaxTexts : rows \in [1 .. m -> {"agent"}]
      BY <2>4, <1>1 DEF Said
    <3> QED BY <2>1, <3>1, HistoryBounds
  <2> QED BY <2>3, <2>4
<1>4. /\ new \in Seq(ChatRows) /\ Len(new) = len
      /\ \A k \in 1 .. len : new[k].by = r /\ new[k].who = rows[k] /\ new[k].step = base + k
  <2>1. \A k \in 1 .. len : Message(r, rows[k], base + k, own[r].time) \in ChatRows
    BY <1>2, <1>3 DEF Message, ChatRows
  <2>2. new \in Seq(ChatRows) /\ Len(new) = len
    BY <2>1, <1>3
  <2> QED BY <2>2 DEF Message
<1> HIDE DEF new
<1>5. /\ chat' \in Seq(ChatRows) /\ gone' <= Len(chat') /\ n \in Nat
      /\ DOMAIN chat = 1 .. n /\ DOMAIN chat' \subseteq Nat
      /\ \A i \in DOMAIN chat : i \in DOMAIN chat' /\ chat'[i] = chat[i]
      /\ \A k \in 1 .. len : n + k \in DOMAIN chat' /\ chat'[n + k] = new[k]
      /\ \A i \in DOMAIN chat' : i \in DOMAIN chat \/ \E k \in 1 .. len : i = n + k
      /\ \A i, j \in DOMAIN chat : Before(i, j)' = Before(i, j)
      /\ \A i \in DOMAIN chat : i \in Kept' <=> i \in Kept
      /\ \A k \in 1 .. len : n + k \in Kept' <=> to = "done"
      /\ Kept \subseteq DOMAIN chat /\ Kept' \subseteq DOMAIN chat'
  <2>1. /\ chat' \in Seq(ChatRows) /\ gone' <= Len(chat') /\ n \in Nat
        /\ DOMAIN chat = 1 .. n /\ DOMAIN chat' = 1 .. Len(chat') /\ Len(chat') \in Nat
        /\ \A i \in DOMAIN chat : i \in DOMAIN chat' /\ chat'[i] = chat[i]
        /\ \A k \in 1 .. len : n + k \in DOMAIN chat' /\ chat'[n + k] = new[k]
        /\ \A i \in DOMAIN chat' : i \in DOMAIN chat \/ \E k \in 1 .. len : i = n + k
        /\ \A i, j \in DOMAIN chat : Before(i, j)' = Before(i, j)
        /\ \A i \in DOMAIN chat : i \in Kept' <=> i \in Kept
        /\ \A k \in 1 .. len : n + k \in Kept' <=> new[k].who \in {"user", "agent"}
        /\ Kept \subseteq DOMAIN chat /\ Kept' \subseteq DOMAIN chat'
    <3> HIDE DEF rows, len
    <3>1. /\ chat' \in Seq(ChatRows) /\ gone' <= Len(chat') /\ Len(chat') = Len(chat) + Len(new)
          /\ DOMAIN chat = 1 .. Len(chat) /\ DOMAIN chat' = 1 .. Len(chat') /\ Len(chat) \in Nat /\ Len(new) \in Nat
          /\ \A i \in DOMAIN chat : i \in DOMAIN chat' /\ chat'[i] = chat[i]
          /\ \A k \in 1 .. Len(new) : Len(chat) + k \in DOMAIN chat' /\ chat'[Len(chat) + k] = new[k]
          /\ \A i \in DOMAIN chat' : i \in DOMAIN chat \/ \E k \in 1 .. Len(new) : i = Len(chat) + k
          /\ \A i, j \in DOMAIN chat : Before(i, j)' = Before(i, j)
          /\ \A i \in DOMAIN chat : i \in Kept' <=> i \in Kept
          /\ \A k \in 1 .. Len(new) : Len(chat) + k \in Kept' <=> new[k].who \in {"user", "agent"}
          /\ Kept \subseteq DOMAIN chat /\ Kept' \subseteq DOMAIN chat'
      BY <1>1, <1>4, RowsAdded
    <3> QED BY <3>1, <1>4, <1>n
  <2>2. \A k \in 1 .. len : n + k \in Kept' <=> to = "done"
    BY <2>1, <1>3, <1>4
  <2> QED BY <2>1, <2>2
<1>0. to \in {"done", "mute", "blocked"} /\ (Remembers(r, rows) <=> r \in CustomerTurns /\ to # "blocked")
  BY <1>3 DEF Remembers
<1> HIDE DEF to
<1>6. \A i \in DOMAIN chat : /\ chat[i].by \in Chatting \cup {NoRun} /\ chat[i].step \in Nat
                             /\ chat[i].by = r => chat[i].who # "agent" /\ chat[i].step = base
  BY <1>1, RowTypes, ChatThere, HistoryBounds DEF RowsHaveRuns, Unstored, Chatting
<1> HIDE DEF rows, base, len
<1>7. /\ Alive \subseteq DOMAIN chat /\ Alive \subseteq Alive' /\ \A i \in DOMAIN chat : i \in Alive' => i \in Alive
      /\ Alive' \subseteq DOMAIN chat' /\ \A k \in 1 .. len : n + k \in Alive' <=> to = "done"
  <2>1. \A i \in DOMAIN chat : Dead(i)' = Dead(i)
    BY <1>0, <1>1, <1>2, <1>5, <1>6 DEF Dead
  <2>2. ASSUME NEW k \in 1 .. len PROVE ~Dead(n + k)'
    <3>1. chat'[n + k] = new[k] /\ new[k].by = r
      BY <1>4, <1>5
    <3>2. stage'[chat'[n + k].by] = to
      BY <1>2, <3>1
    <3>3. to \notin {"failed", "abandoned", "cancelled"}
      BY <1>0
    <3> QED BY <3>2, <3>3 DEF Dead
  <2>3. \A k \in 1 .. len : n + k \in Alive' <=> to = "done"
    <3>1. \A i : i \in Alive' <=> i \in Kept' /\ ~Dead(i)'
      BY DEF Alive
    <3> TAKE k \in 1 .. len
    <3>2. n + k \in Alive' <=> n + k \in Kept' /\ ~Dead(n + k)'
      BY <3>1
    <3> QED BY <3>2, <1>5, <2>2
  <2>4. \A i \in DOMAIN chat : i \in Alive' <=> i \in Alive
    BY <1>5, <2>1 DEF Alive
  <2>5. Alive \subseteq DOMAIN chat /\ Alive' \subseteq DOMAIN chat'
    BY <1>5 DEF Alive
  <2> QED BY <2>3, <2>4, <2>5
<1>8. \A x \in Chatting : HasRead(x)' => HasRead(x) /\ seen'[x] = seen[x]
  BY <1>0, <1>2 DEF HasRead
<1>20. \A x \in Chatting : stage[x] = "mute" => stage'[x] = "mute"
  BY <1>1, <1>2
<1>9. ReadRowsStay' /\ ReadsTheLast' /\ CancelledIsTrue' /\ ActiveIsLatest' /\ (Calm' => Calm)
  BY <1>1, <1>4, <1>8, <1>20, ReadersStay DEF Calm
<1>10. RowsHaveRuns'
  <2> SUFFICES ASSUME NEW i \in DOMAIN chat', chat'[i].by # NoRun
               PROVE  /\ chat'[i].by \in Chatting /\ stage'[chat'[i].by] \notin Unstored
                      /\ chat'[i].who = "agent" => stage'[chat'[i].by] = "done"
                      /\ stage'[chat'[i].by] \in {"running", "written"} => chat'[i].step = seen'[chat'[i].by].base
                      /\ chat'[i].who = "user" /\ stage'[chat'[i].by] = "done" => \E j \in DOMAIN chat' : AnswerTo(i, j)'
    <3>1. \A j \in DOMAIN chat' : chat'[j].by = NoRun => chat'[j].who = "agent"
      BY <1>4, <1>5, HistoryBounds DEF RowsHaveRuns, Chatting
    <3> QED BY <3>1 DEF RowsHaveRuns
  <2>1. ASSUME NEW k \in 1 .. len, i = n + k
        PROVE  /\ chat'[i].by = r /\ (chat'[i].who = "agent" => to = "done") /\ chat'[i].who # "user"
    BY <2>1, <1>3, <1>4, <1>5
  <2>2. CASE i \notin DOMAIN chat
    BY <2>1, <2>2, <1>0, <1>2, <1>5 DEF Unstored
  <2>3. CASE i \in DOMAIN chat /\ chat[i].by = r
    <3>1. chat'[i] = chat[i] /\ chat[i].who # "agent" /\ chat[i].step = base
      BY <2>3, <1>5, <1>6
    <3>2. ASSUME to = "done" PROVE AnswerTo(i, n + 1)' /\ n + 1 \in DOMAIN chat'
      <4>1. 1 \in 1 .. len
        BY <1>3, <3>2
      <4>2. n + 1 \in DOMAIN chat' /\ chat'[n + 1].by = r /\ chat'[n + 1].who = "agent" /\ chat'[n + 1].step = base + 1
        BY <3>2, <4>1, <1>3, <1>4, <1>5
      <4>3. n + 1 > i /\ base + 1 > base
        BY <2>3, <1>2, <1>5
      <4> QED BY <4>2, <4>3, <3>1, <2>3 DEF AnswerTo
    <3> QED BY <2>3, <3>1, <3>2, <1>0, <1>2 DEF Unstored
  <2>4. CASE i \in DOMAIN chat /\ chat[i].by # r
    <3>1. chat'[i] = chat[i] /\ chat[i].by \in Chatting \ {r} /\ \A j \in DOMAIN chat : AnswerTo(i, j) => AnswerTo(i, j)'
      BY <2>4, <1>5, <1>6 DEF AnswerTo
    <3> QED BY <3>1, <2>4, <1>2, <1>5 DEF RowsHaveRuns
  <2> QED BY <2>2, <2>3, <2>4
<1>11. OneBetween'
  <2>1. \A x \in Chatting : stage'[x] \in Between => x # r /\ stage[x] \in Between /\ out'[x] = out[x] /\ stage'[x] = stage[x]
    BY <1>0, <1>2 DEF Between
  <2> QED BY <2>1, <1>1 DEF OneBetween, Between
<1>12. ASSUME ~overlapped, NEW x \in Chatting PROVE stage'[x] \notin Between
  BY <1>0, <1>12, <1>1, <1>2 DEF OneBetween, Between
<1>13. LinesAreKept'
  <2> SUFFICES ASSUME ~overlapped, NEW t \in CustomerTurns, stage'[t] \in {"done", "mute"} PROVE t \in durable'.lines
    BY <1>1, <1>12 DEF LinesAreKept, Between
  <2>1. t \in Chatting
    BY DEF Chatting
  <2>2. CASE t = r
    BY <2>2, <1>0, <1>1, <1>2
  <2>3. CASE t # r
    BY <2>1, <2>3, <1>1, <1>2 DEF LinesAreKept
  <2> QED BY <2>2, <2>3
<1>14. InOrder'
  <2> SUFFICES ASSUME Calm', NEW i \in Alive', NEW j \in Alive', i < j PROVE Before(i, j)'
    BY DEF InOrder
  <2>1. CASE j \in DOMAIN chat
    <3>1. i \in DOMAIN chat
      BY <2>1, <1>5, <1>7
    <3> QED BY <3>1, <2>1, <1>5, <1>7, <1>9 DEF InOrder
  <2>2. CASE j \notin DOMAIN chat
    <3>1. PICK k \in 1 .. len : j = n + k
      BY <2>2, <1>5, <1>7
    <3>2. chat'[j].step = base + k /\ base \in Nat
      BY <3>1, <1>2, <1>4, <1>5
    <3>3. CASE i \in DOMAIN chat
      <4>1. chat[i].step <= base /\ chat[i].step \in Nat
        <5>1. i \in Alive /\ i \in DOMAIN chat /\ Calm
          BY <3>3, <1>7, <1>9
        <5>2. chat[i].by = r \/ chat[i].step < base
          BY <5>1, <1>1 DEF ComesNext, Between, base
        <5>3. chat[i].step \in Nat /\ (chat[i].by = r => chat[i].step = base) /\ base \in Nat
          BY <5>1, <1>2, <1>6
        <5> QED BY <5>2, <5>3
      <4> QED BY <4>1, <3>2, <3>3, <1>5 DEF Before
    <3>4. CASE i \notin DOMAIN chat
      <4>1. PICK h \in 1 .. len : i = n + h
        BY <3>4, <1>5, <1>7
      <4>2. chat'[i].step = base + h /\ h < k
        BY <3>1, <4>1, <1>4, <1>5
      <4> QED BY <3>2, <4>2 DEF Before
    <3> QED BY <3>3, <3>4
  <2> QED BY <2>1, <2>2
<1>15. ComesNext'
  BY <1>1, <1>12 DEF ComesNext, Calm
<1>16. LastIsActive'
  <2> SUFFICES ASSUME Calm', NEW i \in Alive', chat'[i].who = "agent", chat'[i].by \in CustomerTurns
               PROVE  ActiveIsMute' \/ \E j \in Alive' : j >= i /\ chat'[j].who = "agent" /\ chat'[j].by = durable'.active
    BY DEF LastIsActive
  <2>0. CASE Remembers(r, rows) /\ to = "mute"
    BY <2>0, <1>0, <1>1, <1>2 DEF ActiveIsMute
  <2>1. CASE Remembers(r, rows) /\ to # "mute"
    <3>1. to = "done" /\ len \in 1 .. len /\ durable'.active = r
      BY <2>1, <1>0, <1>1, <1>3
    <3>2. PICK j \in Alive' : j = n + len /\ chat'[j].who = "agent" /\ chat'[j].by = r
      <4>1. n + len \in Alive'
        BY <3>1, <1>7
      <4>2. chat'[n + len] = new[len] /\ new[len].by = r /\ new[len].who = rows[len] /\ rows[len] = "agent"
        BY <3>1, <1>3, <1>4, <1>5
      <4> QED BY <4>1, <4>2
    <3>3. j >= i
      <4>1. i \in DOMAIN chat \/ \E k \in 1 .. len : i = n + k
        BY <1>5, <1>7
      <4> QED BY <4>1, <3>2, <1>3, <1>5
    <3> QED BY <3>1, <3>2, <3>3
  <2>2. CASE ~Remembers(r, rows)
    <3>1. i \in DOMAIN chat
      <4> SUFFICES ASSUME i \notin DOMAIN chat PROVE FALSE
        OBVIOUS
      <4>1. PICK k \in 1 .. len : i = n + k
        BY <1>5, <1>7
      <4>2. chat'[i].by = r /\ to = "done"
        BY <4>1, <1>4, <1>5, <1>7
      <4> QED BY <4>2, <2>2, <1>0
    <3>2. i \in Alive /\ chat'[i] = chat[i] /\ durable' = durable
      BY <3>1, <2>2, <1>1, <1>5, <1>7
    <3>3. ActiveIsMute => ActiveIsMute'
      BY <3>2, <1>20 DEF ActiveIsMute, Chatting
    <3>4. ActiveIsMute \/ \E j \in Alive : j >= i /\ chat[j].who = "agent" /\ chat[j].by = durable.active
      BY <3>2, <1>9 DEF LastIsActive
    <3> QED BY <3>2, <3>3, <3>4, <1>5, <1>7
  <2> QED BY <2>0, <2>1, <2>2
<1>17. StepsBounded'
  <2>1. PICK b \in Nat : \A i \in DOMAIN chat : chat[i].step <= b
    BY DEF StepsBounded
  <2>2. b \in Nat /\ base \in Nat /\ len \in Nat /\ b + (base + len) \in Nat
    BY <1>2, <1>3
  <2>3. ASSUME NEW i \in DOMAIN chat' PROVE chat'[i].step <= b + (base + len)
    <3>1. CASE i \in DOMAIN chat
      BY <3>1, <2>1, <2>2, <1>5, <1>6
    <3>2. CASE i \notin DOMAIN chat
      <4>1. PICK k \in 1 .. len : i = n + k
        BY <3>2, <1>5
      <4>2. chat'[i].step = base + k /\ k <= len
        <5>1. k \in Nat /\ k <= len
          BY <2>2
        <5>2. chat'[i] = new[k] /\ new[k].step = base + k
          BY <4>1, <1>4, <1>5
        <5> QED BY <5>1, <5>2
      <4> QED BY <4>2, <2>2
    <3> QED BY <3>1, <3>2
  <2> QED BY <2>2, <2>3 DEF StepsBounded
<1>18. HistoryShape'
  <2>1. durable' \in [active : CustomerTurns \cup {NoRun}, lines : SUBSET CustomerTurns]
    BY <1>1 DEF Remembers, HistoryShape, Outs
  <2>2. meta' \in Metas
    BY <1>1 DEF CommitsMeta, HistoryShape, Copies
  <2> QED BY <1>1, <1>2, <1>5, <2>1, <2>2 DEF HistoryShape
<1>19. OverKnowNothing' /\ CopiesForget'
  <2>1. \A x \in Chatting \ {r} : stage'[x] = stage[x] /\ own'[x] = own[x] /\ seen'[x] = seen[x]
    BY <1>2
  <2>2. own'[r].copy.sum = {} /\ seen'[r].sum = {}
    BY <1>2
  <2>3. (\A S : Remains(S)' = Remains(S)) /\ Remains({})
    BY <1>1 DEF Remains
  <2>4. OverKnowNothing'
    BY <2>1, <2>2 DEF OverKnowNothing
  <2>6. carried \/ Remains(meta'.sum)
    BY <1>1 DEF CommitsMeta, CopiesForget
  <2>5. CopiesForget'
    BY <2>1, <2>2, <2>3, <2>6, <1>1 DEF CopiesForget
  <2> QED BY <2>4, <2>5
<1> QED BY <1>9, <1>10, <1>11, <1>13, <1>14, <1>15, <1>16, <1>17, <1>18, <1>19

LEMMA FailsKeeps == ASSUME HistoryInv, NEW r \in Chatting, NEW how \in {"failed", "cancelled"}, Fails(r, how) PROVE HistoryInv'
BY OverKeeps DEF Fails, Unstored

LEMMA LosesKeeps == ASSUME HistoryInv, NEW r \in Chatting, Loses(r) PROVE HistoryInv'
BY OverKeeps DEF Loses, Unstored

LEMMA AbandonsKeeps == ASSUME HistoryInv, NEW r \in Chatting, Abandons(r) PROVE HistoryInv'
BY OverKeeps DEF Abandons, Unstored

LEMMA DropsKeeps == ASSUME HistoryInv, NEW r \in Chatting, Drops(r) PROVE HistoryInv'
BY OverKeeps DEF Drops, Unstored

(* What comes from outside.                                                 *)
LEMMA DeskLoadsKeeps == ASSUME HistoryInv, DeskLoads PROVE HistoryInv'
<1> USE DEF HistoryInv, DeskLoads
<1>1. HistoryShape' /\ OverKnowNothing' /\ CopiesForget'
  BY DEF HistoryShape, OverKnowNothing, CopiesForget, Remains
<1>2. OfRows'
  BY RowsUndisturbed
<1> QED BY <1>1, <1>2

LEMMA DeskSendsKeeps == ASSUME HistoryInv, DeskSends PROVE HistoryInv'
<1> USE DEF HistoryInv, OfRows
<1> DEFINE added == Message(NoRun, "agent", Reserved, Len(chat))
<1>n. PICK n \in Nat : n = Len(chat)
  BY ChatThere, RowTypes
<1>1. added \in ChatRows /\ added.by = NoRun /\ added.who = "agent" /\ added.step = Reserved
  BY <1>n, HistoryBounds DEF Message, ChatRows
<1>2. PICK new \in Seq(ChatRows) : Len(new) = 1 /\ new[1] = added /\ chat' = chat \o new
  <2>1. <<added>> \in Seq(ChatRows) /\ Len(<<added>>) = 1 /\ <<added>>[1] = added /\ chat' = chat \o <<added>>
    BY <1>1, ChatThere DEF DeskSends
  <2> HIDE DEF added
  <2> QED BY <2>1
<1>3. UNCHANGED <<gone, durable, stage, own, seen, out, dirty, overlapped, hidden, carried>> /\ desk' = {} /\ meta' \in desk
  BY DEF DeskSends
<1> HIDE DEF added
<1>4. /\ chat' \in Seq(ChatRows) /\ gone' <= Len(chat') /\ DOMAIN chat = 1 .. n /\ DOMAIN chat' = DOMAIN chat \cup {n + 1}
      /\ \A i \in DOMAIN chat : chat'[i] = chat[i]
      /\ chat'[n + 1] = added
  <2>1. /\ chat' \in Seq(ChatRows) /\ gone' <= Len(chat') /\ Len(chat') = n + 1
        /\ DOMAIN chat = 1 .. n /\ DOMAIN chat' = 1 .. Len(chat')
        /\ \A i \in DOMAIN chat : chat'[i] = chat[i]
        /\ \A k \in 1 .. 1 : chat'[n + k] = new[k]
    BY <1>2, <1>3, <1>n, RowsAdded
  <2>2. chat'[n + 1] = added
    BY <1>2, <2>1
  <2> QED BY <2>1, <2>2
<1>5. Noted' /\ ~Calm'
  BY <1>1, <1>4 DEF Noted, Calm
<1>6. HistoryShape' /\ OverKnowNothing' /\ CopiesForget'
  BY <1>3, <1>4 DEF HistoryShape, OverKnowNothing, CopiesForget, Remains
<1>7. ReadRowsStay' /\ ReadsTheLast' /\ CancelledIsTrue' /\ ActiveIsLatest'
  BY <1>2, <1>3, ReadersStay DEF HasRead
<1>8. RowsHaveRuns'
  BY <1>1, <1>3, <1>4 DEF RowsHaveRuns, AnswerTo
<1>9. OneBetween' /\ LinesAreKept' /\ InOrder' /\ ComesNext' /\ LastIsActive'
  BY <1>3, <1>5 DEF OneBetween, LinesAreKept, InOrder, ComesNext, LastIsActive
<1>10. StepsBounded'
  <2>1. PICK b \in Nat : \A i \in DOMAIN chat : chat[i].step <= b
    BY DEF StepsBounded
  <2>2. b + Reserved \in Nat /\ \A i \in DOMAIN chat' : chat'[i].step <= b + Reserved
    BY <2>1, <1>1, <1>4, RowTypes, ChatThere, HistoryBounds
  <2> QED BY <2>2 DEF StepsBounded
<1> QED BY <1>6, <1>7, <1>8, <1>9, <1>10

LEMMA ResetsKeeps == ASSUME HistoryInv, Resets PROVE HistoryInv'
<1> USE DEF HistoryInv, OfRows
<1>1. /\ gone' = Len(chat) /\ meta' = NoMeta /\ UNCHANGED <<chat, durable, stage, own, seen, out, dirty, desk, overlapped, hidden>>
      /\ carried' = (carried \/ desk # {} \/ \E r \in Chatting : stage[r] \in UnderWay)
  BY DEF Resets
<1>2. Len(chat) \in Nat
  BY ChatThere, RowTypes
<1>3. HistoryShape' /\ OverKnowNothing'
  BY <1>1, <1>2, BlankTypes DEF HistoryShape, OverKnowNothing
<1>4. CopiesForget'
  <2> SUFFICES ASSUME ~carried'
               PROVE  /\ Remains(meta.sum)' /\ \A m \in desk : Remains(m.sum)'
                      /\ \A r \in Chatting : Remains(own[r].copy.sum)' /\ Remains(seen[r].sum)'
    BY <1>1 DEF CopiesForget
  <2>1. desk = {} /\ \A r \in Chatting : own[r].copy.sum = {} /\ seen[r].sum = {}
    BY <1>1 DEF OverKnowNothing
  <2> QED BY <2>1, <1>1, BlankTypes DEF Remains
<1>5. Alive' = {}
  <2>1. Present' = {}
    BY <1>1, <1>2 DEF Present
  <2> QED BY <2>1 DEF Alive, Kept
<1>6. InOrder' /\ ComesNext' /\ LastIsActive'
  BY <1>5 DEF InOrder, ComesNext, LastIsActive
<1>7. RowsHaveRuns' /\ OneBetween' /\ LinesAreKept' /\ ReadRowsStay' /\ StepsBounded'
  BY <1>1 DEF RowsHaveRuns, AnswerTo, OneBetween, LinesAreKept, ReadRowsStay, HasRead, StepsBounded
<1>8. ReadsTheLast' /\ CancelledIsTrue' /\ ActiveIsLatest'
  BY <1>1 DEF ReadsTheLast, CancelledIsTrue, ActiveIsLatest, TellsTheLast, AnswersRead, HasRead, Noted, Before
<1> QED BY <1>3, <1>4, <1>6, <1>7, <1>8

LEMMA HistoryStep == HistoryInv /\ [HistoryNext]_historyVars => HistoryInv'
<1> SUFFICES ASSUME HistoryInv, [HistoryNext]_historyVars PROVE HistoryInv'
  OBVIOUS
<1>1. ASSUME NEW r \in Chatting, RunStep(r) PROVE HistoryInv'
  BY <1>1, ArrivesKeeps, EntersKeeps, SummarisedKeeps, SummaryFailsKeeps, StoresKeeps, RepliesKeeps, SavesKeeps,
     FailsKeeps, LosesKeeps, AbandonsKeeps, DropsKeeps DEF RunStep
<1>2. CASE UNCHANGED historyVars
  <2> USE DEF historyVars
  <2>1. OfRows'
    BY <1>2, RowsUndisturbed
  <2>2. HistoryShape' /\ OverKnowNothing' /\ CopiesForget'
    BY <1>2 DEF HistoryInv, HistoryShape, OverKnowNothing, CopiesForget, Remains
  <2> QED BY <2>1, <2>2 DEF HistoryInv
<1> QED BY <1>1, <1>2, DeskLoadsKeeps, DeskSendsKeeps, ResetsKeeps DEF HistoryNext

(* What the invariant says of the properties.                               *)
LEMMA HistoryInvSuffices == HistoryInv => HistoryHolds
<1> SUFFICES ASSUME HistoryInv PROVE HistoryHolds
  OBVIOUS
<1>1. ReadsTheLast /\ CancelledIsTrue /\ ActiveIsLatest
  BY DEF HistoryInv, OfRows
<1>2. ResetForgets
  BY DEF HistoryInv, CopiesForget, Remains, ResetForgets
<1>3. TurnsAreNoted
  BY DEF HistoryInv, OfRows, LinesAreKept, TurnsAreNoted
<1> QED BY <1>1, <1>2, <1>3 DEF HistoryHolds

\* For any runs of the customer and heartbeats, any triggers and limits: what a
\* run is told of the chat is what came last in it, unless one of the named
\* things happened; no answered turn is called cancelled, /reset is not undone
\* by a summary, active_context is about the turn answered last, and every
\* answered turn keeps its line in the daily notes.
THEOREM HistoryAlwaysHolds == HistorySpec => []HistoryHolds
<1>1. HistoryInit => HistoryInv
  BY HistoryInitHolds
<1>2. HistoryInv /\ [HistoryNext]_historyVars => HistoryInv'
  BY HistoryStep
<1>3. HistoryInv => HistoryHolds
  BY HistoryInvSuffices
<1> QED BY <1>1, <1>2, <1>3, PTL DEF HistorySpec
=============================================================================
