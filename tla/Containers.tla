----------------------------- MODULE Containers -----------------------------
(***************************************************************************)
(* The containers the agents' tools start: an app of a session with its    *)
(* Cloudflare tunnel, deployed until its time is over, and the short       *)
(* containers of sandbox commands.                                         *)
(*                                                                         *)
(* deploy_app runs in a thread per call, with container names made of the  *)
(* session and a registry in memory: two deploys of a session meet at the  *)
(* names, those of different sessions at the limit, and a restart forgets  *)
(* the registry while the containers run on.  The two halves share only    *)
(* Docker; MCContainers checks them one after the other.                   *)
(***************************************************************************)
EXTENDS Naturals, FiniteSets

CONSTANTS Sessions, Deploys, MaxDeployments, MaxTunnels,
          Commands, MaxSandboxes,
          Ttl, MaxTime, MaxEvents,  \* the time a deployment lives, and bounds
          None
ASSUME ContainerBounds == /\ MaxDeployments \in Nat \ {0} /\ MaxSandboxes \in Nat \ {0} /\ MaxTunnels \in Nat
                          /\ Ttl \in Nat /\ MaxTime \in Nat /\ MaxEvents \in Nat /\ None \notin Deploys \cup Sessions

VARIABLES now, events,
          registry, \* _deployments: [session -> url and time, or NoEntry]
          app, cf,  \* the containers of that name: [session -> who started it, when, what it shows]
          dep,      \* the threads of deploy_app
          urls,     \* tunnels opened
          torn,     \* sessions whose entry may not be the running tunnel's
          crowd     \* two deploys were under way at once since a restart
deployVars == <<now, events, registry, app, cf, dep, urls, torn, crowd>>

NoEntry == [url |-> 0, at |-> 0]
NoContainer == [by |-> None, at |-> 0, net |-> None, url |-> 0]
Idle == [at |-> "idle", s |-> None, born |-> 0, tries |-> 0, url |-> 0]

DeployInit == /\ now = 0 /\ events = 0 /\ urls = 0 /\ torn = {} /\ crowd = FALSE
              /\ registry = [s \in Sessions |-> NoEntry]
              /\ app = [s \in Sessions |-> NoContainer] /\ cf = [s \in Sessions |-> NoContainer]
              /\ dep = [d \in Deploys |-> Idle]

There(c) == c # NoContainer
Busy(s) == {d \in Deploys : dep[d].at # "idle" /\ dep[d].s = s}
Old(at) == now - at > Ttl
Happens == events < MaxEvents /\ events' = events + 1
\* A thread that ends leaves nothing behind.
Ends(d) == dep' = [dep EXCEPT ![d] = Idle]
Goes(d, at) == dep' = [dep EXCEPT ![d].at = at]
Killed(gone) == /\ app' = [s \in Sessions |-> IF s \in gone THEN NoContainer ELSE app[s]]
                /\ cf' = [s \in Sessions |-> IF s \in gone THEN NoContainer ELSE cf[s]]
Unregistered(gone) == registry' = [s \in Sessions |-> IF s \in gone THEN NoEntry ELSE registry[s]]
Registered == {s \in Sessions : registry[s] # NoEntry}

-----------------------------------------------------------------------------
\* _evict_expired: by the registry's time, then every container by the time in
\* its own label, which is the earlier one.
Expired == {s \in Registered : Old(registry[s].at)}
Evicted == /\ Unregistered(Expired)
           /\ app' = [s \in Sessions |-> IF s \in Expired \/ Old(app[s].at) THEN NoContainer ELSE app[s]]
           /\ cf' = [s \in Sessions |-> IF s \in Expired \/ Old(cf[s].at) THEN NoContainer ELSE cf[s]]

Starts(d, s) ==
    /\ dep[d].at = "idle" /\ Evicted /\ torn' = torn \cup (IF Busy(s) # {} THEN {s} ELSE {})
    /\ crowd' = (crowd \/ \E e \in Deploys : dep[e].at # "idle")
    /\ dep' = [dep EXCEPT ![d].at = "evicted", ![d].s = s]
    /\ UNCHANGED <<now, events, urls>>

\* Mutant: the limit is compared with one more.
FullLate == Cardinality(Registered) > MaxDeployments

\* At the limit a session that is not registered takes the oldest one's place.
Full == Cardinality(Registered) >= MaxDeployments

MakesRoom(d) ==
    /\ dep[d].at = "evicted" /\ Goes(d, "room")
    /\ \/ /\ dep[d].s \notin Registered /\ Full
          /\ \E oldest \in Registered : /\ \A s \in Registered : registry[oldest].at <= registry[s].at
                                        /\ Killed({oldest}) /\ Unregistered({oldest})
                                        /\ torn' = torn \cup (IF Busy(oldest) # {} THEN {oldest} ELSE {})
       \/ (dep[d].s \in Registered \/ ~Full) /\ UNCHANGED <<registry, app, cf, torn>>
    /\ UNCHANGED <<now, events, urls, crowd>>
ClearsNames(d) == /\ dep[d].at = "room" /\ Goes(d, "clear") /\ Killed({dep[d].s})
                  /\ UNCHANGED <<now, events, registry, urls, torn, crowd>>

RunsApp(d) ==
    LET s == dep[d].s
    IN /\ dep[d].at = "clear"
       /\ \/ /\ ~There(app[s]) /\ app' = [app EXCEPT ![s] = [NoContainer EXCEPT !.by = d, !.at = now]]
             /\ dep' = [dep EXCEPT ![d].at = "app", ![d].born = now]
          \/ There(app[s]) /\ Ends(d) /\ UNCHANGED app   \* the name is in use
       /\ UNCHANGED <<now, events, registry, cf, urls, torn, crowd>>
\* A command that ends at once: the thread removes the container it holds.
AppExits(d) == /\ dep[d].at = "app" /\ Ends(d)
               /\ app' = [app EXCEPT ![dep[d].s] = IF @.by = d THEN NoContainer ELSE @]
               /\ UNCHANGED <<now, events, registry, cf, urls, torn, crowd>>

\* Three times: the tunnel's name is cleared, then the tunnel run in the network
\* of the app container the thread holds.
ClearsTunnel(d) == /\ dep[d].at \in {"app", "again"} /\ Goes(d, "tunnel") /\ cf' = [cf EXCEPT ![dep[d].s] = NoContainer]
                   /\ UNCHANGED <<now, events, registry, app, urls, torn, crowd>>
Held(d) == app[dep[d].s].by = d /\ app[dep[d].s].at = dep[d].born
RunsTunnel(d) ==
    /\ dep[d].at = "tunnel" /\ Held(d) /\ ~There(cf[dep[d].s]) /\ urls < MaxTunnels
    /\ cf' = [cf EXCEPT ![dep[d].s] = [by |-> d, at |-> dep[d].born, net |-> d, url |-> urls + 1]] /\ urls' = urls + 1
    /\ Goes(d, "listening") /\ UNCHANGED <<now, events, registry, app, torn, crowd>>
TunnelFails(d) ==
    /\ dep[d].at = "tunnel" /\ (~Held(d) \/ There(cf[dep[d].s]) \/ events < MaxEvents)
    /\ IF Held(d) /\ ~There(cf[dep[d].s]) THEN Happens ELSE UNCHANGED events
    /\ \/ dep[d].tries < 2 /\ dep' = [dep EXCEPT ![d].at = "again", ![d].tries = @ + 1] /\ UNCHANGED <<app, cf>>
       \/ dep[d].tries = 2 /\ Ends(d) /\ Killed({dep[d].s})    \* by name, whoever's they are
    /\ UNCHANGED <<now, registry, urls, torn, crowd>>

\* The address is read from the log of the container of that name.
HearsUrl(d) == /\ dep[d].at = "listening" /\ There(cf[dep[d].s])
               /\ dep' = [dep EXCEPT ![d].at = "heard", ![d].url = cf[dep[d].s].url]
               /\ UNCHANGED <<now, events, registry, app, cf, urls, torn, crowd>>
\* No address in time: an error, while the containers run on, beside the entry of
\* the deployment before.
HearsNothing(d) ==
    /\ dep[d].at = "listening" /\ Ends(d)
    /\ IF There(cf[dep[d].s]) THEN Happens ELSE UNCHANGED events
    /\ torn' = torn \cup (IF registry[dep[d].s] # NoEntry THEN {dep[d].s} ELSE {})
    /\ UNCHANGED <<now, registry, app, cf, urls, crowd>>
Registers(d) ==
    LET s == dep[d].s
    IN /\ dep[d].at = "heard" /\ Ends(d) /\ registry' = [registry EXCEPT ![s] = [url |-> dep[d].url, at |-> now]]
       /\ torn' = IF Busy(s) = {d} /\ Held(d) /\ cf[s].url = dep[d].url THEN torn \ {s} ELSE torn \cup {s}
       /\ UNCHANGED <<now, events, app, cf, urls, crowd>>

-----------------------------------------------------------------------------
\* stop_deployment, and get_deployment_status of an entry whose time is over.
Stops(s) == /\ Killed({s}) /\ Unregistered({s}) /\ Happens
            /\ torn' = torn \cup (IF Busy(s) # {} THEN {s} ELSE {}) /\ UNCHANGED <<now, dep, urls, crowd>>
SeesItOver(s) == /\ s \in Expired /\ Killed({s}) /\ Unregistered({s})
                 /\ torn' = torn \cup (IF Busy(s) # {} THEN {s} ELSE {}) /\ UNCHANGED <<now, events, dep, urls, crowd>>
Status(s) == IF s \notin Registered THEN "not_deployed"
             ELSE IF There(app[s]) /\ There(cf[s]) THEN "running" ELSE "degraded"
CleansUp == Evicted /\ UNCHANGED <<now, events, dep, urls, torn, crowd>>
\* Docker restarts a tunnel that died; it comes back with another address.
TunnelReturns(s) == /\ There(cf[s]) /\ urls < MaxTunnels /\ Happens
                    /\ cf' = [cf EXCEPT ![s].url = urls + 1] /\ urls' = urls + 1 /\ torn' = torn \cup {s}
                    /\ UNCHANGED <<now, registry, app, dep, crowd>>
\* The process starts anew: no registry, no threads, the containers still there.
Restarts == /\ Happens /\ Unregistered(Sessions) /\ dep' = [d \in Deploys |-> Idle] /\ torn' = {} /\ crowd' = FALSE
            /\ UNCHANGED <<now, app, cf, urls>>
Ticks == now < MaxTime /\ now' = now + 1 /\ UNCHANGED <<events, registry, app, cf, dep, urls, torn, crowd>>

DeployStep(d) ==
    \/ \E s \in Sessions : Starts(d, s)
    \/ MakesRoom(d) \/ ClearsNames(d) \/ RunsApp(d) \/ AppExits(d) \/ ClearsTunnel(d) \/ RunsTunnel(d) \/ TunnelFails(d)
    \/ HearsUrl(d) \/ HearsNothing(d) \/ Registers(d)
DeployNext == \/ \E d \in Deploys : DeployStep(d)
              \/ \E s \in Sessions : Stops(s) \/ SeesItOver(s) \/ TunnelReturns(s)
              \/ CleansUp \/ Restarts \/ Ticks

-----------------------------------------------------------------------------
\* Sandbox commands.  A tool that is awaited takes a place of the semaphore, and
\* gives it back when its turn is cancelled although its thread goes on; a custom
\* tool's command takes none.
VARIABLES cmd,      \* [command -> where it is, its session, whether it is awaited]
          turnedOff,\* sessions in which a turn was cancelled while a command ran
          crowded   \* two commands were between the look at Docker and the start
commandVars == <<cmd, turnedOff, crowded>>

CommandInit == /\ cmd = [c \in Commands |-> [at |-> "idle", s |-> None, awaited |-> FALSE, wanted |-> TRUE]]
               /\ turnedOff = {} /\ crowded = FALSE
InPlace == {c \in Commands : cmd[c].awaited /\ cmd[c].at \in {"asked", "checked", "running"}}
RunningNow == {c \in Commands : cmd[c].at = "running"}
Turns(c, at) == cmd' = [cmd EXCEPT ![c].at = at]

Asks(c, s, awaited) ==
    /\ cmd[c].at = "idle" /\ (awaited => Cardinality(InPlace) < MaxSandboxes)
    /\ cmd' = [cmd EXCEPT ![c].at = "asked", ![c].s = s, ![c].awaited = awaited] /\ UNCHANGED <<turnedOff, crowded>>
\* The containers with the label are counted, then the command's is run.
\* Mutant: a container more is allowed.
RoomForOneMore == Cardinality(RunningNow) <= MaxSandboxes

RoomForIt == Cardinality(RunningNow) < MaxSandboxes

LooksAtDocker(c) ==
    /\ cmd[c].at = "asked"
    /\ \/ RoomForIt /\ Turns(c, "checked") /\ crowded' = (crowded \/ \E b \in Commands : cmd[b].at = "checked")
       \/ ~RoomForIt /\ Turns(c, "refused") /\ UNCHANGED crowded
    /\ UNCHANGED turnedOff
RunsIt(c) == cmd[c].at = "checked" /\ Turns(c, "running") /\ UNCHANGED <<turnedOff, crowded>>
Finishes(c) == cmd[c].at = "running" /\ Turns(c, "done") /\ UNCHANGED <<turnedOff, crowded>>
\* abash: the containers of the session are killed, those of other commands too;
\* a thread that has not started its own goes on to do so.
Cancels(c) ==
    /\ c \in InPlace
    /\ cmd' = [b \in Commands |->
                 LET hit == cmd[b].at = "running" /\ cmd[b].s = cmd[c].s
                 IN [cmd[b] EXCEPT !.at = IF hit THEN "killed" ELSE @, !.awaited = IF b = c THEN FALSE ELSE @,
                                   !.wanted = IF b = c /\ ~hit THEN FALSE ELSE @]]
    /\ turnedOff' = turnedOff \cup {cmd[c].s} /\ UNCHANGED crowded
\* cleanup_orphan_sandboxes, when a command runs longer than it may.
Reaps(c) == cmd[c].at = "running" /\ Turns(c, "reaped") /\ UNCHANGED <<turnedOff, crowded>>
CommandNext == \E c \in Commands : \/ \E s \in Sessions, awaited \in BOOLEAN : Asks(c, s, awaited)
                                   \/ LooksAtDocker(c) \/ RunsIt(c) \/ Finishes(c) \/ Cancels(c) \/ Reaps(c)

-----------------------------------------------------------------------------
\* The address a session is told is that of the tunnel that runs, and the tunnel
\* leads to the app that runs, unless two deploys or a stop met, the last one heard
\* no address, or the tunnel came back with another.  No more deployments are
\* registered than the limit, unless two deploys were under way at once.  Sandbox
\* commands keep to their limit unless two looked at Docker before either started,
\* and a command is killed only by its own session's turn.
\* (deploy_app, get_deployment_status, bash_result, abash)
UrlLeadsToTheApp ==
    \A s \in Sessions : Status(s) = "running" /\ s \notin torn /\ Busy(s) = {} =>
        registry[s].url = cf[s].url /\ cf[s].net = app[s].by
DeploymentsKeepLimit == Cardinality(Registered) > MaxDeployments => crowd
CommandsKeepLimit == /\ Cardinality(RunningNow) > MaxSandboxes => crowded
                     /\ \A c \in Commands : cmd[c].at = "killed" => cmd[c].s \in turnedOff
ContainersAccountedFor == UrlLeadsToTheApp /\ DeploymentsKeepLimit /\ CommandsKeepLimit
=============================================================================
