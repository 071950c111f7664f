------------------------------ MODULE RunKit ------------------------------
(***************************************************************************)
(* What one run has to work with: the tools it is given, the sub-agents    *)
(* that can be built, what the prompt says it can do, Google's tools when  *)
(* they can be had, and the graph that carries out its calls or holds them *)
(* back.                                                                   *)
(*                                                                         *)
(* The contract in the prompt is written from the agent's stored           *)
(* configuration and the groups active so far: before Google is asked, and *)
(* whatever the platform, the turn or the policy have taken away.          *)
(***************************************************************************)
EXTENDS Naturals, FiniteSets

CONSTANTS Setups,    \* the runs: agents, their sessions and what is asked of them
          Subs,      \* sub-agents
          MaxActs    \* bound: tools called
ASSUME KitBounds == MaxActs \in Nat /\ "parent" \notin Subs

VARIABLES setup,    \* whose run it is
          phase,    \* "setup", "subagents", "telling", "google", "compiling", "running", or how it ended
          held,     \* groups of tools the run holds
          subs,     \* sub-agents it has
          claimed,  \* capabilities the prompt says are active
          graph,    \* what carries out the calls: "deep", "react"
          acts       \* tools that acted: whose call it was, for Google or not
kitVars == <<setup, phase, held, subs, claimed, graph, acts>>

Features == {"memory", "skills", "sandbox", "deploy", "tool_creator", "scheduler", "escalation", "http", "tavily",
             "whatsapp_media", "wa_agent_manager", "subagents", "google_workspace"}
(* A setting is absent, true, false, a record that says it is not enabled or, *)
(* of Google's, servers without a word on being enabled.                      *)
KitSetups == [tools : [Features -> {"absent", "true", "false", "off", "unsaid"}],
              builder : BOOLEAN, operator : BOOLEAN, wa : BOOLEAN, admin : BOOLEAN, asks : SUBSET {"reminder", "google"},
              parent : BOOLEAN, platform : SUBSET {"sandboxes", "tavily"},
              subs : [Subs -> SUBSET {"sandbox", "deploy", "gone"}]]
ASSUME SetupsAssumption == Setups \subseteq KitSetups

KitInit ==
    /\ setup \in Setups /\ phase = "setup" /\ held = {} /\ subs = {} /\ claimed = {} /\ graph = "none" /\ acts = {}

-----------------------------------------------------------------------------
(* What is enabled.                                                        *)
ByDefault == {"memory", "skills", "escalation", "tavily", "whatsapp_media"}
ForSandboxes == {"sandbox", "deploy", "tool_creator", "subagents"}
Configured(f) == setup.tools[f] = "true" \/ (setup.tools[f] = "absent" /\ f \in ByDefault)
\* disable_sandbox_subagent_tools_config
On(f) == Configured(f) /\ (f \in ForSandboxes => "sandboxes" \in setup.platform)
GoogleOn == setup.tools["google_workspace"] \in {"true", "unsaid"}
ParentOnly == ~setup.builder /\ setup.parent /\ GoogleOn /\ "google" \in setup.asks
Sandboxed == (On("sandbox") \/ On("deploy")) /\ ~setup.operator /\ ~setup.builder /\ ~ParentOnly
RemindsAnyway == setup.wa /\ ~On("scheduler") /\ "reminder" \in setup.asks /\ ~setup.builder

\* The groups an operator's turn may hold, and the others.
ForAnyTurn == {f \in {"memory", "escalation"} : On(f)}
ForCustomers ==
    {f \in {"skills", "scheduler", "http"} : On(f)}
    \cup {f \in {"sandbox"} : Sandboxed} \cup {f \in {"deploy", "tool_creator"} : Sandboxed /\ On(f)}
    \cup {f \in {"scheduler"} : RemindsAnyway}
    \cup {f \in {"tavily"} : On(f) /\ f \in setup.platform}
    \cup {f \in {"notify", "whatsapp_media"} : setup.wa}    \* media whatever the configuration says
    \cup {f \in {"wa_agent_manager"} : setup.wa /\ On(f)}
    \cup {f \in {"builder"} : setup.builder}

DelegatesAnyTurn == On("subagents") /\ ~setup.builder /\ ~ParentOnly   \* mutant: an operator's turn as well
Delegating == On("subagents") /\ ~setup.operator /\ ~setup.builder /\ ~ParentOnly
SetsUp ==
    /\ phase = "setup"
    /\ held' = ForAnyTurn \cup (IF setup.operator THEN {"operator"} ELSE ForCustomers)
    /\ phase' = IF Delegating THEN "subagents" ELSE "telling"
    /\ UNCHANGED <<setup, subs, claimed, graph, acts>>

\* Those that are found, and can be compiled when they have a sandbox; the
\* parent's own deployment tools go when there are any.
Plain(s) == "sandbox" \notin setup.subs[s]
BuildsSubagents ==
    /\ phase = "subagents" /\ phase' = "telling"
    /\ \E broken \in SUBSET {s \in Subs : ~Plain(s)} : subs' = {s \in Subs \ broken : "gone" \notin setup.subs[s]}
    /\ held' = IF subs' # {} THEN (held \ {"deploy"}) \cup {"subagents"} ELSE held
    /\ UNCHANGED <<setup, claimed, graph, acts>>

Contract == {"memory", "escalation", "sandbox", "deploy", "scheduler", "whatsapp_media", "tavily",
                 "google_workspace", "subagents"}
HighRisk == {"escalation", "sandbox", "deploy", "scheduler", "whatsapp_media", "google_workspace"}
\* bool(tools_config.get(...)): a record that disables is true as well.
Stored(c) == setup.tools[c] = "true" \/ (setup.tools[c] = "off" /\ c \notin {"subagents", "google_workspace"})
Tells ==
    /\ phase = "telling" /\ phase' = "google"
    /\ claimed' = {c \in Contract : c \in held \/ Stored(c)}
    /\ UNCHANGED <<setup, held, subs, graph, acts>>

-----------------------------------------------------------------------------
(* Google's tools, and the graph.                                          *)
GoogleDenied == GoogleOn /\ setup.wa /\ ~setup.admin
\* The servers are connected to; no login, or not reached, and others may have answered.
Connects ==
    \/ phase' = "compiling" /\ held' = held \cup {"google_workspace"}
    \/ UNCHANGED held /\ phase' \in {"compiling"} \cup (IF "google" \in setup.asks THEN {"refused"} ELSE {})
Attaches ==
    /\ phase = "google"
    /\ \/ GoogleDenied /\ "google" \in setup.asks /\ phase' = "refused" /\ UNCHANGED held
       \/ (~GoogleOn \/ (GoogleDenied /\ "google" \notin setup.asks)) /\ phase' = "compiling" /\ UNCHANGED held
       \/ GoogleOn /\ ~GoogleDenied /\ Connects
    /\ UNCHANGED <<setup, subs, claimed, graph, acts>>

Compiles ==
    /\ phase = "compiling"
    /\ \/ graph' = (IF setup.builder THEN "react" ELSE "deep") /\ phase' = "running"
       \/ /\ ~setup.builder       \* create_deep_agent fails
          /\ IF "sandbox" \in held \/ subs # {} THEN phase' = "failed" /\ UNCHANGED graph
                                               ELSE phase' = "running" /\ graph' = "react"
    /\ UNCHANGED <<setup, held, subs, claimed, acts>>

\* The deep graph adds a task tool and files, in the sandbox when there is one.
Tools == held \cup (IF graph = "deep" THEN {"task", "files"} ELSE {})
LocalTools == {"task", "files", "sandbox"}
\* ExternalServiceFallbackGuardMiddleware, BlockTaskToolMiddleware
Blocked(t, google) == /\ graph = "deep"
                      /\ \/ GoogleOn /\ ~GoogleDenied /\ google /\ t \in LocalTools
                         \/ ParentOnly /\ t = "task"
Call(by, t, google) == [by |-> by, tool |-> t, google |-> google]
Acts(t, google) ==
    /\ phase = "running" /\ Cardinality(acts) < MaxActs
    /\ t \in Tools /\ ~Blocked(t, google)
    /\ t = "google_workspace" => google
    /\ acts' = acts \cup {Call("parent", t, google)}
    /\ UNCHANGED <<setup, phase, held, subs, claimed, graph>>
\* A sub-agent with a sandbox is a graph of its own, without the parent's middleware.
Delegates(s, t) ==
    /\ phase = "running" /\ Cardinality(acts) < MaxActs
    /\ graph = "deep" /\ s \in subs /\ t \in setup.subs[s] /\ ~Plain(s)
    /\ ~Blocked("task", FALSE)
    /\ acts' = acts \cup {Call(s, t, FALSE)}
    /\ UNCHANGED <<setup, phase, held, subs, claimed, graph>>

KitNext == \/ SetsUp \/ BuildsSubagents \/ Tells \/ Attaches \/ Compiles
           \/ (\E t \in Tools, google \in BOOLEAN : Acts(t, google))
           \/ (\E s \in subs, t \in {"sandbox", "deploy"} : Delegates(s, t))

-----------------------------------------------------------------------------
Ready == phase = "running"
SubDeploys == \E s \in subs : {"sandbox", "deploy"} \subseteq setup.subs[s]

\* build_runtime_tool_contract_text "Sumber kebenaran tools adalah runtime
\* platform": what the prompt calls active can be called.
ClaimsAreHeld == Ready => claimed \subseteq held

\* Why a capability that the prompt calls active may not be there.
Missing(c) ==
    \/ setup.tools[c] = "off" \/ setup.operator
    \/ c \in ForSandboxes /\ ("sandboxes" \notin setup.platform \/ setup.builder \/ ParentOnly)
    \/ c = "deploy" /\ subs # {} /\ ~SubDeploys
    \/ c = "subagents" /\ subs = {}
    \/ c = "tavily" /\ "tavily" \notin setup.platform
    \/ c = "whatsapp_media" /\ ~setup.wa
    \/ c = "google_workspace"
\* For those reasons only: an enabled capability is never lost otherwise.
ClaimsCanBeCalled == Ready => \A c \in claimed : c \in held \/ (c = "deploy" /\ SubDeploys) \/ Missing(c)
\* Nothing the prompt warns to be missing is there after all, but for Google's
\* tools when only their servers are named.
NothingHidden == Ready => \A c \in held \cap HighRisk : c \in claimed \/ setup.tools[c] = "unsaid"
\* Over WhatsApp Google's tools are for the owner and the operators, and who
\* may use them never has Google's work done by files, sandboxes or others.
GoogleIsForAdmins ==
    Ready => /\ "google_workspace" \in held => setup.admin \/ ~setup.wa
             /\ \A c \in acts : c.google /\ c.tool \in LocalTools => ~GoogleOn \/ GoogleDenied
\* An operator's turn holds nothing of the customer's workflow, the builder
\* neither delegates nor writes files, and a run with sub-agents leaves
\* deploying to them.
TurnsKeepToTheirWork ==
    /\ Ready /\ setup.operator => held \subseteq {"memory", "escalation", "operator", "google_workspace"} /\ subs = {}
    /\ \A c \in acts : /\ setup.builder => c.by = "parent" /\ c.tool \notin LocalTools
                       /\ c.by = "parent" /\ c.tool = "deploy" => subs = {}
KitHolds == ClaimsCanBeCalled /\ NothingHidden /\ GoogleIsForAdmins /\ TurnsKeepToTheirWork
=============================================================================
