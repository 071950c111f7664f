------------------------------- MODULE Builder -------------------------------
(***************************************************************************)
(* Arthur's tools that make and change agents, and the API beside them, on *)
(* one owner's agents.  A call reads an agent, decides on what it read,    *)
(* and commits later; the first statement after an attribute changed sends *)
(* the UPDATE and so holds the agent's row until the end.  An UPDATE names *)
(* the columns that changed: name, instructions, tools_config, version.    *)
(* The operating manual is a row per version and also a part of            *)
(* tools_config; global memories have no scope, so nothing keeps their     *)
(* keys unique.  Texts are the words that the workflow detectors look for. *)
(***************************************************************************)
EXTENDS Naturals, FiniteSets

CONSTANTS Requests, Built,   \* calls open at a time; agent ids
          Specs, Changes,    \* what create_agent and update_agent are asked for
          Entitled,          \* capabilities the owner's plan allows
          MaxRequests

ASSUME BuilderBounds == MaxRequests \in Nat /\ "none" \notin Requests

Words == {"pay", "approve", "file", "make"}
Contracts == {"approval", "parent"}   \* what instructions lay down for payments and for files
Capabilities == {"escalation", "media", "sandbox", "subagents", "rag"}
SpecOk(s) == /\ s.do = "create" /\ s.name \in STRING
             /\ s.says \cup s.aside \cup s.told \subseteq Words /\ s.keeps \subseteq Contracts /\ s.tools \subseteq Capabilities
             /\ s.file \in {"", "enabled", "text_only"} /\ s.manual \in {"usable", "review"} /\ s.numbered \in 1..9
ASSUME SpecsAreSpecs == \A s \in Specs : SpecOk(s)
ASSUME ChangesAreChanges ==
    Changes \subseteq [do : {"update"}, name : STRING, fields : SUBSET {"instructions", "tools_config", "model"},
                       says : SUBSET Words, keeps : SUBSET Contracts, tools : SUBSET Capabilities, off : SUBSET Capabilities,
                       manual : {"none", "usable", "review"}, told : SUBSET Words, mode : {"none", "selective", "major"}]

VARIABLES row,      \* agents
          manual,   \* agent_operating_manuals, with a ghost: fits the agent's configuration
          memory,   \* agent_memories without a scope
          docs,     \* agents with documents
          holds,    \* the request that holds an agent's row
          req, asked,
          open,     \* the setting sandbox_subagents_enabled
          excused   \* ghost: <<why, agent>>
builderVars == <<row, manual, memory, docs, holds, req, asked, open, excused>>

NoRow == [live |-> FALSE, name |-> "none", says |-> {}, block |-> FALSE, keeps |-> {}, tools |-> {}, told |-> {}, version |-> 0]
Nothing == [do |-> "none"]
Free == [at |-> "idle", agent |-> "none", for |-> Nothing, read |-> NoRow, seen |-> {}, keys |-> {}]
BuilderInit == /\ row = [a \in Built |-> NoRow] /\ manual = {} /\ memory = {} /\ docs = {} /\ holds = [a \in Built |-> "none"]
               /\ req = [r \in Requests |-> Free] /\ asked = 0 /\ open \in BOOLEAN /\ excused = {}

-----------------------------------------------------------------------------
\* What the detectors make of the texts; a configuration's texts include the manual
\* within tools_config and the identity block, which has a word for paying in it.
Payment(w) == {"pay", "approve"} \subseteq w
Delivery(w) == "file" \in w
Generated(w) == {"file", "make"} \subseteq w
Texts(c) == c.says \cup c.told \cup (IF c.block THEN {"pay"} ELSE {})
Lacking(w, keeps, tools) ==
    (IF Payment(w) /\ ~("approval" \in keeps /\ "escalation" \in tools) THEN {"payment"} ELSE {})
    \cup (IF Delivery(w) /\ ~("parent" \in keeps /\ "media" \in tools) THEN {"delivery"} ELSE {})
    \cup (IF Generated(w) /\ ~({"sandbox", "subagents"} \subseteq tools) THEN {"generated"} ELSE {})

CriticalErrors(c) == Lacking(Texts(c), c.keeps, c.tools)
LaunchSafe(tools) == IF open THEN tools ELSE tools \ {"sandbox", "subagents"}

Entitlement(tools) == "subagents" \in tools => "subagents" \in Entitled

\* The tools create_agent ends up with, and the reasons it refuses: the feature is closed,
\* a contract is missing, nobody decided about files, the plan does not allow it.
Wanted(s) == s.tools \cup (IF s.file = "enabled" THEN {"media", "sandbox", "subagents"} ELSE {})
Closed(s) == ~open /\ (Generated(s.says \cup s.aside) \/ s.file = "enabled")
Undecided(s) == /\ ~Delivery(s.says \cup s.aside) /\ s.file = ""
                /\ ~({"sandbox", "media"} \subseteq LaunchSafe(Wanted(s)))

Accepts(s) == /\ ~Closed(s) /\ ~Undecided(s) /\ Lacking(s.says \cup s.aside, s.keeps, LaunchSafe(Wanted(s))) = {}
              /\ Entitlement(LaunchSafe(Wanted(s)))

-----------------------------------------------------------------------------
Opened(r, a, q) == /\ req[r].at = "idle" /\ asked < MaxRequests /\ asked' = asked + 1
                 /\ req' = [req EXCEPT ![r] = [q EXCEPT !.at = "open", !.agent = a]]
                 /\ UNCHANGED <<row, manual, memory, docs, holds, open, excused>>
Answered(r) == req' = [req EXCEPT ![r] = Free] /\ UNCHANGED <<asked, open>>
Doing(r, at, do) == req[r].at = at /\ req[r].for.do = do
RowFree(a) == holds[a] = "none"
Named(n) == {a \in Built : row[a].live /\ row[a].name = n}
\* A name another request took after this one looked.
Taken(r, n) == Named(n) \ (req[r].seen \cup {req[r].agent})
SameName(r, n) == IF Taken(r, n) = {} THEN {} ELSE {<<"raced", a>> : a \in Taken(r, n) \cup {req[r].agent}}

\* create_agent: the name is looked up in a session of its own.
Create(r, a, s) == /\ row[a] = NoRow /\ \A q \in Requests : req[q].agent # a
                   /\ Accepts(s) /\ Named(s.name) = {}
                   /\ Opened(r, a, [Free EXCEPT !.for = s, !.seen = Named(s.name)])

Made(s) == [NoRow EXCEPT !.live = TRUE, !.name = s.name, !.says = s.says, !.block = TRUE, !.keeps = s.keeps,
                         !.tools = LaunchSafe(Wanted(s)), !.told = s.told, !.version = 1]
Memory(a, k, v, says, by) == [agent |-> a, key |-> k, v |-> v, says |-> says, copy |-> 1, by |-> by]
CreateCommits(r) ==
    /\ Doing(r, "open", "create") /\ Answered(r) /\ UNCHANGED <<docs, holds>>
    /\ LET a == req[r].agent  s == req[r].for
       IN /\ row' = [row EXCEPT ![a] = Made(s)]
          /\ manual' = manual \cup {[agent |-> a, version |-> s.numbered, state |-> s.manual, fits |-> TRUE]}
          /\ memory' = memory \cup {Memory(a, "soul", 0, 0, "create")}
          /\ excused' = excused \cup SameName(r, s.name) \cup (IF s.numbered > 1 THEN {<<"numbered", a>>} ELSE {})

-----------------------------------------------------------------------------
\* update_agent.
TakesText(c) == "instructions" \in c.fields
TakesTools(c) == "tools_config" \in c.fields
AsksManual(c) == c.manual # "none"
Changed(read, c) ==
    [read EXCEPT !.name = IF c.name = "" THEN @ ELSE c.name,
                 !.says = IF TakesText(c) THEN c.says ELSE @, !.keeps = IF TakesText(c) THEN c.keeps ELSE @,
                 !.block = @ /\ ~TakesText(c),
                 !.tools = LaunchSafe(IF TakesTools(c) THEN (@ \cup c.tools) \ c.off ELSE @)]
IdentityIsTouched(c) == TakesText(c) \/ TakesTools(c)
WorkflowIsTouched(read, c) == c.name # "" \/ IdentityIsTouched(c) \/ Changed(read, c).tools # read.tools
UpdateAcceptsAsRead(read, c) == WorkflowIsTouched(read, c) => CriticalErrors(read) = {}

UpdateAccepts(read, c) == WorkflowIsTouched(read, c) => CriticalErrors(Changed(read, c)) = {}

UpdateEntitled(read, c) == TakesTools(c) \/ AsksManual(c) \/ Changed(read, c).tools # read.tools \/ "model" \in c.fields
                           => Entitlement(Changed(read, c).tools)
Update(r, a, c) == /\ row[a].live /\ UpdateAccepts(row[a], c) /\ UpdateEntitled(row[a], c)
                   /\ (c.name # "" => Named(c.name) \subseteq {a})
                   /\ Opened(r, a, [Free EXCEPT !.for = c, !.read = row[a], !.seen = IF c.name = "" THEN {} ELSE Named(c.name)])

\* What is written: the columns that differ from those read.
New(read, c) == [Changed(read, c) EXCEPT !.block = @ \/ IdentityIsTouched(c), !.told = IF AsksManual(c) THEN c.told ELSE @,
                                         !.version = read.version + 1]
Column(read, new, now, attributes) == IF \A x \in attributes : new[x] = read[x] THEN now ELSE new
Instructions == {"says", "block", "keeps"}
ToolsConfig == {"tools", "told"}
Merge(read, new, now) ==
    LET texts == Column(read, new, now, Instructions)  config == Column(read, new, now, ToolsConfig)
    IN [now EXCEPT !.name = Column(read, new, now, {"name"}).name, !.version = new.version,
                   !.says = texts.says, !.block = texts.block, !.keeps = texts.keeps,
                   !.tools = config.tools, !.told = config.told]

Keys(a) == {m \in memory : m.agent = a}
\* The row is held from here on.
Locks(r) == /\ Doing(r, "open", "update") /\ RowFree(req[r].agent)
            /\ req' = [req EXCEPT ![r].at = "locked", ![r].keys = Keys(req[r].agent)]
            /\ holds' = [holds EXCEPT ![req[r].agent] = r]
            /\ UNCHANGED <<row, manual, memory, docs, asked, open, excused>>
Releases(r) == holds' = [holds EXCEPT ![req[r].agent] = "none"]

\* upsert_memory without a scope looks for the key, and raises when it finds two rows.
SameKey(m, n) == m.agent = n.agent /\ m.key = n.key /\ m.v = n.v
Found(seen, new) == {m \in seen : SameKey(m, new)}
Upsertable(seen, new) == Cardinality(Found(seen, new)) <= 1
Upserted(rows, seen, new) ==
    IF Found(seen, new) = {} THEN rows \cup {[new EXCEPT !.copy = Cardinality(Found(rows, new)) + 1]}
    ELSE {IF SameKey(m, new) /\ \E o \in Found(seen, new) : o.copy = m.copy THEN [m EXCEPT !.says = new.says] ELSE m : m \in rows}
\* Another one inserted the key since this one looked, and one of the two is not an update.
Doubled(rows, seen, new) ==
    IF Found(seen, new) = {} /\ \E m \in Found(rows, new) : "memory" \in {m.by, new.by} THEN {<<"doubled", new.agent>>} ELSE {}

Latest(a) == {m \in manual : m.agent = a /\ \A n \in manual : n.agent = a => n.version <= m.version}
\* upsert_agent_operating_manual: the version after the one read, over a row that has it;
\* without a manual in the call it is the latest one, to be reviewed.
Manuals(a, read, c) ==
    LET next == [agent |-> a, version |-> read.version + 1, state |-> IF AsksManual(c) THEN c.manual ELSE "review",
                 fits |-> \A x \in Instructions \cup ToolsConfig : Merge(read, New(read, c), row[a])[x] = New(read, c)[x]]
        aged == {[m EXCEPT !.fits = m.fits /\ m.agent # a] : m \in manual}
    IN IF WorkflowIsTouched(read, c) \/ AsksManual(c)
       THEN {m \in aged : m.agent # a \/ m.version # next.version} \cup {next} ELSE manual
\* Another request's change of the texts or tools came between, or several new versions.
Overtaken(a, read) == IF \E x \in Instructions \cup ToolsConfig : row[a][x] # read[x] THEN {<<"overtaken", a>>}
                      ELSE IF row[a].version > read.version + 1 THEN {<<"overtaken", a>>} ELSE {}

Refreshes(c) == IdentityIsTouched(c) /\ c.mode # "none"
UpdateCommits(r) ==
    /\ Doing(r, "locked", "update") /\ Answered(r) /\ Releases(r) /\ UNCHANGED docs
    /\ LET a == req[r].agent  c == req[r].for  read == req[r].read  seen == req[r].keys
           soul == Memory(a, "soul", read.version + 1, 0, "update")
           context == Memory(a, "context", 0, read.version + 1, "update")
       IN IF Refreshes(c) /\ ~(Upsertable(seen, soul) /\ Upsertable(seen, context))
          THEN UNCHANGED <<row, manual, memory, excused>>
          ELSE /\ row' = [row EXCEPT ![a] = Merge(read, New(read, c), @)]
               /\ manual' = Manuals(a, read, c)
               /\ memory' = IF Refreshes(c) THEN Upserted(Upserted(memory, seen, soul), seen, context) ELSE memory
               /\ excused' = excused \cup SameName(r, c.name) \cup Overtaken(a, read)
                              \cup (IF TakesTools(c) /\ "rag" \in c.off THEN {<<"silenced", a>>} ELSE {})
                              \cup (IF Refreshes(c) THEN Doubled(memory, seen, soul) \cup Doubled(memory, seen, context) ELSE {})

-----------------------------------------------------------------------------
\* add_agent_knowledge turns search on with the tools_config it read.
Knowledge(r, a) == row[a].live /\ Opened(r, a, [Free EXCEPT !.for = [do |-> "knowledge"], !.read = row[a]])
KnowledgeCommits(r) ==
    /\ Doing(r, "open", "knowledge") /\ Answered(r) /\ UNCHANGED <<manual, memory, holds>>
    /\ LET a == req[r].agent  read == req[r].read  on == "rag" \notin read.tools
       IN /\ (on => RowFree(a)) /\ docs' = docs \cup {a}
          /\ row' = IF on THEN [row EXCEPT ![a].tools = read.tools \cup {"rag"}, ![a].told = read.told] ELSE row
          /\ excused' = excused \cup (IF row[a].tools # read.tools \/ row[a].told # read.told THEN {<<"overtaken", a>>} ELSE {})

\* set_agent_memory, for the keys that update_agent writes too or an agent reads first.
SetMemory(r, a, k) == row[a].live /\ Opened(r, a, [Free EXCEPT !.for = [do |-> "memory", key |-> k], !.keys = Keys(a)])
SetMemoryCommits(r) ==
    /\ Doing(r, "open", "memory") /\ Answered(r) /\ UNCHANGED <<row, manual, docs, holds>>
    /\ LET seen == req[r].keys  new == Memory(req[r].agent, req[r].for.key, 0, 0, "memory")
       IN IF Upsertable(seen, new)
          THEN memory' = Upserted(memory, seen, new) /\ excused' = excused \cup Doubled(memory, seen, new)
          ELSE UNCHANGED <<memory, excused>>

\* delete_agent, confirmed by the name, and DELETE /agents.
DeleteAgent(r, a) == row[a].live /\ Opened(r, a, [Free EXCEPT !.for = [do |-> "delete"], !.read = row[a]])
DeleteAgentCommits(r) == /\ Doing(r, "open", "delete") /\ RowFree(req[r].agent) /\ Answered(r)
                    /\ row' = [row EXCEPT ![req[r].agent] = [@ EXCEPT !.live = FALSE, !.version = req[r].read.version + 1]]
                    /\ UNCHANGED <<manual, memory, docs, holds, excused>>

\* PATCH /agents sets what it is given, and looks at nothing else.
Patch(r, a, c) == row[a].live /\ ~AsksManual(c) /\ Opened(r, a, [Free EXCEPT !.for = [c EXCEPT !.do = "patch"], !.read = row[a]])
PatchCommits(r) ==
    /\ Doing(r, "open", "patch") /\ RowFree(req[r].agent) /\ Answered(r) /\ UNCHANGED <<manual, memory, docs, holds>>
    /\ LET a == req[r].agent  c == req[r].for  read == req[r].read
       IN /\ row' = [row EXCEPT ![a] = Merge(read, [Changed(read, c) EXCEPT !.version = read.version + 1,
                                                        !.tools = IF TakesTools(c) THEN c.tools ELSE read.tools,
                                                        !.told = IF TakesTools(c) THEN {} ELSE @], @)]
          /\ excused' = excused \cup Overtaken(a, read) \cup (IF IdentityIsTouched(c) THEN {<<"patched", a>>} ELSE {})
                                 \cup (IF c.name = "" THEN {} ELSE {<<"raced", b>> : b \in {a} \cup Named(c.name)})

Hears(r) == \/ \E a \in Built, s \in Specs : Create(r, a, s)
            \/ \E a \in Built, c \in Changes : Update(r, a, c) \/ Patch(r, a, c)
            \/ \E a \in Built : Knowledge(r, a) \/ DeleteAgent(r, a) \/ (\E k \in {"soul", "context"} : SetMemory(r, a, k))
Settles(r) == \/ CreateCommits(r) \/ Locks(r) \/ UpdateCommits(r) \/ KnowledgeCommits(r)
              \/ SetMemoryCommits(r) \/ DeleteAgentCommits(r) \/ PatchCommits(r)
BuilderNext == \E r \in Requests : Hears(r) \/ Settles(r)
BuilderSpec == BuilderInit /\ [][BuilderNext]_builderVars

-----------------------------------------------------------------------------
Excused(a, why) == \E w \in why : <<w, a>> \in excused

\* What an agent was accepted with is what it still has: a payment workflow its approval
\* contract and escalation, a file workflow its parent contract, media and sandbox.  The
\* words of the manual and of the identity block, which come after the check, do not count.
ContractsHold == \A a \in Built :
    row[a].live /\ ~Excused(a, {"patched", "overtaken"}) => Lacking(row[a].says, row[a].keeps, row[a].tools) = {}

\* The manual that is read last belongs to the agent's configuration or asks for a review.
ManualIsCurrent == \A a \in Built :
    row[a].live => /\ Latest(a) # {}
                   /\ Excused(a, {"patched", "overtaken", "numbered"}) \/ \A m \in Latest(a) : m.fits \/ m.state = "review"

\* The version that global memory is read at has its soul; a key has one row.
MemoryIsReadable ==
    /\ \A m \in memory : m.key = "context" /\ m.says > 0 => \E n \in memory : n.agent = m.agent /\ n.key = "soul" /\ n.v = m.says
    /\ \A a \in Built : ~Excused(a, {"doubled"}) => \A m, n \in Keys(a) : m.key = n.key /\ m.v = n.v => m = n

\* An agent with documents searches them unless a change turned that off, and no two agents
\* of the owner share a name.
DocumentsAreSearched == \A a \in docs : Excused(a, {"patched", "overtaken", "silenced"}) \/ "rag" \in row[a].tools
NamesAreTheirOwn == \A a, b \in Built : row[a].live /\ row[b].live /\ a # b /\ row[a].name = row[b].name => Excused(a, {"raced"})

BuiltAsAgreed == ContractsHold /\ ManualIsCurrent /\ MemoryIsReadable /\ DocumentsAreSearched /\ NamesAreTheirOwn
=============================================================================
