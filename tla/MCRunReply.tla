---------------------------- MODULE MCRunReply -----------------------------
(* One run at a time: the owner with Google connected, unconnected or out  *)
(* of reach as the preflight finds it for two spellings of his number, a   *)
(* customer, an operator's turn and the builder.  Beside it what a run has *)
(* to work with, and the chat of a session: they share no variable here,   *)
(* so a behaviour is of one of the three.                                  *)
EXTENDS RunReply, RunKit, ChatHistory, TLC

MCEvents == {[id |-> "e1", title |-> "visit", soon |-> TRUE], [id |-> "e2", title |-> "visit", soon |-> FALSE],
             [id |-> "e3", title |-> "order", soon |-> TRUE]}
MCTabs == <<"first", "second">>

Found == {Preflight(answers) : answers \in [1 .. 2 -> Answers]}
Connections == {AfterServerError(p, e, l) : p \in {q \in Found : q.err = Absent}, e \in {Absent, "login", "down"},
                                            l \in {"given", "none"}} \cup {q \in Found : q.err # Absent}
Owners(wants, googles) ==
    {[who |-> "owner", err |-> p.err, url |-> p.url, other |-> p.err # Absent, google |-> g, wants |-> w] :
        p \in Connections, g \in googles, w \in wants}
Others(who, wants, googles) ==
    {[who |-> who, err |-> Absent, url |-> FALSE, other |-> FALSE, google |-> g, wants |-> w] :
        g \in googles, w \in wants}

MCRuns ==
    Owners({"talk", "send"}, {TRUE})
    \cup {[r EXCEPT !.other = FALSE] : r \in Owners({"talk"}, BOOLEAN)}
    \cup Others("customer", {"talk", "resend", "file", "work", "status"}, {FALSE})
    \cup Others("customer", {"talk"}, {TRUE})
    \cup Others("operator", {"talk"}, {FALSE}) \cup Others("builder", {"talk"}, {FALSE})

Bare == [f \in Features |-> "absent"]
AllOn == [f \in Features |-> "true"]
Settings ==   \* nothing or everything enabled, and either with one setting apart
    {AllOn, Bare} \cup {[AllOn EXCEPT ![f] = v] : f \in Features, v \in {"absent", "off"}}
    \cup {[AllOn EXCEPT !["google_workspace"] = "unsaid"]}
    \cup {[Bare EXCEPT ![f] = v] : f \in {"sandbox", "deploy", "subagents"}, v \in {"true", "off"}}
MCSetups ==
    {k \in [tools : Settings, builder : BOOLEAN, operator : BOOLEAN, wa : BOOLEAN, admin : BOOLEAN,
            asks : SUBSET {"reminder", "google"}, parent : BOOLEAN,
            platform : {{}, {"sandboxes"}, {"sandboxes", "tavily"}},
            subs : {("s1" :> {"sandbox", "deploy"}) @@ ("s2" :> {}), ("s1" :> {"sandbox"}) @@ ("s2" :> {"gone"})}] :
        k.operator => k.admin /\ k.wa}
AnyRun == CHOOSE r \in Runs : TRUE
AnySetup == CHOOSE k \in Setups : TRUE

VARIABLE part
MCInit == /\ HistoryInit
          /\ \/ part = "reply" /\ setup = AnySetup /\ Init /\ KitInit
             \/ part = "kit" /\ env = AnyRun /\ KitInit /\ Init
             \/ part = "history" /\ setup = AnySetup /\ env = AnyRun /\ Init /\ KitInit
MCNext == /\ \/ part = "reply" /\ Next /\ UNCHANGED <<kitVars, historyVars>>
             \/ part = "kit" /\ KitNext /\ UNCHANGED <<vars, historyVars>>
             \/ part = "history" /\ HistoryNext /\ UNCHANGED <<vars, kitVars>>
          /\ UNCHANGED part
MCSpec == MCInit /\ [][MCNext]_<<part, vars, kitVars, historyVars>>
Symmetry == Permutations(CustomerTurns)
=============================================================================
