------------------------------ MODULE MCPlatform ------------------------------
(* Accounts and Builder, one or the other in a behaviour. *)
EXTENDS Accounts, Builder, TLC

\* A chat agent; one that makes files, named in its soul only, with a manual of version 3;
\* one that takes payments.
MCSpecs ==
    LET chat == [do |-> "create", name |-> "n1", says |-> {}, aside |-> {}, keeps |-> {}, tools |-> {"escalation"},
                 file |-> "text_only", manual |-> "usable", numbered |-> 1, told |-> {}]
    IN {chat, [chat EXCEPT !.name = "n2", !.says = {"file"}, !.aside = {"make"}, !.keeps = {"parent"}, !.file = "enabled",
                           !.numbered = 3, !.told = {"pay"}],
        [chat EXCEPT !.name = "n2", !.says = {"pay", "approve"}, !.keeps = {"approval"}],
        [chat EXCEPT !.says = {"approve"}]}

\* New instructions about payments, about files, the tools they need, the tools taken away,
\* a manual of their own, a name, a model.
MCChanges ==
    LET model == [do |-> "update", name |-> "", fields |-> {"model"}, says |-> {}, keeps |-> {}, tools |-> {}, off |-> {},
                  manual |-> "none", told |-> {}, mode |-> "selective"]
    IN {model, [model EXCEPT !.name = "n2"],
        [model EXCEPT !.fields = {"instructions"}, !.says = {"file"}, !.keeps = {"parent"}],
        [model EXCEPT !.fields = {"tools_config"}, !.tools = {"media"}, !.manual = "usable"],
        [model EXCEPT !.fields = {"tools_config"}, !.off = {"escalation", "rag"}],
        [model EXCEPT !.fields = {"instructions"}, !.says = {"pay", "approve"}, !.keeps = {"approval"}, !.mode = "none"]}

VARIABLE half   \* the part a behaviour is about
PlatformInit == /\ half \in {"accounts", "builder"} /\ AccountInit /\ BuilderInit
                /\ (half = "builder" => sub["web"] = NoSub) /\ (half = "accounts" => open)
PlatformNext == \/ half = "accounts" /\ AccountNext /\ UNCHANGED <<builderVars, half>>
                \/ half = "builder" /\ BuilderNext /\ UNCHANGED <<accountVars, half>>
PlatformSpec == PlatformInit /\ [][PlatformNext]_<<accountVars, builderVars, half>>
Symmetry == Permutations(Calls) \cup Permutations(Agents) \cup Permutations(Requests) \cup Permutations(Built)
===============================================================================
