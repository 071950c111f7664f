----------------------------- MODULE MCGateway -----------------------------
(***************************************************************************)
(* The two halves of the gateway for model checking.  They share nothing   *)
(* but the entry of a device, which GatewayChat lets change at any time,   *)
(* so one run checks the one and then the other.                           *)
(***************************************************************************)
EXTENDS DeviceGateway, GatewayChat, TLC

VARIABLE half
MCPhoneOf == [s \in 1..MaxSessions |-> "p"]

Plain == [own |-> FALSE, broadcast |-> FALSE, group |-> FALSE, mentioned |-> FALSE, bare |-> FALSE,
          empty |-> FALSE, sender |-> "pn", alt |-> FALSE, mapped |-> FALSE]
MCKinds == {Plain, [Plain EXCEPT !.own = TRUE], [Plain EXCEPT !.sender = "lid"],
            [Plain EXCEPT !.sender = "lid", !.alt = TRUE],
            [Plain EXCEPT !.group = TRUE, !.mentioned = TRUE, !.sender = "lid", !.mapped = TRUE],
            [Plain EXCEPT !.group = TRUE]}

MCInit == half \in {"devices", "chat"} /\ Init /\ ChatInit
MCNext == /\ \/ half = "devices" /\ Next /\ UNCHANGED chatVars
             \/ half = "chat" /\ ChatNext /\ UNCHANGED gatewayVars
          /\ UNCHANGED half
MCSpec == MCInit /\ [][MCNext]_<<half, gatewayVars, chatVars>>
Symmetry == Permutations(Callers) \cup Permutations(Messages) \cup Permutations(Requests)
=============================================================================
