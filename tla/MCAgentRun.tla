---------------------------- MODULE MCAgentRun -----------------------------
(* Two turns of one session: messages of a customer over WhatsApp and over *)
(* HTTP, or a WhatsApp message and a heartbeat beside it.                  *)
EXTENDS AgentRun

MCCallers == {[w |-> "wa", v |-> "api"], [w |-> "wa", v |-> "beat"]}
=============================================================================
