---------------------------- MODULE MCContainers ----------------------------
EXTENDS Containers, TLC

VARIABLE half
MCInit == half \in {"deployments", "commands"} /\ DeployInit /\ CommandInit
MCNext == /\ \/ half = "deployments" /\ DeployNext /\ UNCHANGED commandVars
             \/ half = "commands" /\ CommandNext /\ UNCHANGED deployVars
          /\ UNCHANGED half
MCSpec == MCInit /\ [][MCNext]_<<half, deployVars, commandVars>>
Symmetry == Permutations(Sessions) \cup Permutations(Deploys) \cup Permutations(Commands)
=============================================================================
