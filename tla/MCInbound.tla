----------------------------- MODULE MCInbound -----------------------------
EXTENDS InboundGate, TLC
Symmetry == Permutations(Messages) \cup Permutations(Requests)
=============================================================================
