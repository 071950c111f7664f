CONSTANTS
    Turns = {"w", "v"}
    Callers <- MCCallers
    Watched = {"w"}
    MaxTroubles = 1
SPECIFICATION FairSpec
INVARIANTS RunAccounted EffectsAreWritten  ApprovedOnce
 
CHECK_DEADLOCK FALSE
