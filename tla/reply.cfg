CONSTANTS
    Events <- MCEvents
    Tabs <- MCTabs
    Runs <- MCRuns
    MaxSteps = 2
    MaxClaims = 2
    CustomerTurns = {t1, t2}
    Heartbeats = {b1}
    NoRun = NoRun
    Trigger = 1
    Long = 3
    Short = 1
    Fits = 2
    Reserved = 100
    MaxTexts = 1
    MaxTroubles = 1
    Setups <- MCSetups
    Subs = {"s1", "s2"}
    MaxActs = 1
SPECIFICATION MCSpec
INVARIANTS ClaimsAreBacked RefusalsAreTrue SomebodyAnswers RepairsActAsAsked  KitHolds
SYMMETRY Symmetry
CHECK_DEADLOCK FALSE
