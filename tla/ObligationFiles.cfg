SPECIFICATION Spec
CONSTANTS
    Obligation = {o1, o2}
    Content = {c1, c2}
    Builder = {b1, b2}
    Kinds = {"plain"}
    Torn = {"bpo", "bps", "bpr"}
    MaxEdits = 2
    MaxProofs = 1
    MaxCrashes = 1
    MaxCleans = 1
    MaxEvents = 3
    MaxOverlapped = 2
    MaxClobbered = 1
    None = None
    Damaged = Damaged
CONSTRAINT Budget
SYMMETRY Symmetry
INVARIANTS TypeOK BelievedIsEarned SkippedIsProved RebuildIsStable UnchangedKeepVerdicts
PROPERTIES StatusPassSettles
CHECK_DEADLOCK FALSE
