SPECIFICATION Spec
CONSTANTS
    Obligation = {o1, o2}
    Content = {c1, c2}
    Builder = {b1}
    Kinds = {"plain"}
    Torn = {}
    MaxEdits = 0
    MaxProofs = 1
    MaxCrashes = 0
    MaxCleans = 0
    MaxEvents = 1
    MaxOverlapped = 1
    MaxClobbered = 1
    None = None
    Damaged = Damaged
PROPERTIES ProofStateSurvives
CHECK_DEADLOCK FALSE
