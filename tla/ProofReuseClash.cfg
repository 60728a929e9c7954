SPECIFICATION Spec
CONSTANTS
    Null = Null
    S = S
    T = T
    Name <- ClashName
    Type = {S}
    Obligation <- ClashObligation
    Lemma <- ClashLemma
    Upgraded = {}
    Unsound = {}
    Theory = {1}
    MaxRules = 4
INVARIANT AcceptedProofsApply
