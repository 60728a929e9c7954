SPECIFICATION Spec
CONSTANTS
    Null = Null
    S = S
    T = T
    Name <- MCName
    Type <- MCType
    Obligation <- MCObligation
    Lemma <- MCLemma
    Upgraded <- MCUpgraded
    Unsound <- MCUnsound
    Theory <- MCTheory
    MaxRules = 3
INVARIANTS TypeOK ReusableProofsReapply DischargedIsValid TreesAreSound RenamedProofsRebuild

