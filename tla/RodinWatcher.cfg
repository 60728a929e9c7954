SPECIFICATION FairSpec
CONSTANTS
    Dir = {a, b}
    Start = {s1, s2}
    MaxLease = 3
    Null = Null
INVARIANTS TypeOK StartsAreOwned
PROPERTIES SupersededLiveIsDiscarded StartsSettle
