SPECIFICATION SSpec
CONSTANTS
    x = x
    none = none
    decl = decl
    note = note
    File = {1, 2}
    Name = {x}
    Edges = {1}
    Layer <- MCLayer
    Writer = {w1}
    MaxGeneration = 3
    Null = Null
    Sweeper = {s1}
    Text <- MCText
    LayerOf <- MCLayerOf
    Empty = none
    MaxTexts = 2
    MaxShared = 1
INVARIANTS StaleHitsAreAnnounced
CHECK_DEADLOCK FALSE
