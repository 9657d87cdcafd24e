CONSTANTS
    Keys = {k1, k2}
    Symbols = {s1, s2}
    Unknown = Unknown
    Prices = {1, 2}
    Quantities = {1, 2}
    U32 = 4
    MaxOrders = 3
    OverflowOutcomes = {"panic", "wrap"}
SYMMETRY Symmetry
SPECIFICATION SpecBoth
CHECK_DEADLOCK FALSE
INVARIANT Routed
INVARIANT FeedCoherent
INVARIANT SameBySymbol
PROPERTY Isolated
PROPERTY DeparturesReported
PROPERTY CancelTakesEffect
