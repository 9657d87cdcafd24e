CONSTANTS
    Keys = {k1, k2}
    Prices = {1, 2}
    Quantities = {1, 2}
    U32 = 16
    NoOrder = NoOrder
    MaxOrders = 4
    OverflowOutcomes = {"wrap"}
SYMMETRY KeySymmetry
SPECIFICATION Spec
CHECK_DEADLOCK FALSE
INVARIANT TopIsLive
