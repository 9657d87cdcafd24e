CONSTANTS
    Keys = {k1, k2}
    Prices = {1, 2}
    Quantities = {1, 2}
    U32 = 4
    NoOrder = NoOrder
    MaxOrders = 4
    OverflowOutcomes = {"panic", "wrap"}
SPECIFICATION Spec
CHECK_DEADLOCK FALSE
INVARIANT TypeOK
INVARIANT Consistent
INVARIANT NotCrossed
INVARIANT Fifo
INVARIANT Conservation
INVARIANT TopCoherent
PROPERTY PriceTimePriority
PROPERTY RemovalsAcked
PROPERTY LoopIsMatchOrder
PROPERTY Implements
PROPERTY AddReturns
