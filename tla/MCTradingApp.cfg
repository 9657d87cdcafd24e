CONSTANTS
    mine1 = mine1
    mine2 = mine2
    other = other
    Keys <- MCKeys
    MyKeys <- MCMyKeys
    Symbol = Symbol
    Another = Another
    Symbols <- MCSymbols
    Unknown = Unknown
    Prices = {1}
    Quantities = {1, 2}
    OtherOrders <- MCOtherOrders
    U32 = 8
    MaxOrders = 3
    OverflowOutcomes = {"wrap"}
    DefaultPrice = 1
    MyQuantities = {2}
    MaxToNetwork = 2
    MaxToApp = 2
SPECIFICATION SpecApp
CHECK_DEADLOCK FALSE
INVARIANT FillsAccounted
INVARIANT RestingIsShown
INVARIANT StatusSettled
INVARIANT CancelSettles
INVARIANT DisplayCoherent
PROPERTY Acknowledged
