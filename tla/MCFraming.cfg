CONSTANTS
    MaxSymbolLen = 2
    Symbols <- MCSymbols
    Numbers <- MCNumbers
    ClientKinds = {"trading_client"}
    Lines <- AllLines
    FirstLines <- CommandLines
    MaxLines = 2
    PartialReads = {1}
SPECIFICATION TradingSpec
CHECK_DEADLOCK FALSE
INVARIANT Understood
