CONSTANTS
    MaxSymbolLen = 2
    Symbols <- MCSymbols
    Numbers <- MCNumbers
    ClientKinds = {"nc", "tcp_client"}
    Lines <- AllLines
    FirstLines <- CommandLines
    MaxLines = 2
    PartialReads = {1}
SPECIFICATION WireSpec
CHECK_DEADLOCK FALSE
INVARIANT InOrder
INVARIANT Understood
INVARIANT RoundTrip
PROPERTY Served
