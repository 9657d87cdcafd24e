CONSTANTS
    MaxSymbolLen = 2
    Symbols <- MCSymbols
    Numbers <- MCNumbers
    ClientKinds = {"nc"}
    Lines <- AllLines
    FirstLines <- CommentLines
    MaxLines = 2
    PartialReads = {1}
SPECIFICATION WireSpec
CHECK_DEADLOCK FALSE
INVARIANT Understood
