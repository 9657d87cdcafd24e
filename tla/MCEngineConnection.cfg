CONSTANTS
    MaxSymbolLen = 1
    Symbols <- MCSymbols
    Numbers <- MCNumbers
    Dialects = {"frames", "csv"}
    Replies <- MCReplies
    MaxReplies = 2
    MaxCommands = 2
    MaxBreaks = 1
    Chunks = {3}
    MaxExponent = 2
SPECIFICATION Spec
CHECK_DEADLOCK FALSE
INVARIANT FramesSurvive
INVARIANT EachOnce
PROPERTY Taken
PROPERTY Reconnects
PROPERTY Heard
