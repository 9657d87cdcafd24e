CONSTANTS
    ParseLimit = 100
    MaxChars = 4
SPECIFICATION EntrySpec
CHECK_DEADLOCK FALSE
INVARIANT TextAsTyped
PROPERTY OrderAsEntered
