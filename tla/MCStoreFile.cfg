CONSTANTS
    IdMax = 12
    Apps <- MCStrings
    Texts <- MCStrings
    Keys <- MCStrings
    Timeouts <- MCTimeouts
    Requests = {}
    Broken = Broken
    None = None
    Chars <- MCChars
    Saved <- MCSaved
SPECIFICATION Spec
INVARIANTS RoundTrip TornIsKnown TornKeepsIdsFresh
PROPERTY Terminates
CHECK_DEADLOCK FALSE
