\* A second AT channel: with no current context, another one is used.
CONSTANTS
    Chars <- MCChars
    Terminator <- MCTerminator
    Capacity = 3
    DataLens <- MCDataLens
    OwnFallback = FALSE
    SIZE_MAX = 255
    MaxInput = 6
    MaxSessions = 1
SPECIFICATION FairSpec
INVARIANTS
    KeepsWorking
CHECK_DEADLOCK FALSE
