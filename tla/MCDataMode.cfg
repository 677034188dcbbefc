\* A buffer of three bytes, sessions of up to seven, with and without length.
CONSTANTS
    Chars <- MCChars
    Terminator <- MCTerminator
    Capacity = 3
    DataLens <- MCDataLens
    OwnFallback = TRUE
    SIZE_MAX = 255
    MaxInput = 7
    MaxSessions = 2
SPECIFICATION FairSpec
INVARIANTS
    DataAsIs
    ResultTruthful
    LengthHonoured
    CleanExit
    TerminatorExits
PROPERTIES
    InactivitySends
CHECK_DEADLOCK FALSE
