\* Four inputs: tokens of two commands or of a data mode session, URCs for a
\* buffer of one, data on a socket (twice), changes of the URC channel, a fault.
CONSTANTS
    UrcCap = 1
    MsgqLen = 2
    Pipelining = FALSE
    MaxUrcs = 3
    MaxTokens = 4
    MaxPolls = 2
    MaxSelects = 2
    MaxFaults = 1
    MaxInputs = 4
SPECIFICATION FairSpec
INVARIANTS
    UrcsAccounted
PROPERTIES
    BlocksWhole
    CommandsUndisturbed
    UrcsDelivered
    InputRead
    SocketRead
CHECK_DEADLOCK FALSE
