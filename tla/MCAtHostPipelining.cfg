\* Two commands, possibly in one batch of received bytes.
CONSTANTS
    UrcCap = 1
    MsgqLen = 2
    Pipelining = TRUE
    MaxUrcs = 0
    MaxTokens = 4
    MaxPolls = 0
    MaxSelects = 0
    MaxFaults = 0
    MaxInputs = 4
SPECIFICATION FairSpec
PROPERTIES
    CommandsUndisturbed
CHECK_DEADLOCK FALSE
