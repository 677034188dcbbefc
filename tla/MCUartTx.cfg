\* A ring of three bytes, a message larger than the ring, two closes.
CONSTANTS
    Capacity = 3
    MsgSizes <- MCMsgSizes
    Retries = 2
    UartErrors = TRUE
    MaxBytes = 6
    MaxCloses = 2
SPECIFICATION FairSpec
INVARIANTS
    TransmitIntact
    StartTokenExact
    NoLostStart
PROPERTIES
    AcceptedIsSent
    CloseWithRxReopens
    ImplementsFifo
CHECK_DEADLOCK FALSE
