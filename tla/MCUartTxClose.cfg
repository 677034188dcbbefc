\* As MCUartTx; does every close end with the closed notification?
CONSTANTS
    Capacity = 3
    MsgSizes <- MCMsgSizes
    Retries = 2
    UartErrors = FALSE
    MaxBytes = 2
    MaxCloses = 1
SPECIFICATION FairSpec
PROPERTIES
    CloseReopens
CHECK_DEADLOCK FALSE
