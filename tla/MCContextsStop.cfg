CONSTANTS
    Dlcis <- MCDlcis
    Ctxs <- MCCtxs
    MsgqLen = 3
    QueueLen = 2
    MaxCmds = 2
    MaxEvents = 2
SPECIFICATION FairSpec
PROPERTY
    LinkReturns
CHECK_DEADLOCK FALSE
