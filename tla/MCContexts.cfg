CONSTANTS
    Dlcis <- MCDlcis
    Ctxs <- MCCtxs
    MsgqLen = 3
    QueueLen = 2
    MaxCmds = 3
    MaxEvents = 3
SPECIFICATION FairSpec
INVARIANTS
    TypeOK
    HandlersLive
PROPERTIES
    ChannelServed
CHECK_DEADLOCK FALSE
