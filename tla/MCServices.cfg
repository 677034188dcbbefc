CONSTANTS
    Fds <- MCFds
    RecvBuf = 2
    MaxCmds = 2
    MaxWire <- MCMaxWire
    MaxOpen = 1
SPECIFICATION FairSpec
INVARIANTS TypeOK 
PROPERTIES DataAnnounced RequestEnds
CHECK_DEADLOCK FALSE
