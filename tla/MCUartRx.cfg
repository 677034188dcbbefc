\* Two blocks of two bytes, two queue entries, one budgeted per block.
CONSTANTS
    b1 = b1
    b2 = b2
    None = None
    Blocks <- MCTwoBlocks
    BufSize = 2
    EventBytes = 2
    ReadSizes <- MCReadSizes
    MaxBytes = 5
    DriverFaults = FALSE
SPECIFICATION FairSpec
INVARIANTS
    RefCountsExact
    StreamIntact
    NoDropWithinBudget
PROPERTIES
    RxRecovers
    EveryByteSettled
    CloseTerminates
CHECK_DEADLOCK FALSE
