CONSTANTS
    Block = 2
    PayloadLens <- MCPayloadLens
    MaxCmds = 2
    MaxWire = 4
SPECIFICATION FairSpec
INVARIANTS TypeOK RequestSettled UploadWhole
PROPERTIES RequestEnds WorkReturns
CHECK_DEADLOCK FALSE
