SPECIFICATION FairSpec
CONSTANTS
    RxEvents = 2
    RingLen = 3
    RespLen = 2
    HeapLen = 2
    MaxCmds = 2
    Budget = 3
    Urc <- MCUrc
INVARIANTS AnswerMatches LinkAgrees
CHECK_DEADLOCK FALSE
PROPERTIES CommandAnswered UnitsDelivered
