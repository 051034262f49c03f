SPECIFICATION FairSpec
CONSTANTS
    MaxMsgs = 2
    MaxStarts = 2
INVARIANTS
    TypeOK
    InOrder
    ClaimedOnce
    StuckOnlyByWakeup
PROPERTIES
    StopReturns
CHECK_DEADLOCK FALSE
