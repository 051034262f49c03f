SPECIFICATION FairSpec
CONSTANTS
    p = p
    q = q
    twin1 = twin1
    twin2 = twin2
    later = later
    Msg <- Msgs
    To <- Targets
    SentAt <- Times
    MaxRetries = 10
    MaxFaults = 2
INVARIANTS
    TypeOK
    Accounted
    DeliveredWasSent
    ResentOnlyIfUnmarked
PROPERTIES
    QueuedIsTried
    FailedIsFinal
