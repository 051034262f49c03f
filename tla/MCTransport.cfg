SPECIFICATION FairSpec
CONSTANTS
    ta = ta
    tb = tb
    m1 = m1
    m2 = m2
    m3 = m3
    NoPeer = NoPeer
    Worker = Worker
    Transport <- Both
    Bridge <- Bridged
    Msg <- Msgs
    From <- Senders
    MaxStarts <- Restarts
INVARIANTS
    TypeOK
    Fifo
    NoLostWakeup
PROPERTIES
    DeliveredIsHandled
    StopReturns
CHECK_DEADLOCK FALSE
