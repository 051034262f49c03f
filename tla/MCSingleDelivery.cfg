SPECIFICATION DeliverySpec
CONSTANTS
    a = a
    b = b
    c = c
    NoId = NoId
    fixedRoot = fixedRoot
    Root <- OneRoot
    NoKey = NoKey
    NoSession = NoSession
    Device <- Trio
    Contacts <- TrioContacts
    MaxSent <- TrioSent
    MaxTurns = 2
    MaxRestarts = 0
INVARIANTS
    TypeOK
    AtMostOnce
    NoStranded
    SkippedAreMissing
    OneKeyPerSession
PROPERTIES
    EveryMessageOpens
    ImplementsChannel
