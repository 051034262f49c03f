SPECIFICATION RestartSpec
CONSTANTS
    a = a
    b = b
    NoId = NoId
    fixedRoot = fixedRoot
    Root <- OneRoot
    NoKey = NoKey
    NoSession = NoSession
    Device <- Pair
    Contacts <- PairContacts
    MaxSent <- PairSent
    MaxTurns = 3
    MaxRestarts = 1
INVARIANTS
    UnturnedLinkWorks
PROPERTIES
    NoReplayInSession
