SPECIFICATION Spec
CONSTANTS
    a = a
    b = b
    NoId = NoId
    fixedRoot = fixedRoot
    Root <- OneRoot
    NoKey = NoKey
    NoSession = NoSession
    Device <- Pair
    Contacts <- PairContacts
    MaxSent <- PairSent
    MaxTurns = 2
    MaxRestarts = 0
INVARIANTS
    NoKeyReuse
