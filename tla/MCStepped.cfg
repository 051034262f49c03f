SPECIFICATION Spec
CONSTANTS
    alice = alice
    bob = bob
    Side <- Two
    Shared = Shared
    NoKey = NoKey
    NoSession = NoSession
    StartSid = NoSession
    NoBackup = NoBackup
    MaxSent = 2
    MaxSteps = 1
INVARIANTS
    SteppedPairTalks
