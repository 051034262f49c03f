SPECIFICATION Spec
CONSTANTS
    bob = bob
    phone = phone
    g1 = g1
    g2 = g2
    f1 = f1
    f2 = f2
    c = c
    v1 = v1
    d = d
    k1 = k1
    k2 = k2
    k3 = k3
    None = None
    User <- Users
    Phone <- Phones
    Email <- Emails
    Registers <- MCRegisters
    Fetches <- MCFetches
    CodeRequests <- MCCodes
    Verifies = {v1}
    Discovers <- MCDiscovers
    UserOf <- UserOfRequest
    AddressOf <- AddressOfRequest
    Presents <- PresentedBy
    LooksFor <- Contacts
    Offered <- Prekeys
    Padded <- PaddedKeys
INVARIANTS
    TypeOK
    PrekeyOnce
    NoPrekeyLost
PROPERTIES
    Answered
CHECK_DEADLOCK FALSE
