SPECIFICATION Spec
CONSTANTS
    u = u
    v = v
    u1 = u1
    u2 = u2
    v1 = v1
    text = text
    pay = pay
    NoConn = NoConn
    User <- Users
    Conn <- Conns
    OwnerOf <- Owners
    Msg <- Texts
    From <- Senders
    To <- Recipients
    Payments <- Paid
    Cap = 2
PROPERTIES
    ReconnectionSurvives
CHECK_DEADLOCK FALSE
