SPECIFICATION FairSpec
CONSTANTS
    None = None
    Connections = {x1, x2, x3}
    AcceptorChannelCapacity = 1
    TlsEnabled = TRUE
    MaxAcceptErrors = 1
CHECK_DEADLOCK FALSE
PROPERTY KeepsAccepting
