SPECIFICATION ProcessFairSpec
CONSTANTS
    None = None
    Connections = {x1, x2, x3}
    AcceptorChannelCapacity = 1
    TlsEnabled = TRUE
    MaxAcceptErrors = 2
    MaxFaults = 2
CHECK_DEADLOCK FALSE
INVARIANTS
    ProcessTypeOK
    IdsIdentifyConnections
    PrincipalStable
    ProcessInv
PROPERTIES
    KeyFileKept
    AcceptedHandled
    AcceptErrorOvercome
    AcceptsUntilError
    ServesAgain
