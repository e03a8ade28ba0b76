SPECIFICATION Spec
CONSTANTS
    None = None
    Clients = {a, b}
    BatchSize = 2
    MaxSent = 3
    CleansUp = TRUE
    DeletesUnpolled = TRUE
    ChannelCapacity = 1
    KeyShard <- OwnShard
    Reading = {a, b}
SYMMETRY ClientSymmetry
CHECK_DEADLOCK FALSE
INVARIANTS
    TypeOK
    NoGaps
    RelayInv
PROPERTY ImplementsRelay
