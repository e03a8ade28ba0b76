SPECIFICATION FairSpec
CONSTANTS
    None = None
    Clients = {a, b}
    BatchSize = 2
    MaxSent = 2
    CleansUp = FALSE
    DeletesUnpolled = FALSE
    ChannelCapacity = 1
    KeyShard <- OneShard
    Reading = {a}
CHECK_DEADLOCK FALSE
INVARIANTS
    NothingLost
    NonceNeverAhead
PROPERTY EverythingDelivered
