SPECIFICATION Spec
CONSTANTS
    None = None
    Clients = {a, b}
    BatchSize = 2
    MaxSent = 2
    CleansUp = TRUE
    DeletesUnpolled = FALSE
    ChannelCapacity = 1
    KeyShard <- OwnShard
    Reading = {a, b}
CHECK_DEADLOCK FALSE
INVARIANT NonceNeverAhead
