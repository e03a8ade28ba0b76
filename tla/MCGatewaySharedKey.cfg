SPECIFICATION FairSpec
CONSTANTS
    None = None
    Canisters = {c1, c2}
    Sessions = {s1, s2}
    ClientKeys = {k1}
    Shards = {sh1}
    KeyOf <- SharedKey
    CanisterShard <- OneCanisterShard
    KeyShard <- OneKeyShard
    ChannelCapacity = 1
    MaxMessages = 1
    RelayOpenCanFail = TRUE
    Reading = {s1}
CHECK_DEADLOCK FALSE
INVARIANTS
    TypeOK
    SharedStateInv
PROPERTIES
    ImplementsService
    OrphanedSessionEnds
