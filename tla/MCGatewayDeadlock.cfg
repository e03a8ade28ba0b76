SPECIFICATION FairSpec
CONSTANTS
    None = None
    Canisters = {c1}
    Sessions = {s1}
    ClientKeys = {s1}
    Shards = {sh1}
    KeyOf <- OwnKey
    CanisterShard <- OneCanisterShard
    KeyShard <- OwnKeyShard
    ChannelCapacity = 1
    MaxMessages = 2
    RelayOpenCanFail = FALSE
    Reading = {s1}
CHECK_DEADLOCK FALSE
PROPERTY CriticalSectionsEnd
