SPECIFICATION FairSpec
CONSTANTS
    None = None
    Canisters = {c1}
    Sessions = {s1, s2}
    ClientKeys = {s1, s2}
    Shards = {sh1}
    KeyOf <- OwnKey
    CanisterShard <- OneCanisterShard
    KeyShard <- OneKeyShard
    ChannelCapacity = 1
    MaxMessages = 1
    RelayOpenCanFail = FALSE
    Reading = {s1}
PROPERTIES
    CriticalSectionsEnd
    PollerFailureEndsSessions
    IdlePollerTerminates
    DisconnectedSessionEnds
