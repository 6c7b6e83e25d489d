SPECIFICATION FairSpec
CONSTANTS
    new = new
    old = old
    s1 = s1
    s2 = s2
    NULL = NULL
    Curve = {curve}
    Id <- MCClients
    Shard <- MCShards
    Client <- MCClients
    Provisioned <- MCProvisioned
    Android <- MCAndroid
    Sent <- MCSent
    Level = 1
    Dropbox = "return"
    MaxRestarts = 0
    MaxLost = 0
INVARIANTS SeedDetermines
CHECK_DEADLOCK FALSE
