SPECIFICATION FairSpec
CONSTANTS
    new = new
    old = old
    s1 = s1
    s2 = s2
    NULL = NULL
    Curve = {curve}
    Id <- MCClients
    Shard <- MCShards
    Client <- MCClients
    Provisioned <- MCProvisioned
    Android <- MCAndroid
    Sent <- MCSent
    Level = 3
    Dropbox = "return"
    MaxRestarts = 1
    MaxLost = 1
INVARIANTS TypeOK KeyIsWhole NothingMislaid
PROPERTIES EarlierMessagesArrive
CHECK_DEADLOCK FALSE
