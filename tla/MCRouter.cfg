CONSTANTS
    a = a
    b = b
    c = c
    d = d
    Server = {a, b, c, d}
    Packet = {p1}
    Nets <- AllNets
SPECIFICATION FairSpec
INVARIANTS
    TypeOK
    AgreedTablesReach
PROPERTIES
    NewestKept
    FloodsReachAll
    MessagesArrive
    DatabasesCatchUp
CHECK_DEADLOCK FALSE
