CONSTANTS
    LastEpoch = 2
    MaxQueued = 2
    MaxStops = 1
    MaxFloods = 1
    MaxCrashes = 2
SPECIFICATION FairSpec
INVARIANTS
    TypeOK
    Staggered
    KeysAsAnnounced
PROPERTIES
    ResumesNewest
    Recovers
CHECK_DEADLOCK FALSE
