SPECIFICATION FairSpec
CONSTANTS
    a = a
    b = b
    c = c
    pkg1 = pkg1
    pkg2 = pkg2
    None = None
    Hook <- MCHooks
    Package <- MCPackages
    Matches <- MCMatches
    MaxCopies = 2
INVARIANTS TypeOK NothingVanishes PoolIsUndelivered OnceEach
PROPERTIES WaitingIsDelivered
CHECK_DEADLOCK FALSE
