\* Three parties, of which two or three take part in an operation; two batches
\* of two slots, two operations, one crash, no timeout but those a crash causes.
CONSTANTS
    l = l
    p1 = p1
    p2 = p2
    Party = {l, p1, p2}
    Leader = l
    Batch = {b1, b2}
    Op = {o1, o2}
    BatchSize = 2
    MinReserve = 2
    MinGroup = 3
    MinPeers = 2
    MaxClaim = 2
    MaxFailures = 0
    MaxCrashes = 1
SPECIFICATION Spec
SYMMETRY Symmetry
INVARIANTS
    TypeOK
    ClaimedIsHeld
    SlotClaimedOnce
    RefusedOnlyRepeats
PROPERTIES
    ImplementsPool
\* Batch and operation identifiers run out: the bounded instance stops.
CHECK_DEADLOCK FALSE
