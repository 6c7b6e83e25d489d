\* Two parties, no crash, one timeout, and a batch to spare.  No symmetry: it is
\* not sound for liveness.
CONSTANTS
    l = l
    p1 = p1
    p2 = p2
    Party = {l, p1}
    Leader = l
    Batch = {b1, b2}
    Op = {o1, o2}
    BatchSize = 2
    MinReserve = 1
    MinGroup = 2
    MinPeers = 2
    MaxClaim = 1
    MaxFailures = 1
    MaxCrashes = 0
SPECIFICATION FairSpec
PROPERTY WaitingIsServed
CHECK_DEADLOCK FALSE
