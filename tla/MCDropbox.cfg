\* Three parties, one that comes and goes, two messages, two polls: see Scope.
CONSTANTS
    l = l
    p1 = p1
    p2 = p2
    m1 = m1
    m2 = m2
    q1 = q1
    q2 = q2
    q3 = q3
    Party = {l, p1, p2}
    Leader = l
    Threshold = 2
    Message = {m1, m2}
    Poll = {q1, q2}
    Addressed <- BothPoll
    Expiring = {q2}
    Flaky = {p2}
    Task = {t1, t2}
    FindLimit = 2
    StoreTokens = 1
    FindTokens = 1
    MaxAttempts = 2
    MaxTimeouts = 1
    MaxCrashes = 1
SPECIFICATION ScopedSpec
SYMMETRY Symmetry
INVARIANTS
    TypeOK
    StoredIsHeld
PROPERTY ImplementsMailbox
CHECK_DEADLOCK FALSE
