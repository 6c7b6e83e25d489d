\* Two parties, always online, one timeout: see LiveScope.  No symmetry.
CONSTANTS
    l = l
    p1 = p1
    p2 = p2
    m1 = m1
    m2 = m2
    q1 = q1
    q2 = q2
    q3 = q3
    Party = {l, p1}
    Leader = l
    Threshold = 2
    Message = {m1, m2}
    Poll = {q1, q3}
    Addressed <- FirstOnly
    Expiring = {}
    Flaky = {}
    Task = {t1}
    FindLimit = 1
    StoreTokens = 1
    FindTokens = 1
    MaxAttempts = 3
    MaxTimeouts = 1
    MaxCrashes = 0
SPECIFICATION LiveSpec
PROPERTIES
    StoreSucceeds
    PollsEnd
    
CHECK_DEADLOCK FALSE
