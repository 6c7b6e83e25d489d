\* One message, two copies over single emixes; one server stops or is reported
\* dead by mistake; one copy or reply is lost.
SPECIFICATION FairSpec
CONSTANTS
    Message = {m1}
    Emix = {e1, e2}
    Dropbox = {d1, d2}
    Layers = 1
    Redundancy = 2
    Retains = FALSE
    MaxPosts = 3
    MaxFaults = 1
    MaxLosses = 1
    None = None
INVARIANTS TypeOK CopyIsSomewhere CompleteIsSpread 
PROPERTIES Arrives
CHECK_DEADLOCK FALSE
