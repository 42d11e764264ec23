SPECIFICATION Spec
CONSTANTS
    Conns = {c1, c2}
    Keys = {k1, k2}
    None = None
    MaxRequests = 8
    Callers = {c1}
    MaxCalls = 1
    MaxCandidates = 2
    MaxOffers = 1
    MaxLeaves = 0
INVARIANT NoCandidateLost
CHECK_DEADLOCK FALSE
