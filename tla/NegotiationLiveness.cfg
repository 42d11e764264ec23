SPECIFICATION FairSpec
CONSTANTS
    Conns = {c1, c2}
    Keys = {k1, k2}
    None = None
    MaxRequests = 8
    Callers = {c1, c2}
    MaxCalls = 1
    MaxCandidates = 2
    MaxOffers = 1
    MaxLeaves = 1
PROPERTY NegotiationCompletes
CHECK_DEADLOCK FALSE
