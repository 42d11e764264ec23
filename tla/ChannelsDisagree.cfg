SPECIFICATION Spec
CONSTANTS
    Conns = {c1, c2, c3}
    Keys = {k1, k2, k3}
    None = None
    MaxRequests = 7
    Callers = {c1}
    MaxCalls = 2
    MaxCandidates = 1
    MaxOffers = 2
    MaxLeaves = 1
INVARIANT ChannelsAgree
CHECK_DEADLOCK FALSE
SYMMETRY Symmetry
