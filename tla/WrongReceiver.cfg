SPECIFICATION Spec
CONSTANTS
    Conns = {c1, c2, c3}
    Keys = {k1, k2, k3}
    None = None
    MaxRequests = 8
    Callers = {c1, c3}
    MaxCalls = 2
    MaxCandidates = 1
    MaxOffers = 1
    MaxLeaves = 0
INVARIANT AutoSendReachesPick
CHECK_DEADLOCK FALSE
SYMMETRY Symmetry
