CONSTANTS
    Peers = {A, B}
    Senders = {A}
    Sizes = {3}
    ChunkSize = 2
    None = None
    MaxTransfers = 1
    MaxAborts = 1
    MaxFaults = 0
    MaxTroubles = 1
    MaxPanels = 1
SPECIFICATION Spec
PROPERTY SuccessMeansDelivered
CHECK_DEADLOCK FALSE
