CONSTANTS
    Peers = {A, B}
    Senders = {A}
    Sizes = {2, 3}
    ChunkSize = 2
    None = None
    MaxTransfers = 2
    MaxAborts = 1
    MaxFaults = 0
    MaxTroubles = 1
    MaxPanels = 1
SPECIFICATION FairSpec
PROPERTIES
    LoopTerminates
    CancelTakesEffect
    TransferCompletes
    ImplementsDelivery
CHECK_DEADLOCK FALSE
