CONSTANTS
    Peers = {A, B}
    Senders = {A, B}
    Sizes = {2, 3}
    ChunkSize = 2
    None = None
    MaxTransfers = 2
    MaxAborts = 1
    MaxFaults = 1
    MaxTroubles = 1
    MaxPanels = 1
SPECIFICATION Spec
SYMMETRY Symmetry
INVARIANTS
    TypeOK
    WrittenInOrder
    ReceiveAccounting
    FirstCountWhole
    Stoppable
PROPERTIES
    NoGhostPanel
CHECK_DEADLOCK FALSE
