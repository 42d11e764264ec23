CONSTANTS
    Keys = {k1, k2}
    None = None
    MaxPeers = 2
    MaxQueue = 3
SPECIFICATION Spec
SYMMETRY Symmetry
INVARIANTS
    TypeOK
    SelectionIsLastPick
    PendingNotForgotten
    FlagCurrent
    SendButtonCurrent
PROPERTIES
    NoticesToldApart
