CONSTANTS
    Conns = {c1, c2}
    Keys = {k1, k2}
    Payloads = {"signal"}
    None = None
    MaxRequests = 3
SPECIFICATION FairSpec
PROPERTIES
    PairingAnnounced
    LeaverReleasesPartner
CHECK_DEADLOCK FALSE
