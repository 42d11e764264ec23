CONSTANTS
    Conns = {c1, c2, c3}
    Keys = {k1, k2}
    Payloads = {"signal"}
    None = None
    MaxRequests = 3
SPECIFICATION Spec
SYMMETRY Symmetry
INVARIANTS
    TypeOK
    RegistryConsistent
    PairingSymmetric
    SessionAgreement
    NoCrossTalk
    RolesComplementary
    PeerListCurrent
    OffererLearnsPartner
PROPERTIES
    RegistrationStable
    ImplementsService
CHECK_DEADLOCK FALSE
