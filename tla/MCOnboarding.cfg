SPECIFICATION Spec
CONSTANTS
    Peer = {n2, n3}
    OwnKey = {own1, own2, own3}
    PeerKey = {key1, key2}
    Transport = {t1, t2}
    Dispatcher = {d1, d2}
    None = None
    Partial = Partial
    MaxTroubles = 2
    MaxEdits = 1
SYMMETRY Alike
INVARIANTS
    TypeOK
    ExportedKeyStays
    ReportedStateHolds
    RefusedRerunsAreTorn
