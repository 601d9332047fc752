SPECIFICATION Spec
CONSTANTS
    Peer = {n2}
    OwnKey = {own1, own2}
    PeerKey = {key1}
    Transport = {t1}
    Dispatcher = {d1}
    None = None
    Partial = Partial
    MaxTroubles = 1
    MaxEdits = 0
INVARIANTS
    EveryRerunAccepted
