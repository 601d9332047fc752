CONSTANTS
    m1 = m1  m2 = m2
    p1 = p1  p2 = p2
    w1 = w1  w2 = w2  w3 = w3
    None = None
    Id = {m1, m2}
    Operation = {p1, p2}
    Worker = {w1, w2}
    Mortal = {w1}
    Authorized <- MCAuthorized
    ExclusiveLock = TRUE
    LeaseSeconds = 2
    BatchLimit = 2
    Backoff <- MCBackoff
    Validity <- UtcValidity
    MaxTime = 4
SPECIFICATION FairSpec
INVARIANTS TypeOK BatchIsLeased
PROPERTIES NoSendOnceFinal ImplementsDurableSend EveryMessageResolved
CHECK_DEADLOCK FALSE
