CONSTANTS
    m1 = m1  m2 = m2
    c1 = c1  c2 = c2
    None = None
    Id = {m1}
    Peer = {a, b}
    Version = {v1, v2}
    Consumer = {c1, c2}
    Token = {t1, t2, t3, t4}
    Key = {result}
    Content = {r1, r2, r3}
    OtherKind = {r3}
    Eligible <- EveryEligible
    IncludeExpired = {c2}
    Asks = {c2}
    ClaimLimit = 1
    LeaseSeconds = 1
    Lifetime = {1}
    Stall = 1
    MaxTime = 2
SYMMETRY TokenSymmetry
SPECIFICATION Spec
INVARIANTS TypeOK ResultIsPublished
PROPERTIES ClaimFencing ImplementsFencedAnswer
CHECK_DEADLOCK FALSE
