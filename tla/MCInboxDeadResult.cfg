CONSTANTS
    m1 = m1  m2 = m2
    c1 = c1  c2 = c2
    None = None
    Id = {m1}
    Peer = {a}
    Version = {v1, v2}
    Consumer = {c1, c2}
    Token = {t1, t2, t3, t4, t5}
    Key = {result, failure}
    Content = {r1, r2}
    OtherKind = {}
    Eligible <- EveryEligible
    IncludeExpired = {c2}
    Asks = {}
    ClaimLimit = 1
    LeaseSeconds = 2
    Lifetime = {2}
    Stall = 1
    MaxTime = 3
SYMMETRY TokenSymmetry
SPECIFICATION Spec
PROPERTIES DeadResultNotReused
CHECK_DEADLOCK FALSE
