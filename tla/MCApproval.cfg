SPECIFICATION Spec
CONSTANTS
    m1 = m1
    m2 = m2
    o1 = o1
    p1 = p1
    r1 = r1
    k1 = k1
    d1 = d1
    a1 = a1
    None = None
    Message = {m1, m2}
    Operation = {o1}
    OperationOf <- MCOperationOf
    Peer = {p1}
    Resource = {r1}
    PeerOf <- MCPeerOf
    ResourceOf <- MCResourceOf
    Consumer = {k1, d1, a1}
    Coordinator = {k1}
    Eligible <- MCEligible
    Asks = {k1, d1}
    Authentic = {m1, m2}
INVARIANTS
    TypeOK
    ParkedIsPending
    OneRequestPerOperation
PROPERTIES
    CollisionReleasedByOperator
    ImplementsAccessPolicy
