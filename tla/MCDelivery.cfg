CONSTANTS
    a = a  a2 = a2  x = x
    i1 = i1  i2 = i2  p1 = p1  s1 = s1  s2 = s2
    None = None
    Copy = {1, 2}
    Envelope = {a, a2, x}
    Id = {i1, i2}
    Peer = {p1}
    Session = {s1, s2}
    Profile <- MCProfile
    BatchLimit = 2
    MaxDelivery = 2
    MaxFaults = 1
SPECIFICATION FairSpec
INVARIANTS TypeOK CompletedIsStored CollisionLeavesBoth
PROPERTIES ImplementsAtLeastOnce EveryCopySettled
CHECK_DEADLOCK FALSE
