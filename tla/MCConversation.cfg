CONSTANTS
    None = None
    Client = {a, b}
    Key = {k1, k2, k3}
    Conv = {c1}
    Project = {x, y}
    Content = {u}
SYMMETRY Symmetry
SPECIFICATION Spec
INVARIANTS TypeOK OneRootAndProject FollowUpsFollow
CHECK_DEADLOCK FALSE
