CONSTANTS
    None = None
    Client = {a, b}
    Key = {k1, k2, k3}
    Conv = {c1}
    Project = {x}
    Content = {u}
SYMMETRY Symmetry
SPECIFICATION Spec
INVARIANTS OneChain
CHECK_DEADLOCK FALSE
