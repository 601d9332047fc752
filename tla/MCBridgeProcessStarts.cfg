CONSTANTS
    None = None
    Process = {a, b, c}
    Pid = {i, j, k}
    CrashPoint <- AnyPlace
    ConcurrentStarts = TRUE
SYMMETRY ProcessSymmetry
SPECIFICATION Spec
INVARIANTS OneWorker
CHECK_DEADLOCK FALSE
