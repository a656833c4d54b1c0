CONSTANTS
    Callers = {c1, c2, c3}
    NoCall = NoCall
    MaxAttempts = 2
    FailureThreshold = 2
    OpenTimeout = 1
    MaxTime = 5
SYMMETRY Symmetry
SPECIFICATION Spec
INVARIANTS
    UnsafeCallsAreMadeOnce
    LoadIsBounded
CHECK_DEADLOCK FALSE
