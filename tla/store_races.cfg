SPECIFICATION Spec
CONSTANTS
    Ids = {d1, d2, d3}
    Callers = {c1, c2}
    None = None
    MaxPending = 1
    MaxAttempts = 2
    Ttl = 1
    StatusTtl = 1
    RetryBase = 1
    RetryMax = 2
    MaxEmits = 2
    MaxNow = 3
SYMMETRY Symmetry
CONSTRAINT OneInDepth
CHECK_DEADLOCK FALSE
INVARIANTS TypeOK AttemptsBounded CapOvershootBounded
PROPERTIES LeavesOnlyWhenDone OutcomeFinal NeverResurrected
