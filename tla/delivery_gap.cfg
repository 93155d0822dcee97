SPECIFICATION AllSpec
CONSTANTS
    Ids = {d1}
    Callers = {c1, c2}
    Nodes = {n1, n2}
    Senders = {n1, n2}
    Edges = {n1, n2}
    Conns = {r1, r2}
    MaxConnsPerUser = 1
    None = None
    MaxPending = 2
    MaxAttempts = 2
    Ttl = 1
    StatusTtl = 1
    RetryBase = 1
    RetryMax = 1
    MaxEmits = 1
    MaxNow = 0
    MaxAckFailures = 0
    Faults = {"publish", "crash"}
    MaxFaults = 1
CHECK_DEADLOCK FALSE
SYMMETRY SymmetryNodes
INVARIANT NoGap
