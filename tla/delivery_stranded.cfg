SPECIFICATION AllSpec
CONSTANTS
    Ids = {d1}
    Callers = {c1, c2}
    Nodes = {n1}
    Senders = {n1}
    Edges = {n1}
    Conns = {r1, r2}
    MaxConnsPerUser = 1
    None = None
    MaxPending = 2
    MaxAttempts = 1
    Ttl = 1
    StatusTtl = 1
    RetryBase = 0
    RetryMax = 0
    MaxEmits = 2
    MaxNow = 0
    MaxAckFailures = 0
    Faults = {"stall"}
    MaxFaults = 0
CHECK_DEADLOCK FALSE
SYMMETRY Symmetry
INVARIANT NeverStranded
