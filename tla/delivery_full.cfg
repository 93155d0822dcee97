SPECIFICATION AllSpec
CONSTANTS
    Ids = {d1, d2}
    Callers = {c1}
    Nodes = {n1}
    Senders = {n1}
    Edges = {n1}
    Conns = {r1, r2}
    MaxConnsPerUser = 1
    None = None
    MaxPending = 1
    MaxAttempts = 1
    Ttl = 1
    StatusTtl = 1
    RetryBase = 0
    RetryMax = 0
    MaxEmits = 1
    MaxNow = 0
    MaxAckFailures = 1
    Faults = {"leave", "ack", "stall"}
    MaxFaults = 2
CHECK_DEADLOCK FALSE
SYMMETRY Symmetry
INVARIANT AllTypeOK
PROPERTY DeliversThenDeletes
