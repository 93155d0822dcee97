SPECIFICATION AllFairSpec
CONSTANTS
    Ids = {d1}
    Callers = {c1, c2}
    Nodes = {n1}
    Senders = {n1}
    Edges = {n1}
    Conns = {r1}
    MaxConnsPerUser = 1
    None = None
    MaxPending = 2
    MaxAttempts = 2
    Ttl = 1
    StatusTtl = 1
    RetryBase = 0
    RetryMax = 0
    MaxEmits = 1
    MaxNow = 0
    MaxAckFailures = 0
    Faults = {"ack"}
    MaxFaults = 1
CHECK_DEADLOCK FALSE
PROPERTY RetriedUntilSettled
