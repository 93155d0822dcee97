SPECIFICATION FairSpec
CONSTANTS
    start = start
    long = long
    ask1 = ask1
    ask2 = ask2
    join = join
    Nodes = {start, long, ask1, ask2, join}
    Edges <- MCEdges
    Joins = {join}
    Humans = {ask1, ask2}
    People = {p1, p2}
    Drivers = {v1, v2}
    None = None
    MaxControls = 4
    MaxApprovals = 4
    MaxFaults = 1
CHECK_DEADLOCK FALSE
INVARIANTS TypeOK CompletedMeansAllRan OneDriver WaitingIsAnswerable
PROPERTIES JoinsRunLast OutcomeFinal Settles
