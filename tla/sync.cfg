SPECIFICATION FairSpec
CONSTANTS
    Workspaces = {w1, w2}
    None = None
    Kinds = {{"event", "digest"}, {"event"}}
    MaxChanges = 2
    MaxFaults = 1
    MaxVisits = 2
CHECK_DEADLOCK FALSE
INVARIANTS TypeOK NothingMissed
PROPERTIES ComesToRest
