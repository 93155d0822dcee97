SPECIFICATION FairSpec
CONSTANTS
    Workspaces = {w1, w2}
    None = None
    Events = {"workspace", "watchdog", "visible", "offline", "token"}
    MaxGen = 20
    MaxFaults = 6
CHECK_DEADLOCK FALSE
INVARIANTS TypeOK NoOrphanStream DisconnectedMeansClosed
PROPERTY LossRecovers
