SPECIFICATION FairSpec
CONSTANTS
    Handlers = {h1, h2}
    None = None
    MaxEvents = 4
    MaxPeriods = 2
    MaxRequests = 1
    MaxFaults = 1
CONSTRAINT OneExtra
CHECK_DEADLOCK FALSE
INVARIANTS TypeOK FollowsProvider
PROPERTIES OnlyUnpaidIsDropped AllAnswered
