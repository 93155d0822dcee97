SPECIFICATION Spec
CONSTANTS
    Handlers = {h1, h2}
    None = None
    MaxEvents = 4
    MaxPeriods = 2
    MaxRequests = 1
    MaxFaults = 1
CHECK_DEADLOCK FALSE
INVARIANT ScheduleApplied
