SPECIFICATION FairSpec
CONSTANTS
    MaxSessions = 2
    Callers = {c1, c2}
    Handlers = {h1, h2}
    Users = {u1, u2}
    Workspaces = {w1}
    None = None
    MaxPlan = 1
    MaxRedemptions = 1
    PerUserLimit = 1
    MaxFaults = 1
CHECK_DEADLOCK FALSE
INVARIANTS TypeOK SlotsAccounted SlotFollowsCheckout CreditedOnce NoDoubleCharge
PROPERTIES OutcomeFinal PaidIsHonoured
