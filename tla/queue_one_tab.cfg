SPECIFICATION FairSpec
CONSTANTS
    Tabs = {t1}
    None = None
    Keys = {k1, k2, k3}
    Unknown = {k3}
    MaxAttempts = 2
    MaxQueue = 2
    MaxActions = 3
    MaxClosed = 2
INVARIANTS TypeOK KeptUnlessMidReplay InOrder
PROPERTY DrainsUnlessMidReplay
