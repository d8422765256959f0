SPECIFICATION Spec
CONSTANTS
    o1 = o1
    o2 = o2
    Orders = {}
    RingSlots = 1
    Limits = {"pnl"}
    SentinelFiles = {}
    MaxCrashes = 1
    MaxLinkDrops = 1
    MaxDay = 1
    BrokerMayFail = TRUE
    AnnouncesReconnect = FALSE
INVARIANT KillsFired
INVARIANT KillReachesTrader
INVARIANT StickyKillStays
CONSTRAINT NothingLost
