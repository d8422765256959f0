SPECIFICATION Spec
CONSTANTS
    o1 = o1
    o2 = o2
    Orders = {}
    RingSlots = 1
    Limits = {"margin"}
    SentinelFiles = {}
    MaxCrashes = 2
    MaxLinkDrops = 0
    MaxDay = 0
    BrokerMayFail = FALSE
    AnnouncesReconnect = FALSE
INVARIANT RestartedTraderBlocked
