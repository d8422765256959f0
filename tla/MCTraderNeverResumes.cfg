SPECIFICATION FairSpec
CONSTANTS
    o1 = o1
    o2 = o2
    Orders = {}
    RingSlots = 1
    Limits = {"pnl"}
    SentinelFiles = {}
    MaxCrashes = 0
    MaxLinkDrops = 0
    MaxDay = 1
    BrokerMayFail = FALSE
    AnnouncesReconnect = FALSE
PROPERTY TraderResumes
