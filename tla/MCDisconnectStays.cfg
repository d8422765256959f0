SPECIFICATION FairSpec
CONSTANTS
    o1 = o1
    o2 = o2
    Orders = {}
    RingSlots = 1
    Limits = {}
    SentinelFiles = {}
    MaxCrashes = 0
    MaxLinkDrops = 1
    MaxDay = 0
    BrokerMayFail = FALSE
    AnnouncesReconnect = FALSE
PROPERTY DisconnectKillClears
