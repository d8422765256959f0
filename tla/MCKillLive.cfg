SPECIFICATION LiveSpec
CONSTANTS
    o1 = o1
    o2 = o2
    Orders <- TwoOrders
    RingSlots = 1
    Limits = {"margin"}
    SentinelFiles = {"daily_pnl"}
    MaxCrashes = 1
    MaxLinkDrops = 1
    MaxDay = 2
    BrokerMayFail = FALSE
    AnnouncesReconnect = TRUE
ACTION_CONSTRAINT Parts
PROPERTY SweepCancelsResting
PROPERTY StandingBreachKilled
