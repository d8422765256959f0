SPECIFICATION FairSpec
CONSTANTS
    Prices = {1}
    MaxOrders = 1
    MaxSame = 1
    StaleCancels = FALSE
    Faults = {}
PROPERTY CancelEndsOrder
CHECK_DEADLOCK FALSE
