SPECIFICATION FairSpec
CONSTANTS
    Prices = {1, 2}
    MaxOrders = 1
    MaxSame = 1
    StaleCancels = TRUE
    Faults = {"hot_drop", "stale_drop", "ack_drop", "status_drop", "ack_timeout", "refuse"}
PROPERTY UnackedResolves
CHECK_DEADLOCK FALSE
