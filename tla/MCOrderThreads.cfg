SPECIFICATION ThreadsSpec
CONSTANTS
    Prices = {1}
    MaxOrders = 2
    MaxSame = 2
    StaleCancels = TRUE
    Faults = {"hot_drop", "stale_drop", "ack_drop", "status_drop", "ack_timeout", "slow_ack", "refuse"}
INVARIANT NoDoubleQuoteYet
INVARIANT ModifyTargetsTracked
INVARIANT EntryIndexed
CHECK_DEADLOCK FALSE
