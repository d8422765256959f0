SPECIFICATION Spec
CONSTANTS
    Prices = {1, 2}
    MaxOrders = 1
    MaxSame = 1
    StaleCancels = FALSE
    Faults = {}
INVARIANT PricesAgree
CHECK_DEADLOCK FALSE
