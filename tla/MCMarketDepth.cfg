SPECIFICATION Spec
CONSTANTS
    Legs <- LegsValue
    Orders <- OrdersValue
    Spots <- SpotsValue
    Watched <- WatchedValue
    Prices = {1, 2}
    Rows = 2
    MaxActive = 2
    FixedNearest = 1
    MaxWire = 1
    MaxMoves = 1
    MaxRejects = 1
    MayLag = TRUE
    MayBreak = TRUE
INVARIANTS DepthWithinLimit BookFollows RoutesOwned EveryLegCovered
