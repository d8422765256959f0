CONSTANTS
    call = call
    put = put
    HedgeLeg = fut
    Options <- MCOptions
    Unregistered = {put}
    DeltaOf <- MCDeltaOf
    Unit = 2
    Tolerance = 1
    TradeQtys <- MCTradeQtys
    SeedBooks <- MCSeedBooks
    SeedHedges = {0, 1}
    FillCap = 2
    ExecIdsMax = 1
    ReconcileEvery = 2
    MaxTrades = 1
    MaxFaults = 1
    SlowGateway = FALSE
SPECIFICATION FairSpec
PROPERTIES
    FlatLegReconciled
