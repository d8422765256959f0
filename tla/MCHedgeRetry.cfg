SPECIFICATION FairSpec
CONSTANTS
    Futures <- FuturesValue
    Today = 5
    Lockout = 6
    Width = 1
    Ticks <- TicksValue
    Held <- HeldBack
    Listed <- ListedValue
    Drifting <- DriftingValue
    Cap = 3
    MaxLines = 3
    Budgets <- OneRefusal
PROPERTY HedgeResolvedYet
CHECK_DEADLOCK FALSE
