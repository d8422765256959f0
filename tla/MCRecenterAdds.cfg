SPECIFICATION Spec
CONSTANTS
    Futures <- FuturesValue
    Today = 5
    Lockout = 6
    Width = 1
    Ticks <- TicksValue
    Held <- HeldValue
    Listed <- ListedValue
    Drifting <- DriftingValue
    Cap = 3
    MaxLines = 3
    Budgets <- Faultless
INVARIANT OnlyMissingAdded
CHECK_DEADLOCK FALSE
