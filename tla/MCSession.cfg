SPECIFICATION Spec
CONSTANTS
    Futures <- FuturesValue
    Today = 5
    Lockout = 6
    Width = 1
    Ticks <- TicksValue
    Held <- HeldValue
    Listed <- ListedValue
    Drifting <- DriftingValue
    Cap = 3
    MaxLines = 3
    Budgets <- BudgetsValue
INVARIANTS AnswersOwn PendingAwaited SeedWhole OrderIdsFresh LinesPerLeg WindowCovered
CHECK_DEADLOCK FALSE
