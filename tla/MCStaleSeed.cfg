SPECIFICATION MCSpec
CONSTANTS
    TickSize = 4  EdgeTicks = 1  SpreadMul = 2  DeadBand = 1  MinTheo = 4
    Strike = 100  Right = "P"  MaxOffset = 10  AtmTol = 2  MaxDrift = 6
    Burst = 2  Cooldown = 3  Unack = 4  RiskStale = 5  GtdRefresh = 6  FitStale = 8
    DeltaCeiling = 3  ThetaKill <- ThetaKillValue
    ParityLimit = 8  CacheCap = 1
    ByteBase = 3  MaxFrameBytes = 4  MaxBuf = 7
    Scenarios <- SeedScenario
INVARIANT SeedCurrent
CHECK_DEADLOCK FALSE
