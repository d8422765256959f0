CONSTANTS
    ByteBase = 3
    MaxFrameBytes = 4
    Capacity = 9
    Bodies <- MCBodies
    FifoCap = 1
    MaxSends = 4
    MaxCrashes = 1
SPECIFICATION RestartSpec
INVARIANT CleanAfterRestart
