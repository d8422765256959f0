CONSTANTS
    ByteBase = 3
    MaxFrameBytes = 4
    Capacity = 9
    Bodies <- MCBodies
    FifoCap = 1
    MaxSends = 4
    MaxCrashes = 2
SPECIFICATION RestartSpec
INVARIANTS
    NoTornFrame
    CommandsSurvive
    RestartHarmlessOutsideOps
CONSTRAINT NotHit
