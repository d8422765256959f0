CONSTANTS
    ByteBase = 3
    MaxFrameBytes = 4
    Capacity = 9
    Bodies <- MCBodies
    FifoCap = 1
    MaxSends = 5
SPECIFICATION FairSpec
INVARIANTS
    RingInv
    StreamIntact
    DeliveredInOrder
    WholeFramesOnly
PROPERTIES
    EventuallyDelivered
    ImplementsFrameQueue
