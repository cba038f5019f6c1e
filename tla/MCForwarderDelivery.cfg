\* A connection that breaks after drain() has returned.
SPECIFICATION Spec
CONSTANTS
    Modes = {"RAW"}
    QueueSize = 2
    Window = 1
    TicksPerMs = 1
    Walls <- OneClock
    MaxWall = 2
    MaxSkew = 0
    KernelRoom = 0
    HighWater = 0
    MaxLag = 0
    MaxReadings = 3
    MaxDrops = 0
    MaxClock = 2
    MaxOutages = 1
    MaxFailures = 1
    MayStall = FALSE
INVARIANT
    SentIsDelivered
