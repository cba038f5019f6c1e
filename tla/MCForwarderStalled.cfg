\* Shutdown while the collector keeps the connection open and does not read.
SPECIFICATION FairSpec
CONSTANTS
    Modes = {"RAW"}
    QueueSize = 2
    Window = 1
    TicksPerMs = 1
    Walls <- OneClock
    MaxWall = 2
    MaxSkew = 0
    KernelRoom = 0
    HighWater = 0
    MaxLag = 0
    MaxReadings = 3
    MaxDrops = 0
    MaxClock = 2
    MaxOutages = 0
    MaxFailures = 1
    MayStall = TRUE
PROPERTY
    StopTerminates
