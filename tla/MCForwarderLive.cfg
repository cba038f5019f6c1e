\* Two breaks and a responsive collector, on smaller bounds: liveness, and what
\* equal counters say in the end.
SPECIFICATION ResponsiveSpec
CONSTANTS
    Modes = {"RAW", "AGGREGATED"}
    QueueSize = 1
    Window = 1
    TicksPerMs = 1
    Walls <- OneClock
    MaxWall = 1
    MaxSkew = 1
    KernelRoom = 0
    HighWater = 0
    MaxLag = 0
    MaxReadings = 2
    MaxDrops = 0
    MaxClock = 1
    MaxOutages = 2
    MaxFailures = 1
    MayStall = TRUE
INVARIANT
    ParityMeansDelivery
PROPERTIES
    StopTerminates
    EventuallySent
