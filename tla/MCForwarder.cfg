\* Both modes, a collector that comes and goes, shutdown at any moment.
SPECIFICATION Spec
CONSTANTS
    Modes = {"RAW", "AGGREGATED"}
    QueueSize = 2
    Window = 1
    TicksPerMs = 2
    Walls <- LateAndSetBack
    MaxWall = 1
    MaxSkew = 0
    KernelRoom = 1
    HighWater = 0
    MaxLag = 1
    MaxReadings = 3
    MaxDrops = 1
    MaxClock = 2
    MaxOutages = 1
    MaxFailures = 1
    MayStall = FALSE
INVARIANTS
    TypeOK
    RawAccounting
    ReadingsConserved
    GracefulStopSendsAll
    
    WindowCoversReadings
    RetransmissionsIdentical
    ExactlyOnceWithoutOutage
    UnavailableMeansNoConnection
    AnalysisCountsOnce
