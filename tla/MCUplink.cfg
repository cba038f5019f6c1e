\* A physical or a virtual node, one restart, connections that break.
SPECIFICATION LiveSpec
CHECK_DEADLOCK FALSE
CONSTANTS
    MaxSequence = 3
    MaxIncarnations = 2
    MaxConnections = 3
    MaxFaults = 1
    MaxSamples = 4
    Initial = 1
    Maximum = 2
    Interval = 1
    WifiTimeout = 1
    ConnectTimeout = 1
    SensorRetry = 1
INVARIANTS
    TypeOK
    ResetMeansRestart
    OutOfOrderMeansMissedStart
    GapsAreLosses
    DuplicateExplained
    AttemptsCoverDelivery
    StatsRowBalanced
PROPERTIES
    KeepsReporting
