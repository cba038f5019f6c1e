\* A campaign of two runs, with a process that fails, Ctrl-C twice, and a
\* worktree that changes.
SPECIFICATION Spec
CHECK_DEADLOCK FALSE
CONSTANTS
    PortWait = 1
    SimulatorWait = 1
    IntWait = 1
    TermWait = 1
    DrainWait = 1
    QueueSize = 1
    MaxReadings = 2
    MaxMishaps = 2
    Planned = 2
INVARIANTS
    SuccessIsComplete
    CleanupComplete
    AcceptedCampaignSound
PROPERTIES
    RunEnds
