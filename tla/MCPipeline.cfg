\* Two connections, four messages through a queue of two, one failing write.
SPECIFICATION FairSpec
CONSTANTS
    Writer <- Files
    QueueSize <- Sizes
    BatchSize = 2
    Conn = {c1, c2}
    MaxMessages = 4
    MaxEvents = 1
    MaxDiskErrors = 1
INVARIANTS
    TypeOK
    ProducersHaveSinks
    CleanExitComplete
    ForwardFollowsEvidence
PROPERTIES
    StoreImplementsLog
    ShutdownCompletes
