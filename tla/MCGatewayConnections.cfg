\* Two overlapping connections of two nodes, every kind of end, no clock.
SPECIFICATION FairSpec
CONSTANTS
    Node = {n1, n2}
    Conn = {c1, c2}
    Sequence = {0}
    LineKinds = {"message", "malformed_json", "rejected_reading", "overlong"}
    SuspectAfter = 1
    OfflineAfter = 2
    CheckInterval = 1
    Jitter = 0
    MaxClock = 0
    MaxLines = 3
    MaxInbox = 2
INVARIANTS
    TypeOK
    ConnectionAccounting
    StoppedIsQuiescent
PROPERTIES
    StopCompletes
