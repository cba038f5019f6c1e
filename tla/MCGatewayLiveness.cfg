\* The clock runs: the liveness monitor, with two nodes behind one connection.
SPECIFICATION Spec
CONSTANTS
    Node = {n1, n2}
    Conn = {c1}
    Sequence = {0, 1, 3}
    LineKinds = {"message"}
    SuspectAfter = 2
    OfflineAfter = 4
    CheckInterval = 1
    Jitter = 1
    MaxClock = 7
    MaxLines = 3
    MaxInbox = 1
SYMMETRY Symmetry
INVARIANTS
    DetectionBound
    NoFalseAlarm
    MissingEstimateBounds
PROPERTIES
    RecoveryNeedsMessage
    SuspectBeforeOffline
