\* A network that repeats a datagram: the copy is a reading of its own.
SPECIFICATION Spec
CONSTANTS
    IdSpace = 4
    SensorCount = 2
    QueueSize = 2
    MaxBroadcasts = 2
    MaxCopies = 1
INVARIANTS
    AverageIsMeanOfWindow
    EachReadOnce
CHECK_DEADLOCK FALSE
