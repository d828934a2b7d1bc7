\* Broadcasts of every shape, lost, late, out of order and queued up.
SPECIFICATION FairSpec
CONSTANTS
    IdSpace = 4
    SensorCount = 2
    QueueSize = 2
    MaxBroadcasts = 3
    MaxCopies = 0
INVARIANTS
    TypeOK
    AverageIsMeanOfWindow
    AverageWithinReadings
    EachReadOnce
PROPERTIES
    ReadReturns
CHECK_DEADLOCK FALSE
