\* The loop of the example over a network that loses, repeats and delays.
SPECIFICATION FairLoopSpec
CONSTANTS
    IdSpace = 4
    SensorCount = 2
    QueueSize = 2
    MaxBroadcasts = 2
    MaxCopies = 1
    CurrentSensors <- const_CurrentSensors
INVARIANTS
    PrintsAreMeans
PROPERTIES
    EverythingIsRead
    PrintsWhenDue
CHECK_DEADLOCK FALSE
