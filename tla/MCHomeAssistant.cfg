\* Announcements and states of every kind of sensor, between the reads of a hub.
SPECIFICATION HomeSpec
CONSTANTS
    IdSpace = 4
    SensorCount = 2
    QueueSize = 1
    MaxBroadcasts = 2
    MaxCopies = 0
    Serial = 7
    Layouts <- const_Layouts
INVARIANTS
    EntitiesApart
    EntitiesAreSupplied
    EntitiesShowTheirSensor
    ReportsAreMeans
CHECK_DEADLOCK FALSE
