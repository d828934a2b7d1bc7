\* The initialization over a connection that splits frames, fails and closes.
SPECIFICATION FairSpec
CONSTANTS
    Engine = Engine
    Tank = Tank
    IdSpace = 12
    Parts = 2
    Capacity = 4
    MaxStream = 4
    UnaskedRequests <- NoRequests
    Names <- MCNames
    Inventories <- SmallInventories
    StateAnswers <- MCStateAnswers
INVARIANTS
    TypeOK
    MirrorsInventory
    LinksAgree
    InitialValuesAreReadings
    FailureHasCause
    Lockstep
PROPERTIES
    RequestsOnQuietConnection
    AnsweredHubBecomesReady
    ImplementsCatalogue
    EndsOrWaitsForPico
CHECK_DEADLOCK FALSE
