\* The same against a Pico that may send anything true at any time.
SPECIFICATION FairSpec
CONSTANTS
    Engine = Engine
    Tank = Tank
    IdSpace = 12
    Parts = 2
    Capacity = 3
    MaxStream = 4
    UnaskedRequests <- Requests
    Names <- MCNames
    Inventories <- DetachedInventory
    StateAnswers <- MCStateAnswers
INVARIANTS
    MirrorsInventory
    LinksAgree
PROPERTIES
    ImplementsCatalogue
CHECK_DEADLOCK FALSE
