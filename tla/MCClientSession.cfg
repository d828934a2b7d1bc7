\* Calls of every kind, in any order and after errors, on one connection.
SPECIFICATION FairSession
CONSTANTS
    Engine = Engine
    Tank = Tank
    IdSpace = 12
    Parts = 2
    Capacity = 4
    MaxStream = 4
    CallIds = {0, 1}
    MaxCalls = 3
    UnaskedRequests <- const_NoRequests
    Names <- const_Names
    Inventories <- const_Inventories
    StateAnswers <- const_StateAnswers
INVARIANTS
    CallsGetTheirAnswers
    LagsByCallsGivenUp
PROPERTIES
    CallsReturn
CHECK_DEADLOCK FALSE
