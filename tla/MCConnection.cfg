\* Discovery, connections, moves and destruction with every call failing.
SPECIFICATION Spec
CONSTANTS
    Descriptors <- MCDescriptors
    Ports = {p1, p2}
    Clients = {c1, c2}
    Local = Local
SYMMETRY Interchangeable
INVARIANTS
    TypeOK
    OwnedOnce
    NothingElseLeaks
    OnlyClientsKeepPorts
CHECK_DEADLOCK FALSE
