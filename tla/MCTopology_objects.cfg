SPECIFICATION Spec
CONSTANTS
    Clients = {c1, c2}
    Hubs = {}
    Ports = {p1}
    MaxObjects = 2
    Capabilities <- OneDevice
    Serialized = FALSE
    NoPort = NoPort
SYMMETRY Symmetry
INVARIANTS
    TypeOK
    ObjectRefsExact
PROPERTIES
    IdsNeverReused
CHECK_DEADLOCK FALSE
