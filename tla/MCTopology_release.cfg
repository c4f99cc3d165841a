SPECIFICATION Spec
CONSTANTS
    Clients = {c1, c2}
    Hubs = {hub}
    Ports = {p1}
    MaxObjects = 1
    Capabilities <- OneDevice
    Serialized = FALSE
    NoPort = NoPort
SYMMETRY Symmetry
INVARIANTS
    ReleasedIsDetached
CHECK_DEADLOCK FALSE
