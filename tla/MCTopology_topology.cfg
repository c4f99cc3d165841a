SPECIFICATION Spec
CONSTANTS
    Clients = {c1}
    Hubs = {hub}
    Ports = {p1}
    MaxObjects = 2
    Capabilities <- TwoKinds
    Serialized = TRUE
    NoPort = NoPort
SYMMETRY Symmetry
INVARIANTS
    PeersReciprocal
    UnregisteredIsDetached
    EnabledIsConnected
    NoChangeMissed
CHECK_DEADLOCK FALSE
