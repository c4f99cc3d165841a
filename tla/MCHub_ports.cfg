SPECIFICATION Spec
CONSTANTS
    Threads = {t1}
    PortCount = 3
    MaxPorts = 3
    WordBits = 4
    ByteBits = 3
    Capabilities <- MCCapabilities
    Sockets = {2, 3}
    Serialized = TRUE
INVARIANTS
    TypeOK
    OnlyPortBits
    StatusShown
PROPERTY
    ImplementsContract
CHECK_DEADLOCK FALSE
