SPECIFICATION Spec
CONSTANTS
    Threads = {t1, t2}
    PortCount = 2
    MaxPorts = 3
    WordBits = 4
    ByteBits = 2
    Capabilities <- MCCapabilities
    Sockets = {1, 2}
    Serialized = FALSE
PROPERTY
    PendingUntilAcknowledged
CHECK_DEADLOCK FALSE
