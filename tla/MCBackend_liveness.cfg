SPECIFICATION FairSpec
CONSTANTS
    HostThreads = {h1}
    UserThreads = {u1, u2}
    Remover = rm
    Files = {f1}
    Devices = {d1}
    Urbs = {urb1}
    MaxTransfers = 2
    NoFile = NoFile
    NoDevice = NoDevice
    NoUrb = NoUrb
PROPERTIES
    StopCompletes
    StopReturnsUrbs
    ReadyFetchLeaves
    UnregisterEndsTransfers
CHECK_DEADLOCK FALSE
