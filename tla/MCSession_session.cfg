SPECIFICATION FairSpec
CONSTANTS
    Procs = {b1}
    Programs <- AnyProgram
    PortOf <- MCPortOf
    Spare = {spare}
    Ports = {n1}
    Urbs = {u1, u2}
    MaxCommands = 3
    NoPort = NoPort
    NoUrb = NoUrb
    NoDevice = NoDevice
INVARIANTS
    TypeOK
    CleanExit
    FetchedIsHandled
    FetchOrder
PROPERTIES
    EveryUrbReturns
    StopHonoured
CHECK_DEADLOCK FALSE
