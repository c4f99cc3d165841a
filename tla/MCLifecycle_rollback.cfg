SPECIFICATION Spec
CONSTANTS
    HcdCount = 2
    MayFail <- AnyFails
    Files = {f1}
    Devices <- TwoDevices
    NoInstance = NoInstance
INVARIANTS
    RegistryEmptyAtExit
CHECK_DEADLOCK FALSE
