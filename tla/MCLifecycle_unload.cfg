SPECIFICATION FairSpec
CONSTANTS
    HcdCount = 2
    MayFail <- FirstFails
    Files = {f1, f2}
    Devices <- TwoDevices
    NoInstance = NoInstance
INVARIANTS
    TypeOK
    OpenFilesLive
    AttachedHubLive
    RegistryEmptyAtExit
    NothingLeaks
PROPERTIES
    ExitCompletes
CHECK_DEADLOCK FALSE
