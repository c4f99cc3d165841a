SPECIFICATION Spec
CONSTANTS
    HostThreads = {h1}
    UserThreads = {u1, u2}
    Remover = rm
    Files = {f1, f2}
    Devices = {d1}
    Urbs = {urb1, urb2}
    MaxTransfers = 2
    NoFile = NoFile
    NoDevice = NoDevice
    NoUrb = NoUrb
SYMMETRY Symmetry
INVARIANTS
    SingleCustody
    ExactlyOnce
    UrbOfOneTransfer
    LinkedIffQueued
    RefcountExact
PROPERTIES
    ImplementsContract
CHECK_DEADLOCK FALSE
