SPECIFICATION Spec
CONSTANTS
    Procs = {b1, b2}
    Programs <- TestDevices
    PortOf <- MCPortOf
    Spare = {}
    Ports = {n1}
    Urbs = {u1}
    MaxCommands = 0
    NoPort = NoPort
    NoUrb = NoUrb
    NoDevice = NoDevice
INVARIANT
    AnswersAfterReset
CHECK_DEADLOCK FALSE
