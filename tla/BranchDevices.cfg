SPECIFICATION Spec
CONSTANTS
    Devices = {d1, d2}
    MaxConns = 1
    MaxWatches = 2
    Leaving = {d2}
    Faults = {"messenger", "rateLimit", "crash"}
INVARIANTS
    TypeOK
    NoMissedDevice
CHECK_DEADLOCK FALSE
