SPECIFICATION Spec
CONSTANTS
    d1 = d1
    d2 = d2
    Devices <- MCDevices
    Managed <- MCManaged
    Calls = {c1, c2}
    Workers = {w1, w2}
    MaxConcurrent = 2
    Offered <- MCAllKinds
    Sweep <- MCSweep
    Cancellable = FALSE
    NoDevice = NoDevice
    BatfishLock = BatfishLock
    NoRequest = NoRequest
    Nobody = Nobody
    Orphan = Orphan
INVARIANTS
    NoOverlappingSSH
