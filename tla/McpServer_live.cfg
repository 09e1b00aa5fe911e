SPECIFICATION FairSpec
CONSTANTS
    d1 = d1
    d2 = d2
    Devices <- MCDevices
    Managed <- MCManaged
    Calls = {c1, c2, c3}
    Workers = {w1, w2}
    MaxConcurrent = 1
    Offered <- MCChaos
    Sweep <- MCSweep
    Cancellable = TRUE
    NoDevice = NoDevice
    BatfishLock = BatfishLock
    NoRequest = NoRequest
    Nobody = Nobody
    Orphan = Orphan
PROPERTIES
    EveryCallReturns
