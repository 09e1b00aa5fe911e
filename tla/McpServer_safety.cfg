SPECIFICATION Spec
CONSTANTS
    d1 = d1
    d2 = d2
    Devices <- MCDevices
    Managed <- MCManaged
    Calls = {c1, c2, c3}
    Workers = {w1, w2, w3}
    MaxConcurrent = 2
    Offered <- MCAllKinds
    Sweep <- MCSweep
    Cancellable = TRUE
    NoDevice = NoDevice
    BatfishLock = BatfishLock
    NoRequest = NoRequest
    Nobody = Nobody
    Orphan = Orphan
SYMMETRY Symmetric
INVARIANTS
    TypeOK
    LockedSessionsExclusive
    SessionsCapped
    BatfishSerialised
    PermitsNeverIdle
    NothingLeaks
PROPERTIES
    ImplementsGate
