SPECIFICATION Spec
CONSTANTS
    ce = ce
    leaf = leaf
    fw = fw
    Devices <- MCTwo
    Platform <- MCPlatform
    Procs <- MCProcs
    Kinds <- MCKinds
    Configured <- MCRouter
    Managed <- MCRouter
    Leaves <- MCLeaves
    Cycles = {c1, c2}
    Deploys = {p1}
    DeployOrder <- MCDeployTwo
    InThread = {}
    Rejections = FALSE
    MaxReloads = 1
    NoDevice = NoDevice
    NoFault = NoFault
CHECK_DEADLOCK FALSE
SYMMETRY Symmetric
INVARIANTS
    TypeOK
    FaultsAnswered
    SavedFaultsAnswered
    RollbackAttempted
    AlarmScoped
