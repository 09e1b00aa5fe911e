SPECIFICATION Spec
CONSTANTS
    ce = ce
    leaf = leaf
    fw = fw
    Devices <- MCRouter
    Platform <- MCPlatform
    Procs <- MCProcs
    Kinds <- MCKinds
    Configured <- MCRouter
    Managed <- MCRouter
    Leaves <- MCLeaves
    Cycles = {c1}
    Deploys = {}
    DeployOrder <- MCOneDevice
    InThread = {c1}
    Rejections = FALSE
    MaxReloads = 0
    NoDevice = NoDevice
    NoFault = NoFault
CHECK_DEADLOCK FALSE
INVARIANTS
    RollbackGuaranteed
