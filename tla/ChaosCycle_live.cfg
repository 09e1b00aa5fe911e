SPECIFICATION FairSpec
CONSTANTS
    ce = ce
    leaf = leaf
    fw = fw
    Devices <- MCMixed
    Platform <- MCPlatform
    Procs <- MCProcs
    Kinds <- MCKinds
    Configured <- MCFirewall
    Managed <- MCMixed
    Leaves <- MCLeaves
    Cycles = {c1, c2}
    Deploys = {}
    DeployOrder <- MCDeployMixed
    InThread = {c2}
    Rejections = TRUE
    MaxReloads = 1
    NoDevice = NoDevice
    NoFault = NoFault
CHECK_DEADLOCK FALSE
PROPERTIES
    EveryCycleEnds
INVARIANTS
    DetectionSound
