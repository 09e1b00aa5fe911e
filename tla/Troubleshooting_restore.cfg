SPECIFICATION Spec
CONSTANTS
    Devices <- MCDevices
    Platform <- MCPlatform
    Procs = {u1, u2}
    Kinds <- MCKinds
    Configured <- MCDevices
    Rejections = FALSE
    MaxReloads = 0
    NoDevice = NoDevice
    Exercises <- MCExercises
INVARIANTS
    RestoreIsClean
CHECK_DEADLOCK FALSE
