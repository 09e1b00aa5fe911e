SPECIFICATION Spec
CONSTANTS
    Devices = {1, 2, 3}
    Inventory <- MCInventory
    Compatible = {0}
    Pipelines = {p1}
    Targets <- MCTargets
    MaxEdits = 1
    Local = Local
    Garbled = Garbled
    NoVersion = NoVersion
INVARIANTS
    GreenIsReachable
CHECK_DEADLOCK FALSE
