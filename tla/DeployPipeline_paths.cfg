SPECIFICATION Spec
CONSTANTS
    Devices = {1, 2, 3}
    Inventory <- MCInventory
    Compatible = {0}
    Pipelines = {p1, p2}
    Targets <- MCTargets
    MaxEdits = 1
    Local = Local
    Garbled = Garbled
    NoVersion = NoVersion
SYMMETRY Symmetric
INVARIANTS
    TypeOK
    GateSawPushed
    PushedWasChecked
PROPERTIES
    GreenIsDeployed
CHECK_DEADLOCK FALSE
