SPECIFICATION Spec
CONSTANTS
    leaf = leaf
    ce = ce
    vpn = vpn
    asnLeaf = asnLeaf
    asnCe = asnCe
    policy = policy
    None = None
    Lab <- McLab
    Ce = ce
    Vpn = vpn
    Managed <- McManaged
    Wan <- McWan
    Placed <- McPlaced
    Links <- McLinks
    Looped <- McLooped
    Overlay <- McOverlay
    Fabrics <- McFabrics
    Observed <- McObserved
    Asn <- McAsn
    Policy <- McPolicy
    Operators = {o1, o2}
    Offered = {"populate", "enterprise", "contexts", "sync", "enrich", "bgp", "seed", "generate"}
    MaxRuns = 3
SYMMETRY Symmetry
CONSTRAINT FewLeft
CHECK_DEADLOCK FALSE
INVARIANTS
    TypeOK
    BoundaryHolds
    InventoryRealised
    ManagementRealised
    ServicesRealised
    CircleCloses
    NothingMissing
PROPERTIES
    NothingUndone
    PrimaryKept
