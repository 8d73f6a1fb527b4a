SPECIFICATION Spec
CONSTANTS
    Clients = {p1, p2}
    NumSlots = 1
    NumIds = 3
    NumSurfaces = 1
    NumSectors = 1
    Surfaces = {0}
    Sectors = {0}
    Things = {0}
    ListSize = 1
    FrameSteps = 2
    MaxUp = 1
    MaxDown = 2
    MaxConnects = 2
    MaxDestroyed = 1
    MaxDrops = 0
    MaxLevels = 2
    HostMayLeave = FALSE
SYMMETRY MCSymmetry
INVARIANTS
    TypeOK
    SnapshotComplete
CHECK_DEADLOCK FALSE
