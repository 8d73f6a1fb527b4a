SPECIFICATION Spec
CONSTANTS
    Clients = {p1, p2}
    NumSlots = 1
    NumIds = 3
    NumSurfaces = 1
    NumSectors = 0
    Surfaces = {0}
    Sectors = {}
    Things = {0}
    ListSize = 1
    FrameSteps = 2
    MaxUp = 1
    MaxDown = 2
    MaxConnects = 2
    MaxDestroyed = 0
    MaxDrops = 0
    MaxLevels = 1
    HostMayLeave = FALSE
SYMMETRY MCSymmetry
INVARIANTS
    SynchronizedFirst
CHECK_DEADLOCK FALSE
