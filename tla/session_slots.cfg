SPECIFICATION Spec
CONSTANTS
    Clients = {p1, p2}
    NumSlots = 2
    NumIds = 3
    NumSurfaces = 0
    NumSectors = 1
    Surfaces = {}
    Sectors = {}
    Things = {0}
    ListSize = 1
    FrameSteps = 2
    MaxUp = 1
    MaxDown = 2
    MaxConnects = 3
    MaxDestroyed = 0
    MaxDrops = 1
    MaxLevels = 1
    HostMayLeave = FALSE
SYMMETRY MCSymmetry
INVARIANTS
    GoneBeforeReuse
    OneSlotEach
    SlotAgreed
CHECK_DEADLOCK FALSE
