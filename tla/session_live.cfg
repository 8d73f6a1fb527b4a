SPECIFICATION FairSpec
CONSTANTS
    Clients = {p1, p2}
    NumSlots = 1
    NumIds = 3
    NumSurfaces = 0
    NumSectors = 0
    Surfaces = {}
    Sectors = {}
    Things = {0}
    ListSize = 1
    FrameSteps = 1
    MaxUp = 1
    MaxDown = 2
    MaxConnects = 2
    MaxDestroyed = 0
    MaxDrops = 1
    MaxLevels = 1
    HostMayLeave = TRUE
PROPERTIES
    StrangersGo
    JoinResolved
CHECK_DEADLOCK FALSE
