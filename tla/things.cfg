SPECIFICATION FairSpec
CONSTANTS
    NumThingsLoaded = 3
    LevelThings = 2
    ScanLength = 2
    MaxVerbs = 6
    MaxCalls = 6
INVARIANTS
    TypeOK
    PoolExact
    HighWater
    ListsSound
PROPERTIES
    LivingStays
    RemovedGoes
