SPECIFICATION FairSpec
CONSTANTS
    NumEvents = 2
    NumTasks = 4
    NetTask = 2
    NetRates = {2}
    AiTask = 3
    AiRate = 1
    TimeSpan = 16
    MaxDelta = 2
    Cogs = {c1}
    TimerIds = {0, 1}
    Delays = {0, 2}
    MaxArms = 3
    MaxRegisters = 1
    MaxSaves = 1
    MaxLoads = 1
    MaxLevels = 1
    Horizon = 2
INVARIANTS
    TypeOK
    SlotsPartition
    ArmedDuringAdvanceWaits
    TasksKept
PROPERTIES
    ImplementsQueue
    EventuallyGone
CHECK_DEADLOCK FALSE
