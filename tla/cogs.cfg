SPECIFICATION FairSpec
CONSTANTS
    NumCogs = 2
    path = path
    Paths = {path}
    Messages = {"m", "pulse", "timer"}
    NoMessage = NoMessage
    Programs <- MCPrograms
    Routes <- MCRoutes
    MaxFrames = 4
    MaxSleep = 2
    MaxMessages = 3
INVARIANTS
    TypeOK
    RunningHasLoop
PROPERTIES
    HandlersNest
    ComesToRest
