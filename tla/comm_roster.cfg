SPECIFICATION Spec
CONSTANTS
    Procs = {1, 2, 3}
    Host = 1
    Home <- MCHome
    MaxPlayers = 3
    InitPlayers <- MCThreeJoins
    NumBuf = 2
    NumPairs = 2
    IdSpan = 16
    ResendMs = 1
    MaxRetry = 2
    Dests <- MCBroadcast
    Kinds = {"GAME", "WELCOME"}
    Modes = {TRUE}
    Reorder = FALSE
    Duplicate = FALSE
    SendsOf <- MCHostAndNewSend
    LastSendMs = 0
    Horizon <- MCHostClock
    NetCap = 1
    RosterChangesOf <- MCHostSwaps
PROPERTIES
    ImplementsCast
