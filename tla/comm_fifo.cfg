SPECIFICATION FairSpec
CONSTANTS
    Procs = {1, 2}
    Host = 1
    Home <- MCHome
    MaxPlayers = 2
    InitPlayers <- MCPlayers
    NumBuf = 2
    NumPairs = 2
    IdSpan = 3
    ResendMs = 1
    MaxRetry = 2
    Dests <- MCBroadcast
    Kinds = {"GAME"}
    Modes = {TRUE, FALSE}
    Reorder = FALSE
    Duplicate = FALSE
    SendsOf <- MCHostSends3
    LastSendMs = 2
    Horizon <- MCHorizon
    NetCap = 3
    RosterChangesOf <- MCStable
INVARIANTS
    InOrder
PROPERTIES
    BufferDrains
