SPECIFICATION Spec
CONSTANTS
    Procs = {1, 2, 3}
    Host = 1
    Home <- MCHome
    MaxPlayers = 3
    InitPlayers <- MCPlayers
    NumBuf = 2
    NumPairs = 2
    IdSpan = 16
    ResendMs = 1
    MaxRetry = 2
    Dests <- MCToTwo
    Kinds = {"GAME"}
    Modes = {TRUE}
    Reorder = TRUE
    Duplicate = TRUE
    SendsOf <- MCHostSends2
    LastSendMs = 1
    Horizon <- MCHorizon
    NetCap = 2
    RosterChangesOf <- MCStable
INVARIANTS
    TypeOK PendingCounted AckedWasDispatched AtMostOncePerWindow
