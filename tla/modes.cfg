SPECIFICATION FairSpec
CONSTANTS
    Episodes <- MCEpisodes
    Roles = {"server", "client"}
    MaxSaves = 1
    NONE = NONE
INVARIANTS
    TypeOK
    WorldHeld
    NothingSkipped
PROPERTIES
    EndedIsOver
    GoesOn
