SPECIFICATION StorageSpec
CHECK_DEADLOCK FALSE
SYMMETRY Symmetry
CONSTANTS
    Processes = {"p", "q"}
    Clearers = {"p"}
    Unseen <- MCUnseen
    Create = "new"
    Commands = {"brief", "approve"}
    Transitions = {"approve"}
    MaxRuns = 3
    MaxMishaps = 3
    CommandKeys = {"k1", "k2"}
    MaxSaved = 8
    Servers <- MCTwins
    Beginnings <- MCBeginnings
    OldArchives <- MCOldArchives
    MaxEdits = 1
    MaxDeaths = 2
    MaxRestores = 1
    d1 = d1
    d2 = d2
    Keys = {"x", "y"}
    Dispatchers <- MCTwins
    MaxAttempts = 2
    MaxKept = 2
    BatchLimit = 2
    MaxIssued = 3
    MaxStumbles = 1
INVARIANTS
    StoreSound
    RuntimeSound
    WorkspaceSound
    OutboxSound
    OutboxSends
PROPERTIES
    StoreNoLostUpdate
    WorkspaceRestores
