SPECIFICATION FairSpec
CHECK_DEADLOCK FALSE
CONSTANTS
    p = p
    q = q
    Profiles <- MCProfiles
    Steps <- MCSomeSteps
    MaxPersisted = 1
    MaxJobs = 2
    MaxRestarts = 1
INVARIANTS
    JobsConsistent
PROPERTIES
    ImplementsJobService
    StageMovesForward
    CancelHolds
    EveryJobEnds
