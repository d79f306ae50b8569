SPECIFICATION FairSpec
CHECK_DEADLOCK FALSE
CONSTANTS
    p = p
    q = q
    Profiles <- MCProfiles
    Steps <- MCNoSteps
    MaxPersisted = 2
    MaxJobs = 3
    MaxRestarts = 1
PROPERTY ActiveJobsAreRemembered
