SPECIFICATION FairSpec
CONSTANTS
    w1 = w1
    w2 = w2
    Workers = {w1}
    Books <- IntervalOnly
    Offers <- NoOffer
    Profiles = {"core"}
    MaxTime = 3
    MaxJobs = 1
    MaxTroubles = 1
    MaxSchedules = 1
    Lease = 2
    Grace = 1
    Day = 3
    RunsKept = 100
PROPERTY
    EveryRunEnds
